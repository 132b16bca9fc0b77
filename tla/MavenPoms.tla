------------------------------ MODULE MavenPoms ------------------------------
(* The pom.xml of a module, the poms that its parent element leads to and the
   bills of materials it imports (catalogers/jvm.py).  What Maven makes of them
   together is the effective model; the cataloger reads it off the files that
   are there and says which ones are not.  One library is managed, imported and
   depended upon. *)
EXTENDS Findings, SequencesExt, TLC

CONSTANT MaxPomEdits

VARIABLES
    poms,    \* directory -> the pom in it
    drafted, \* edits so far
    module   \* what the cataloger reported of a pom, none before

pomVars == <<poms, drafted, module>>

\* A text is left out, a literal or the name of a property to put there.
Blank == << >>
Text(n) == <<n>>
Property(name) == <<"property", name>>
IsOpen(text) == Len(text) = 2
AtMostOne(seq) == IF seq = << >> THEN << >> ELSE <<Head(seq)>>

NoDependency == [version |-> Blank, scope |-> None, profile |-> "no dependency"]
Pom(artifact, version, parent) ==
    [artifact |-> artifact, version |-> version, parent |-> parent, elsewhere |-> FALSE,
     properties |-> << >>, management |-> << >>, imports |-> << >>, dependency |-> NoDependency]

\* Directories, from the root of the scan; a parent is looked for one above.
Top == << >>
App == <<"app">>
DirOver(dir) == IF dir = Top \/ Head(dir) = ".." THEN Append(dir, "..") ELSE Front(dir)
----------------------------------------------------------------------------
(* MavenPomCataloger.parse *)

MaxParentDepth == 16
MaxInterpolations == 9

HasParent(dir) == poms[dir].parent # Blank
RECURSIVE Upwards(_)
Upwards(chain) ==
    LET over == DirOver(Last(chain))
        found == HasParent(Last(chain)) /\ over \in DOMAIN poms
    IN  IF found /\ Len(chain) <= MaxParentDepth THEN Upwards(Append(chain, over)) ELSE chain
Chain(entry) == Upwards(<<entry>>)
LacksParent(chain) == HasParent(Last(chain)) /\ DirOver(Last(chain)) \notin DOMAIN poms

PropertiesOf(chain) == FoldRight(LAMBDA dir, all : poms[dir].properties @@ all, chain, << >>)
OwnVersion(entry) == IF poms[entry].version # Blank THEN poms[entry].version ELSE Tail(poms[entry].parent)
WithProject(properties, version) == properties @@ (IF version = Blank THEN << >> ELSE "project.version" :> version)
RECURSIVE Put(_, _, _)
Put(text, properties, times) ==
    IF times = 0 \/ ~IsOpen(text) THEN text
    ELSE IF text[2] \in DOMAIN properties THEN Put(properties[text[2]], properties, times - 1) ELSE text
Interpolate(text, properties) == Put(text, properties, MaxInterpolations)

\* The conventional places of a bill of materials, around the module that is read.
FindBom(entry, artifact) ==
    SelectSeq(<<Append(entry, artifact), Append(DirOver(entry), artifact), Append(entry, "bom")>>,
              LAMBDA dir : dir \in DOMAIN poms /\ poms[dir].artifact = artifact)
ImportsOf(chain) == FlattenSeq(Reverse([k \in DOMAIN chain |-> poms[chain[k]].imports]))
Management(entry, chain) ==
    LET managing == SelectSeq(chain, LAMBDA dir : poms[dir].management # << >>)
        boms == SelectSeq(FlattenSeq([k \in DOMAIN ImportsOf(chain) |-> AtMostOne(FindBom(entry, ImportsOf(chain)[k]))]),
                          LAMBDA dir : poms[dir].management # << >>)
    IN  IF managing \o boms = << >> THEN << >> ELSE poms[Head(managing \o boms)].management

FirstNamed(one, other) == IF one # None THEN one ELSE other
\* The file that defines the property a version is written with.
PropertyEvidence(chain, text) ==
    ToSet(AtMostOne(SelectSeq(chain, LAMBDA dir : IsOpen(text) /\ text[2] \in DOMAIN poms[dir].properties)))
\* The version, the scope, the profile it depends on, and the files cited for it.
ReportDependency(entry, chain, properties) ==
    LET asked == poms[entry].dependency
        managed == Management(entry, chain)
        raw == IF asked.version = Blank /\ managed # << >> THEN managed[1] ELSE asked.version
        scope == FirstNamed(asked.scope, FirstNamed(IF managed = << >> THEN None ELSE managed[2], "compile"))
        text == Interpolate(raw, properties)
    IN  [version |-> IF IsOpen(text) THEN Blank ELSE text, scope |-> scope, profile |-> asked.profile,
         cites |-> {entry} \cup PropertyEvidence(chain, asked.version)]

NotRead == [entry |-> << >>, self |-> << >>, dependencies |-> {}, told |-> {}]
ParsePom(entry) ==
    LET chain == Chain(entry)
        version == OwnVersion(entry)
        properties == WithProject(PropertiesOf(chain), version)
        self == IF version # Blank /\ ~IsOpen(version) THEN <<Interpolate(version, properties)>> ELSE << >>
        dependencies == IF poms[entry].dependency = NoDependency THEN {} ELSE {ReportDependency(entry, chain, properties)}
        missing == (IF LacksParent(chain) THEN {"parent"} ELSE {})
                     \cup {a \in ToSet(ImportsOf(chain)) : FindBom(entry, a) = << >>}
    IN  /\ module = NotRead
        \* Bound: of the poms of the tree, the module and its parent are looked at.
        /\ poms[entry].artifact \in {"app", "parent"}
        \* Annotations travel with the first finding.
        /\ module' = [entry |-> entry, self |-> self, dependencies |-> dependencies,
                      told |-> IF self = << >> /\ dependencies = {} THEN {} ELSE missing]
        /\ UNCHANGED <<poms, drafted>>
----------------------------------------------------------------------------
(* Whoever writes the project *)

Edit(dir, pom) ==
    /\ module = NotRead /\ drafted < MaxPomEdits
    /\ poms[dir] # pom
    /\ poms' = [poms EXCEPT ![dir] = pom]
    /\ drafted' = drafted + 1
    /\ UNCHANGED module
Projects == {d \in DOMAIN poms : poms[d].artifact \in {"app", "parent", "other", "above"}}
DefineProperty ==
    \E d \in Projects,
       def \in ({"p"} \X {Text(1), Property("q")}) \cup ({"q"} \X {Text(2), Property("p")}) :
       def[1] \notin DOMAIN poms[d].properties /\ Edit(d, [poms[d] EXCEPT !.properties = (def[1] :> def[2]) @@ @])
Manage ==
    \E d \in DOMAIN poms, entry \in {<<Text(2), "test">>, <<Property("p"), None>>} :
       poms[d].management = << >> /\ Edit(d, [poms[d] EXCEPT !.management = entry])
Import ==
    \E d \in Projects, artifact \in {"lib", "platform"} :
       artifact \notin ToSet(poms[d].imports) /\ Edit(d, [poms[d] EXCEPT !.imports = Append(@, artifact)])

\* The module may leave its version to its parent or to a property, and its
\* dependency the version to somebody else; the parent may be missing, be another
\* project, be meant to come from a repository, or have a parent itself.
Unmanaged == {[version |-> v, scope |-> None, profile |-> None] : v \in {Blank, Property("p")}}
Dependencies ==
    Unmanaged \cup {[d EXCEPT !.scope = "provided"] : d \in Unmanaged}
      \cup {[version |-> Property("project.version"), scope |-> None, profile |-> "it"]}
Situations ==
    ({<<Text(1), "found">>} \X Dependencies) \cup {<<<<Property("p"), "found">>, NoDependency>>}
      \cup (({<<Blank, "found">>} \cup ({Text(1)} \X {"missing", "foreign", "elsewhere", "child"})) \X Unmanaged)
Drawn(situation, dependency) ==
    LET parent == situation[2]
        app == Pom("app", situation[1], <<"parent", 2>>)
        top == Pom(IF parent = "foreign" THEN "other" ELSE "parent", Text(2),
                   IF parent = "child" THEN <<"above", 3>> ELSE Blank)
    IN  (App :> [app EXCEPT !.elsewhere = (parent = "elsewhere"), !.dependency = dependency])
          @@ (<<"lib">> :> Pom("lib", Text(1), Blank)) @@ (<<"bom">> :> Pom("platform", Text(1), Blank))
          @@ (IF parent = "missing" THEN << >> ELSE Top :> [top EXCEPT !.dependency = dependency])
          @@ (IF parent = "child" THEN <<"..">> :> Pom("above", Text(3), Blank) ELSE << >>)

PomInit ==
    /\ \E s \in Situations : poms = Drawn(s[1], s[2])
    /\ drafted = 0 /\ module = NotRead
PomNext == DefineProperty \/ Manage \/ Import \/ \E entry \in DOMAIN poms : ParsePom(entry)
----------------------------------------------------------------------------
(* Properties *)

\* What Maven reads: a parent is the pom that has the name it asks for, and the
\* nearest of a line that says something is heard.
Parent(dir) ==
    {p \in DOMAIN poms : /\ p = DirOver(dir) /\ HasParent(dir) /\ ~poms[dir].elsewhere
                         /\ poms[p].artifact = poms[dir].parent[1]}
RECURSIVE Lineage(_)
Lineage(dir) == {dir} \cup UNION {Lineage(p) : p \in Parent(dir)}
Nearer(line, dir) == {d \in line : Len(Chain(d)) > Len(Chain(dir))}
Heard(line, says(_)) == {d \in line : says(d) /\ \A n \in Nearer(line, d) : ~says(n)}
MeantBy(entry, text) ==
    LET version == IF poms[entry].version # Blank THEN poms[entry].version ELSE Tail(poms[entry].parent)
        step(t) == IF ~IsOpen(t) THEN t
                   ELSE LET by == Heard(Lineage(entry), LAMBDA d : t[2] \in DOMAIN poms[d].properties)
                        IN  IF by # {} THEN poms[CHOOSE d \in by : TRUE].properties[t[2]]
                            ELSE IF t[2] = "project.version" THEN version ELSE t
        settled == step(step(step(step(text))))
    IN  IF IsOpen(settled) THEN Blank ELSE settled

\* What the line of a module imports and what of it is in the repository.
Imported(entry) == {<<d, a>> \in Lineage(entry) \X {"lib", "platform"} : a \in ToSet(poms[d].imports)}
BomOf(entry, artifact) == ToSet(AtMostOne(FindBom(entry, artifact)))
ManagedBy(entry) ==
    LET own == Heard(Lineage(entry), LAMBDA d : poms[d].management # << >>)
        boms == {b \in UNION {BomOf(entry, i[2]) : i \in Imported(entry)} : poms[b].management # << >>}
    IN  IF own # {} THEN own ELSE boms

\* The parents that were found are the ones that were meant, and one bill of
\* materials at most has something to say that needs no property of its own.
Kin(entry) == \A k \in 1 .. Len(Chain(entry)) - 1 : Chain(entry)[k + 1] \in Parent(Chain(entry)[k])
Undisputed(entry) ==
    /\ Cardinality(ManagedBy(entry)) <= 1
    /\ \A b \in ManagedBy(entry) \ Lineage(entry) : ~IsOpen(poms[b].management[1])

\* The version and the scope of a dependency are those of the effective model, and
\* none is made up; a property of a parent is cited from the parent's file; what
\* is missing from the repository is told, if anything is told of the module.
PomsAreEffective ==
    LET entry == module.entry
        asked == poms[entry].dependency
        versions == IF asked.version # Blank THEN {MeantBy(entry, asked.version)}
                    ELSE {MeantBy(IF b \in Lineage(entry) THEN entry ELSE b, poms[b].management[1]) : b \in ManagedBy(entry)}
        version == IF versions = {} THEN Blank ELSE CHOOSE v \in versions : TRUE
        managedScope == {poms[b].management[2] : b \in ManagedBy(entry)} \ {None}
        scope == FirstNamed(asked.scope, IF managedScope = {} THEN "compile" ELSE CHOOSE s \in managedScope : TRUE)
        definers == Heard(Lineage(entry), LAMBDA d : IsOpen(asked.version) /\ asked.version[2] \in DOMAIN poms[d].properties)
        silent == module.self = << >> /\ module.dependencies = {}
        absent == (IF \E d \in Lineage(entry) : HasParent(d) /\ Parent(d) = {} THEN {"parent"} ELSE {})
                    \cup {i[2] : i \in {j \in Imported(entry) : BomOf(entry, j[2]) = {}}}
    IN  module # NotRead /\ Kin(entry) =>
          /\ \A d \in module.dependencies : definers \subseteq d.cites
          /\ Undisputed(entry) => \A d \in module.dependencies : d.version = version /\ d.scope = scope
          /\ silent \/ module.told = absent
=============================================================================
