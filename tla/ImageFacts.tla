----------------------------- MODULE ImageFacts -----------------------------
(* What a container scan looks up beside the image, and writes into the graph
   it has reconciled (core/container_scan.py): the commands that made the layers
   (container/history.py), the base image they start from
   (container/baseimage.py), what attached documents claim is inside
   (container/attest.py), and which programs run in the container.  The passes
   follow one another over one store. *)
EXTENDS Integers, Sequences, FiniteSets, TLC

CONSTANT MaxGathered

VARIABLES
    topic,      \* bound: a behaviour is about one of the four
    history,    \* of the image's config
    dockerfile, \* its instructions
    packs,      \* version of the base-images pack -> its entries, or Spoiled
    declared,   \* the image declares the name of its base
    documents,  \* attached to the image
    processes,  \* command lines in a running container
    components, \* of the store, in order
    remarks,    \* annotations of the run
    base,       \* what the run says of the base image
    linked,     \* ordinal -> instruction of the layer and its line
    pass        \* what comes next

materials == <<topic, history, dockerfile, packs, declared, documents, processes>>
factVars == <<materials, components, remarks, base, linked, pass>>

None == "none"
Topics == {"history", "base", "claims", "processes"}
\* The digests of the layers; a running container has one, its root exported.
DiffIds == IF topic = "processes" THEN <<9>> ELSE <<1, 2>>
Ordinals == 0 .. Len(DiffIds) - 1
----------------------------------------------------------------------------
(* history.py *)

\* An instruction, and how the builder that ran it noted it down.
Instruction(word, rest) == <<word, rest>>
RunIt == Instruction("RUN", "make")
CopyIt == Instruction("COPY", "app")
EnvIt == Instruction("ENV", "x")
HistoryEntry(builder, instruction) ==
    [builder |-> builder, instruction |-> instruction, empty |-> instruction = EnvIt]
\* What BuildKit ran keeps the shell in front of it, and a classic builder notes
\* down the digest of what it copied.
NormalizeCreatedBy(h) ==
    IF <<h.builder, h.instruction>> \in {<<"buildkit", RunIt>>, <<"classic", CopyIt>>}
    THEN Instruction(h.instruction[1], "in other words") ELSE h.instruction

Layered == SelectSeq(history, LAMBDA h : ~h.empty)
NoCommand == Instruction("", "")
LinkHistory == [k \in Ordinals |-> IF k < Len(Layered) THEN NormalizeCreatedBy(Layered[k + 1]) ELSE NoCommand]

\* The first line with that text that no layer below took.
FreeLines(command, used) == {n \in DOMAIN dockerfile \ used : dockerfile[n] = command}
LineOf(command, used) ==
    IF FreeLines(command, used) = {} THEN 0
    ELSE CHOOSE n \in FreeLines(command, used) : \A m \in FreeLines(command, used) : n <= m
RECURSIVE LinesTo(_)
LinesTo(n) ==
    IF n = 0 THEN << >>
    ELSE LET below == LinesTo(n - 1)
         IN  Append(below, LineOf(LinkHistory[n - 1], {below[k] : k \in DOMAIN below}))
LinkDockerfile == [k \in Ordinals |-> [command |-> LinkHistory[k], line |-> LinesTo(k + 1)[k + 1]]]
----------------------------------------------------------------------------
(* The components that reconcile left *)

\* Files of the evidence, by their last name, and the layer that each comes from;
\* one of them no layer shows.
BaseName == "usr/bin/app" :> "app" @@ "opt/app" :> "app" @@ "usr/bin/curl" :> "curl" @@ "proc/self" :> "self"
OwnerOrdinal(f) == CASE f = "proc/self" -> -1 [] f = "opt/app" -> Len(DiffIds) - 1 [] OTHER -> 0
\* seen: the first layer whose package database has the version, if one has.
Component(name, version, ctype, files, seen) ==
    [name |-> name, version |-> version, ctype |-> ctype, files |-> files, seen |-> seen,
     excluded |-> FALSE, state |-> None, layer |-> -1, line |-> 0, from |-> None,
     scope |-> "runtime", notes |-> {}]
Superseded(c, emitted) == [c EXCEPT !.state = "superseded", !.layer = c.seen, !.excluded = ~emitted]
Reconciled ==
    {Component("app", 1, "library", {"usr/bin/app"}, -1),
     Component("app", 2, "application", {"opt/app", "usr/bin/app"}, -1),
     Component("app", 2, "library", {"opt/app"}, -1),
     Component("curl", 2, "os-package", {"usr/bin/curl"}, 1),
     Component("ghost", 1, "library", {"proc/self"}, -1)}
Historical == {Superseded(Component("curl", 1, "os-package", {}, 0), emitted) : emitted \in BOOLEAN}

\* The introducing layer: of the package database, or the lowest that shows a
\* file of the evidence.
IntroducingOrdinal(c) ==
    LET shown == {OwnerOrdinal(f) : f \in c.files} \ {-1}
    IN  IF c.ctype = "os-package" /\ c.seen \in Ordinals THEN c.seen
        ELSE IF shown = {} THEN -1 ELSE CHOOSE o \in shown : \A p \in shown : o <= p
Everywhere(update(_)) == [i \in DOMAIN components |-> update(components[i])]
----------------------------------------------------------------------------
(* attest.py *)

Attested(name, version, purl) == [name |-> name, version |-> version, purl |-> purl]
\* An attached blob: how it is wrapped, what it is said to be, what it claims.
Blob(wrap, says, claims) == [wrap |-> wrap, says |-> says, claims |-> claims]
StatementKind(b) == IF b.says = "other" THEN "unknown" ELSE b.says
ParseEnvelope(b) ==
    CASE b.wrap = "garbage" -> None
      [] b.wrap = "other payload" -> "unknown"
      [] b.wrap = "bare" -> IF b.says \in {"cyclonedx", "spdx"} THEN b.says ELSE "unknown"
      [] OTHER -> StatementKind(b)
\* What has no name is left out; a document that claims nothing is not kept.
ClaimsOf(b) == SelectSeq(b.claims, LAMBDA c : c.name # None)
IsSbom(b) == ParseEnvelope(b) \in {"cyclonedx", "spdx"} /\ ClaimsOf(b) # << >>
SbomDocs == LET kept == SelectSeq(documents, IsSbom) IN [k \in DOMAIN kept |-> [claims |-> ClaimsOf(kept[k])]]

\* Names are compared when there is no purl, purls without their version.
FamilyOf(name, purl) == IF purl THEN <<"pkg", name>> ELSE <<name>>
Counted(c) == ~c.excluded /\ c.state = None
Scanned == SelectSeq(components, Counted)
\* The first scanned component of a family.
HitOf(claim) ==
    LET hits == SelectSeq(Scanned, LAMBDA c : FamilyOf(c.name, TRUE) = FamilyOf(claim.name, claim.purl))
    IN  IF hits = << >> THEN << >> ELSE <<Head(hits)>>
\* by_name: the last component of the name, excluded ones included.
ByName(name) ==
    LET named == {i \in DOMAIN components : components[i].name = name}
    IN  CHOOSE i \in named : \A j \in named : j <= i
Disagree(claim, version) == claim.version # 0 /\ claim.version # version

CrossCheck(doc) ==
    LET claims == {doc.claims[k] : k \in DOMAIN doc.claims}
        hits == {c \in claims : HitOf(c) # << >>}
        mismatches == {c \in hits : Disagree(c, HitOf(c)[1].version)}
        noted(i, those) == \E c \in those : ByName(HitOf(c)[1].name) = i
        unclaimed == {Scanned[k].name : k \in DOMAIN Scanned} \ {c.name : c \in {d \in claims : d.purl}}
    IN  [notes |-> [i \in DOMAIN components |->
                      (IF noted(i, mismatches) THEN {"drift"} ELSE {})
                        \cup (IF noted(i, hits \ mismatches) THEN {"corroborated"} ELSE {})],
         remarks |-> {<<"drift", c>> : c \in claims \ hits}
                       \cup (IF unclaimed = {} THEN {} ELSE {<<"incomplete", unclaimed>>})]
----------------------------------------------------------------------------
(* baseimage.py *)

Spoiled == << <<"another schema", << >> >> >>
\* The versions of a pack in the order of their directories' names.
PathOrder == <<10, 9>>
LoadPack ==
    LET there == SelectSeq(PathOrder, LAMBDA v : v \in DOMAIN packs)
    IN  IF there = << >> THEN << >> ELSE packs[there[Len(there)]]
IsStartOf(chain, ids) == Len(chain) \in 1 .. Len(ids) /\ SubSeq(ids, 1, Len(chain)) = chain
NoBase == [name |-> None, boundary |-> 0, method |-> None]
\* The longest chain, of equal ones the first listed; then the declared name.
IdentifyBase ==
    LET fits == {k \in DOMAIN LoadPack : IsStartOf(LoadPack[k][2], DiffIds)}
        best == {k \in fits : \A j \in fits : Len(LoadPack[j][2]) <= Len(LoadPack[k][2])}
        entry == LoadPack[CHOOSE k \in best : \A j \in best : k <= j]
    IN  IF fits # {} THEN [name |-> entry[1], boundary |-> Len(entry[2]), method |-> "layer-chain"]
        ELSE IF declared THEN [name |-> "declared", boundary |-> 0, method |-> "oci-annotation"] ELSE NoBase
----------------------------------------------------------------------------
(* The passes *)

AttributeLayers ==
    /\ pass = "attribute"
    /\ linked' = LinkDockerfile
    /\ components' = Everywhere(LAMBDA c :
         LET ordinal == IntroducingOrdinal(c)
         IN  IF c.state # None \/ ordinal = -1 THEN c ELSE [c EXCEPT !.layer = ordinal, !.line = linked'[ordinal].line])
    /\ pass' = "base"
    /\ UNCHANGED <<materials, remarks, base>>

SplitBaseComponents(found) ==
    Everywhere(LAMBDA c :
      IF ~c.excluded /\ c.layer \in 0 .. found.boundary - 1 THEN [c EXCEPT !.from = found.name] ELSE c)
\* A pack of another schema ends the scan.
SplitBase ==
    /\ pass = "base"
    /\ IF LoadPack = Spoiled
       THEN pass' = "failed" /\ UNCHANGED <<components, base>>
       ELSE /\ base' = IdentifyBase
            /\ components' = SplitBaseComponents(IdentifyBase)
            /\ pass' = "claims"
    /\ UNCHANGED <<materials, remarks, linked>>

CrossCheckAttestations ==
    /\ pass = "claims"
    /\ LET results == {CrossCheck(SbomDocs[k]) : k \in DOMAIN SbomDocs}
       IN  /\ components' = [i \in DOMAIN components |->
                                [components[i] EXCEPT !.notes = UNION {r.notes[i] : r \in results}]]
           /\ remarks' = UNION {r.remarks : r \in results}
    /\ pass' = "processes"
    /\ UNCHANGED <<materials, base, linked>>

\* The program a command line starts: a file, or only its name.
ObservedNames == {IF p \in DOMAIN BaseName THEN BaseName[p] ELSE p : p \in processes}
ObserveRunningProcesses ==
    /\ pass = "processes"
    /\ components' = Everywhere(LAMBDA c :
         IF c.ctype \in {"application", "library"} /\ \E f \in c.files : BaseName[f] \in ObservedNames
         THEN [c EXCEPT !.scope = "runtime-observed"] ELSE c)
    /\ pass' = "done"
    /\ UNCHANGED <<materials, remarks, base, linked>>
----------------------------------------------------------------------------
(* What there is to look up *)

Gathered == Len(history) + Len(dockerfile) + Len(components) + Len(documents) + Cardinality(processes)
              + (IF declared THEN 1 ELSE 0) + Cardinality(UNION {{v} \X DOMAIN packs[v] : v \in DOMAIN packs})
Gathering == pass = "gather" /\ Gathered < MaxGathered
NothingDone == UNCHANGED <<remarks, base, linked, pass, topic>>

AddComponent ==
    /\ Gathering /\ Len(components) < 2
    /\ \E c \in Reconciled \cup (IF topic = "processes" THEN {} ELSE Historical) :
          /\ \A i \in DOMAIN components : <<components[i].name, components[i].version>> # <<c.name, c.version>>
          \* Historical components are added after the others.
          /\ components # << >> => components[Len(components)].state = None
          /\ components' = Append(components, c)
    /\ UNCHANGED <<history, dockerfile, packs, declared, documents, processes>> /\ NothingDone
BuildLayer ==
    /\ Gathering /\ topic = "history"
    /\ \E h \in {HistoryEntry(b, i) : b \in {"classic", "buildkit"}, i \in {RunIt, CopyIt, EnvIt}} :
          history' = Append(history, h)
    /\ UNCHANGED <<dockerfile, packs, declared, documents, processes, components>> /\ NothingDone
WriteInstruction ==
    /\ Gathering /\ topic = "history"
    /\ \E i \in {RunIt, CopyIt, EnvIt} : dockerfile' = Append(dockerfile, i)
    /\ UNCHANGED <<history, packs, declared, documents, processes, components>> /\ NothingDone
PublishPack ==
    /\ Gathering /\ topic = "base"
    /\ \E v \in {9, 10} :
          LET entries == IF v \in DOMAIN packs THEN packs[v] ELSE << >>
              with(es) == [w \in DOMAIN packs \cup {v} |-> IF w = v THEN es ELSE packs[w]]
          IN  \/ entries = << >> /\ packs' = with(Spoiled)
              \/ /\ entries # Spoiled
                 /\ \E e \in {<<"debian", <<1>> >>, <<"python", <<1, 2>> >>, <<"other", <<1, 3>> >>} :
                       packs' = with(Append(entries, e))
    /\ UNCHANGED <<history, dockerfile, declared, documents, processes, components>> /\ NothingDone
DeclareBase ==
    /\ Gathering /\ topic = "base" /\ ~declared
    /\ declared' = TRUE
    /\ UNCHANGED <<history, dockerfile, packs, documents, processes, components>> /\ NothingDone
Claims == {Attested("curl", v, TRUE) : v \in {0, 1, 2}}
            \cup {Attested("app", 2, TRUE), Attested("app", 2, FALSE), Attested(None, 1, TRUE)}
AttachDocument ==
    /\ Gathering /\ topic = "claims"
    /\ \E b \in {Blob("dsse", "cyclonedx", <<c>>) : c \in Claims}
                  \cup {Blob("bare", "spdx", <<Attested("app", 1, TRUE), c>>) : c \in Claims}
                  \cup {Blob("garbage", "spdx", << >>), Blob("other payload", "spdx", <<Attested("app", 2, TRUE)>>),
                        Blob("statement", "provenance", << >>)} :
          documents' = Append(documents, b)
    /\ UNCHANGED <<history, dockerfile, packs, declared, processes, components>> /\ NothingDone
StartProcess ==
    /\ Gathering /\ topic = "processes"
    /\ \E p \in {"usr/bin/app", "opt/app", "app", "usr/bin/curl"} \ processes : processes' = processes \cup {p}
    /\ UNCHANGED <<history, dockerfile, packs, declared, documents, components>> /\ NothingDone
Reconcile ==
    /\ pass = "gather"
    /\ pass' = "attribute"
    /\ UNCHANGED <<materials, components, remarks, base, linked>>

FactInit ==
    /\ topic \in Topics
    /\ history = << >> /\ dockerfile = << >> /\ packs = << >> /\ declared = FALSE /\ documents = << >> /\ processes = {}
    /\ components = << >> /\ remarks = {} /\ base = NoBase /\ linked = << >> /\ pass = "gather"
FactNext ==
    \/ AddComponent \/ BuildLayer \/ WriteInstruction \/ PublishPack \/ DeclareBase \/ AttachDocument \/ StartProcess
    \/ Reconcile \/ AttributeLayers \/ SplitBase \/ CrossCheckAttestations \/ ObserveRunningProcesses
FactSpec == FactInit /\ [][FactNext]_factVars
----------------------------------------------------------------------------
(* Properties *)

Live == {c \in {components[i] : i \in DOMAIN components} : ~c.excluded /\ c.state = None}

\* A layer is linked to the line that made it: when the layers above some base
\* were made by the lines of this file, by builders that note instructions down
\* as they are, and none of the base's commands is among them.
LinesAreTheMakers ==
    LET made == SelectSeq([n \in DOMAIN dockerfile |-> n], LAMBDA n : dockerfile[n] # EnvIt)
        from == Len(DiffIds) - Len(made)
        made_here == /\ from >= 0 /\ Len(Layered) = Len(DiffIds)
                     /\ \A k \in DOMAIN made : NormalizeCreatedBy(Layered[from + k]) = dockerfile[made[k]]
                     /\ \A k \in 1 .. from : NormalizeCreatedBy(Layered[k]) \notin {dockerfile[n] : n \in DOMAIN dockerfile}
    IN  /\ \A j, k \in Ordinals : linked[j].line # 0 /\ linked[j].line = linked[k].line => j = k
        /\ made_here => \A k \in DOMAIN made : linked[from + k - 1].line = made[k]

\* What came with the base is what has a trace in a layer of the longest chain
\* that the newest pack knows, unless the versions' names sort otherwise.
BaseIsTheLongestKnown ==
    LET newest == IF packs = << >> THEN << >> ELSE packs[CHOOSE v \in DOMAIN packs : \A w \in DOMAIN packs : w <= v]
        chains == {newest[k][2] : k \in DOMAIN newest}
        below == {n \in 1 .. Len(DiffIds) : SubSeq(DiffIds, 1, n) \in chains}
        traces(c) == IF c.ctype = "os-package" THEN {c.seen} ELSE {OwnerOrdinal(f) : f \in c.files}
        inherited(c) == ~c.excluded /\ \E n \in below : traces(c) \cap (0 .. n - 1) # {}
    IN  Cardinality(DOMAIN packs) <= 1 =>
          \A i \in DOMAIN components : components[i].from # None <=> inherited(components[i])

\* Every claim of an attached bill of materials is answered by what the scan
\* found: agreement on the component, disagreement as drift; where one version
\* of the package is in the image and the claim has a purl.
ClaimsAreAnswered ==
    \A k \in DOMAIN SbomDocs : \A j \in DOMAIN SbomDocs[k].claims :
      LET claim == SbomDocs[k].claims[j]
          mine == {c \in Live : c.name = claim.name}
          alone == Cardinality({i \in DOMAIN components : components[i].name = claim.name}) = 1
      IN  claim.purl =>
            /\ mine = {} => <<"drift", claim>> \in remarks
            /\ alone => \A c \in mine :
                  (IF claim.version \in {0, c.version} THEN "corroborated" ELSE "drift") \in c.notes
NothingIsCorroboratedUnclaimed ==
    \A c \in Live :
       "corroborated" \in c.notes => \E k \in DOMAIN SbomDocs : \E j \in DOMAIN SbomDocs[k].claims :
          /\ SbomDocs[k].claims[j].name = c.name
          /\ SbomDocs[k].claims[j].version \in {0, c.version} \/ \E d \in Live : d.name = c.name /\ d # c

\* The programs that run are observed, and where file names do not repeat
\* nothing else is.
RunningIsObserved ==
    LET known == processes \cup UNION {c.files : c \in Live}
        distinct == known \subseteq DOMAIN BaseName /\ \A f, g \in known : BaseName[f] = BaseName[g] => f = g
        runs(c) == c.ctype # "os-package" /\ c.files \cap processes # {}
        observed(c) == c.scope = "runtime-observed"
    IN  \A c \in Live : (runs(c) => observed(c)) /\ (distinct /\ observed(c) => runs(c))

\* What a scan looked up beside the image is true of the image.
ImageFactsHold ==
    pass = "done" => /\ LinesAreTheMakers /\ BaseIsTheLongestKnown
                     /\ ClaimsAreAnswered /\ NothingIsCorroboratedUnclaimed /\ RunningIsObserved
=============================================================================
