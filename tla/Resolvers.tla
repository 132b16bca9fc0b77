----------------------------- MODULE Resolvers -----------------------------
(* The resolvers (resolve/): which versions a range allows (semver.py), and what
   the requirement graph of npm, Go or Maven selects (npm.py, mvs.py, maven.py),
   one package of the work list at a time. *)
EXTENDS Naturals, SequencesExt

CONSTANTS
    Published,        \* the versions of packages, <<name, version>>
    MaxRequirements,  \* requirements of published packages
    MaxDepth          \* max_depth of resolve_npm

\* The name of the project itself, which no package has.
Project == ""
ASSUME PublishedAreVersions ==
    IsFiniteSet(Published) /\ \A p \in Published : p = <<p[1], p[2]>> /\ p[1] # Project /\ p[2] \in Nat
ASSUME DepthIsPositive == MaxDepth \in Nat \ {0}

VARIABLES
    tool,        \* "npm", "go", "maven" or "range"
    requires,    \* the published requirements: <<package, name, versions allowed>>
    roots,       \* what the project requires, in order: <<name, versions allowed>>
    managed,     \* dependencyManagement, replace: name |-> the package in its place
    registry,    \* npm: "up" or "flaky"
    cached,      \* npm: names whose metadata is in the store
    work,        \* the packages still to visit
    visited,
    selected,    \* name |-> version
    nested,      \* npm: the further versions, <<name, version>>
    edges,       \* npm: <<parent, name, versions allowed, version>>
    incomplete,  \* npm: <<name, versions allowed>>
    range        \* "range": alternatives of conjunctions of comparators
resolveVars == <<tool, requires, roots, managed, registry, cached, work, visited,
                 selected, nested, edges, incomplete, range>>

PublishedNames == {p[1] : p \in Published}
VersionsIn(name) == {p[2] : p \in {q \in Published : q[1] = name}}
Greatest(versions) == CHOOSE v \in versions : \A w \in versions : w <= v
----------------------------------------------------------------------------
(* semver.py: a version is its three numbers and its prerelease, identifiers
   that are numbers or else words *)

NumberId(n) == <<0, n>>
WordId(n) == <<1, n>>
Pair(one, other) == one[1] < other[1] \/ (one[1] = other[1] /\ one[2] < other[2])
TripleLess(s, t) == \E i \in 1 .. 3 : s[i] < t[i] /\ \A j \in 1 .. i - 1 : s[j] = t[j]
PreLess(p, q) ==
    /\ p # << >>
    /\ \/ q = << >>
       \/ p # q /\ IsPrefix(p, q)
       \/ \E i \in DOMAIN p \cap DOMAIN q : Pair(p[i], q[i]) /\ \A j \in 1 .. i - 1 : p[j] = q[j]
SemverLess(u, v) == TripleLess(u.nums, v.nums) \/ (u.nums = v.nums /\ PreLess(u.pre, v.pre))

ZeroPre == <<NumberId(0)>>
Semver(nums, pre) == [nums |-> nums, pre |-> pre]
\* Of a partial version the numbers that are given; the others count as zero.
Padded(parts) == [i \in 1 .. 3 |-> IF i <= Len(parts) THEN parts[i] ELSE 0]
Bumped(parts) == Padded([parts EXCEPT ![Len(parts)] = @ + 1])
AtLeast(parts, pre) == [op |-> ">=", than |-> Semver(Padded(parts), pre)]
BelowNext(parts) == [op |-> "<", than |-> Semver(Bumped(parts), ZeroPre)]

\* The numbers that a caret holds: up to the first that is not zero.
CaretHolds(parts) == IF parts[1] > 0 \/ Len(parts) = 1 THEN 1 ELSE IF parts[2] > 0 \/ Len(parts) = 2 THEN 2 ELSE 3

\* _desugar, for a comparator that names at least one number or is plain
Desugar(token) ==
    LET parts == token.parts
        whole == Len(parts) = 3
        exact(op) == {[op |-> op, than |-> Semver(parts, token.pre)]}
        from == AtLeast(parts, token.pre)
    IN  IF parts = << >> THEN {from}
        ELSE CASE token.op = "^" -> {from, BelowNext(SubSeq(parts, 1, CaretHolds(parts)))}
               [] token.op = "~" -> {from, BelowNext(IF Len(parts) = 1 THEN parts ELSE SubSeq(parts, 1, 2))}
               [] token.op = "=" -> IF whole THEN exact("=") ELSE {from, BelowNext(parts)}
               [] token.op = ">=" -> {from}
               [] token.op = "<=" -> IF whole THEN exact("<=") ELSE {BelowNext(parts)}
               [] token.op = ">" -> IF whole THEN exact(">")
                                    ELSE {[op |-> ">=", than |-> Semver(Bumped(parts), ZeroPre)]}
               [] token.op = "<" -> IF whole THEN exact("<")
                                    ELSE {[op |-> "<", than |-> Semver(Padded(parts), ZeroPre)]}

SatisfiedBy(c, v) ==
    CASE c.op = "=" -> v = c.than
      [] c.op = "<" -> SemverLess(v, c.than)
      [] c.op = "<=" -> SemverLess(v, c.than) \/ v = c.than
      [] c.op = ">" -> SemverLess(c.than, v)
      [] c.op = ">=" -> ~SemverLess(v, c.than)
\* A prerelease needs a comparator that names a prerelease of the same numbers.
InRange(alternatives, v) ==
    \E tokens \in alternatives :
       LET comparators == UNION {Desugar(t) : t \in tokens}
       IN  /\ \A c \in comparators : SatisfiedBy(c, v)
           /\ v.pre \notin {<< >>, ZeroPre} => \E c \in comparators : c.than.pre # << >> /\ c.than.nums = v.nums

Digits == 0 .. 1
Pres == {<< >>, <<WordId(1)>>, <<WordId(1), NumberId(1)>>}
Versions == {Semver(nums, pre) : nums \in [1 .. 3 -> 0 .. 2], pre \in Pres \cup {<<NumberId(1)>>}}
Token(op, parts, pre) == [op |-> op, parts |-> parts, pre |-> pre]
Tokens ==
    {Token("=", << >>, << >>)}
    \cup {Token(op, parts, << >>) : op \in {"^", "~", "=", ">=", "<=", ">", "<"},
                                     parts \in UNION {[1 .. n -> Digits] : n \in 1 .. 3}}
    \cup {Token(op, parts, pre) : op \in {"^", "~", "=", ">=", "<=", ">", "<"},
                                   parts \in [1 .. 3 -> Digits], pre \in Pres}
Ceilings == {Token("<", <<1>>, << >>), Token("<=", <<1, 1>>, << >>), Token("^", <<0, 1, 1>>, << >>)}
Ranges == {{{t}} : t \in Tokens} \cup {{{t, u}} : t \in Tokens, u \in Ceilings}
             \cup {{{t}, {u}} : t \in Tokens, u \in Ceilings}
----------------------------------------------------------------------------
(* The requirement graphs *)

NewSelected(name, ver) == [n \in DOMAIN selected \cup {name} |-> IF n = name THEN ver ELSE selected[n]]
\* A range allows some of the published versions, or else none of them; Go and
\* Maven name one.
Askable(name) ==
    IF tool = "npm" THEN {w \in SUBSET {p[2] : p \in Published} : w # {} /\ w \cap VersionsIn(name) \in {{}, w}}
    ELSE {{v} : v \in VersionsIn(name)}
Item(parent, name, allowed, depth) == [parent |-> parent, name |-> name, allowed |-> allowed, depth |-> depth]
Only(item) == CHOOSE v \in item.allowed : TRUE
\* The dependencies of one version, in the order of their names.
ItemsOf(p, depth) == SetToSeq({Item(p[1], r[2], r[3], depth) : r \in {q \in requires : q[1] = p}})

ResolveInit ==
    /\ tool \in {"npm", "go", "maven", "range"}
    /\ range \in IF tool = "range" THEN Ranges ELSE {{}}
    /\ requires = {} /\ roots = << >> /\ managed = << >> /\ registry = "up" /\ cached = {}
    /\ work = << >> /\ visited = {} /\ selected = << >> /\ nested = {} /\ edges = {} /\ incomplete = {}

Publish(p, name, allowed) ==
    /\ tool # "range" /\ roots = << >> /\ Cardinality(requires) < MaxRequirements
    /\ p[1] # name /\ allowed \in Askable(name)
    /\ \A r \in requires : r[1] = p => r[2] # name
    /\ requires' = requires \cup {<<p, name, allowed>>}
    /\ UNCHANGED <<tool, roots, managed, registry, cached, work, visited, selected, nested, edges, incomplete, range>>

\* The project asks for one package or for two; the pom may manage a version and
\* go.mod replace a module; the registry may answer always, or now and then.
Begin(first, second) ==
    /\ tool # "range" /\ roots = << >>
    /\ \E one \in Askable(first), other \in Askable(second) :
         roots' = IF first = second THEN <<<<first, one>>>> ELSE <<<<first, one>>, <<second, other>>>>
    /\ managed' \in {<< >>} \cup
         CASE tool = "maven" -> {[n \in {p[1]} |-> p] : p \in Published}
           [] tool = "go" -> {[n \in {second} |-> p] : p \in Published}
           [] OTHER -> {}
    /\ registry' \in IF tool = "npm" THEN {"up", "flaky"} ELSE {"up"}
    /\ work' = [i \in DOMAIN roots' |-> Item(Project, roots'[i][1], roots'[i][2], 0)]
    /\ UNCHANGED <<tool, requires, cached, visited, selected, nested, edges, incomplete, range>>
----------------------------------------------------------------------------
(* resolve_npm: a queue; the provider answers from its store or asks *)

Answers(name) ==
    IF registry = "up" \/ name \in cached THEN {TRUE} ELSE BOOLEAN

NotResolved(item) ==
    /\ incomplete' = incomplete \cup {<<item.parent, item.name, item.allowed>>}
    /\ work' = Tail(work)
    /\ UNCHANGED <<selected, nested, edges>>
Resolved(item, ver) == edges' = edges \cup {<<item.parent, item.name, item.allowed, ver>>}

Reuses(item) == item.name \in DOMAIN selected /\ selected[item.name] \in item.allowed

Pick(item, ver) ==
    LET new == item.name \notin DOMAIN selected \/ selected[item.name] # ver
    IN  /\ Resolved(item, ver)
        /\ IF item.name \in DOMAIN selected
           THEN nested' = nested \cup ({<<item.name, ver>>} \ {<<item.name, selected[item.name]>>}) /\ UNCHANGED selected
           ELSE selected' = NewSelected(item.name, ver) /\ UNCHANGED nested
        /\ work' = Tail(work) \o IF new THEN ItemsOf(<<item.name, ver>>, item.depth + 1) ELSE << >>
        /\ UNCHANGED incomplete

VisitNpm ==
    LET item == Head(work)
        inRange == item.allowed \cap VersionsIn(item.name)
    IN  /\ tool = "npm" /\ work # << >>
        /\ \/ item.depth > MaxDepth /\ NotResolved(item) /\ UNCHANGED cached
           \/ /\ item.depth <= MaxDepth /\ Reuses(item)
              /\ Resolved(item, selected[item.name])
              /\ work' = Tail(work) /\ UNCHANGED <<selected, nested, incomplete, cached>>
           \/ /\ item.depth <= MaxDepth /\ ~Reuses(item)
              /\ \E answered \in Answers(item.name) :
                   /\ cached' = cached \cup IF answered THEN {item.name} ELSE {}
                   /\ IF answered /\ inRange # {} THEN Pick(item, Greatest(inRange)) ELSE NotResolved(item)
        /\ UNCHANGED <<tool, requires, roots, managed, registry, visited, range>>
----------------------------------------------------------------------------
(* mvs_build_list: a stack; mediate: a queue *)

\* Mutant: only what is selected has its requirements followed.
VisitWinners(name, ver) == name \notin DOMAIN selected \/ selected[name] < ver
Visits(name, ver) == <<name, ver>> \notin visited

InPlaceOf(name, ver) == IF name \in DOMAIN managed THEN managed[name] ELSE <<name, ver>>
VisitGo ==
    LET module == InPlaceOf(Last(work).name, Only(Last(work)))
        name == module[1]
        ver == module[2]
    IN  /\ tool = "go" /\ work # << >>
        /\ IF Visits(name, ver)
           THEN /\ visited' = visited \cup {module}
                /\ selected' = IF name \notin DOMAIN selected \/ selected[name] < ver
                               THEN NewSelected(name, ver) ELSE selected
                /\ work' = Front(work) \o ItemsOf(module, 0)
           ELSE work' = Front(work) /\ UNCHANGED <<visited, selected>>
        /\ UNCHANGED <<tool, requires, roots, managed, registry, cached, nested, edges, incomplete, range>>

\* The first that is met is the nearest; a managed version takes its place, but
\* what is followed are the requirements of the version that was asked for.
VisitMaven ==
    LET item == Head(work)
        asked == <<item.name, Only(item)>>
    IN  /\ tool = "maven" /\ work # << >>
        /\ selected' = IF item.name \in DOMAIN selected THEN selected
                       ELSE NewSelected(item.name, InPlaceOf(asked[1], asked[2])[2])
        /\ visited' = visited \cup {asked}
        /\ work' = Tail(work) \o IF asked \in visited THEN << >> ELSE ItemsOf(asked, item.depth + 1)
        /\ UNCHANGED <<tool, requires, roots, managed, registry, cached, nested, edges, incomplete, range>>

ResolveNext ==
    \/ \E p \in Published, n \in PublishedNames, w \in SUBSET {q[2] : q \in Published} : Publish(p, n, w)
    \/ \E first, second \in PublishedNames : Begin(first, second)
    \/ VisitNpm \/ VisitGo \/ VisitMaven
ResolveSpec == ResolveInit /\ [][ResolveNext]_resolveVars
----------------------------------------------------------------------------
(* Properties *)

Ended == roots # << >> /\ work = << >>

\* What a range is documented to allow: the numbers up to the first that is not
\* zero, the first two, or all that are given must stay, and nothing is below.
\* (`>` of a partial version admits the prereleases of the next.)
Agrees(v, parts, n) == \A i \in 1 .. n : v.nums[i] = parts[i]
Means(token, v) ==
    LET n == Len(token.parts)
        base == Semver(Padded(token.parts), token.pre)
        below == IF n = 3 THEN SemverLess(v, base) ELSE TripleLess(v.nums, base.nums)
        lead == CHOOSE i \in 1 .. n : (token.parts[i] > 0 \/ i = n) /\ \A j \in 1 .. i - 1 : token.parts[j] = 0
    IN  IF n = 0 THEN ~below
        ELSE CASE token.op = "^" -> Agrees(v, token.parts, lead) /\ ~SemverLess(v, base)
               [] token.op = "~" -> Agrees(v, token.parts, IF n = 1 THEN 1 ELSE 2) /\ ~SemverLess(v, base)
               [] token.op = "=" -> IF n = 3 THEN v = base ELSE Agrees(v, token.parts, n) /\ ~SemverLess(v, base)
               [] token.op = ">=" -> ~SemverLess(v, base)
               [] token.op = "<" -> below
               [] token.op = "<=" -> below \/ (IF n = 3 THEN v = base ELSE Agrees(v, token.parts, n))
               [] token.op = ">" -> IF n = 3 THEN SemverLess(base, v) ELSE TripleLess(base.nums, v.nums) /\ ~Agrees(v, token.parts, n)
OptsIn(tokens, v) == \E t \in tokens : t.pre # << >> /\ t.parts = v.nums
OpenAbove(tokens) == \E t \in tokens : t.op = ">" /\ Len(t.parts) < 3
RangesMeanTheirText ==
    \A v \in Versions :
       (v.pre = << >> \/ \A tokens \in range : ~OpenAbove(tokens)) =>
          (InRange(range, v) <=>
              \E tokens \in range : (\A t \in tokens : Means(t, v)) /\ (v.pre # << >> => OptsIn(tokens, v)))

\* resolve_npm: when it ends, every requirement of the project and of every version
\* it selected has an edge to a version that its range allows, or is named as
\* incomplete.  A registry that answers leaves incomplete what nothing published
\* meets, and what is deeper than the project's own dependencies.
SelectedVersions == {<<n, selected[n]>> : n \in DOMAIN selected} \cup nested
AskedByRoot == {<<Project, roots[i][1], roots[i][2]>> : i \in DOMAIN roots}
AskedBy(ps) == {<<r[1][1], r[2], r[3]>> : r \in {q \in requires : q[1] \in ps}}
Edged == {<<e[1], e[2], e[3]>> : e \in edges}
NpmAnswersEveryNeed ==
    LET direct == {<<e[2], e[4]>> : e \in {d \in edges : d[1] = Project}}
        meetable(need) == need[3] \cap VersionsIn(need[2]) # {}
    IN  (tool = "npm" /\ Ended) =>
          /\ AskedByRoot \cup AskedBy(SelectedVersions) \subseteq Edged \cup incomplete
          /\ \A e \in edges : e[4] \in e[3] /\ <<e[2], e[4]>> \in SelectedVersions
          /\ \A p \in direct : \E e \in edges : e[1] = Project /\ e[2] = p[1]
                                                   /\ p[2] = Greatest(e[3] \cap VersionsIn(p[1]))
          /\ registry = "up" => {need \in AskedByRoot \cup AskedBy(direct) : meetable(need)} \subseteq Edged

\* Everything the project's requirements lead to, at most n steps away.
Meant(need) == IF tool = "go" THEN InPlaceOf(need[2], CHOOSE v \in need[3] : TRUE)
                                  ELSE <<need[2], CHOOSE v \in need[3] : TRUE>>
Reach ==
    LET reach[k \in 0 .. Cardinality(Published)] ==
          IF k = 0 THEN {Meant(need) : need \in AskedByRoot}
          ELSE reach[k - 1] \cup {Meant(need) : need \in AskedBy(reach[k - 1])}
    IN  reach
Within(n) == Reach[n]
NamesOf(ps) == {p[1] : p \in ps}

\* mvs_build_list: of every module that the requirements lead to, through whatever
\* version, the greatest of the versions that are asked for.
BuildListIsMinimal ==
    (tool = "go" /\ Ended) =>
        LET all == Within(Cardinality(Published))
        IN  /\ DOMAIN selected = NamesOf(all)
            /\ \A n \in DOMAIN selected : selected[n] = Greatest({p[2] : p \in {q \in all : q[1] = n}})

\* mediate: a managed version, or else one that is asked for nearest to the project.
NearestWins ==
    (tool = "maven" /\ Ended) =>
        /\ DOMAIN selected = NamesOf(Within(Cardinality(Published)))
        /\ \A n \in DOMAIN selected :
             LET near == CHOOSE k \in 0 .. Cardinality(Published) :
                           n \in NamesOf(Within(k)) /\ (k = 0 \/ n \notin NamesOf(Within(k - 1)))
             IN  IF n \in DOMAIN managed THEN selected[n] = managed[n][2]
                 ELSE <<n, selected[n]>> \in Within(near)

\* What a resolver selects is what the rules of its ecosystem select.
SelectionFollowsRules == RangesMeanTheirText /\ NpmAnswersEveryNeed /\ BuildListIsMinimal /\ NearestWins
=============================================================================
