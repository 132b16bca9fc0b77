----------------------------- MODULE LockProofs -----------------------------
(***************************************************************************)
(* What a package manager installed is what the catalogers read back from  *)
(* the file it wrote, for any packages, needs and workspace, and whichever *)
(* file that is.                                                           *)
(*                                                                         *)
(* Nothing happens after a file is read, so the invariant LockInv is about *)
(* the plan before (WorldInv, AllNeeded) and about what a reading must     *)
(* tell (Reads) for its graph to be the one that was installed:            *)
(*   - every claim and edge has its origin (Founded), and everything that  *)
(*     was installed its claim and edge (Complete);                        *)
(*   - what the project needs at run time hangs together (Connected), and  *)
(*     by edges that lead nowhere else (Alone).                            *)
(* GraphFollows and RuntimeFollows show that these are enough, once; then  *)
(* each format has a lemma that it tells them.                             *)
(***************************************************************************)
EXTENDS Lockfiles, FiniteSetTheorems, WellFoundedInduction, TLAPS

(***************************************************************************)
(* Loops                                                                   *)
(***************************************************************************)

\* What holds at 0 and is handed on at each step holds up to n.
LEMMA CountUp ==
    ASSUME NEW n \in Nat, NEW G, 0 \in G, \A k \in 1 .. n : k - 1 \in G => k \in G
    PROVE  \A k \in 0 .. n : k \in G
<1> DEFINE bad == {k \in 0 .. n : k \notin G}
<1> SUFFICES ASSUME bad # {} PROVE FALSE
    OBVIOUS
<1>1. bad \subseteq Nat
    OBVIOUS
<1>2. PICK x \in bad : \A y \in bad : ~(<<y, x>> \in OpToRel(<, Nat))
  <2> HIDE DEF bad
  <2> QED
    BY <1>1, NatLessThanWellFounded, WFMin, Zenon
<1>3. \A y \in bad : ~(y < x)
    BY <1>1, <1>2 DEF OpToRel
<1>4. x \in 1 .. n /\ x - 1 \in 0 .. n /\ x - 1 < x
    OBVIOUS
<1>5. x - 1 \in G
    BY <1>3, <1>4
<1> QED
    BY <1>4, <1>5

Follows(f, n, S, base, step) ==
    f \in [0 .. n -> S] /\ f[0] = base /\ \A k \in 1 .. n : f[k] = step[k][f[k - 1]]
Runs(n, S, base, step) == \E f : Follows(f, n, S, base, step)

\* A loop of n steps has a run: a function that follows them from the base.
LEMMA LoopRuns ==
    ASSUME NEW n \in Nat, NEW S, NEW base \in S, NEW step \in [1 .. n -> [S -> S]]
    PROVE  Runs(n, S, base, step)
<1> DEFINE runs(m) == {f \in [0 .. m -> S] : f[0] = base /\ \A k \in 1 .. m : f[k] = step[k][f[k - 1]]}
           G == {m \in 0 .. n : runs(m) # {}}
<1>1. 0 \in G
  <2> DEFINE f == [k \in 0 .. 0 |-> base]
  <2>1. f \in runs(0)
      OBVIOUS
  <2> QED
      BY <2>1
<1>2. ASSUME NEW m \in 1 .. n, m - 1 \in G PROVE m \in G
  <2>1. PICK f \in [0 .. m - 1 -> S] : f[0] = base /\ \A k \in 1 .. m - 1 : f[k] = step[k][f[k - 1]]
      BY <1>2
  <2> DEFINE g == [k \in 0 .. m |-> IF k = m THEN step[m][f[m - 1]] ELSE f[k]]
  <2>2. f[m - 1] \in S /\ step[m][f[m - 1]] \in S
    <3>1. m - 1 \in 0 .. m - 1
        OBVIOUS
    <3>2. step[m] \in [S -> S]
        OBVIOUS
    <3> QED
        BY <2>1, <3>1, <3>2
  <2>3. g \in [0 .. m -> S]
    <3> SUFFICES ASSUME NEW k \in 0 .. m PROVE (IF k = m THEN step[m][f[m - 1]] ELSE f[k]) \in S
        OBVIOUS
    <3>1. k # m => k \in 0 .. m - 1
        OBVIOUS
    <3> QED
        BY <2>2, <3>1
  <2>4. g[0] = base
      BY <2>1
  <2>5. ASSUME NEW k \in 1 .. m PROVE g[k] = step[k][g[k - 1]]
    <3>1. CASE k = m
        BY <3>1
    <3>2. CASE k # m
      <4>1. k \in 1 .. m - 1 /\ k \in 0 .. m /\ k - 1 \in 0 .. m /\ k - 1 # m
          BY <3>2
      <4>2. g[k] = f[k] /\ g[k - 1] = f[k - 1]
          BY <4>1, <3>2
      <4> QED
          BY <2>1, <4>1, <4>2
    <3> QED
        BY <3>1, <3>2
  <2>6. g \in runs(m)
      BY <2>3, <2>4, <2>5
  <2> QED
      BY <2>6
<1>3. \A k \in 0 .. n : k \in G
  <2> HIDE DEF G
  <2> QED
      BY <1>1, <1>2, CountUp
<1>4. n \in G
    BY <1>3
<1>5. PICK f \in [0 .. n -> S] : f[0] = base /\ \A k \in 1 .. n : f[k] = step[k][f[k - 1]]
    BY <1>4
<1>6. Follows(f, n, S, base, step)
    BY <1>5 DEF Follows
<1> QED
    BY <1>6 DEF Runs

(***************************************************************************)
(* What a set of pairs leads to                                            *)
(***************************************************************************)

Heads(edges, S) == {e[2] : e \in {d \in edges : d[1] \in S}}
Spreads(f, start, edges, n) ==
    f[0] = start /\ \A k \in 1 .. n : f[k] = f[k - 1] \cup Heads(edges, f[k - 1])

\* ReachOver is the last of the sets that spread from start, one edge further
\* each time.
LEMMA ReachSpreads ==
    ASSUME NEW start, NEW edges, IsFiniteSet(edges)
    PROVE  \E f : Spreads(f, start, edges, Cardinality(edges)) /\ ReachOver(start, edges) = f[Cardinality(edges)]
<1> DEFINE n == Cardinality(edges)
           S == SUBSET (start \cup Heads(edges, start \cup {e[2] : e \in edges}))
           step == [k \in 1 .. n |-> [T \in S |-> T \cup Heads(edges, T)]]
           Recurs(f) == f = [k \in 0 .. n |-> IF k = 0 THEN start
                              ELSE f[k - 1] \cup {e[2] : e \in {d \in edges : d[1] \in f[k - 1]}}]
<1>1. n \in Nat
    BY FS_CardinalityType
<1>2. ASSUME NEW T \in S PROVE T \cup Heads(edges, T) \in S
    BY DEF Heads
<1>3. start \in S /\ step \in [1 .. n -> [S -> S]]
    BY <1>2
<1>4. PICK f : Follows(f, n, S, start, step)
  <2> HIDE DEF n, S, step
  <2> QED
      BY <1>1, <1>3, LoopRuns DEF Runs
<1>5. Spreads(f, start, edges, n)
  <2>1. ASSUME NEW k \in 1 .. n PROVE f[k] = f[k - 1] \cup Heads(edges, f[k - 1])
    <3>1. k - 1 \in 0 .. n
        BY <1>1
    <3>2. f[k - 1] \in S /\ f[k] = step[k][f[k - 1]]
        BY <1>4, <3>1 DEF Follows
    <3> QED
        BY <3>2
  <2> QED
      BY <1>4, <2>1 DEF Follows, Spreads
<1>6. Recurs(f)
  <2>1. DOMAIN f = 0 .. n /\ f = [k \in 0 .. n |-> f[k]]
      BY <1>4 DEF Follows
  <2>2. ASSUME NEW k \in 0 .. n
        PROVE  f[k] = IF k = 0 THEN start ELSE f[k - 1] \cup {e[2] : e \in {d \in edges : d[1] \in f[k - 1]}}
    <3>1. k # 0 => k \in 1 .. n
        BY <1>1
    <3> QED
        BY <1>5, <3>1 DEF Spreads, Heads
  <2> QED
      BY <2>1, <2>2
<1> DEFINE g == CHOOSE h : Recurs(h)
<1>7. ReachOver(start, edges) = g[n]
    BY DEF ReachOver
<1> HIDE DEF Recurs
<1>8. Recurs(g)
    BY <1>6
<1>9. Spreads(g, start, edges, n)
  <2> HIDE DEF g
  <2>1. \A k \in 0 .. n : g[k] = IF k = 0 THEN start ELSE g[k - 1] \cup {e[2] : e \in {d \in edges : d[1] \in g[k - 1]}}
      BY <1>8 DEF Recurs
  <2>2. 0 \in 0 .. n /\ \A k \in 1 .. n : k \in 0 .. n /\ k # 0
      BY <1>1
  <2> QED
      BY <2>1, <2>2 DEF Spreads, Heads
<1> QED
    BY <1>7, <1>9

\* ReachOver is what start leads to: it holds start, leads to nothing outside
\* itself, and is within every set of which the same is true.
LEMMA ReachWithin ==
    ASSUME NEW start, NEW edges, IsFiniteSet(edges), NEW T, start \subseteq T, Heads(edges, T) \subseteq T
    PROVE  ReachOver(start, edges) \subseteq T
<1> DEFINE n == Cardinality(edges)
<1>1. n \in Nat
    BY FS_CardinalityType
<1>2. PICK f : Spreads(f, start, edges, n) /\ ReachOver(start, edges) = f[n]
    BY ReachSpreads
<1> DEFINE G == {k \in 0 .. n : f[k] \subseteq T}
<1> HIDE DEF n
<1>3. 0 \in G
    BY <1>1, <1>2 DEF Spreads
<1>4. ASSUME NEW k \in 1 .. n, k - 1 \in G PROVE k \in G
  <2>1. k \in 0 .. n /\ f[k] = f[k - 1] \cup Heads(edges, f[k - 1])
      BY <1>1, <1>2 DEF Spreads
  <2>2. Heads(edges, f[k - 1]) \subseteq Heads(edges, T)
      BY <1>4 DEF Heads
  <2> QED
      BY <1>4, <2>1, <2>2
<1>5. n \in 0 .. n /\ \A k \in 0 .. n : k \in G
  <2> HIDE DEF G
  <2> QED
      BY <1>1, <1>3, <1>4, CountUp
<1> QED
    BY <1>2, <1>5

\* It holds start.
LEMMA ReachStarts ==
    ASSUME NEW start, NEW edges, IsFiniteSet(edges)
    PROVE  start \subseteq ReachOver(start, edges)
<1> DEFINE n == Cardinality(edges)
<1>1. n \in Nat
    BY FS_CardinalityType
<1>2. PICK f : Spreads(f, start, edges, n) /\ ReachOver(start, edges) = f[n]
    BY ReachSpreads
<1> DEFINE G == {k \in 0 .. n : start \subseteq f[k]}
<1> HIDE DEF n
<1>3. 0 \in G
    BY <1>1, <1>2 DEF Spreads
<1>4. ASSUME NEW k \in 1 .. n, k - 1 \in G PROVE k \in G
  <2>1. k \in 0 .. n /\ f[k] = f[k - 1] \cup Heads(edges, f[k - 1])
      BY <1>1, <1>2 DEF Spreads
  <2> QED
      BY <1>4, <2>1
<1>5. n \in 0 .. n /\ \A k \in 0 .. n : k \in G
  <2> HIDE DEF G
  <2> QED
      BY <1>1, <1>3, <1>4, CountUp
<1> QED
    BY <1>2, <1>5

\* Each step follows an edge that no step before it followed, until nothing new
\* is met.
LEMMA ReachLeadsIn ==
    ASSUME NEW start, NEW edges, IsFiniteSet(edges)
    PROVE  Heads(edges, ReachOver(start, edges)) \subseteq ReachOver(start, edges)
<1> DEFINE n == Cardinality(edges)
<1>1. n \in Nat
    BY FS_CardinalityType
<1>2. PICK f : Spreads(f, start, edges, n) /\ ReachOver(start, edges) = f[n]
    BY ReachSpreads
<1> DEFINE Used(k) == {d \in edges : d[2] \in f[k]}
           Closed(k) == Heads(edges, f[k]) \subseteq f[k]
           G == {k \in 0 .. n : Closed(k) \/ Cardinality(Used(k)) >= k}
<1>3. \A k : IsFiniteSet(Used(k)) /\ Cardinality(Used(k)) \in Nat
    BY FS_Subset, FS_CardinalityType
<1>4. 0 \in G
  <2>1. 0 \in 0 .. n
      BY <1>1
  <2>2. Cardinality(Used(0)) >= 0
    <3> DEFINE c == Cardinality(Used(0))
    <3>1. c \in Nat
        BY <1>3
    <3> HIDE DEF c
    <3>2. c >= 0
        BY <3>1
    <3> QED
        BY <3>2 DEF c
  <2> QED
      BY <2>1, <2>2
<1>5. ASSUME NEW k \in 1 .. n, k - 1 \in G PROVE k \in G
  <2>1. k \in 0 .. n /\ k - 1 \in 0 .. n /\ f[k] = f[k - 1] \cup Heads(edges, f[k - 1])
      BY <1>1, <1>2 DEF Spreads
  <2>2. CASE Closed(k - 1)
    <3>1. f[k] = f[k - 1]
        BY <2>1, <2>2
    <3> QED
        BY <2>1, <2>2, <3>1
  <2>3. CASE ~Closed(k - 1)
    <3>1. Used(k - 1) \in SUBSET Used(k)
        BY <2>1
    <3>2. Used(k - 1) # Used(k)
      <4>1. PICK d \in edges : d[1] \in f[k - 1] /\ d[2] \notin f[k - 1]
          BY <2>3 DEF Heads
      <4>2. d[2] \in f[k]
          BY <2>1, <4>1 DEF Heads
      <4> QED
          BY <4>1, <4>2
    <3> DEFINE one == Cardinality(Used(k - 1))
               other == Cardinality(Used(k))
    <3>3. one \in Nat /\ other \in Nat
        BY <1>3
    <3>4. one <= other /\ one # other
        BY <1>3, <3>1, <3>2, FS_Subset
    <3>5. one >= k - 1
        BY <1>5, <2>3
    <3> HIDE DEF one, other
    <3>6. other >= k
        BY <3>3, <3>4, <3>5
    <3> QED
        BY <2>1, <3>6 DEF other
  <2> QED
      BY <2>2, <2>3
<1>6. n \in 0 .. n /\ n \in G
  <2>1. n \in 0 .. n
      BY <1>1
  <2>2. \A k \in 0 .. n : k \in G
    <3> HIDE DEF G, n
    <3> QED
        BY <1>1, <1>4, <1>5, CountUp
  <2> QED
      BY <2>1, <2>2
<1>7. CASE Closed(n)
    BY <1>2, <1>7
<1>8. CASE Cardinality(Used(n)) >= n
  <2>1. Used(n) \in SUBSET edges /\ Cardinality(Used(n)) <= n
      BY FS_Subset
  <2> DEFINE c == Cardinality(Used(n))
  <2>2. c \in Nat /\ c <= n /\ c >= n
      BY <1>3, <1>8, <2>1
  <2>3. c = n
    <3> HIDE DEF c, n
    <3> QED
        BY <1>1, <2>2
  <2>4. Used(n) = edges
      BY <2>1, <2>3, FS_Subset
  <2>5. \A d \in edges : d[2] \in f[n]
      BY <2>4
  <2> QED
      BY <1>2, <2>5 DEF Heads
<1> QED
    BY <1>6, <1>7, <1>8

(***************************************************************************)
(* What is installed                                                       *)
(***************************************************************************)

\* A name that one package has.
Lone(name) == \A p, q \in installed : p[1] = name /\ q[1] = name => p = q

WorldInv ==
    /\ installed \subseteq Packages /\ IsFiniteSet(installed)
    /\ needs \subseteq installed \X installed /\ maybe \subseteq needs
    /\ \A e \in needs : e[1][1] # e[2][1] /\ e[2] \notin members
    /\ DOMAIN section \subseteq installed /\ section \in [DOMAIN section -> Section]
    /\ \A p, q \in DOMAIN section : p[1] = q[1] => p = q
    /\ members \subseteq Required({"runtime"}) /\ \A m \in members : Lone(m[1]) /\ \A n \in members : m = n

\* Where a manager installs one version each, every name is alone.
LEMMA OneIsLone == OneVersionEach(installed) => \A name : Lone(name)
    BY DEF OneVersionEach, Lone

\* What is installed is well formed to begin with, and every step of the plan
\* keeps it so.
LEMMA WorldStarts == LockInit => WorldInv
<1> SUFFICES ASSUME LockInit PROVE WorldInv
    OBVIOUS
<1>1. DOMAIN section = {}
    BY DEF LockInit
<1>2. IsFiniteSet({})
    BY FS_EmptySet
<1> QED
    BY <1>1, <1>2 DEF LockInit, WorldInv, Required

\* The project requires a package.
LEMMA RequireKeepsWorld ==
    ASSUME WorldInv, NEW p \in Packages, NEW s \in Section, Require(p, s)
    PROVE  WorldInv'
<1>1. DOMAIN section' = DOMAIN section \cup {p} /\ section'[p] \in Section
      /\ \A q \in DOMAIN section : section'[q] = section[q]
    BY DEF Require, WorldInv
<1>2. installed' = installed \cup {p} /\ IsFiniteSet(installed')
    BY FS_AddElement DEF Require, WorldInv
<1>3. section' \in [DOMAIN section' -> Section]
  <2>1. \A q \in DOMAIN section' : section'[q] \in Section
      BY <1>1 DEF WorldInv
  <2>2. section' = [q \in DOMAIN section' |-> section'[q]]
      BY DEF Require
  <2> QED
      BY <2>1, <2>2
<1>4. \A q \in DOMAIN section : q[1] # p[1]
    BY DEF Require
<1>5. Required({"runtime"}) \subseteq Required({"runtime"})'
    BY <1>1 DEF Required
<1>6. \A m \in members : Lone(m[1])'
    BY <1>2, <1>4 DEF Require, WorldInv, Lone, Required
<1> QED
    BY <1>1, <1>2, <1>3, <1>4, <1>5, <1>6 DEF Require, WorldInv

\* A package needs another.
LEMMA NeedKeepsWorld ==
    ASSUME WorldInv, NEW p \in Packages, NEW q \in Packages, NEW optional \in BOOLEAN, Need(p, q, optional)
    PROVE  WorldInv'
<1>1. installed' = installed \cup {q} /\ IsFiniteSet(installed')
    BY FS_AddElement DEF Need, WorldInv
<1>2. UNCHANGED <<section, members>> /\ (\A m \in members : q[1] # m[1]) /\ p \in installed /\ p[1] # q[1]
    BY DEF Need
<1>3. Required({"runtime"})' = Required({"runtime"})
    BY <1>2 DEF Required
<1>4. needs' = needs \cup {<<p, q>>} /\ maybe' \subseteq maybe \cup {<<p, q>>} /\ maybe' \subseteq needs'
    BY DEF Need, WorldInv
<1>5. \A m \in members : Lone(m[1])'
    BY <1>1, <1>2 DEF WorldInv, Lone
<1> QED
    BY <1>1, <1>2, <1>3, <1>4, <1>5 DEF WorldInv

\* A package becomes a member of the workspace.
LEMMA MemberKeepsWorld ==
    ASSUME WorldInv, NEW p \in Packages, AddMember(p)
    PROVE  WorldInv'
<1>1. /\ UNCHANGED <<installed, needs, maybe, section>> /\ members' = {p} /\ p \in Required({"runtime"})
      /\ \A e \in needs : e[2] # p
      /\ \A q \in installed : q[1] = p[1] => q = p
    BY DEF AddMember
<1>2. Required({"runtime"})' = Required({"runtime"})
    BY <1>1 DEF Required
<1>3. \A m \in members' : Lone(m[1])'
    BY <1>1 DEF Lone
<1>4. \A m, n \in members' : m = n
    BY <1>1
<1> QED
    BY <1>1, <1>2, <1>3, <1>4 DEF WorldInv

(***************************************************************************)
(* What a reading tells                                                    *)
(***************************************************************************)

\* The references that may stand for a package: as the source of an edge, as its
\* end, and without a doubt.
Sources(f, p) == {RefPurl(p)} \cup (IF f \in Native THEN {RefFamily(p[1]), RefFamily(ArtifactOf(p[1]))} ELSE {})
Targets(f, p) == {RefPurl(p)} \cup (IF f \in Exact THEN {} ELSE {RefFamily(p[1])})
Exactly(ref, p) == ref = RefPurl(p) \/ (ref = RefFamily(p[1]) /\ Lone(p[1]))
\* The projects of the tree, and the names there are.
Projects == {RefProject(Root)} \cup {RefProject(m[1]) : m \in members}
Known(l) == {p[1] : p \in installed} \cup {e[1][1] : e \in l}
ToFollow(d) == d.scope \in {None, "runtime"}
Listed(f) == IF f \in DirectOnly THEN DOMAIN section ELSE NotMembers
Stays == NeededBy({"runtime", "optional"})

\* A claim is of what was installed, or has no version; an edge is a requirement
\* of a project or a need.
Founded(f, F, l) ==
    /\ \A c \in F.claims : c.name \in Known(l) /\ (c.ver = 0 \/ <<c.name, c.ver>> \in installed)
    /\ \A d \in F.edges :
         \/ d.src \in Projects /\ \E p \in Packages : d.dst \in {RefPurl(p), RefFamily(p[1])}
         \/ \E n \in needs : d.src \in Sources(f, n[1]) /\ d.dst \in Targets(f, n[2])
\* What was installed has a claim, and every need an edge.
Complete(f, F) ==
    /\ \A p \in Listed(f) : \E c \in F.claims : c.name = p[1] /\ c.ver = p[2]
    /\ f \in Graphed /\ (f \in Exact \/ OneVersionEach(installed)) =>
         \A e \in needs \ maybe : e[1] \in NotMembers =>
            \E d \in F.edges : /\ Exactly(d.src, e[1]) \/ (f \in Native /\ d.src = RefFamily(e[1][1]) /\ OneVersionEach(installed))
                               /\ Exactly(d.dst, e[2])
\* What the project needs at run time hangs together by edges that are followed:
\* from the projects, and from package to package.
Hung(F, m) ==
    /\ \E c \in F.claims : c.name = m[1] /\ c.ver = m[2]
    /\ \E d \in F.edges : d.src = RefProject(Root) /\ Exactly(d.dst, m) /\ ToFollow(d)
Begun(F) ==
    /\ \A p \in Required({"runtime"}) \ members :
         \E d \in F.edges : d.src = RefProject(Root) /\ Exactly(d.dst, p) /\ ToFollow(d)
    /\ \A e \in needs \ maybe : e[1] \in members =>
         \E d \in F.edges : /\ Exactly(d.dst, e[2]) /\ ToFollow(d)
                            /\ d.src = RefProject(e[1][1]) \/ (Exactly(d.src, e[1]) /\ Hung(F, e[1]))
Linked(F) ==
    \A e \in needs \ maybe : e[1] \in NotMembers \cap Stays =>
       \E d \in F.edges : Exactly(d.src, e[1]) /\ Exactly(d.dst, e[2]) /\ ToFollow(d)
Connected(f, F) ==
    f \in Graphed \ Rootless /\ (f \in Exact \/ OneVersionEach(installed)) => Begun(F) /\ Linked(F)
\* And nothing else does.
Alone(f, F, l) ==
    f \in Graphed \ (Rootless \cup Flat) /\ OneVersionEach(installed) /\ l = {} =>
      \A d \in F.edges : ToFollow(d) =>
         \/ d.src \in Projects /\ \E p \in Stays : d.dst \in {RefPurl(p), RefFamily(p[1])}
         \/ \E n \in needs : d.src = RefPurl(n[1]) /\ d.dst \in {RefPurl(n[2]), RefFamily(n[2][1])}

Reads(f, F, l) ==
    /\ IsFiniteSet(l) /\ \A e \in l : e[1] \in Packages
    /\ Founded(f, F, l) /\ Complete(f, F) /\ Connected(f, F) /\ Alone(f, F, l)

(***************************************************************************)
(* How reconcile resolves it                                               *)
(***************************************************************************)

\* A package is its name and its version; its reference tells its name.
LEMMA NamesTold ==
    ASSUME NEW p \in Packages
    PROVE  /\ p = <<p[1], p[2]>> /\ p[2] \in Nat /\ p[2] # 0 /\ p[1] # MemberDir
           /\ \A q \in Packages : (Called(p[1]) = Called(q[1]) => p[1] = q[1]) /\ Called(p[1]) # Called(ArtifactOf(q[1]))
<1>1. \A q \in Packages : q = <<Family(q[1].eco, None, q[1].name), q[2]>> /\ q[2] \in Version
    BY PackagesAreVersions
<1>2. \A q \in Packages : q[1] = Family(q[1].eco, None, q[1].name)
  <2> SUFFICES ASSUME NEW q \in Packages PROVE q[1] = Family(q[1].eco, None, q[1].name)
      OBVIOUS
  <2>1. \A x, y : q = <<x, y>> => q[1] = x
      OBVIOUS
  <2> QED
      BY <1>1, <2>1
<1>3. p = <<p[1], p[2]>>
    BY <1>1, <1>2
<1>4. p[2] \in Nat /\ p[2] # 0
    BY <1>1, VersionsAreNumbers
<1>5. ASSUME NEW q \in Packages, Called(p[1]) = Called(q[1]) PROVE p[1] = q[1]
  <2>1. p[1].eco = q[1].eco /\ p[1].name = q[1].name
      BY <1>5 DEF Called
  <2> QED
      BY <1>2, <2>1
<1> QED
    BY <1>3, <1>4, <1>5, PackagesAreVersions

\* Components, element by element.
LEMMA ComponentIs ==
    ASSUME NEW C, NEW x
    PROVE  x \in Components(C) <=> \E c \in C : /\ x = <<c.name, c.ver>>
                                                /\ c.ver # 0 \/ Cardinality(VersionsOf(C, c.name)) # 1
    BY DEF Components

\* Resolve, reference by reference.
LEMMA ResolveIs ==
    ASSUME NEW C
    PROVE  /\ \A p : Resolve(C, RefPurl(p)) = {x \in Components(C) : x = <<p[1], p[2]>>}
           /\ \A fam : Resolve(C, RefFamily(fam)) = ResolveFamily(C, Called(fam))
           /\ \A dir : Resolve(C, RefProject(dir)) = {RefProject(dir)}
           /\ \A name : \A x \in ResolveFamily(C, name) : x \in Components(C) /\ Called(x[1]) = name
<1>1. \A p : RefPurl(p)[1] = "purl" /\ RefPurl(p)[2] = p[1] /\ RefPurl(p)[3] = p[2]
    BY DEF RefPurl
<1>2. \A fam : RefFamily(fam)[1] = "family" /\ RefFamily(fam)[2] = Called(fam)
    BY DEF RefFamily
<1>3. \A dir : RefProject(dir)[1] = "project"
    BY DEF RefProject
<1>4. \A p : Resolve(C, RefPurl(p)) = {x \in Components(C) : x = <<p[1], p[2]>>}
    BY <1>1 DEF Resolve
<1>5. \A fam : Resolve(C, RefFamily(fam)) = ResolveFamily(C, Called(fam))
    BY <1>2 DEF Resolve
<1>6. \A dir : Resolve(C, RefProject(dir)) = {RefProject(dir)}
    BY <1>3 DEF Resolve
<1>7. \A name : \A x \in ResolveFamily(C, name) : x \in Components(C) /\ Called(x[1]) = name
    BY DEF ResolveFamily
<1> QED
    BY <1>4, <1>5, <1>6, <1>7

\* Where a claim has a name in the one version there is, the name leads to it.
LEMMA NameResolves ==
    ASSUME WorldInv, NEW f, NEW F, NEW l, Founded(f, F, l), \A e \in l : e[1] \in Packages,
           NEW p \in installed, Lone(p[1]), NEW c \in F.claims, c.name = p[1], c.ver = p[2]
    PROVE  Resolve(F.claims, RefFamily(p[1])) = {p}
<1> DEFINE C == F.claims
           candidates == {x \in Components(C) : Called(x[1]) = Called(p[1])}
<1>1. p \in Packages /\ p = <<p[1], p[2]>> /\ p[2] \in Nat /\ p[2] # 0
    BY NamesTold DEF WorldInv
<1>2. p \in candidates
    BY <1>1, ComponentIs
<1>3. ASSUME NEW x \in candidates PROVE x = p
  <2>1. PICK d \in C : x = <<d.name, d.ver>> /\ (d.ver # 0 \/ Cardinality(VersionsOf(C, d.name)) # 1)
      BY ComponentIs
  <2>2. PICK q \in Packages : d.name = q[1]
      BY DEF Founded, Known, WorldInv
  <2>3. d.name = p[1]
      BY <1>1, <2>1, <2>2, NamesTold
  <2>4. VersionsOf(C, p[1]) = {p[2]}
    <3>1. p[2] \in VersionsOf(C, p[1])
        BY <1>1 DEF VersionsOf
    <3>2. ASSUME NEW v \in VersionsOf(C, p[1]) PROVE v = p[2]
      <4>1. PICK b \in C : b.name = p[1] /\ b.ver = v /\ v # 0
          BY DEF VersionsOf
      <4>2. <<p[1], v>> \in installed
          BY <4>1 DEF Founded
      <4>3. <<p[1], v>> = p
          BY <1>1, <4>2 DEF Lone
      <4> QED
          BY <1>1, <4>3
    <3> QED
        BY <3>1, <3>2
  <2>5. d.ver # 0
      BY <2>1, <2>3, <2>4, FS_Singleton
  <2>6. <<d.name, d.ver>> \in installed
      BY <2>5 DEF Founded
  <2> QED
      BY <1>1, <2>1, <2>3, <2>6 DEF Lone
<1>4. candidates = {p}
    BY <1>2, <1>3
<1>5. ResolveFamily(C, Called(p[1])) = {p}
    BY <1>1, <1>4 DEF ResolveFamily
<1> QED
    BY <1>5, ResolveIs

\* A reference with a version leads to the component of that version.
LEMMA PurlResolves ==
    ASSUME NEW F, NEW p \in Packages, NEW c \in F.claims, c.name = p[1], c.ver = p[2]
    PROVE  Resolve(F.claims, RefPurl(p)) = {p} /\ p \in Components(F.claims)
<1>1. p = <<p[1], p[2]>> /\ p[2] # 0
    BY NamesTold
<1>2. p \in Components(F.claims)
    BY <1>1, ComponentIs
<1> QED
    BY <1>1, <1>2, ResolveIs

\* Graph, edge by edge.
LEMMA GraphIs ==
    ASSUME NEW F
    PROVE  \A e : e \in Graph(F) <=>
              \E d \in F.edges : /\ e \in Resolve(F.claims, d.src) \X Resolve(F.claims, d.dst) \X {d.scope} \X {d.direct}
                                 /\ e[1] # e[2]
    BY DEF Graph

\* Where a claim has a package's version, a reference that stands for the package
\* without a doubt leads to it alone.
LEMMA ExactlyResolves ==
    ASSUME WorldInv, NEW f, NEW F, NEW l, Founded(f, F, l), \A e \in l : e[1] \in Packages,
           NEW p \in installed, NEW c \in F.claims, c.name = p[1], c.ver = p[2], NEW ref, Exactly(ref, p)
    PROVE  Resolve(F.claims, ref) = {p}
<1>1. p \in Packages
    BY DEF WorldInv
<1>2. CASE ref = RefPurl(p)
    BY <1>1, <1>2, PurlResolves
<1>3. CASE Lone(p[1]) /\ ref = RefFamily(p[1])
    BY <1>3, NameResolves
<1> QED
    BY <1>2, <1>3 DEF Exactly

\* What a source or a target of a need leads to is called like the package.
LEMMA SourceLeads ==
    ASSUME WorldInv, NEW f, NEW C, NEW p \in installed, NEW ref \in Sources(f, p), NEW x \in Resolve(C, ref), x \in installed
    PROVE  x[1] = p[1] /\ (f \notin Native => x = p)
<1>1. p \in Packages /\ x \in Packages /\ p = <<p[1], p[2]>>
    BY NamesTold DEF WorldInv
<1>2. CASE ref = RefPurl(p)
  <2>1. x \in {y \in Components(C) : y = <<p[1], p[2]>>}
      BY <1>2, ResolveIs
  <2>2. x = p
      BY <1>1, <2>1
  <2> QED
      BY <2>2
<1>3. CASE f \in Native /\ ref = RefFamily(p[1])
  <2>1. Called(x[1]) = Called(p[1])
      BY <1>3, ResolveIs
  <2> QED
      BY <1>1, <1>3, <2>1, NamesTold
<1>4. CASE f \in Native /\ ref = RefFamily(ArtifactOf(p[1]))
  <2>1. Called(x[1]) = Called(ArtifactOf(p[1]))
      BY <1>4, ResolveIs
  <2> QED
      BY <1>1, <2>1, NamesTold
<1> QED
    BY <1>2, <1>3, <1>4 DEF Sources

\* The end of an edge leads to the package needed, or to one of its name.
LEMMA TargetLeads ==
    ASSUME WorldInv, NEW f, NEW C, NEW p \in installed, NEW ref, NEW x \in Resolve(C, ref), x \in installed
    PROVE  /\ ref \in {RefPurl(p), RefFamily(p[1])} => x[1] = p[1] /\ (OneVersionEach(installed) => x = p)
           /\ ref \in Targets(f, p) => x[1] = p[1] /\ (f \in Exact \/ OneVersionEach(installed) => x = p)
<1>1. p \in Packages /\ x \in Packages /\ p = <<p[1], p[2]>>
    BY NamesTold DEF WorldInv
<1>2. CASE ref = RefPurl(p)
  <2>1. x \in {y \in Components(C) : y = <<p[1], p[2]>>}
      BY <1>2, ResolveIs
  <2>2. x = p
      BY <1>1, <2>1
  <2> QED
      BY <2>2
<1>3. CASE ref = RefFamily(p[1])
  <2>1. Called(x[1]) = Called(p[1])
      BY <1>3, ResolveIs
  <2>2. x[1] = p[1]
      BY <1>1, <2>1, NamesTold
  <2>3. OneVersionEach(installed) => x = p
      BY <2>2 DEF OneVersionEach
  <2>4. ref \in Targets(f, p) => ref = RefPurl(p) \/ f \notin Exact
      BY DEF Targets
  <2> QED
      BY <1>2, <2>2, <2>3, <2>4
<1>4. ref \in Targets(f, p) => ref \in {RefPurl(p), RefFamily(p[1])}
    BY DEF Targets
<1> QED
    BY <1>2, <1>3, <1>4

\* A project is none of the packages.
LEMMA ProjectsAreNot ==
    ASSUME WorldInv, NEW dir
    PROVE  RefProject(dir) \notin installed
<1> SUFFICES ASSUME RefProject(dir) \in installed PROVE FALSE
    OBVIOUS
<1> DEFINE p == RefProject(dir)
<1>1. p = <<p[1], p[2]>>
    BY NamesTold DEF WorldInv
<1>2. Len(p) = 3
    BY DEF RefProject
<1> HIDE DEF p
<1>3. Len(p) = 2
    BY <1>1
<1> QED
    BY <1>2, <1>3

\* What a reading tells makes the graph be read back.
LEMMA GraphFollows ==
    ASSUME WorldInv, format \notin {None, "go-mod"}, Reads(format, found, later)
    PROVE  GraphIsReadBack
<1> DEFINE C == found.claims
           components == Components(C)
           edges == Between(installed)
           unambiguous == format \in Exact \/ OneVersionEach(installed)
<1>1. (IF format \in DirectOnly THEN DOMAIN section ELSE NotMembers) \subseteq components
  <2> SUFFICES ASSUME NEW p \in Listed(format) PROVE p \in components
      BY DEF Listed
  <2>1. PICK c \in C : c.name = p[1] /\ c.ver = p[2]
      BY DEF Reads, Complete
  <2>2. p \in Packages
      BY DEF Listed, NotMembers, WorldInv
  <2> QED
      BY <2>1, <2>2, PurlResolves
<1>2. ASSUME NEW x \in components, x[2] # 0 PROVE x \in installed
  <2>1. PICK c \in C : x = <<c.name, c.ver>>
      BY ComponentIs
  <2> QED
      BY <1>2, <2>1 DEF Reads, Founded
<1>3. ASSUME NEW e \in edges
      PROVE  \E n \in needs : /\ n[2][1] = e[2][1] /\ (unambiguous => n[2] = e[2])
                              /\ IF format \in Native THEN n[1][1] = e[1][1] ELSE n[1] = e[1]
  <2>1. PICK g \in Graph(found) : g[1] \in installed /\ g[2] \in installed /\ e = <<g[1], g[2]>>
      BY DEF Between, GraphEdges
  <2>2. PICK d \in found.edges : g[1] \in Resolve(C, d.src) /\ g[2] \in Resolve(C, d.dst)
      BY <2>1, GraphIs
  <2>3. d.src \notin Projects
    <3> SUFFICES ASSUME NEW dir, d.src = RefProject(dir) PROVE FALSE
        BY DEF Projects
    <3>1. g[1] = RefProject(dir)
        BY <2>2, ResolveIs
    <3> QED
        BY <2>1, <3>1, ProjectsAreNot
  <2>4. PICK n \in needs : d.src \in Sources(format, n[1]) /\ d.dst \in Targets(format, n[2])
      BY <2>3 DEF Reads, Founded
  <2>5. n[1] \in installed /\ n[2] \in installed
      BY DEF WorldInv
  <2>6. g[1][1] = n[1][1] /\ (format \notin Native => g[1] = n[1])
      BY <2>1, <2>2, <2>4, <2>5, SourceLeads
  <2>7. g[2][1] = n[2][1] /\ (unambiguous => g[2] = n[2])
      BY <2>1, <2>2, <2>4, <2>5, TargetLeads
  <2> QED
      BY <2>1, <2>6, <2>7
<1>4. ASSUME format \in Graphed, unambiguous, NEW e \in needs \ maybe, e[1] \in NotMembers
      PROVE  e \in edges
  <2>1. PICK d \in found.edges :
              /\ Exactly(d.src, e[1]) \/ (d.src = RefFamily(e[1][1]) /\ OneVersionEach(installed))
              /\ Exactly(d.dst, e[2])
      BY <1>4 DEF Reads, Complete
  <2>2. Exactly(d.src, e[1])
      BY <2>1, OneIsLone DEF Exactly
  <2>3. e[1] \in installed /\ e[2] \in installed /\ e[2] \in NotMembers /\ e = <<e[1], e[2]>> /\ e[1] # e[2]
      BY DEF WorldInv, NotMembers
  <2>4. Listed(format) = NotMembers
      BY <1>4 DEF Listed, DirectOnly, Graphed, Exact
  <2>5. \A p \in NotMembers : \E c \in C : c.name = p[1] /\ c.ver = p[2]
      BY <2>4 DEF Reads, Complete
  <2> DEFINE p == e[1]
             q == e[2]
  <2>6. Founded(format, found, later) /\ \A l \in later : l[1] \in Packages
      BY DEF Reads
  <2>7. Resolve(C, d.src) = {p}
    <3>1. PICK c \in C : c.name = p[1] /\ c.ver = p[2]
        BY <1>4, <2>5
    <3>2. p \in installed /\ Exactly(d.src, p)
        BY <2>2, <2>3
    <3> HIDE DEF p
    <3> QED
        BY <2>6, <3>1, <3>2, ExactlyResolves
  <2>8. Resolve(C, d.dst) = {q}
    <3>1. PICK c \in C : c.name = q[1] /\ c.ver = q[2]
        BY <2>3, <2>5
    <3>2. q \in installed /\ Exactly(d.dst, q)
        BY <2>1, <2>3
    <3> HIDE DEF q
    <3> QED
        BY <2>6, <3>1, <3>2, ExactlyResolves
  <2>9. <<e[1], e[2], d.scope, d.direct>> \in Graph(found)
      BY <2>1, <2>3, <2>7, <2>8, GraphIs
  <2> QED
      BY <2>3, <2>9 DEF Between, GraphEdges
<1> QED
    BY <1>1, <1>2, <1>3, <1>4 DEF GraphIsReadBack, Unambiguous, NotMembers

(***************************************************************************)
(* What is needed at run time                                              *)
(***************************************************************************)

Followed(F) == {<<e[1], e[2]>> : e \in {g \in Graph(F) : g[3] \in {None, "runtime"}}}

\* The nodes of the graph are finite: packages, names without a version, projects.
LEMMA FirstsFinite ==
    ASSUME NEW S, IsFiniteSet(S)
    PROVE  IsFiniteSet({x[1] : x \in S})
<1> DEFINE T == {x[1] : x \in S}
           h == [x \in S |-> x[1]]
<1>1. h \in Surjection(S, T)
    BY DEF Surjection
<1> QED
    BY <1>1, FS_Surjection

\* So the edges that are followed are finitely many.
LEMMA NodesFinite ==
    ASSUME WorldInv, NEW f, NEW F, NEW l, Reads(f, F, l)
    PROVE  IsFiniteSet(Followed(F))
<1> DEFINE names == Known(l)
           N == installed \cup (names \X {0}) \cup ({"project"} \X {Root} \X {0})
                  \cup ({"project"} \X {m[1] : m \in members} \X {0})
<1>1. IsFiniteSet(names)
  <2>1. IsFiniteSet({e[1] : e \in l})
      BY FirstsFinite DEF Reads
  <2>2. IsFiniteSet({p[1] : p \in {e[1] : e \in l}}) /\ IsFiniteSet({p[1] : p \in installed})
      BY <2>1, FirstsFinite DEF WorldInv
  <2>3. {p[1] : p \in {e[1] : e \in l}} = {e[1][1] : e \in l}
      OBVIOUS
  <2> QED
      BY <2>2, <2>3, FS_Union DEF Known
<1>2. IsFiniteSet({m[1] : m \in members})
  <2>1. members \in SUBSET installed
      BY DEF WorldInv, Required
  <2>2. IsFiniteSet(members)
      BY <2>1, FS_Subset DEF WorldInv
  <2> QED
      BY <2>2, FirstsFinite
<1>3. IsFiniteSet(N)
  <2>1. IsFiniteSet(names \X {0})
      BY <1>1, FS_Product, FS_Singleton
  <2>2. IsFiniteSet({"project"} \X {Root} \X {0})
    <3>1. {"project"} \X {Root} \X {0} = {<<"project", Root, 0>>}
        OBVIOUS
    <3> QED
        BY <3>1, FS_Singleton
  <2>3. IsFiniteSet({"project"} \X {m[1] : m \in members} \X {0})
    <3> DEFINE S == {m[1] : m \in members}
               T == {"project"} \X S \X {0}
               h == [x \in S |-> <<"project", x, 0>>]
    <3>1. \A t \in T : t[2] \in S /\ t = <<"project", t[2], 0>>
        OBVIOUS
    <3>2. \A x \in S : <<"project", x, 0>> \in T
        OBVIOUS
    <3>3. h \in [S -> T] /\ \A t \in T : t[2] \in S /\ h[t[2]] = t
        BY <3>1, <3>2
    <3>4. h \in Surjection(S, T)
      <4> HIDE DEF h, S, T
      <4> QED
          BY <3>3 DEF Surjection
    <3> QED
        BY <1>2, <3>4, FS_Surjection
  <2> QED
      BY <2>1, <2>2, <2>3, FS_Union DEF WorldInv
<1>4. ASSUME NEW x \in Components(F.claims) PROVE x \in N
  <2>1. PICK c \in F.claims : x = <<c.name, c.ver>>
      BY ComponentIs
  <2> QED
      BY <2>1 DEF Reads, Founded
<1>5. ASSUME NEW p PROVE /\ Resolve(F.claims, RefPurl(p)) \subseteq N
                         /\ Resolve(F.claims, RefFamily(p)) \subseteq N
    BY <1>4, ResolveIs
<1>6. ASSUME NEW d \in F.edges PROVE Resolve(F.claims, d.src) \subseteq N /\ Resolve(F.claims, d.dst) \subseteq N
  <2>1. CASE d.src \in Projects /\ \E p \in Packages : d.dst \in {RefPurl(p), RefFamily(p[1])}
    <3>1. Resolve(F.claims, d.dst) \subseteq N
        BY <1>5, <2>1
    <3>2. Resolve(F.claims, d.src) = {d.src}
        BY <2>1, ResolveIs DEF Projects
    <3>3. d.src \in N
      <4>1. Projects \subseteq ({"project"} \X {Root} \X {0}) \cup ({"project"} \X {m[1] : m \in members} \X {0})
          BY DEF Projects, RefProject
      <4> QED
          BY <2>1, <4>1
    <3> QED
        BY <3>1, <3>2, <3>3
  <2>2. CASE \E n \in needs : d.src \in Sources(f, n[1]) /\ d.dst \in Targets(f, n[2])
      BY <1>5, <2>2 DEF Sources, Targets
  <2> QED
      BY <2>1, <2>2 DEF Reads, Founded
<1>7. Followed(F) \in SUBSET (N \X N)
  <2> SUFFICES ASSUME NEW g \in Graph(F) PROVE <<g[1], g[2]>> \in N \X N
      BY DEF Followed
  <2>1. PICK d \in F.edges : g[1] \in Resolve(F.claims, d.src) /\ g[2] \in Resolve(F.claims, d.dst)
      BY GraphIs
  <2> QED
      BY <1>6, <2>1
<1>8. IsFiniteSet(N \X N)
    BY <1>3, FS_Product
<1> QED
    BY <1>7, <1>8, FS_Subset

\* The needs are finite.
LEMMA NeedsFinite ==
    ASSUME WorldInv
    PROVE  IsFiniteSet(needs) /\ IsFiniteSet(needs \ maybe)
<1>1. IsFiniteSet(installed \X installed)
    BY FS_Product DEF WorldInv
<1>2. needs \in SUBSET (installed \X installed)
    BY DEF WorldInv
<1>3. IsFiniteSet(needs)
    BY <1>1, <1>2, FS_Subset
<1> QED
    BY <1>3, FS_Difference

\* What stays, by its parts: all that is required and what that needs.
LEMMA StaysIs ==
    ASSUME WorldInv
    PROVE  /\ Required({"runtime", "optional"}) \subseteq Stays
           /\ \A e \in needs : e[1] \in Stays => e[2] \in Stays
           /\ ReachOver(Required({"runtime"}), needs \ maybe) \subseteq Stays
           /\ Stays \subseteq installed
<1>1. Required({"runtime", "optional"}) \subseteq Stays
    BY NeedsFinite, ReachStarts DEF Stays, NeededBy
<1>2. Heads(needs, Stays) \subseteq Stays
    BY NeedsFinite, ReachLeadsIn DEF Stays, NeededBy
<1>3. Required({"runtime"}) \subseteq Stays
    BY <1>1 DEF Required
<1>4. Heads(needs \ maybe, Stays) \subseteq Stays
    BY <1>2 DEF Heads
<1>5. ReachOver(Required({"runtime"}), needs \ maybe) \subseteq Stays
    BY <1>3, <1>4, NeedsFinite, ReachWithin
<1>6. Required({"runtime", "optional"}) \subseteq installed /\ Heads(needs, installed) \subseteq installed
    BY DEF Required, Heads, WorldInv
<1>7. Stays \subseteq installed
    BY <1>6, NeedsFinite, ReachWithin DEF Stays, NeededBy
<1> QED
    BY <1>1, <1>2, <1>5, <1>7 DEF Heads

Begins == {RefProject(Root)} \cup {RefProject(m[1]) : m \in members}

\* An edge to follow between two components is followed.
LEMMA EdgeIsFollowed ==
    ASSUME WorldInv, NEW F, NEW d \in F.edges, ToFollow(d), NEW a, NEW b, a # b,
           a \in Resolve(F.claims, d.src), b \in Resolve(F.claims, d.dst)
    PROVE  <<a, b>> \in Followed(F)
<1>1. <<a, b, d.scope, d.direct>> \in Graph(F)
    BY GraphIs
<1> QED
    BY <1>1 DEF Followed, ToFollow

\* What the project needs at run time is met from the projects.
LEMMA RuntimeIsMet ==
    ASSUME WorldInv, NEW f, NEW F, NEW l, Reads(f, F, l), f \in Graphed \ Rootless, f \in Exact \/ OneVersionEach(installed)
    PROVE  ReachOver(Required({"runtime"}), needs \ maybe) \ members \subseteq ReachOver(Begins, Followed(F))
<1> DEFINE reached == ReachOver(Begins, Followed(F))
           T == (members \cup reached) \cap Stays
<1>1. Begins \subseteq reached /\ Heads(Followed(F), reached) \subseteq reached
    BY NodesFinite, ReachStarts, ReachLeadsIn
<1> HIDE DEF reached
<1>2. \A a \in reached : \A b : <<a, b>> \in Followed(F) => b \in reached
    BY <1>1 DEF Heads
<1>3. Listed(f) = NotMembers
    BY DEF Listed, DirectOnly, Graphed, Exact
<1>4. \A p \in NotMembers : \E c \in F.claims : c.name = p[1] /\ c.ver = p[2]
    BY <1>3 DEF Reads, Complete
<1>5. ASSUME NEW p \in NotMembers, NEW ref, Exactly(ref, p) PROVE Resolve(F.claims, ref) = {p}
  <2>1. PICK c \in F.claims : c.name = p[1] /\ c.ver = p[2]
      BY <1>4
  <2>2. p \in installed
      BY DEF NotMembers
  <2> QED
      BY <1>5, <2>1, <2>2, ExactlyResolves DEF Reads
<1>6. \A dir, p : p \in installed => RefProject(dir) # p
    BY ProjectsAreNot
<1>7. NotMembers \subseteq installed /\ \A e \in needs : e[2] \in NotMembers /\ e[1] # e[2] /\ e[1] \in installed
    BY DEF NotMembers, WorldInv
<1>8. ASSUME NEW dir, RefProject(dir) \in Begins, NEW p \in NotMembers, NEW d \in F.edges,
             d.src = RefProject(dir), Exactly(d.dst, p), ToFollow(d)
      PROVE  p \in reached
  <2>1. Resolve(F.claims, d.src) = {RefProject(dir)} /\ Resolve(F.claims, d.dst) = {p}
      BY <1>5, <1>8, ResolveIs
  <2>2. <<RefProject(dir), p>> \in Followed(F)
      BY <1>6, <1>7, <1>8, <2>1, EdgeIsFollowed
  <2> QED
      BY <1>1, <1>2, <1>8, <2>2
<1>9. Required({"runtime"}) \subseteq T
  <2> SUFFICES ASSUME NEW p \in Required({"runtime"}), p \notin members PROVE p \in reached
      BY StaysIs DEF Required
  <2>1. PICK d \in F.edges : d.src = RefProject(Root) /\ Exactly(d.dst, p) /\ ToFollow(d)
      BY DEF Reads, Connected, Begun, Linked
  <2>2. p \in NotMembers
      BY DEF Required, NotMembers, WorldInv
  <2> QED
      BY <1>8, <2>1, <2>2 DEF Begins
<1>10. ASSUME NEW e \in needs \ maybe, e[1] \in T PROVE e[2] \in T
  <2>1. e[2] \in Stays
      BY <1>10, StaysIs
  <2>2. CASE e[1] \in members
    <3>1. PICK d \in F.edges : /\ Exactly(d.dst, e[2]) /\ ToFollow(d)
                               /\ d.src = RefProject(e[1][1]) \/ (Exactly(d.src, e[1]) /\ Hung(F, e[1]))
        BY <2>2 DEF Reads, Connected, Begun, Linked
    <3>2. CASE d.src = RefProject(e[1][1])
        BY <1>7, <1>8, <2>1, <2>2, <3>1, <3>2 DEF Begins
    <3>3. CASE Exactly(d.src, e[1]) /\ Hung(F, e[1])
      <4>1. PICK c \in F.claims : c.name = e[1][1] /\ c.ver = e[1][2]
          BY <3>3 DEF Hung
      <4>2. PICK h \in F.edges : h.src = RefProject(Root) /\ Exactly(h.dst, e[1]) /\ ToFollow(h)
          BY <3>3 DEF Hung
      <4>3. Resolve(F.claims, h.dst) = {e[1]} /\ Resolve(F.claims, d.src) = {e[1]}
        <5>1. Founded(f, F, l) /\ (\A x \in l : x[1] \in Packages) /\ e[1] \in installed
            BY <1>7 DEF Reads
        <5>2. \A ref : Exactly(ref, e[1]) => Resolve(F.claims, ref) = {e[1]}
            BY <4>1, <5>1, ExactlyResolves
        <5> QED
            BY <3>3, <4>2, <5>2
      <4>4. Resolve(F.claims, h.src) = {RefProject(Root)} /\ Resolve(F.claims, d.dst) = {e[2]}
          BY <1>5, <1>7, <3>1, <4>2, ResolveIs
      <4>5. <<RefProject(Root), e[1]>> \in Followed(F) /\ <<e[1], e[2]>> \in Followed(F)
          BY <1>6, <1>7, <3>1, <4>2, <4>3, <4>4, EdgeIsFollowed
      <4>6. RefProject(Root) \in Begins
          BY DEF Begins
      <4>7. e[1] \in reached
          BY <1>1, <1>2, <4>5, <4>6
      <4> QED
          BY <1>2, <2>1, <4>5, <4>7
    <3> QED
        BY <3>1, <3>2, <3>3
  <2>3. CASE e[1] \notin members
    <3>1. e[1] \in NotMembers \cap Stays /\ e[1] \in reached
        BY <1>7, <1>10, <2>3 DEF NotMembers
    <3>2. PICK d \in F.edges : Exactly(d.src, e[1]) /\ Exactly(d.dst, e[2]) /\ ToFollow(d)
        BY <3>1 DEF Reads, Connected, Begun, Linked
    <3>3. Resolve(F.claims, d.src) = {e[1]} /\ Resolve(F.claims, d.dst) = {e[2]}
        BY <1>5, <1>7, <3>1, <3>2
    <3>4. <<e[1], e[2]>> \in Followed(F)
        BY <1>7, <3>2, <3>3, EdgeIsFollowed
    <3> QED
        BY <1>2, <2>1, <3>1, <3>4
  <2> QED
      BY <2>2, <2>3
<1>11. Heads(needs \ maybe, T) \subseteq T
    BY <1>10 DEF Heads
<1>12. ReachOver(Required({"runtime"}), needs \ maybe) \subseteq T
  <2> HIDE DEF T
  <2> QED
      BY <1>9, <1>11, NeedsFinite, ReachWithin
<1> QED
    BY <1>12 DEF reached

\* Where the sections are known, nothing else is.
LEMMA OnlyRuntimeIsMet ==
    ASSUME WorldInv, NEW f, NEW F, NEW l, Reads(f, F, l), f \in Graphed \ (Rootless \cup Flat),
           OneVersionEach(installed), l = {}, NEW p \in ReachOver(Begins, Followed(F)), p \in installed
    PROVE  p \in Stays
<1> DEFINE U == Begins \cup {e[2] : e \in Followed(F)}
           T == {x \in U : x \in installed => x \in Stays}
<1>1. Begins \subseteq T
    BY ProjectsAreNot DEF Begins
<1>2. ASSUME NEW e \in Followed(F), e[1] \in T PROVE e[2] \in T
  <2>1. PICK g \in Graph(F) : g[3] \in {None, "runtime"} /\ e = <<g[1], g[2]>>
      BY DEF Followed
  <2>2. PICK d \in F.edges : g \in Resolve(F.claims, d.src) \X Resolve(F.claims, d.dst) \X {d.scope} \X {d.direct}
      BY GraphIs
  <2>3. e[1] \in Resolve(F.claims, d.src) /\ e[2] \in Resolve(F.claims, d.dst) /\ ToFollow(d)
      BY <2>1, <2>2 DEF ToFollow
  <2> SUFFICES ASSUME e[2] \in installed PROVE e[2] \in Stays
      OBVIOUS
  <2>4. CASE d.src \in Projects /\ \E q \in Stays : d.dst \in {RefPurl(q), RefFamily(q[1])}
    <3>1. PICK q \in Stays : d.dst \in {RefPurl(q), RefFamily(q[1])}
        BY <2>4
    <3>2. q \in installed
        BY StaysIs
    <3> QED
        BY <2>3, <3>1, <3>2, TargetLeads
  <2>5. CASE \E n \in needs : d.src = RefPurl(n[1]) /\ d.dst \in {RefPurl(n[2]), RefFamily(n[2][1])}
    <3>1. PICK n \in needs : d.src = RefPurl(n[1]) /\ d.dst \in {RefPurl(n[2]), RefFamily(n[2][1])}
        BY <2>5
    <3>2. n[1] \in installed /\ n[2] \in installed /\ n[1] \in Packages
        BY DEF WorldInv
    <3>3. e[1] = n[1]
      <4>1. e[1] \in {x \in Components(F.claims) : x = <<n[1][1], n[1][2]>>}
          BY <2>3, <3>1, ResolveIs
      <4>2. n[1] = <<n[1][1], n[1][2]>>
          BY <3>2, NamesTold
      <4> QED
          BY <4>1, <4>2
    <3>4. e[2] = n[2]
        BY <2>3, <3>1, <3>2, TargetLeads
    <3>5. e[1] \in Stays
        BY <1>2, <3>2, <3>3
    <3> QED
        BY <3>3, <3>4, <3>5, StaysIs
  <2> QED
      BY <2>3, <2>4, <2>5 DEF Reads, Alone
<1>3. Heads(Followed(F), T) \subseteq T
    BY <1>2 DEF Heads
<1>4. ReachOver(Begins, Followed(F)) \subseteq T
  <2> HIDE DEF T
  <2> QED
      BY <1>1, <1>3, NodesFinite, ReachWithin
<1> QED
    BY <1>4

\* What a reading tells makes what the project needs at run time be reached.
LEMMA RuntimeFollows ==
    ASSUME WorldInv, format \notin {None, "go-mod"}, Reads(format, found, later)
    PROVE  RuntimeIsReachable
<1>1. SUFFICES ASSUME format \in Graphed, Unambiguous, format \notin Rootless
      PROVE  /\ ReachOver(Required({"runtime"}), needs \ maybe) \ members \subseteq ReachOver(Begins, Followed(found))
             /\ (format \notin Flat /\ OneVersionEach(installed) /\ later = {}) =>
                   \A p \in ReachOver(Begins, Followed(found)) : p \in installed => p \in Stays
    BY DEF RuntimeIsReachable, Begins, Followed, GraphEdges, Stays
<1>2. format \in Graphed \ Rootless /\ (format \in Exact \/ OneVersionEach(installed))
    BY <1>1 DEF Unambiguous
<1>3. ReachOver(Required({"runtime"}), needs \ maybe) \ members \subseteq ReachOver(Begins, Followed(found))
    BY <1>2, RuntimeIsMet
<1>4. ASSUME format \notin Flat, OneVersionEach(installed), later = {},
             NEW p \in ReachOver(Begins, Followed(found)), p \in installed
      PROVE  p \in Stays
    BY <1>2, <1>4, OnlyRuntimeIsMet
<1> QED
    BY <1>3, <1>4

\* Two readings side by side tell what either tells.
LEMMA TogetherRead ==
    ASSUME NEW f, NEW A, NEW B, NEW l, IsFiniteSet(l), \A e \in l : e[1] \in Packages,
           Founded(f, A, l), Founded(f, B, l), Complete(f, B),
           f \in Graphed \ Rootless /\ (f \in Exact \/ OneVersionEach(installed)) => Begun(Both(A, B)) /\ Linked(B),
           Alone(f, A, l), Alone(f, B, l)
    PROVE  Reads(f, Both(A, B), l)
<1> DEFINE F == Both(A, B)
<1>1. F.claims = A.claims \cup B.claims /\ F.edges = A.edges \cup B.edges
    BY DEF Both, Found
<1> HIDE DEF F
<1>2. Founded(f, F, l)
    BY <1>1 DEF Founded
<1>3. Complete(f, F)
    BY <1>1 DEF Complete
<1>4. Linked(B) => Linked(F)
    BY <1>1 DEF Linked
<1>5. Alone(f, F, l)
    BY <1>1 DEF Alone
<1> QED
    BY <1>2, <1>3, <1>4, <1>5 DEF Reads, Connected, F

\* A file beside the manifests: it tells what was installed, they tell where the
\* project begins.
LEMMA BothRead ==
    ASSUME NEW f, NEW A, NEW B, NEW l, IsFiniteSet(l), \A e \in l : e[1] \in Packages,
           Founded(f, A, l), Founded(f, B, l), Complete(f, B),
           f \in Graphed \ Rootless /\ (f \in Exact \/ OneVersionEach(installed)) => (Begun(A) \/ Begun(B)) /\ Linked(B),
           Alone(f, A, l), Alone(f, B, l)
    PROVE  Reads(f, Both(A, B), l)
<1> DEFINE F == Both(A, B)
<1>1. F.claims = A.claims \cup B.claims /\ F.edges = A.edges \cup B.edges
    BY DEF Both, Found
<1> HIDE DEF F
<1>2. Begun(A) => Begun(F)
    BY <1>1 DEF Begun, Hung
<1>3. Begun(B) => Begun(F)
    BY <1>1 DEF Begun, Hung
<1> QED
    BY <1>2, <1>3, TogetherRead DEF F

\* A file that is read by itself.
LEMMA OneReads ==
    ASSUME NEW f, NEW B, NEW l, IsFiniteSet(l), \A e \in l : e[1] \in Packages,
           Founded(f, B, l), Complete(f, B),
           f \in Graphed \ Rootless /\ (f \in Exact \/ OneVersionEach(installed)) => Begun(B) /\ Linked(B),
           Alone(f, B, l)
    PROVE  Reads(f, B, l)
    BY DEF Reads, Connected

\* A manifest declares names, and gives each project an edge to what it requires.
LEMMA ManifestIs ==
    ASSUME NEW project, NEW scopes
    PROVE  /\ \A c : c \in Manifest(project, scopes).claims <=> \E p \in DOMAIN scopes : c = Declared(p[1])
           /\ \A d : d \in Manifest(project, scopes).edges <=>
                \E p \in DOMAIN scopes : d = DirectEdge(project, RefFamily(p[1]), scopes[p])
    BY DEF Manifest, Found

OfMember(m) == Manifest(m[1], [q \in NeedsOf(m) |-> IF <<m, q>> \in maybe THEN "optional" ELSE "runtime"])

\* The manifests, claim by claim and edge by edge.
LEMMA ManifestsAre ==
    /\ \A c : c \in Manifests.claims =>
         (\E p \in DOMAIN section : c = Declared(p[1])) \/ (\E m \in members : \E q \in NeedsOf(m) : c = Declared(q[1]))
    /\ \A d : d \in Manifests.edges <=>
         \/ \E p \in DOMAIN section : d = DirectEdge(Root, RefFamily(p[1]), section[p])
         \/ \E m \in members : \E q \in NeedsOf(m) :
               d = DirectEdge(m[1], RefFamily(q[1]), IF <<m, q>> \in maybe THEN "optional" ELSE "runtime")
<1> DEFINE ofMembers == {OfMember(m) : m \in members}
           root == Manifest(Root, section)
<1>1. /\ Manifests.claims = root.claims \cup UNION {part.claims : part \in ofMembers}
      /\ Manifests.edges = root.edges \cup UNION {part.edges : part \in ofMembers}
    BY DEF Manifests, OfMember, Found
<1>2. \A m : /\ \A c : c \in OfMember(m).claims <=> \E q \in NeedsOf(m) : c = Declared(q[1])
             /\ \A d : d \in OfMember(m).edges <=>
                  \E q \in NeedsOf(m) : d = DirectEdge(m[1], RefFamily(q[1]), IF <<m, q>> \in maybe THEN "optional" ELSE "runtime")
  <2> SUFFICES ASSUME NEW m
        PROVE  /\ \A c : c \in OfMember(m).claims <=> \E q \in NeedsOf(m) : c = Declared(q[1])
               /\ \A d : d \in OfMember(m).edges <=>
                    \E q \in NeedsOf(m) : d = DirectEdge(m[1], RefFamily(q[1]), IF <<m, q>> \in maybe THEN "optional" ELSE "runtime")
      OBVIOUS
  <2> DEFINE scopes == [q \in NeedsOf(m) |-> IF <<m, q>> \in maybe THEN "optional" ELSE "runtime"]
  <2>1. OfMember(m) = Manifest(m[1], scopes)
      BY DEF OfMember
  <2>2. DOMAIN scopes = NeedsOf(m) /\ \A q \in NeedsOf(m) : scopes[q] = IF <<m, q>> \in maybe THEN "optional" ELSE "runtime"
      OBVIOUS
  <2> HIDE DEF scopes
  <2>3. /\ \A c : c \in OfMember(m).claims <=> \E p \in DOMAIN scopes : c = Declared(p[1])
        /\ \A d : d \in OfMember(m).edges <=> \E p \in DOMAIN scopes : d = DirectEdge(m[1], RefFamily(p[1]), scopes[p])
      BY <2>1, ManifestIs
  <2>4. \A d, p : p \in NeedsOf(m) =>
           (d = DirectEdge(m[1], RefFamily(p[1]), scopes[p]) <=>
            d = DirectEdge(m[1], RefFamily(p[1]), IF <<m, p>> \in maybe THEN "optional" ELSE "runtime"))
      BY <2>2
  <2> QED
      BY <2>2, <2>3, <2>4
<1>3. /\ \A c : c \in root.claims <=> \E p \in DOMAIN section : c = Declared(p[1])
      /\ \A d : d \in root.edges <=> \E p \in DOMAIN section : d = DirectEdge(Root, RefFamily(p[1]), section[p])
    BY ManifestIs
<1> HIDE DEF root
<1>4. ASSUME NEW c \in Manifests.claims
      PROVE  (\E p \in DOMAIN section : c = Declared(p[1])) \/ (\E m \in members : \E q \in NeedsOf(m) : c = Declared(q[1]))
    BY <1>1, <1>2, <1>3
<1>5. ASSUME NEW d
      PROVE  d \in Manifests.edges <=>
         \/ \E p \in DOMAIN section : d = DirectEdge(Root, RefFamily(p[1]), section[p])
         \/ \E m \in members : \E q \in NeedsOf(m) :
               d = DirectEdge(m[1], RefFamily(q[1]), IF <<m, q>> \in maybe THEN "optional" ELSE "runtime")
  <2>1. d \in Manifests.edges <=> d \in root.edges \/ \E m \in members : d \in OfMember(m).edges
      BY <1>1
  <2> QED
      BY <1>2, <1>3, <2>1
<1> QED
    BY <1>4, <1>5

\* The manifests tell where the projects begin, and no more.
LEMMA ManifestsRead ==
    ASSUME WorldInv, NEW f
    PROVE  /\ Founded(f, Manifests, {}) /\ Alone(f, Manifests, {})
           /\ OneVersionEach(installed) => Begun(Manifests)
<1> DEFINE F == Manifests
<1>1. members \subseteq installed /\ DOMAIN section \subseteq installed /\ \A m : NeedsOf(m) \subseteq installed
      /\ installed \subseteq Packages
    BY DEF WorldInv, Required, NeedsOf
<1>2. ASSUME NEW c \in F.claims PROVE c.name \in Known({}) /\ c.ver = 0
  <2>1. PICK p \in installed : c = Declared(p[1])
      BY <1>1, ManifestsAre
  <2> QED
      BY <2>1 DEF Declared, Known
<1>3. ASSUME NEW d \in F.edges PROVE d.src \in Projects /\ \E p \in Packages : d.dst \in {RefPurl(p), RefFamily(p[1])}
  <2>1. CASE \E p \in DOMAIN section : d = DirectEdge(Root, RefFamily(p[1]), section[p])
      BY <1>1, <2>1 DEF DirectEdge, Edge, Projects
  <2>2. CASE \E m \in members : \E q \in NeedsOf(m) :
               d = DirectEdge(m[1], RefFamily(q[1]), IF <<m, q>> \in maybe THEN "optional" ELSE "runtime")
      BY <1>1, <2>2 DEF DirectEdge, Edge, Projects
  <2> QED
      BY <2>1, <2>2, ManifestsAre
<1>4. Founded(f, F, {})
    BY <1>2, <1>3 DEF Founded
<1>5. ASSUME NEW d \in F.edges, ToFollow(d) PROVE d.src \in Projects /\ \E p \in Stays : d.dst \in {RefPurl(p), RefFamily(p[1])}
  <2>1. CASE \E p \in DOMAIN section : d = DirectEdge(Root, RefFamily(p[1]), section[p])
    <3>1. PICK p \in DOMAIN section : d = DirectEdge(Root, RefFamily(p[1]), section[p])
        BY <2>1
    <3>2. section[p] = "runtime"
        BY <1>5, <3>1 DEF ToFollow, DirectEdge, Edge, WorldInv, Section, None
    <3>3. p \in Stays
        BY <3>2, StaysIs DEF Required
    <3> QED
        BY <1>3, <3>1, <3>3 DEF DirectEdge, Edge
  <2>2. CASE \E m \in members : \E q \in NeedsOf(m) :
               d = DirectEdge(m[1], RefFamily(q[1]), IF <<m, q>> \in maybe THEN "optional" ELSE "runtime")
    <3>1. PICK m \in members : \E q \in NeedsOf(m) :
               d = DirectEdge(m[1], RefFamily(q[1]), IF <<m, q>> \in maybe THEN "optional" ELSE "runtime")
        BY <2>2
    <3>5. PICK q \in NeedsOf(m) : d = DirectEdge(m[1], RefFamily(q[1]), IF <<m, q>> \in maybe THEN "optional" ELSE "runtime")
        BY <3>1
    <3>2. <<m, q>> \in needs /\ m \in Required({"runtime"})
        BY DEF NeedsOf, WorldInv
    <3>3. m \in Stays
        BY <3>2, StaysIs DEF Required
    <3>4. q \in Stays
        BY <3>2, <3>3, StaysIs
    <3> QED
        BY <1>3, <3>5, <3>4 DEF DirectEdge, Edge
  <2> QED
      BY <2>1, <2>2, ManifestsAre
<1>6. Alone(f, F, {})
    BY <1>5 DEF Alone
<1>7. ASSUME OneVersionEach(installed) PROVE Begun(F)
  <2>1. ASSUME NEW p \in Required({"runtime"})
        PROVE  \E d \in F.edges : d.src = RefProject(Root) /\ Exactly(d.dst, p) /\ ToFollow(d)
    <3> DEFINE d == DirectEdge(Root, RefFamily(p[1]), section[p])
    <3>1. d \in F.edges
        BY ManifestsAre DEF Required
    <3>2. d.src = RefProject(Root) /\ d.dst = RefFamily(p[1]) /\ d.scope = "runtime"
        BY DEF DirectEdge, Edge, Required
    <3> QED
        BY <1>7, <3>1, <3>2, OneIsLone DEF Exactly, ToFollow
  <2>2. ASSUME NEW e \in needs \ maybe, e[1] \in members
        PROVE  \E d \in F.edges : d.src = RefProject(e[1][1]) /\ Exactly(d.dst, e[2]) /\ ToFollow(d)
    <3> DEFINE d == DirectEdge(e[1][1], RefFamily(e[2][1]), "runtime")
    <3>1. e = <<e[1], e[2]>> /\ e[2] \in NeedsOf(e[1])
        BY DEF NeedsOf, WorldInv
    <3>2. d \in F.edges
        BY <2>2, <3>1, ManifestsAre
    <3>3. d.src = RefProject(e[1][1]) /\ d.dst = RefFamily(e[2][1]) /\ d.scope = "runtime"
        BY DEF DirectEdge, Edge
    <3> QED
        BY <1>7, <3>2, <3>3, OneIsLone DEF Exactly, ToFollow
  <2> QED
      BY <2>1, <2>2 DEF Begun
<1> QED
    BY <1>4, <1>6, <1>7

\* The facts that every reading rests on.
LEMMA Basics ==
    ASSUME WorldInv
    PROVE  /\ installed \subseteq Packages /\ NotMembers \subseteq installed /\ Released = NotMembers
           /\ members \subseteq installed /\ members \subseteq Stays
           /\ \A e \in needs : e = <<e[1], e[2]>> /\ e[1] \in installed /\ e[2] \in installed /\ e[2] \in NotMembers
           /\ members = {} => NotMembers = installed
           /\ \A p \in installed : p[1] \in Known({}) /\ <<p[1], p[2]>> \in installed
           /\ \A m, q : q \in NeedsOf(m) <=> q \in installed /\ <<m, q>> \in needs
<1>1. \A p \in installed : <<p[1], p[2]>> \in installed
    BY NamesTold DEF WorldInv
<1>2. members \subseteq Stays
    BY StaysIs DEF WorldInv, Required
<1> QED
    BY <1>1, <1>2 DEF WorldInv, NotMembers, Released, Required, Known, NeedsOf

\* What has to be listed has a claim, and only what was installed has one.
Lists(f, F) ==
    /\ \A c \in F.claims : \E p \in installed : c.name = p[1] /\ c.ver = p[2]
    /\ \A p \in Listed(f) : \E c \in F.claims : c.name = p[1] /\ c.ver = p[2]

\* A list of which nothing is asked but that its edges are founded.
LEMMA ListReads ==
    ASSUME WorldInv, NEW f, f \notin Graphed, NEW F, Lists(f, F),
           \A d \in F.edges : \/ d.src \in Projects /\ \E p \in installed : d.dst \in {RefPurl(p), RefFamily(p[1])}
                              \/ \E n \in needs : d.src \in Sources(f, n[1]) /\ d.dst \in Targets(f, n[2])
    PROVE  Founded(f, F, {}) /\ Complete(f, F) /\ Alone(f, F, {})
<1>1. Founded(f, F, {})
    BY Basics DEF Founded, Lists
<1>2. Complete(f, F)
    BY DEF Complete, Lists
<1> QED
    BY <1>1, <1>2 DEF Alone

\* A list with an edge for every need, and other edges from the project perhaps.
LEMMA NeedsRead ==
    ASSUME WorldInv, NEW f, f \in Graphed, NEW F, Lists(f, F),
           \A d \in F.edges : \/ /\ d.src \in Projects
                                 /\ \E p \in installed : d.dst = RefPurl(p) /\ (ToFollow(d) /\ f \notin Flat => p \in Stays)
                              \/ \E n \in needs : d.src = RefPurl(n[1]) /\ d.dst \in Targets(f, n[2]),
           \A e \in needs \ maybe : e[1] \in NotMembers =>
              \E d \in F.edges : /\ d.src = RefPurl(e[1]) /\ d.dst \in Targets(f, e[2])
                                 /\ (e[1] \in Stays => ToFollow(d))
    PROVE  /\ Founded(f, F, {}) /\ Complete(f, F) /\ Alone(f, F, {})
           /\ f \in Exact \/ OneVersionEach(installed) => Linked(F)
<1>1. \A p : /\ RefPurl(p) \in Sources(f, p) /\ Exactly(RefPurl(p), p)
             /\ Targets(f, p) \subseteq {RefPurl(p), RefFamily(p[1])}
             /\ \A ref \in Targets(f, p) : (f \in Exact \/ OneVersionEach(installed)) => Exactly(ref, p)
    BY OneIsLone DEF Sources, Targets, Exactly
<1>2. RefProject(Root) \in Projects
    BY DEF Projects
<1>3. Founded(f, F, {})
  <2>1. \A c \in F.claims : c.name \in Known({}) /\ (c.ver = 0 \/ <<c.name, c.ver>> \in installed)
      BY Basics DEF Lists
  <2>2. ASSUME NEW d \in F.edges
        PROVE  \/ d.src \in Projects /\ \E p \in Packages : d.dst \in {RefPurl(p), RefFamily(p[1])}
               \/ \E n \in needs : d.src \in Sources(f, n[1]) /\ d.dst \in Targets(f, n[2])
      BY <1>1, <1>2, Basics
  <2> QED
      BY <2>1, <2>2 DEF Founded
<1>4. Complete(f, F)
  <2>1. ASSUME f \in Exact \/ OneVersionEach(installed), NEW e \in needs \ maybe, e[1] \in NotMembers
        PROVE  \E d \in F.edges : Exactly(d.src, e[1]) /\ Exactly(d.dst, e[2])
      BY <1>1, <2>1
  <2> QED
      BY <2>1 DEF Complete, Lists
<1>5. Alone(f, F, {})
  <2>1. ASSUME NEW d \in F.edges, ToFollow(d), f \notin Flat
        PROVE  \/ d.src \in Projects /\ \E p \in Stays : d.dst \in {RefPurl(p), RefFamily(p[1])}
               \/ \E n \in needs : d.src = RefPurl(n[1]) /\ d.dst \in {RefPurl(n[2]), RefFamily(n[2][1])}
      BY <1>1, <1>2, <2>1
  <2> QED
      BY <2>1 DEF Alone
<1>6. ASSUME f \in Exact \/ OneVersionEach(installed) PROVE Linked(F)
    BY <1>1, <1>6 DEF Linked
<1> QED
    BY <1>3, <1>4, <1>5, <1>6

ClaimOf(c, p) == c.name = p[1] /\ c.ver = p[2]

\* A claim has the name and version of its package.
LEMMA ClaimIs == \A p, t, m : ClaimOf(Claim(p, t, m), p)
    BY DEF Claim, ClaimOf

NoManifest == [claims |-> {}, edges |-> {}]

\* A reading alone, from its four parts.
LEMMA ReadsAlone ==
    ASSUME WorldInv, NEW f, NEW F, NEW A, Founded(f, F, {}) /\ Complete(f, F) /\ Alone(f, F, {}),
           A = Manifests \/ A = NoManifest, f \notin Graphed \ Rootless
    PROVE  Reads(f, Both(A, F), {})
<1>1. Founded(f, NoManifest, {}) /\ Alone(f, NoManifest, {})
    BY DEF Founded, Alone, NoManifest
<1>2. Founded(f, A, {}) /\ Alone(f, A, {})
    BY <1>1, ManifestsRead
<1> QED
    BY <1>2, BothRead, FS_EmptySet

\* No manifest adds nothing.
LEMMA Nothings == \A c, e : Both(NoManifest, Found(c, e)) = Found(c, e)
    BY DEF NoManifest, Both, Found

(***************************************************************************)
(* Format by format                                                        *)
(***************************************************************************)

May(f) == (f \in ManyVersions \/ OneVersionEach(installed)) /\ (f \in Workspaces \/ members = {})

\* Which formats are which.
LEMMA FormatsAre ==
    /\ {"bun-lock", "deno-lock", "node-modules", "pipfile-lock", "requirements", "nuget-lock", "rebar-lock", "paket-lock",
        "package-list", "pnpm-ls", "maven-tree", "gradle-dependencies", "sbt-list"} \cap Graphed = {}
    /\ \A f : f \in DirectOnly <=> f = "pnpm-ls"
    /\ \A f : f \in Exact <=> f \in {"npm-lock-v2", "pnpm-lock"}
    /\ {"podfile-lock", "vcpkg-status", "bazel-graph"} \subseteq Rootless \cap Graphed
    BY DEF Graphed, DirectOnly, Exact, Rootless

\* The lists.
LEMMA FlatListReads ==
    ASSUME WorldInv, NEW f \in {"bun-lock", "deno-lock"}
    PROVE  Reads(f, IF f = "bun-lock" THEN Both(Manifests, BunLock) ELSE DenoLock, {})
<1> DEFINE F == IF f = "bun-lock" THEN BunLock ELSE DenoLock
<1>1. /\ \A c \in F.claims : (\E p \in NotMembers : c = Claim(p, Tier.LOCKED, {}))
                              \/ \E m \in members : c.name = m[1] /\ c.ver = 0
      /\ \A p \in NotMembers : Claim(p, Tier.LOCKED, {}) \in F.claims
    BY DEF BunLock, DenoLock, FlatList, Both, Found
<1>2. \A d \in F.edges : (\E p \in NotMembers : d = Edge(RefProject(Root), RefPurl(p), "runtime", FALSE))
                          \/ \E m \in members : d = Edge(RefProject(Root), RefFamily(m[1]), "runtime", FALSE)
    BY DEF BunLock, DenoLock, FlatList, Both, Found
<1>3. F = Both(NoManifest, F)
    BY DEF BunLock, DenoLock, FlatList, NoManifest, Both, Found
<1> HIDE DEF F
<1>4. f \notin Graphed /\ Listed(f) = NotMembers
    BY FormatsAre DEF Listed
<1>5. Founded(f, F, {})
  <2>1. \A c \in F.claims : c.name \in Known({}) /\ (c.ver = 0 \/ <<c.name, c.ver>> \in installed)
    <3>1. ASSUME NEW c \in F.claims, NEW p \in NotMembers, c = Claim(p, Tier.LOCKED, {})
          PROVE  c.name \in Known({}) /\ <<c.name, c.ver>> \in installed
      <4>1. c.name = p[1] /\ c.ver = p[2]
          BY <3>1, ClaimIs DEF ClaimOf
      <4> QED
          BY <4>1, Basics
    <3> QED
        BY <1>1, <3>1, Basics
  <2>2. ASSUME NEW d \in F.edges PROVE d.src \in Projects /\ \E p \in Packages : d.dst \in {RefPurl(p), RefFamily(p[1])}
    <3>1. RefProject(Root) \in Projects
        BY DEF Projects
    <3>2. \E p \in installed : d.src = RefProject(Root) /\ d.dst \in {RefPurl(p), RefFamily(p[1])}
        BY <1>2, Basics DEF Edge
    <3> QED
        BY <3>1, <3>2, Basics
  <2> QED
      BY <2>1, <2>2 DEF Founded
<1>6. Complete(f, F)
    BY <1>1, <1>4, ClaimIs DEF Complete, ClaimOf
<1>7. Alone(f, F, {})
    BY <1>4 DEF Alone
<1>8. Reads(f, Both(Manifests, F), {}) /\ Reads(f, Both(NoManifest, F), {})
    BY <1>4, <1>5, <1>6, <1>7, ReadsAlone
<1> QED
    BY <1>3, <1>8 DEF F

\* node_modules.
LEMMA NodeModulesRead ==
    ASSUME WorldInv
    PROVE  Reads("node-modules", Both(Manifests, NodeModules), {})
<1> DEFINE F == NodeModules
<1>1. /\ \A c \in F.claims : \E p \in NotMembers : c = Claim(p, Tier.INSTALLED, {})
      /\ \A p \in NotMembers : Claim(p, Tier.INSTALLED, {}) \in F.claims /\ F.edges = {}
    BY DEF NodeModules, Found
<1>2. F.edges = {}
    BY DEF NodeModules, Found
<1> HIDE DEF F
<1>3. Lists("node-modules", F)
    BY <1>1, Basics, ClaimIs, FormatsAre DEF Lists, Listed, ClaimOf
<1> QED
    BY <1>2, <1>3, FormatsAre, ListReads, ReadsAlone DEF F

\* A list of packages.
LEMMA PackageListReads ==
    ASSUME WorldInv, members = {}
    PROVE  Reads("package-list", PackageList(Tier.LOCKED), {})
<1> DEFINE F == PackageList(Tier.LOCKED)
<1>1. /\ \A c \in F.claims : \E p \in installed : c = Claim(p, Tier.LOCKED, {})
      /\ \A p \in installed : Claim(p, Tier.LOCKED, {}) \in F.claims
      /\ F.edges = {}
    BY DEF PackageList, Found
<1>2. F = Both(NoManifest, F)
    BY Nothings DEF PackageList
<1> HIDE DEF F
<1>3. Lists("package-list", F)
    BY <1>1, Basics, ClaimIs, FormatsAre DEF Lists, Listed, ClaimOf
<1>4. Reads("package-list", Both(NoManifest, F), {})
    BY <1>1, <1>3, FormatsAre, ListReads, ReadsAlone
<1> QED
    BY <1>2, <1>4 DEF F

\* A list whose packages all hang off the project.
LEMMA HungReads ==
    ASSUME WorldInv, members = {}, NEW f \in {"nuget-lock", "rebar-lock", "paket-lock"}, NEW F,
           \A c \in F.claims : \E p \in installed : c = Claim(p, Tier.LOCKED, {}),
           \A p \in installed : Claim(p, Tier.LOCKED, {}) \in F.claims,
           \A d \in F.edges : \E p \in installed : d.src = RefProject(Root) /\ d.dst = RefPurl(p),
           F = Both(NoManifest, F)
    PROVE  Reads(f, F, {})
<1>1. Lists(f, F)
    BY Basics, ClaimIs, FormatsAre DEF Lists, Listed, ClaimOf
<1>2. f \notin Graphed
    BY FormatsAre
<1>3. Reads(f, Both(NoManifest, F), {})
    BY <1>1, <1>2, ListReads, ReadsAlone DEF Projects
<1> QED
    BY <1>3

NoneDirect == {Edge(RefProject(Root), RefPurl(p), "runtime", FALSE) : p \in installed}

\* packages.lock.json, rebar.lock and paket.lock.
LEMMA HungLocksRead ==
    ASSUME WorldInv, members = {}
    PROVE  /\ Reads("nuget-lock", NugetLock, {}) /\ Reads("rebar-lock", RebarLock, {})
           /\ Reads("paket-lock", PaketLock, {})
<1>1. /\ NugetLock.claims = Locked(LAMBDA p : {}) /\ RebarLock.claims = Locked(LAMBDA p : {})
      /\ PaketLock.claims = Locked(LAMBDA p : {})
    BY DEF NugetLock, RebarLock, PaketLock, HungOnProject, Found
<1>2. \A F \in {NugetLock, RebarLock, PaketLock} :
         /\ \A c \in F.claims : \E p \in installed : c = Claim(p, Tier.LOCKED, {})
         /\ \A p \in installed : Claim(p, Tier.LOCKED, {}) \in F.claims
    BY <1>1 DEF Locked
<1>3. \A c, e : Both(NoManifest, Found(c, e)) = Found(c, e)
    BY Nothings
<1>4. /\ NugetLock = Both(NoManifest, NugetLock) /\ RebarLock = Both(NoManifest, RebarLock)
      /\ PaketLock = Both(NoManifest, PaketLock)
    BY <1>3 DEF NugetLock, RebarLock, PaketLock, HungOnProject
<1>5. \A p, direct : /\ Edge(RefProject(Root), RefPurl(p), "runtime", direct).src = RefProject(Root)
                      /\ Edge(RefProject(Root), RefPurl(p), "runtime", direct).dst = RefPurl(p)
    BY DEF Edge
<1>6. ASSUME NEW d \in NugetLock.edges
      PROVE  \E p \in installed : d.src = RefProject(Root) /\ d.dst = RefPurl(p)
  <2>1. \E p \in installed : \E direct : d = Edge(RefProject(Root), RefPurl(p), "runtime", direct)
      BY DEF NugetLock, HungOnProject, Found
  <2> QED
      BY <1>5, <2>1
<1>7. RebarLock.edges = NoneDirect /\ PaketLock.edges = NoneDirect
    BY DEF RebarLock, PaketLock, HungOnProject, Found, NoneDirect
<1>8. ASSUME NEW d \in NoneDirect
      PROVE  \E p \in installed : d.src = RefProject(Root) /\ d.dst = RefPurl(p)
    BY DEF NoneDirect, Edge
<1>9. Reads("nuget-lock", NugetLock, {})
    BY <1>2, <1>4, <1>6, HungReads
<1>10. Reads("rebar-lock", RebarLock, {})
    BY <1>2, <1>4, <1>7, <1>8, HungReads
<1>11. Reads("paket-lock", PaketLock, {})
    BY <1>2, <1>4, <1>7, <1>8, HungReads
<1> QED
    BY <1>9, <1>10, <1>11

\* A file with the needs, read beside a manifest.
LEMMA GraphReads ==
    ASSUME WorldInv, NEW f \in Graphed, NEW A, NEW F, Founded(f, A, {}), Alone(f, A, {}),
           f \notin Rootless /\ (f \in Exact \/ OneVersionEach(installed)) => Begun(A) \/ Begun(F),
           Lists(f, F),
           \A d \in F.edges : \/ /\ d.src \in Projects
                                 /\ \E p \in installed : d.dst = RefPurl(p) /\ (ToFollow(d) /\ f \notin Flat => p \in Stays)
                              \/ \E n \in needs : d.src = RefPurl(n[1]) /\ d.dst \in Targets(f, n[2]),
           \A e \in needs \ maybe : e[1] \in NotMembers =>
              \E d \in F.edges : /\ d.src = RefPurl(e[1]) /\ d.dst \in Targets(f, e[2])
                                 /\ (e[1] \in Stays => ToFollow(d))
    PROVE  Reads(f, Both(A, F), {})
<1>1. /\ Founded(f, F, {}) /\ Complete(f, F) /\ Alone(f, F, {})
      /\ f \in Exact \/ OneVersionEach(installed) => Linked(F)
    BY NeedsRead
<1>2. IsFiniteSet({})
    BY FS_EmptySet
<1> QED
    BY <1>1, <1>2, BothRead

\* A finding without edges is sound.
LEMMA NothingReads ==
    ASSUME NEW f
    PROVE  Founded(f, NoManifest, {}) /\ Alone(f, NoManifest, {})
    BY DEF Founded, Alone, NoManifest

\* Which formats record the graph.
LEMMA GraphedAre ==
    /\ {"npm-lock-v1", "npm-lock-v2", "pnpm-lock", "yarn-classic", "yarn-berry", "poetry-lock", "uv-lock", "dist-info",
        "gemfile-lock", "composer-lock", "composer-installed"} \subseteq Graphed
    /\ {"yarn-classic", "yarn-berry", "poetry-lock", "uv-lock", "dist-info", "composer-lock", "composer-installed",
        "npm-lock-v1", "gemfile-lock"} \cap Exact = {}
    /\ "gemfile-lock" \in Flat
    BY DEF Graphed, Exact, Flat

\* yarn.lock and *.dist-info: an edge from a package to the name it needs.
LEMMA NamesRead ==
    ASSUME WorldInv, NEW f \in {"yarn-classic", "yarn-berry", "dist-info"}, NEW F, NEW t,
           \A c \in F.claims : \E p \in NotMembers : c = Claim(p, t, {}),
           \A p \in NotMembers : Claim(p, t, {}) \in F.claims,
           \A d \in F.edges : \E e \in needs : d = Edge(RefPurl(e[1]), RefFamily(e[2][1]), None, FALSE),
           \A e \in needs \ maybe : e[1] \in NotMembers =>
              Edge(RefPurl(e[1]), RefFamily(e[2][1]), None, FALSE) \in F.edges
    PROVE  Reads(f, Both(Manifests, F), {})
<1>1. f \in Graphed /\ f \notin Exact /\ Listed(f) = NotMembers
    BY GraphedAre, FormatsAre DEF Listed
<1>2. \A p : RefFamily(p[1]) \in Targets(f, p)
    BY <1>1 DEF Targets
<1>3. Lists(f, F)
    BY <1>1, Basics, ClaimIs DEF Lists, ClaimOf
<1>4. \A d \in F.edges : \E n \in needs : d.src = RefPurl(n[1]) /\ d.dst \in Targets(f, n[2])
    BY <1>2 DEF Edge
<1>5. ASSUME NEW e \in needs \ maybe, e[1] \in NotMembers
      PROVE  \E d \in F.edges : /\ d.src = RefPurl(e[1]) /\ d.dst \in Targets(f, e[2])
                                /\ (e[1] \in Stays => ToFollow(d))
    BY <1>2, <1>5 DEF Edge, ToFollow
<1> QED
    BY <1>1, <1>3, <1>4, <1>5, ManifestsRead, GraphReads

\* yarn.lock of both kinds, and dist-info.
LEMMA YarnReads ==
    ASSUME WorldInv
    PROVE  /\ Reads("yarn-classic", Both(Manifests, YarnClassic), {})
           /\ Reads("yarn-berry", Both(Manifests, YarnBerry), {})
           /\ Reads("dist-info", Both(Manifests, DistInfo), {})
<1>1. Reads("yarn-classic", Both(Manifests, YarnClassic), {})
  <2> DEFINE F == YarnClassic
  <2>1. ASSUME NEW e \in needs \ maybe, e[1] \in NotMembers
        PROVE  Edge(RefPurl(e[1]), RefFamily(e[2][1]), None, FALSE) \in F.edges
      BY <2>1 DEF YarnClassic, Found
  <2>2. \A d \in F.edges : \E e \in needs : d = Edge(RefPurl(e[1]), RefFamily(e[2][1]), None, FALSE)
      BY DEF YarnClassic, Found
  <2>3. F.claims = {Claim(p, Tier.LOCKED, {}) : p \in NotMembers}
      BY DEF YarnClassic, Found
  <2> QED
      BY <2>1, <2>2, <2>3, NamesRead
<1>2. Reads("yarn-berry", Both(Manifests, YarnBerry), {})
  <2> DEFINE F == YarnBerry
  <2>1. ASSUME NEW e \in needs \ maybe, e[1] \in NotMembers
        PROVE  Edge(RefPurl(e[1]), RefFamily(e[2][1]), None, FALSE) \in F.edges
      BY <2>1 DEF YarnBerry, Found
  <2>2. \A d \in F.edges : \E e \in needs : d = Edge(RefPurl(e[1]), RefFamily(e[2][1]), None, FALSE)
      BY DEF YarnBerry, Found
  <2>3. F.claims = {Claim(p, Tier.LOCKED, {}) : p \in NotMembers}
      BY DEF YarnBerry, Found
  <2> QED
      BY <2>1, <2>2, <2>3, NamesRead
<1>3. Reads("dist-info", Both(Manifests, DistInfo), {})
  <2> DEFINE F == DistInfo
  <2>1. ASSUME NEW e \in needs \ maybe, e[1] \in NotMembers
        PROVE  Edge(RefPurl(e[1]), RefFamily(e[2][1]), None, FALSE) \in F.edges
      BY <2>1, Basics DEF DistInfo, Found
  <2>2. \A d \in F.edges : \E e \in needs : d = Edge(RefPurl(e[1]), RefFamily(e[2][1]), None, FALSE)
      BY DEF DistInfo, Found
  <2>3. F.claims = {Claim(p, Tier.INSTALLED, {}) : p \in NotMembers}
      BY Basics DEF DistInfo, Found
  <2> QED
      BY <2>1, <2>2, <2>3, NamesRead
<1> QED
    BY <1>1, <1>2, <1>3

\* uv.lock, and poetry.lock without its manifest: the name that is needed is
\* looked up among the packages of the lock.
LEMMA ByNameIs ==
    ASSUME WorldInv, OneVersionEach(installed), NEW listed, NotMembers \subseteq listed, listed \subseteq installed,
           NEW e \in needs
    PROVE  ByName(listed, e[2][1]) = {e[2]}
<1>1. e[2] \in listed /\ \A q \in listed : q[1] = e[2][1] => q = e[2]
    BY Basics DEF OneVersionEach
<1>2. e[2][2] \in Nat
    BY Basics, NamesTold
<1> QED
    BY <1>1, <1>2 DEF ByName

\* An edge to every package of a name, where there is one of each.
LEMMA NamedEdgesAre ==
    ASSUME WorldInv, OneVersionEach(installed), NEW listed, NotMembers \subseteq listed, listed \subseteq installed
    PROVE  \A d : d \in NamedEdges(Released, listed) <=>
              \E e \in needs : e[1] \in NotMembers /\ d = Edge(RefPurl(e[1]), RefPurl(e[2]), None, FALSE)
<1> DEFINE E(p, q) == Edge(RefPurl(p), RefPurl(q), None, FALSE)
<1>1. NamedEdges(Released, listed) =
         UNION {{E(e[1], q) : q \in ByName(listed, e[2][1])} : e \in {d \in needs : d[1] \in Released}}
    BY DEF NamedEdges
<1>2. \A e \in needs : ByName(listed, e[2][1]) = {e[2]}
    BY ByNameIs
<1>3. Released = NotMembers
    BY Basics
<1> HIDE DEF E
<1>4. \A d : d \in NamedEdges(Released, listed) <=> \E e \in needs : e[1] \in NotMembers /\ d = E(e[1], e[2])
    BY <1>1, <1>2, <1>3
<1> QED
    BY <1>4 DEF E

\* A lock with exactly these edges, and claims whatever their marks.
LEMMA LookedUpReads ==
    ASSUME WorldInv, OneVersionEach(installed), NEW f \in {"uv-lock", "poetry-lock"}, NEW F, NEW m,
           \A c \in F.claims : \E p \in NotMembers : c = Claim(p, Tier.LOCKED, m),
           \A p \in NotMembers : Claim(p, Tier.LOCKED, m) \in F.claims,
           \A d : d \in F.edges <=>
              \E e \in needs : e[1] \in NotMembers /\ d = Edge(RefPurl(e[1]), RefPurl(e[2]), None, FALSE)
    PROVE  Founded(f, F, {}) /\ Complete(f, F) /\ Alone(f, F, {}) /\ Linked(F)
<1>1. f \in Graphed /\ f \notin Exact /\ Listed(f) = NotMembers
    BY GraphedAre, FormatsAre DEF Listed
<1>2. \A p : RefPurl(p) \in Targets(f, p)
    BY DEF Targets
<1>3. Lists(f, F)
    BY <1>1, Basics, ClaimIs DEF Lists, ClaimOf
<1>4. \A d \in F.edges : \E n \in needs : d.src = RefPurl(n[1]) /\ d.dst \in Targets(f, n[2])
    BY <1>2 DEF Edge
<1>5. ASSUME NEW e \in needs \ maybe, e[1] \in NotMembers
      PROVE  \E d \in F.edges : /\ d.src = RefPurl(e[1]) /\ d.dst \in Targets(f, e[2])
                                /\ (e[1] \in Stays => ToFollow(d))
  <2>1. PICK d \in F.edges : d = Edge(RefPurl(e[1]), RefPurl(e[2]), None, FALSE)
      BY <1>5
  <2>2. d.src = RefPurl(e[1]) /\ d.dst = RefPurl(e[2]) /\ ToFollow(d)
      BY <2>1 DEF Edge, ToFollow
  <2> QED
      BY <1>2, <2>2
<1> QED
    BY <1>1, <1>3, <1>4, <1>5, NeedsRead

\* uv.lock.
LEMMA UvReads ==
    ASSUME WorldInv, OneVersionEach(installed)
    PROVE  Reads("uv-lock", Both(Manifests, UvLock), {})
<1> DEFINE F == UvLock
<1>1. F.edges = NamedEdges(Released, installed) /\ F.claims = {Claim(p, Tier.LOCKED, {}) : p \in NotMembers}
    BY Basics DEF UvLock, Found
<1>2. \A d : d \in F.edges <=>
         \E e \in needs : e[1] \in NotMembers /\ d = Edge(RefPurl(e[1]), RefPurl(e[2]), None, FALSE)
    BY <1>1, Basics, NamedEdgesAre
<1>3. Founded("uv-lock", F, {}) /\ Complete("uv-lock", F) /\ Alone("uv-lock", F, {}) /\ Linked(F)
    BY <1>1, <1>2, LookedUpReads
<1>4. IsFiniteSet({})
    BY FS_EmptySet
<1> QED
    BY <1>3, <1>4, ManifestsRead, BothRead

\* pnpm-lock.yaml says for each project and each package what is needed, exactly.
LEMMA PnpmReads ==
    ASSUME WorldInv
    PROVE  Reads("pnpm-lock", Both(Manifests, PnpmLock), {})
<1> DEFINE f == "pnpm-lock"
           F == PnpmLock
           OfNeed(d, e) == d = Edge(RefPurl(e[1]), RefPurl(e[2]), IF e \in maybe THEN "optional" ELSE None, FALSE)
           OfRoot(d, p) == d = DirectEdge(Root, RefPurl(p), section[p])
           OfImporter(d, m, q) == d = DirectEdge(m[1], RefPurl(q), IF <<m, q>> \in maybe THEN "optional" ELSE "runtime")
<1>1. f \in Graphed /\ Listed(f) = NotMembers
    BY GraphedAre, FormatsAre DEF Listed
<1>2. \A p : RefPurl(p) \in Targets(f, p)
    BY DEF Targets
<1>3. (\A c \in F.claims : \E p \in NotMembers : c = Claim(p, Tier.LOCKED, DevMark(p)))
      /\ \A p \in NotMembers : Claim(p, Tier.LOCKED, DevMark(p)) \in F.claims
    BY DEF PnpmLock, Found
<1>4. \A d : d \in F.edges <=> \/ \E e \in needs : e[1] \in NotMembers /\ OfNeed(d, e)
                               \/ \E p \in DOMAIN section : OfRoot(d, p)
                               \/ \E m \in members : \E q \in NeedsOf(m) : OfImporter(d, m, q)
  <2> DEFINE N(e) == Edge(RefPurl(e[1]), RefPurl(e[2]), IF e \in maybe THEN "optional" ELSE None, FALSE)
             R(p) == DirectEdge(Root, RefPurl(p), section[p])
             I(m, q) == DirectEdge(m[1], RefPurl(q), IF <<m, q>> \in maybe THEN "optional" ELSE "runtime")
  <2>1. F.edges = {N(e) : e \in {d \in needs : d[1] \in NotMembers}} \cup {R(p) : p \in DOMAIN section}
                    \cup UNION {{I(m, q) : q \in NeedsOf(m)} : m \in members}
      BY DEF PnpmLock, Found
  <2>2. \A d : /\ \A e : OfNeed(d, e) <=> d = N(e)
               /\ \A p : OfRoot(d, p) <=> d = R(p)
               /\ \A m, q : OfImporter(d, m, q) <=> d = I(m, q)
      OBVIOUS
  <2> HIDE DEF N, R, I, F, OfNeed, OfRoot, OfImporter
  <2> QED
      BY <2>1, <2>2
<1> HIDE DEF F
<1>5. Lists(f, F)
    BY <1>1, <1>3, Basics, ClaimIs DEF Lists, ClaimOf
<1>6. ASSUME NEW d \in F.edges
      PROVE  \/ /\ d.src \in Projects
                /\ \E p \in installed : d.dst = RefPurl(p) /\ (ToFollow(d) /\ f \notin Flat => p \in Stays)
             \/ \E n \in needs : d.src = RefPurl(n[1]) /\ d.dst \in Targets(f, n[2])
  <2>1. CASE \E e \in needs : e[1] \in NotMembers /\ OfNeed(d, e)
      BY <1>2, <2>1 DEF Edge
  <2>2. CASE \E p \in DOMAIN section : OfRoot(d, p)
    <3>1. PICK p \in DOMAIN section : OfRoot(d, p)
        BY <2>2
    <3>2. d.src = RefProject(Root) /\ d.dst = RefPurl(p) /\ d.scope = section[p]
        BY <3>1 DEF Edge, DirectEdge
    <3>3. section[p] \in Section /\ p \in installed
        BY DEF WorldInv
    <3>4. ToFollow(d) => p \in Stays
        BY <3>2, <3>3, StaysIs DEF ToFollow, Required, Section, None
    <3> QED
        BY <3>2, <3>3, <3>4 DEF Projects
  <2>3. CASE \E m \in members : \E q \in NeedsOf(m) : OfImporter(d, m, q)
    <3>1. PICK m \in members : \E q \in NeedsOf(m) : OfImporter(d, m, q)
        BY <2>3
    <3>2. PICK q \in NeedsOf(m) : OfImporter(d, m, q)
        BY <3>1
    <3>3. d.src = RefProject(m[1]) /\ d.dst = RefPurl(q)
        BY <3>2 DEF Edge, DirectEdge
    <3>4. q \in installed /\ <<m, q>> \in needs /\ m \in Stays
        BY Basics
    <3>5. q \in Stays
        BY <3>4, StaysIs
    <3> QED
        BY <3>3, <3>4, <3>5 DEF Projects
  <2> QED
      BY <1>4, <2>1, <2>2, <2>3
<1>7. ASSUME NEW e \in needs \ maybe, e[1] \in NotMembers
      PROVE  \E d \in F.edges : /\ d.src = RefPurl(e[1]) /\ d.dst \in Targets(f, e[2])
                                /\ (e[1] \in Stays => ToFollow(d))
  <2> DEFINE d == Edge(RefPurl(e[1]), RefPurl(e[2]), None, FALSE)
  <2>1. d \in F.edges
    <3>1. OfNeed(d, e)
        BY <1>7
    <3> HIDE DEF d, OfNeed
    <3> QED
        BY <1>4, <1>7, <3>1
  <2>2. d.src = RefPurl(e[1]) /\ d.dst = RefPurl(e[2]) /\ ToFollow(d)
      BY DEF Edge, ToFollow
  <2> QED
      BY <1>2, <2>1, <2>2
<1>8. Begun(F)
  <2>1. ASSUME NEW p \in Required({"runtime"})
        PROVE  \E d \in F.edges : d.src = RefProject(Root) /\ Exactly(d.dst, p) /\ ToFollow(d)
    <3> DEFINE d == DirectEdge(Root, RefPurl(p), section[p])
    <3>1. p \in DOMAIN section /\ section[p] = "runtime"
        BY DEF Required
    <3>2. d \in F.edges
      <4>1. OfRoot(d, p)
          OBVIOUS
      <4> HIDE DEF d, OfRoot
      <4> QED
          BY <1>4, <3>1, <4>1
    <3>3. d.src = RefProject(Root) /\ d.dst = RefPurl(p) /\ d.scope = "runtime"
        BY <3>1 DEF Edge, DirectEdge
    <3> QED
        BY <3>2, <3>3 DEF Exactly, ToFollow
  <2>2. ASSUME NEW e \in needs \ maybe, e[1] \in members
        PROVE  \E d \in F.edges : d.src = RefProject(e[1][1]) /\ Exactly(d.dst, e[2]) /\ ToFollow(d)
    <3> DEFINE d == DirectEdge(e[1][1], RefPurl(e[2]), "runtime")
    <3>1. e = <<e[1], e[2]>> /\ e[2] \in NeedsOf(e[1])
        BY Basics
    <3>2. OfImporter(d, e[1], e[2])
        BY <3>1
    <3>3. d \in F.edges
      <4> HIDE DEF d, OfImporter
      <4> QED
          BY <1>4, <2>2, <3>1, <3>2
    <3>4. d.src = RefProject(e[1][1]) /\ d.dst = RefPurl(e[2]) /\ d.scope = "runtime"
        BY DEF Edge, DirectEdge
    <3> QED
        BY <3>3, <3>4 DEF Exactly, ToFollow
  <2> QED
      BY <2>1, <2>2 DEF Begun
<1> QED
    BY <1>1, <1>5, <1>6, <1>7, <1>8, ManifestsRead, GraphReads DEF F

\* composer.json tells development requirements from the others only.
LEMMA ComposerJsonReads ==
    ASSUME WorldInv, members = {}, NEW f
    PROVE  /\ Founded(f, ComposerJson, {}) /\ Alone(f, ComposerJson, {})
           /\ OneVersionEach(installed) => Begun(ComposerJson)
<1> DEFINE F == ComposerJson
           scope(p) == IF section[p] = "dev" THEN "dev" ELSE "runtime"
           scopes == [p \in DOMAIN section |-> scope(p)]
<1>1. /\ \A c : c \in F.claims <=> \E p \in DOMAIN section : c = Declared(p[1])
      /\ \A d : d \in F.edges <=> \E p \in DOMAIN section : d = DirectEdge(Root, RefFamily(p[1]), scope(p))
  <2>1. F = Manifest(Root, scopes) /\ DOMAIN scopes = DOMAIN section /\ \A p \in DOMAIN section : scopes[p] = scope(p)
      BY DEF ComposerJson
  <2> HIDE DEF F, scopes, scope
  <2> QED
      BY <2>1, ManifestIs
<1> HIDE DEF F
<1>2. \A d \in F.edges : \E p \in DOMAIN section : /\ d.src = RefProject(Root) /\ d.dst = RefFamily(p[1])
                                                  /\ d.scope = scope(p)
    BY <1>1 DEF DirectEdge, Edge
<1>3. RefProject(Root) \in Projects
    BY DEF Projects
<1>4. Founded(f, F, {})
  <2>1. \A c \in F.claims : c.name \in Known({}) /\ c.ver = 0
      BY <1>1 DEF Declared, Known, WorldInv
  <2>2. \A d \in F.edges : d.src \in Projects /\ \E p \in Packages : d.dst \in {RefPurl(p), RefFamily(p[1])}
      BY <1>2, <1>3 DEF WorldInv
  <2> QED
      BY <2>1, <2>2 DEF Founded
<1>5. Alone(f, F, {})
  <2>1. ASSUME NEW d \in F.edges, ToFollow(d)
        PROVE  d.src \in Projects /\ \E p \in Stays : d.dst \in {RefPurl(p), RefFamily(p[1])}
    <3>1. PICK p \in DOMAIN section : d.src = RefProject(Root) /\ d.dst = RefFamily(p[1]) /\ d.scope = scope(p)
        BY <1>2
    <3>2. section[p] # "dev" /\ section[p] \in Section
        BY <2>1, <3>1 DEF ToFollow, None, WorldInv
    <3>3. p \in Stays
        BY <3>2, StaysIs DEF Required, Section
    <3> QED
        BY <1>3, <3>1, <3>3
  <2> QED
      BY <2>1 DEF Alone
<1>6. ASSUME OneVersionEach(installed) PROVE Begun(F)
  <2>1. ASSUME NEW p \in Required({"runtime"})
        PROVE  \E d \in F.edges : d.src = RefProject(Root) /\ Exactly(d.dst, p) /\ ToFollow(d)
    <3>1. p \in DOMAIN section /\ scope(p) = "runtime"
        BY DEF Required
    <3>2. PICK d \in F.edges : d = DirectEdge(Root, RefFamily(p[1]), scope(p))
        BY <1>1, <3>1
    <3>3. d.src = RefProject(Root) /\ d.dst = RefFamily(p[1]) /\ d.scope = "runtime"
        BY <3>1, <3>2 DEF DirectEdge, Edge
    <3> QED
        BY <1>6, <3>3, OneIsLone DEF Exactly, ToFollow
  <2> QED
      BY <2>1 DEF Begun
<1> QED
    BY <1>4, <1>5, <1>6 DEF F

\* Gemfile.lock, composer.lock and installed.json, Podfile.lock, vcpkg's
\* database: all that is installed, and a scoped edge to each name needed.
LEMMA ScopedReads ==
    ASSUME WorldInv, members = {}, NEW f \in Graphed \ Exact, f \notin Native \cup DirectOnly, NEW A, NEW F,
           Founded(f, A, {}), Alone(f, A, {}), f \notin Rootless /\ OneVersionEach(installed) => Begun(A) \/ Begun(F),
           \A c \in F.claims : \E p \in installed : ClaimOf(c, p),
           \A p \in installed : \E c \in F.claims : ClaimOf(c, p),
           \A d \in F.edges : \/ /\ f \in Flat
                                 /\ \E p \in installed : d.src = RefProject(Root) /\ d.dst = RefPurl(p)
                              \/ \E e \in needs : d.src = RefPurl(e[1]) /\ d.dst = RefFamily(e[2][1]),
           \A e \in needs : \E d \in F.edges : /\ d.src = RefPurl(e[1]) /\ d.dst = RefFamily(e[2][1])
                                               /\ (e[1] \in Stays => ToFollow(d))
    PROVE  Reads(f, Both(A, F), {})
<1>1. Listed(f) = installed
    BY Basics DEF Listed
<1>2. \A p : RefFamily(p[1]) \in Targets(f, p)
    BY DEF Targets
<1>3. Lists(f, F)
    BY <1>1 DEF Lists, ClaimOf
<1>4. RefProject(Root) \in Projects
    BY DEF Projects
<1>5. \A d \in F.edges : \/ /\ d.src \in Projects
                            /\ \E p \in installed : d.dst = RefPurl(p) /\ (ToFollow(d) /\ f \notin Flat => p \in Stays)
                         \/ \E n \in needs : d.src = RefPurl(n[1]) /\ d.dst \in Targets(f, n[2])
    BY <1>2, <1>4
<1>6. \A e \in needs \ maybe : e[1] \in NotMembers =>
         \E d \in F.edges : /\ d.src = RefPurl(e[1]) /\ d.dst \in Targets(f, e[2])
                            /\ (e[1] \in Stays => ToFollow(d))
    BY <1>2
<1> QED
    BY <1>3, <1>5, <1>6, GraphReads

\* Composer's requirements under their sections.
LEMMA ScopedAre ==
    /\ {"gemfile-lock", "composer-lock", "composer-installed", "podfile-lock", "vcpkg-status"} \subseteq Graphed \ Exact
    /\ {"gemfile-lock", "composer-lock", "composer-installed", "podfile-lock", "vcpkg-status"} \cap (Native \cup DirectOnly) = {}
    /\ "gemfile-lock" \in Flat /\ {"podfile-lock", "vcpkg-status"} \subseteq Rootless
    BY DEF Graphed, Exact, Native, DirectOnly, Flat, Rootless

\* composer.lock and installed.json.
LEMMA ComposerReads ==
    ASSUME WorldInv, members = {}, NEW f \in {"composer-lock", "composer-installed"}, NEW t
    PROVE  Reads(f, Both(ComposerJson, ComposerFindings(t)), {})
<1> DEFINE F == ComposerFindings(t)
           E(e) == Edge(RefPurl(e[1]), RefFamily(e[2][1]), DevScope(e[1]), FALSE)
           M(p) == IF p \in DevNeeded THEN {"dev"} ELSE {}
<1>1. F.claims = {Claim(p, t, M(p)) : p \in installed}
    BY DEF ComposerFindings, Found
<1>2. F.edges = {E(e) : e \in needs}
    BY DEF ComposerFindings, FamilyEdges, Found
<1>3. \A e : E(e).src = RefPurl(e[1]) /\ E(e).dst = RefFamily(e[2][1]) /\ E(e).scope = DevScope(e[1])
    BY DEF Edge
<1> HIDE DEF F, E, M
<1>4. (\A c \in F.claims : \E p \in installed : ClaimOf(c, p)) /\ \A p \in installed : \E c \in F.claims : ClaimOf(c, p)
    BY <1>1, ClaimIs
<1>5. ASSUME NEW e, e[1] \in Stays PROVE ToFollow(E(e))
    BY <1>3, <1>5 DEF ToFollow, DevScope, DevNeeded, Stays
<1>6. \A d \in F.edges : \E e \in needs : d.src = RefPurl(e[1]) /\ d.dst = RefFamily(e[2][1])
    BY <1>2, <1>3
<1>7. \A e \in needs : \E d \in F.edges : /\ d.src = RefPurl(e[1]) /\ d.dst = RefFamily(e[2][1])
                                          /\ (e[1] \in Stays => ToFollow(d))
    BY <1>2, <1>3, <1>5
<1>8. f \in Graphed \ Exact /\ f \notin Native \cup DirectOnly
    BY ScopedAre
<1>9. /\ Founded(f, ComposerJson, {}) /\ Alone(f, ComposerJson, {})
      /\ OneVersionEach(installed) => Begun(ComposerJson)
    BY ComposerJsonReads
<1>10. Reads(f, Both(ComposerJson, F), {})
    BY <1>4, <1>6, <1>7, <1>8, <1>9, ScopedReads
<1> QED
    BY <1>10 DEF F

\* Podfile.lock and vcpkg's status file.
LEMMA PodReads ==
    ASSUME WorldInv, members = {}
    PROVE  Reads("podfile-lock", PodfileLock, {}) /\ Reads("vcpkg-status", VcpkgStatus, {})
<1> DEFINE E(e) == Edge(RefPurl(e[1]), RefFamily(e[2][1]), "runtime", FALSE)
<1>1. \A e : E(e).src = RefPurl(e[1]) /\ E(e).dst = RefFamily(e[2][1]) /\ ToFollow(E(e))
    BY DEF Edge, ToFollow
<1>2. ASSUME NEW f \in {"podfile-lock", "vcpkg-status"}, NEW F, NEW t, F.edges = {E(e) : e \in needs},
             F.claims = {Claim(p, t, {}) : p \in installed}, F = Both(NoManifest, F)
      PROVE  Reads(f, F, {})
  <2> HIDE DEF E
  <2>1. (\A c \in F.claims : \E p \in installed : ClaimOf(c, p)) /\ \A p \in installed : \E c \in F.claims : ClaimOf(c, p)
      BY <1>2, ClaimIs
  <2>2. \A d \in F.edges : \E e \in needs : d.src = RefPurl(e[1]) /\ d.dst = RefFamily(e[2][1])
      BY <1>1, <1>2
  <2>3. \A e \in needs : \E d \in F.edges : /\ d.src = RefPurl(e[1]) /\ d.dst = RefFamily(e[2][1])
                                            /\ (e[1] \in Stays => ToFollow(d))
      BY <1>1, <1>2
  <2>4. f \in Graphed \ Exact /\ f \notin Native \cup DirectOnly /\ f \in Rootless
      BY ScopedAre
  <2>5. Reads(f, Both(NoManifest, F), {})
      BY <2>1, <2>2, <2>3, <2>4, NothingReads, ScopedReads
  <2> QED
      BY <1>2, <2>5
<1>3. Reads("podfile-lock", PodfileLock, {})
  <2>1. PodfileLock.edges = {E(e) : e \in needs} /\ PodfileLock.claims = {Claim(p, Tier.LOCKED, {}) : p \in installed}
      BY DEF PodfileLock, FamilyEdges, Locked, Found
  <2>2. PodfileLock = Both(NoManifest, PodfileLock)
      BY Nothings DEF PodfileLock
  <2> QED
      BY <1>2, <2>1, <2>2
<1>4. Reads("vcpkg-status", VcpkgStatus, {})
  <2>1. VcpkgStatus.edges = {E(e) : e \in needs} /\ VcpkgStatus.claims = {Claim(p, Tier.INSTALLED, {}) : p \in installed}
      BY DEF VcpkgStatus, FamilyEdges, Found
  <2>2. VcpkgStatus = Both(NoManifest, VcpkgStatus)
      BY Nothings DEF VcpkgStatus
  <2> QED
      BY <1>2, <2>1, <2>2
<1> QED
    BY <1>3, <1>4

\* Gemfile.lock.
LEMMA GemfileReads ==
    ASSUME WorldInv, members = {}
    PROVE  Reads("gemfile-lock", GemfileLock, {})
<1> DEFINE F == GemfileLock
           E(e) == Edge(RefPurl(e[1]), RefFamily(e[2][1]), "runtime", FALSE)
           R(p) == DirectEdge(Root, RefPurl(p), "runtime")
<1>1. F.edges = {E(e) : e \in needs} \cup {R(p) : p \in DOMAIN section} /\ F.claims = {Claim(p, Tier.LOCKED, {}) : p \in installed}
    BY DEF GemfileLock, FamilyEdges, Locked, Found
<1>2. F = Both(NoManifest, F)
    BY Nothings DEF GemfileLock
<1>3. /\ \A e : E(e).src = RefPurl(e[1]) /\ E(e).dst = RefFamily(e[2][1]) /\ ToFollow(E(e))
      /\ \A p : R(p).src = RefProject(Root) /\ R(p).dst = RefPurl(p) /\ ToFollow(R(p))
    BY DEF Edge, DirectEdge, ToFollow
<1> HIDE DEF F, E, R
<1>4. (\A c \in F.claims : \E p \in installed : ClaimOf(c, p)) /\ \A p \in installed : \E c \in F.claims : ClaimOf(c, p)
    BY <1>1, ClaimIs
<1>5. \A d \in F.edges : \/ \E p \in installed : d.src = RefProject(Root) /\ d.dst = RefPurl(p)
                         \/ \E e \in needs : d.src = RefPurl(e[1]) /\ d.dst = RefFamily(e[2][1])
    BY <1>1, <1>3 DEF WorldInv
<1>6. \A e \in needs : \E d \in F.edges : /\ d.src = RefPurl(e[1]) /\ d.dst = RefFamily(e[2][1])
                                          /\ (e[1] \in Stays => ToFollow(d))
    BY <1>1, <1>3
<1>7. Begun(F)
  <2>1. \A p \in Required({"runtime"}) : \E d \in F.edges : d.src = RefProject(Root) /\ Exactly(d.dst, p) /\ ToFollow(d)
      BY <1>1, <1>3 DEF Required, Exactly
  <2> QED
      BY <2>1 DEF Begun
<1>8. "gemfile-lock" \in Graphed \ Exact /\ "gemfile-lock" \notin Native \cup DirectOnly /\ "gemfile-lock" \in Flat
    BY ScopedAre
<1>9. Reads("gemfile-lock", Both(NoManifest, F), {})
    BY <1>4, <1>5, <1>6, <1>7, <1>8, NothingReads, ScopedReads
<1> QED
    BY <1>2, <1>9 DEF F

(***************************************************************************)
(* The build tools                                                         *)
(***************************************************************************)

\* Which formats are of build tools.
LEMMA NativeAre ==
    /\ \A f \in {"npm-ls", "swift-dependencies", "bazel-graph"} : f \in Native /\ f \in Graphed \ Exact /\ f \notin DirectOnly
    /\ \A f \in {"maven-tree", "gradle-dependencies", "sbt-list"} : f \in Native /\ f \notin Graphed /\ f \notin DirectOnly
    /\ {"npm-ls", "swift-dependencies"} \subseteq Flat \ Rootless /\ "bazel-graph" \in Rootless /\ "pnpm-ls" \notin Graphed
    BY DEF Native, Exact, Graphed, DirectOnly, Flat, Rootless

\* npm ls, swift package show-dependencies, bazel's graph: a dependent is a name.
OfRoot(d, p, scope) == d.src = RefProject(Root) /\ d.dst = RefPurl(p) /\ d.scope = scope
OfName(d, e, scope) == d.src = RefFamily(e[1][1]) /\ d.dst = RefPurl(e[2]) /\ d.scope = scope

\* A tree of packages whose nodes are named.
LEMMA TreeReads ==
    ASSUME WorldInv, members = {}, NEW f \in {"npm-ls", "swift-dependencies", "bazel-graph"}, NEW F, NEW scope,
           f \in Rootless \/ scope = "runtime",
           F.claims = {Claim(p, Tier.LOCKED, {}) : p \in installed},
           \A d \in F.edges : (\E p \in DOMAIN section : OfRoot(d, p, scope)) \/ \E e \in needs : OfName(d, e, scope),
           \A p \in DOMAIN section : \E d \in F.edges : OfRoot(d, p, scope),
           \A e \in needs : \E d \in F.edges : OfName(d, e, scope)
    PROVE  Founded(f, F, {}) /\ Complete(f, F) /\ Alone(f, F, {}) /\ Connected(f, F)
<1>1. \A d \in F.edges : (\E p \in DOMAIN section : OfRoot(d, p, scope)) \/ \E e \in needs : OfName(d, e, scope)
    OBVIOUS
<1>2. (\A p \in DOMAIN section : \E d \in F.edges : OfRoot(d, p, scope)) /\ \A e \in needs : \E d \in F.edges : OfName(d, e, scope)
    OBVIOUS
<1>3. f \in Native /\ f \in Graphed \ Exact /\ Listed(f) = installed
    BY NativeAre, Basics DEF Listed
<1>4. f \in Flat \cup Rootless /\ (f \notin Rootless => scope = "runtime")
    BY NativeAre
<1>5. (\A c \in F.claims : \E p \in installed : ClaimOf(c, p)) /\ \A p \in installed : \E c \in F.claims : ClaimOf(c, p)
  <2>1. F.claims = {Claim(p, Tier.LOCKED, {}) : p \in installed}
      OBVIOUS
  <2> QED
      BY <2>1, ClaimIs
<1>6. Founded(f, F, {})
  <2>1. \A c \in F.claims : c.name \in Known({}) /\ <<c.name, c.ver>> \in installed
      BY <1>5, Basics DEF ClaimOf
  <2>2. \A p : RefFamily(p[1]) \in Sources(f, p) /\ RefPurl(p) \in Targets(f, p)
      BY <1>3 DEF Sources, Targets
  <2>3. \A d \in F.edges : \/ d.src \in Projects /\ \E p \in Packages : d.dst \in {RefPurl(p), RefFamily(p[1])}
                           \/ \E n \in needs : d.src \in Sources(f, n[1]) /\ d.dst \in Targets(f, n[2])
    <3>1. RefProject(Root) \in Projects /\ DOMAIN section \subseteq Packages
        BY DEF Projects, WorldInv
    <3>2. \A d, e : OfName(d, e, scope) => d.src \in Sources(f, e[1]) /\ d.dst \in Targets(f, e[2])
        BY <2>2 DEF OfName
    <3> QED
        BY <1>1, <3>1, <3>2 DEF OfRoot
  <2> QED
      BY <2>1, <2>3 DEF Founded
<1>7. Complete(f, F)
  <2>1. ASSUME OneVersionEach(installed), NEW e \in needs
        PROVE  \E d \in F.edges : Exactly(d.src, e[1]) /\ Exactly(d.dst, e[2])
      BY <1>2, <2>1, OneIsLone DEF Exactly, OfName
  <2> QED
      BY <1>3, <1>5, <2>1 DEF Complete, ClaimOf
<1>8. Alone(f, F, {})
    BY <1>4 DEF Alone
<1>9. ASSUME f \notin Rootless, OneVersionEach(installed) PROVE Begun(F) /\ Linked(F)
  <2>1. \A d \in F.edges : ToFollow(d)
      BY <1>1, <1>4, <1>9 DEF ToFollow, OfName, OfRoot
  <2>2. Begun(F)
    <3>1. \A p \in Required({"runtime"}) : \E d \in F.edges : d.src = RefProject(Root) /\ Exactly(d.dst, p) /\ ToFollow(d)
        BY <1>2, <2>1 DEF Required, Exactly, OfRoot
    <3> QED
        BY <3>1 DEF Begun
  <2>3. Linked(F)
    <3>1. \A e \in needs : \E d \in F.edges : Exactly(d.src, e[1]) /\ Exactly(d.dst, e[2]) /\ ToFollow(d)
        BY <1>2, <1>9, <2>1, OneIsLone DEF Exactly, OfName
    <3> QED
        BY <3>1 DEF Linked
  <2> QED
      BY <2>2, <2>3
<1>10. Connected(f, F)
    BY <1>3, <1>9 DEF Connected
<1> QED
    BY <1>6, <1>7, <1>8, <1>10

\* npm ls, swift and bazel.
LEMMA TreeToolsRead ==
    ASSUME WorldInv, members = {}
    PROVE  /\ Reads("npm-ls", Both(Manifests, NpmLs), {}) /\ Reads("swift-dependencies", SwiftDependencies, {})
           /\ Reads("bazel-graph", BazelGraph, {})
<1>1. ASSUME NEW f \in {"npm-ls", "swift-dependencies", "bazel-graph"}, NEW F, NEW scope, f \in Rootless \/ scope = "runtime",
             F = TreeOf(scope, LAMBDA name : name)
      PROVE  Founded(f, F, {}) /\ Complete(f, F) /\ Alone(f, F, {}) /\ Connected(f, F)
  <2> DEFINE R(p) == FromProject(p, scope, TRUE)
             E(e) == FromParent(e[1][1], e[2], scope)
  <2>1. /\ F.claims = {Claim(p, Tier.LOCKED, {}) : p \in installed}
        /\ F.edges = {R(p) : p \in DOMAIN section} \cup {E(e) : e \in needs}
      BY <1>1 DEF TreeOf, Resolution, Found
  <2>2. (\A e : OfName(E(e), e, scope)) /\ \A p : OfRoot(R(p), p, scope)
      BY DEF FromParent, FromProject, Edge, OfName, OfRoot
  <2> HIDE DEF R, E
  <2>3. /\ \A d \in F.edges : (\E p \in DOMAIN section : OfRoot(d, p, scope)) \/ \E e \in needs : OfName(d, e, scope)
        /\ \A p \in DOMAIN section : \E d \in F.edges : OfRoot(d, p, scope)
        /\ \A e \in needs : \E d \in F.edges : OfName(d, e, scope)
      BY <2>1, <2>2
  <2> QED
      BY <1>1, <2>1, <2>3, TreeReads
<1>2. Founded("npm-ls", NpmLs, {}) /\ Complete("npm-ls", NpmLs) /\ Alone("npm-ls", NpmLs, {}) /\ Connected("npm-ls", NpmLs)
    BY <1>1 DEF NpmLs
<1>3. \A f : IsFiniteSet({}) /\ \A e \in {} : e[1] \in Packages
    BY FS_EmptySet
<1>4. Reads("npm-ls", Both(Manifests, NpmLs), {})
    BY <1>2, <1>3, ManifestsRead, BothRead DEF Connected
<1>5. ASSUME NEW f \in {"swift-dependencies", "bazel-graph"}, NEW F, NEW scope, f \in Rootless \/ scope = "runtime",
             F = TreeOf(scope, LAMBDA name : name)
      PROVE  Reads(f, F, {})
    BY <1>1, <1>3, <1>5 DEF Reads
<1>6. Reads("swift-dependencies", SwiftDependencies, {})
    BY <1>5 DEF SwiftDependencies
<1>7. Reads("bazel-graph", BazelGraph, {})
    BY <1>5, NativeAre DEF BazelGraph
<1> QED
    BY <1>4, <1>6, <1>7

\* The others: their edges are from the project, or from an artifact.
LEMMA ToolListsRead ==
    ASSUME WorldInv, members = {}
    PROVE  /\ Reads("maven-tree", MavenTree, {}) /\ Reads("gradle-dependencies", GradleDependencies, {})
           /\ Reads("sbt-list", SbtList, {})
<1>1. ASSUME NEW f \in {"maven-tree", "gradle-dependencies", "sbt-list"}, NEW F,
             F.claims = {Claim(p, Tier.LOCKED, {}) : p \in installed}, F = Both(NoManifest, F),
             \A d \in F.edges : \/ d.src = RefProject(Root) /\ \E p \in installed : d.dst = RefPurl(p)
                                \/ \E e \in needs : d.src = RefFamily(ArtifactOf(e[1][1])) /\ d.dst = RefPurl(e[2])
      PROVE  Reads(f, F, {})
  <2>1. f \in Native /\ f \notin Graphed /\ Listed(f) = installed
      BY <1>1, NativeAre, Basics DEF Listed
  <2>2. Lists(f, F)
      BY <1>1, <2>1, ClaimIs DEF Lists, ClaimOf
  <2>3. \A p : RefFamily(ArtifactOf(p[1])) \in Sources(f, p) /\ RefPurl(p) \in Targets(f, p)
      BY <2>1 DEF Sources, Targets
  <2>4. \A d \in F.edges : \/ d.src \in Projects /\ \E p \in installed : d.dst \in {RefPurl(p), RefFamily(p[1])}
                           \/ \E n \in needs : d.src \in Sources(f, n[1]) /\ d.dst \in Targets(f, n[2])
      BY <1>1, <2>3 DEF Projects
  <2>5. Reads(f, Both(NoManifest, F), {})
      BY <2>1, <2>2, <2>4, ListReads, ReadsAlone
  <2> QED
      BY <1>1, <2>5
<1>2. Reads("maven-tree", MavenTree, {})
  <2> DEFINE F == MavenTree
  <2>1. F.claims = {Claim(p, Tier.LOCKED, {}) : p \in installed} /\ F = Both(NoManifest, F)
      BY Nothings DEF MavenTree, TreeOf, Resolution, Found
  <2>2. F.edges = {FromProject(p, "runtime", TRUE) : p \in DOMAIN section}
                     \cup {FromParent(ArtifactOf(e[1][1]), e[2], "runtime") : e \in needs}
      BY DEF MavenTree, TreeOf, Resolution, Found
  <2> HIDE DEF F
  <2>3. \A d \in F.edges : \/ d.src = RefProject(Root) /\ \E p \in installed : d.dst = RefPurl(p)
                           \/ \E e \in needs : d.src = RefFamily(ArtifactOf(e[1][1])) /\ d.dst = RefPurl(e[2])
      BY <2>2 DEF FromProject, FromParent, Edge, WorldInv
  <2>4. Reads("maven-tree", F, {})
      BY <1>1, <2>1, <2>3
  <2> QED
      BY <2>4 DEF F
<1>3. ASSUME NEW f \in {"gradle-dependencies", "sbt-list"}, NEW F, NEW scope, F = AllFromProject(scope)
      PROVE  Reads(f, F, {})
  <2>1. F.claims = {Claim(p, Tier.LOCKED, {}) : p \in installed} /\ F = Both(NoManifest, F)
      BY <1>3, Nothings DEF AllFromProject, Resolution, Found
  <2>2. F.edges = {FromProject(p, scope, FALSE) : p \in installed}
      BY <1>3 DEF AllFromProject, Resolution, Found
  <2>3. \A d \in F.edges : d.src = RefProject(Root) /\ \E p \in installed : d.dst = RefPurl(p)
      BY <2>2 DEF FromProject, Edge
  <2> QED
      BY <1>1, <1>3, <2>1, <2>3
<1> QED
    BY <1>2, <1>3 DEF GradleDependencies, SbtList

\* pnpm ls stops at what the project requires itself.
LEMMA PnpmLsReads ==
    ASSUME WorldInv, members = {}
    PROVE  Reads("pnpm-ls", Both(Manifests, PnpmLs), {})
<1> DEFINE f == "pnpm-ls"
           F == PnpmLs
<1>1. /\ F.claims = {Claim(p, Tier.LOCKED, {}) : p \in DOMAIN section}
      /\ F.edges = {FromProject(p, IF section[p] = "dev" THEN "dev" ELSE "runtime", TRUE) : p \in DOMAIN section}
    BY DEF PnpmLs, Resolution, Found
<1> HIDE DEF F
<1>2. f \notin Graphed /\ Listed(f) = DOMAIN section
    BY NativeAre, FormatsAre DEF Listed
<1>3. Lists(f, F)
    BY <1>1, <1>2, ClaimIs DEF Lists, ClaimOf, WorldInv
<1>4. \A d \in F.edges : d.src \in Projects /\ \E p \in installed : d.dst \in {RefPurl(p), RefFamily(p[1])}
    BY <1>1 DEF FromProject, Edge, Projects, WorldInv
<1>5. Reads(f, Both(Manifests, F), {})
    BY <1>2, <1>3, <1>4, ListReads, ReadsAlone
<1> QED
    BY <1>5 DEF F

(***************************************************************************)
(* Pipfile.lock and requirements files                                     *)
(***************************************************************************)

\* Everything is installed for something the project requires.
AllNeeded == installed \subseteq NeededBy(Section)

\* ReachOver grows with what it starts from and with its edges.
LEMMA ReachGrows ==
    ASSUME NEW start, NEW edges, NEW more, NEW others, IsFiniteSet(others), IsFiniteSet(edges),
           start \subseteq more, edges \subseteq others
    PROVE  ReachOver(start, edges) \subseteq ReachOver(more, others)
<1>1. start \subseteq ReachOver(more, others)
    BY ReachStarts
<1>2. Heads(edges, ReachOver(more, others)) \subseteq ReachOver(more, others)
    BY ReachLeadsIn DEF Heads
<1> QED
    BY <1>1, <1>2, ReachWithin

\* Everything installed is needed, to begin with and after every step.
LEMMA NeededStarts == LockInit => AllNeeded
    BY DEF LockInit, AllNeeded

\* A requirement is needed.
LEMMA RequireKeepsNeeded ==
    ASSUME WorldInv, AllNeeded, WorldInv', NEW p, NEW s \in Section, Require(p, s)
    PROVE  AllNeeded'
<1>1. installed' = installed \cup {p} /\ needs' = needs /\ Required(Section) \cup {p} \subseteq Required(Section)'
    BY DEF Require, Required, WorldInv
<1>2. IsFiniteSet(needs)
    BY NeedsFinite
<1>3. ReachOver(Required(Section), needs) \subseteq ReachOver(Required(Section)', needs)
    BY <1>1, <1>2, ReachGrows
<1>4. Required(Section)' \subseteq ReachOver(Required(Section)', needs)
    BY <1>2, ReachStarts
<1> QED
    BY <1>1, <1>3, <1>4 DEF AllNeeded, NeededBy

\* What a needed package needs is needed.
LEMMA NeedKeepsNeeded ==
    ASSUME WorldInv, AllNeeded, NEW p, NEW q, NEW optional, Need(p, q, optional)
    PROVE  AllNeeded'
<1>1. installed' = installed \cup {q} /\ needs' = needs \cup {<<p, q>>} /\ p \in installed /\ Required(Section)' = Required(Section)
    BY DEF Need, Required
<1>2. IsFiniteSet(needs) /\ IsFiniteSet(needs \cup {<<p, q>>})
    BY NeedsFinite, FS_AddElement
<1>3. ReachOver(Required(Section), needs) \subseteq ReachOver(Required(Section), needs')
    BY <1>1, <1>2, ReachGrows
<1>4. Heads(needs', ReachOver(Required(Section), needs')) \subseteq ReachOver(Required(Section), needs')
    BY <1>1, <1>2, ReachLeadsIn
<1>5. q \in ReachOver(Required(Section), needs')
  <2>1. p \in ReachOver(Required(Section), needs')
      BY <1>1, <1>3 DEF AllNeeded, NeededBy
  <2>2. \E e \in needs' : e[1] = p /\ e[2] = q
    <3>1. <<p, q>> \in needs'
        BY <1>1
    <3> QED
        BY <3>1
  <2> QED
      BY <1>4, <2>1, <2>2 DEF Heads
<1> QED
    BY <1>1, <1>3, <1>5 DEF AllNeeded, NeededBy

\* Pipfile.lock.
LEMMA PipfileReads ==
    ASSUME WorldInv, AllNeeded, members = {}
    PROVE  Reads("pipfile-lock", PipfileLock, {})
<1> DEFINE f == "pipfile-lock"
           F == PipfileLock
           T == NeededBy({"runtime", "optional"}) \cup NeededBy({"dev"})
<1>1. installed \subseteq T
  <2>1. Required(Section) \subseteq Required({"runtime", "optional"}) \cup Required({"dev"})
      BY DEF Required, Section
  <2>2. IsFiniteSet(needs)
      BY NeedsFinite
  <2>3. \A start : start \subseteq ReachOver(start, needs) /\ Heads(needs, ReachOver(start, needs)) \subseteq ReachOver(start, needs)
      BY <2>2, ReachStarts, ReachLeadsIn
  <2>4. Required(Section) \subseteq T
      BY <2>1, <2>3 DEF NeededBy
  <2>5. Heads(needs, T) \subseteq T
      BY <2>3 DEF NeededBy, Heads
  <2>6. ReachOver(Required(Section), needs) \subseteq T
    <3> HIDE DEF T
    <3> QED
        BY <2>2, <2>4, <2>5, ReachWithin
  <2> QED
      BY <2>6 DEF AllNeeded, NeededBy
<1>2. F.claims = {Claim(p, Tier.LOCKED, {}) : p \in installed \cap NeededBy({"runtime", "optional"})}
                   \cup {Claim(p, Tier.LOCKED, {"dev"}) : p \in installed \cap NeededBy({"dev"})}
      /\ F.edges = {}
    BY Basics DEF PipfileLock, Found
<1>3. F = Both(NoManifest, F)
    BY Nothings DEF PipfileLock
<1> HIDE DEF F
<1>4. f \notin Graphed /\ Listed(f) = installed
    BY FormatsAre, Basics DEF Listed
<1>5. Lists(f, F)
    BY <1>1, <1>2, <1>4, ClaimIs DEF Lists, ClaimOf
<1>6. Reads(f, Both(NoManifest, F), {})
    BY <1>2, <1>4, <1>5, ListReads, ReadsAlone
<1> QED
    BY <1>3, <1>6 DEF F

\* A frozen requirements.txt.
LEMMA FrozenReads ==
    ASSUME WorldInv, members = {}
    PROVE  Reads("requirements", Frozen(TRUE), {})
<1> DEFINE f == "requirements"
           F == Frozen(TRUE)
           includes == {<<"main", "more">>, <<"more", "main">>}
           direct == installed \cap DOMAIN section
           lines == [main |-> [pinned |-> direct, loose |-> {}],
                     more |-> [pinned |-> installed \ direct, loose |-> {}]]
           part(g) == RequirementsFile(lines[g].pinned, lines[g].loose, TRUE)
<1>1. FilesRead(includes, "main") = {"main", "more"}
  <2>1. IsFiniteSet(includes)
    <3>1. includes = ({} \cup {<<"main", "more">>}) \cup {<<"more", "main">>}
        OBVIOUS
    <3>2. IsFiniteSet({} \cup {<<"main", "more">>})
        BY FS_AddElement, FS_EmptySet
    <3> HIDE DEF includes
    <3> QED
        BY <3>1, <3>2, FS_AddElement
  <2>2. Heads(includes, {"main", "more"}) \subseteq {"main", "more"}
    <3>1. \A e \in includes : e[2] \in {"main", "more"}
        OBVIOUS
    <3> HIDE DEF includes
    <3> QED
        BY <3>1 DEF Heads
  <2>3. ReachOver({"main"}, includes) \subseteq {"main", "more"}
      BY <2>1, <2>2, ReachWithin
  <2>4. {"main"} \subseteq ReachOver({"main"}, includes)
        /\ Heads(includes, ReachOver({"main"}, includes)) \subseteq ReachOver({"main"}, includes)
      BY <2>1, ReachStarts, ReachLeadsIn
  <2>5. "more" \in Heads(includes, ReachOver({"main"}, includes))
    <3>1. "main" \in ReachOver({"main"}, includes)
        BY <2>4
    <3>2. \E e \in includes : e[1] = "main" /\ e[2] = "more"
      <4>1. <<"main", "more">> \in includes
          OBVIOUS
      <4> HIDE DEF includes
      <4> QED
          BY <4>1
    <3> HIDE DEF includes
    <3> QED
        BY <3>1, <3>2 DEF Heads
  <2> QED
      BY <2>3, <2>4, <2>5 DEF FilesRead
<1>2. Released = installed
    BY Basics
<1>3. F = Requirements(includes, lines, TRUE, "main")
    BY <1>2 DEF Frozen
<1>4. /\ F = Found(UNION {q.claims : q \in {part(g) : g \in {"main", "more"}}},
                   UNION {q.edges : q \in {part(g) : g \in {"main", "more"}}})
    BY <1>1, <1>3 DEF Requirements
<1>5. \A g \in {"main", "more"} : lines[g].loose = {} /\ lines[g].pinned = IF g = "main" THEN direct ELSE installed \ direct
    OBVIOUS
<1>6. \A g \in {"main", "more"} :
         /\ part(g).claims = {Claim(p, Tier.LOCKED, {}) : p \in lines[g].pinned}
         /\ part(g).edges = {DirectEdge(Root, RefPurl(p), "runtime") : p \in lines[g].pinned}
    BY <1>5 DEF RequirementsFile, Found
<1>7. F = Both(NoManifest, F)
    BY <1>4, Nothings
<1> HIDE DEF F, lines, part
<1>8. /\ F.claims = {Claim(p, Tier.LOCKED, {}) : p \in installed}
      /\ F.edges = {DirectEdge(Root, RefPurl(p), "runtime") : p \in installed}
    BY <1>4, <1>5, <1>6 DEF Found
<1>9. f \notin Graphed /\ Listed(f) = installed
    BY FormatsAre, Basics DEF Listed
<1>10. Lists(f, F)
    BY <1>8, <1>9, ClaimIs DEF Lists, ClaimOf
<1>11. \A d \in F.edges : d.src \in Projects /\ \E p \in installed : d.dst \in {RefPurl(p), RefFamily(p[1])}
    BY <1>8 DEF DirectEdge, Edge, Projects
<1>12. Reads(f, Both(NoManifest, F), {})
    BY <1>9, <1>10, <1>11, ListReads, ReadsAlone
<1> QED
    BY <1>7, <1>12 DEF F

(***************************************************************************)
(* package-lock.json                                                       *)
(***************************************************************************)

Candidate(from, d, name) == Append(SubSeq(from, 1, d), name)
\* The directories of that name around one, and the closest of them.
Around(tree, from, name) == {k \in DOMAIN tree : \E d \in 0 .. Len(from) : k = Candidate(from, d, name)}
Closest(tree, from, name) == {k \in Around(tree, from, name) : \A i \in Around(tree, from, name) : Len(i) <= Len(k)}

\* A place where node looks.
LEMMA CandidateIs ==
    ASSUME NEW T, NEW from \in Seq(T), NEW name, NEW d \in 0 .. Len(from)
    PROVE  Len(Candidate(from, d, name)) = d + 1
<1> DEFINE U == T \cup {name}
<1>1. from \in Seq(U)
    OBVIOUS
<1>2. SubSeq(from, 1, d) \in Seq(U) /\ Len(SubSeq(from, 1, d)) = d
    BY <1>1
<1> QED
    BY <1>2 DEF Candidate

Tries(try, tree, from, name) ==
    /\ NpmResolve(tree, from, name) = {k \in try[Len(from)] : ~tree[k].link}
    /\ \A d \in 0 .. Len(from) :
         try[d] = IF Candidate(from, d, name) \in DOMAIN tree THEN {Candidate(from, d, name)}
                  ELSE IF d = 0 THEN {} ELSE try[d - 1]

\* The places that node tries.
LEMMA TriesAre ==
    ASSUME NEW tree, NEW from, Len(from) \in 0 .. 2, NEW name
    PROVE  \E try : Tries(try, tree, from, name)
<1> DEFINE n == Len(from)
           c(d) == Candidate(from, d, name)
           t0 == IF c(0) \in DOMAIN tree THEN {c(0)} ELSE {}
           t1 == IF c(1) \in DOMAIN tree THEN {c(1)} ELSE t0
           t2 == IF c(2) \in DOMAIN tree THEN {c(2)} ELSE t1
           g == [d \in 0 .. n |-> IF d = 0 THEN t0 ELSE IF d = 1 THEN t1 ELSE t2]
           Recurs(f) == f = [d \in 0 .. n |-> IF c(d) \in DOMAIN tree THEN {c(d)} ELSE IF d = 0 THEN {} ELSE f[d - 1]]
           f == CHOOSE h : Recurs(h)
<1>1. Recurs(g)
  <2> HIDE DEF t0, t1, t2, c
  <2> SUFFICES ASSUME NEW d \in 0 .. n
               PROVE  g[d] = IF c(d) \in DOMAIN tree THEN {c(d)} ELSE IF d = 0 THEN {} ELSE g[d - 1]
      OBVIOUS
  <2>1. CASE d = 0
      BY <2>1 DEF t0
  <2>2. CASE d = 1
    <3>1. g[1] = t1 /\ g[0] = t0
        BY <2>2
    <3> QED
        BY <2>2, <3>1 DEF t1
  <2>3. CASE d = 2
    <3>1. g[2] = t2 /\ g[1] = t1
        BY <2>3
    <3> QED
        BY <2>3, <3>1 DEF t2
  <2> QED
      BY <2>1, <2>2, <2>3
<1>2. Recurs(f)
    BY <1>1
<1>3. NpmResolve(tree, from, name) = {k \in f[n] : ~tree[k].link}
    BY DEF NpmResolve, Candidate
<1> HIDE DEF f, c
<1>4. \A d \in 0 .. n : f[d] = IF c(d) \in DOMAIN tree THEN {c(d)} ELSE IF d = 0 THEN {} ELSE f[d - 1]
    BY <1>2
<1>5. Tries(f, tree, from, name)
    BY <1>3, <1>4 DEF Tries, c
<1> QED
    BY <1>5

\* The walk outward ends at the closest of the directories.
LEMMA NpmResolveIs ==
    ASSUME NEW tree, NEW T, NEW from \in Seq(T), Len(from) \in 0 .. 2, NEW name
    PROVE  NpmResolve(tree, from, name) = {k \in Closest(tree, from, name) : ~tree[k].link}
<1> DEFINE n == Len(from)
           c(d) == Candidate(from, d, name)
           in(d) == c(d) \in DOMAIN tree
<1>0. PICK try : Tries(try, tree, from, name)
    BY TriesAre
<1>1. /\ NpmResolve(tree, from, name) = {k \in try[n] : ~tree[k].link}
      /\ \A d \in 0 .. n : try[d] = IF in(d) THEN {c(d)} ELSE IF d = 0 THEN {} ELSE try[d - 1]
    BY <1>0 DEF Tries
<1>2. \A d \in 0 .. n : Len(c(d)) = d + 1
    BY CandidateIs
<1>3. Around(tree, from, name) = {k \in DOMAIN tree : \E d \in 0 .. n : k = c(d)}
    BY DEF Around
<1> HIDE DEF c
<1>4. ASSUME NEW d \in 0 .. n, in(d), \A e \in 0 .. n : e > d => ~in(e) PROVE Closest(tree, from, name) = {c(d)}
  <2>1. c(d) \in Around(tree, from, name)
      BY <1>3, <1>4
  <2>2. \A k \in Around(tree, from, name) : \E e \in 0 .. d : k = c(e)
      BY <1>3, <1>4
  <2>3. \A k \in Around(tree, from, name) : Len(k) <= d + 1 /\ (Len(k) = d + 1 => k = c(d))
      BY <1>2, <2>2
  <2>4. Len(c(d)) = d + 1
      BY <1>2
  <2> QED
      BY <2>1, <2>3, <2>4 DEF Closest
<1>5. ASSUME \A e \in 0 .. n : ~in(e) PROVE Closest(tree, from, name) = {}
    BY <1>3, <1>5 DEF Closest
<1>6. try[n] = Closest(tree, from, name)
  <2> USE <1>1
  <2> HIDE DEF in
  <2>1. CASE n = 0
    <3>1. try[0] = IF in(0) THEN {c(0)} ELSE {}
        BY <2>1
    <3> QED
        BY <1>4, <1>5, <2>1, <3>1
  <2>2. CASE n = 1
    <3>1. try[0] = (IF in(0) THEN {c(0)} ELSE {}) /\ try[1] = IF in(1) THEN {c(1)} ELSE try[0]
        BY <2>2
    <3>2. in(1) => Closest(tree, from, name) = {c(1)}
        BY <1>4, <2>2
    <3>3. ~in(1) /\ in(0) => Closest(tree, from, name) = {c(0)}
        BY <1>4, <2>2
    <3>4. ~in(1) /\ ~in(0) => Closest(tree, from, name) = {}
        BY <1>5, <2>2
    <3> QED
        BY <2>2, <3>1, <3>2, <3>3, <3>4
  <2>3. CASE n = 2
    <3>1. /\ try[0] = IF in(0) THEN {c(0)} ELSE {}
          /\ try[1] = IF in(1) THEN {c(1)} ELSE try[0]
          /\ try[2] = IF in(2) THEN {c(2)} ELSE try[1]
        BY <2>3
    <3>2. in(2) => Closest(tree, from, name) = {c(2)}
        BY <1>4, <2>3
    <3>3. ~in(2) /\ in(1) => Closest(tree, from, name) = {c(1)}
        BY <1>4, <2>3
    <3>4. ~in(2) /\ ~in(1) /\ in(0) => Closest(tree, from, name) = {c(0)}
        BY <1>4, <2>3
    <3>5. ~in(2) /\ ~in(1) /\ ~in(0) => Closest(tree, from, name) = {}
        BY <1>5, <2>3
    <3> QED
        BY <2>3, <3>1, <3>2, <3>3, <3>4, <3>5
  <2> QED
      BY <2>1, <2>2, <2>3
<1> QED
    BY <1>1, <1>6

\* What node finds.
LEMMA NodeFindsIs ==
    ASSUME NEW tree, NEW from, NEW name
    PROVE  NodeFinds(tree, from, name) = {tree[k].pkg : k \in Closest(tree, from, name)}
    BY DEF NodeFinds, Closest, Around, Candidate

\* What the tree of a lock is made of.
LEMMA LayoutIs ==
    ASSUME WorldInv, NEW tree \in Layouts
    PROVE  /\ IsLayout(tree)
           /\ \A k \in DOMAIN tree :
                /\ k \in Seq({p[1] : p \in installed} \cup {MemberDir}) /\ Len(k) \in 1 .. 2
                /\ tree[k].pkg \in installed
                /\ tree[k].link => tree[k].pkg \in members
                /\ k = <<MemberDir>> => ~tree[k].link /\ tree[k].pkg \in members
<1> DEFINE T == {p[1] : p \in installed} \cup {MemberDir}
<1>1. PICK chosen \in SUBSET Entries : tree = [k \in {e[1] : e \in chosen} |-> (CHOOSE e \in chosen : e[1] = k)[2]]
    BY DEF Layouts, kSubset
<1>2. IsLayout(tree)
    BY DEF Layouts
<1>3. ASSUME NEW k \in DOMAIN tree PROVE \E e \in Entries : k = e[1] /\ tree[k] = e[2]
  <2>1. \E e \in chosen : e[1] = k
      BY <1>1
  <2>2. (CHOOSE e \in chosen : e[1] = k) \in chosen /\ (CHOOSE e \in chosen : e[1] = k)[1] = k
      BY <2>1
  <2> QED
      BY <1>1, <2>1, <2>2
<1>4. ASSUME NEW k \in Paths PROVE k \in Seq(T) /\ Len(k) \in 1 .. 2
  <2>1. (\E a \in T : k = <<a>>) \/ \E a, b \in T : k = <<a, b>>
      BY DEF Paths
  <2>2. ASSUME NEW a \in T PROVE <<a>> \in Seq(T) /\ Len(<<a>>) = 1
    <3> HIDE DEF T
    <3> QED
        OBVIOUS
  <2>3. ASSUME NEW a \in T, NEW b \in T PROVE <<a, b>> \in Seq(T) /\ Len(<<a, b>>) = 2
    <3> HIDE DEF T
    <3> QED
        OBVIOUS
  <2> HIDE DEF T
  <2>4. CASE \E a \in T : k = <<a>>
    <3>1. PICK a \in T : k = <<a>>
        BY <2>4
    <3> QED
        BY <2>2, <3>1
  <2>5. CASE \E a, b \in T : k = <<a, b>>
    <3>1. PICK a \in T, b \in T : k = <<a, b>>
        BY <2>5
    <3> QED
        BY <2>3, <3>1
  <2> QED
      BY <2>1, <2>4, <2>5
<1>5. ASSUME NEW k \in DOMAIN tree
      PROVE  /\ k \in Seq(T) /\ Len(k) \in 1 .. 2 /\ tree[k].pkg \in installed
             /\ tree[k].link => tree[k].pkg \in members
             /\ k = <<MemberDir>> => ~tree[k].link /\ tree[k].pkg \in members
  <2>1. PICK e \in Entries : k = e[1] /\ tree[k] = e[2]
      BY <1>3
  <2>2. \A p \in installed : p[1] # MemberDir
      BY NamesTold DEF WorldInv
  <2>3. CASE /\ e \in Paths \X {Plain(p) : p \in installed}
             /\ IF e[2].pkg \in members THEN e[1] = <<MemberDir>> ELSE e[1][Len(e[1])] = e[2].pkg[1]
    <3>1. PICK p \in installed : e[2] = Plain(p)
        BY <2>3
    <3>2. e[2].pkg = p /\ e[2].link = FALSE /\ e[1] \in Paths
        BY <2>3, <3>1 DEF Plain
    <3>3. k = <<MemberDir>> => p \in members
      <4> SUFFICES ASSUME k = <<MemberDir>>, p \notin members PROVE FALSE
          OBVIOUS
      <4>1. e[1][Len(e[1])] = p[1]
          BY <2>3, <3>2
      <4>2. e[1] = <<MemberDir>>
          BY <2>1
      <4>3. e[1][Len(e[1])] = MemberDir
          BY <4>2
      <4> QED
          BY <2>2, <4>1, <4>3
    <3> QED
        BY <1>4, <2>1, <3>2, <3>3
  <2>4. CASE e \in {<<<<p[1]>>, LinkTo(p)>> : p \in members}
    <3>1. PICK p \in members : e = <<<<p[1]>>, LinkTo(p)>>
        BY <2>4
    <3>2. p \in installed /\ k = <<p[1]>> /\ tree[k].pkg = p
        BY <2>1, <3>1, Basics DEF LinkTo
    <3>3. k # <<MemberDir>> /\ k \in Seq(T) /\ Len(k) = 1
        BY <2>2, <3>2
    <3> QED
        BY <3>1, <3>2, <3>3
  <2> QED
      BY <2>1, <2>3, <2>4 DEF Entries
<1> QED
    BY <1>2, <1>5

\* A requirement of a package of the tree leads to what was resolved for it.
LEMMA FollowIs ==
    ASSUME WorldInv, NEW tree \in Layouts, NEW k \in DOMAIN tree, ~tree[k].link, NEW q \in NeedsOf(tree[k].pkg)
    PROVE  {tree[t].pkg : t \in NpmResolve(tree, k, q[1])} = {q}
<1>1. NodeFinds(tree, k, q[1]) = {q}
    BY LayoutIs DEF IsLayout
<1>2. {tree[t].pkg : t \in Closest(tree, k, q[1])} = {q}
    BY <1>1, NodeFindsIs
<1>3. Closest(tree, k, q[1]) \subseteq DOMAIN tree
    BY DEF Closest, Around
<1>4. q \notin members
  <2>1. <<tree[k].pkg, q>> \in needs
      BY Basics
  <2> QED
      BY <2>1 DEF WorldInv
<1>5. \A t \in Closest(tree, k, q[1]) : ~tree[t].link
    BY <1>2, <1>3, <1>4, LayoutIs
<1>6. NpmResolve(tree, k, q[1]) = Closest(tree, k, q[1])
  <2>1. k \in Seq({p[1] : p \in installed} \cup {MemberDir}) /\ Len(k) \in 0 .. 2
      BY LayoutIs
  <2>2. NpmResolve(tree, k, q[1]) = {t \in Closest(tree, k, q[1]) : ~tree[t].link}
      BY <2>1, NpmResolveIs
  <2> QED
      BY <1>5, <2>2
<1> QED
    BY <1>2, <1>6

\* And what the project itself requires, unless it is one of its members.
LEMMA RootFollowIs ==
    ASSUME WorldInv, NEW tree \in Layouts, NEW q \in DOMAIN section
    PROVE  {tree[t].pkg : t \in NpmResolve(tree, <<>>, q[1])} = IF tree[<<q[1]>>].link THEN {} ELSE {q}
<1>1. <<q[1]>> \in DOMAIN tree /\ tree[<<q[1]>>].pkg = q
    BY LayoutIs DEF IsLayout
<1>2. <<>> \in Seq({}) /\ Len(<<>>) = 0 /\ Len(<<>>) \in 0 .. 2
    OBVIOUS
<1>3. NpmResolve(tree, <<>>, q[1]) = {t \in Closest(tree, <<>>, q[1]) : ~tree[t].link}
  <2> DEFINE from == <<>>
  <2>1. from \in Seq({}) /\ Len(from) \in 0 .. 2
      BY <1>2
  <2> HIDE DEF from
  <2>2. NpmResolve(tree, from, q[1]) = {t \in Closest(tree, from, q[1]) : ~tree[t].link}
      BY <2>1, NpmResolveIs
  <2> QED
      BY <2>2 DEF from
<1>4. Closest(tree, <<>>, q[1]) = {<<q[1]>>}
  <2>1. Candidate(<<>>, 0, q[1]) = <<q[1]>>
    <3> DEFINE s == SubSeq(<<>>, 1, 0)
    <3>1. s \in Seq({}) /\ Len(s) = 0
        OBVIOUS
    <3>2. s = <<>>
      <4> HIDE DEF s
      <4> QED
          BY <3>1
    <3>3. Candidate(<<>>, 0, q[1]) = Append(s, q[1])
        BY DEF Candidate
    <3> HIDE DEF s
    <3> QED
        BY <3>2, <3>3
  <2>2. Around(tree, <<>>, q[1]) = {<<q[1]>>}
      BY <1>1, <1>2, <2>1 DEF Around
  <2> QED
      BY <2>2 DEF Closest
<1> QED
    BY <1>1, <1>3, <1>4

\* The claims of a lock, those of the entries that are no links.
LEMMA LayoutLists ==
    ASSUME WorldInv, NEW tree \in Layouts, NEW f \in {"npm-lock-v1", "npm-lock-v2"}, NEW F,
           F.claims = {Claim(tree[k].pkg, Tier.LOCKED, DevMark(tree[k].pkg)) : k \in {j \in DOMAIN tree : ~tree[j].link}}
    PROVE  Lists(f, F)
<1> DEFINE keys == {j \in DOMAIN tree : ~tree[j].link}
           C(k) == Claim(tree[k].pkg, Tier.LOCKED, DevMark(tree[k].pkg))
<1>1. F.claims = {C(k) : k \in keys}
    OBVIOUS
<1>2. \A k : ClaimOf(C(k), tree[k].pkg)
    BY ClaimIs
<1>3. \A k \in keys : tree[k].pkg \in installed
    BY LayoutIs
<1>4. \A p \in NotMembers : \E k \in keys : tree[k].pkg = p
  <2> SUFFICES ASSUME NEW p \in NotMembers PROVE \E k \in keys : tree[k].pkg = p
      OBVIOUS
  <2>1. p \in installed /\ p \notin members
      BY DEF NotMembers
  <2>2. {tree[k].pkg : k \in DOMAIN tree} = installed
      BY LayoutIs DEF IsLayout
  <2>3. PICK k \in DOMAIN tree : tree[k].pkg = p
      BY <2>1, <2>2
  <2>4. ~tree[k].link
      BY <2>1, <2>3, LayoutIs
  <2> QED
      BY <2>3, <2>4
<1>5. Listed(f) = NotMembers
    BY FormatsAre DEF Listed
<1> HIDE DEF C, keys
<1> QED
    BY <1>1, <1>2, <1>3, <1>4, <1>5 DEF Lists, ClaimOf

\* package-lock.json of version 1, which nests.
LEMMA NpmV1Reads ==
    ASSUME WorldInv, members = {}, NEW tree \in Layouts
    PROVE  Reads("npm-lock-v1", Both(Manifests, NpmLockV1(tree)), {})
<1> DEFINE f == "npm-lock-v1"
           F == NpmLockV1(tree)
           top == {j \in {k \in DOMAIN tree : ~tree[k].link} : Len(j) = 1}
           R(k) == DirectEdge(Root, RefPurl(tree[k].pkg), IF DevOnly(tree[k].pkg) THEN "dev" ELSE "runtime")
           E(e) == Edge(RefPurl(e[1]), RefFamily(e[2][1]), None, FALSE)
<1>1. F.edges = {R(k) : k \in top} \cup {E(e) : e \in needs}
    BY DEF NpmLockV1, Found
<1>2. Lists(f, F)
  <2>1. F.claims = {Claim(tree[k].pkg, Tier.LOCKED, DevMark(tree[k].pkg)) : k \in {j \in DOMAIN tree : ~tree[j].link}}
      BY DEF NpmLockV1, Found
  <2> HIDE DEF F
  <2> QED
      BY <2>1, LayoutLists
<1>3. /\ \A e : E(e).src = RefPurl(e[1]) /\ E(e).dst = RefFamily(e[2][1]) /\ ToFollow(E(e))
      /\ \A k : /\ R(k).src = RefProject(Root) /\ R(k).dst = RefPurl(tree[k].pkg)
                /\ R(k).scope = IF DevOnly(tree[k].pkg) THEN "dev" ELSE "runtime"
    BY DEF Edge, DirectEdge, ToFollow
<1>4. \A k \in top : tree[k].pkg \in installed /\ (R(k).scope \in {None, "runtime"} => tree[k].pkg \in Stays)
  <2> SUFFICES ASSUME NEW k \in top
               PROVE  tree[k].pkg \in installed /\ (R(k).scope \in {None, "runtime"} => tree[k].pkg \in Stays)
      OBVIOUS
  <2>1. tree[k].pkg \in installed
      BY LayoutIs
  <2>2. R(k).scope = IF DevOnly(tree[k].pkg) THEN "dev" ELSE "runtime"
      BY <1>3
  <2>3. R(k).scope \in {None, "runtime"} => ~DevOnly(tree[k].pkg)
      BY <2>2 DEF None
  <2> QED
      BY <2>1, <2>3 DEF DevOnly, Stays
<1> HIDE DEF F, R, E, top
<1>5. f \in Graphed \ Exact
    BY GraphedAre
<1>6. \A p : RefFamily(p[1]) \in Targets(f, p)
    BY <1>5 DEF Targets
<1>7. \A d \in F.edges : \/ /\ d.src \in Projects
                            /\ \E p \in installed : d.dst = RefPurl(p) /\ (ToFollow(d) /\ f \notin Flat => p \in Stays)
                         \/ \E n \in needs : d.src = RefPurl(n[1]) /\ d.dst \in Targets(f, n[2])
    BY <1>1, <1>3, <1>4, <1>6 DEF ToFollow, Projects
<1>8. \A e \in needs \ maybe : e[1] \in NotMembers =>
         \E d \in F.edges : /\ d.src = RefPurl(e[1]) /\ d.dst \in Targets(f, e[2])
                            /\ (e[1] \in Stays => ToFollow(d))
    BY <1>1, <1>3, <1>6
<1> QED
    BY <1>2, <1>5, <1>7, <1>8, ManifestsRead, GraphReads DEF F

\* package-lock.json of version 2, whose keys are paths.
LEMMA NpmV2Reads ==
    ASSUME WorldInv, NEW tree \in Layouts
    PROVE  Reads("npm-lock-v2", Both(Manifests, NpmLockV2(tree)), {})
<1> DEFINE f == "npm-lock-v2"
           F == NpmLockV2(tree)
           A == Manifests
           keys == {k \in DOMAIN tree : ~tree[k].link}
           follow(k, q) == {tree[t].pkg : t \in NpmResolve(tree, k, q[1])}
           R(q, t) == DirectEdge(Root, RefPurl(t), section[q])
           E(k, t) == Edge(RefPurl(tree[k].pkg), RefPurl(t), None, FALSE)
           Read(k) == {r \in NeedsOf(tree[k].pkg) : <<tree[k].pkg, r>> \notin maybe}
<1>1. F.edges = (UNION {{R(q, t) : t \in follow(<<>>, q)} : q \in DOMAIN section})
                  \cup UNION {UNION {{E(k, t) : t \in follow(k, q)} : q \in Read(k)} : k \in keys}
    BY DEF NpmLockV2, Found
<1>2. F.claims = {Claim(tree[k].pkg, Tier.LOCKED, DevMark(tree[k].pkg)) : k \in keys}
    BY DEF NpmLockV2, Found
<1>3. Lists(f, F)
  <2> HIDE DEF F
  <2> QED
      BY <1>2, LayoutLists
<1>4. \A k \in keys : \A q \in NeedsOf(tree[k].pkg) : follow(k, q) = {q}
    BY FollowIs
<1>5. \A q \in DOMAIN section : follow(<<>>, q) = IF tree[<<q[1]>>].link THEN {} ELSE {q}
    BY RootFollowIs
<1>6. /\ \A q, t : R(q, t).src = RefProject(Root) /\ R(q, t).dst = RefPurl(t) /\ R(q, t).scope = section[q]
      /\ \A k, t : E(k, t).src = RefPurl(tree[k].pkg) /\ E(k, t).dst = RefPurl(t) /\ ToFollow(E(k, t))
    BY DEF Edge, DirectEdge, ToFollow
<1> HIDE DEF F, R, E, follow
<1>7. /\ \A d \in F.edges : (\E q \in DOMAIN section : d = R(q, q)) \/ \E k \in keys : \E q \in Read(k) : d = E(k, q)
      /\ \A k \in keys : \A q \in Read(k) : E(k, q) \in F.edges
      /\ \A q \in DOMAIN section : ~tree[<<q[1]>>].link => R(q, q) \in F.edges
  <2> DEFINE linked(q) == tree[<<q[1]>>].link
  <2>1. \A k \in keys : \A q \in Read(k) : follow(k, q) = {q}
      BY <1>4
  <2>2. \A q \in DOMAIN section : follow(<<>>, q) = IF linked(q) THEN {} ELSE {q}
      BY <1>5
  <2> HIDE DEF keys, Read, linked
  <2>3. \A d : d \in F.edges <=> \/ \E q \in DOMAIN section : \E t \in follow(<<>>, q) : d = R(q, t)
                                 \/ \E k \in keys : \E q \in Read(k) : \E t \in follow(k, q) : d = E(k, t)
    <3>2. \A d : d \in UNION {{R(q, t) : t \in follow(<<>>, q)} : q \in DOMAIN section}
             <=> \E q \in DOMAIN section : \E t \in follow(<<>>, q) : d = R(q, t)
        OBVIOUS
    <3>3. \A d : d \in UNION {UNION {{E(k, t) : t \in follow(k, q)} : q \in Read(k)} : k \in keys}
             <=> \E k \in keys : \E q \in Read(k) : \E t \in follow(k, q) : d = E(k, t)
      <4>1. \A k, d : d \in UNION {{E(k, t) : t \in follow(k, q)} : q \in Read(k)}
                 <=> \E q \in Read(k) : \E t \in follow(k, q) : d = E(k, t)
          OBVIOUS
      <4> DEFINE V(k) == UNION {{E(k, t) : t \in follow(k, q)} : q \in Read(k)}
      <4>2. \A k, d : d \in V(k) <=> \E q \in Read(k) : \E t \in follow(k, q) : d = E(k, t)
          BY <4>1
      <4>3. \A d : d \in UNION {V(k) : k \in keys} <=> \E k \in keys : \E q \in Read(k) : \E t \in follow(k, q) : d = E(k, t)
        <5> HIDE DEF V
        <5> QED
            BY <4>2
      <4> QED
          BY <4>3
    <3> QED
        BY <1>1, <3>2, <3>3
  <2>4. \A d \in F.edges : (\E q \in DOMAIN section : d = R(q, q)) \/ \E k \in keys : \E q \in Read(k) : d = E(k, q)
      BY <2>1, <2>2, <2>3
  <2>5. \A k \in keys : \A q \in Read(k) : E(k, q) \in F.edges
      BY <2>1, <2>3
  <2>6. \A q \in DOMAIN section : ~linked(q) => R(q, q) \in F.edges
      BY <2>2, <2>3
  <2> QED
      BY <2>4, <2>5, <2>6 DEF linked
<1>8. f \in Graphed /\ f \in Exact /\ \A p : RefPurl(p) \in Targets(f, p)
    BY GraphedAre, FormatsAre DEF Targets
<1>9. ASSUME NEW d \in F.edges
      PROVE  \/ /\ d.src \in Projects
                /\ \E p \in installed : d.dst = RefPurl(p) /\ (ToFollow(d) /\ f \notin Flat => p \in Stays)
             \/ \E n \in needs : d.src = RefPurl(n[1]) /\ d.dst \in Targets(f, n[2])
  <2>1. CASE \E q \in DOMAIN section : d = R(q, q)
    <3>1. PICK q \in DOMAIN section : d = R(q, q)
        BY <2>1
    <3>2. d.src = RefProject(Root) /\ d.dst = RefPurl(q) /\ d.scope = section[q]
        BY <1>6, <3>1
    <3>3. section[q] \in Section /\ q \in installed
        BY DEF WorldInv
    <3>4. ToFollow(d) => q \in Stays
        BY <3>2, <3>3, StaysIs DEF ToFollow, Required, Section, None
    <3> QED
        BY <3>2, <3>3, <3>4 DEF Projects
  <2>2. CASE \E k \in keys : \E q \in Read(k) : d = E(k, q)
    <3>1. PICK k \in keys : \E q \in Read(k) : d = E(k, q)
        BY <2>2
    <3>2. PICK q \in Read(k) : d = E(k, q)
        BY <3>1
    <3>3. <<tree[k].pkg, q>> \in needs
        BY Basics
    <3>4. d.src = RefPurl(tree[k].pkg) /\ d.dst = RefPurl(q)
        BY <1>6, <3>2
    <3> QED
        BY <1>8, <3>3, <3>4
  <2> QED
      BY <1>7, <2>1, <2>2
<1>10. ASSUME NEW e \in needs \ maybe, NEW k \in keys, tree[k].pkg = e[1]
       PROVE  \E d \in F.edges : d.src = RefPurl(e[1]) /\ d.dst = RefPurl(e[2]) /\ ToFollow(d)
  <2>1. e = <<e[1], e[2]>> /\ e[2] \in NeedsOf(e[1])
      BY Basics
  <2>2. e[2] \in Read(k)
      BY <1>10, <2>1
  <2> QED
      BY <1>6, <1>7, <1>10, <2>2
<1>11. ASSUME NEW e \in needs \ maybe, e[1] \in NotMembers
       PROVE  \E d \in F.edges : d.src = RefPurl(e[1]) /\ d.dst = RefPurl(e[2]) /\ ToFollow(d)
  <2>1. e[1] \in installed /\ e[1] \notin members
      BY <1>11 DEF NotMembers
  <2>2. {tree[k].pkg : k \in DOMAIN tree} = installed
      BY LayoutIs DEF IsLayout
  <2>3. PICK k \in DOMAIN tree : tree[k].pkg = e[1]
      BY <2>1, <2>2
  <2>4. k \in keys
      BY <2>1, <2>3, LayoutIs
  <2> QED
      BY <1>10, <2>3, <2>4
<1>12. Founded(f, F, {}) /\ Complete(f, F) /\ Alone(f, F, {}) /\ Linked(F)
  <2>1. \A e \in needs \ maybe : e[1] \in NotMembers =>
           \E d \in F.edges : /\ d.src = RefPurl(e[1]) /\ d.dst \in Targets(f, e[2])
                              /\ (e[1] \in Stays => ToFollow(d))
      BY <1>8, <1>11
  <2> QED
      BY <1>3, <1>8, <1>9, <2>1, NeedsRead
<1>13. Begun(Both(A, F))
  <2> DEFINE B == Both(A, F)
  <2>1. B.claims = A.claims \cup F.claims /\ B.edges = A.edges \cup F.edges
      BY DEF Both, Found
  <2> HIDE DEF B
  <2>2. ASSUME NEW p \in Required({"runtime"}), p \notin members
        PROVE  \E d \in B.edges : d.src = RefProject(Root) /\ Exactly(d.dst, p) /\ ToFollow(d)
    <3>1. p \in DOMAIN section /\ section[p] = "runtime"
        BY DEF Required
    <3>2. <<p[1]>> \in DOMAIN tree /\ tree[<<p[1]>>].pkg = p
        BY <3>1, LayoutIs DEF IsLayout
    <3>3. ~tree[<<p[1]>>].link
        BY <2>2, <3>2, LayoutIs
    <3>4. R(p, p) \in B.edges
        BY <1>7, <2>1, <3>1, <3>3
    <3> QED
        BY <1>6, <3>1, <3>4 DEF Exactly, ToFollow
  <2>3. ASSUME NEW m \in members PROVE Hung(B, m) /\ \E k \in keys : tree[k].pkg = m
    <3> DEFINE k == <<MemberDir>>
    <3>1. k \in DOMAIN tree
        BY LayoutIs DEF IsLayout
    <3>2. ~tree[k].link /\ tree[k].pkg \in members
        BY <3>1, LayoutIs
    <3>3. tree[k].pkg = m
        BY <3>2 DEF WorldInv
    <3>4. \E c \in B.claims : c.name = m[1] /\ c.ver = m[2]
      <4>1. Claim(tree[k].pkg, Tier.LOCKED, DevMark(tree[k].pkg)) \in B.claims
          BY <1>2, <2>1, <3>1, <3>2
      <4> QED
          BY <3>3, <4>1, ClaimIs DEF ClaimOf
    <3>5. m \in DOMAIN section /\ section[m] = "runtime" /\ Lone(m[1])
        BY DEF WorldInv, Required
    <3>6. PICK d \in A.edges : d = DirectEdge(Root, RefFamily(m[1]), section[m])
        BY <3>5, ManifestsAre
    <3>7. d \in B.edges /\ d.src = RefProject(Root) /\ Exactly(d.dst, m) /\ ToFollow(d)
        BY <2>1, <3>5, <3>6 DEF DirectEdge, Edge, Exactly, ToFollow
    <3> HIDE DEF k
    <3> QED
        BY <3>1, <3>2, <3>3, <3>4, <3>7 DEF Hung
  <2>4. ASSUME NEW e \in needs \ maybe, e[1] \in members
        PROVE  \E d \in B.edges : Exactly(d.dst, e[2]) /\ ToFollow(d) /\ Exactly(d.src, e[1]) /\ Hung(B, e[1])
    <3>1. Hung(B, e[1])
        BY <2>3, <2>4
    <3>2. PICK k \in keys : tree[k].pkg = e[1]
        BY <2>3, <2>4
    <3>3. PICK d \in F.edges : d.src = RefPurl(e[1]) /\ d.dst = RefPurl(e[2]) /\ ToFollow(d)
        BY <1>10, <3>2
    <3> QED
        BY <2>1, <3>1, <3>3 DEF Exactly
  <2>5. Begun(B)
      BY <2>2, <2>4 DEF Begun
  <2> QED
      BY <2>5 DEF B
<1>14. IsFiniteSet({})
    BY FS_EmptySet
<1> QED
    BY <1>12, <1>13, <1>14, ManifestsRead, TogetherRead DEF F

(***************************************************************************)
(* Every file                                                              *)
(***************************************************************************)

\* Whatever the format is, its reading tells what was installed.
LEMMA ReadingReads ==
    ASSUME WorldInv, AllNeeded,
           NEW f \in (Node \ {"npm-lock-v1", "npm-lock-v2"}) \cup (Python \ {"poetry-lock"}) \cup Other \cup Native,
           f \in ManyVersions \/ OneVersionEach(installed), f \in Workspaces \/ members = {}
    PROVE  Reads(f, Reading(f), {})
<1>1. f \in {"pnpm-lock", "yarn-classic", "yarn-berry", "bun-lock", "deno-lock", "node-modules", "uv-lock", "pipfile-lock",
             "dist-info", "requirements", "gemfile-lock", "composer-lock", "composer-installed", "podfile-lock", "nuget-lock",
             "rebar-lock", "paket-lock", "package-list", "vcpkg-status"} \cup Native
    BY DEF Node, ManyVersions, Python, Other
<1>2. CASE f \in {"pnpm-lock", "yarn-classic", "yarn-berry", "bun-lock", "uv-lock"}
  <2>1. f = "uv-lock" => OneVersionEach(installed)
      BY DEF ManyVersions
  <2>2. Reads("bun-lock", Both(Manifests, BunLock), {})
    <3>1. Reads("bun-lock", IF "bun-lock" = "bun-lock" THEN Both(Manifests, BunLock) ELSE DenoLock, {})
        BY FlatListReads
    <3> QED
        BY <3>1
  <2> QED
      BY <1>2, <2>1, <2>2, PnpmReads, YarnReads, UvReads DEF Reading, PackageJson, Pyproject
<1>3. CASE f \in {"deno-lock", "node-modules", "dist-info", "pipfile-lock", "requirements"}
  <2>1. members = {}
      BY <1>3 DEF Workspaces
  <2>2. Reads("deno-lock", DenoLock, {})
    <3>1. Reads("deno-lock", IF "deno-lock" = "bun-lock" THEN Both(Manifests, BunLock) ELSE DenoLock, {})
        BY FlatListReads
    <3> QED
        BY <3>1
  <2> QED
      BY <1>3, <2>1, <2>2, NodeModulesRead, YarnReads, PipfileReads, FrozenReads DEF Reading, PackageJson, Pyproject
<1>4. CASE f \in {"gemfile-lock", "composer-lock", "composer-installed", "podfile-lock", "nuget-lock", "rebar-lock",
                  "paket-lock", "package-list", "vcpkg-status"}
  <2>1. members = {}
      BY <1>4 DEF Workspaces
  <2> QED
      BY <1>4, <2>1, GemfileReads, ComposerReads, PodReads, HungLocksRead, PackageListReads DEF Reading
<1>5. CASE f \in Native
  <2>1. members = {}
      BY <1>5 DEF Workspaces, Native
  <2> QED
      BY <1>5, <2>1, TreeToolsRead, ToolListsRead, PnpmLsReads DEF Reading, Native, PackageJson
<1> QED
    BY <1>1, <1>2, <1>3, <1>4, <1>5

\* A manifest that may have gained a requirement since.
LEMMA GainsOne ==
    ASSUME NEW p, NEW s,
           NEW required, required = [q \in DOMAIN section \cup {p} |-> IF q \in DOMAIN section THEN section[q] ELSE s],
           NEW l, l = {<<q, s>> : q \in DOMAIN required \ DOMAIN section}
    PROVE  /\ DOMAIN required = DOMAIN section \cup {p}
           /\ \A q \in DOMAIN section \cup {p} : required[q] = IF q \in DOMAIN section THEN section[q] ELSE s
           /\ l = IF p \in DOMAIN section THEN {} ELSE {<< p, s >>}
<1>1. DOMAIN required = DOMAIN section \cup {p}
    OBVIOUS
<1>2. l = IF p \in DOMAIN section THEN {} ELSE {<< p, s >>}
  <2>1. CASE p \in DOMAIN section
    <3>1. DOMAIN required \ DOMAIN section = {}
        BY <1>1, <2>1
    <3> QED
        BY <2>1, <3>1
  <2>2. CASE p \notin DOMAIN section
    <3>1. DOMAIN required \ DOMAIN section = {p}
        BY <1>1, <2>2
    <3> QED
        BY <2>2, <3>1
  <2> QED
      BY <2>1, <2>2
<1> QED
    BY <1>1, <1>2

\* It tells where the project begins.
LEMMA LaterManifestReads ==
    ASSUME WorldInv, members = {}, NEW p \in Packages, NEW s \in Section, NEW required,
           DOMAIN required = DOMAIN section \cup {p},
           \A q \in DOMAIN section \cup {p} : required[q] = IF q \in DOMAIN section THEN section[q] ELSE s,
           NEW l, l = IF p \in DOMAIN section THEN {} ELSE {<< p, s >>}
    PROVE  /\ IsFiniteSet(l) /\ \A e \in l : e[1] \in Packages
           /\ Founded("poetry-lock", Manifest(Root, required), l) /\ Alone("poetry-lock", Manifest(Root, required), l)
           /\ OneVersionEach(installed) => Begun(Manifest(Root, required))
<1> DEFINE F == Manifest(Root, required)
           scope(q) == IF q \in DOMAIN section THEN section[q] ELSE s
<1>1. DOMAIN required = DOMAIN section \cup {p} /\ \A q \in DOMAIN section \cup {p} : required[q] = scope(q)
    OBVIOUS
<1>2. l = IF p \in DOMAIN section THEN {} ELSE {<< p, s >>}
    OBVIOUS
<1>3. IsFiniteSet(l)
  <2>1. IsFiniteSet({}) /\ IsFiniteSet({<< p, s >>})
      BY FS_EmptySet, FS_Singleton
  <2> QED
      BY <1>2, <2>1
<1>4. \A e \in l : e[1] \in Packages
    BY <1>2
<1>5. /\ \A c : c \in F.claims <=> \E q \in DOMAIN section \cup {p} : c = Declared(q[1])
      /\ \A d : d \in F.edges <=> \E q \in DOMAIN section \cup {p} : d = DirectEdge(Root, RefFamily(q[1]), scope(q))
  <2>1. /\ \A c : c \in F.claims <=> \E q \in DOMAIN required : c = Declared(q[1])
        /\ \A d : d \in F.edges <=> \E q \in DOMAIN required : d = DirectEdge(Root, RefFamily(q[1]), required[q])
      BY ManifestIs
  <2> HIDE DEF F, scope
  <2>2. \A d, q : q \in DOMAIN section \cup {p} =>
           (d = DirectEdge(Root, RefFamily(q[1]), required[q]) <=> d = DirectEdge(Root, RefFamily(q[1]), scope(q)))
      BY <1>1
  <2> QED
      BY <1>1, <2>1, <2>2
<1> HIDE DEF F
<1>6. \A d \in F.edges : \E q \in DOMAIN section \cup {p} : /\ d.src = RefProject(Root) /\ d.dst = RefFamily(q[1])
                                                           /\ d.scope = scope(q)
    BY <1>5 DEF DirectEdge, Edge
<1>7. RefProject(Root) \in Projects
    BY DEF Projects
<1>8. Founded("poetry-lock", F, l)
  <2>1. \A q \in DOMAIN section \cup {p} : q[1] \in Known(l)
    <3>1. \A q \in DOMAIN section : q[1] \in Known(l)
        BY DEF Known, WorldInv
    <3>2. p \notin DOMAIN section => <<p, s>> \in l
        BY <1>2
    <3>3. p \notin DOMAIN section => p[1] \in Known(l)
      <4>1. <<p, s>>[1] = p
          OBVIOUS
      <4> QED
          BY <3>2, <4>1 DEF Known
    <3> QED
        BY <3>1, <3>3
  <2>2. \A c \in F.claims : c.name \in Known(l) /\ c.ver = 0
    <3>1. \A name : Declared(name).name = name /\ Declared(name).ver = 0
        BY DEF Declared
    <3>2. ASSUME NEW c \in F.claims PROVE c.name \in Known(l) /\ c.ver = 0
      <4>1. PICK q \in DOMAIN section \cup {p} : c = Declared(q[1])
          BY <1>5
      <4> QED
          BY <2>1, <3>1, <4>1
    <3> QED
        BY <3>2
  <2>3. \A d \in F.edges : d.src \in Projects /\ \E q \in Packages : d.dst \in {RefPurl(q), RefFamily(q[1])}
      BY <1>6, <1>7 DEF WorldInv
  <2> QED
      BY <2>2, <2>3 DEF Founded
<1>9. Alone("poetry-lock", F, l)
  <2>1. ASSUME l = {}, NEW d \in F.edges, ToFollow(d)
        PROVE  d.src \in Projects /\ \E q \in Stays : d.dst \in {RefPurl(q), RefFamily(q[1])}
    <3>1. p \in DOMAIN section
        BY <1>2, <2>1
    <3>2. PICK q \in DOMAIN section : d.src = RefProject(Root) /\ d.dst = RefFamily(q[1]) /\ d.scope = section[q]
        BY <1>6, <3>1
    <3>3. section[q] \in Section /\ section[q] \in {None, "runtime"}
        BY <2>1, <3>2 DEF ToFollow, WorldInv
    <3>4. q \in Stays
        BY <3>3, StaysIs DEF Required, Section, None
    <3> QED
        BY <1>7, <3>2, <3>4
  <2> QED
      BY <2>1 DEF Alone
<1>10. ASSUME OneVersionEach(installed) PROVE Begun(F)
  <2>1. ASSUME NEW q \in Required({"runtime"})
        PROVE  \E d \in F.edges : d.src = RefProject(Root) /\ Exactly(d.dst, q) /\ ToFollow(d)
    <3>1. q \in DOMAIN section /\ scope(q) = "runtime"
        BY DEF Required
    <3>2. PICK d \in F.edges : d = DirectEdge(Root, RefFamily(q[1]), scope(q))
        BY <1>5, <3>1
    <3>3. d.src = RefProject(Root) /\ d.dst = RefFamily(q[1]) /\ d.scope = "runtime"
        BY <3>1, <3>2 DEF DirectEdge, Edge
    <3> QED
        BY <1>10, <3>3, OneIsLone DEF Exactly, ToFollow
  <2> QED
      BY <2>1 DEF Begun
<1> QED
    BY <1>3, <1>4, <1>8, <1>9, <1>10 DEF F

PoetryFinding(required) == Both(Manifest(Root, required), PoetryLock(IsStale(required, installed)))

\* poetry.lock beside it.
LEMMA PoetryReads ==
    ASSUME WorldInv, OneVersionEach(installed), members = {}, NEW p \in Packages, NEW s \in Section,
           NEW required, DOMAIN required = DOMAIN section \cup {p},
           \A q \in DOMAIN section \cup {p} : required[q] = IF q \in DOMAIN section THEN section[q] ELSE s,
           NEW l, l = IF p \in DOMAIN section THEN {} ELSE {<< p, s >>}
    PROVE  Reads("poetry-lock", PoetryFinding(required), l)
<1> DEFINE f == "poetry-lock"
           stale == IsStale(required, installed)
           F == PoetryLock(stale)
           m == IF stale THEN {"stale"} ELSE {}
<1>1. F.edges = NamedEdges(Released, Released) /\ F.claims = {Claim(q, Tier.LOCKED, m) : q \in NotMembers}
    BY Basics DEF PoetryLock, Found
<1>2. \A d : d \in F.edges <=>
         \E e \in needs : e[1] \in NotMembers /\ d = Edge(RefPurl(e[1]), RefPurl(e[2]), None, FALSE)
  <2>1. NotMembers \subseteq Released /\ Released \subseteq installed
      BY Basics
  <2>2. \A d : d \in NamedEdges(Released, Released) <=>
           \E e \in needs : e[1] \in NotMembers /\ d = Edge(RefPurl(e[1]), RefPurl(e[2]), None, FALSE)
      BY <2>1, NamedEdgesAre
  <2> HIDE DEF F
  <2> QED
      BY <1>1, <2>2
<1> HIDE DEF F, m, stale
<1>3. Founded(f, F, {}) /\ Complete(f, F) /\ Alone(f, F, {}) /\ Linked(F)
    BY <1>1, <1>2, LookedUpReads
<1>4. Founded(f, F, l) /\ Alone(f, F, l)
  <2>1. Known({}) \subseteq Known(l)
      BY DEF Known
  <2> QED
      BY <1>3, <2>1 DEF Founded, Alone
<1> HIDE DEF f
<1>5. /\ IsFiniteSet(l) /\ \A e \in l : e[1] \in Packages
      /\ Founded(f, Manifest(Root, required), l) /\ Alone(f, Manifest(Root, required), l)
      /\ OneVersionEach(installed) => Begun(Manifest(Root, required))
  <2>1. /\ IsFiniteSet(l) /\ \A e \in l : e[1] \in Packages
        /\ Founded("poetry-lock", Manifest(Root, required), l) /\ Alone("poetry-lock", Manifest(Root, required), l)
        /\ OneVersionEach(installed) => Begun(Manifest(Root, required))
      BY LaterManifestReads
  <2> QED
      BY <2>1 DEF f
<1>6. Reads(f, Both(Manifest(Root, required), F), l)
    BY <1>3, <1>4, <1>5, BothRead
<1> QED
    BY <1>6 DEF f, F, stale, PoetryFinding

\* The versions of the lock are marked just when the manifest asks for a name
\* that it lacks.
LagIsMarked(l, F) ==
    LET missing == {e \in l : e[2] # "optional" /\ \A q \in installed : q[1] # e[1][1]}
        locked == {c \in F.claims : c.tier = Tier.LOCKED}
    IN  {c \in locked : "stale" \in c.marks} = IF missing = {} THEN {} ELSE locked

\* It is marked just when it lags.
LEMMA PoetryMarks ==
    ASSUME WorldInv, NEW p \in Packages, NEW s \in Section,
           NEW required, DOMAIN required = DOMAIN section \cup {p},
           \A q \in DOMAIN section \cup {p} : required[q] = IF q \in DOMAIN section THEN section[q] ELSE s,
           NEW l, l = IF p \in DOMAIN section THEN {} ELSE {<< p, s >>}
    PROVE  LagIsMarked(l, PoetryFinding(required))
<1> DEFINE F == PoetryFinding(required)
           missing == {e \in l : e[2] # "optional" /\ \A q \in installed : q[1] # e[1][1]}
           locked == {c \in F.claims : c.tier = Tier.LOCKED}
           stale == IsStale(required, installed)
<1>1. /\ DOMAIN required = DOMAIN section \cup {p}
      /\ \A q \in DOMAIN section \cup {p} : required[q] = IF q \in DOMAIN section THEN section[q] ELSE s
    OBVIOUS
<1>2. l = IF p \in DOMAIN section THEN {} ELSE {<< p, s >>}
    OBVIOUS
<1>3. stale <=> missing # {}
  <2>1. stale <=> \E q \in DOMAIN required : required[q] \in {"runtime", "dev"} /\ \A r \in installed : r[1] # q[1]
      BY DEF IsStale
  <2>2. \A q \in DOMAIN section : q \in installed
      BY DEF WorldInv
  <2>3. stale <=> p \notin DOMAIN section /\ s \in {"runtime", "dev"} /\ \A r \in installed : r[1] # p[1]
      BY <1>1, <2>1, <2>2
  <2>4. s \in {"runtime", "dev"} <=> s # "optional"
      BY DEF Section
  <2>5. missing # {} <=> p \notin DOMAIN section /\ s # "optional" /\ \A r \in installed : r[1] # p[1]
    <3>1. \A e : e = <<p, s>> => e[1] = p /\ e[2] = s
        OBVIOUS
    <3> QED
        BY <1>2, <3>1
  <2> QED
      BY <2>3, <2>4, <2>5
<1>4. \A c \in locked : \E q \in Released : c = Claim(q, Tier.LOCKED, IF stale THEN {"stale"} ELSE {})
  <2>1. ASSUME NEW c \in F.claims
        PROVE  (\E q \in DOMAIN required : c = Declared(q[1]))
               \/ \E q \in Released : c = Claim(q, Tier.LOCKED, IF stale THEN {"stale"} ELSE {})
      BY DEF PoetryFinding, Both, Found, PoetryLock, Manifest
  <2>2. \A name : Declared(name).tier # Tier.LOCKED
      BY DEF Declared, Tier
  <2> QED
      BY <2>1, <2>2
<1>5. \A q : Claim(q, Tier.LOCKED, IF stale THEN {"stale"} ELSE {}).marks = IF stale THEN {"stale"} ELSE {}
    BY DEF Claim
<1> HIDE DEF locked, stale, missing
<1>6. \A c \in locked : c.marks = IF stale THEN {"stale"} ELSE {}
    BY <1>4, <1>5
<1>7. {c \in locked : "stale" \in c.marks} = IF missing = {} THEN {} ELSE locked
    BY <1>3, <1>6
<1> QED
    BY <1>7 DEF locked, missing, LagIsMarked

(***************************************************************************)
(* The modules of a go build                                               *)
(***************************************************************************)

\* The lines of go.sum.
Sums(stands) == GoSum(GoBuild(stands) \ {Local}, TRUE)

\* What the two readers tell of the modules that are built: those of go.mod,
\* their replacements and, from go.sum, what is built in their place.
LEMMA GoIsRead ==
    ASSUME NEW stands, NEW excluded, excluded \cap installed = {},
           NEW F, F = Both(GoMod(stands, excluded), Sums(stands))
    PROVE  /\ \A p \in (GoBuild(stands) \ {Local}) \cup installed : \E c \in F.claims : c.name = p[1] /\ c.ver = p[2]
           /\ \A c \in F.claims :
                \/ \E p \in installed : c.name = p[1] /\ c.ver = p[2]
                \/ \E n \in DOMAIN stands : stands[n].to # Local /\ c.name = stands[n].to[1] /\ c.ver = stands[n].to[2]
           /\ \A p \in installed : p[1] \in DOMAIN stands /\ stands[p[1]].to # Local =>
                \E d \in F.edges : d.src = RefPurl(stands[p[1]].to) /\ d.dst = RefPurl(p)
<1> DEFINE built == GoBuild(stands) \ {Local}
           kept == (installed \cup excluded) \ excluded
           to(p) == stands[p[1]].to
           local == {p \in kept : Replaces(stands, p) /\ to(p) = Local}
           moved == {p \in kept \ local : Replaces(stands, p)}
           marks(p) == (IF p \in DOMAIN section THEN {} ELSE {"indirect"}) \cup (IF p \in local THEN {"local"} ELSE {})
           sum(p) == IF p[1] \in InGoMod(TRUE) THEN {} ELSE {"superset"}
<1>1. kept = installed
    OBVIOUS
<1>2. /\ F.claims = {Claim(p, Tier.DECLARED, marks(p)) : p \in kept}
                    \cup {Claim(to(p), Tier.DECLARED, {"replaces"}) : p \in moved}
                    \cup {Claim(p, Tier.LOCKED, sum(p)) : p \in built}
      /\ F.edges = {Edge(RefProject(Root), RefPurl(p), "runtime", p \in DOMAIN section) : p \in kept}
                   \cup {Edge(RefPurl(to(p)), RefPurl(p), "resolved-from", FALSE) : p \in moved}
    BY DEF Both, Found, GoMod, GoSum, Sums
<1>3. \A p : p \in moved <=> p \in installed /\ p[1] \in DOMAIN stands /\ stands[p[1]].to # Local
    BY <1>1 DEF Replaces
<1>4. \A p, tier, m : Claim(p, tier, m).name = p[1] /\ Claim(p, tier, m).ver = p[2]
    BY DEF Claim
<1>5. \A p \in built : p \in installed \/ \E q \in moved : p = stands[q[1]].to
    BY <1>3 DEF GoBuild, Replaces
<1> HIDE DEF moved, built, kept, marks, sum
<1>6. \A p \in built \cup installed : \E c \in F.claims : c.name = p[1] /\ c.ver = p[2]
  <2>1. \A p \in built : Claim(p, Tier.LOCKED, sum(p)) \in F.claims
      BY <1>2
  <2>2. \A p \in installed : Claim(p, Tier.DECLARED, marks(p)) \in F.claims
      BY <1>1, <1>2
  <2> QED
      BY <1>4, <2>1, <2>2
<1>7. \A c \in F.claims :
        \/ \E p \in installed : c.name = p[1] /\ c.ver = p[2]
        \/ \E n \in DOMAIN stands : stands[n].to # Local /\ c.name = stands[n].to[1] /\ c.ver = stands[n].to[2]
  <2> SUFFICES ASSUME NEW c \in F.claims
               PROVE  \/ \E p \in installed : c.name = p[1] /\ c.ver = p[2]
                      \/ \E n \in DOMAIN stands : stands[n].to # Local /\ c.name = stands[n].to[1] /\ c.ver = stands[n].to[2]
      OBVIOUS
  <2>1. \/ \E p \in installed : c.name = p[1] /\ c.ver = p[2]
        \/ \E p \in moved : c.name = to(p)[1] /\ c.ver = to(p)[2]
    <3>1. \/ \E p \in kept : c = Claim(p, Tier.DECLARED, marks(p))
          \/ \E p \in moved : c = Claim(to(p), Tier.DECLARED, {"replaces"})
          \/ \E p \in built : c = Claim(p, Tier.LOCKED, sum(p))
        BY <1>2
    <3>2. \/ \E p \in installed : c.name = p[1] /\ c.ver = p[2]
          \/ \E p \in moved : c.name = to(p)[1] /\ c.ver = to(p)[2]
          \/ \E p \in built : c.name = p[1] /\ c.ver = p[2]
        BY <1>1, <1>4, <3>1
    <3> QED
        BY <1>5, <3>2
  <2> QED
      BY <1>3, <2>1
<1>8. ASSUME NEW p \in installed, p[1] \in DOMAIN stands, stands[p[1]].to # Local
      PROVE  \E d \in F.edges : d.src = RefPurl(stands[p[1]].to) /\ d.dst = RefPurl(p)
  <2>1. p \in moved
      BY <1>3, <1>8
  <2> DEFINE d == Edge(RefPurl(to(p)), RefPurl(p), "resolved-from", FALSE)
  <2>2. d \in F.edges
      BY <1>2, <2>1
  <2>3. d.src = RefPurl(to(p)) /\ d.dst = RefPurl(p)
      BY DEF Edge
  <2> QED
      BY <2>2, <2>3
<1> QED
    BY <1>6, <1>7, <1>8 DEF built

\* So the modules that are built are listed, and nothing else.
LEMMA GoReads ==
    ASSUME WorldInv, NEW p \in Packages, NEW to \in Packages \cup {Local}, NEW was, NEW excluded,
           CatalogGo(p, to, was, excluded)
    PROVE  GoBuildIsListed'
<1>1. PICK stands, F :
        /\ stands = replace' /\ F = found'
        /\ UNCHANGED <<installed, needs, maybe, section, members>> /\ excluded \cap installed = {}
        /\ stands = IF to = p THEN << >> ELSE [n \in {p[1]} |-> [was |-> was, to |-> to]]
        /\ F = Both(GoMod(stands, excluded), Sums(stands))
  <2>1. \E stands, F : stands = replace' /\ F = found'
      OBVIOUS
  <2> QED
      BY <2>1 DEF CatalogGo, Sums
<1> DEFINE built == GoBuild(stands) \ {Local}
<1>2. \A n \in DOMAIN stands : n = p[1] /\ stands[n].to = to
  <2>1. DOMAIN << >> = {}
      OBVIOUS
  <2> QED
      BY <1>1, <2>1
<1>3. /\ installed' = installed /\ GraphEdges' = Graph(F) /\ GoBuild(replace)' = GoBuild(stands)
      /\ found' = F /\ replace' = stands
    BY <1>1 DEF GraphEdges, GoBuild, Replaces
<1>4. /\ \A q \in built \cup installed : \E c \in F.claims : c.name = q[1] /\ c.ver = q[2]
      /\ \A c \in F.claims :
           \/ \E q \in installed : c.name = q[1] /\ c.ver = q[2]
           \/ \E n \in DOMAIN stands : stands[n].to # Local /\ c.name = stands[n].to[1] /\ c.ver = stands[n].to[2]
      /\ \A q \in installed : q[1] \in DOMAIN stands /\ stands[q[1]].to # Local =>
           \E d \in F.edges : d.src = RefPurl(stands[q[1]].to) /\ d.dst = RefPurl(q)
  <2>1. excluded \cap installed = {} /\ F = Both(GoMod(stands, excluded), Sums(stands))
      BY <1>1
  <2> QED
      BY <2>1, GoIsRead
<1>5. \A q \in built : q \in Packages /\ (q \in installed \/ \E r \in installed : r[1] \in DOMAIN stands /\ q = stands[r[1]].to)
  <2> SUFFICES ASSUME NEW q \in built
               PROVE  q \in Packages /\ (q \in installed \/ \E r \in installed : r[1] \in DOMAIN stands /\ q = stands[r[1]].to)
      OBVIOUS
  <2>1. q # Local /\ \E r \in installed : q = IF Replaces(stands, r) /\ stands[r[1]].was \in {0, r[2]} THEN stands[r[1]].to ELSE r
      BY DEF GoBuild
  <2>2. q \in installed \/ \E r \in installed : r[1] \in DOMAIN stands /\ q = stands[r[1]].to
      BY <2>1 DEF Replaces
  <2> HIDE DEF built
  <2>3. (\E r \in installed : r[1] \in DOMAIN stands /\ q = stands[r[1]].to) => q \in {to}
      BY <1>2
  <2> QED
      BY <2>1, <2>2, <2>3 DEF WorldInv
<1>6. \A q \in built \cup installed : Resolve(F.claims, RefPurl(q)) = {q} /\ q \in Components(F.claims)
  <2>1. \A q \in built \cup installed : q \in Packages
      BY <1>5 DEF WorldInv
  <2> QED
      BY <1>4, <2>1, PurlResolves
<1>7. ASSUME NEW q \in built \ installed
      PROVE  \E r \in installed : <<q, r>> \in {<<e[1], e[2]>> : e \in Graph(F)}
  <2>1. PICK r \in installed : r[1] \in DOMAIN stands /\ q = stands[r[1]].to
      BY <1>5
  <2>2. PICK d \in F.edges : d.src = RefPurl(q) /\ d.dst = RefPurl(r)
      BY <1>4, <2>1
  <2>3. Resolve(F.claims, RefPurl(q)) = {q} /\ Resolve(F.claims, RefPurl(r)) = {r} /\ q # r
      BY <1>6
  <2> DEFINE e == <<q, r, d.scope, d.direct>>
  <2>4. e \in Graph(F)
      BY <2>2, <2>3, GraphIs
  <2>5. <<e[1], e[2]>> = <<q, r>>
      OBVIOUS
  <2> QED
      BY <2>4, <2>5
<1>8. ASSUME NEW x \in Components(F.claims)
      PROVE  x \in installed \cup {stands[n].to : n \in DOMAIN stands}
  <2>1. PICK c \in F.claims : x = <<c.name, c.ver>>
      BY ComponentIs
  <2>2. CASE \E q \in installed : c.name = q[1] /\ c.ver = q[2]
    <3>1. PICK q \in installed : c.name = q[1] /\ c.ver = q[2]
        BY <2>2
    <3>2. q = <<q[1], q[2]>>
        BY NamesTold DEF WorldInv
    <3> QED
        BY <2>1, <3>1, <3>2
  <2>3. CASE \E n \in DOMAIN stands : stands[n].to # Local /\ c.name = stands[n].to[1] /\ c.ver = stands[n].to[2]
    <3>1. PICK n \in DOMAIN stands : stands[n].to # Local /\ c.name = stands[n].to[1] /\ c.ver = stands[n].to[2]
        BY <2>3
    <3>2. stands[n].to \in Packages
        BY <1>2, <3>1
    <3>3. stands[n].to = <<stands[n].to[1], stands[n].to[2]>>
        BY <3>2, NamesTold
    <3> QED
        BY <2>1, <3>1, <3>3
  <2> QED
      BY <1>4, <2>2, <2>3
<1>9. /\ built \subseteq Components(F.claims)
      /\ \A q \in built \ installed : \E r \in installed : <<q, r>> \in {<<e[1], e[2]>> : e \in Graph(F)}
      /\ \A x \in Components(F.claims) : x \in installed \cup {stands[n].to : n \in DOMAIN stands}
    BY <1>6, <1>7, <1>8
<1> QED
    BY <1>3, <1>9 DEF GoBuildIsListed

(***************************************************************************)
(* A file is read once, and what it was read from stays                    *)
(***************************************************************************)

\* What a reading tells is told of what is installed: as long as that stays, so
\* does the rest.
LEMMA WorldStays ==
    ASSUME UNCHANGED world
    PROVE  /\ WorldInv = WorldInv' /\ AllNeeded = AllNeeded'
           /\ \A f : Listed(f)' = Listed(f)
           /\ \A l : Known(l)' = Known(l)
           /\ \A ref, p : Exactly(ref, p)' = Exactly(ref, p)
           /\ Projects' = Projects /\ NotMembers' = NotMembers /\ Stays' = Stays
           /\ OneVersionEach(installed)' = OneVersionEach(installed)
           /\ Required({"runtime"})' = Required({"runtime"})
<1>1. UNCHANGED <<installed, needs, maybe, section, members>>
    BY DEF world
<1>2. \A ref, p : Exactly(ref, p)' = Exactly(ref, p)
    BY <1>1 DEF Exactly, Lone
<1>3. \A f : Listed(f)' = Listed(f)
    BY <1>1 DEF Listed, NotMembers
<1>4. \A l : Known(l)' = Known(l)
    BY <1>1 DEF Known
<1>5. Projects' = Projects /\ NotMembers' = NotMembers
    BY <1>1 DEF Projects, NotMembers
<1>6. \A s : Required(s)' = Required(s)
    BY <1>1 DEF Required
<1>7. Stays' = Stays
    BY <1>1 DEF Stays, NeededBy, Required
<1>8. OneVersionEach(installed)' = OneVersionEach(installed)
    BY <1>1 DEF OneVersionEach
<1>9. AllNeeded' = AllNeeded
    BY <1>1 DEF AllNeeded, NeededBy, Required
<1>10. WorldInv' = WorldInv
    BY <1>1 DEF WorldInv, Lone, Required
<1> QED
    BY <1>2, <1>3, <1>4, <1>5, <1>6, <1>7, <1>8, <1>9, <1>10

\* So a reading goes on telling what it told.
LEMMA ReadingStays ==
    ASSUME UNCHANGED world, NEW f, NEW F, NEW l, Reads(f, F, l), format' = f, found' = F, later' = l
    PROVE  Reads(format, found, later)'
<1>1. UNCHANGED <<installed, needs, maybe, section, members>>
    BY DEF world
<1>2. Founded(f, F, l)'
    BY <1>1, WorldStays DEF Reads, Founded
<1>3. Complete(f, F)'
    BY <1>1, WorldStays DEF Reads, Complete
<1>4. Connected(f, F)'
    BY <1>1, WorldStays DEF Reads, Connected, Begun, Linked, Hung
<1>5. Alone(f, F, l)'
    BY <1>1, WorldStays DEF Reads, Alone
<1> QED
    BY <1>2, <1>3, <1>4, <1>5 DEF Reads

\* Until a file is read, what it will tell is nothing; then it tells of what is
\* installed, and a lock that lags is marked.
LockInv ==
    /\ WorldInv /\ AllNeeded
    /\ format = None => later = {}
    /\ format \notin {None, "go-mod"} => Reads(format, found, later)
    /\ GoBuildIsListed /\ StaleLockIsMarked

\* The files and the tools, none of which is a go.mod.
Readable == (Node \ {"npm-lock-v1", "npm-lock-v2"}) \cup (Python \ {"poetry-lock"}) \cup Other \cup Native

\* None of these is a go.mod or a poetry.lock.
LEMMA FilesAre ==
    /\ "npm-lock-v1" # None /\ "npm-lock-v2" # None /\ "poetry-lock" # None /\ "go-mod" # None
    /\ \A f \in Readable : f \notin {None, "go-mod", "poetry-lock"}
    /\ "npm-lock-v1" \notin Workspaces
    BY DEF Readable, Node, ManyVersions, Python, Other, Native, None, Workspaces

\* LockInv holds at the start.
LEMMA LockInvStarts == LockInit => LockInv
<1> SUFFICES ASSUME LockInit PROVE LockInv
    OBVIOUS
<1>1. format = None /\ later = {}
    BY DEF LockInit
<1>2. GoBuildIsListed /\ StaleLockIsMarked
    BY <1>1, FilesAre DEF GoBuildIsListed, StaleLockIsMarked
<1> QED
    BY <1>1, <1>2, WorldStarts, NeededStarts DEF LockInv

\* Before a file is read.
LEMMA PlanKeepsLockInv ==
    ASSUME LockInv, WorldInv', AllNeeded', format = None, UNCHANGED <<format, later>>
    PROVE  LockInv'
<1>1. format' = None /\ later' = {}
    BY DEF LockInv
<1>2. GoBuildIsListed' /\ StaleLockIsMarked'
    BY <1>1, FilesAre DEF GoBuildIsListed, StaleLockIsMarked
<1> QED
    BY <1>1, <1>2 DEF LockInv

\* A file is read.
LEMMA ReadKeepsLockInv ==
    ASSUME LockInv, UNCHANGED world, NEW f, f \notin {None, "go-mod"}, NEW F, NEW l, Reads(f, F, l),
           format' = f, found' = F, later' = l, StaleLockIsMarked'
    PROVE  LockInv'
<1>1. WorldInv' /\ AllNeeded'
    BY WorldStays DEF LockInv
<1>2. Reads(format, found, later)'
    BY ReadingStays
<1>3. GoBuildIsListed'
    BY DEF GoBuildIsListed
<1> QED
    BY <1>1, <1>2, <1>3 DEF LockInv

\* And after every step.
LEMMA LockInvNext ==
    ASSUME LockInv, [LockNext]_lockVars
    PROVE  LockInv'
<1> USE DEF LockInv
<1>1. ASSUME NEW p \in Packages, NEW s \in Section, Require(p, s) PROVE LockInv'
  <2>1. WorldInv'
      BY <1>1, RequireKeepsWorld
  <2>2. AllNeeded'
      BY <1>1, <2>1, RequireKeepsNeeded
  <2>3. format = None /\ UNCHANGED <<format, later>>
      BY <1>1 DEF Require
  <2> QED
      BY <2>1, <2>2, <2>3, PlanKeepsLockInv
<1>2. ASSUME NEW p \in Packages, NEW q \in Packages, NEW optional \in BOOLEAN, Need(p, q, optional) PROVE LockInv'
  <2>1. WorldInv'
      BY <1>2, NeedKeepsWorld
  <2>2. AllNeeded'
      BY <1>2, NeedKeepsNeeded
  <2>3. format = None /\ UNCHANGED <<format, later>>
      BY <1>2 DEF Need
  <2> QED
      BY <2>1, <2>2, <2>3, PlanKeepsLockInv
<1>3. ASSUME NEW p \in Packages, AddMember(p) PROVE LockInv'
  <2>1. WorldInv'
      BY <1>3, MemberKeepsWorld
  <2>2. format = None /\ UNCHANGED <<installed, needs, section, format, later>>
      BY <1>3 DEF AddMember
  <2>3. AllNeeded'
      BY <2>2 DEF AllNeeded, NeededBy, Required
  <2> QED
      BY <2>1, <2>2, <2>3, PlanKeepsLockInv
<1>4. ASSUME NEW f \in Node, CatalogNpm(f) PROVE LockInv'
  <2>1. /\ format = None /\ f \in {"npm-lock-v1", "npm-lock-v2"} /\ (f \in Workspaces \/ members = {})
        /\ format' = f /\ later' = {} /\ UNCHANGED world
      BY <1>4 DEF CatalogNpm, world
  <2>2. PICK tree \in Layouts :
          /\ f = "npm-lock-v1" => found' = Both(Manifests, NpmLockV1(tree))
          /\ f = "npm-lock-v2" => found' = Both(Manifests, NpmLockV2(tree))
      BY <1>4 DEF CatalogNpm, PackageJson
  <2>3. PICK F :
          /\ found' = F
          /\ f = "npm-lock-v1" => F = Both(Manifests, NpmLockV1(tree))
          /\ f = "npm-lock-v2" => F = Both(Manifests, NpmLockV2(tree))
      BY <2>1, <2>2, FilesAre
  <2>4. ASSUME f = "npm-lock-v1" PROVE Reads(f, F, {})
    <3>1. members = {}
        BY <2>1, <2>4, FilesAre
    <3>2. Reads("npm-lock-v1", Both(Manifests, NpmLockV1(tree)), {})
        BY <3>1, NpmV1Reads
    <3> QED
        BY <2>3, <2>4, <3>2
  <2>5. ASSUME f = "npm-lock-v2" PROVE Reads(f, F, {})
    <3>1. Reads("npm-lock-v2", Both(Manifests, NpmLockV2(tree)), {})
        BY NpmV2Reads
    <3> QED
        BY <2>3, <2>5, <3>1
  <2>6. Reads(f, F, {})
      BY <2>1, <2>4, <2>5
  <2>7. StaleLockIsMarked'
      BY <2>1, FilesAre DEF StaleLockIsMarked
  <2>8. f \notin {None, "go-mod"}
      BY <2>1, FilesAre
  <2> HIDE DEF LockInv
  <2> QED
      BY <2>1, <2>3, <2>6, <2>7, <2>8, ReadKeepsLockInv
<1>5. ASSUME NEW f \in Readable, Catalog(f) PROVE LockInv'
  <2>1. /\ format = None /\ (f \in ManyVersions \/ OneVersionEach(installed)) /\ (f \in Workspaces \/ members = {})
        /\ format' = f /\ found' = Reading(f) /\ later' = {} /\ UNCHANGED world
      BY <1>5 DEF Catalog, world
  <2>2. Reads(f, Reading(f), {})
      BY <2>1, ReadingReads DEF Readable
  <2>3. StaleLockIsMarked'
      BY <2>1, FilesAre DEF StaleLockIsMarked
  <2> QED
      BY <2>1, <2>2, <2>3, FilesAre, ReadKeepsLockInv
<1>6. ASSUME NEW p \in Packages, NEW s \in Section, CatalogPoetry(p, s) PROVE LockInv'
  <2>1. PICK required, l, F :
          /\ required = [q \in DOMAIN section \cup {p} |-> IF q \in DOMAIN section THEN section[q] ELSE s]
          /\ l = {<<q, s>> : q \in DOMAIN required \ DOMAIN section}
          /\ F = PoetryFinding(required)
          /\ later' = l /\ found' = F
      BY <1>6 DEF CatalogPoetry, PoetryFinding
  <2>2. format = None /\ OneVersionEach(installed) /\ members = {} /\ format' = "poetry-lock" /\ UNCHANGED world
      BY <1>6 DEF CatalogPoetry, world
  <2>3. /\ DOMAIN required = DOMAIN section \cup {p}
        /\ \A q \in DOMAIN section \cup {p} : required[q] = IF q \in DOMAIN section THEN section[q] ELSE s
        /\ l = IF p \in DOMAIN section THEN {} ELSE {<< p, s >>}
      BY <2>1, GainsOne
  <2>4. Reads("poetry-lock", PoetryFinding(required), l) /\ LagIsMarked(l, PoetryFinding(required))
      BY <2>2, <2>3, PoetryReads, PoetryMarks
  <2>5. StaleLockIsMarked'
      BY <2>1, <2>2, <2>4 DEF StaleLockIsMarked, LagIsMarked, world
  <2> QED
      BY <2>1, <2>2, <2>4, <2>5, FilesAre, ReadKeepsLockInv
<1>7. ASSUME NEW p \in Packages, NEW to \in Packages \cup {Local}, NEW was, NEW excluded, CatalogGo(p, to, was, excluded)
      PROVE  LockInv'
  <2>1. format' = "go-mod" /\ UNCHANGED world
      BY <1>7 DEF CatalogGo, world
  <2>2. WorldInv' /\ AllNeeded'
      BY <2>1, WorldStays
  <2>3. GoBuildIsListed'
      BY <1>7, GoReads
  <2>4. StaleLockIsMarked'
      BY <2>1 DEF StaleLockIsMarked
  <2> QED
      BY <2>1, <2>2, <2>3, <2>4, FilesAre
<1>8. CASE UNCHANGED lockVars
  <2>1. UNCHANGED world /\ UNCHANGED <<format, replace, later, found>>
      BY <1>8 DEF lockVars, world
  <2>2. WorldInv' /\ AllNeeded'
      BY <2>1, WorldStays
  <2>3. format \notin {None, "go-mod"} => Reads(format, found, later)'
      BY <2>1, ReadingStays
  <2>4. GoBuildIsListed'
      BY <2>1 DEF GoBuildIsListed, GraphEdges, GoBuild, Replaces, world
  <2>5. StaleLockIsMarked'
      BY <2>1 DEF StaleLockIsMarked, world
  <2> QED
      BY <2>1, <2>2, <2>3, <2>4, <2>5
<1> HIDE DEF LockInv
<1> QED
    BY <1>1, <1>2, <1>3, <1>4, <1>5, <1>6, <1>7, <1>8 DEF LockNext, Readable

\* What a package manager installed is what its file gives back (catalogers/).
THEOREM LockAlwaysReadBack == LockSpec => []LockIsReadBack
<1>1. LockInit => LockInv
    BY LockInvStarts
<1>2. LockInv /\ [LockNext]_lockVars => LockInv'
    BY LockInvNext
<1>3. LockInv => LockIsReadBack
  <2> SUFFICES ASSUME LockInv PROVE LockIsReadBack
      OBVIOUS
  <2>1. CASE format \in {None, "go-mod"}
    <3>1. GraphIsReadBack
        BY <2>1 DEF GraphIsReadBack
    <3>2. RuntimeIsReachable
      <4>1. format \notin Graphed
          BY <2>1 DEF Graphed, Exact, None
      <4> QED
          BY <4>1 DEF RuntimeIsReachable
    <3> QED
        BY <3>1, <3>2 DEF LockInv, LockIsReadBack
  <2>2. CASE format \notin {None, "go-mod"}
      BY <2>2, GraphFollows, RuntimeFollows DEF LockInv, LockIsReadBack
  <2> QED
      BY <2>1, <2>2
<1> QED
    BY <1>1, <1>2, <1>3, PTL DEF LockSpec
=============================================================================
