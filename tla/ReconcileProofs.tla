-------------------------- MODULE ReconcileProofs --------------------------
(***************************************************************************)
(* What is proved of reconciliation, for any claims, graphs and documents. *)
(*                                                                         *)
(* Buckets: the buckets of reconcile() are the finest partition that its   *)
(* reasons to merge allow, all of those reasons are honoured, and every    *)
(* claim is in the component its name and pin lead to.  Inv says that the  *)
(* table is a union-find table within each partition the reasons respect;  *)
(* PinInv what the components made so far owe to the claims.               *)
(*                                                                         *)
(* ScopeWalk: each walk reaches exactly the components that its roots lead *)
(* to.  While one runs only its frontier may have neighbours outside       *)
(* (ScopeInv); what is cut off from it by extras stays cut off (CutOffInv). *)
(*                                                                         *)
(* DocMerge: what merge_stores puts together is what chains of shared      *)
(* identity keys put together; and when no two documents have one label,   *)
(* every edge stays between the components its ends became, and an         *)
(* intersection is one.                                                    *)
(***************************************************************************)
EXTENDS Buckets, ScopeWalk, DocMerge, FiniteSetTheorems, WellFoundedInduction, TLAPS

-----------------------------------------------------------------------------
(* Identity *)

\* Every set of findings has a first one.  (Induction on the number of
\* findings, which the invariant below carries through Collect.)
HasLeast(D) == \A T \in SUBSET D : T # {} => \E x \in T : \A y \in T : x <= y

\* A union-find table: every finding leads to a root, which is not after it.
Table(r, D) ==
    /\ r \in [D -> D]
    /\ \A x \in D : r[r[x]] = r[x] /\ r[x] <= x

LEMMA LeastIsLeast ==
    ASSUME NEW D, HasLeast(D), NEW T \in SUBSET D, T # {}
    PROVE  Least(T) \in T /\ \A y \in T : Least(T) <= y
BY DEF HasLeast, Least

LEMMA NextHasLeast ==
    ASSUME NEW n \in Nat, HasLeast(1 .. n)
    PROVE  HasLeast(1 .. n + 1)
<1> SUFFICES ASSUME NEW T \in SUBSET (1 .. n + 1), T # {}
             PROVE  \E x \in T : \A y \in T : x <= y
    BY DEF HasLeast
<1>1. CASE T \cap (1 .. n) = {}
    <2>1. \A y \in T : y = n + 1
        BY <1>1
    <2>2. PICK x \in T : TRUE
        OBVIOUS
    <2>3. x \in Int /\ \A y \in T : x <= y
        BY <2>1
    <2> QED BY <2>2, <2>3
<1>2. CASE T \cap (1 .. n) # {}
    <2>1. PICK x \in T \cap (1 .. n) : \A y \in T \cap (1 .. n) : x <= y
        BY <1>2 DEF HasLeast
    <2>2. \A y \in T : y \in 1 .. n \/ y = n + 1
        OBVIOUS
    <2> QED BY <2>1, <2>2
<1> QED BY <1>1, <1>2

\* The union keeps the table a table and joins exactly the buckets it was
\* given.
LEMMA MergeJoins ==
    ASSUME NEW D \in SUBSET Nat, HasLeast(D), NEW r, Table(r, D), NEW S \in SUBSET D, S # {}
    PROVE  /\ Table(Merge(r, S), D)
           /\ \A x, y \in D : Merge(r, S)[x] = Merge(r, S)[y] <=>
                  \/ r[x] = r[y]
                  \/ (\E a \in S : r[x] = r[a]) /\ (\E b \in S : r[y] = r[b])
<1> DEFINE R == {r[x] : x \in S}
           l == Least(R)
<1>1. R \in SUBSET D /\ R # {}
    BY DEF Table
<1>2. l \in R /\ \A y \in R : l <= y
    BY <1>1, LeastIsLeast
<1>3. Merge(r, S) = [x \in D |-> IF r[x] \in R THEN l ELSE r[x]]
    BY DEF Merge, Table
<1>4. \A x \in D : r[x] \in R <=> \E a \in S : r[x] = r[a]
    OBVIOUS
<1>5. r[l] = l
    BY <1>2 DEF Table
<1> HIDE DEF R, l
<1>6. \A x \in D : r[x] \in D /\ r[r[x]] = r[x] /\ r[x] <= x
    BY DEF Table
<1>7. l \in D
    BY <1>1, <1>2
<1>8. Table(Merge(r, S), D)
    <2>1. Merge(r, S) \in [D -> D]
        BY <1>3, <1>6, <1>7
    <2>2. ASSUME NEW x \in D
          PROVE  Merge(r, S)[Merge(r, S)[x]] = Merge(r, S)[x] /\ Merge(r, S)[x] <= x
        <3>1. CASE r[x] \in R
            <4>1. Merge(r, S)[x] = l /\ Merge(r, S)[l] = l
                BY <3>1, <1>2, <1>3, <1>5, <1>7
            <4>2. l <= r[x] /\ r[x] <= x
                BY <3>1, <1>2, <1>6
            <4>3. l \in Nat /\ r[x] \in Nat /\ x \in Nat
                BY <1>6, <1>7
            <4> QED BY <4>1, <4>2, <4>3
        <3>2. CASE r[x] \notin R
            BY <3>2, <1>3, <1>6
        <3> QED BY <3>1, <3>2
    <2> QED BY <2>1, <2>2 DEF Table
<1>9. ASSUME NEW x \in D, NEW y \in D
      PROVE  Merge(r, S)[x] = Merge(r, S)[y] <=> r[x] = r[y] \/ (r[x] \in R /\ r[y] \in R)
    BY <1>2, <1>3
<1> QED BY <1>4, <1>8, <1>9

\* A union on one side of S leaves no bucket across the border of S.
LEMMA MergeRespects ==
    ASSUME NEW D \in SUBSET Nat, HasLeast(D), NEW r, Table(r, D), NEW M \in SUBSET D, M # {},
           NEW S, Respects(r, S), M \subseteq S \/ M \cap S = {}
    PROVE  Respects(Merge(r, M), S)
<1>1. DOMAIN r = D /\ DOMAIN Merge(r, M) = D
    BY DEF Table, Merge
<1>2. SUFFICES ASSUME NEW x \in D, NEW y \in D, Merge(r, M)[x] = Merge(r, M)[y]
               PROVE  x \in S <=> y \in S
    BY <1>1 DEF Respects
<1>3. CASE r[x] = r[y]
    BY <1>1, <1>3 DEF Respects
<1>4. CASE \E a, b \in M : r[x] = r[a] /\ r[y] = r[b]
    <2>1. PICK a \in M, b \in M : r[x] = r[a] /\ r[y] = r[b]
        BY <1>4
    <2>2. (x \in S <=> a \in S) /\ (y \in S <=> b \in S)
        BY <1>1, <2>1 DEF Respects
    <2>3. a \in S <=> b \in S
        OBVIOUS
    <2> QED BY <2>2, <2>3
<1> QED BY <1>2, <1>3, <1>4, MergeJoins

---------------------------------------------------------------------------
Sound ==
    /\ claims \in Seq(Claim)
    /\ HasLeast(Finding)
    /\ Table(root, Finding)
    /\ \A k \in DOMAIN byKey : byKey[k] \in Finding /\ k \in Keys(claims[byKey[k]])
    /\ cursor \in Nat \ {0}

\* While findings arrive only keys merge them; a claim that comes later may
\* make a family's concrete claims several, so the other reasons are judged
\* only when all findings are there.
Justified ==
    /\ phase = "keys" => \A S \in SUBSET Finding : KeysClosed(S) => Respects(root, S)
    /\ phase # "keys" => MergedForAReason

KeysHonoured ==
    \A i \in Finding : \A k \in Keys(claims[i]) :
        k \in DOMAIN byKey /\ root[byKey[k]] = root[i]

SlotsHonoured ==
    \A i, j \in Finding :
        /\ SameSlot(claims[i], claims[j])
        /\ phase \in {"attach", "pin", "done"} \/ (phase = "families" /\ i < cursor /\ j < cursor)
        => root[i] = root[j]

SiblingsHonoured ==
    \A i, j \in Finding :
        /\ claims[i].fam = claims[j].fam /\ claims[i].ver = 0 /\ claims[j].ver = 0
        /\ phase \in {"pin", "done"} \/ (phase = "attach" /\ claims[i].fam < cursor)
        => root[i] = root[j]

Inv == Sound /\ Justified /\ KeysHonoured /\ SlotsHonoured /\ SiblingsHonoured

LEMMA InitInv == Init => Inv
<1> SUFFICES ASSUME Init PROVE Inv
    OBVIOUS
<1>1. claims = <<>> /\ Len(claims) = 0 /\ Finding = {} /\ root = <<>> /\ DOMAIN root = {}
    BY DEF Init, Finding
<1>2. Sound
    <2>1. HasLeast(Finding)
        BY <1>1 DEF HasLeast
    <2>2. Table(root, Finding)
        BY <1>1 DEF Table
    <2> QED BY <1>1, <2>1, <2>2 DEF Sound, Init
<1>3. Justified
    BY <1>1 DEF Justified, Init, Respects
<1>4. KeysHonoured /\ SlotsHonoured /\ SiblingsHonoured
    BY <1>1 DEF KeysHonoured, SlotsHonoured, SiblingsHonoured
<1> QED BY <1>2, <1>3, <1>4 DEF Inv

\* A union of findings keeps what earlier unions joined.
LEMMA MergeSound ==
    ASSUME Inv, NEW M \in SUBSET Finding, M # {}
    PROVE  /\ Finding \in SUBSET Nat
           /\ Table(Merge(root, M), Finding)
           /\ \A x, y \in Finding : root[x] = root[y] => Merge(root, M)[x] = Merge(root, M)[y]
           /\ \A x, y \in M : Merge(root, M)[x] = Merge(root, M)[y]
<1>1. Finding \in SUBSET Nat /\ HasLeast(Finding) /\ Table(root, Finding)
    BY DEF Inv, Sound, Finding
<1> QED BY <1>1, MergeJoins

LEMMA CollectInv ==
    ASSUME Inv, NEW c \in Claim, Collect(c)
    PROVE  Inv'
<1>1. PICK n \in Nat : n = Len(claims) /\ claims \in Seq(Claim)
    BY DEF Inv, Sound
<1> DEFINE i == n + 1
           D == 1 .. i
           known == {byKey[k] : k \in Keys(c) \cap DOMAIN byKey}
           r == WithOwnBucket(root, i)
           M == known \cup {i}
<1>2. /\ Finding = 1 .. n
      /\ claims' = Append(claims, c) /\ Len(claims') = i /\ Finding' = D
      /\ \A x \in Finding : claims'[x] = claims[x] /\ x \in D /\ x # i
      /\ claims'[i] = c /\ claims' \in Seq(Claim)
      /\ \A x \in D : x = i \/ x \in Finding
    BY <1>1 DEF Collect, Finding
<1>3. root' = Merge(r, M) /\ byKey' = SetDefault(byKey, Keys(c), i)
    BY <1>1 DEF Collect
<1>4. phase = "keys" /\ phase' = "keys" /\ cursor' = cursor
    BY DEF Collect
<1>5. HasLeast(D) /\ D \in SUBSET Nat
    BY <1>2, NextHasLeast DEF Inv, Sound
<1>6. Table(root, Finding)
    BY DEF Inv, Sound
<1>7. /\ r = [x \in D |-> IF x = i THEN i ELSE root[x]]
      /\ Table(r, D)
    <2>1. r = [x \in D |-> IF x = i THEN i ELSE root[x]]
        <3>1. DOMAIN root \cup {i} = D
            BY <1>2, <1>6 DEF Table
        <3> QED BY <3>1 DEF WithOwnBucket
    <2>2. \A x \in Finding : r[x] = root[x] /\ root[x] \in Finding /\ r[root[x]] = root[x] /\ root[x] <= x
        BY <1>2, <1>6, <2>1 DEF Table
    <2>3. r[i] = i /\ i \in D
        BY <2>1
    <2>4. r \in [D -> D]
        BY <2>1, <2>2, <2>3, <1>2
    <2>5. \A x \in D : r[r[x]] = r[x] /\ r[x] <= x
        BY <2>2, <2>3, <1>2
    <2> QED BY <2>1, <2>4, <2>5 DEF Table
<1>8. known \in SUBSET Finding /\ M \in SUBSET D /\ M # {}
    BY <1>2 DEF Inv, Sound
<1> HIDE DEF r, M, D, i
<1>9. /\ Table(root', D)
      /\ \A x, y \in D : root'[x] = root'[y] <=>
             \/ r[x] = r[y]
             \/ (\E a \in M : r[x] = r[a]) /\ (\E b \in M : r[y] = r[b])
    <2>1. /\ Table(Merge(r, M), D)
          /\ \A x, y \in D : Merge(r, M)[x] = Merge(r, M)[y] <=>
                 \/ r[x] = r[y]
                 \/ (\E a \in M : r[x] = r[a]) /\ (\E b \in M : r[y] = r[b])
        <3>1. D \in SUBSET Nat /\ HasLeast(D) /\ Table(r, D) /\ M \in SUBSET D /\ M # {}
            BY <1>5, <1>7, <1>8
        <3> QED BY <3>1, MergeJoins
    <2> QED BY <1>3, <2>1
<1>10. \A k \in DOMAIN byKey' :
         /\ byKey'[k] \in Finding'
         /\ k \in Keys(claims'[byKey'[k]])
         /\ k \in DOMAIN byKey => byKey'[k] = byKey[k]
         /\ k \notin DOMAIN byKey => byKey'[k] = i /\ k \in Keys(c)
    <2>1. \A k \in DOMAIN byKey : byKey[k] \in Finding /\ k \in Keys(claims[byKey[k]])
        BY DEF Inv, Sound
    <2>2. DOMAIN byKey' = DOMAIN byKey \cup Keys(c)
        BY <1>3 DEF SetDefault
    <2>3. \A k \in DOMAIN byKey' : byKey'[k] = IF k \in DOMAIN byKey THEN byKey[k] ELSE i
        BY <1>3 DEF SetDefault
    <2>4. i \in D
        BY DEF D, i
    <2> QED BY <1>2, <2>1, <2>2, <2>3, <2>4
<1>11. Sound'
    BY <1>2, <1>4, <1>5, <1>9, <1>10 DEF Inv, Sound
<1>12. Justified'
    <2>1. SUFFICES ASSUME NEW S \in SUBSET D, KeysClosed(S)'
                   PROVE  Respects(root', S)
        BY <1>2, <1>4 DEF Justified
    <2>2. i \in D /\ \A x \in Finding : x \in D
        BY <1>2 DEF D, i
    <2>3. KeysClosed(S \cap Finding)
        BY <1>2, <2>1, <2>2 DEF KeysClosed
    <2>4. Respects(root, S \cap Finding)
        BY <1>4, <2>3 DEF Inv, Justified
    <2>5. Respects(r, S)
        <3>1. SUFFICES ASSUME NEW x \in D, NEW y \in D, r[x] = r[y]
                       PROVE  x \in S <=> y \in S
            BY <1>7 DEF Respects
        <3>2. \A z \in Finding : r[z] = root[z] /\ root[z] \in Finding /\ root[z] # i
            BY <1>2, <1>6, <1>7, <2>2 DEF Table
        <3>3. r[i] = i
            BY <1>7, <2>2
        <3>4. CASE x \in Finding /\ y \in Finding
            <4>1. DOMAIN root = Finding /\ root[x] = root[y]
                BY <1>6, <3>1, <3>2, <3>4 DEF Table
            <4> QED BY <2>4, <3>4, <4>1 DEF Respects
        <3>5. CASE x = i \/ y = i
            BY <3>1, <3>2, <3>3, <3>5, <1>2
        <3> QED BY <3>4, <3>5, <1>2
    <2>6. M \subseteq S \/ M \cap S = {}
        <3>1. \A j \in known : j \in Finding /\ Keys(claims'[j]) \cap Keys(claims'[i]) # {}
            BY <1>2 DEF Inv, Sound
        <3>2. \A j \in known : j \in S <=> i \in S
            BY <2>1, <2>2, <3>1, <1>2 DEF KeysClosed
        <3> QED BY <3>2 DEF M
    <2> QED BY <1>3, <1>5, <1>7, <1>8, <2>5, <2>6, MergeRespects
<1>13. KeysHonoured'
    <2>1. SUFFICES ASSUME NEW x \in D, NEW k \in Keys(claims'[x])
                   PROVE  k \in DOMAIN byKey' /\ root'[byKey'[k]] = root'[x]
        BY <1>2 DEF KeysHonoured
    <2>2. DOMAIN byKey' = DOMAIN byKey \cup Keys(c)
        BY <1>3 DEF SetDefault
    <2>3. CASE x = i
        <3>1. k \in Keys(c)
            BY <2>1, <2>3, <1>2
        <3>2. CASE k \in DOMAIN byKey
            <4>1. byKey'[k] \in known
                BY <1>10, <2>2, <3>1, <3>2
            <4>2. byKey'[k] \in M /\ x \in M /\ byKey'[k] \in D
                BY <4>1, <2>3, <1>8 DEF M
            <4> QED BY <1>9, <2>2, <3>2, <4>2
        <3>3. CASE k \notin DOMAIN byKey
            BY <1>10, <2>2, <2>3, <3>1, <3>3
        <3> QED BY <3>2, <3>3
    <2>4. CASE x \in Finding
        <3>1. k \in DOMAIN byKey /\ root[byKey[k]] = root[x] /\ byKey[k] \in Finding
            BY <2>4, <1>2 DEF Inv, Sound, KeysHonoured
        <3>2. r[x] = root[x] /\ r[byKey[k]] = root[byKey[k]]
            BY <1>2, <1>7, <2>4, <3>1
        <3>3. byKey'[k] = byKey[k] /\ byKey[k] \in D
            BY <1>2, <1>10, <2>2, <3>1
        <3> QED BY <1>9, <2>2, <3>1, <3>2, <3>3
    <2> QED BY <2>3, <2>4, <1>2
<1>14. SlotsHonoured' /\ SiblingsHonoured'
    BY <1>4 DEF SlotsHonoured, SiblingsHonoured
<1> QED BY <1>11, <1>12, <1>13, <1>14 DEF Inv

\* The reasons to merge depend on the claims alone.
LEMMA ClosedKept ==
    ASSUME claims' = claims, NEW T, Closed(T)'
    PROVE  Closed(T)
<1>1. Finding' = Finding
    BY DEF Finding
<1>2. \A f : Unresolved(f)' = Unresolved(f) /\ Concrete(f)' = Concrete(f)
    BY <1>1 DEF Unresolved, Concrete
<1>3. KeysClosed(T) /\ SlotsClosed(T)
    BY <1>1 DEF Closed, KeysClosed, SlotsClosed
<1>4. FamiliesClosed(T)
    BY <1>2 DEF Closed, FamiliesClosed
<1> QED BY <1>3, <1>4 DEF Closed

\* A step that touches neither claims nor table and leaves a loop at its end.
LEMMA PhaseInv ==
    ASSUME Inv, UNCHANGED <<claims, root, byKey>>, cursor' \in Nat \ {0},
           phase # "keys" => phase' # "keys",
           phase' # "keys",
           phase' \in {"attach", "pin", "done"} =>
               \/ phase \in {"attach", "pin", "done"}
               \/ phase = "families" /\ cursor \notin Finding,
           phase' = "families" => cursor' = 1,
           phase' = "attach" => cursor' = 1,
           phase' \in {"pin", "done"} =>
               \/ phase \in {"pin", "done"}
               \/ phase = "attach" /\ cursor \notin Family
    PROVE  Inv'
<1>1. PICK n \in Nat : n = Len(claims) /\ claims \in Seq(Claim)
    BY DEF Inv, Sound
<1>2. Finding = 1 .. n /\ Finding' = Finding /\ claims' = claims /\ root' = root /\ byKey' = byKey
    BY <1>1 DEF Finding
<1>3. Sound'
    BY <1>2 DEF Inv, Sound
<1>4. Justified'
    <2>1. ASSUME NEW S \in SUBSET Finding, Closed(S)
          PROVE  Respects(root, S)
        BY <2>1 DEF Inv, Justified, Closed, MergedForAReason
    <2>2. MergedForAReason
        BY <2>1 DEF MergedForAReason
    <2>3. MergedForAReason'
        BY <1>2, <2>2, ClosedKept DEF MergedForAReason
    <2> QED BY <2>3 DEF Justified
<1>5. KeysHonoured'
    BY <1>2 DEF Inv, KeysHonoured
<1>6. SlotsHonoured'
    <2>1. SUFFICES ASSUME NEW i \in Finding, NEW j \in Finding, SameSlot(claims[i], claims[j]),
                          phase' \in {"attach", "pin", "done"}
                              \/ (phase' = "families" /\ i < cursor' /\ j < cursor')
                   PROVE  root[i] = root[j]
        BY <1>2 DEF SlotsHonoured
    <2>2. phase' # "families"
        BY <1>2, <2>1
    <2>3. CASE phase \in {"attach", "pin", "done"}
        BY <2>1, <2>3 DEF Inv, SlotsHonoured
    <2>4. CASE phase = "families" /\ cursor \notin Finding
        <3>1. cursor \in Nat \ {0}
            BY DEF Inv, Sound
        <3>2. (i < cursor /\ j < cursor)
            BY <1>2, <2>4, <3>1
        <3> QED BY <2>1, <2>4, <3>2 DEF Inv, SlotsHonoured
    <2> QED BY <2>1, <2>2, <2>3, <2>4
<1>7. SiblingsHonoured'
    <2>1. SUFFICES ASSUME NEW i \in Finding, NEW j \in Finding,
                          claims[i].fam = claims[j].fam, claims[i].ver = 0, claims[j].ver = 0,
                          phase' \in {"pin", "done"} \/ (phase' = "attach" /\ claims[i].fam < cursor')
                   PROVE  root[i] = root[j]
        BY <1>2 DEF SiblingsHonoured
    <2>2. claims[i].fam \in Family /\ Families \in Nat
        BY <1>1, <1>2, BucketsAssumption
    <2>3. phase' # "attach"
        BY <2>1, <2>2 DEF Family
    <2>4. CASE phase \in {"pin", "done"}
        BY <2>1, <2>4 DEF Inv, SiblingsHonoured
    <2>5. CASE phase = "attach" /\ cursor \notin Family
        <3>1. cursor \in Nat \ {0}
            BY DEF Inv, Sound
        <3>2. claims[i].fam < cursor
            BY <2>2, <2>5, <3>1 DEF Family
        <3> QED BY <2>1, <2>5, <3>2 DEF Inv, SiblingsHonoured
    <2> QED BY <2>1, <2>3, <2>4, <2>5
<1> QED BY <1>3, <1>4, <1>5, <1>6, <1>7 DEF Inv

LEMMA MergeFamilyInv ==
    ASSUME Inv, MergeFamily
    PROVE  Inv'
<1>1. PICK n \in Nat : n = Len(claims) /\ claims \in Seq(Claim)
    BY DEF Inv, Sound
<1> DEFINE M == {cursor} \cup {j \in Finding : j < cursor /\ SameSlot(claims[j], claims[cursor])}
<1>2. /\ Finding = 1 .. n /\ Finding' = Finding /\ claims' = claims /\ byKey' = byKey
      /\ phase = "families" /\ phase' = "families" /\ cursor' = cursor + 1
      /\ cursor \in Finding /\ root' = Merge(root, M)
    BY <1>1 DEF MergeFamily, Finding
<1>3. M \in SUBSET Finding /\ M # {}
    BY <1>2
<1>4. \A j \in M : j = cursor \/ (j < cursor /\ SameSlot(claims[j], claims[cursor]))
    OBVIOUS
<1>5. \A j \in Finding : j < cursor /\ SameSlot(claims[j], claims[cursor]) => j \in M
    OBVIOUS
<1>6. cursor \in M
    OBVIOUS
<1> HIDE DEF M
<1>7. /\ Table(root', Finding)
      /\ \A x, y \in Finding : root[x] = root[y] => root'[x] = root'[y]
      /\ \A x, y \in M : root'[x] = root'[y]
    BY <1>2, <1>3, MergeSound
<1>8. Sound'
    BY <1>2, <1>7 DEF Inv, Sound
<1>9. Justified'
    <2>1. SUFFICES ASSUME NEW S \in SUBSET Finding, Closed(S)
                   PROVE  Respects(root', S)
        <3>1. SUFFICES MergedForAReason'
            BY <1>2 DEF Justified
        <3>2. SUFFICES ASSUME NEW T \in SUBSET Finding, Closed(T)'
                       PROVE  Respects(root', T)
            BY <1>2 DEF MergedForAReason
        <3>3. Closed(T)
            BY <1>2, <3>2, ClosedKept
        <3> QED BY <2>1, <3>3
    <2>2. Respects(root, S)
        BY <1>2, <2>1 DEF Inv, Justified, MergedForAReason
    <2>3. M \subseteq S \/ M \cap S = {}
        <3>1. \A j \in M : j \in S <=> cursor \in S
            BY <1>2, <1>3, <1>4, <2>1 DEF Closed, SlotsClosed
        <3> QED BY <3>1
    <2>4. Finding \in SUBSET Nat /\ HasLeast(Finding) /\ Table(root, Finding)
        BY <1>2 DEF Inv, Sound
    <2> QED BY <1>2, <1>3, <2>2, <2>3, <2>4, MergeRespects
<1>10. KeysHonoured'
    <2>1. \A k \in DOMAIN byKey : byKey[k] \in Finding
        BY DEF Inv, Sound
    <2> QED BY <1>2, <1>7, <2>1 DEF Inv, KeysHonoured
<1>11. SlotsHonoured'
    <2>1. SUFFICES ASSUME NEW i \in Finding, NEW j \in Finding, SameSlot(claims[i], claims[j]),
                          i < cursor + 1, j < cursor + 1
                   PROVE  root'[i] = root'[j]
        BY <1>2 DEF SlotsHonoured
    <2>2. SameSlot(claims[j], claims[i])
        BY <2>1 DEF SameSlot
    <2>3. CASE i < cursor /\ j < cursor
        BY <1>2, <1>7, <2>1, <2>3 DEF Inv, SlotsHonoured
    <2>4. CASE i = cursor \/ j = cursor
        <3>1. i \in M /\ j \in M
            BY <1>2, <1>5, <1>6, <2>1, <2>2, <2>4
        <3> QED BY <1>7, <3>1
    <2> QED BY <1>2, <2>1, <2>3, <2>4
<1>12. SiblingsHonoured'
    BY <1>2 DEF SiblingsHonoured
<1> QED BY <1>8, <1>9, <1>10, <1>11, <1>12 DEF Inv

LEMMA AttachInv ==
    ASSUME Inv, Attach
    PROVE  Inv'
<1>1. PICK n \in Nat : n = Len(claims) /\ claims \in Seq(Claim)
    BY DEF Inv, Sound
<1> DEFINE U == Unresolved(cursor)
           C == Concrete(cursor)
           s == Merge(root, U)
           concrete == {s[i] : i \in C}
<1>2. /\ Finding = 1 .. n /\ Finding' = Finding /\ claims' = claims /\ byKey' = byKey
      /\ phase = "attach" /\ phase' = "attach" /\ cursor' = cursor + 1
      /\ cursor \in Family /\ cursor \in Nat \ {0}
    BY <1>1 DEF Attach, Finding, Inv, Sound
<1>3. /\ U = {} => root' = root
      /\ U # {} => root' = s \/ (root' = Merge(s, U \cup C) /\ Cardinality(concrete) = 1)
    BY DEF Attach
<1>4. U \in SUBSET Finding /\ C \in SUBSET Finding
    BY DEF Unresolved, Concrete
<1>5. \A i \in Finding : i \in U <=> claims[i].fam = cursor /\ claims[i].ver = 0
    BY DEF Unresolved
<1>6. Finding \in SUBSET Nat /\ HasLeast(Finding) /\ Table(root, Finding)
    BY <1>2 DEF Inv, Sound
<1> HIDE DEF U, C, s
<1>8. U # {} =>
        /\ Table(s, Finding)
        /\ \A x, y \in Finding : root[x] = root[y] => s[x] = s[y]
        /\ \A x, y \in U : s[x] = s[y]
    BY <1>4, MergeSound DEF s
<1>9. U # {} /\ Cardinality(concrete) = 1 => C # {} /\ \A i, j \in C : s[i] = s[j]
    <2>1. U # {} => concrete \subseteq Finding
        BY <1>4, <1>8 DEF Table
    <2>2. U # {} => IsFiniteSet(concrete)
        <3>1. IsFiniteSet(Finding)
            BY <1>2, FS_Interval
        <3> HIDE DEF concrete
        <3> QED BY <2>1, <3>1, FS_Subset
    <2>3. U # {} /\ Cardinality(concrete) = 1 => \E x : concrete = {x}
        BY <2>2, FS_Singleton
    <2> QED BY <2>3
<1> HIDE DEF concrete
<1>10. /\ Table(root', Finding)
       /\ \A x, y \in Finding : root[x] = root[y] => root'[x] = root'[y]
       /\ \A x, y \in U : root'[x] = root'[y]
    <2>1. CASE U = {} \/ root' = s
        BY <1>3, <1>6, <1>8, <2>1
    <2>2. CASE U # {} /\ root' = Merge(s, U \cup C)
        <3>1. U \cup C \in SUBSET Finding /\ U \cup C # {} /\ Table(s, Finding)
            BY <1>4, <1>8, <2>2
        <3>2. /\ Table(Merge(s, U \cup C), Finding)
              /\ \A x, y \in Finding : s[x] = s[y] => Merge(s, U \cup C)[x] = Merge(s, U \cup C)[y]
            BY <1>6, <3>1, MergeJoins
        <3> QED BY <1>4, <1>8, <2>2, <3>2
    <2> QED BY <1>3, <2>1, <2>2
<1>11. Sound'
    BY <1>2, <1>10 DEF Inv, Sound
<1>12. Justified'
    <2>1. SUFFICES ASSUME NEW S \in SUBSET Finding, Closed(S)
                   PROVE  Respects(root', S)
        <3>1. SUFFICES MergedForAReason'
            BY <1>2 DEF Justified
        <3>2. SUFFICES ASSUME NEW T \in SUBSET Finding, Closed(T)'
                       PROVE  Respects(root', T)
            BY <1>2 DEF MergedForAReason
        <3>3. Closed(T)
            BY <1>2, <3>2, ClosedKept
        <3> QED BY <2>1, <3>3
    <2>2. Respects(root, S)
        BY <1>2, <2>1 DEF Inv, Justified, MergedForAReason
    <2>3. /\ U \subseteq S \/ U \cap S = {}
          /\ C # {} /\ C \subseteq S => U \subseteq S
          /\ C # {} /\ C \cap S = {} => U \cap S = {}
        BY <1>2, <2>1 DEF Closed, FamiliesClosed, U, C
    <2>4. U # {} => Respects(s, S)
        BY <1>4, <1>6, <2>2, <2>3, MergeRespects DEF s
    <2>5. CASE U = {} \/ root' = s
        BY <1>3, <2>2, <2>4, <2>5
    <2>6. CASE U # {} /\ root' = Merge(s, U \cup C) /\ Cardinality(concrete) = 1
        <3>1. C # {} /\ \A i, j \in C : s[i] = s[j]
            BY <1>9, <2>6
        <3>2. DOMAIN s = Finding
            BY <1>8, <2>6 DEF Table
        <3>3. C \subseteq S \/ C \cap S = {}
            BY <1>4, <2>4, <2>6, <3>1, <3>2 DEF Respects
        <3>4. U \cup C \subseteq S \/ (U \cup C) \cap S = {}
            BY <2>3, <3>1, <3>3
        <3>5. U \cup C \in SUBSET Finding /\ U \cup C # {} /\ Table(s, Finding)
            BY <1>4, <1>8, <2>6
        <3>6. Respects(Merge(s, U \cup C), S)
            BY <1>6, <2>4, <2>6, <3>4, <3>5, MergeRespects
        <3> QED BY <2>6, <3>6
    <2> QED BY <1>3, <2>5, <2>6
<1>13. KeysHonoured'
    <2>1. \A k \in DOMAIN byKey : byKey[k] \in Finding
        BY DEF Inv, Sound
    <2> QED BY <1>2, <1>10, <2>1 DEF Inv, KeysHonoured
<1>14. SlotsHonoured'
    BY <1>2, <1>10 DEF Inv, SlotsHonoured
<1>15. SiblingsHonoured'
    <2>1. SUFFICES ASSUME NEW i \in Finding, NEW j \in Finding,
                          claims[i].fam = claims[j].fam, claims[i].ver = 0, claims[j].ver = 0,
                          claims[i].fam < cursor + 1
                   PROVE  root'[i] = root'[j]
        BY <1>2 DEF SiblingsHonoured
    <2>2. claims[i].fam \in Nat
        BY <1>1, <1>2, BucketsAssumption DEF Family
    <2>3. CASE claims[i].fam < cursor
        BY <1>2, <1>10, <2>1, <2>3 DEF Inv, SiblingsHonoured
    <2>4. CASE claims[i].fam = cursor
        BY <1>5, <1>10, <2>1, <2>4
    <2> QED BY <1>2, <2>1, <2>2, <2>3, <2>4
<1> QED BY <1>11, <1>12, <1>13, <1>14, <1>15 DEF Inv

LEMMA NextInv == Inv /\ [Next]_vars => Inv'
<1> SUFFICES ASSUME Inv, [Next]_vars PROVE Inv'
    OBVIOUS
<1>1. CASE \E c \in Claim : Collect(c)
    BY <1>1, CollectInv
<1>2. CASE Collected
    BY <1>2, PhaseInv DEF Collected
<1>3. CASE MergeFamily
    BY <1>3, MergeFamilyInv
<1>4. CASE FamiliesMerged
    BY <1>4, PhaseInv DEF FamiliesMerged
<1>5. CASE Attach
    BY <1>5, AttachInv
<1>6. cursor \in Nat \ {0}
    BY DEF Inv, Sound
<1>7. CASE Attached
    BY <1>6, <1>7, PhaseInv DEF Attached
<1>8. CASE Pin
    BY <1>6, <1>8, PhaseInv DEF Pin
<1>9. CASE MarkAmbiguous
    BY <1>6, <1>9, PhaseInv DEF MarkAmbiguous
<1>10. CASE UNCHANGED vars
    <2>1. /\ claims' = claims /\ root' = root /\ byKey' = byKey /\ phase' = phase
          /\ cursor' = cursor /\ Finding' = Finding
        BY <1>10 DEF vars, Finding
    <2>2. Sound'
        BY <2>1 DEF Inv, Sound
    <2>3. Justified'
        <3>1. phase = "keys" => \A S \in SUBSET Finding : KeysClosed(S)' => KeysClosed(S)
            BY <2>1 DEF KeysClosed
        <3> QED BY <2>1, <3>1, ClosedKept DEF Inv, Justified, MergedForAReason
    <2>4. KeysHonoured' /\ SlotsHonoured' /\ SiblingsHonoured'
        BY <2>1 DEF Inv, KeysHonoured, SlotsHonoured, SiblingsHonoured
    <2> QED BY <2>2, <2>3, <2>4 DEF Inv
<1> QED BY <1>1, <1>2, <1>3, <1>4, <1>5, <1>7, <1>8, <1>9, <1>10 DEF Next

\* No bucket joins findings without a reason: a set of findings that no
\* shared key, slot or family connects to the rest is never merged with it.
THEOREM BucketsAreJustified == Spec => []MergedForAReason
<1>1. Inv => MergedForAReason
    <2>1. Inv => \A S \in SUBSET Finding : Closed(S) => Respects(root, S)
        BY DEF Inv, Justified, MergedForAReason, Closed
    <2> QED BY <2>1 DEF MergedForAReason
<1> QED BY <1>1, InitInv, NextInv, PTL DEF Spec

\* When the components are made, whatever shares a key, a slot of an
\* environment or an unresolved family is one component.
THEOREM ThingsAreReportedOnce == Spec => []OneComponentPerThing
<1>1. Inv => OneComponentPerThing
    BY DEF Inv, OneComponentPerThing, KeysHonoured, SlotsHonoured, SiblingsHonoured
<1> QED BY <1>1, InitInv, NextInv, PTL DEF Spec
---------------------------------------------------------------------------
(* The strongest claim and the next bucket *)

\* R puts one element of every set of findings above the others.
HasTop(D, R) == \A T \in SUBSET D : T # {} => \E i \in T : \A j \in T \ {i} : <<j, i>> \in R

TotalOn(D, R) ==
    /\ \A i, j \in D : i = j \/ <<i, j>> \in R \/ <<j, i>> \in R
    /\ \A i, j, k \in D : <<i, j>> \in R /\ <<j, k>> \in R => <<i, k>> \in R

LEMMA NextHasTop ==
    ASSUME NEW n \in Nat, NEW R, TotalOn(1 .. n + 1, R), HasTop(1 .. n, R)
    PROVE  HasTop(1 .. n + 1, R)
<1> SUFFICES ASSUME NEW T \in SUBSET (1 .. n + 1), T # {}
             PROVE  \E i \in T : \A j \in T \ {i} : <<j, i>> \in R
    BY DEF HasTop
<1>1. \A x \in T : x \in 1 .. n + 1 /\ (x = n + 1 \/ x \in 1 .. n)
    OBVIOUS
<1>2. CASE n + 1 \notin T
    BY <1>1, <1>2 DEF HasTop
<1>3. CASE T = {n + 1}
    BY <1>3
<1>4. CASE n + 1 \in T /\ T # {n + 1}
    <2> DEFINE U == T \ {n + 1}
    <2>1. U \in SUBSET (1 .. n) /\ U # {}
        BY <1>1, <1>4
    <2>2. PICK i \in U : \A j \in U \ {i} : <<j, i>> \in R
        BY <2>1 DEF HasTop
    <2>3. CASE <<n + 1, i>> \in R
        BY <2>2, <2>3
    <2>4. CASE <<i, n + 1>> \in R
        <3>1. \A j \in T \ {n + 1} : <<j, n + 1>> \in R
            BY <1>1, <1>4, <2>2, <2>4 DEF TotalOn
        <3> QED BY <1>4, <3>1
    <2> QED BY <1>1, <1>4, <2>2, <2>3, <2>4 DEF TotalOn
<1> QED BY <1>2, <1>3, <1>4

\* A total order has a top in every finite set.
LEMMA TotalHasTop ==
    ASSUME NEW n \in Nat, NEW R, TotalOn(1 .. n, R)
    PROVE  HasTop(1 .. n, R)
<1> DEFINE bad == {m \in Nat : m <= n /\ ~ HasTop(1 .. m, R)}
<1>1. SUFFICES ASSUME bad # {} PROVE FALSE
    OBVIOUS
<1>2. \E m \in bad : \A k \in bad : ~ (<<k, m>> \in OpToRel(<, Nat))
    BY <1>1, NatLessThanWellFounded, WFMin, Zenon
<1>3. PICK m \in bad : \A k \in bad : ~ (k < m)
    BY <1>2 DEF OpToRel
<1>4. PICK k \in Nat : m = k + 1
    <2>1. HasTop(1 .. 0, R)
        <3>1. 1 .. 0 = {}
            OBVIOUS
        <3> QED BY <3>1 DEF HasTop
    <2>2. m # 0 /\ m - 1 \in Nat /\ m = m - 1 + 1
        BY <2>1
    <2> QED BY <2>2
<1>5. HasTop(1 .. k, R) /\ TotalOn(1 .. k + 1, R)
    BY <1>3, <1>4 DEF TotalOn
<1> QED BY <1>3, <1>4, <1>5, NextHasTop

\* Tuples of one length are totally ordered.
LEMMA LexTotal ==
    ASSUME NEW n \in Nat, NEW s \in [1 .. n -> Int], NEW t \in [1 .. n -> Int]
    PROVE  s = t \/ LexLess(s, t) \/ LexLess(t, s)
<1> DEFINE differ == {k \in 1 .. n : s[k] # t[k]}
<1>1. SUFFICES ASSUME differ # {} PROVE LexLess(s, t) \/ LexLess(t, s)
    OBVIOUS
<1>2. differ \subseteq Nat
    OBVIOUS
<1>3. \E m \in differ : \A k \in differ : ~ (<<k, m>> \in OpToRel(<, Nat))
    BY <1>1, <1>2, NatLessThanWellFounded, WFMin, Zenon
<1>4. PICK m \in differ : \A k \in differ : ~ (k < m)
    BY <1>2, <1>3 DEF OpToRel
<1>5. m \in 1 .. n /\ s[m] # t[m] /\ \A k \in 1 .. (m - 1) : s[k] = t[k]
    BY <1>4
<1>6. s[m] < t[m] \/ t[m] < s[m]
    BY <1>5
<1> QED BY <1>5, <1>6 DEF LexLess

LEMMA LexTransitive ==
    ASSUME NEW n \in Nat, NEW s \in [1 .. n -> Int], NEW t \in [1 .. n -> Int], NEW u \in [1 .. n -> Int],
           LexLess(s, t), LexLess(t, u)
    PROVE  LexLess(s, u)
<1>1. PICK k \in 1 .. n : s[k] < t[k] /\ \A j \in 1 .. (k - 1) : s[j] = t[j]
    BY DEF LexLess
<1>2. PICK l \in 1 .. n : t[l] < u[l] /\ \A j \in 1 .. (l - 1) : t[j] = u[j]
    BY DEF LexLess
<1>3. CASE k < l
    <2>1. s[k] < u[k] /\ \A j \in 1 .. (k - 1) : s[j] = u[j]
        BY <1>1, <1>2, <1>3
    <2> QED BY <2>1 DEF LexLess
<1>4. CASE l <= k
    <2>1. s[l] < u[l] /\ \A j \in 1 .. (l - 1) : s[j] = u[j]
        BY <1>1, <1>2, <1>4
    <2> QED BY <2>1 DEF LexLess
<1> QED BY <1>3, <1>4

Ranked  == {p \in Finding \X Finding : LexLess(Rank(p[1]), Rank(p[2]))}
Ordered == {p \in Finding \X Finding : LexLess(BucketOrder(p[2]), BucketOrder(p[1]))}

\* No two findings tie, as the later one of two like claims comes second.
LEMMA Orders ==
    ASSUME claims \in Seq(Claim)
    PROVE  TotalOn(Finding, Ranked) /\ TotalOn(Finding, Ordered)
<1>1. ASSUME NEW i \in Finding
      PROVE  /\ Rank(i) \in [1 .. 6 -> Int] /\ Rank(i)[6] = 0 - i
             /\ BucketOrder(i) \in [1 .. 3 -> Int] /\ BucketOrder(i)[3] = i
    <2> DEFINE c == claims[i]
               x == IF c.purl THEN c.fam ELSE 0
               y == IF c.purl THEN c.variant ELSE 0
    <2>1. i \in Int /\ 0 - i \in Int /\ c.tier \in Int /\ c.ver \in Int /\ c.fam \in Int /\ c.variant \in Int
        <3>1. c \in Claim /\ i \in Int
            BY DEF Finding
        <3> HIDE DEF c
        <3>2. c \in [digests : SUBSET Digest, purl : BOOLEAN, fam : Family,
                     ver : Version, variant : Variant, tier : Tier]
            BY <3>1, BucketsAssumption
        <3>3. /\ c.tier \in Tier /\ c.ver \in Version /\ c.fam \in Family /\ c.variant \in Variant
              /\ Families \in Nat /\ Versions \in Nat /\ Variants \in Nat
            BY <3>2, BucketsAssumption
        <3> QED BY <3>1, <3>3 DEF Tier, Version, Family, Variant
    <2>2. x \in Int /\ y \in Int
        BY <2>1
    <2>3. Rank(i) = <<c.tier, c.ver, x, y, c.fam, 0 - i>> /\ BucketOrder(i) = <<c.fam, c.ver, i>>
        BY DEF Rank, BucketOrder
    <2> HIDE DEF x, y, c
    <2>4. <<c.tier, c.ver, x, y, c.fam, 0 - i>> \in [1 .. 6 -> Int]
        <3>1. \A k \in 1 .. 6 : k \in {1, 2, 3, 4, 5, 6}
            OBVIOUS
        <3> QED BY <2>1, <2>2, <3>1
    <2> QED BY <2>1, <2>3, <2>4
<1>2. ASSUME NEW i \in Finding, NEW j \in Finding, i # j
      PROVE  Rank(i) # Rank(j) /\ BucketOrder(i) # BucketOrder(j)
    <2>1. 0 - i # 0 - j
        BY <1>2 DEF Finding
    <2>2. Rank(i)[6] # Rank(j)[6] /\ BucketOrder(i)[3] # BucketOrder(j)[3]
        BY <1>1, <1>2, <2>1
    <2> QED BY <2>2
<1>3. TotalOn(Finding, Ranked)
    <2>1. \A i, j \in Finding : <<i, j>> \in Ranked <=> LexLess(Rank(i), Rank(j))
        BY DEF Ranked
    <2>2. ASSUME NEW i \in Finding, NEW j \in Finding
          PROVE  i = j \/ <<i, j>> \in Ranked \/ <<j, i>> \in Ranked
        <3>1. Rank(i) = Rank(j) \/ LexLess(Rank(i), Rank(j)) \/ LexLess(Rank(j), Rank(i))
            <4>1. 6 \in Nat /\ Rank(i) \in [1 .. 6 -> Int] /\ Rank(j) \in [1 .. 6 -> Int]
                BY <1>1
            <4> QED BY <4>1, LexTotal
        <3> QED BY <1>2, <2>1, <3>1
    <2>3. ASSUME NEW i \in Finding, NEW j \in Finding, NEW k \in Finding, <<i, j>> \in Ranked, <<j, k>> \in Ranked
          PROVE  <<i, k>> \in Ranked
        <3>1. 6 \in Nat /\ \A x \in Finding : Rank(x) \in [1 .. 6 -> Int]
            BY <1>1
        <3> QED BY <2>1, <2>3, <3>1, LexTransitive
    <2> QED BY <2>2, <2>3 DEF TotalOn
<1>4. TotalOn(Finding, Ordered)
    <2>1. \A i, j \in Finding : <<i, j>> \in Ordered <=> LexLess(BucketOrder(j), BucketOrder(i))
        BY DEF Ordered
    <2>2. ASSUME NEW i \in Finding, NEW j \in Finding
          PROVE  i = j \/ <<i, j>> \in Ordered \/ <<j, i>> \in Ordered
        <3>1. BucketOrder(i) = BucketOrder(j) \/ LexLess(BucketOrder(i), BucketOrder(j)) \/ LexLess(BucketOrder(j), BucketOrder(i))
            <4>1. 3 \in Nat /\ BucketOrder(i) \in [1 .. 3 -> Int] /\ BucketOrder(j) \in [1 .. 3 -> Int]
                BY <1>1
            <4> QED BY <4>1, LexTotal
        <3> QED BY <1>2, <2>1, <3>1
    <2>3. ASSUME NEW i \in Finding, NEW j \in Finding, NEW k \in Finding, <<i, j>> \in Ordered, <<j, k>> \in Ordered
          PROVE  <<i, k>> \in Ordered
        <3>1. 3 \in Nat /\ \A x \in Finding : BucketOrder(x) \in [1 .. 3 -> Int]
            BY <1>1
        <3> QED BY <2>1, <2>3, <3>1, LexTransitive
    <2> QED BY <2>2, <2>3 DEF TotalOn
<1> QED BY <1>3, <1>4

\* The first of a set of claims is the strongest of them and, of equals, has the
\* greatest version.
LEMMA FirstIsStrongest ==
    ASSUME claims \in Seq(Claim), NEW S \in SUBSET Finding, S # {}
    PROVE  /\ First(S) \in S
           /\ \A i \in S : \/ claims[i].tier < claims[First(S)].tier
                           \/ claims[i].tier = claims[First(S)].tier /\ claims[i].ver <= claims[First(S)].ver
<1>1. PICK n \in Nat : Finding = 1 .. n
    BY DEF Finding
<1>2. HasTop(Finding, Ranked)
    BY <1>1, Orders, TotalHasTop
<1>3. \E i \in S : \A j \in S \ {i} : LexLess(Rank(j), Rank(i))
    BY <1>2 DEF HasTop, Ranked
<1>4. First(S) \in S /\ \A j \in S \ {First(S)} : LexLess(Rank(j), Rank(First(S)))
    BY <1>3 DEF First
<1> DEFINE f == First(S)
<1> HIDE DEF f
<1>5. f \in S /\ \A j \in S \ {f} : LexLess(Rank(j), Rank(f))
    BY <1>4 DEF f
<1>6. \A i \in S :
        /\ claims[i].tier \in Int /\ claims[i].ver \in Int
        /\ claims[i].tier = Rank(i)[1] /\ claims[i].ver = Rank(i)[2] /\ DOMAIN Rank(i) = 1 .. 6
    BY BucketsAssumption DEF Finding, Tier, Version, Rank
<1>7. ASSUME NEW i \in S
      PROVE  \/ claims[i].tier < claims[f].tier
             \/ claims[i].tier = claims[f].tier /\ claims[i].ver <= claims[f].ver
    <2>1. CASE i = f
        BY <1>6, <2>1
    <2>2. CASE i # f
        <3>1. PICK k \in 1 .. 6 : /\ Rank(i)[k] < Rank(f)[k]
                                  /\ \A j \in 1 .. (k - 1) : Rank(i)[j] = Rank(f)[j]
            BY <1>5, <1>6, <2>2 DEF LexLess
        <3>2. CASE k = 1
            BY <1>5, <1>6, <3>1, <3>2
        <3>3. CASE k = 2
            <4>1. 1 \in 1 .. (k - 1)
                BY <3>3
            <4> QED BY <1>5, <1>6, <3>1, <3>3, <4>1
        <3>4. CASE k > 2
            <4>1. 1 \in 1 .. (k - 1) /\ 2 \in 1 .. (k - 1)
                BY <3>4
            <4> QED BY <1>5, <1>6, <3>1, <4>1
        <3> QED BY <3>2, <3>3, <3>4
    <2> QED BY <2>1, <2>2
<1> QED BY <1>5, <1>7 DEF f

LEMMA NextBucketWaits ==
    ASSUME claims \in Seq(Claim), root \in [Finding -> Finding], Waiting # {}
    PROVE  NextBucket \in Waiting
<1>1. PICK n \in Nat : Finding = 1 .. n
    BY DEF Finding
<1>2. HasTop(Finding, Ordered) /\ Waiting \in SUBSET Finding
    BY <1>1, Orders, TotalHasTop DEF Waiting, Roots
<1>3. \E r \in Waiting : \A s \in Waiting \ {r} : LexLess(BucketOrder(r), BucketOrder(s))
    BY <1>2 DEF HasTop, Ordered
<1> QED BY <1>3 DEF NextBucket

\* What the loop of the last step has done so far.
PinInv ==
    /\ phase \notin {"pin", "done"} => DOMAIN components = {} /\ DOMAIN refs = {}
    /\ \A r \in DOMAIN components : r \in Roots(Finding) /\ components[r] = Component(Members(r))
    /\ \A k \in DOMAIN refs : \A i \in Finding : Ref(claims[i]) = k => refs[k] = root[i]
    /\ \A i \in Finding : root[i] \in DOMAIN components => Ref(claims[i]) \in DOMAIN refs
    /\ phase = "done" => Waiting = {}

\* Claims with one reference are in one bucket.
LEMMA RefsShared ==
    ASSUME Inv, phase \in {"pin", "done"}, NEW i \in Finding, NEW j \in Finding,
           Ref(claims[i]) = Ref(claims[j])
    PROVE  root[i] = root[j]
<1>1. \A k : k \in Keys(claims[i]) /\ k \in Keys(claims[j]) => root[i] = root[j]
    BY DEF Inv, KeysHonoured
<1>2. claims[i].purl <=> claims[j].purl
    <2>1. \A c : Purl(c)[1] = "purl" /\ Coordinate(c)[1] = "name"
        BY DEF Purl, Coordinate
    <2> QED BY <2>1 DEF Ref
<1>3. CASE claims[i].purl
    <2>1. Purl(claims[i]) = Purl(claims[j])
        BY <1>2, <1>3 DEF Ref
    <2>2. Purl(claims[i]) \in Keys(claims[i]) /\ Purl(claims[j]) \in Keys(claims[j])
        BY <1>2, <1>3 DEF Keys
    <2> QED BY <1>1, <2>1, <2>2
<1>4. CASE ~ claims[i].purl
    <2>1. Coordinate(claims[i]) = Coordinate(claims[j])
        BY <1>2, <1>4 DEF Ref
    <2>2. claims[i].fam = claims[j].fam /\ claims[i].ver = claims[j].ver
        BY <2>1 DEF Coordinate
    <2>3. CASE claims[i].ver # 0
        <3>1. Coordinate(claims[i]) \in Keys(claims[i]) /\ Coordinate(claims[j]) \in Keys(claims[j])
            BY <1>2, <1>4, <2>2, <2>3 DEF Keys
        <3> QED BY <1>1, <2>1, <3>1
    <2>4. CASE claims[i].ver = 0
        BY <2>2, <2>4 DEF Inv, SiblingsHonoured
    <2> QED BY <2>3, <2>4
<1> QED BY <1>3, <1>4

\* The purl of a component is no finding's of another bucket.
LEMMA ComponentPurlAtHome ==
    ASSUME Inv, phase \in {"pin", "done"}, NEW r \in Roots(Finding), NEW i \in Finding,
           Ref(claims[i]) = ComponentPurl(Members(r))
    PROVE  root[i] = r
<1> DEFINE S == Members(r)
           named == {x \in S : claims[x].purl}
           exact == {x \in named : claims[x].ver = PinnedVersion(S)}
<1>1. claims \in Seq(Claim) /\ S \in SUBSET Finding /\ named \in SUBSET Finding /\ exact \in SUBSET Finding
    BY DEF Inv, Sound, Members
<1>2. \/ \E x \in named : Ref(claims[i]) = Purl(claims[x])
      \/ Ref(claims[i]) = <<"purl", claims[First(S)].fam, 0, 1>>
    <2>1. ComponentPurl(S) = IF exact # {} THEN Purl(claims[First(exact)])
                             ELSE IF named # {} THEN Purl(claims[First(named)])
                             ELSE <<"purl", claims[First(S)].fam, 0, 1>>
        BY DEF ComponentPurl
    <2>2. CASE exact # {}
        <3>1. First(exact) \in exact
            BY <1>1, <2>2, FirstIsStrongest
        <3> QED BY <2>1, <2>2, <3>1
    <2>3. CASE exact = {} /\ named # {}
        <3>1. First(named) \in named
            BY <1>1, <2>3, FirstIsStrongest
        <3> QED BY <2>1, <2>3, <3>1
    <2> QED BY <2>1, <2>2, <2>3
<1>3. claims[i] \in Claim /\ (claims[i].purl => claims[i].ver # 0)
    BY <1>1, BucketsAssumption DEF Finding
<1>4. Ref(claims[i]) = Purl(claims[i]) /\ claims[i].purl
    <2>1. Ref(claims[i])[1] = "purl"
        BY <1>2 DEF Purl
    <2>2. Coordinate(claims[i])[1] # "purl"
        BY DEF Coordinate
    <2> QED BY <2>1, <2>2 DEF Ref
<1>5. PICK x \in named : Purl(claims[i]) = Purl(claims[x])
    <2>1. Purl(claims[i])[3] = claims[i].ver
        BY DEF Purl
    <2> QED BY <1>2, <1>3, <1>4, <2>1
<1>6. root[i] = root[x]
    <2>1. Ref(claims[x]) = Ref(claims[i]) /\ x \in Finding
        BY <1>1, <1>4, <1>5 DEF Ref
    <2> QED BY <2>1, RefsShared
<1> QED BY <1>5, <1>6 DEF Members

LEMMA ComponentKept ==
    ASSUME claims' = claims, root' = root
    PROVE  /\ \A r : Members(r)' = Members(r) /\ Component(Members(r))' = Component(Members(r))
           /\ \A i \in Finding : Ref(claims[i])' = Ref(claims[i])
           /\ Roots(Finding)' = Roots(Finding) /\ Finding' = Finding
<1>1. Finding' = Finding /\ Roots(Finding)' = Roots(Finding) /\ \A r : Members(r)' = Members(r)
    BY DEF Finding, Roots, Members
<1>2. \A i : Rank(i)' = Rank(i)
    BY DEF Rank
<1>3. \A S : First(S)' = First(S)
    BY <1>2 DEF First
<1>4. \A S : /\ Versioned(S)' = Versioned(S) /\ PinnedVersion(S)' = PinnedVersion(S)
             /\ PinTier(S)' = PinTier(S)
    BY <1>3 DEF Versioned, PinnedVersion, PinTier
<1>5. \A S : Losers(S)' = Losers(S) /\ Base(S)' = Base(S) /\ ComponentPurl(S)' = ComponentPurl(S)
    BY <1>3, <1>4 DEF Losers, Base, ComponentPurl
<1>6. \A S : Component(S)' = Component(S)
    BY <1>4, <1>5 DEF Component
<1> QED BY <1>1, <1>6

LEMMA PinKept ==
    ASSUME Inv, PinInv, UNCHANGED <<claims, root, components, refs>>,
           phase' \in {"pin", "done"} \/ phase \notin {"pin", "done"},
           phase' = "done" => phase = "done" \/ Waiting = {}
    PROVE  PinInv'
<1>1. /\ \A r : Members(r)' = Members(r) /\ Component(Members(r))' = Component(Members(r))
      /\ \A i \in Finding : Ref(claims[i])' = Ref(claims[i])
      /\ Roots(Finding)' = Roots(Finding) /\ Finding' = Finding
    BY ComponentKept
<1>2. Waiting' = Waiting
    BY <1>1 DEF Waiting
<1> QED BY <1>1, <1>2 DEF PinInv

LEMMA PinStep == ASSUME Inv, PinInv, Pin PROVE PinInv'
<1> DEFINE r == NextBucket
           S == Members(r)
           K == {Ref(claims[i]) : i \in S} \cup {ComponentPurl(S)}
<1>1. /\ phase = "pin" /\ phase' = "pin" /\ claims' = claims /\ root' = root
      /\ components' = SetDefault(components, {r}, Component(S))
      /\ refs' = SetDefault(refs, K, r)
    BY DEF Pin
<1>2. /\ \A x : Members(x)' = Members(x) /\ Component(Members(x))' = Component(Members(x))
      /\ \A i \in Finding : Ref(claims[i])' = Ref(claims[i])
      /\ Roots(Finding)' = Roots(Finding) /\ Finding' = Finding
    BY <1>1, ComponentKept
<1>3. r \in Roots(Finding) /\ r \notin DOMAIN components
    <2>1. r \in Waiting
        BY NextBucketWaits DEF Pin, Inv, Sound, Table
    <2> QED BY <2>1 DEF Waiting
<1>4. ASSUME NEW i \in Finding, Ref(claims[i]) \in K
      PROVE  root[i] = r
    <2>1. CASE \E j \in S : Ref(claims[i]) = Ref(claims[j])
        BY <1>1, <2>1, RefsShared DEF Members
    <2>2. CASE Ref(claims[i]) = ComponentPurl(S)
        BY <1>1, <1>3, <2>2, ComponentPurlAtHome
    <2> QED BY <1>4, <2>1, <2>2
<1>5. \A i \in Finding : root[i] = r => Ref(claims[i]) \in K
    BY DEF Members
<1> HIDE DEF K, S
<1>6. /\ DOMAIN components' = DOMAIN components \cup {r}
      /\ components'[r] = Component(S) /\ \A x \in DOMAIN components : components'[x] = components[x]
      /\ DOMAIN refs' = DOMAIN refs \cup K
      /\ \A k \in DOMAIN refs : refs'[k] = refs[k]
      /\ \A k \in K : k \notin DOMAIN refs => refs'[k] = r
    BY <1>1, <1>3 DEF SetDefault
<1> HIDE DEF r
<1>7. \A x \in DOMAIN components' :
          x \in Roots(Finding)' /\ components'[x] = Component(Members(x))'
    BY <1>2, <1>3, <1>6 DEF PinInv, S
<1>8. \A k \in DOMAIN refs' : \A i \in Finding : Ref(claims[i]) = k => refs'[k] = root[i]
    BY <1>4, <1>6 DEF PinInv
<1>9. \A i \in Finding : root[i] \in DOMAIN components' => Ref(claims[i]) \in DOMAIN refs'
    BY <1>5, <1>6 DEF PinInv
<1> QED BY <1>1, <1>2, <1>7, <1>8, <1>9 DEF PinInv

LEMMA NextPin == Inv /\ PinInv /\ [Next]_vars => PinInv'
<1> SUFFICES ASSUME Inv, PinInv, [Next]_vars PROVE PinInv'
    OBVIOUS
<1>1. ASSUME phase \in {"keys", "families", "attach"}, UNCHANGED <<components, refs>>,
             phase' \in {"keys", "families", "attach"}
      PROVE  PinInv'
    <2>1. DOMAIN components' = {} /\ DOMAIN refs' = {}
        BY <1>1 DEF PinInv
    <2> QED BY <1>1, <2>1 DEF PinInv, Waiting, Roots
<1>2. CASE \E c \in Claim : Collect(c)
    BY <1>1, <1>2 DEF Collect
<1>3. CASE Collected
    BY <1>1, <1>3 DEF Collected
<1>4. CASE MergeFamily
    BY <1>1, <1>4 DEF MergeFamily
<1>5. CASE FamiliesMerged
    BY <1>1, <1>5 DEF FamiliesMerged
<1>6. CASE Attach
    BY <1>1, <1>6 DEF Attach
<1>7. CASE Attached
    BY <1>7, PinKept DEF Attached
<1>8. CASE Pin
    BY <1>8, PinStep
<1>9. CASE MarkAmbiguous
    BY <1>9, PinKept DEF MarkAmbiguous
<1>10. CASE UNCHANGED vars
    BY <1>10, PinKept DEF vars
<1> QED BY <1>2, <1>3, <1>4, <1>5, <1>6, <1>7, <1>8, <1>9, <1>10 DEF Next

LEMMA PinnedAtHome == Inv /\ PinInv => ClaimsComeHome
<1> SUFFICES ASSUME Inv, PinInv, phase = "done", NEW i \in Finding
             PROVE  /\ refs[Ref(claims[i])] = root[i]
                    /\ claims[i].ver # 0 =>
                         LET comp == components[root[i]]
                         IN  /\ \/ claims[i].tier < comp.tier
                                \/ claims[i].tier = comp.tier /\ claims[i].ver <= comp.version
                             /\ claims[i].tier < comp.tier /\ claims[i].ver # comp.version
                                => <<claims[i].ver, claims[i].tier>> \in comp.superseded
    BY DEF ClaimsComeHome, PinIsStrongest, RefsLeadHome
<1> DEFINE S == Members(root[i])
           V == Versioned(S)
           f == First(V)
<1>1. claims \in Seq(Claim)
    BY DEF Inv, Sound
<1>2. root[i] \in DOMAIN components /\ components[root[i]] = Component(S)
    BY DEF PinInv, Waiting, Roots
<1>3. refs[Ref(claims[i])] = root[i]
    BY <1>2 DEF PinInv
<1>4. ASSUME claims[i].ver # 0
      PROVE  /\ \/ claims[i].tier < Component(S).tier
                \/ claims[i].tier = Component(S).tier /\ claims[i].ver <= Component(S).version
             /\ claims[i].tier < Component(S).tier /\ claims[i].ver # Component(S).version
                  => <<claims[i].ver, claims[i].tier>> \in Component(S).superseded
    <2>1. V \in SUBSET Finding /\ i \in V /\ i \in S
        BY <1>4 DEF Members, Versioned
    <2>2. /\ f \in V
          /\ claims[i].tier < claims[f].tier
               \/ (claims[i].tier = claims[f].tier /\ claims[i].ver <= claims[f].ver)
        BY <1>1, <2>1, FirstIsStrongest
    <2>3. /\ Component(S).tier = claims[f].tier /\ Component(S).version = claims[f].ver
          /\ PinTier(S) = claims[f].tier /\ PinnedVersion(S) = claims[f].ver
        BY <2>1 DEF Component, PinTier, PinnedVersion
    <2>4. ASSUME claims[i].tier < claims[f].tier, claims[i].ver # claims[f].ver
          PROVE  <<claims[i].ver, claims[i].tier>> \in Component(S).superseded
        <3>1. claims[i].tier # claims[f].tier
            <4>1. claims[i].tier \in Int /\ claims[f].tier \in Int
                BY <1>1, <2>1, <2>2, BucketsAssumption DEF Tier, Finding
            <4> QED BY <2>4, <4>1
        <3>2. i \in {j \in Losers(S) : claims[j].tier # PinTier(S)}
            BY <2>1, <2>3, <2>4, <3>1 DEF Losers
        <3> QED BY <3>2 DEF Component
    <2> QED BY <2>2, <2>3, <2>4
<1> QED BY <1>2, <1>3, <1>4

\* A component carries the version of its strongest claim, and every claim's
\* reference leads to the component that the claim is in.
THEOREM ClaimsAlwaysComeHome == Spec => []ClaimsComeHome
<1>1. Init => PinInv
    BY DEF Init, PinInv, Finding
<1>2. Inv /\ PinInv /\ [Next]_vars => (Inv /\ PinInv)'
    BY NextInv, NextPin
<1> QED BY <1>1, <1>2, InitInv, PinnedAtHome, PTL DEF Spec

-----------------------------------------------------------------------------
(* Scope *)

Shape ==
    /\ walkPhase \in Walk \cup {"merge", "assign", "done"}
    /\ DOMAIN reach = Walk /\ DOMAIN cut = Walk

\* While a walk runs, only the frontier may still have neighbours outside.
WalkInv ==
    \A w \in Walk : walkPhase = w =>
        /\ RootsOf(w, cut) \subseteq reached
        /\ \A e \in DOMAIN edges :
               e[1] \in reached /\ e[1] \notin frontier /\ Followed(w, e) => e[2] \in reached

Inside(w, S) ==
    ClosedUnder(w, S) => /\ Ended(w) => reach[w] \subseteq S
                         /\ walkPhase = w => frontier \subseteq reached /\ reached \subseteq S

\* A walk holds nothing that some closed set lacks.
InsideInv == \A w \in Walk : (walkPhase = w => frontier \subseteq reached) /\ \A S : Inside(w, S)

ScopeInv == Shape /\ WalkInv /\ WalksMissNothing /\ InsideInv

LEMMA InitScope == WalkInit => ScopeInv
BY DEF WalkInit, ScopeInv, Shape, WalkInv, WalksMissNothing, InsideInv, Inside, Ended, Walk

\* What a walk may follow, and its roots, depend on the edges and on what
\* the earlier walks cut off.
LEMMA RootsKept ==
    ASSUME edges' = edges, NEW w \in Walk,
           w = "optional" => cut'["runtime"] = cut["runtime"] /\ cut'["dev"] = cut["dev"]
    PROVE  /\ RootsOf(w, cut)' = RootsOf(w, cut)
           /\ \A e \in DOMAIN edges : Followed(w, e)' = Followed(w, e)
           /\ \A S : ClosedUnder(w, S)' = ClosedUnder(w, S)
<1>1. \A e \in DOMAIN edges : Followed(w, e)' = Followed(w, e)
    BY DEF Followed, FollowsExtras, ExtrasGated
<1>2. /\ RuntimeRoots' = RuntimeRoots /\ DevRoots' = DevRoots /\ OptionalRoots' = OptionalRoots
    BY DEF RuntimeRoots, DevRoots, OptionalRoots, Children, ProjectEdges, RawScope
<1>3. RootsOf(w, cut)' = RootsOf(w, cut)
    <2>1. CASE w = "runtime"
        BY <1>2, <2>1 DEF RootsOf
    <2>2. CASE w = "dev"
        BY <1>2, <2>2 DEF RootsOf
    <2>3. CASE w = "optional"
        BY <1>2, <2>3 DEF RootsOf
    <2> QED BY <2>1, <2>2, <2>3 DEF Walk
<1>4. \A S : ClosedUnder(w, S)' = ClosedUnder(w, S)
    BY <1>1, <1>3 DEF ClosedUnder
<1> QED BY <1>1, <1>3, <1>4

LEMMA MergeInv == ASSUME ScopeInv, NEW c \in EdgeClaim, MergeClaim(c) PROVE ScopeInv'
BY DEF MergeClaim, ScopeInv, Shape, WalkInv, WalksMissNothing, InsideInv, Inside, Ended, Walk

LEMMA MergedInv == ASSUME ScopeInv, Merged PROVE ScopeInv'
<1>1. /\ walkPhase = "merge" /\ walkPhase' = "runtime" /\ edges' = edges /\ reach' = reach /\ cut' = cut
      /\ reached' = RuntimeRoots /\ frontier' = RuntimeRoots
    BY DEF Merged, StartWalk
<1>2. RootsOf("runtime", cut)' = RuntimeRoots
    <2>1. RuntimeRoots' = RuntimeRoots
        BY <1>1 DEF RuntimeRoots, Children, ProjectEdges, RawScope
    <2> QED BY <2>1 DEF RootsOf
<1>3. Shape'
    BY <1>1 DEF ScopeInv, Shape, Walk
<1>4. WalkInv'
    BY <1>1, <1>2 DEF WalkInv
<1>5. WalksMissNothing'
    BY <1>1 DEF WalksMissNothing, Ended, Walk
<1>6. InsideInv'
    BY <1>1, <1>2 DEF InsideInv, Inside, Ended, Walk, ClosedUnder
<1> QED BY <1>3, <1>4, <1>5, <1>6 DEF ScopeInv

LEMMA VisitInv == ASSUME ScopeInv, NEW n \in Node, Visit(n) PROVE ScopeInv'
<1> DEFINE on == {e[2] : e \in {x \in Successors(n) : Followed(walkPhase, x)}}
<1>1. /\ walkPhase \in Walk /\ walkPhase' = walkPhase /\ edges' = edges /\ reach' = reach /\ cut' = cut
      /\ n \in frontier /\ reached' = reached \cup on
      /\ frontier' = (frontier \ {n}) \cup (on \ reached)
    BY DEF Visit
<1>2. /\ \A e \in DOMAIN edges : e[1] = n /\ Followed(walkPhase, e) => e[2] \in on
      /\ \A x \in on : \E e \in DOMAIN edges : e[1] = n /\ Followed(walkPhase, e) /\ e[2] = x
    BY DEF Successors
<1> HIDE DEF on
<1>3. \A w \in Walk : /\ RootsOf(w, cut)' = RootsOf(w, cut)
                      /\ \A e \in DOMAIN edges : Followed(w, e)' = Followed(w, e)
                      /\ \A S : ClosedUnder(w, S)' = ClosedUnder(w, S)
                      /\ Ended(w)' = Ended(w)
    BY <1>1, RootsKept DEF Ended
<1>4. Shape'
    BY <1>1 DEF ScopeInv, Shape
<1>5. WalkInv'
    <2>1. SUFFICES ASSUME NEW w \in Walk, walkPhase = w
                   PROVE  /\ RootsOf(w, cut) \subseteq reached'
                          /\ \A e \in DOMAIN edges :
                                 e[1] \in reached' /\ e[1] \notin frontier' /\ Followed(w, e)
                                     => e[2] \in reached'
        BY <1>1, <1>3 DEF WalkInv
    <2>2. /\ RootsOf(w, cut) \subseteq reached
          /\ \A e \in DOMAIN edges :
                 e[1] \in reached /\ e[1] \notin frontier /\ Followed(w, e) => e[2] \in reached
        BY <2>1 DEF ScopeInv, WalkInv
    <2>3. ASSUME NEW e \in DOMAIN edges, e[1] \in reached', e[1] \notin frontier', Followed(w, e)
          PROVE  e[2] \in reached'
        <3>1. e[1] = n \/ e[1] \notin frontier
            BY <1>1, <2>3
        <3>2. e[1] \in reached
            BY <1>1, <2>3
        <3> QED BY <1>1, <1>2, <2>1, <2>2, <2>3, <3>1, <3>2
    <2> QED BY <1>1, <2>2, <2>3
<1>6. WalksMissNothing'
    BY <1>1, <1>3 DEF ScopeInv, WalksMissNothing
<1>7. InsideInv'
    <2>1. SUFFICES ASSUME NEW w \in Walk
                   PROVE  /\ walkPhase = w => frontier' \subseteq reached'
                          /\ \A S : Inside(w, S)'
        BY <1>1 DEF InsideInv
    <2>2. walkPhase = w => frontier' \subseteq reached'
        BY <1>1 DEF ScopeInv, InsideInv
    <2>3. ASSUME NEW S, ClosedUnder(w, S)
          PROVE  /\ Ended(w) => reach[w] \subseteq S
                 /\ walkPhase = w => reached' \subseteq S
        <3>1. /\ Ended(w) => reach[w] \subseteq S
              /\ walkPhase = w => frontier \subseteq reached /\ reached \subseteq S
            BY <2>3 DEF ScopeInv, InsideInv, Inside
        <3>2. ASSUME walkPhase = w, NEW x \in on
              PROVE  x \in S
            <4>1. PICK e \in DOMAIN edges : e[1] = n /\ Followed(w, e) /\ e[2] = x
                BY <1>2, <3>2
            <4>2. n \in S
                BY <1>1, <3>1, <3>2
            <4> QED BY <2>3, <4>1, <4>2 DEF ClosedUnder
        <3> QED BY <1>1, <3>1, <3>2
    <2> QED BY <1>1, <1>3, <2>2, <2>3 DEF Inside
<1> QED BY <1>4, <1>5, <1>6, <1>7 DEF ScopeInv

LEMMA EndWalkInv == ASSUME ScopeInv, EndWalk PROVE ScopeInv'
<1>1. /\ walkPhase \in Walk /\ frontier = {} /\ edges' = edges
      /\ reach' = [reach EXCEPT ![walkPhase] = reached]
      /\ cut' = [cut EXCEPT ![walkPhase] = gated]
      /\ walkPhase' = After[walkPhase]
    BY DEF EndWalk, StartWalk
<1>2. /\ DOMAIN reach' = Walk /\ DOMAIN cut' = Walk
      /\ reach'[walkPhase] = reached
      /\ \A w \in Walk : w # walkPhase => reach'[w] = reach[w] /\ cut'[w] = cut[w]
    BY <1>1 DEF ScopeInv, Shape
<1>3. \/ walkPhase = "runtime" /\ walkPhase' = "dev"
      \/ walkPhase = "dev" /\ walkPhase' = "optional"
      \/ walkPhase = "optional" /\ walkPhase' = "assign"
    BY <1>1 DEF Walk, After
<1>4. \A w \in Walk : Ended(w)' <=> (Ended(w) \/ w = walkPhase)
    BY <1>3 DEF Ended, Walk
<1>5. walkPhase' \in Walk => reached' = RootsOf(walkPhase', cut') /\ frontier' = reached'
    BY <1>1 DEF EndWalk, StartWalk
<1>6. ASSUME NEW w \in Walk, Ended(w)'
      PROVE  \A S : ClosedUnder(w, S)' = ClosedUnder(w, S)
    <2>1. w = "optional" => cut'["runtime"] = cut["runtime"] /\ cut'["dev"] = cut["dev"]
        BY <1>2, <1>3, <1>6 DEF Ended, Walk
    <2> QED BY <1>1, <2>1, RootsKept
<1>7. Shape'
    BY <1>2, <1>3 DEF Shape, Walk
<1>8. WalkInv'
    <2>1. ASSUME NEW w \in Walk, walkPhase' = w
          PROVE  /\ RootsOf(w, cut)' \subseteq reached'
                 /\ frontier' = reached'
        <3>1. reached' = RootsOf(w, cut') /\ frontier' = reached'
            BY <1>5, <2>1
        <3>2. RuntimeRoots' = RuntimeRoots /\ DevRoots' = DevRoots /\ OptionalRoots' = OptionalRoots
            BY <1>1 DEF RuntimeRoots, DevRoots, OptionalRoots, Children, ProjectEdges, RawScope
        <3>3. RootsOf(w, cut)' = RootsOf(w, cut')
            BY <3>2 DEF RootsOf
        <3> QED BY <3>1, <3>3
    <2> QED BY <2>1 DEF WalkInv
<1>9. WalksMissNothing'
    <2>1. ASSUME NEW w \in Walk, Ended(w)'
          PROVE  ClosedUnder(w, reach'[w])
        <3>1. CASE w = walkPhase
            BY <1>1, <1>2, <3>1 DEF ScopeInv, WalkInv, ClosedUnder
        <3>2. CASE w # walkPhase
            BY <1>2, <1>4, <2>1, <3>2 DEF ScopeInv, WalksMissNothing
        <3> QED BY <3>1, <3>2
    <2> QED BY <1>6, <2>1 DEF WalksMissNothing
<1>10. InsideInv'
    <2>1. ASSUME NEW w \in Walk, NEW S, ClosedUnder(w, S)'
          PROVE  /\ Ended(w)' => reach'[w] \subseteq S
                 /\ walkPhase' = w => reached' \subseteq S
        <3>1. ASSUME Ended(w)'
              PROVE  reach'[w] \subseteq S
            <4>1. ClosedUnder(w, S)
                BY <1>6, <2>1, <3>1
            <4>2. CASE w = walkPhase
                BY <1>2, <4>1, <4>2 DEF ScopeInv, InsideInv, Inside
            <4>3. CASE w # walkPhase
                BY <1>2, <1>4, <3>1, <4>1, <4>3 DEF ScopeInv, InsideInv, Inside
            <4> QED BY <4>2, <4>3
        <3>2. ASSUME walkPhase' = w
              PROVE  reached' \subseteq S
            <4>1. RootsOf(w, cut)' \subseteq S
                BY <2>1 DEF ClosedUnder
            <4>2. RuntimeRoots' = RuntimeRoots /\ DevRoots' = DevRoots /\ OptionalRoots' = OptionalRoots
                BY <1>1 DEF RuntimeRoots, DevRoots, OptionalRoots, Children, ProjectEdges, RawScope
            <4>3. RootsOf(w, cut)' = RootsOf(w, cut')
                BY <4>2 DEF RootsOf
            <4> QED BY <1>5, <3>2, <4>1, <4>3
        <3> QED BY <3>1, <3>2
    <2>2. \A w \in Walk : walkPhase' = w => frontier' \subseteq reached'
        BY <1>5
    <2> QED BY <2>1, <2>2 DEF InsideInv, Inside
<1> QED BY <1>7, <1>8, <1>9, <1>10 DEF ScopeInv

LEMMA StutterInv ==
    ASSUME ScopeInv, UNCHANGED <<edges, reached, frontier, reach, cut>>,
           walkPhase' = walkPhase \/ (walkPhase = "assign" /\ walkPhase' = "done")
    PROVE  ScopeInv'
<1>1. \A w \in Walk : /\ RootsOf(w, cut)' = RootsOf(w, cut)
                      /\ \A e \in DOMAIN edges : Followed(w, e)' = Followed(w, e)
                      /\ \A S : ClosedUnder(w, S)' = ClosedUnder(w, S)
                      /\ Ended(w)' = Ended(w)
                      /\ walkPhase' = w <=> walkPhase = w
    BY RootsKept DEF Ended, Walk
<1>2. Shape'
    BY DEF ScopeInv, Shape
<1>3. WalkInv'
    BY <1>1 DEF ScopeInv, WalkInv
<1>4. WalksMissNothing'
    BY <1>1 DEF ScopeInv, WalksMissNothing
<1>5. InsideInv'
    BY <1>1 DEF ScopeInv, InsideInv, Inside
<1> QED BY <1>2, <1>3, <1>4, <1>5 DEF ScopeInv

LEMMA NextScope == ScopeInv /\ [WalkNext]_walkVars => ScopeInv'
<1> SUFFICES ASSUME ScopeInv, [WalkNext]_walkVars PROVE ScopeInv'
    OBVIOUS
<1>1. CASE \E c \in EdgeClaim : MergeClaim(c)
    BY <1>1, MergeInv
<1>2. CASE Merged
    BY <1>2, MergedInv
<1>3. CASE \E n \in Node : Visit(n)
    BY <1>3, VisitInv
<1>4. CASE EndWalk
    BY <1>4, EndWalkInv
<1>5. CASE Assign
    BY <1>5, StutterInv DEF Assign
<1>6. CASE UNCHANGED walkVars
    BY <1>6, StutterInv DEF walkVars
<1> QED BY <1>1, <1>2, <1>3, <1>4, <1>5, <1>6 DEF WalkNext

\* A walk that ended has everything its roots lead to.
THEOREM WalksAreComplete == WalkSpec => []WalksMissNothing
<1>1. ScopeInv => WalksMissNothing
    BY DEF ScopeInv
<1> QED BY <1>1, InitScope, NextScope, PTL DEF WalkSpec

\* A walk has nothing else.
THEOREM WalksAreConfined == WalkSpec => []WalksStayInside
<1>1. ScopeInv => WalksStayInside
    BY DEF ScopeInv, InsideInv, Inside, WalksStayInside
<1> QED BY <1>1, InitScope, NextScope, PTL DEF WalkSpec
---------------------------------------------------------------------------
(* What is cut off *)

EdgesOK == DOMAIN edges \subseteq Node \X Package

\* What a walk does not follow is cut off: the neighbours of what it visited so
\* far, and of all it reached when it ended.
CutInv ==
    \A w \in Walk : \A e \in DOMAIN edges : ~ Followed(w, e) =>
        /\ walkPhase = w /\ e[1] \in reached \ frontier => e[2] \in gated
        /\ Ended(w) /\ e[1] \in reach[w] => e[2] \in cut[w]

\* What Assign computed, as far as extras are concerned.
AssignInv ==
    walkPhase = "done" =>
        /\ conditional = ConditionalOnly \cup Cut
        /\ \A c \in Package : scopeOf[c] = "runtime" /\ c \in reach["optional"] => c \in reach["runtime"]

\* Only something that a walk reached counts before "optional", and of that only
\* the runtime walk says "runtime".
LEMMA RuntimeNeedsReach ==
    ASSUME NEW c \in Package, ScopeOf(c) = "runtime", c \in reach["optional"]
    PROVE  c \in reach["runtime"]
<1> DEFINE reasons == <<Reason("runtime", reach["runtime"]), Reason("dev", reach["dev"] \cup DevMarked),
                        Reason("build", BuildReach \cup BuildTool),
                        Reason("optional", reach["optional"]), Reason("runtime", System)>>
           holding == {k \in DOMAIN reasons : c \in reasons[k].of}
<1>1. /\ DOMAIN reasons = 1 .. 5
      /\ reasons[1] = Reason("runtime", reach["runtime"]) /\ reasons[2].scope = "dev"
      /\ reasons[3].scope = "build" /\ reasons[4] = Reason("optional", reach["optional"])
    BY DEF Reason
<1>2. ScopeOf(c) = FirstReason(c, reasons)
    BY DEF ScopeOf
<1> HIDE DEF reasons
<1>3. holding \subseteq 1 .. 5 /\ 4 \in holding
    BY <1>1 DEF Reason
<1> HIDE DEF holding
<1>4. PICK k \in holding : \A l \in holding : k <= l
    <2>1. CASE 1 \in holding
        BY <1>3, <2>1
    <2>2. CASE 1 \notin holding /\ 2 \in holding
        BY <1>3, <2>2
    <2>3. CASE 1 \notin holding /\ 2 \notin holding /\ 3 \in holding
        BY <1>3, <2>3
    <2>4. CASE 1 \notin holding /\ 2 \notin holding /\ 3 \notin holding
        BY <1>3, <2>4
    <2> QED BY <2>1, <2>2, <2>3, <2>4
<1> DEFINE first == CHOOSE m \in holding : \A l \in holding : m <= l
<1>5. first \in holding /\ \A l \in holding : first <= l
    BY <1>4
<1>6. ScopeOf(c) = reasons[first].scope
    BY <1>2, <1>3 DEF FirstReason, holding
<1> HIDE DEF first
<1>7. first \in 1 .. 4
    BY <1>3, <1>5
<1>8. first = 1
    BY <1>1, <1>6, <1>7 DEF Reason
<1> QED BY <1>1, <1>5, <1>8 DEF holding, Reason

CutOffInv == ScopeInv /\ EdgesOK /\ CutInv /\ AssignInv

LEMMA MergeCutOff == ASSUME CutOffInv, NEW c \in EdgeClaim, MergeClaim(c) PROVE CutOffInv'
<1>1. ScopeInv'
    BY MergeInv DEF CutOffInv
<1>2. EdgesOK'
    BY ScopeWalkAssumption DEF CutOffInv, EdgesOK, MergeClaim, MergeInto
<1>3. CutInv' /\ AssignInv'
    BY DEF MergeClaim, CutInv, AssignInv, Ended, Walk
<1> QED BY <1>1, <1>2, <1>3 DEF CutOffInv

LEMMA VisitCutOff == ASSUME CutOffInv, NEW n \in Node, Visit(n) PROVE CutOffInv'
<1> DEFINE on == {e[2] : e \in {x \in Successors(n) : Followed(walkPhase, x)}}
           off == {e[2] : e \in {x \in Successors(n) : ~ Followed(walkPhase, x)}}
<1>1. /\ walkPhase \in Walk /\ walkPhase' = walkPhase /\ edges' = edges /\ reach' = reach /\ cut' = cut
      /\ n \in frontier /\ reached' = reached \cup on
      /\ frontier' = (frontier \ {n}) \cup (on \ reached)
      /\ gated' = gated \cup off
    BY DEF Visit
<1>2. \A e \in DOMAIN edges : e[1] = n /\ ~ Followed(walkPhase, e) => e[2] \in off
    BY DEF Successors
<1> HIDE DEF on, off
<1>3. \A w \in Walk : /\ \A e \in DOMAIN edges : Followed(w, e)' = Followed(w, e)
                      /\ Ended(w)' = Ended(w)
    BY <1>1, RootsKept DEF Ended
<1>4. CutInv'
    BY <1>1, <1>2, <1>3 DEF CutOffInv, CutInv
<1>5. ScopeInv' /\ EdgesOK' /\ AssignInv'
    BY <1>1, VisitInv DEF CutOffInv, EdgesOK, AssignInv, Walk
<1> QED BY <1>4, <1>5 DEF CutOffInv

LEMMA EndWalkCutOff == ASSUME CutOffInv, EndWalk PROVE CutOffInv'
<1>1. /\ walkPhase \in Walk /\ frontier = {} /\ edges' = edges
      /\ reach' = [reach EXCEPT ![walkPhase] = reached]
      /\ cut' = [cut EXCEPT ![walkPhase] = gated]
      /\ walkPhase' = After[walkPhase]
    BY DEF EndWalk, StartWalk
<1>2. /\ reach'[walkPhase] = reached /\ cut'[walkPhase] = gated
      /\ \A w \in Walk : w # walkPhase => reach'[w] = reach[w] /\ cut'[w] = cut[w]
    BY <1>1 DEF CutOffInv, ScopeInv, Shape
<1>3. \/ walkPhase = "runtime" /\ walkPhase' = "dev"
      \/ walkPhase = "dev" /\ walkPhase' = "optional"
      \/ walkPhase = "optional" /\ walkPhase' = "assign"
    BY <1>1 DEF Walk, After
<1>4. \A w \in Walk : Ended(w)' <=> (Ended(w) \/ w = walkPhase)
    BY <1>3 DEF Ended, Walk
<1>5. \A w \in Walk : \A e \in DOMAIN edges : Followed(w, e)' = Followed(w, e)
    BY <1>1 DEF Followed, FollowsExtras, ExtrasGated
<1>6. walkPhase' \in Walk => frontier' = reached'
    BY <1>1 DEF EndWalk, StartWalk
<1>7. CutInv'
    <2> SUFFICES ASSUME NEW w \in Walk, NEW e \in DOMAIN edges, ~ Followed(w, e)
                 PROVE  /\ walkPhase' = w /\ e[1] \in reached' \ frontier' => e[2] \in gated'
                        /\ Ended(w)' /\ e[1] \in reach'[w] => e[2] \in cut'[w]
        BY <1>1, <1>5 DEF CutInv
    <2>1. walkPhase' = w /\ e[1] \in reached' \ frontier' => e[2] \in gated'
        BY <1>6
    <2>2. CASE w = walkPhase
        BY <1>1, <1>2, <2>1, <2>2 DEF CutOffInv, CutInv
    <2>3. CASE w # walkPhase
        BY <1>2, <1>4, <2>1, <2>3 DEF CutOffInv, CutInv
    <2> QED BY <2>2, <2>3
<1>8. ScopeInv' /\ EdgesOK' /\ AssignInv'
    BY <1>1, <1>3, EndWalkInv DEF CutOffInv, EdgesOK, AssignInv
<1> QED BY <1>7, <1>8 DEF CutOffInv

LEMMA AssignCutOff == ASSUME CutOffInv, Assign PROVE CutOffInv'
<1>1. /\ walkPhase = "assign" /\ walkPhase' = "done"
      /\ UNCHANGED <<edges, reached, frontier, gated, reach, cut>>
      /\ scopeOf' = [c \in Package |-> ScopeOf(c)] /\ conditional' = ConditionalOnly \cup Cut
    BY DEF Assign
<1>2. ConditionalOnly' = ConditionalOnly /\ Cut' = Cut
    BY <1>1 DEF ConditionalOnly, ProjectEdges, Cut
<1>3. AssignInv'
    BY <1>1, <1>2, RuntimeNeedsReach DEF AssignInv
<1>4. \A w \in Walk : /\ \A e \in DOMAIN edges : Followed(w, e)' = Followed(w, e)
                      /\ Ended(w)' = Ended(w) /\ walkPhase # w /\ walkPhase' # w
    BY <1>1 DEF Followed, FollowsExtras, ExtrasGated, Ended, Walk
<1>5. CutInv'
    BY <1>1, <1>4 DEF CutOffInv, CutInv
<1>6. ScopeInv' /\ EdgesOK'
    BY <1>1, StutterInv DEF CutOffInv, EdgesOK
<1> QED BY <1>3, <1>5, <1>6 DEF CutOffInv

LEMMA NextCutOff == CutOffInv /\ [WalkNext]_walkVars => CutOffInv'
<1> SUFFICES ASSUME CutOffInv, [WalkNext]_walkVars PROVE CutOffInv'
    OBVIOUS
<1>1. CASE \E c \in EdgeClaim : MergeClaim(c)
    BY <1>1, MergeCutOff
<1>2. CASE Merged
    <2>1. /\ walkPhase = "merge" /\ walkPhase' = "runtime" /\ edges' = edges
          /\ frontier' = reached'
        BY <1>2 DEF Merged, StartWalk
    <2>2. CutInv' /\ AssignInv' /\ EdgesOK'
        BY <2>1 DEF CutOffInv, CutInv, AssignInv, EdgesOK, Ended, Walk
    <2> QED BY <1>2, <2>2, MergedInv DEF CutOffInv
<1>3. CASE \E n \in Node : Visit(n)
    BY <1>3, VisitCutOff
<1>4. CASE EndWalk
    BY <1>4, EndWalkCutOff
<1>5. CASE Assign
    BY <1>5, AssignCutOff
<1>6. CASE UNCHANGED walkVars
    <2>1. ScopeInv'
        BY <1>6, NextScope DEF CutOffInv
    <2>2. CutInv' /\ EdgesOK'
        BY <1>6 DEF walkVars, CutOffInv, CutInv, EdgesOK, Ended, Followed, FollowsExtras, ExtrasGated
    <2>3. AssignInv'
        BY <1>6 DEF walkVars, CutOffInv, AssignInv, ConditionalOnly, ProjectEdges, Cut
    <2> QED BY <2>1, <2>2, <2>3 DEF CutOffInv
<1> QED BY <1>1, <1>2, <1>3, <1>4, <1>5, <1>6 DEF WalkNext

\* A component that only extras lead to is in a walk for being one of its roots.
LEMMA OnlyRootsBehindExtras ==
    ASSUME ScopeInv, NEW w \in {"runtime", "dev"}, Ended(w), NEW b \in reach[w],
           \A f \in DOMAIN edges : f[2] = b => ExtrasGated(f)
    PROVE  b \in RootsOf(w, cut)
<1>0. SUFFICES ASSUME b \notin RootsOf(w, cut) PROVE FALSE
    OBVIOUS
<1> DEFINE S == reach[w] \ {b}
<1>1. ClosedUnder(w, reach[w]) /\ \A T : ClosedUnder(w, T) => reach[w] \subseteq T
    BY DEF ScopeInv, WalksMissNothing, InsideInv, Inside, Walk
<1>2. ClosedUnder(w, S)
    BY <1>0, <1>1 DEF ClosedUnder, Followed, FollowsExtras
<1> QED BY <1>1, <1>2

\* The extra that leads to a component cuts it off, so it is conditional; it is
\* reached before the optional walk only where a project declares it.
LEMMA ExtrasCutOff == CutOffInv => ExtrasStayOptional
<1> SUFFICES ASSUME CutOffInv, walkPhase = "done", NEW e \in DOMAIN edges,
                    e[1] \in reach["runtime"] \cup reach["dev"], ExtrasGated(e),
                    \A f \in DOMAIN edges : f[2] = e[2] => ExtrasGated(f)
             PROVE  /\ e[2] \in conditional
                    /\ scopeOf[e[2]] = "runtime" => e[2] \in RuntimeRoots
    BY DEF ExtrasStayOptional
<1>1. e[2] \in Package /\ \A w \in Walk : Ended(w)
    BY DEF CutOffInv, EdgesOK, Ended
<1>2. e[2] \in cut["runtime"] \cup cut["dev"]
    BY <1>1 DEF CutOffInv, CutInv, Followed, FollowsExtras, Walk
<1>3. e[2] \in reach["optional"]
    BY <1>1, <1>2 DEF CutOffInv, ScopeInv, WalksMissNothing, ClosedUnder, RootsOf, Walk
<1>4. e[2] \in reach["runtime"] => e[2] \in RuntimeRoots
    BY <1>1, OnlyRootsBehindExtras DEF CutOffInv, RootsOf, Walk
<1>5. e[2] \in reach["dev"] => e[2] \in DevRoots
    BY <1>1, OnlyRootsBehindExtras DEF CutOffInv, RootsOf, Walk
<1>6. e[2] \in RuntimeRoots \cup DevRoots => e[2] \in ConditionalOnly
    BY <1>1 DEF RuntimeRoots, DevRoots, Children, ProjectEdges, ConditionalOnly, ExtrasGated, None
<1>7. e[2] \in conditional
    BY <1>2, <1>4, <1>5, <1>6 DEF CutOffInv, AssignInv, Cut
<1> QED BY <1>1, <1>3, <1>4, <1>7 DEF CutOffInv, AssignInv

\* What only extras bring in stays optional and conditional, on any graph.
THEOREM ExtrasAlwaysOptional == WalkSpec => []ExtrasStayOptional
<1>1. WalkInit => CutOffInv
    BY InitScope DEF CutOffInv, WalkInit, EdgesOK, CutInv, AssignInv, Ended, Walk
<1> QED BY <1>1, NextCutOff, ExtrasCutOff, PTL DEF WalkSpec

-----------------------------------------------------------------------------
(* Documents *)

\* No two documents have one label.
LabelsDiffer == \A d, e \in Document : LabelOf[d] = LabelOf[e] => d = e

\* Every set of entries has a first one.  (Induction on the number of entries,
\* which the invariant carries through Gather.)
HasFirst(D) == \A T \in SUBSET D : T # {} => \E x \in T : \A y \in T : x <= y

LEMMA SmallestIsSmallest ==
    ASSUME NEW D, HasFirst(D), NEW T \in SUBSET D, T # {}
    PROVE  Smallest(T) \in T
BY DEF HasFirst, Smallest

LEMMA NextHasFirst ==
    ASSUME NEW n \in Nat, HasFirst(1 .. n)
    PROVE  HasFirst(1 .. (n + 1))
<1> SUFFICES ASSUME NEW T \in SUBSET (1 .. (n + 1)), T # {}
             PROVE  \E x \in T : \A y \in T : x <= y
    BY DEF HasFirst
<1>1. CASE T \cap (1 .. n) = {}
    <2>1. \A y \in T : y = n + 1
        BY <1>1
    <2>2. PICK x \in T : TRUE
        OBVIOUS
    <2> QED BY <2>1, <2>2
<1>2. CASE T \cap (1 .. n) # {}
    <2>1. PICK x \in T \cap (1 .. n) : \A y \in T \cap (1 .. n) : x <= y
        BY <1>2 DEF HasFirst
    <2>2. \A y \in T : y \in 1 .. n \/ y = n + 1
        OBVIOUS
    <2> QED BY <2>1, <2>2
<1> QED BY <1>1, <1>2

\* A new entry and the entries it meets end in one group, and nothing else
\* moves.
LEMMA JoinJoins ==
    ASSUME NEW n \in Nat, HasFirst(1 .. n), NEW g \in [1 .. n -> 1 .. n],
           NEW met \in SUBSET (1 .. n)
    PROVE  /\ Join(g, n + 1, met) \in [1 .. (n + 1) -> 1 .. (n + 1)]
           /\ \A x, y \in 1 .. n :
                Join(g, n + 1, met)[x] = Join(g, n + 1, met)[y] <=>
                    \/ g[x] = g[y]
                    \/ (\E a \in met : g[x] = g[a]) /\ (\E b \in met : g[y] = g[b])
           /\ \A x \in 1 .. n :
                Join(g, n + 1, met)[x] = Join(g, n + 1, met)[n + 1] <=> \E a \in met : g[x] = g[a]
<1> DEFINE joined == {g[x] : x \in met}
           head == IF met = {} THEN n + 1 ELSE Smallest(joined)
           new == Join(g, n + 1, met)
<1>1. joined \in SUBSET (1 .. n) /\ (met # {} => joined # {})
    OBVIOUS
<1>2. met # {} => head \in joined
    BY <1>1, SmallestIsSmallest
<1>3. met = {} => head = n + 1 /\ joined = {}
    OBVIOUS
<1>4. new = [x \in (1 .. n) \cup {n + 1} |-> IF x = n + 1 \/ g[x] \in joined THEN head ELSE g[x]]
    BY DEF Join
<1>5. \A x \in 1 .. n : g[x] \in joined <=> \E a \in met : g[x] = g[a]
    OBVIOUS
<1> HIDE DEF joined, head, new
<1>6. (1 .. n) \cup {n + 1} = 1 .. (n + 1) /\ n + 1 \notin 1 .. n
    OBVIOUS
<1>7. head \in 1 .. (n + 1)
    BY <1>1, <1>2, <1>3, <1>6
<1>8. new \in [1 .. (n + 1) -> 1 .. (n + 1)]
    BY <1>4, <1>6, <1>7
<1>9. new[n + 1] = head
    BY <1>4
<1>10. \A x \in 1 .. n : new[x] = IF g[x] \in joined THEN head ELSE g[x]
    BY <1>4, <1>6
<1>11. \A x \in 1 .. n : g[x] \notin joined => g[x] # head
    BY <1>2, <1>3, <1>6
<1>12. \A x \in 1 .. n : new[x] = new[n + 1] <=> g[x] \in joined
    BY <1>9, <1>10, <1>11
<1>13. \A x, y \in 1 .. n : new[x] = new[y] <=> g[x] = g[y] \/ (g[x] \in joined /\ g[y] \in joined)
    BY <1>10, <1>11
<1> QED BY <1>5, <1>8, <1>12, <1>13 DEF new
---------------------------------------------------------------------------
Typed ==
    /\ stage \in {"gather", "link", "done"}
    /\ entries \in Seq([doc : Document, row : Nat, comp : Described])
    /\ groupOf \in [Entry -> Entry]
    /\ HasFirst(Entry)

\* The reasons to be in one group are honoured, and only they.
Shared == \A i, j \in Entry : KeysOf(i) \cap KeysOf(j) # {} => groupOf[i] = groupOf[j]

Respected ==
    \A S \in SUBSET Entry : ClosedUnderKeys(S) =>
        \A i, j \in Entry : groupOf[i] = groupOf[j] /\ i \in S => j \in S

\* A row is in a document once.
RowsOnce ==
    \A i, j \in Entry : i < j =>
        /\ entries[i].doc <= entries[j].doc
        /\ entries[i].doc = entries[j].doc => entries[i].row < entries[j].row

\* What is written follows from the groups.
Written ==
    stage # "gather" => idMap = IdMap /\ DOMAIN written = KeptGroups

GroupsInv == Typed /\ Shared /\ Respected /\ RowsOnce /\ Written

LEMMA InitGroups == MergeInit => GroupsInv
<1> SUFFICES ASSUME MergeInit PROVE GroupsInv
    OBVIOUS
<1>1. entries = <<>> /\ groupOf = <<>> /\ Entry = {} /\ stage = "gather"
    BY DEF MergeInit, Entry
<1>2. Typed
    BY <1>1 DEF Typed, HasFirst
<1> QED BY <1>1, <1>2 DEF GroupsInv, Shared, Respected, RowsOnce, Written

\* The entries a component meets share a key with it, and every entry that
\* does is in the group of one of them.
LEMMA MetShareKeys ==
    ASSUME Typed, Shared, NEW c
    PROVE  /\ MetBy(c) \in SUBSET Entry
           /\ \A m \in MetBy(c) : KeysOf(m) \cap IdentityKeys(c) # {}
           /\ \A i \in Entry : KeysOf(i) \cap IdentityKeys(c) # {} =>
                \E m \in MetBy(c) : groupOf[m] = groupOf[i]
<1>1. ASSUME NEW k, HoldersOf(k) # {}
      PROVE  ByKey(k) \in Entry /\ k \in KeysOf(ByKey(k))
    <2>1. HoldersOf(k) \in SUBSET Entry
        BY DEF HoldersOf
    <2>2. ByKey(k) \in HoldersOf(k)
        BY <1>1, <2>1, SmallestIsSmallest DEF ByKey, Typed
    <2> QED BY <2>2 DEF HoldersOf
<1>2. \A m \in MetBy(c) : m \in Entry /\ KeysOf(m) \cap IdentityKeys(c) # {}
    BY <1>1 DEF MetBy
<1>3. ASSUME NEW i \in Entry, KeysOf(i) \cap IdentityKeys(c) # {}
      PROVE  \E m \in MetBy(c) : groupOf[m] = groupOf[i]
    <2>1. PICK k \in KeysOf(i) : k \in IdentityKeys(c)
        BY <1>3
    <2>2. HoldersOf(k) # {}
        BY <2>1 DEF HoldersOf
    <2>3. ByKey(k) \in MetBy(c)
        BY <2>1, <2>2 DEF MetBy
    <2>4. ByKey(k) \in Entry /\ k \in KeysOf(ByKey(k))
        BY <2>2, <1>1
    <2>5. KeysOf(ByKey(k)) \cap KeysOf(i) # {}
        BY <2>1, <2>4
    <2>6. groupOf[ByKey(k)] = groupOf[i]
        BY <2>4, <2>5 DEF Shared
    <2> QED BY <2>3, <2>6
<1> QED BY <1>2, <1>3

LEMMA EntriesTyped ==
    ASSUME Typed, NEW i \in Entry
    PROVE  /\ entries[i].doc \in Document /\ entries[i].doc \in Nat
           /\ entries[i].row \in Nat /\ entries[i].comp \in Described
<1> DEFINE R == [doc : Document, row : Nat, comp : Described]
<1>1. entries \in Seq(R) /\ i \in 1 .. Len(entries)
    BY DEF Typed, Entry
<1> HIDE DEF R
<1>2. entries[i] \in R
    BY <1>1
<1> QED BY <1>2 DEF R, Document

LEMMA GatherGroups ==
    ASSUME GroupsInv, NEW d \in Document, NEW c \in Described, Gather(d, c)
    PROVE  GroupsInv'
<1> USE DEF GroupsInv
<1>0. PICK n, met : n = Len(entries) /\ met = MetBy(c)
    OBVIOUS
<1>1. n \in Nat /\ Entry = 1 .. n /\ Entry' = 1 .. (n + 1) /\ n + 1 \notin Entry
    BY <1>0 DEF Gather, Entry, Typed
<1>2. NextRow(d) \in Nat
    <2>1. CASE entries = <<>>
        BY <2>1 DEF NextRow
    <2>2. CASE entries # <<>>
        <3>1. Len(entries) \in Entry
            BY <2>2 DEF Typed, Entry
        <3>2. entries[Len(entries)].row \in Nat
            BY <3>1, EntriesTyped
        <3> QED BY <2>2, <3>2 DEF NextRow
    <2> QED BY <2>1, <2>2
<1>3. /\ \A i \in Entry : entries'[i] = entries[i]
      /\ entries'[n + 1] = [doc |-> d, row |-> NextRow(d), comp |-> c]
    BY <1>0, <1>1 DEF Gather, Typed
<1>4. /\ \A i \in Entry : KeysOf(i)' = KeysOf(i)
      /\ KeysOf(n + 1)' = IdentityKeys(c)
    BY <1>3 DEF KeysOf
<1>5. /\ met \in SUBSET Entry
      /\ \A m \in met : KeysOf(m) \cap IdentityKeys(c) # {}
      /\ \A i \in Entry : KeysOf(i) \cap IdentityKeys(c) # {} => \E m \in met : groupOf[m] = groupOf[i]
    BY <1>0, MetShareKeys
<1>6. groupOf' = Join(groupOf, n + 1, met)
    BY <1>0 DEF Gather
<1>7. /\ groupOf' \in [Entry' -> Entry']
      /\ \A x, y \in Entry : groupOf'[x] = groupOf'[y] <=>
            \/ groupOf[x] = groupOf[y]
            \/ (\E a \in met : groupOf[x] = groupOf[a]) /\ (\E b \in met : groupOf[y] = groupOf[b])
      /\ \A x \in Entry : groupOf'[x] = groupOf'[n + 1] <=> \E a \in met : groupOf[x] = groupOf[a]
    <2>1. HasFirst(1 .. n) /\ groupOf \in [1 .. n -> 1 .. n]
        BY <1>1 DEF Typed
    <2>2. met \in SUBSET (1 .. n)
        BY <1>1, <1>5
    <2>3. n \in Nat
        BY <1>1
    <2> DEFINE new == Join(groupOf, n + 1, met)
    <2>4. /\ new \in [1 .. (n + 1) -> 1 .. (n + 1)]
          /\ \A x, y \in 1 .. n : new[x] = new[y] <=>
                \/ groupOf[x] = groupOf[y]
                \/ (\E a \in met : groupOf[x] = groupOf[a]) /\ (\E b \in met : groupOf[y] = groupOf[b])
          /\ \A x \in 1 .. n : new[x] = new[n + 1] <=> \E a \in met : groupOf[x] = groupOf[a]
        BY <2>1, <2>2, <2>3, JoinJoins
    <2>5. groupOf' = new
        BY <1>6
    <2> HIDE DEF new
    <2> QED BY <1>1, <2>4, <2>5
<1>8. Typed'
    <2>1. entries' \in Seq([doc : Document, row : Nat, comp : Described])
        BY <1>2 DEF Gather, Typed
    <2>2. HasFirst(Entry)'
        <3>1. HasFirst(Entry')
            BY <1>1, NextHasFirst DEF Typed
        <3> QED BY <3>1 DEF HasFirst
    <2>3. stage' = "gather"
        BY DEF Gather
    <2> QED BY <1>7, <2>1, <2>2, <2>3 DEF Typed
<1>9. Shared'
    <2>1. ASSUME NEW i \in Entry', NEW j \in Entry', KeysOf(i)' \cap KeysOf(j)' # {}
          PROVE  groupOf'[i] = groupOf'[j]
        <3>1. \A x \in Entry' : x \in Entry \/ x = n + 1
            BY <1>1
        <3>2. CASE i \in Entry /\ j \in Entry
            <4>1. groupOf[i] = groupOf[j]
                BY <2>1, <3>2, <1>4 DEF Shared
            <4> QED BY <3>2, <4>1, <1>7
        <3>3. ASSUME NEW x \in Entry, KeysOf(x) \cap IdentityKeys(c) # {}
              PROVE  groupOf'[x] = groupOf'[n + 1]
            BY <3>3, <1>5, <1>7
        <3>4. CASE i \in Entry /\ j = n + 1
            BY <2>1, <3>3, <3>4, <1>4
        <3>5. CASE i = n + 1 /\ j \in Entry
            <4>1. KeysOf(j) \cap IdentityKeys(c) # {}
                BY <2>1, <3>5, <1>4
            <4> QED BY <4>1, <3>3, <3>5
        <3> QED BY <3>1, <3>2, <3>4, <3>5
    <2> QED BY <2>1 DEF Shared
<1>10. Respected'
    <2>1. ASSUME NEW S \in SUBSET Entry', ClosedUnderKeys(S)',
                 NEW i \in Entry', NEW j \in Entry', groupOf'[i] = groupOf'[j], i \in S
          PROVE  j \in S
        <3> DEFINE T == S \cap Entry
        <3>1. \A x \in Entry' : x \in Entry \/ x = n + 1
            BY <1>1
        <3>2. \A x \in S, y \in Entry' : KeysOf(x)' \cap KeysOf(y)' # {} => y \in S
            BY <2>1 DEF ClosedUnderKeys
        <3>3. ClosedUnderKeys(T)
            BY <3>2, <1>1, <1>4 DEF ClosedUnderKeys
        <3>4. T \in SUBSET Entry
            OBVIOUS
        <3>5. \A x, y \in Entry : groupOf[x] = groupOf[y] /\ x \in T => y \in T
            BY <3>3, <3>4 DEF Respected
        <3> HIDE DEF T
        <3>6. \A m \in met : m \in S <=> n + 1 \in S
            <4>1. ASSUME NEW m \in met PROVE m \in S <=> n + 1 \in S
                <5>1. m \in Entry /\ KeysOf(m)' \cap KeysOf(n + 1)' # {}
                    BY <1>4, <1>5
                <5>2. m \in Entry' /\ n + 1 \in Entry'
                    BY <1>1, <5>1
                <5>3. KeysOf(n + 1)' \cap KeysOf(m)' # {}
                    BY <5>1
                <5> QED BY <5>1, <5>2, <5>3, <3>2
            <4> QED BY <4>1
        <3>7. ASSUME NEW x \in Entry, NEW a \in met, groupOf[x] = groupOf[a]
              PROVE  x \in S <=> n + 1 \in S
            BY <3>5, <3>6, <3>7, <1>5 DEF T
        <3>8. CASE i \in Entry /\ j \in Entry
            <4>1. CASE groupOf[i] = groupOf[j]
                BY <3>5, <3>8, <4>1, <2>1 DEF T
            <4>2. CASE (\E a \in met : groupOf[i] = groupOf[a]) /\ (\E b \in met : groupOf[j] = groupOf[b])
                BY <3>7, <3>8, <4>2, <2>1
            <4> QED BY <4>1, <4>2, <3>8, <1>7, <2>1
        <3>9. CASE i \in Entry /\ j = n + 1
            BY <3>7, <3>9, <1>7, <2>1
        <3>10. CASE i = n + 1 /\ j \in Entry
            <4>1. \E a \in met : groupOf[j] = groupOf[a]
                BY <3>10, <1>7, <2>1
            <4> QED BY <4>1, <3>7, <3>10, <2>1
        <3> QED BY <3>1, <3>8, <3>9, <3>10, <2>1
    <2> QED BY <2>1 DEF Respected
<1>11. RowsOnce'
    <2>1. ASSUME NEW i \in Entry', NEW j \in Entry', i < j
          PROVE  /\ entries'[i].doc <= entries'[j].doc
                 /\ entries'[i].doc = entries'[j].doc => entries'[i].row < entries'[j].row
        <3>1. i \in Entry
            BY <1>1, <2>1
        <3>2. CASE j \in Entry
            BY <3>1, <3>2, <1>3, <2>1 DEF RowsOnce
        <3>3. CASE j = n + 1
            <4>1. entries'[i] = entries[i] /\ entries'[j].doc = d /\ entries'[j].row = NextRow(d)
                BY <3>1, <3>3, <1>3
            <4>2. entries[i].doc <= d
                BY <3>1 DEF Gather
            <4>3. n \in Entry /\ n = Len(entries) /\ entries # <<>> /\ (i < n \/ i = n)
                BY <3>1, <1>1, <1>0
            <4>4. ASSUME entries[i].doc = d PROVE entries[i].row < NextRow(d)
                <5>1. entries[n].doc <= d /\ entries[i].doc <= entries[n].doc
                    <6>1. entries[n].doc <= d
                        BY <4>3 DEF Gather
                    <6>2. i < n => entries[i].doc <= entries[n].doc
                        BY <3>1, <4>3 DEF RowsOnce
                    <6>3. entries[i].doc \in Nat
                        BY <3>1, EntriesTyped
                    <6> QED BY <6>1, <6>2, <6>3, <4>3
                <5>2. /\ entries[n].doc \in Nat /\ d \in Nat
                      /\ entries[i].row \in Nat /\ entries[n].row \in Nat
                    BY <3>1, <4>3, EntriesTyped DEF Document
                <5>3. entries[n].doc = d
                    BY <4>4, <5>1, <5>2
                <5>4. NextRow(d) = entries[n].row + 1
                    BY <4>3, <5>3 DEF NextRow
                <5>5. i < n => entries[i].row < entries[n].row
                    BY <3>1, <4>3, <4>4, <5>3 DEF RowsOnce
                <5> QED BY <4>3, <5>2, <5>4, <5>5
            <4> QED BY <4>1, <4>2, <4>4
        <3> QED BY <3>2, <3>3, <1>1
    <2> QED BY <2>1 DEF RowsOnce
<1>12. Written'
    BY DEF Written, Gather
<1> QED BY <1>8, <1>9, <1>10, <1>11, <1>12

\* Nothing but Gather touches the groups; the table follows from them.
LEMMA SameGroups ==
    ASSUME UNCHANGED <<strategy, entries, groupOf>>
    PROVE  /\ Entry' = Entry /\ IdMap' = IdMap /\ KeptGroups' = KeptGroups
           /\ \A i : KeysOf(i)' = KeysOf(i)
BY DEF Entry, IdMap, KeptGroups, KeysOf, WritersOf, WrittenBefore, Kept, SourceRow, InGroup,
       LabelsOf, GroupHeads

LEMMA SameGroupsKept ==
    ASSUME GroupsInv, UNCHANGED <<strategy, entries, groupOf>>, stage' \in {"link", "done"}, Written'
    PROVE  GroupsInv'
<1> USE SameGroups DEF GroupsInv
<1>1. Typed'
    BY DEF Typed, HasFirst
<1>2. Shared' /\ RowsOnce'
    BY DEF Shared, RowsOnce
<1>3. Respected'
    BY DEF Respected, ClosedUnderKeys
<1> QED BY <1>1, <1>2, <1>3

LEMMA NextGroups == GroupsInv /\ [MergeNext]_mergeVars => GroupsInv'
<1> SUFFICES ASSUME GroupsInv, [MergeNext]_mergeVars PROVE GroupsInv'
    OBVIOUS
<1>1. ASSUME NEW d \in Document, NEW c \in Described, Gather(d, c) PROVE GroupsInv'
    BY <1>1, GatherGroups
<1>2. CASE WriteComponents
    <2>1. UNCHANGED <<strategy, entries, groupOf>> /\ stage' = "link"
        BY <1>2 DEF WriteComponents
    <2>2. idMap' = IdMap /\ DOMAIN written' = KeptGroups
        BY <1>2 DEF WriteComponents
    <2>3. Written'
        BY <2>1, <2>2, SameGroups DEF Written
    <2> QED BY <2>1, <2>3, SameGroupsKept
<1>3. ASSUME NEW i \in Entry, NEW j \in Entry, WriteLink(i, j) PROVE GroupsInv'
    <2>1. UNCHANGED <<strategy, entries, groupOf, idMap, written>> /\ stage = "link" /\ stage' = "link"
        BY <1>3 DEF WriteLink
    <2>2. Written'
        BY <2>1, SameGroups DEF Written, GroupsInv
    <2> QED BY <2>1, <2>2, SameGroupsKept
<1>4. CASE Finish
    <2>1. UNCHANGED <<strategy, entries, groupOf, idMap, written>> /\ stage = "link" /\ stage' = "done"
        BY <1>4 DEF Finish
    <2>2. Written'
        BY <2>1, SameGroups DEF Written, GroupsInv
    <2> QED BY <2>1, <2>2, SameGroupsKept
<1>5. CASE UNCHANGED mergeVars
    <2>1. UNCHANGED <<strategy, stage, entries, groupOf, idMap, written>>
        BY <1>5 DEF mergeVars
    <2>2. Typed' /\ Written'
        BY <2>1, SameGroups DEF Typed, HasFirst, Written, GroupsInv
    <2>3. Shared' /\ RowsOnce'
        BY <2>1, SameGroups DEF Shared, RowsOnce, GroupsInv
    <2>4. Respected'
        BY <2>1, SameGroups DEF Respected, ClosedUnderKeys, GroupsInv
    <2> QED BY <2>2, <2>3, <2>4 DEF GroupsInv
<1> QED BY <1>1, <1>2, <1>3, <1>4, <1>5 DEF MergeNext

THEOREM GroupsInvariant == MergeSpec => []GroupsInv
<1> QED BY InitGroups, NextGroups, PTL DEF MergeSpec

\* Two components of the inputs become one exactly when a chain of shared
\* identity keys joins them, in whatever order the documents are named.
THEOREM GroupsAreAlwaysChains == MergeSpec => []GroupsAreChains
<1>1. GroupsInv => GroupsAreChains
    <2> SUFFICES ASSUME GroupsInv, NEW i \in Entry, NEW j \in Entry
                 PROVE  groupOf[i] = groupOf[j]
                          <=> \A S \in SUBSET Entry : i \in S /\ ClosedUnderKeys(S) => j \in S
        BY DEF GroupsAreChains
    <2>1. ASSUME groupOf[i] = groupOf[j], NEW S \in SUBSET Entry, i \in S, ClosedUnderKeys(S)
          PROVE  j \in S
        BY <2>1 DEF GroupsInv, Respected
    <2>2. ASSUME \A S \in SUBSET Entry : i \in S /\ ClosedUnderKeys(S) => j \in S
          PROVE  groupOf[i] = groupOf[j]
        <3>1. ClosedUnderKeys({x \in Entry : groupOf[x] = groupOf[i]})
            BY DEF GroupsInv, Shared, ClosedUnderKeys
        <3> QED BY <2>2, <3>1
    <2> QED BY <2>1, <2>2
<1> QED BY <1>1, GroupsInvariant, PTL
---------------------------------------------------------------------------
\* With distinct labels a row of the table belongs to one entry.
LEMMA RowsAreEntries ==
    ASSUME LabelsDiffer, GroupsInv, NEW i \in Entry, NEW j \in Entry, SourceRow(i) = SourceRow(j)
    PROVE  i = j
<1>1. LabelOf[entries[i].doc] = LabelOf[entries[j].doc] /\ entries[i].row = entries[j].row
    BY DEF SourceRow
<1>2. /\ entries[i].doc \in Document /\ entries[j].doc \in Document
      /\ entries[i].row \in Nat /\ entries[j].row \in Nat
    BY EntriesTyped DEF GroupsInv
<1>3. entries[i].doc = entries[j].doc
    BY <1>1, <1>2 DEF LabelsDiffer
<1>4. ~(entries[i].row < entries[j].row) /\ ~(entries[j].row < entries[i].row)
    BY <1>1, <1>2
<1>5. ~(i < j) /\ ~(j < i)
    BY <1>3, <1>4 DEF GroupsInv, RowsOnce
<1>6. i \in Nat /\ j \in Nat
    BY DEF Entry
<1> QED BY <1>5, <1>6

\* So the table leads from a row to the group of its component.
LEMMA IdMapLeadsHome ==
    ASSUME LabelsDiffer, GroupsInv, NEW i \in Entry
    PROVE  /\ SourceRow(i) \in DOMAIN IdMap <=> groupOf[i] \in KeptGroups
           /\ groupOf[i] \in KeptGroups => IdMap[SourceRow(i)] = groupOf[i]
<1>1. SourceRow(i) \in DOMAIN IdMap <=> Kept(groupOf[i])
    BY RowsAreEntries DEF IdMap
<1>2. groupOf[i] \in KeptGroups <=> Kept(groupOf[i])
    BY DEF KeptGroups, GroupHeads
<1>3. ASSUME groupOf[i] \in KeptGroups PROVE IdMap[SourceRow(i)] = groupOf[i]
    <2>1. WritersOf(SourceRow(i)) = {groupOf[i]}
        <3>1. groupOf[i] \in WritersOf(SourceRow(i))
            BY <1>3 DEF WritersOf, InGroup
        <3>2. ASSUME NEW g \in WritersOf(SourceRow(i)) PROVE g = groupOf[i]
            <4>1. PICK k \in Entry : groupOf[k] = g /\ SourceRow(k) = SourceRow(i)
                BY DEF WritersOf, InGroup
            <4> QED BY <4>1, RowsAreEntries
        <3> QED BY <3>1, <3>2
    <2>2. IdMap[SourceRow(i)] =
            CHOOSE g \in {groupOf[i]} : \A h \in {groupOf[i]} \ {g} : WrittenBefore(h, g)
        BY <1>1, <1>2, <1>3, <2>1 DEF IdMap
    <2> QED BY <2>2
<1> QED BY <1>1, <1>2, <1>3

\* The edges written so far are the ones EdgesKeepTheirEnds names.
LinksInv ==
    /\ links \in SUBSET (Entry \X Entry)
    /\ stage = "gather" => links = {}
    /\ EdgesKeepTheirEnds

\* --strategy intersect: in the labels is in the documents.
LEMMA KeptIsEverywhere ==
    ASSUME LabelsDiffer, GroupsInv, NEW g \in GroupHeads
    PROVE  Kept(g) <=> (strategy = "intersect" =>
                          \A d \in Document : \E i \in InGroup(g) : entries[i].doc = d)
<1>1. InGroup(g) \in SUBSET Entry /\ \A i \in Entry : entries[i].doc \in Document
    BY EntriesTyped DEF GroupsInv, InGroup
<1>2. LabelsOf(g) = AllLabels <=> \A d \in Document : \E i \in InGroup(g) : entries[i].doc = d
    <2>1. ASSUME LabelsOf(g) = AllLabels, NEW d \in Document
          PROVE  \E i \in InGroup(g) : entries[i].doc = d
        <3>1. LabelOf[d] \in LabelsOf(g)
            BY <2>1 DEF AllLabels
        <3>2. PICK i \in InGroup(g) : LabelOf[entries[i].doc] = LabelOf[d]
            BY <3>1 DEF LabelsOf
        <3> QED BY <3>2, <1>1 DEF LabelsDiffer
    <2>2. ASSUME \A d \in Document : \E i \in InGroup(g) : entries[i].doc = d
          PROVE  LabelsOf(g) = AllLabels
        BY <2>2, <1>1 DEF LabelsOf, AllLabels
    <2> QED BY <2>1, <2>2
<1> QED BY <1>2 DEF Kept

\* Two ends in different components that are written.
Moved(l) ==
    /\ groupOf[l[1]] # groupOf[l[2]]
    /\ groupOf[l[1]] \in DOMAIN written /\ groupOf[l[2]] \in DOMAIN written

LEMMA WriteLinkKeepsEnds ==
    ASSUME LabelsDiffer, GroupsInv, LinksInv, NEW i \in Entry, NEW j \in Entry, WriteLink(i, j)
    PROVE  LinksInv'
<1>1. stage = "link" /\ stage' = "link" /\ UNCHANGED <<strategy, entries, groupOf, written, idMap>>
    BY DEF WriteLink
<1>2. idMap = IdMap /\ DOMAIN written = KeptGroups
    BY <1>1 DEF GroupsInv, Written
<1>3. mergedLinks' = IF Moved(<<i, j>>) THEN mergedLinks \cup {<<groupOf[i], groupOf[j]>>}
                     ELSE mergedLinks
    <2>1. ASSUME NEW k \in Entry
          PROVE  /\ SourceRow(k) \in DOMAIN idMap <=> groupOf[k] \in DOMAIN written
                 /\ groupOf[k] \in DOMAIN written => idMap[SourceRow(k)] = groupOf[k]
        BY <1>2, IdMapLeadsHome
    <2>2. mergedLinks' =
            IF SourceRow(i) \in DOMAIN idMap /\ SourceRow(j) \in DOMAIN idMap
                 /\ idMap[SourceRow(i)] # idMap[SourceRow(j)]
            THEN mergedLinks \cup {<<idMap[SourceRow(i)], idMap[SourceRow(j)]>>} ELSE mergedLinks
        BY DEF WriteLink
    <2> QED BY <2>1, <2>2 DEF Moved
<1>4. mergedLinks = {<<groupOf[l[1]], groupOf[l[2]]>> : l \in {k \in links : Moved(k)}}
    BY DEF LinksInv, EdgesKeepTheirEnds, Moved
<1>5. links' = links \cup {<<i, j>>}
    BY DEF WriteLink
<1>6. mergedLinks' = {<<groupOf[l[1]], groupOf[l[2]]>> : l \in {k \in links' : Moved(k)}}
    <2>1. <<i, j>>[1] = i /\ <<i, j>>[2] = j
        OBVIOUS
    <2>2. {k \in links' : Moved(k)} =
            IF Moved(<<i, j>>) THEN {k \in links : Moved(k)} \cup {<<i, j>>} ELSE {k \in links : Moved(k)}
        BY <1>5
    <2> QED BY <1>3, <1>4, <2>1, <2>2
<1>7. EdgesKeepTheirEnds'
    BY <1>1, <1>6 DEF EdgesKeepTheirEnds, Moved
<1>8. links' \in SUBSET (Entry' \X Entry')
    BY <1>1, <1>5 DEF LinksInv, Entry
<1> QED BY <1>1, <1>7, <1>8 DEF LinksInv

LEMMA NextLinks == LabelsDiffer /\ GroupsInv /\ LinksInv /\ [MergeNext]_mergeVars => LinksInv'
<1> SUFFICES ASSUME LabelsDiffer, GroupsInv, LinksInv, [MergeNext]_mergeVars PROVE LinksInv'
    OBVIOUS
<1>1. ASSUME stage = "gather", UNCHANGED <<links, mergedLinks>> PROVE LinksInv'
    <2>1. links = {}
        BY <1>1 DEF LinksInv
    <2>2. mergedLinks = {}
        BY <2>1 DEF LinksInv, EdgesKeepTheirEnds
    <2>3. links' = {} /\ mergedLinks' = {}
        BY <1>1, <2>1, <2>2
    <2> QED BY <2>3 DEF LinksInv, EdgesKeepTheirEnds
<1>2. ASSUME NEW d \in Document, NEW c \in Described, Gather(d, c) PROVE LinksInv'
    BY <1>1, <1>2 DEF Gather
<1>3. CASE WriteComponents
    BY <1>1, <1>3 DEF WriteComponents
<1>4. ASSUME NEW i \in Entry, NEW j \in Entry, WriteLink(i, j) PROVE LinksInv'
    BY <1>4, WriteLinkKeepsEnds
<1>5. CASE Finish
    <2>1. UNCHANGED <<entries, groupOf, written, links, mergedLinks>> /\ stage' = "done"
        BY <1>5 DEF Finish
    <2> QED BY <2>1 DEF LinksInv, EdgesKeepTheirEnds, Entry
<1>6. CASE UNCHANGED mergeVars
    BY <1>6 DEF mergeVars, LinksInv, EdgesKeepTheirEnds, Entry
<1> QED BY <1>2, <1>3, <1>4, <1>5, <1>6 DEF MergeNext

\* As long as no two documents have one label, the merged document has the
\* edges of its inputs between the components their ends became, and no others.
THEOREM EdgesAlwaysKeepTheirEnds ==
    ASSUME LabelsDiffer
    PROVE  MergeSpec => []EdgesKeepTheirEnds
<1>1. MergeInit => LinksInv
    BY DEF MergeInit, LinksInv, EdgesKeepTheirEnds
<1>2. GroupsInv /\ LinksInv /\ [MergeNext]_mergeVars => LinksInv'
    BY NextLinks
<1>3. LinksInv => EdgesKeepTheirEnds
    BY DEF LinksInv
<1> QED BY <1>1, <1>2, <1>3, GroupsInvariant, PTL DEF MergeSpec

\* As long as no two documents have one label, an intersection keeps exactly
\* what every document lists, and the other strategies keep everything.
THEOREM IntersectionsAreIntersections ==
    ASSUME LabelsDiffer
    PROVE  MergeSpec => []IntersectMeansEverywhere
<1>1. GroupsInv => IntersectMeansEverywhere
    <2> SUFFICES ASSUME GroupsInv, stage # "gather"
                 PROVE  DOMAIN written =
                          {g \in GroupHeads : strategy = "intersect" =>
                               \A d \in Document : \E i \in InGroup(g) : entries[i].doc = d}
        BY DEF IntersectMeansEverywhere
    <2>1. DOMAIN written = KeptGroups
        BY DEF GroupsInv, Written
    <2> QED BY <2>1, KeptIsEverywhere DEF KeptGroups
<1> QED BY <1>1, GroupsInvariant, PTL

\* As long as no two documents have one label, a merge loses and invents nothing.
THEOREM MergeAlwaysFaithful ==
    ASSUME LabelsDiffer
    PROVE  MergeSpec => []MergeIsFaithful
<1>1. EdgesKeepTheirEnds /\ IntersectMeansEverywhere => MergeIsFaithful
    BY DEF MergeIsFaithful
<1> QED BY <1>1, EdgesAlwaysKeepTheirEnds, IntersectionsAreIntersections, PTL
=============================================================================
