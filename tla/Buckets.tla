------------------------------ MODULE Buckets ------------------------------
(***************************************************************************)
(* How reconcile() (core/reconcile.py) turns findings into components:     *)
(* a union-find over identity keys, whole families in the ecosystems that  *)
(* hold one version per environment, then the claims without a version,    *)
(* and last one component per bucket with its pinned version, its          *)
(* annotations and the references that lead to it.                         *)
(*                                                                         *)
(* A finding is its claim: the digests it carries, whether it has a purl,  *)
(* its family (ecosystem, namespace and name; the families are numbered in *)
(* the order of their names), its version (0: none), its build variant and *)
(* the highest tier of its evidence.  Every finding has evidence.          *)
(* `root' is what find() returns: parent pointers and path compression     *)
(* change no answer of it.  The catalogers give a purl to a claim only     *)
(* when they know the version; ctype, and the name in its own case, are    *)
(* part of the family here, so two claims with one reference have one key. *)
(***************************************************************************)
EXTENDS Integers, Sequences, FiniteSets

CONSTANTS
    Digest,      \* digests
    Families,    \* number of families
    Versions,    \* number of versions of a family
    Variants,    \* number of build variants (1 but for vcpkg)
    OneVersion,  \* the families of SINGLE_VERSION_ECOS
    Claim,       \* the claims that catalogers make
    MaxFindings  \* bound: findings of one scan

Family  == 1 .. Families
Version == 0 .. Versions
Variant == 1 .. Variants
Tier    == 1 .. 5

ASSUME BucketsAssumption ==
    /\ Families \in Nat /\ Versions \in Nat /\ Variants \in Nat
    /\ MaxFindings \in Nat
    /\ OneVersion \subseteq Family
    /\ \A c \in Claim : c.purl => c.ver # 0
    /\ Claim \subseteq [digests : SUBSET Digest, purl : BOOLEAN, fam : Family,
                        ver : Version, variant : Variant, tier : Tier]

VARIABLES
    claims,     \* real: the findings, in the order they were stored
    root,       \* uf.find of every finding
    byKey,      \* by_key: the first finding with each key
    phase,      \* which loop runs
    cursor,     \* the finding or the family the loop is at
    ambiguous,  \* versionless claims that match several concrete components
    components, \* what store.add_component was given, by bucket
    refs,       \* ref_to_cid, by bucket
    marked      \* components annotated ambiguous-declared

vars == <<claims, root, byKey, phase, cursor, ambiguous, components, refs, marked>>

Finding == 1 .. Len(claims)

\* dict.setdefault of every key.
SetDefault(f, keys, value) ==
    [k \in DOMAIN f \cup keys |-> IF k \in DOMAIN f THEN f[k] ELSE value]
---------------------------------------------------------------------------
(* Identity *)

Purl(c) == <<"purl", c.fam, c.ver, c.variant>>
Coordinate(c) == <<"name", c.fam, c.ver, 0>>
DigestKey(d) == <<"digest", d, 0, 0>>

Keys(c) == {DigestKey(d) : d \in c.digests}
             \cup (IF c.purl THEN {Purl(c)}
                   ELSE IF c.ver # 0 THEN {Coordinate(c)} ELSE {})

\* A reference that leaves the version out.
RefByName(c) == <<"name", c.fam, 0, 0>>

Ref(c) == IF c.purl THEN Purl(c) ELSE Coordinate(c)

\* Two versioned claims that one environment has room for only one of.
SameSlot(c, d) ==
    /\ c.ver # 0 /\ d.ver # 0
    /\ c.fam = d.fam /\ c.fam \in OneVersion
    /\ c.variant = d.variant

Concrete(f) == {i \in Finding : claims[i].fam = f /\ claims[i].ver # 0}
Unresolved(f) == {i \in Finding : claims[i].fam = f /\ claims[i].ver = 0}
---------------------------------------------------------------------------
(* Union-find *)

Least(S) == CHOOSE x \in S : \A y \in S : x <= y

Greatest(S) == CHOOSE x \in S : \A y \in S : x >= y

\* Only the claims themselves move, not the buckets they are in.
MergeClaimsOnly(r, S) ==
    [x \in DOMAIN r |-> IF x \in S THEN Least({r[y] : y \in S}) ELSE r[x]]

\* uf.union of every member of S, all of them in the domain of r.
Merge(r, S) ==
    LET roots == {r[x] : x \in S}
    IN  [x \in DOMAIN r |-> IF r[x] \in roots THEN Least(roots) ELSE r[x]]

\* uf.find of a finding that is not there yet.
WithOwnBucket(r, i) == [x \in DOMAIN r \cup {i} |-> IF x = i THEN i ELSE r[x]]

Roots(S) == {root[i] : i \in S}
Members(r) == {i \in Finding : root[i] = r}
---------------------------------------------------------------------------
(* A bucket and its component *)

LexLess(s, t) == \E k \in DOMAIN s : s[k] < t[k] /\ \A j \in 1 .. (k - 1) : s[j] = t[j]

\* member_key; of two that tie, the one stored first comes first.
Rank(i) ==
    LET c == claims[i]
    IN  <<c.tier, c.ver, IF c.purl THEN c.fam ELSE 0,
          IF c.purl THEN c.variant ELSE 0, c.fam, 0 - i>>

First(S) == CHOOSE i \in S : \A j \in S \ {i} : LexLess(Rank(j), Rank(i))

\* The claim the component takes its name, its type and its ecosystem from.
Base(S) ==
    LET best == {i \in S : claims[i].purl}
        pool == IF best = {} THEN S ELSE best
        full == {i \in pool : claims[i].ver # 0}
    IN  First(IF full = {} THEN pool ELSE full)

Versioned(S) == {i \in S : claims[i].ver # 0}

PinnedVersion(S) ==
    IF Versioned(S) = {} THEN 0 ELSE claims[First(Versioned(S))].ver

PinTier(S) == IF Versioned(S) = {} THEN 1 ELSE claims[First(Versioned(S))].tier

ComponentPurl(S) ==
    LET named == {i \in S : claims[i].purl}
        exact == {i \in named : claims[i].ver = PinnedVersion(S)}
    IN  IF exact # {} THEN Purl(claims[First(exact)])
        ELSE IF named # {} THEN Purl(claims[First(named)])
        ELSE <<"purl", claims[First(S)].fam, 0, 1>>

Losers(S) == {i \in Versioned(S) : claims[i].ver # PinnedVersion(S)}

Component(S) ==
    [version    |-> PinnedVersion(S),
     tier       |-> PinTier(S),
     purl       |-> ComponentPurl(S),
     conflicts  |-> IF claims[Base(S)].fam \in OneVersion
                    THEN {claims[i].ver : i \in {j \in Losers(S) : claims[j].tier = PinTier(S)}}
                    ELSE {},
     superseded |-> {<<claims[i].ver, claims[i].tier>> :
                         i \in {j \in Losers(S) : claims[j].tier # PinTier(S)}}]

\* bucket_items: by the name and the version of the root's claim.
BucketOrder(r) == <<claims[r].fam, claims[r].ver, r>>
Waiting == Roots(Finding) \ DOMAIN components
NextBucket == CHOOSE r \in Waiting : \A s \in Waiting \ {r} : LexLess(BucketOrder(r), BucketOrder(s))
---------------------------------------------------------------------------
Init ==
    /\ claims = <<>>
    /\ root = <<>>
    /\ byKey = [k \in {} |-> 0]
    /\ phase = "keys"
    /\ cursor = 1
    /\ ambiguous = {}
    /\ components = [r \in {} |-> 0]
    /\ refs = [k \in {} |-> 0]
    /\ marked = {}

\* The first loop of reconcile(): one finding, all of its keys.
Collect(c) ==
    LET i     == Len(claims) + 1
        known == {byKey[k] : k \in Keys(c) \cap DOMAIN byKey}
    IN  /\ phase = "keys"
        /\ i <= MaxFindings
        /\ claims' = Append(claims, c)
        /\ root' = Merge(WithOwnBucket(root, i), known \cup {i})
        /\ byKey' = SetDefault(byKey, Keys(c), i)
        /\ UNCHANGED <<phase, cursor, ambiguous, components, refs, marked>>

Collected ==
    /\ phase = "keys"
    /\ phase' = "families"
    /\ cursor' = 1
    /\ UNCHANGED <<claims, root, byKey, ambiguous, components, refs, marked>>

\* One finding of a single-version family joins the first of its variant.
MergeFamily ==
    /\ phase = "families"
    /\ cursor \in Finding
    /\ root' = Merge(root, {cursor} \cup {j \in Finding : j < cursor /\ SameSlot(claims[j], claims[cursor])})
    /\ cursor' = cursor + 1
    /\ UNCHANGED <<claims, byKey, phase, ambiguous, components, refs, marked>>

FamiliesMerged ==
    /\ phase = "families"
    /\ cursor \notin Finding
    /\ phase' = "attach"
    /\ cursor' = 1
    /\ UNCHANGED <<claims, root, byKey, ambiguous, components, refs, marked>>

\* Several concrete components are no reason to stop.
AttachToAnyConcrete ==
    LET unresolved == Unresolved(cursor)
        concrete   == {root[i] : i \in Concrete(cursor)}
    IN  /\ phase = "attach"
        /\ cursor \in Family
        /\ cursor' = cursor + 1
        /\ IF unresolved = {} THEN UNCHANGED <<root, ambiguous>>
           ELSE /\ root' = Merge(root, unresolved \cup Concrete(cursor))
                /\ ambiguous' = IF Cardinality(concrete) > 1 THEN ambiguous \cup unresolved ELSE ambiguous
        /\ UNCHANGED <<claims, byKey, phase, components, refs, marked>>

\* The claims of a family that have no version: with one another, then with
\* the concrete component of the family if there is exactly one.
Attach ==
    LET unresolved == Unresolved(cursor)
        siblings   == Merge(root, unresolved)
        concrete   == {siblings[i] : i \in Concrete(cursor)}
    IN  /\ phase = "attach"
        /\ cursor \in Family
        /\ cursor' = cursor + 1
        /\ IF unresolved = {} THEN UNCHANGED <<root, ambiguous>>
           ELSE IF Cardinality(concrete) = 1
                THEN /\ root' = Merge(siblings, unresolved \cup Concrete(cursor))
                     /\ UNCHANGED ambiguous
           ELSE /\ root' = siblings
                /\ ambiguous' = IF concrete = {} THEN ambiguous ELSE ambiguous \cup unresolved
        /\ UNCHANGED <<claims, byKey, phase, components, refs, marked>>

Attached ==
    /\ phase = "attach"
    /\ cursor \notin Family
    /\ phase' = "pin"
    /\ UNCHANGED <<claims, root, byKey, cursor, ambiguous, components, refs, marked>>

\* One bucket becomes a component; a reference that is taken stays with the
\* component that took it.
Pin ==
    /\ phase = "pin"
    /\ Waiting # {}
    /\ LET r == NextBucket
           S == Members(r)
       IN  /\ components' = SetDefault(components, {r}, Component(S))
           /\ refs' = SetDefault(refs, {Ref(claims[i]) : i \in S} \cup {ComponentPurl(S)}, r)
    /\ UNCHANGED <<claims, root, byKey, phase, cursor, ambiguous, marked>>

\* The annotations go to the component that the claim's reference leads to.
MarkAmbiguous ==
    /\ phase = "pin"
    /\ Waiting = {}
    /\ marked' = {refs[Ref(claims[i])] : i \in ambiguous}
    /\ phase' = "done"
    /\ UNCHANGED <<claims, root, byKey, cursor, ambiguous, components, refs>>

Next ==
    \/ \E c \in Claim : Collect(c)
    \/ Collected
    \/ MergeFamily
    \/ FamiliesMerged
    \/ Attach
    \/ Attached
    \/ Pin
    \/ MarkAmbiguous

Spec == Init /\ [][Next]_vars
---------------------------------------------------------------------------
(* Properties *)

\* What the loops rely on: find() returns the root of the bucket, which is
\* the smallest member of it, and every key was first seen in a finding that
\* has it.
TypeOK ==
    /\ claims \in Seq(Claim) /\ Len(claims) <= MaxFindings
    /\ root \in [Finding -> Finding]
    /\ \A i \in Finding : root[root[i]] = root[i] /\ root[i] <= i
    /\ \A k \in DOMAIN byKey : byKey[k] \in Finding /\ k \in Keys(claims[byKey[k]])
    /\ phase \in {"keys", "families", "attach", "pin", "done"}
    /\ cursor \in Nat
    /\ ambiguous \subseteq {i \in Finding : claims[i].ver = 0}
    /\ DOMAIN components \subseteq Roots(Finding)
    /\ marked \subseteq DOMAIN components

\* A set of findings that no reason to merge crosses: no shared key, no
\* shared slot, no two unresolved claims of a family, and no unresolved claim
\* of a family whose concrete claims are all on one side.
KeysClosed(S) ==
    \A i \in S, j \in Finding \ S : Keys(claims[i]) \cap Keys(claims[j]) = {}

SlotsClosed(S) ==
    \A i \in S, j \in Finding \ S :
        ~ SameSlot(claims[i], claims[j]) /\ ~ SameSlot(claims[j], claims[i])

FamiliesClosed(S) ==
    \A f \in Family :
        /\ Unresolved(f) \subseteq S \/ Unresolved(f) \cap S = {}
        /\ Concrete(f) # {} /\ Concrete(f) \subseteq S => Unresolved(f) \subseteq S
        /\ Concrete(f) # {} /\ Concrete(f) \cap S = {} => Unresolved(f) \cap S = {}

Closed(S) == KeysClosed(S) /\ SlotsClosed(S) /\ FamiliesClosed(S)

\* No bucket of r has a member in S and one outside.
Respects(r, S) == \A i, j \in DOMAIN r : r[i] = r[j] => (i \in S <=> j \in S)

\* Two findings share a bucket only for a reason: what no chain of reasons
\* connects is never one component (core/reconcile.py, steps 1 and 2).
MergedForAReason == \A S \in SUBSET Finding : Closed(S) => Respects(root, S)

\* Nothing is reported twice: findings that share a key, a slot or an
\* unresolved family are in one bucket when the components are made.
OneComponentPerThing ==
    phase \in {"pin", "done"} => \A i, j \in Finding :
        \/ Keys(claims[i]) \cap Keys(claims[j]) # {}
        \/ SameSlot(claims[i], claims[j])
        \/ claims[i].fam = claims[j].fam /\ claims[i].ver = 0 /\ claims[j].ver = 0
        => root[i] = root[j]

\* No finding outranks the version its component carries: an environment's
\* version is the one its strongest source saw (test_reconcile.py,
\* single_version_family_pins_highest_tier), and of equals the greatest.
PinIsStrongest ==
    phase = "done" => \A i \in Finding : claims[i].ver # 0 =>
        LET comp == components[root[i]]
        IN  /\ \/ claims[i].tier < comp.tier
               \/ claims[i].tier = comp.tier /\ claims[i].ver <= comp.version
            /\ claims[i].tier < comp.tier /\ claims[i].ver # comp.version
               => <<claims[i].ver, claims[i].tier>> \in comp.superseded

\* The reference of a finding leads to the component the finding is in, so
\* its edges and annotations land there.
RefsLeadHome ==
    phase = "done" => \A i \in Finding : refs[Ref(claims[i])] = root[i]

\* A component carries its strongest claim, and its claims lead to it.
ClaimsComeHome == PinIsStrongest /\ RefsLeadHome
=============================================================================
