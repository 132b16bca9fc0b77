---------------------------- MODULE MCReconcile ----------------------------
(* reconcile() for TLC: findings become components (Buckets), and the edges
   between components give them their scopes (ScopeWalk); and merge_stores,
   which reconciles the components of several documents (DocMerge).  They share
   no state: a behaviour explores one of them. *)
EXTENDS Buckets, ScopeWalk, DocMerge

CONSTANTS d1, d2, app, lib, pkgA, pkgB, pkgC

Make(D, P, F, V, X, T) ==
    [digests : D, purl : P, fam : F, ver : V, variant : X, tier : T]

\* Two families, any digest, with and without a version.
MixedClaims ==
    Make({{}, {d1}}, {FALSE}, {2}, 0 .. 2, {1}, {3})
        \cup Make({{d2}}, {FALSE}, {2}, 0 .. 1, {1}, {3})
        \cup Make({{d2}}, {FALSE}, {1}, {1}, {1}, {3})

\* Purls, names and several digests at once, a family of each kind.
KeyedClaims ==
    Make({{}, {d1}, {d1, d2}}, {FALSE}, {1}, {0}, {1}, {3})
        \cup Make({{}, {d1}, {d1, d2}}, BOOLEAN, {1}, {1}, {1}, {3})
        \cup Make({{}, {d2}}, {FALSE}, {2}, {0}, {1}, {3})
        \cup Make({{}, {d2}}, BOOLEAN, {2}, 1 .. 2, {1}, {3})

\* One environment seen by sources of three tiers.
TieredClaims ==
    Make({{}}, {FALSE}, {1}, {0}, {1}, {2})
        \cup Make({{}}, {TRUE}, {1}, 1 .. 3, {1}, 2 .. 4)

\* A port built for two triplets.
VariantClaims ==
    Make({{}}, {TRUE}, {1}, 1 .. 2, {1, 2}, 3 .. 4) \cup Make({{}}, {FALSE}, {1}, {0}, {1}, {2})

AllClaims == MixedClaims \cup KeyedClaims \cup TieredClaims \cup VariantClaims
EnvironmentFamily == {1}

\* The findings of a scan are of one of these kinds.
OneKind(found) ==
    \/ found \subseteq MixedClaims
    \/ Len(claims) <= 3 /\ found \subseteq KeyedClaims
    \/ Len(claims) <= 3 /\ found \subseteq TieredClaims
    \/ Len(claims) <= 3 /\ found \subseteq VariantClaims

Claims(from, to, scopes, markers) ==
    [src : from, dst : to, scope : scopes, marker : markers]

\* A project and three components that may require one another in cycles.
CyclicClaims ==
    Claims({app}, {pkgA, pkgB}, {"runtime", "dev"}, {None})
        \cup Claims({app}, {pkgB}, {"optional"}, {None})
        \cup (Claims({pkgA, pkgB, pkgC}, {pkgA, pkgB, pkgC}, {None}, {None}) \ Claims({pkgA, pkgB}, {pkgA, pkgB}, {None}, {None}))
        \cup Claims({pkgA}, {pkgB}, {None}, {None, "extra"})
        \cup Claims({pkgB}, {pkgC}, {None}, {"extra"})

\* Two projects that declare the same components under different scopes and
\* conditions.
DeclaredClaims ==
    Claims({app}, {pkgA}, {None, "optional"}, {None, "environment", "extra"})
        \cup Claims({lib}, {pkgA}, {None, "build", "test"}, {None, "environment", "extra"})
        \cup Claims({pkgA}, {pkgB}, {None}, {None, "environment", "extra"})
        \cup Claims({lib}, {pkgB}, {"dev"}, {None})
        \cup Claims({lib}, {pkgB}, {None}, {"extra"})

AllEdgeClaims == CyclicClaims \cup DeclaredClaims

OneGraph(found) ==
    \/ found \subseteq CyclicClaims
    \/ Len(claimed) <= 3 /\ found \subseteq DeclaredClaims

\* Two documents of two packages: one in two versions, seen with and without its
\* digest, and with the digest alone; and one whose digest may be another.
FileNames == <<"old.json", "new.json">>

List(H, P, G, V, R) == [hash : H, purl : P, pkg : G, ver : V, rank : R]

Listed ==
    List({0, 1}, {TRUE}, {1}, 1 .. 2, {1})
        \cup List({1}, {FALSE}, {1}, {0}, {2})
        \cup List({0, 2}, {FALSE}, {2}, {1}, {1})

VARIABLE explored

BucketsStep ==
    /\ explored = "buckets"
    /\ Next
    /\ OneKind({claims[i] : i \in Finding})'
    /\ UNCHANGED <<walkVars, mergeVars, explored>>

WalkStep ==
    /\ explored = "walks"
    /\ WalkNext
    /\ OneGraph({claimed[i] : i \in 1 .. Len(claimed)})'
    /\ UNCHANGED <<vars, mergeVars, explored>>

MergeStep ==
    /\ explored = "documents"
    /\ MergeNext
    /\ UNCHANGED <<vars, walkVars, explored>>

ReconcileInit ==
    /\ explored \in {"buckets", "walks", "documents"}
    /\ Init /\ WalkInit
    /\ MergeInit /\ (explored # "documents" => strategy = "union")

\* reconcile() runs to its end.
ReconcileSpec ==
    /\ ReconcileInit
    /\ [][BucketsStep \/ WalkStep \/ MergeStep]_<<vars, walkVars, mergeVars, explored>>
    /\ WF_walkVars(WalkStep)
=============================================================================
