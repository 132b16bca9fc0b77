---------------------------- MODULE Installation ----------------------------
(* What a package manager installed, which the lock file catalogers read back
   (catalogers/).  A project requires packages under sections of its manifest,
   packages need packages; a workspace member is a package of the project's own
   tree with a manifest of its own. *)
EXTENDS Findings

Section == {"runtime", "dev", "optional"}

VARIABLES
    installed,   \* the packages the manager installed
    needs,       \* <<p, q>>: p requires q
    maybe,       \* the needs that are optional dependencies
    section,     \* a package the project requires -> where its manifest says so
    members      \* the packages that are workspace members

world == <<installed, needs, maybe, section, members>>

Required(sections) == {p \in DOMAIN section : section[p] \in sections}
NeedsOf(p) == {q \in installed : <<p, q>> \in needs}

\* Everything that start leads to over edges, a set of pairs.
ReachOver(start, edges) ==
    LET reach[n \in 0 .. Cardinality(edges)] ==
          IF n = 0 THEN start
          ELSE reach[n - 1] \cup {e[2] : e \in {d \in edges : d[1] \in reach[n - 1]}}
    IN  reach[Cardinality(edges)]

NeededBy(sections) == ReachOver(Required(sections), needs)
\* A manager installs one version of a name, or several.
OneVersionEach(set) == \A p, q \in set : p[1] = q[1] => p = q
----------------------------------------------------------------------------
(* The manifests of the project and of its members *)

\* A manifest: for each name it requires, under its scope, a claim and a direct
\* edge, never the project's own identity.  Those of the project and of its members.
Manifest(project, scopes) ==
    Found({Declared(p[1]) : p \in DOMAIN scopes},
          {DirectEdge(project, RefFamily(p[1]), scopes[p]) : p \in DOMAIN scopes})
Manifests ==
    LET ofRoot == Manifest(Root, section)
        ofMembers == {Manifest(m[1], [q \in NeedsOf(m) |-> IF <<m, q>> \in maybe THEN "optional" ELSE "runtime"])
                        : m \in members}
    IN  Found(ofRoot.claims \cup UNION {part.claims : part \in ofMembers},
              ofRoot.edges \cup UNION {part.edges : part \in ofMembers})
=============================================================================
