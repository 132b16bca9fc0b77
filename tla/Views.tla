------------------------------- MODULE Views --------------------------------
(* The ways to look at a finished run: provenance paths (GraphStore.
   paths_to_roots, for sorb explain and path queries), clusters and the
   dependency tree of the page (ui/lod.py), counters, and the difference of two
   runs (core/diff.py) or snapshots (dynamic/snapshot.py).  A run has a project,
   node 0, and components, numbered in the order they are listed. *)
EXTENDS Naturals, SequencesExt, FiniteSetsExt

CONSTANTS
    NumRows, MaxLinks,      \* components and edges of a run
    Ecos,                   \* ecosystems
    MaxDepth,               \* the longest path that is followed
    Budget,                 \* nodes a page asks for
    Products, Releases      \* what the runs that are compared list

ASSUME ReleasesAreNumbers == Releases \subseteq Nat
ASSUME BoundsAreNumbers == NumRows \in Nat /\ MaxDepth \in Nat /\ Budget \in Nat

VARIABLES
    eco, hidden,    \* the ecosystem of a component, and which are excluded
    links,          \* the dependencies: who needs whom
    stack, paths,   \* the walk to the roots: open chains and finished ones
    old, new        \* two runs that are compared: sets of [name, ver, scope]

viewVars == <<eco, hidden, links, stack, paths, old, new>>

Project == 0
Listable == 1 .. NumRows
Needs == {l \in (Listable \cup {Project}) \X Listable : l[1] # l[2]}
----------------------------------------------------------------------------
(* paths_to_roots: chains are read from the component upwards *)

Parents(n) == {l[1] : l \in {k \in links : k[2] = n}}
On(chain) == {chain[i] : i \in DOMAIN chain}
RootFirst(chain) == [i \in DOMAIN chain |-> chain[Len(chain) + 1 - i]]

\* Mutant: a node is taken for a root when all that need it are on the chain.
EndsInCycle(chain) == Parents(Last(chain)) \subseteq On(chain)

IsRoot(chain) == Parents(Last(chain)) = {} \/ Last(chain) = Project

\* A chain that is too long is given up; one that runs into a cycle also, unless
\* another way leads on.
Pop ==
    /\ stack # {}
    /\ \E chain \in stack :
         /\ stack' = IF Len(chain) > MaxDepth \/ IsRoot(chain) THEN stack \ {chain}
                     ELSE (stack \ {chain}) \cup {Append(chain, n) : n \in Parents(Last(chain)) \ On(chain)}
         /\ paths' = IF Len(chain) <= MaxDepth /\ IsRoot(chain) THEN paths \cup {RootFirst(chain)} ELSE paths
    /\ UNCHANGED <<eco, hidden, links, old, new>>
----------------------------------------------------------------------------
(* The clusters and the tree *)

Kept == Listable \ hidden
Among(nodes) == {l \in links : l[1] \in nodes /\ l[2] \in nodes}
Page(nodes) == {n \in nodes : Cardinality({m \in nodes : m < n}) < Budget}

\* What is listed and what is only kept in the graph.
Counters == [components |-> Cardinality(Kept), excluded |-> Cardinality(hidden)]

Overview ==
    [nodes |-> [e \in {eco[c] : c \in Kept} |-> Cardinality({c \in Kept : eco[c] = e})],
     edges |-> {<<eco[l[1]], eco[l[2]]>> : l \in {k \in Among(Kept) : eco[k[1]] # eco[k[2]]}}]

\* Mutant: what is excluded is shown when its cluster is opened.
ExpandAll(e) == {c \in Listable : eco[c] = e}
Members(e) == {c \in Kept : eco[c] = e}
Expand(e) ==
    [nodes |-> Page(Members(e)), edges |-> Among(Page(Members(e))), truncated |-> Cardinality(Members(e)) > Budget]

\* The top of the tree is what nothing needs, the project included.
Tops == {c \in Kept : Parents(c) = {}}
Below(n) == {l[2] : l \in {k \in links : k[1] = n}} \cap Kept
Above(n) == Parents(n) \cap Kept
Deps(n) == [nodes |-> Page(Below(n)), truncated |-> Cardinality(Below(n)) > Budget]
Kids(n) == Cardinality({l \in links : l[1] = n /\ l[2] \in Kept})
----------------------------------------------------------------------------
(* Two runs *)

Findable == [name : Products, ver : Releases, scope : {"runtime", "dev"}]
NamesIn(run) == {r.name : r \in run}

\* One component stands for its family: the one that is listed first.
Emitted(run) == [n \in NamesIn(run) |-> CHOOSE r \in run : r.name = n /\ \A q \in run : q.name = n => r.ver <= q.ver]

\* Mutant: only what was there before is looked at.
ChangesOfOld(a, b) == DOMAIN a
Compared(a, b) == DOMAIN a \cup DOMAIN b

DiffStores(before, after) ==
    LET a == Emitted(before)
        b == Emitted(after)
        all == Compared(a, b)
        both == all \cap DOMAIN a \cap DOMAIN b
    IN  [added      |-> {b[n] : n \in all \ DOMAIN a},
         removed    |-> {a[n] : n \in all \ DOMAIN b},
         upgraded   |-> {<<n, a[n].ver, b[n].ver>> : n \in {m \in both : b[m].ver > a[m].ver}},
         downgraded |-> {<<n, a[n].ver, b[n].ver>> : n \in {m \in both : b[m].ver < a[m].ver}},
         scopes     |-> {<<n, a[n].scope, b[n].scope>> : n \in {m \in both : a[m].scope # b[m].scope}}]

\* Snapshots leave it to the order of a set which of several versions stands
\* for a name.
ByName(run) == {f \in [NamesIn(run) -> run] : \A n \in DOMAIN f : f[n].name = n}
DiffSnapshots(a, b) ==
    [installed |-> {b[n] : n \in DOMAIN b \ DOMAIN a},
     removed   |-> {a[n] : n \in DOMAIN a \ DOMAIN b},
     upgraded  |-> {<<n, a[n].ver, b[n].ver>> : n \in {m \in DOMAIN a \cap DOMAIN b : a[m].ver # b[m].ver}}]
----------------------------------------------------------------------------

WalkInit ==
    /\ links \in {S \in SUBSET Needs : Cardinality(S) <= MaxLinks}
    /\ eco \in [Listable -> Ecos]
    /\ hidden \in {S \in SUBSET Listable : Cardinality(S) <= 1}
    /\ stack \in {{<<c>>} : c \in Listable} /\ paths = {}
    /\ old = {} /\ new = {}

\* A name is listed once or, in two versions, twice.
DiffInit ==
    /\ links = {} /\ eco = [c \in Listable |-> CHOOSE e \in Ecos : TRUE] /\ hidden = {} /\ stack = {} /\ paths = {}
    /\ \E A, B \in SUBSET Findable :
         /\ \A r, q \in A : r.name = q.name /\ r.ver = q.ver => r = q
         /\ \A r, q \in B : r.name = q.name /\ r.ver = q.ver => r = q
         /\ old = A /\ new = B

ViewInit == WalkInit \/ DiffInit
ViewNext == Pop
ViewSpec == ViewInit /\ [][ViewNext]_viewVars
----------------------------------------------------------------------------
(* Properties *)

Target == CHOOSE c \in Listable : \E p \in paths \cup {RootFirst(s) : s \in stack} : Last(p) = c
Ways ==
    {p \in UNION {[1 .. k -> Listable \cup {Project}] : k \in 1 .. MaxDepth} :
       /\ \A i \in 1 .. Len(p) - 1 : <<p[i], p[i + 1]>> \in links
       /\ Cardinality(On(p)) = Len(p)
       /\ Parents(p[1]) = {}}

\* When the walk is over it has found every way, short enough and without a
\* cycle, from something nothing needs to the component, and no other.
PathsAreTheWays ==
    stack = {} /\ paths # {} => paths = {p \in Ways : Last(p) = Target}

\* The clusters add up to the counters, each opens into as many components as
\* it counts, no dependency between listed components is lost between the
\* overview and the cluster that holds both ends, and a node of the tree opens
\* into as many as it announces, each of which leads back to it.
ZoomLosesNothing ==
    /\ MapThenSumSet(LAMBDA e : Overview.nodes[e], DOMAIN Overview.nodes) = Counters.components
    /\ \A e \in DOMAIN Overview.nodes :
         /\ Cardinality(Expand(e).nodes) <= Budget
         /\ Expand(e).truncated = (Cardinality(Expand(e).nodes) < Overview.nodes[e])
    /\ \A l \in Among(Kept) :
         \/ <<eco[l[1]], eco[l[2]]>> \in Overview.edges
         \/ l \in Expand(eco[l[1]]).edges \/ Expand(eco[l[1]]).truncated
    /\ \A c \in Listable :
         /\ ~Deps(c).truncated => Cardinality(Deps(c).nodes) = Kids(c)
         /\ c \in Kept => \A d \in Deps(c).nodes : c \in Above(d)

\* What the page draws of a run is in the run, and what is in the run can be reached
\* on the page.
ViewsShowTheGraph == PathsAreTheWays /\ ZoomLosesNothing

Patched(run, added, removed, changed) ==
    ({<<r.name, r.ver>> : r \in (run \ removed) \cup added} \ {<<c[1], c[2]>> : c \in changed})
      \cup {<<c[1], c[3]>> : c \in changed}
Listing(run) == {<<r.name, r.ver>> : r \in run}
Single(run) == \A r, q \in run : r.name = q.name => r = q
Swapped(changes) == {<<c[1], c[3], c[2]>> : c \in changes}

\* A difference is the whole of it: for runs that list each name once it turns
\* the one into the other, by either command; and read backwards it is the
\* difference of the runs the other way round.
DiffsAreExact ==
    LET d == DiffStores(old, new)
        b == DiffStores(new, old)
    IN  /\ b.added = d.removed /\ b.removed = d.added
        /\ b.upgraded = Swapped(d.downgraded) /\ b.scopes = Swapped(d.scopes)
        /\ Single(old) /\ Single(new) =>
             /\ Patched(old, d.added, d.removed, d.upgraded \cup d.downgraded) = Listing(new)
             /\ \A f \in ByName(old), g \in ByName(new) :
                  LET s == DiffSnapshots(f, g) IN Patched(old, s.installed, s.removed, s.upgraded) = Listing(new)
=============================================================================
