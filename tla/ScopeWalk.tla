----------------------------- MODULE ScopeWalk -----------------------------
(***************************************************************************)
(* How reconcile() (core/reconcile.py, steps 6 and 7) merges the           *)
(* depends-on claims of the findings into edges and walks them from the    *)
(* projects to give every component its scope: one walk from the runtime   *)
(* roots, one from the development roots, and one from what is declared as *)
(* optional or was cut off at an edge that only an extra adds.             *)
(*                                                                         *)
(* The frontier of a walk is a set: the code pops the end of a list, and   *)
(* no result depends on which node comes first.                            *)
(***************************************************************************)
EXTENDS Naturals, Sequences, FiniteSets

CONSTANTS
    Project,     \* project nodes
    Package,   \* components
    EdgeClaim,   \* the claims the findings may make
    MaxClaims,   \* bound: edge claims of one scan
    BuildTool,   \* components of ctype build-tool
    System,      \* components of ctype os-package or application
    DevMarked    \* components whose attributes say dev

Node   == Project \cup Package
Scope  == {"runtime", "dev", "test", "build", "optional", "provided"}
Marker == {"environment", "extra"}
None   == "none"

ASSUME ScopeWalkAssumption ==
    /\ MaxClaims \in Nat
    /\ Project \cap Package = {}
    /\ BuildTool \subseteq Package /\ System \subseteq Package /\ DevMarked \subseteq Package
    /\ EdgeClaim \subseteq [src : Node, dst : Package,
                            scope : Scope \cup {None}, marker : Marker \cup {None}]

VARIABLES
    claimed,      \* the edge claims read so far
    edges,        \* merged_edges: <<src, dst>> to its attributes
    walkPhase,        \* "merge", then the walk that runs, then "assign", "done"
    reached, gated, frontier,   \* of the walk that runs
    reach,        \* what each finished walk reached
    cut,          \* what each finished walk found behind an extra
    scopeOf,      \* attrs["scope"] of every component
    conditional   \* components with attrs["conditional"]

walkVars == <<claimed, edges, walkPhase, reached, gated, frontier, reach, cut, scopeOf, conditional>>
---------------------------------------------------------------------------
(* Edges *)

NoAttributes == [scope |-> None, marker |-> None]

Attributes(E, e) == IF e \in DOMAIN E THEN E[e] ELSE NoAttributes

\* The first scope and the last marker stay.
MergeInto(E, c) ==
    LET old == Attributes(E, <<c.src, c.dst>>)
        new == [scope  |-> IF old.scope = None THEN c.scope ELSE old.scope,
                marker |-> IF c.marker = None THEN old.marker ELSE c.marker]
    IN  IF c.src = c.dst THEN E
        ELSE [e \in DOMAIN E \cup {<<c.src, c.dst>>} |->
                 IF e = <<c.src, c.dst>> THEN new ELSE E[e]]

ExtrasGated(e) == edges[e].marker = "extra"

Successors(n) == {e \in DOMAIN edges : e[1] = n}
---------------------------------------------------------------------------
(* Roots *)

RawScope(e) == IF edges[e].scope = None THEN "runtime" ELSE edges[e].scope

ProjectEdges == {e \in DOMAIN edges : e[1] \in Project}

Children(scopes) == {e[2] : e \in {x \in ProjectEdges : RawScope(x) \in scopes}}

RuntimeRoots  == Children({"runtime", "provided"})
DevRoots      == Children({"dev", "test"})
OptionalRoots == Children({"optional"})
BuildReach    == Children({"build"})

\* A child is conditional only if every project that has it says so.
ConditionalOnly ==
    {c \in Package : /\ \E e \in ProjectEdges : e[2] = c
                     /\ \A e \in ProjectEdges : e[2] = c => edges[e].marker # None}
---------------------------------------------------------------------------
(* Walks *)

Walk == {"runtime", "dev", "optional"}
After == [runtime |-> "dev", dev |-> "optional", optional |-> "assign"]

RootsOf(walk, off) ==
    CASE walk = "runtime"  -> RuntimeRoots
      [] walk = "dev"      -> DevRoots
      [] walk = "optional" -> OptionalRoots \cup off["runtime"] \cup off["dev"]

FollowsExtras(walk) == walk = "optional"

Followed(walk, e) == FollowsExtras(walk) \/ ~ ExtrasGated(e)
---------------------------------------------------------------------------
WalkInit ==
    /\ claimed = <<>>
    /\ edges = [e \in {} |-> NoAttributes]
    /\ walkPhase = "merge"
    /\ reached = {} /\ gated = {} /\ frontier = {}
    /\ reach = [w \in Walk |-> {}]
    /\ cut = [w \in Walk |-> {}]
    /\ scopeOf = [c \in Package |-> None]
    /\ conditional = {}

MergeClaim(c) ==
    /\ walkPhase = "merge"
    /\ Len(claimed) < MaxClaims
    /\ claimed' = Append(claimed, c)
    /\ edges' = MergeInto(edges, c)
    /\ UNCHANGED <<walkPhase, reached, gated, frontier, reach, cut, scopeOf, conditional>>

\* reach(): the roots are reached before anything is popped.
StartWalk(walk, roots) ==
    /\ walkPhase' = walk
    /\ reached' = roots
    /\ frontier' = roots
    /\ gated' = {}

Merged ==
    /\ walkPhase = "merge"
    /\ StartWalk("runtime", RuntimeRoots)
    /\ UNCHANGED <<claimed, edges, reach, cut, scopeOf, conditional>>

\* What is reached is visited again.
VisitAndRevisit(n) ==
    LET on  == {e[2] : e \in {x \in Successors(n) : Followed(walkPhase, x)}}
        off == {e[2] : e \in {x \in Successors(n) : ~ Followed(walkPhase, x)}}
    IN  /\ walkPhase \in Walk
        /\ n \in frontier
        /\ reached' = reached \cup on
        /\ frontier' = (frontier \ {n}) \cup on
        /\ gated' = gated \cup off
        /\ UNCHANGED <<claimed, edges, walkPhase, reach, cut, scopeOf, conditional>>

\* The neighbours of a root are the end of the walk.
VisitNeighbours(n) ==
    LET on  == {e[2] : e \in {x \in Successors(n) : Followed(walkPhase, x)}}
        off == {e[2] : e \in {x \in Successors(n) : ~ Followed(walkPhase, x)}}
    IN  /\ walkPhase \in Walk
        /\ n \in frontier
        /\ reached' = reached \cup on
        /\ frontier' = frontier \ {n}
        /\ gated' = gated \cup off
        /\ UNCHANGED <<claimed, edges, walkPhase, reach, cut, scopeOf, conditional>>

\* One node of the frontier, all of its edges.
Visit(n) ==
    LET on  == {e[2] : e \in {x \in Successors(n) : Followed(walkPhase, x)}}
        off == {e[2] : e \in {x \in Successors(n) : ~ Followed(walkPhase, x)}}
    IN  /\ walkPhase \in Walk
        /\ n \in frontier
        /\ reached' = reached \cup on
        /\ frontier' = (frontier \ {n}) \cup (on \ reached)
        /\ gated' = gated \cup off
        /\ UNCHANGED <<claimed, edges, walkPhase, reach, cut, scopeOf, conditional>>

EndWalk ==
    /\ walkPhase \in Walk
    /\ frontier = {}
    /\ reach' = [reach EXCEPT ![walkPhase] = reached]
    /\ cut' = [cut EXCEPT ![walkPhase] = gated]
    /\ IF After[walkPhase] \in Walk
       THEN StartWalk(After[walkPhase], RootsOf(After[walkPhase], cut'))
       ELSE /\ walkPhase' = After[walkPhase]
            /\ UNCHANGED <<reached, gated, frontier>>
    /\ UNCHANGED <<claimed, edges, scopeOf, conditional>>

Cut == (cut["runtime"] \cup cut["dev"]) \ (reach["runtime"] \cup reach["dev"])

\* Of several reasons to be there the first one decides.
FirstReason(c, reasons) ==
    LET holding == {k \in DOMAIN reasons : c \in reasons[k].of}
    IN  IF holding = {} THEN None
        ELSE reasons[CHOOSE k \in holding : \A l \in holding : k <= l].scope

Reason(scope, S) == [scope |-> scope, of |-> S]

ScopeOf(c) ==
    FirstReason(c, <<Reason("runtime", reach["runtime"]), Reason("dev", reach["dev"] \cup DevMarked),
                     Reason("build", BuildReach \cup BuildTool),
                     Reason("optional", reach["optional"]), Reason("runtime", System)>>)

\* Only what a project requires on a condition.
AssignDirectOnly ==
    /\ walkPhase = "assign"
    /\ walkPhase' = "done"
    /\ scopeOf' = [c \in Package |-> ScopeOf(c)]
    /\ conditional' = ConditionalOnly
    /\ UNCHANGED <<claimed, edges, reached, gated, frontier, reach, cut>>

Assign ==
    /\ walkPhase = "assign"
    /\ walkPhase' = "done"
    /\ scopeOf' = [c \in Package |-> ScopeOf(c)]
    /\ conditional' = ConditionalOnly \cup Cut
    /\ UNCHANGED <<claimed, edges, reached, gated, frontier, reach, cut>>

WalkNext ==
    \/ \E c \in EdgeClaim : MergeClaim(c)
    \/ Merged
    \/ \E n \in Node : Visit(n)
    \/ EndWalk
    \/ Assign

\* reconcile() runs to its end; it reads as many claims as there are.
Fairness == WF_walkVars(\E n \in Node : Visit(n)) /\ WF_walkVars(Merged) /\ WF_walkVars(EndWalk) /\ WF_walkVars(Assign)

WalkSpec == WalkInit /\ [][WalkNext]_walkVars /\ Fairness
---------------------------------------------------------------------------
(* Properties *)

WalkTypeOK ==
    /\ claimed \in Seq(EdgeClaim) /\ Len(claimed) <= MaxClaims
    /\ DOMAIN edges \subseteq Node \X Package
    /\ \A e \in DOMAIN edges :
           edges[e] \in [scope : Scope \cup {None}, marker : Marker \cup {None}] /\ e[1] # e[2]
    /\ walkPhase \in Walk \cup {"merge", "assign", "done"}
    /\ reached \subseteq Package /\ gated \subseteq Package /\ frontier \subseteq reached
    /\ reach \in [Walk -> SUBSET Package] /\ cut \in [Walk -> SUBSET Package]
    /\ scopeOf \in [Package -> Scope \cup {None}]
    /\ conditional \subseteq Package

\* S holds the roots of the walk and everything an edge it follows leads to.
ClosedUnder(walk, S) ==
    /\ RootsOf(walk, cut) \subseteq S
    /\ \A e \in DOMAIN edges : e[1] \in S /\ Followed(walk, e) => e[2] \in S

Ended(walk) ==
    \/ walkPhase \in {"assign", "done"}
    \/ walkPhase = "dev" /\ walk = "runtime"
    \/ walkPhase = "optional" /\ walk # "optional"

\* A walk that ended reached what its roots lead to over the edges it may
\* follow: it missed nothing, whatever cycles there are ...
WalksMissNothing == \A w \in Walk : Ended(w) => ClosedUnder(w, reach[w])

\* ... and a walk holds nothing its roots do not lead to.
WalksStayInside ==
    \A S \in SUBSET Package : \A w \in Walk :
        ClosedUnder(w, S) => /\ Ended(w) => reach[w] \subseteq S
                             /\ walkPhase = w => reached \subseteq S

\* What only extras bring in is marked as conditional, and it is not a runtime
\* dependency unless a project itself declares it as one
\* (tests/unit/test_reconcile.py, extras_gated_edge_does_not_promote).
ExtrasStayOptional ==
    walkPhase = "done" => \A e \in DOMAIN edges :
        /\ e[1] \in reach["runtime"] \cup reach["dev"] /\ ExtrasGated(e)
        /\ \A f \in DOMAIN edges : f[2] = e[2] => ExtrasGated(f)
        => /\ e[2] \in conditional
           /\ scopeOf[e[2]] = "runtime" => e[2] \in RuntimeRoots

\* The walks end, also on a graph with cycles.
WalksEnd == (walkPhase \in Walk) ~> (walkPhase = "done")
=============================================================================
