----------------------------- MODULE LayerStack -----------------------------
(***************************************************************************)
(* container/layers.py: the layers of an image are indexed oldest first,   *)
(* whiteout semantics is applied to the paths visible so far, and every    *)
(* change is kept in a transition log.  The log serves the queries about   *)
(* the past (owners_upto, versions_of) and the views made from them        *)
(* (SquashView).                                                           *)
(*                                                                         *)
(* A path is the sequence of its names; the root directory is <<>>.        *)
(* Ordinals count from 0, as in the code.  The log is kept per layer, in   *)
(* the order in which the code appends: what opaque markers hide, what     *)
(* whiteouts hide, what the layer writes; the order inside one of these    *)
(* groups, which is that of the archive, is left out.                      *)
(***************************************************************************)
EXTENDS Integers, Sequences, FiniteSets

CONSTANTS
    Paths,     \* paths of files and links
    Hideable,  \* paths a whiteout may name
    OpaqueDirs,\* directories an opaque marker may stand in
    MaxLayers  \* bound: layers of the image

ASSUME LayerAssumption ==
    /\ \A p \in Paths \cup Hideable \cup OpaqueDirs : Len(p) \in Nat
    /\ MaxLayers \in Nat

VARIABLES
    layers,   \* the members of the layers indexed so far
    visible,  \* visible[p]: ordinal of the layer p is read from, Nowhere if none
    log,      \* log[k + 1]: the transitions of layer k
    removed   \* removed[p]: (ordinal of the last write, ordinal of the removal)

vars == <<layers, visible, log, removed>>

Nowhere == -1
Kept == <<Nowhere, Nowhere>>

Layer == [regular : SUBSET Paths, whiteouts : SUBSET Hideable, opaques : SUBSET OpaqueDirs]
Transitions == [cleared : SUBSET Paths, gone : SUBSET Paths,
                added : SUBSET Paths, modified : SUBSET Paths]

\* p lies in the directory d: the string p starts with d and a slash.
Below(p, d) == Len(d) < Len(p) /\ SubSeq(p, 1, Len(d)) = d

TypeOK ==
    /\ layers \in Seq(Layer) /\ Len(layers) <= MaxLayers
    /\ visible \in [Paths -> Nowhere .. Len(layers) - 1]
    /\ log \in Seq(Transitions) /\ Len(log) = Len(layers)
    /\ removed \in [Paths -> (Nowhere .. Len(layers) - 1) \X (Nowhere .. Len(layers) - 1)]

Init ==
    /\ layers = <<>>
    /\ visible = [p \in Paths |-> Nowhere]
    /\ log = <<>>
    /\ removed = [p \in Paths |-> Kept]

-----------------------------------------------------------------------------

Written(entry) == entry.added \cup entry.modified
Hidden(entry)  == entry.cleared \cup entry.gone

\* The last of a set of ordinals.
Latest(ordinals) == CHOOSE k \in ordinals : \A j \in ordinals : j <= k

\* versions_of(path): the layers that wrote it.
VersionsOf(p) == {k \in 0 .. Len(log) - 1 : p \in Written(log[k + 1])}

\* last_write of _record_gone: from the log, not from `visible`.
LastWrite(p) == IF VersionsOf(p) = {} THEN 0 ELSE Latest(VersionsOf(p))

\* What the markers of a layer hide of the paths in `shown`.
HiddenByOpaque(layer, shown) ==
    {p \in shown : \E d \in layer.opaques : Below(p, d)}
HiddenByWhiteout(layer, shown) ==
    {p \in shown : \E t \in layer.whiteouts : p = t \/ Below(p, t)}

Shown == {p \in Paths : visible[p] # Nowhere}

\* One turn of _compute.  Opaque markers hide first, then whiteouts, both of
\* lower layers only; then the files of the layer apply.
IndexLayer(layer) ==
    LET k       == Len(layers)
        cleared == HiddenByOpaque(layer, Shown)
        gone    == HiddenByWhiteout(layer, Shown \ cleared)
        hidden  == cleared \cup gone
        left    == Shown \ hidden
    IN  /\ k < MaxLayers
        /\ layers' = Append(layers, layer)
        /\ visible' = [p \in Paths |->
               IF p \in layer.regular THEN k
               ELSE IF p \in hidden THEN Nowhere
               ELSE visible[p]]
        /\ log' = Append(log, [cleared  |-> cleared,
                               gone     |-> gone,
                               added    |-> layer.regular \ left,
                               modified |-> layer.regular \cap left])
        /\ removed' = [p \in Paths |->
               IF p \in hidden THEN <<LastWrite(p), k>> ELSE removed[p]]

Next == \E layer \in Layer : IndexLayer(layer)

Spec == Init /\ [][Next]_vars

-----------------------------------------------------------------------------
\* Queries.

\* Mutant: the layer asked for is left out.
OwnersBefore(upto) ==
    [p \in Paths |->
        LET touched == {k \in 0 .. Len(log) - 1 :
                           k < upto /\ p \in Written(log[k + 1]) \cup Hidden(log[k + 1])}
        IN  IF touched = {} THEN Nowhere
            ELSE IF p \in Written(log[Latest(touched) + 1]) THEN Latest(touched) ELSE Nowhere]

\* owners_upto: the loop over the log leaves with each path what its last
\* transition up to that layer says.  Within a layer a write comes last.
OwnersUpto(upto) ==
    [p \in Paths |->
        LET touched == {k \in 0 .. Len(log) - 1 :
                           k <= upto /\ p \in Written(log[k + 1]) \cup Hidden(log[k + 1])}
        IN  IF touched = {} THEN Nowhere
            ELSE IF p \in Written(log[Latest(touched) + 1]) THEN Latest(touched) ELSE Nowhere]

\* SquashView(stack, upto): the paths it walks and the layer each is read from.
SquashOwners(upto) == OwnersUpto(upto)

-----------------------------------------------------------------------------
\* What the image format means by a stack of layers, independent of the order
\* of indexing: a path is read from the last layer that holds it, unless a
\* later layer hides it.

Hides(layer, p) ==
    \/ \E t \in layer.whiteouts : p = t \/ Below(p, t)
    \/ \E d \in layer.opaques : Below(p, d)

Owner(p, k) ==
    LET holders == {i \in 0 .. k : /\ p \in layers[i + 1].regular
                                   /\ \A j \in i + 1 .. k : ~Hides(layers[j + 1], p)}
    IN  IF holders = {} THEN Nowhere ELSE Latest(holders)

\* The squash is the overlay of the layers: no deleted file is scanned and none
\* that is left is passed over.
SquashIsOverlay ==
    \A p \in Paths : visible[p] = Owner(p, Len(layers) - 1)

\* Time travel through the log shows what an image cut off there would show.
TimeTravelIsOverlay ==
    \A k \in 0 .. Len(layers) - 1 : \A p \in Paths : SquashOwners(k)[p] = Owner(p, k)

\* Along the log a path is added only when it was not there, and modified or
\* removed only when it was; so every removal has a write to name.
TransitionsAlternate ==
    \A k \in 0 .. Len(layers) - 1 : \A p \in Paths :
        LET before == Owner(p, k - 1)
            entry  == log[k + 1]
        IN  /\ p \in entry.cleared => before # Nowhere /\ p \notin entry.gone
            /\ p \in entry.gone => before # Nowhere
            /\ p \in entry.added => before = Nowhere \/ p \in Hidden(entry)
            /\ p \in entry.modified => before # Nowhere /\ p \notin Hidden(entry)

\* A removal names the layer the path was read from when it was hidden and the
\* layer that hid it.
RemovalsNameTheirLayers ==
    \A p \in Paths : removed[p] # Kept =>
        LET w == removed[p][1]
            r == removed[p][2]
        IN  /\ w < r
            /\ Owner(p, r - 1) = w
            /\ Hides(layers[r + 1], p)

\* The present and every past view of an image are the overlay of its layers, and
\* what a layer took away is put down to it.
ViewsAreOverlays == SquashIsOverlay /\ TimeTravelIsOverlay /\ RemovalsNameTheirLayers
=============================================================================
