------------------------------ MODULE MCImage ------------------------------
(* The container image for TLC: the layers and their merged view
   (LayerStack), the package databases in them (PkgTimeline) and the registry
   they come from (ImagePull).  The three share no state: a behaviour explores
   one of them. *)
EXTENDS LayerStack, PkgTimeline, ImagePull

CONSTANTS imageA, imageB, indexC, blobA, blobB

\* A file two directories down and a file beside them.
Inner == <<"opt", "tool", "bin">>
Aside == <<"etc">>
Tool  == <<"opt", "tool">>
Opt   == <<"opt">>
Root  == <<>>

FilePaths   == {Inner, Aside}
Whiteouts   == {Inner, Tool}
OpaqueRoots == {Root, Opt}

\* An image of two layers with an attestation, and an index that leads to the
\* attestation's manifest as to any other.
IndexLeadsTo == [i \in Indexes |-> imageB]
Configs      == [m \in Manifests |-> IF m = imageA THEN blobA ELSE blobB]
LayerBlobs   == [m \in Manifests |-> IF m = imageA THEN <<blobB, blobA>> ELSE <<blobA>>]
Attestations == [m \in Manifests |-> IF m = imageA THEN imageB ELSE Unknown]

VARIABLE explored

ImageInit ==
    /\ explored \in {"stack", "timeline", "pull"}
    /\ Init /\ TimelineInit /\ PullInit

ImageNext ==
    /\ UNCHANGED explored
    /\ \/ explored = "stack" /\ Next /\ UNCHANGED <<timelineVars, pullVars>>
       \/ explored = "timeline" /\ TimelineNext /\ UNCHANGED <<vars, pullVars>>
       \/ explored = "pull" /\ PullNext /\ UNCHANGED <<vars, timelineVars>>

ImageSpec ==
    /\ ImageInit /\ [][ImageNext]_<<vars, timelineVars, pullVars, explored>>
    /\ WF_pullVars(explored = "pull" /\ PullStep)
=============================================================================
