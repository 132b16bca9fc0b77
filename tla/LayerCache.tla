----------------------------- MODULE LayerCache -----------------------------
(***************************************************************************)
(* The layer-keyed cache of core/container_scan.py.  The files an image    *)
(* shows are grouped by the layer that owns them, and what the detectors   *)
(* found in the files of a layer is stored under the layer's identity, the *)
(* set of its files that show, the detectors and the configuration.        *)
(* Images share layers, and one machine scans many images.                 *)
(***************************************************************************)
EXTENDS Integers, Sequences

CONSTANTS
    Layer,     \* layer identities: diff_id, or the digest if there is none
    Path,
    Writes,    \* Writes[l]: the files in layer l
    Hides,     \* Hides[l]: the files of lower layers that l's markers hide
    Sibling,   \* Sibling[p]: the file that p's detector reads beside it, or p
    Images,    \* sequences of layers, the lowest first
    Setup      \* detectors and configuration

ASSUME LayerAssumption ==
    /\ Writes \in [Layer -> SUBSET Path] /\ Hides \in [Layer -> SUBSET Path]
    /\ Sibling \in [Path -> Path]
    /\ Images \subseteq Seq(Layer)

VARIABLES
    stored,    \* stored[key]: the sets of findings in the cache
    image,     \* the image of the scan
    setup,     \* the setup of the scan
    ordinal,   \* the layer the scan is at; 0 when no scan runs
    found      \* its findings so far

layerVars == <<stored, image, setup, ordinal, found>>

LayerKeys == Layer \X (SUBSET Path) \X Setup
Found == [path : Path, layer : Layer, sibling : SUBSET Layer, setup : Setup]

LayerTypeOK ==
    /\ \A k \in DOMAIN stored : k \in LayerKeys /\ stored[k] \subseteq Found
    /\ image \in Images \cup {<<>>}
    /\ setup \in Setup
    /\ ordinal \in 0 .. Len(image) + 1
    /\ found \subseteq Found

LayerInit ==
    /\ stored = [k \in {} |-> {}]
    /\ image = <<>> /\ setup = CHOOSE s \in Setup : TRUE
    /\ ordinal = 0
    /\ found = {}

-----------------------------------------------------------------------------
\* The squash: the layer a path shows from, as an ordinal.

ShowsFrom(i, p) ==
    /\ p \in Writes[image[i]]
    /\ \A j \in i + 1 .. Len(image) : p \notin Writes[image[j]] \cup Hides[image[j]]

Shown(i) == {p \in Path : ShowsFrom(i, p)}
OwnerOf(p) == {image[i] : i \in {j \in 1 .. Len(image) : ShowsFrom(j, p)}}

\* detect_entry on a file that shows from layer i: it reads the file, and the
\* sibling through the squash.
Detected(i, p) ==
    [path |-> p, layer |-> image[i],
     sibling |-> IF Sibling[p] = p THEN {} ELSE OwnerOf(Sibling[p]),
     setup |-> setup]

\* Mutant: the key without the files that show.
LayerAlone(i) == <<image[i], {}, setup>>

LayerKey(i) == <<image[i], Shown(i), setup>>

-----------------------------------------------------------------------------

Scanning == ordinal \in 1 .. Len(image)

StartImage(i, s) ==
    /\ ~Scanning
    /\ image' = i /\ setup' = s
    /\ ordinal' = 1
    /\ found' = {}
    /\ UNCHANGED stored

\* A layer none of whose files shows has no entry and is not looked up.
SkipLayer ==
    /\ Scanning /\ Shown(ordinal) = {}
    /\ ordinal' = ordinal + 1
    /\ UNCHANGED <<stored, image, setup, found>>

ReplayLayer ==
    /\ Scanning /\ Shown(ordinal) # {}
    /\ LayerKey(ordinal) \in DOMAIN stored
    /\ found' = found \cup stored[LayerKey(ordinal)]
    /\ ordinal' = ordinal + 1
    /\ UNCHANGED <<stored, image, setup>>

DetectLayer ==
    LET detected == {Detected(ordinal, p) : p \in Shown(ordinal)}
        key      == LayerKey(ordinal)
    IN  /\ Scanning /\ Shown(ordinal) # {}
        /\ key \notin DOMAIN stored
        /\ found' = found \cup detected
        /\ stored' = [k \in DOMAIN stored \cup {key} |-> IF k = key THEN detected ELSE stored[k]]
        /\ ordinal' = ordinal + 1
        /\ UNCHANGED <<image, setup>>

\* sorb cache prune, or a blob that cannot be read.
EvictLayer ==
    /\ \E key \in DOMAIN stored :
          stored' = [k \in DOMAIN stored \ {key} |-> stored[k]]
    /\ UNCHANGED <<image, setup, ordinal, found>>

\* The scan is killed: the layers it came to are in the cache.
KillScan ==
    /\ Scanning
    /\ ordinal' = 0 /\ image' = <<>> /\ found' = {}
    /\ UNCHANGED <<stored, setup>>

LayerNext ==
    \/ \E i \in Images, s \in Setup : StartImage(i, s)
    \/ SkipLayer \/ ReplayLayer \/ DetectLayer
    \/ EvictLayer \/ KillScan

LayerSpec == LayerInit /\ [][LayerNext]_layerVars

-----------------------------------------------------------------------------

\* Whatever images were scanned before, with whatever setup, and whatever of
\* it was evicted or cut short: a scan that is through finds each file of the
\* image's squash once, in the layer it shows from and with the scan's own
\* setup, and no file the image hides.
ReplayIsTheSquash ==
    image # <<>> /\ ordinal = Len(image) + 1 =>
        {<<f.path, f.layer, f.setup>> : f \in found}
            = UNION {{<<p, image[i], setup>> : p \in Shown(i)} : i \in 1 .. Len(image)}
=============================================================================
