------------------------------ MODULE MCCaches ------------------------------
(* What a scan looks up instead of finding it out: the caches of one checkout
   of two files and a server that may break off (DetectCache), of machines that
   share a server (Fleet), the store under them (BlobCache), images that share
   layers (LayerCache), what is known beside an image (ImageFacts), and images
   that are on the machine already (LocalImages).  No two share state: a behaviour
   explores one of them. *)
EXTENDS DetectCache, BlobCache, LayerCache, ImageFacts, LocalImages

CONSTANTS FleetMachines, d1, d2, d3, baseLayer, toolLayer, appLayer, fileA, fileB

VARIABLES fleetTree, fleetLocal, fleetRemote, fleetScan, explored

Fleet == INSTANCE DetectCache
    WITH Machines <- FleetMachines, NumFiles <- 1, Peeks <- <<0>>,
         Declares <- <<NoProject>>, Flaky <- {}, Breaks <- FALSE, EditsRace <- FALSE,
         tree <- fleetTree, local <- fleetLocal, remote <- fleetRemote, scan <- fleetScan

fleetVars == <<fleetTree, fleetLocal, fleetRemote, fleetScan>>

\* The first file's detector may fail; the second one's reads the first file
\* and declares the project.
PeekFirst == [f \in Files |-> IF f = NumFiles THEN 1 ELSE 0]
PeekNothing == [f \in Files |-> 0]
DeclareNothing == [f \in Files |-> NoProject]
DeclareSecond == [f \in Files |-> IF f = 2 THEN "gradle" ELSE NoProject]

Sizes == [d \in Data |-> IF d = d1 THEN 1 ELSE 2]

\* A base, a layer that rewrites a file of it and one that hides both.
LayerWrites == [l \in Layer |-> CASE l = baseLayer -> {fileA, fileB} [] l = toolLayer -> {fileA} [] l = appLayer -> {fileB}]
LayerHides  == [l \in Layer |-> IF l = appLayer THEN {fileA} ELSE {}]
ReadsBeside == [p \in Path |-> fileA]
SharedImages ==
    {<<baseLayer>>, <<baseLayer, toolLayer>>, <<baseLayer, appLayer>>, <<baseLayer, toolLayer, appLayer>>, <<baseLayer, appLayer, toolLayer>>}

\* Which of the six this behaviour explores.
Detecting == explored = "detect"
AsFleet   == explored = "fleet"
Storing   == explored = "blobs"
Layering  == explored = "layers"
LookingUp == explored = "facts"
Opening   == explored = "local"

cacheVars == <<vars, fleetVars, blobVars, layerVars, factVars, localVars, explored>>

CachesNext ==
    /\ UNCHANGED explored
    /\ \/ Detecting /\ Next /\ UNCHANGED <<fleetVars, blobVars, layerVars, factVars, localVars>>
       \/ AsFleet /\ Fleet!Next /\ UNCHANGED <<vars, blobVars, layerVars, factVars, localVars>>
       \/ Storing /\ BlobNext /\ UNCHANGED <<vars, fleetVars, layerVars, factVars, localVars>>
       \/ Layering /\ LayerNext /\ UNCHANGED <<vars, fleetVars, blobVars, factVars, localVars>>
       \/ LookingUp /\ FactNext /\ UNCHANGED <<vars, fleetVars, blobVars, layerVars, localVars>>
       \/ Opening /\ LocalNext /\ UNCHANGED <<vars, fleetVars, blobVars, layerVars, factVars>>

\* The parts that a behaviour does not explore keep one idle state.
CachesInit ==
    /\ explored \in {"detect", "fleet", "blobs", "layers", "facts", "local"}
    /\ Init /\ Fleet!Init /\ BlobInit /\ LayerInit
    /\ FactInit /\ (~LookingUp => topic = "base")
    /\ LocalInit /\ (~Opening => place = "running")

CachesSpec ==
    /\ CachesInit /\ [][CachesNext]_cacheVars
    /\ \A w \in Machines : WF_vars(Detecting /\ Step(w))

\* The tiers of the fleet agree on what a file whose result its key determines
\* holds.
FleetAgrees == Fleet!TiersAgree

\* Whatever a cache answers is what the detectors find in the file as it is: for
\* one checkout beside a server that breaks off, and for a fleet that shares one.
CachesTellTheTruth == WarmFindsWhatColdFinds /\ FleetAgrees

\* What a scan is told by a cache, a data pack or an attached document is true of
\* what it scans, and an image it opens is the one its name stands for.
LookupsHold == CachesTellTheTruth /\ ImageFactsHold /\ LocalImagesAreWhole
=============================================================================
