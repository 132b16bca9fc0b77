\* Three layers over two files, nested whiteouts and opaque directories; two
\* package databases over three layers; a registry with an image, its attestation
\* and an index.
SPECIFICATION ImageSpec
CONSTANTS
    Paths <- FilePaths
    Hideable <- Whiteouts
    OpaqueDirs <- OpaqueRoots
    MaxLayers = 3
    NumDBs = 2
    Packages = {"p"}
    Versions = {"v1", "v2"}
    MaxHistory = 3
    MaxTouched = 3
    Unreadable = TRUE
    imageA = imageA
    imageB = imageB
    indexC = indexC
    blobA = blobA
    blobB = blobB
    Manifests = {imageA, imageB}
    Indexes = {indexC}
    Blobs = {blobA, blobB}
    Tag = Tag
    Releases = {imageA, indexC}
    Pulled = {Tag}
    Junk = Junk
    Unknown = Unknown
    ChildOf <- IndexLeadsTo
    ConfigOf <- Configs
    LayersOf <- LayerBlobs
    AttestedBy <- Attestations
    Retries = 1
CHECK_DEADLOCK FALSE
INVARIANTS
    ViewsAreOverlays
    
    
PROPERTIES
    PullsEnd
