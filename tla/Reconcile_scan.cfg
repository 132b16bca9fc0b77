\* Up to four findings about two families; up to four edge claims between a
\* project or two and three components; up to three components in two documents.
SPECIFICATION ReconcileSpec
CHECK_DEADLOCK FALSE
CONSTANTS
    d1 = d1
    d2 = d2
    app = app
    lib = lib
    pkgA = pkgA
    pkgB = pkgB
    pkgC = pkgC
    Digest = {d1, d2}
    Families = 2
    Versions = 3
    Variants = 2
    OneVersion <- EnvironmentFamily
    Claim <- AllClaims
    MaxFindings = 4
    Project = {app, lib}
    Package = {pkgA, pkgB, pkgC}
    EdgeClaim <- AllEdgeClaims
    MaxClaims = 4
    BuildTool = {pkgB}
    System = {pkgC}
    DevMarked = {}
    Documents = 2
    LabelOf <- FileNames
    Described <- Listed
    Strategies = {"union", "hierarchical", "intersect"}
    MaxEntries = 3
    MaxLinks = 2
INVARIANTS
    MergedForAReason
    OneComponentPerThing
    
    WalksMissNothing
    
    GroupsAreChains
    MergeIsFaithful
PROPERTIES WalksEnd
