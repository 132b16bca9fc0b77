\* Two scan threads, two connections and a ring of two events; three packages
\* of two names with up to three needs; manifests of two lines and a table;
\* four published packages with two requirements; a tree of three nodes that
\* changes once during the walk; archives of two members.
SPECIFICATION ScanSpec
SYMMETRY Symmetry
CHECK_DEADLOCK FALSE
CONSTANTS
    Producers = {p1, p2}
    Connections = {c1, c2}
    Replay = 2
    MaxEvents = 3
    MaxCloses = 1
    Version = {1, 2}
    Packages <- TwoPackages
    MaxNeeds = 3
    PkgNames = {a, b}
    MaxLines = 2
    MaxTables = 1
    MaxPomEdits = 3
    Installable <- TwoPackages
    Published <- PublishedPackages
    MaxRequirements = 2
    MaxDepth = 1
    Places <- TreePlaces
    MaxNodes = 3
    MaxChanges = 1
    MaxMembers = 2
    MaxSize = 1
INVARIANTS
    StreamIsSeamless
    NothingIsOverlooked
    ArchivesAreAccountedFor
    LockIsReadBack
    
    DatabaseIsReadBack
    
    
