\* A checkout that is edited while it is scanned.
SPECIFICATION CachesSpec
CHECK_DEADLOCK FALSE
CONSTANTS
    Machines = {m1}
    FleetMachines = {n1, n2}
    Offline = {}
    NumFiles = 2
    Contents = {"a", "b"}
    Absent = Absent
    Peeks <- PeekNothing
    Projects = {}
    NoProject = NoProject
    Declares <- DeclareNothing
    Flaky = {}
    Breaks = FALSE
    EditsRace = TRUE
    CacheKey = {k1, k2}
    d1 = d1
    d2 = d2
    d3 = d3
    Data = {d1, d2, d3}
    NoEntry = NoEntry
    NoKey = NoKey
    Torn = Torn
    Loose = {d3}
    Size <- Sizes
    Limits = {0, 2}
    Faults = TRUE
    baseLayer = baseLayer
    toolLayer = toolLayer
    appLayer = appLayer
    Layer = {baseLayer, toolLayer, appLayer}
    fileA = fileA
    fileB = fileB
    Path = {fileA, fileB}
    Writes <- LayerWrites
    Hides <- LayerHides
    Sibling <- ReadsBeside
    Images <- SharedImages
    Setup = {s1, s2}
    MaxGathered = 0
    MaxNamings = 2
    NumPages = 10
INVARIANT EntriesMatchTheirKey
