\* A checkout, a fleet, a store with three values under two keys, and five
\* images of three layers under two setups.
SPECIFICATION CachesSpec
CHECK_DEADLOCK FALSE
CONSTANTS
    Machines = {m1}
    FleetMachines = {n1, n2}
    Offline = {}
    NumFiles = 2
    Contents = {"a", "b"}
    Absent = Absent
    Peeks <- PeekFirst
    Projects = {"gradle"}
    NoProject = NoProject
    Declares <- DeclareSecond
    Flaky = {1}
    Breaks = TRUE
    EditsRace = FALSE
    CacheKey = {k1, k2}
    d1 = d1
    d2 = d2
    d3 = d3
    Data = {d1, d2, d3}
    NoEntry = NoEntry
    NoKey = NoKey
    Torn = Torn
    Loose = {d3}
    Size <- Sizes
    Limits = {0, 2}
    Faults = TRUE
    baseLayer = baseLayer
    toolLayer = toolLayer
    appLayer = appLayer
    Layer = {baseLayer, toolLayer, appLayer}
    fileA = fileA
    fileB = fileB
    Path = {fileA, fileB}
    Writes <- LayerWrites
    Hides <- LayerHides
    Sibling <- ReadsBeside
    Images <- SharedImages
    Setup = {s1, s2}
    MaxGathered = 4
    MaxNamings = 2
    NumPages = 10
INVARIANTS
    LookupsHold
    SurvivorsReadable
    ReplayIsTheSquash
PROPERTIES
    ScansEnd
    FailOpen
