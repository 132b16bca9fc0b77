\* The watch loop with one page connected when a scan ends.
CONSTANTS
    Main = m
    Posts = {}
    Browsers = {b1}
    Watch = TRUE
    Edits = {}
    Replay = 1
    MaxConnects = 1
    MaxScans = 1
    MaxFailures = 0
    MaxDrops = 0
    MaxEdits = 0
SPECIFICATION Spec
CHECK_DEADLOCK FALSE
INVARIANTS
    WatchLoopOutlivesPages
