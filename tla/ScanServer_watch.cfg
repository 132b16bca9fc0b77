\* The watch loop and a posted scan beside it, one of which may fail.  Every edit
\* is at most one turn of the watch loop, so MaxScans never holds it back.
CONSTANTS
    Main = m
    Posts = {t1}
    Browsers = {}
    Watch = TRUE
    Edits = {TRUE}
    Replay = 1
    MaxConnects = 1
    MaxScans = 3
    MaxFailures = 1
    MaxDrops = 0
    MaxEdits = 1
SPECIFICATION Spec
CHECK_DEADLOCK FALSE
PROPERTIES
    StatusSettles
    
