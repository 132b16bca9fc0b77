\* Two scans at a time, three in all, one of which may be killed at any step.
SPECIFICATION Spec
SYMMETRY Symmetry
CHECK_DEADLOCK FALSE
CONSTANTS
    Runs = {1, 2, 3}
    Elsewhere = {2}
    Subjects = {app, image}
    Serials = {A, B}
    Tools = {t1, t2}
    MaxActive = 2
    MaxCrashes = 1
    MaxClock = 1
INVARIANTS
    TypeOK
    LineagesConsistent
    RegisteredRunsReconciled
    SupersedesChain
    LatestRunIsNewest
