CONSTANTS
    Runs = {1, 2, 3}
    Elsewhere = {}
    Subjects = {app}
    Serials = {A, B}
    Tools = {t1}
    MaxActive = 2
    MaxCrashes = 0
    MaxClock = 0
SPECIFICATION Spec
CHECK_DEADLOCK FALSE
INVARIANT FinishedRunsListed
