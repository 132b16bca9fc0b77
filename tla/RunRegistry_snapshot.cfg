\* Scans one after the other, none killed; the second keeps its store in a
\* temporary directory.
CONSTANTS
    Runs = {1, 2}
    Elsewhere = {2}
    Subjects = {app}
    Serials = {A}
    Tools = {t1}
    MaxActive = 1
    MaxCrashes = 0
    MaxClock = 1
SPECIFICATION Spec
CHECK_DEADLOCK FALSE
INVARIANT QueryFindsResults
