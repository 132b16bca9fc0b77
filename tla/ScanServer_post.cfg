\* Scans started by POST, one page that may lose its connection, no watch loop;
\* two edits of the corrections and two traced sessions; runs of three components
\* and four dependencies; conditions of seven tokens; two
\* components and two links through any chain of formats.
CONSTANTS
    Main = m
    Posts = {t1}
    Browsers = {b1}
    Watch = FALSE
    Edits = {}
    Replay = 1
    MaxConnects = 2
    MaxScans = 2
    MaxFailures = 1
    MaxDrops = 1
    MaxEdits = 0
    Version = {1, 2}
    Names = {"a", "s"}
    Scoped = {"s"}
    Editors = {e1, e2}
    Trees <- SmallTrees
    Marks <- SomeMarks
    MaxMarks = 2
    MaxSessions = 2
    NumRows = 3
    MaxLinks = 4
    Ecos = {1, 2}
    MaxDepth = 3
    Budget = 2
    Products = {"p", "q"}
    Releases = {1, 2}
    MaxTokens = 7
SPECIFICATION PageSpec
CHECK_DEADLOCK FALSE
INVARIANTS
    AnnouncedScansAreReal
    MarksAreObeyed
    SessionsAddUp
    ViewsShowTheGraph
    DiffsAreExact
    QueryMeansItsText
    
    
