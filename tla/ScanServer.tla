----------------------------- MODULE ScanServer -----------------------------
(***************************************************************************)
(* `sorb ui` and `sorb serve` (ui/runner.py, the state and the scan and    *)
(* event endpoints of ui/server.py, the live view of ui/assets/app.js):    *)
(* background scans, the watch loop and the browsers that follow them.     *)
(*                                                                         *)
(* The server's state is shared between the event loop and the scan        *)
(* threads without a lock.  A scan thread runs run_scan, publishes the     *)
(* store, sets scan_status and closes the event stream, in that order; the *)
(* first thread may then become the watch loop, which scans again whenever *)
(* a file looks newer than at the last look.                               *)
(*                                                                         *)
(* The event stream is the module EventStream: every step that emits,      *)
(* subscribes or closes is a step of it and of the server at once.         *)
(***************************************************************************)
EXTENDS Naturals, Sequences, FiniteSets

CONSTANTS
    Main,        \* the thread serve() starts for its target
    Posts,       \* the threads POST /api/scan may start
    Browsers,
    Watch,       \* --watch
    Edits,       \* kinds of edits: TRUE if some file gets a newer mtime
    Replay,
    MaxConnects, \* bound: connections per browser
    MaxScans,    \* bound: runs of run_scan
    MaxFailures, \* bound: runs that raise
    MaxDrops,    \* bound: connections the client loses
    MaxEdits     \* bound: edits of the target

Threads == {Main} \cup Posts
Connections == Browsers \X (1 .. MaxConnects)

ASSUME ServerAssumption ==
    /\ Main \notin Posts
    /\ Watch \in BOOLEAN
    /\ Edits \subseteq BOOLEAN
    /\ Replay \in Nat \ {0}
    /\ {MaxConnects, MaxScans, MaxFailures, MaxDrops, MaxEdits} \subseteq Nat

VARIABLES
    \* the event stream
    callbacks, delivered, history, subscribers, conn, queue, out, closing, emitted, closes,
    \* the server
    status,      \* scan_status
    published,   \* _current_db: the run set_current_db was called with last, 0 for none
    landed,      \* runs in index.json with their stores finalized
    failed,      \* runs that raised
    pc,          \* pc[t]: where thread t is
    run,         \* run[t]: the run of thread t's current or last run_scan
    seen,        \* seen[t]: the edit the walk of that run saw last
    runs,        \* runs begun so far
    \* the scanned tree
    edited,      \* edits so far
    newest,      \* newest mtime in the tree: the number of the edit that set it
    last,        \* `last` of the watch loop
    covered,     \* the last edit a landed run has seen
    \* the browsers
    page,        \* page[b]: what the page of browser b is doing
    link,        \* link[b]: number of its current or last connection
    listed,      \* listed[b]: runs in its run picker
    drops        \* connections lost so far

streamVars  == <<callbacks, delivered, history, subscribers, conn, queue, out, closing,
                 emitted, closes>>
scanVars    == <<published, landed, failed, run, seen, runs, covered>>
treeVars    == <<edited, newest>>
browserVars == <<page, link, listed, drops>>
vars == <<streamVars, status, scanVars, pc, treeVars, last, browserVars>>

Stream == INSTANCE EventStream
    WITH Producers <- Threads, MaxEvents <- 2 * MaxScans, MaxCloses <- MaxScans

\* A thread inside run_scan, and one that has yet to set the status after it.
Scanning == {"starting", "walking", "landing"}
Unsettled == Scanning \cup {"landed", "published"}

TypeOK ==
    /\ Stream!TypeOK
    /\ status \in {"idle", "scanning", "done", "error"}
    /\ published \in 0 .. MaxScans
    /\ landed \subseteq 1 .. MaxScans /\ failed \subseteq 1 .. MaxScans
    /\ landed \cap failed = {}
    /\ pc \in [Threads -> Unsettled \cup
           {"off", "closing", "signalling", "arming", "watching", "over", "crashed"}]
    /\ run \in [Threads -> 0 .. MaxScans] /\ runs \in 0 .. MaxScans
    /\ seen \in [Threads -> 0 .. MaxEdits]
    /\ edited \in 0 .. MaxEdits /\ newest \in 0 .. edited
    /\ last \in 0 .. newest /\ covered \in 0 .. edited
    /\ page \in [Browsers -> {"off", "loaded", "connected", "done", "reconnecting"}]
    /\ link \in [Browsers -> 0 .. MaxConnects]
    /\ listed \in [Browsers -> SUBSET landed]
    /\ drops \in 0 .. MaxDrops

\* serve() with a target: the startup handler creates the stream, sets the
\* status and starts the first thread.
Init ==
    /\ Stream!Init
    /\ status = "scanning"
    /\ published = 0 /\ landed = {} /\ failed = {}
    /\ pc = [t \in Threads |-> IF t = Main THEN "starting" ELSE "off"]
    /\ run = [t \in Threads |-> IF t = Main THEN 1 ELSE 0]
    /\ seen = [t \in Threads |-> 0]
    /\ runs = 1
    /\ edited = 0 /\ newest = 0 /\ last = 0 /\ covered = 0
    /\ page = [b \in Browsers |-> "off"]
    /\ link = [b \in Browsers |-> 0]
    /\ listed = [b \in Browsers |-> {}]
    /\ drops = 0

Goto(t, place) == pc' = [pc EXCEPT ![t] = place]

-----------------------------------------------------------------------------
\* Scan threads.

\* run_scan opens the target and emits ScanStarted.
StartScan(t) ==
    /\ pc[t] = "starting"
    /\ Stream!Emit
    /\ Goto(t, "walking")
    /\ UNCHANGED <<delivered, history, subscribers, conn, queue, out, closing, closes,
                   status, scanVars, treeVars, last, browserVars>>

\* The walk reads the tree as it is now.
Walk(t) ==
    /\ pc[t] = "walking"
    /\ seen' = [seen EXCEPT ![t] = edited]
    /\ Goto(t, "landing")
    /\ UNCHANGED <<streamVars, status, published, landed, failed, run, runs, covered,
                   treeVars, last, browserVars>>

\* The store is finalized, the run registered: run_scan returns.
Land(t) ==
    /\ pc[t] = "landing"
    /\ landed' = landed \cup {run[t]}
    /\ covered' = IF seen[t] > covered THEN seen[t] ELSE covered
    /\ Goto(t, "landed")
    /\ UNCHANGED <<streamVars, status, published, failed, run, seen, runs, treeVars, last,
                   browserVars>>

Publish(t) ==
    /\ pc[t] = "landed"
    /\ published' = run[t]
    /\ Goto(t, "published")
    /\ UNCHANGED <<streamVars, status, landed, failed, run, seen, runs, covered, treeVars,
                   last, browserVars>>

SetDone(t) ==
    /\ pc[t] = "published"
    /\ status' = "done"
    /\ Goto(t, "closing")
    /\ UNCHANGED <<streamVars, scanVars, treeVars, last, browserVars>>

\* Mutant: the handler reports the failure but leaves the status.
FailSilently(t) ==
    /\ pc[t] \in Scanning
    /\ Cardinality(failed) < MaxFailures
    /\ Stream!Emit
    /\ failed' = failed \cup {run[t]}
    /\ Goto(t, "closing")
    /\ UNCHANGED <<delivered, history, subscribers, conn, queue, out, closing, closes, status,
                   published, landed, run, seen, runs, covered, treeVars, last, browserVars>>

\* run_scan raises: SCAN_FAILED is emitted, the status set.
Fail(t) ==
    /\ pc[t] \in Scanning
    /\ Cardinality(failed) < MaxFailures
    /\ Stream!Emit
    /\ failed' = failed \cup {run[t]}
    /\ status' = "error"
    /\ Goto(t, "closing")
    /\ UNCHANGED <<delivered, history, subscribers, conn, queue, out, closing, closes,
                   published, landed, run, seen, runs, covered, treeVars, last, browserVars>>

\* state.events.close(): see EventStream.  Its exception is caught nowhere, so
\* the thread dies and with it the watch loop it was or was to become.
BeginClose(t) ==
    /\ pc[t] = "closing"
    /\ Stream!BeginClose(t)
    /\ Goto(t, "signalling")
    /\ UNCHANGED <<status, scanVars, treeVars, last, browserVars>>

\* One turn of its loop: the next subscriber, the end, or an exception.  Run 1
\* is the first pass of the first thread: after it the watch loop takes its first
\* look.
CloseStep(t) ==
    /\ pc[t] = "signalling"
    /\ \/ Stream!CloseNext(t) /\ UNCHANGED pc
       \/ Stream!CloseEnd(t) /\ Goto(t, IF t # Main \/ ~Watch THEN "over"
                                       ELSE IF run[t] = 1 THEN "arming" ELSE "watching")
       \/ Stream!CloseRaises(t) /\ Goto(t, "crashed")
    /\ UNCHANGED <<status, scanVars, treeVars, last, browserVars>>

\* _watch_loop begins: last = _tree_signature(root).
Arm(t) ==
    /\ pc[t] = "arming"
    /\ last' = newest
    /\ Goto(t, "watching")
    /\ UNCHANGED <<streamVars, status, scanVars, treeVars, browserVars>>

\* Mutant: a turn that finds a scan running takes the change for scanned.
NoticeUnlessBusy(t) ==
    /\ pc[t] = "watching" /\ newest > last /\ runs < MaxScans
    /\ last' = newest
    /\ status' = "scanning"
    /\ IF status = "scanning"
       THEN UNCHANGED <<runs, run, pc>>
       ELSE /\ runs' = runs + 1
            /\ run' = [run EXCEPT ![t] = runs + 1]
            /\ Goto(t, "starting")
    /\ UNCHANGED <<streamVars, published, landed, failed, seen, covered, treeVars, browserVars>>

\* A turn of the watch loop that finds a file newer than `last`.  It asks
\* nobody whether a scan is running.
Notice(t) ==
    /\ pc[t] = "watching" /\ newest > last /\ runs < MaxScans
    /\ last' = newest
    /\ status' = "scanning"
    /\ runs' = runs + 1
    /\ run' = [run EXCEPT ![t] = runs + 1]
    /\ Goto(t, "starting")
    /\ UNCHANGED <<streamVars, published, landed, failed, seen, covered, treeVars, browserVars>>

ThreadStep(t) ==
    \/ StartScan(t) \/ Walk(t) \/ Land(t) \/ Publish(t) \/ SetDone(t)
    \/ BeginClose(t) \/ CloseStep(t)
    \/ Arm(t) \/ Notice(t)

-----------------------------------------------------------------------------
\* The event loop: the scan endpoint and the stream's callbacks.

\* POST /api/scan: no await between the check and the assignment.
PostScan(t) ==
    /\ pc[t] = "off" /\ runs < MaxScans
    /\ status # "scanning"
    /\ status' = "scanning"
    /\ runs' = runs + 1
    /\ run' = [run EXCEPT ![t] = runs + 1]
    /\ Goto(t, "starting")
    /\ UNCHANGED <<streamVars, published, landed, failed, seen, covered, treeVars, last,
                   browserVars>>

\* The thread cannot be started: 500.
PostFails ==
    /\ Posts # {}
    /\ status # "scanning"
    /\ status' = "error"
    /\ UNCHANGED <<streamVars, scanVars, pc, treeVars, last, browserVars>>

Deliver ==
    /\ Stream!LoopStep
    /\ UNCHANGED <<status, scanVars, pc, treeVars, last, browserVars>>

-----------------------------------------------------------------------------
\* Browsers, and whoever edits the target.

Connection(b) == <<b, link[b]>>

\* main(): the page fetches /api/runs ...
Load(b) ==
    /\ page[b] = "off"
    /\ page' = [page EXCEPT ![b] = "loaded"]
    /\ listed' = [listed EXCEPT ![b] = landed]
    /\ UNCHANGED <<streamVars, status, scanVars, pc, treeVars, last, link, drops>>

\* ... and then opens the EventSource, which also reconnects by itself when
\* the response ends or the connection is lost.
Connect(b) ==
    /\ page[b] \in {"loaded", "reconnecting"} /\ link[b] < MaxConnects
    /\ link' = [link EXCEPT ![b] = @ + 1]
    /\ Stream!Subscribe(<<b, link[b] + 1>>)
    /\ page' = [page EXCEPT ![b] = "connected"]
    /\ UNCHANGED <<status, scanVars, pc, treeVars, last, listed, drops>>

Receive(b) ==
    /\ page[b] = "connected"
    /\ Stream!Yield(Connection(b))
    /\ UNCHANGED <<status, scanVars, pc, treeVars, last, browserVars>>

ReceiveDone(b) ==
    /\ page[b] = "connected"
    /\ Stream!YieldDone(Connection(b))
    /\ page' = [page EXCEPT ![b] = "done"]
    /\ UNCHANGED <<status, scanVars, pc, treeVars, last, link, listed, drops>>

\* The done listener: loadRuns and a fresh view.
Refresh(b) ==
    /\ page[b] = "done"
    /\ page' = [page EXCEPT ![b] = "reconnecting"]
    /\ listed' = [listed EXCEPT ![b] = landed]
    /\ UNCHANGED <<streamVars, status, scanVars, pc, treeVars, last, link, drops>>

LoseConnection(b) ==
    /\ page[b] = "connected" /\ drops < MaxDrops
    /\ drops' = drops + 1
    /\ Stream!Disconnect(Connection(b))
    /\ page' = [page EXCEPT ![b] = "reconnecting"]
    /\ UNCHANGED <<status, scanVars, pc, treeVars, last, link, listed>>

\* A file is written, which makes its mtime the newest; or one is removed from
\* (or replaced by an older one in) the top directory, which no mtime below it
\* shows.
Edit(touches) ==
    /\ edited < MaxEdits
    /\ edited' = edited + 1
    /\ newest' = IF touches THEN edited + 1 ELSE newest
    /\ UNCHANGED <<streamVars, status, scanVars, pc, last, browserVars>>

BrowserStep(b) == Connect(b) \/ Receive(b) \/ ReceiveDone(b) \/ Refresh(b)

Next ==
    \/ \E t \in Threads : ThreadStep(t) \/ Fail(t)
    \/ \E t \in Posts : PostScan(t)
    \/ PostFails
    \/ Deliver
    \/ \E b \in Browsers : Load(b) \/ BrowserStep(b) \/ LoseConnection(b)
    \/ \E touches \in Edits : Edit(touches)

\* Threads and the loop run, a page that was opened goes on, and the watch loop
\* keeps looking.  Nobody has to edit, post, open a page or lose a connection,
\* and no scan has to fail.
Fairness ==
    /\ \A t \in Threads : WF_vars(ThreadStep(t))
    /\ WF_vars(Deliver)
    /\ \A b \in Browsers : WF_vars(BrowserStep(b))

Spec == Init /\ [][Next]_vars /\ Fairness

-----------------------------------------------------------------------------

\* scan_status never says "scanning" when no scan is on its way to change it:
\* else every POST would be refused for ever.  Holds across failing scans and
\* scans that overlap.
ScanningStatusHasScan ==
    status = "scanning" => \E t \in Threads : pc[t] \in Unsettled

\* When the stream is closed for a run, that run has failed or landed and a
\* store is published; so a page that refreshes on `done` finds a run.
DoneMeansQueryable ==
    /\ \A t \in Threads : pc[t] \in {"closing", "signalling"} =>
           run[t] \in failed \/ (run[t] \in landed /\ published # 0)
    /\ \A b \in Browsers : page[b] = "done" => failed # {} \/ published # 0

\* The status and the end of the stream tell of a scan that is really there.
AnnouncedScansAreReal == ScanningStatusHasScan /\ DoneMeansQueryable

\* A scan that is under way is eventually over for the clients that poll
\* /api/health, failing scans included.
StatusSettles == (status = "scanning") ~> (status # "scanning")

\* Said by --watch's help: a change is re-scanned.  With the watch loop on,
\* a change newer than its last look is eventually in a finished run, unless
\* the thread's scan fails: the loop does not try again what failed.
ChangesWhileWatchingRescanned ==
    \A v \in 1 .. MaxEdits :
        (pc[Main] = "watching" /\ newest >= v /\ last < v)
            ~> (covered >= v \/ run[Main] \in failed)

\* Said by the comment on the watch loop (it re-scans on change, streaming each
\* pass): pages that come and go do not end it.  What end-of-stream raises
\* while a page's connection is removed is caught nowhere.
WatchLoopOutlivesPages == Watch => pc[Main] # "crashed"
=============================================================================
