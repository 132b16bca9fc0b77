----------------------------- MODULE RunRegistry -----------------------------
(***************************************************************************)
(* The results workspace of core/workspace.py: one SQLite store per run    *)
(* and one index.json that maps each subject to its lineage of runs.       *)
(*                                                                         *)
(* Every scan is a process of its own (two terminals, the UI server and a  *)
(* CI job, the watch loop and the CLI share one results directory), and    *)
(* register_run reads index.json, extends the lineage in memory and        *)
(* rewrites the file with Path.write_text.  The rewrite is two steps here, *)
(* the truncation at open and the write, because another scan, a reader    *)
(* or a crash can come between them.                                       *)
(***************************************************************************)
EXTENDS Naturals, Sequences, FiniteSets

CONSTANTS
    Runs,        \* run ids; a number stands for the random suffix of new_run_id
    Elsewhere,   \* runs whose caller keeps the store in a temporary directory
                 \* (sorb snapshot, diff of images, --follow-images)
    Subjects,    \* subjects scanned into this results directory
    Serials,     \* content serials (emit/canonical.py)
    Tools,       \* detector fingerprints
    MaxActive,   \* bound: scans in progress at the same time
    MaxCrashes,  \* bound: scans killed before they finish
    MaxClock     \* bound: seconds the clock may advance

ASSUME RunsAssumption == Runs \subseteq Nat /\ Elsewhere \subseteq Runs
ASSUME BoundsAssumption ==
    MaxActive \in Nat /\ MaxCrashes \in Nat /\ MaxClock \in Nat

VARIABLES
    pc,       \* pc[r]: how far the scan of run r has come
    scan,     \* scan[r]: subject, content serial, detector fingerprint of the run
    started,  \* started[r]: the second new_run_id read, the sort key of the file name
    store,    \* store[r]: what a reader of <run-id>.sorb.db finds committed
    index,    \* the content of index.json
    loaded,   \* loaded[r]: the index run r holds in memory, its own entry appended
    clock     \* wall clock, in whole seconds

vars == <<pc, scan, started, store, index, loaded, clock>>

NoSerial == "none"
Reasons  == {"initial", "identical", "tooling-changed", "subject-changed"}

Scans   == [subject : Subjects, serial : Serials, tool : Tools]
Entries == [run : Runs, serial : Serials, tool : Tools, reason : Reasons,
            version : Nat, created : Nat]
Indexes == [Subjects -> Seq(Entries)]

\* index.json missing or just truncated, and a file two writers left in pieces.
\* _load_index treats both as an index without subjects.
EmptyFile == [kind |-> "empty"]
TornFile  == [kind |-> "torn"]
FileOf(i) == [kind |-> "index", lineages |-> i]
Files     == {EmptyFile, TornFile} \cup [kind : {"index"}, lineages : Indexes]

NoIndex    == [s \in Subjects |-> <<>>]
LoadIndex(file) == IF file.kind = "index" THEN file.lineages ELSE NoIndex

\* A store as its readers see it: created, reconciled, or finalized with the
\* metadata finalize_store writes.
Missing    == [stage |-> "missing"]
Created    == [stage |-> "created"]
Reconciled == [stage |-> "reconciled"]
Finalized(serial, reason, version, supersedes) ==
    [stage |-> "final", serial |-> serial, reason |-> reason,
     version |-> version, supersedes |-> supersedes]

Stores == {Missing, Created, Reconciled} \cup
          [stage : {"final"}, serial : Serials, reason : Reasons,
           version : Nat, supersedes : Serials \cup {NoSerial}]

LastOf(lineage) == lineage[Len(lineage)]

\* Positions of a lineage whose serial differs from the one before: the list
\* register_run calls `distinct`, whose length is the document version.
Changes(lineage) ==
    {i \in DOMAIN lineage : i = 1 \/ lineage[i].serial # lineage[i - 1].serial}

ReasonFor(lineage, sc) ==
    IF lineage = <<>> THEN "initial"
    ELSE IF LastOf(lineage).serial = sc.serial THEN "identical"
    ELSE IF LastOf(lineage).tool # sc.tool THEN "tooling-changed"
    ELSE "subject-changed"

\* Mutant: counts runs instead of changes of serial.
VersionCountsRuns(lineage, sc) == Len(lineage) + 1

VersionFor(lineage, sc) ==
    Cardinality(Changes(lineage))
      + (IF lineage # <<>> /\ LastOf(lineage).serial = sc.serial THEN 0 ELSE 1)

\* Mutants: the superseded serial is not cleared for an identical re-scan; the
\* wrong field of the last entry is returned.
SupersedesItself(lineage, sc) ==
    IF lineage = <<>> THEN NoSerial ELSE LastOf(lineage).serial

SupersedesReason(lineage, sc) ==
    IF lineage = <<>> \/ LastOf(lineage).serial = sc.serial
    THEN NoSerial ELSE LastOf(lineage).reason

SupersededBy(lineage, sc) ==
    IF lineage = <<>> \/ LastOf(lineage).serial = sc.serial
    THEN NoSerial ELSE LastOf(lineage).serial

EntryFor(r, lineage, sc, now) ==
    [run |-> r, serial |-> sc.serial, tool |-> sc.tool,
     reason |-> ReasonFor(lineage, sc), version |-> VersionFor(lineage, sc),
     created |-> now]

NoScan  == [subject |-> "none"]
Active  == {r \in Runs : pc[r] \notin {"new", "done", "dead"}}
Crashed == {r \in Runs : pc[r] = "dead"}

TypeOK ==
    /\ pc \in [Runs -> {"new", "scanning", "reconciled", "loaded", "writing",
                        "registered", "done", "dead"}]
    /\ scan \in [Runs -> Scans \cup {NoScan}]
    /\ \A r \in Runs : pc[r] # "new" => scan[r] \in Scans
    /\ started \in [Runs -> Nat]
    /\ store \in [Runs -> Stores]
    /\ index \in Files
    /\ loaded \in [Runs -> Indexes]
    /\ clock \in Nat

Init ==
    /\ pc = [r \in Runs |-> "new"]
    /\ scan = [r \in Runs |-> NoScan]
    /\ started = [r \in Runs |-> 0]
    /\ store = [r \in Runs |-> Missing]
    /\ index = EmptyFile
    /\ loaded = [r \in Runs |-> NoIndex]
    /\ clock = 0

-----------------------------------------------------------------------------

\* init_store: the run id is drawn and the database file appears.  What the
\* scan will find, and so its serial, is decided by the target: any value.
StartScan(r, sc) ==
    /\ pc[r] = "new"
    /\ Cardinality(Active) < MaxActive
    /\ pc' = [pc EXCEPT ![r] = "scanning"]
    /\ scan' = [scan EXCEPT ![r] = sc]
    /\ started' = [started EXCEPT ![r] = clock]
    /\ store' = [store EXCEPT ![r] = Created]
    /\ UNCHANGED <<index, loaded, clock>>

\* reconcile commits the components and edges.
Reconcile(r) ==
    /\ pc[r] = "scanning"
    /\ pc' = [pc EXCEPT ![r] = "reconciled"]
    /\ store' = [store EXCEPT ![r] = Reconciled]
    /\ UNCHANGED <<scan, started, index, loaded, clock>>

\* Mutant: the run is registered before its graph is committed.
LoadBeforeReconcile(r) ==
    LET lineages == LoadIndex(index)
        s        == scan[r].subject
        entry    == EntryFor(r, lineages[s], scan[r], clock)
    IN /\ pc[r] \in {"scanning", "reconciled"}
       /\ pc' = [pc EXCEPT ![r] = "loaded"]
       /\ loaded' = [loaded EXCEPT
                       ![r] = [lineages EXCEPT ![s] = Append(@, entry)]]
       /\ UNCHANGED <<scan, started, store, index, clock>>

\* register_run up to the rewrite: load the index, work out reason and
\* version, append the entry in memory.
LoadAndAppend(r) ==
    LET lineages == LoadIndex(index)
        s        == scan[r].subject
        entry    == EntryFor(r, lineages[s], scan[r], clock)
    IN /\ pc[r] = "reconciled"
       /\ pc' = [pc EXCEPT ![r] = "loaded"]
       /\ loaded' = [loaded EXCEPT
                       ![r] = [lineages EXCEPT ![s] = Append(@, entry)]]
       /\ UNCHANGED <<scan, started, store, index, clock>>

\* write_text opens the file, which empties it ...
TruncateIndex(r) ==
    /\ pc[r] = "loaded"
    /\ pc' = [pc EXCEPT ![r] = "writing"]
    /\ index' = EmptyFile
    /\ UNCHANGED <<scan, started, store, loaded, clock>>

\* ... and writes it.  If another scan wrote since, the bytes land over a
\* file that is no longer empty: they replace it, or leave its longer tail.
WriteIndex(r) ==
    /\ pc[r] = "writing"
    /\ pc' = [pc EXCEPT ![r] = "registered"]
    /\ \/ index' = FileOf(loaded[r])
       \/ index # EmptyFile /\ index' = TornFile
    /\ UNCHANGED <<scan, started, store, loaded, clock>>

\* finalize_store after register_run: the metadata, then the commit.
\* superseded and version are what register_run returned, recomputed here
\* from the lineage the run held before its own entry.
FinalizeStore(r) ==
    LET lineage == loaded[r][scan[r].subject]
        entry   == LastOf(lineage)
        before  == SubSeq(lineage, 1, Len(lineage) - 1)
        reason  == IF entry.reason = "identical" THEN "initial" ELSE entry.reason
    IN /\ pc[r] = "registered"
       /\ pc' = [pc EXCEPT ![r] = "done"]
       /\ store' = [store EXCEPT ![r] =
              Finalized(entry.serial, reason, entry.version,
                        SupersededBy(before, scan[r]))]
       /\ UNCHANGED <<scan, started, index, loaded, clock>>

\* The process is killed.  What it committed stays, its transaction does not.
Crash(r) ==
    /\ r \in Active
    /\ Cardinality(Crashed) < MaxCrashes
    /\ pc' = [pc EXCEPT ![r] = "dead"]
    /\ UNCHANGED <<scan, started, store, index, loaded, clock>>

Tick ==
    /\ clock < MaxClock
    /\ clock' = clock + 1
    /\ UNCHANGED <<pc, scan, started, store, index, loaded>>

Next ==
    \/ \E r \in Runs, sc \in Scans : StartScan(r, sc)
    \/ \E r \in Runs : Reconcile(r)
    \/ \E r \in Runs : LoadAndAppend(r)
    \/ \E r \in Runs : TruncateIndex(r)
    \/ \E r \in Runs : WriteIndex(r)
    \/ \E r \in Runs : FinalizeStore(r)
    \/ \E r \in Runs : Crash(r)
    \/ Tick

Spec == Init /\ [][Next]_vars

-----------------------------------------------------------------------------

\* latest_run_db: the run with the greatest (created, run id) among the last
\* entries of all lineages, or none if its store is not in the results
\* directory; with no entry at all, the store whose file name (second, suffix)
\* is greatest.
After(t1, r1, t2, r2) == t1 > t2 \/ (t1 = t2 /\ r1 >= r2)

\* Mutant: the first entry of each lineage stands for it.
FirstCandidates(lineages) ==
    {lineages[s][1] : s \in {t \in Subjects : lineages[t] # <<>>}}

LatestCandidates(lineages) ==
    {LastOf(lineages[s]) : s \in {t \in Subjects : lineages[t] # <<>>}}

LatestRunDb ==
    LET candidates == LatestCandidates(LoadIndex(index))
        files      == {r \in Runs \ Elsewhere : store[r] # Missing}
    IN IF candidates # {}
       THEN {e.run : e \in {c \in candidates : \A d \in candidates :
                               After(c.created, c.run, d.created, d.run)}} \ Elsewhere
       ELSE {r \in files : \A q \in files : After(started[r], r, started[q], q)}

-----------------------------------------------------------------------------

\* An entry as its readers may rely on it: its version counts the changes of
\* serial up to it, its reason compares it with the entry before.
ConsistentEntry(l, i) ==
    /\ l[i].version = Cardinality({j \in Changes(l) : j <= i})
    /\ l[i].reason = "initial" <=> i = 1
    /\ i > 1 => (l[i].reason = "identical" <=> l[i].serial = l[i - 1].serial)
    /\ l[i].reason = "tooling-changed" => l[i].tool # l[i - 1].tool
    /\ l[i].reason = "subject-changed" => l[i].tool = l[i - 1].tool

\* Whatever scans overlap, wherever one is killed and however often the file
\* is lost and begun again, every lineage a reader can load is consistent in
\* itself: an entry is computed from exactly the entries written before it.
LineagesConsistent ==
    \A s \in Subjects : \A i \in DOMAIN LoadIndex(index)[s] :
        ConsistentEntry(LoadIndex(index)[s], i)

\* An entry of index.json names a run whose store holds the reconciled graph,
\* under the subject and with the serial that run computed: registration comes
\* after reconcile's commit in every flow, so a reader sent to the latest
\* registered run never opens a store without components.
RegisteredRunsReconciled ==
    \A s \in Subjects : \A i \in DOMAIN LoadIndex(index)[s] :
        LET e == LoadIndex(index)[s][i] IN
        /\ store[e.run].stage \in {"reconciled", "final"}
        /\ scan[e.run].subject = s
        /\ scan[e.run].serial = e.serial

\* The document version and serial an SBOM is emitted with (the store's
\* metadata) are those the registry lists for the run, whenever it lists it.
StoreAgreesWithRegistry ==
    \A s \in Subjects : \A i \in DOMAIN LoadIndex(index)[s] :
        LET e == LoadIndex(index)[s][i] IN
        store[e.run].stage = "final" =>
            store[e.run].version = e.version /\ store[e.run].serial = e.serial

\* No run is listed twice, in one lineage or in two.
RunsListedOnce ==
    \A s, t \in Subjects :
        \A i \in DOMAIN LoadIndex(index)[s], j \in DOMAIN LoadIndex(index)[t] :
            LoadIndex(index)[s][i].run = LoadIndex(index)[t][j].run
                => s = t /\ i = j

\* Scans one after the other and none killed: a finished run stays in its
\* subject's lineage, whatever is scanned afterwards, except while a later
\* run is between the truncation and the write.
FinishedRunsListed ==
    (\A r \in Runs : pc[r] # "writing") =>
        \A r \in Runs : pc[r] = "done" =>
            \E i \in DOMAIN LoadIndex(index)[scan[r].subject] :
                LoadIndex(index)[scan[r].subject][i].run = r

\* query, verify and the UI open what latest_run_db returns: no entry of any
\* lineage was created in a later second than the run it returns, although it
\* looks at the last entry of each lineage only.
LatestRunIsNewest ==
    \A s, t \in Subjects : \A i \in DOMAIN LoadIndex(index)[s] :
        \A j \in DOMAIN LoadIndex(index)[t] :
            LoadIndex(index)[s][i].run \in LatestRunDb
                => LoadIndex(index)[t][j].created <= LoadIndex(index)[s][i].created

\* query and explain say "no scan results found" only if there are none: as
\* long as the store of a finished run is in the results directory,
\* latest_run_db returns a store.
QueryFindsResults ==
    (\E r \in Runs \ Elsewhere : store[r].stage = "final") => LatestRunDb # {}

\* What a finished document says it supersedes was the serial that another run
\* of the subject registered, with the document version just below: also when
\* runs overlap, when the run before was killed before it finished and when
\* the registry was lost since.
SupersedesChain ==
    \A r \in Runs :
        store[r].stage = "final" /\ store[r].supersedes # NoSerial =>
            \E q \in Runs \ {r} :
                /\ scan[q].subject = scan[r].subject
                /\ loaded[q][scan[q].subject] # <<>>
                /\ LET entry == LastOf(loaded[q][scan[q].subject])
                   IN  /\ entry.run = q
                       /\ entry.serial = store[r].supersedes
                       /\ entry.version + 1 = store[r].version
=============================================================================
