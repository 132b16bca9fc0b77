---------------------------- MODULE PkgTimeline ----------------------------
(***************************************************************************)
(* Package-database time travel (core/container_scan.py and                *)
(* container/pkgdb_timeline.py): the database files an image carries are   *)
(* parsed as of each layer that wrote them, consecutive snapshots are      *)
(* compared, and every version that was replaced or removed becomes an     *)
(* event and a historical component.                                       *)
(*                                                                         *)
(* An image is what each layer did to each database.  A package family is  *)
(* one name; snapshots map it to a version or None.  Reading a database    *)
(* may fail (budget, damaged layer), which the scan answers by skipping    *)
(* the snapshot.  DBs are numbered in the order of their paths.            *)
(***************************************************************************)
EXTENDS Integers, Sequences, FiniteSets

CONSTANTS
    NumDBs,     \* database paths
    Packages,   \* package families
    Versions,   \* their versions
    MaxHistory, \* bound: layers of an image with databases
    MaxTouched, \* bound: changes of databases by the layers of an image
    Unreadable  \* TRUE: a database of a layer may fail to open

ASSUME TimelineAssumption ==
    /\ {NumDBs, MaxHistory, MaxTouched} \subseteq Nat /\ Unreadable \in BOOLEAN

VARIABLES
    image,     \* image[db][k + 1]: what layer k did to db
    phase,     \* "layers", "diff" or "done"
    db,        \* the database whose snapshots are compared
    prev,      \* prev of diff_timeline, for db
    prevWrite, \* prev_write: the ordinal that set the version in prev
    prevAt,    \* prev_ordinal
    events     \* all_events

scan == <<phase, db, prev, prevWrite, prevAt, events>>
timelineVars == <<image, scan>>

DBs == 1 .. NumDBs
None == "none"
Never == -1

Snapshot == [Packages -> Versions \cup {None}]
Nothing == [p \in Packages |-> None]

\* gone: a whiteout or opaque marker of the layer hid the file of the layers
\* below; written: the layer carries the file; readable: it can be opened.
Change == [gone : BOOLEAN, written : BOOLEAN, readable : BOOLEAN, holds : Snapshot]
Untouched == [gone |-> FALSE, written |-> FALSE, readable |-> TRUE, holds |-> Nothing]
Changes ==
    {c \in Change : /\ ~c.written => c.holds = Nothing /\ c.readable
                    /\ ~c.readable => Unreadable}

Event == [db : DBs, pkg : Packages, old : Versions, oldAt : Nat,
          new : Versions \cup {None}, newAt : Nat]

Ordinals(d) == 0 .. Len(image[d]) - 1
ChangeAt(d, k) == image[d][k + 1]

\* The file is there after the layers up to k.
PresentAfter(d, k) ==
    \E i \in 0 .. k : /\ ChangeAt(d, i).written
                      /\ \A j \in i + 1 .. k : ~ChangeAt(d, j).gone

TimelineTypeOK ==
    /\ image \in [DBs -> Seq(Changes)]
    /\ phase \in {"layers", "diff", "done"}
    /\ db \in 1 .. NumDBs + 1
    /\ prev \in Snapshot
    /\ prevWrite \in [Packages -> Never .. MaxHistory]
    /\ prevAt \in Never .. MaxHistory
    /\ events \subseteq Event

TimelineInit ==
    /\ image = [d \in DBs |-> <<>>]
    /\ phase = "layers"
    /\ db = 1
    /\ prev = Nothing
    /\ prevWrite = [p \in Packages |-> Never]
    /\ prevAt = Never
    /\ events = {}

Touched ==
    {t \in DBs \X (1 .. MaxHistory) : t[2] \in DOMAIN image[t[1]] /\ image[t[1]][t[2]] # Untouched}

\* The image has one more layer.  A marker is in the transition log only if it
\* hid something.
BuildLayer(change) ==
    /\ phase = "layers"
    /\ \A d \in DBs : /\ Len(image[d]) < MaxHistory
                      /\ change[d].gone => PresentAfter(d, Len(image[d]) - 1)
    /\ Cardinality(Touched) + Cardinality({d \in DBs : change[d] # Untouched}) <= MaxTouched
    /\ image' = [d \in DBs |-> Append(image[d], change[d])]
    /\ UNCHANGED scan

StartTravel ==
    /\ phase = "layers"
    /\ phase' = "diff"
    /\ UNCHANGED <<image, db, prev, prevWrite, prevAt, events>>

-----------------------------------------------------------------------------
\* _pkgdb_states.

Writes(d)   == {k \in Ordinals(d) : ChangeAt(d, k).written}
Removals(d) == {k \in Ordinals(d) : ChangeAt(d, k).gone}

\* A database written once and never removed has no history.
HasHistory(d) == Cardinality(Writes(d)) > 1 \/ Removals(d) # {}

\* per_layer: ordinal -> snapshot.  A removal stands where no snapshot does.
States(d) ==
    IF ~HasHistory(d) THEN <<>>
    ELSE LET read == {k \in Writes(d) : ChangeAt(d, k).readable}
         IN  [k \in read \cup Removals(d) |->
                  IF k \in read THEN ChangeAt(d, k).holds ELSE Nothing]

-----------------------------------------------------------------------------
\* diff_timeline.

First(ordinals) == CHOOSE k \in ordinals : \A j \in ordinals : k <= j
Last(ordinals)  == CHOOSE k \in ordinals : \A j \in ordinals : j <= k

\* The events of the snapshot at k: upgraded, or removed if new is None.
EventsAt(k, cur) ==
    {[db |-> db, pkg |-> p, old |-> prev[p],
      oldAt |-> IF prevWrite[p] # Never THEN prevWrite[p] ELSE prevAt,
      new |-> cur[p], newAt |-> k] :
        p \in {q \in Packages : prev[q] # None /\ cur[q] # prev[q]}}

\* Mutant: of a package that is gone nothing is said.
CompareUpgrades ==
    /\ phase = "diff"
    /\ \E k \in DOMAIN States(db) :
          /\ k > prevAt
          /\ \A j \in DOMAIN States(db) : j > prevAt => k <= j
          /\ LET cur == States(db)[k]
             IN  /\ events' = events \cup {e \in EventsAt(k, cur) : e.new # None}
                 /\ prevWrite' = [p \in Packages |->
                        IF cur[p] # None /\ prev[p] # cur[p] THEN k ELSE prevWrite[p]]
                 /\ prev' = cur
          /\ prevAt' = k
    /\ UNCHANGED <<image, phase, db>>

\* One turn of the loop: the next snapshot of the database against the last.
Compare ==
    /\ phase = "diff"
    /\ db \in DBs
    /\ \E k \in DOMAIN States(db) :
          /\ k > prevAt
          /\ \A j \in DOMAIN States(db) : j > prevAt => k <= j
          /\ LET cur == States(db)[k]
             IN  /\ events' = events \cup (IF prevAt = Never THEN {} ELSE EventsAt(k, cur))
                 /\ prevWrite' = [p \in Packages |->
                        IF cur[p] # None /\ prev[p] # cur[p] THEN k ELSE prevWrite[p]]
                 /\ prev' = cur
          /\ prevAt' = k
    /\ UNCHANGED <<image, phase, db>>

\* _apply_timeline takes the next database; each has a diff of its own.
NextDB ==
    /\ phase = "diff"
    /\ db \in DBs
    /\ \A j \in DOMAIN States(db) : j <= prevAt
    /\ db' = db + 1
    /\ phase' = IF db = NumDBs THEN "done" ELSE "diff"
    /\ prev' = Nothing
    /\ prevWrite' = [p \in Packages |-> Never]
    /\ prevAt' = Never
    /\ UNCHANGED <<image, events>>

TimelineNext ==
    \/ \E change \in [DBs -> Changes] : BuildLayer(change)
    \/ StartTravel
    \/ Compare
    \/ NextDB

TimelineSpec == TimelineInit /\ [][TimelineNext]_timelineVars

-----------------------------------------------------------------------------
\* The layer an installed package is attributed to.

\* _merge_states: the databases' snapshots, a later path over an earlier one.
Merged(k, p) ==
    LET holding == {d \in DBs : k \in DOMAIN States(d) /\ States(d)[k][p] # None}
    IN  IF holding = {} THEN None ELSE States(Last(holding))[k][p]

\* first_seen.
FirstSeen(p, v) ==
    LET seen == {k \in UNION {DOMAIN States(d) : d \in DBs} : Merged(k, p) = v}
    IN  IF seen = {} THEN Never ELSE First(seen)

\* What the last layer leaves installed, database by database.
Installed(d, p) ==
    IF PresentAfter(d, Len(image[d]) - 1) THEN ChangeAt(d, Last(Writes(d))).holds[p] ELSE None

\* _introducing_ordinal: the snapshots first, else the owner of the evidence,
\* which is the last layer that wrote the database.
Introducing(d, p) ==
    LET seen == FirstSeen(p, Installed(d, p))
    IN  IF seen # Never THEN seen ELSE Last(Writes(d))

-----------------------------------------------------------------------------

\* Every event names the layer that set the old version and the layer that
\* changed it, and every snapshot between the two carries the old version.
EventsTellHistory ==
    \A e \in events :
        LET s == States(e.db)
        IN  /\ e.oldAt < e.newAt /\ {e.oldAt, e.newAt} \subseteq DOMAIN s
            /\ s[e.newAt][e.pkg] = e.new /\ e.new # e.old
            /\ \A k \in DOMAIN s : k \in e.oldAt .. e.newAt - 1 => s[k][e.pkg] = e.old
            /\ \A k \in DOMAIN s :
                  (k < e.oldAt /\ \A j \in DOMAIN s : j < e.oldAt => j <= k)
                      => s[k][e.pkg] # e.old

\* A version a snapshot held is still in the last snapshot, unchanged since, or
\* exactly one event tells what became of it.
NothingForgotten ==
    phase = "done" =>
        \A d \in DBs : \A k \in DOMAIN States(d) : \A p \in Packages :
            LET v     == States(d)[k][p]
                later == {j \in DOMAIN States(d) : j > k}
                telling == {e \in events : /\ e.db = d /\ e.pkg = p /\ e.old = v
                                           /\ e.oldAt <= k /\ k < e.newAt}
            IN  v # None =>
                    Cardinality(telling) =
                        IF \A j \in later : States(d)[j][p] = v THEN 0 ELSE 1

\* The layer a package is attributed to wrote a database with that version, or
\* the database it was read from.
AttributionIsWitnessed ==
    phase = "done" =>
        \A d \in DBs : \A p \in Packages : Installed(d, p) # None =>
            \E w \in DBs : \E k \in Writes(w) :
                /\ k = Introducing(d, p)
                /\ ChangeAt(w, k).holds[p] = Installed(d, p)

\* The events are the history of the databases, nothing else and nothing less,
\* and what is left at its end is put down to the layer it came from.
HistoryIsTold == EventsTellHistory /\ NothingForgotten /\ AttributionIsWitnessed
=============================================================================
