----------------------------- MODULE StoreEdits -----------------------------
(* What is changed in the results of a scan after the catalogers are done: the
   corrections of the project (core/corrections.py, written by sorb mark and by
   the page at once), and what the traced sessions of sorb watch observe
   (dynamic/trace/mapper.py). *)
EXTENDS Findings, SequencesExt

CONSTANTS
    Names, Scoped,      \* package names; those of npm's form @scope/name
    Editors,            \* processes that edit the corrections, one step at a time
    Trees,              \* what the catalogers may find: sequences of [name, ver, scope]
    Marks,              \* the entries that may be added and removed
    MaxMarks, MaxSessions

ASSUME ScopedAreNames == Scoped \subseteq Names /\ IsFiniteSet(Names)

Scopes == {"", "runtime", "dev", "test", "build", "optional"}
Find == [name : Names, ver : Version \cup {0}, scope : Scopes]
ASSUME TreesAreFinds == Trees \subseteq Seq(Find)

VARIABLES
    file,       \* sorb.corrections.json: whether it is whole, and its entries
    editor,     \* [at, op, entry, copy] of each editor
    edits,      \* operations started
    scanned,    \* whether the scan has run
    table,      \* its components, in the order of their rows
    sessions,   \* what each traced session loaded: package -> version
    marked,     \* the entries whose editors were told that they are recorded
    raced,      \* an edit overlapped another, was killed, or was read half written
    obeyed      \* the entries on record when the scan read the file, and whether it was raced

storeVars == <<file, editor, edits, scanned, table, sessions, marked, raced, obeyed>>

Kinds == {"false-positive", "missing"}
\* A purl or a name, with a version or without.
RefsTo(name) == [name : {name}, ver : Version \cup {0}, purl : BOOLEAN]
ASSUME MarksAreEntries == Marks \subseteq [kind : Kinds, ref : UNION {RefsTo(n) : n \in Names}, eco : BOOLEAN]
Idle == [at |-> "idle", op |-> None, entry |-> None, copy |-> <<>>]

\* OBSERVED is the top of the tiers.
Observed == 5
Component(name, ver, purl, scope, tier, from) ==
    [name |-> name, ver |-> ver, purl |-> purl, eco |-> TRUE, scope |-> scope,
     tier |-> tier, from |-> from, excluded |-> FALSE, notes |-> {}]
Asserted(e) ==
    [Component(e.ref.name, e.ref.ver, e.ref.purl, "", Tier.DECLARED, "user")
       EXCEPT !.eco = e.eco, !.notes = {"user-asserted"}]
----------------------------------------------------------------------------
(* sorb.corrections.json; what is edited after the scan is for the next one *)

\* What is half written or broken reads as no corrections.
LoadCorrections == IF file.whole THEN file.entries ELSE <<>>

SameMark(e, f) == e.kind = f.kind /\ e.ref = f.ref
AddCorrection(entries, e) ==
    IF \E i \in DOMAIN entries : SameMark(entries[i], e) THEN entries ELSE Append(entries, e)
KeepOther(kept, f, e) == IF SameMark(f, e) THEN kept ELSE Append(kept, f)
RemoveCorrection(entries, e) ==
    LET kept[k \in 0 .. Len(entries)] == IF k = 0 THEN <<>> ELSE KeepOther(kept[k - 1], entries[k], e)
    IN  kept[Len(entries)]
Edited(op, entries, e) == IF op = "add" THEN AddCorrection(entries, e) ELSE RemoveCorrection(entries, e)

Busy == {e \in Editors : editor[e].at # "idle"}
\* The file is read; a change that changes nothing ends here.
BeginEdit(e, op, entry) ==
    LET new == Edited(op, LoadCorrections, entry)
    IN  /\ editor[e].at = "idle" /\ edits < MaxMarks /\ ~scanned
        /\ edits' = edits + 1
        /\ editor' = IF new = LoadCorrections THEN editor
                     ELSE [editor EXCEPT ![e] = [at |-> "read", op |-> op, entry |-> entry, copy |-> new]]
        /\ raced' = (raced \/ Busy # {})
        /\ UNCHANGED <<file, scanned, table, sessions, marked, obeyed>>

\* write_text truncates the file before it writes it.
Truncate(e) ==
    /\ editor[e].at = "read" /\ ~scanned
    /\ file' = [whole |-> FALSE, entries |-> <<>>]
    /\ editor' = [editor EXCEPT ![e].at = "writing"]
    /\ UNCHANGED <<edits, scanned, table, sessions, marked, raced, obeyed>>

\* Whoever edited is told that the entry is on record, or that none like it is.
MarkedAfter(marks, op, e) == IF op = "add" THEN marks \cup {e} ELSE {m \in marks : ~SameMark(m, e)}

SaveCorrections(e) ==
    /\ editor[e].at = "writing" /\ ~scanned
    /\ file' = [whole |-> TRUE, entries |-> editor[e].copy]
    /\ editor' = [editor EXCEPT ![e] = Idle]
    /\ marked' = MarkedAfter(marked, editor[e].op, editor[e].entry)
    /\ UNCHANGED <<edits, scanned, table, sessions, raced, obeyed>>

Killed(e) ==
    /\ editor[e].at # "idle" /\ ~scanned
    /\ editor' = [editor EXCEPT ![e] = Idle]
    /\ raced' = TRUE
    /\ UNCHANGED <<file, edits, scanned, table, sessions, marked, obeyed>>
----------------------------------------------------------------------------
(* The corrections are applied to what the scan found *)

\* A purl matches exactly, or without its version any; a name that begins with
\* an @ is split at that, so that no component has it.
FindComponent(rows, ref) ==
    LET named == {i \in DOMAIN rows : rows[i].name = ref.name}
        exact == {i \in named : rows[i].ver = ref.ver}
        pure(S) == {i \in S : rows[i].purl}
    IN  IF ref.purl THEN IF pure(exact) # {} \/ ref.ver # 0 THEN pure(exact) ELSE pure(named)
        ELSE IF ref.name \in Scoped THEN {}
        ELSE IF ref.ver # 0 THEN exact ELSE named

Exclude(rows, hits) ==
    [i \in DOMAIN rows |->
       IF i \in hits /\ ~rows[i].excluded
       THEN [rows[i] EXCEPT !.excluded = TRUE, !.notes = @ \cup {"user-false-positive"}] ELSE rows[i]]

\* Mutant: whatever is asserted is added.
AssertAlways(rows, e) == Append(rows, Asserted(e))

\* What the scanner found itself is not added; nor is what is excluded.
AssertMissing(rows, e) ==
    IF FindComponent(rows, e.ref) # {} THEN rows
    ELSE Append(rows, Asserted(e))

ApplyCorrection(rows, e) ==
    IF e.kind = "false-positive" THEN Exclude(rows, FindComponent(rows, e.ref)) ELSE AssertMissing(rows, e)
ApplyCorrections(rows, entries) ==
    LET done[k \in 0 .. Len(entries)] == IF k = 0 THEN rows ELSE ApplyCorrection(done[k - 1], entries[k])
    IN  done[Len(entries)]

\* A component of an ecosystem has a purl, if only one without a version.
RowsOf(tree) ==
    [i \in DOMAIN tree |-> Component(tree[i].name, tree[i].ver, TRUE, tree[i].scope, Tier.INSTALLED, "scan")]

Scan(tree) ==
    /\ ~scanned
    /\ scanned' = TRUE
    /\ table' = ApplyCorrections(RowsOf(tree), LoadCorrections)
    /\ obeyed' = [clean |-> ~raced /\ file.whole, marks |-> marked]
    /\ UNCHANGED <<file, editor, edits, sessions, marked, raced>>
----------------------------------------------------------------------------
(* A traced session *)

Listed(rows) == {i \in DOMAIN rows : ~rows[i].excluded}
\* Mutant: phantoms of earlier sessions are left out of the index.
DeclaredOnly(rows, name) == {i \in Listed(rows) : rows[i].eco /\ rows[i].from = "scan" /\ rows[i].name = name}

\* by_key: a row without an ecosystem meets nothing that is loaded, nor does a
\* row asserted by the purl of a scoped package, which is named without its scope.
LosesScope(row) == row.from = "user" /\ row.purl /\ row.name \in Scoped
Indexed(rows, name) == {i \in Listed(rows) : rows[i].eco /\ ~LosesScope(rows[i]) /\ rows[i].name = name}

MarkObserved(row) ==
    [row EXCEPT !.scope = "runtime-observed", !.tier = Observed, !.notes = @ \cup {"runtime-observed"}]
Phantom(name, ver) ==
    [Component(name, ver, ver # 0, "runtime-observed", Observed, "trace")
       EXCEPT !.notes = {"drift:observed-not-declared"}]
Expected(row) == row.eco /\ row.scope \notin {"build", "dev", "test"}

MapObservations(rows, loaded) ==
    LET known    == {n \in DOMAIN loaded : Indexed(rows, n) # {}}
        phantoms == SetToSeq({Phantom(n, loaded[n]) : n \in DOMAIN loaded \ known})
        touched  == [i \in DOMAIN rows |->
                       IF \E n \in known : i \in Indexed(rows, n) THEN MarkObserved(rows[i])
                       ELSE IF loaded # <<>> /\ i \in Listed(rows) /\ Expected(rows[i])
                       THEN [rows[i] EXCEPT !.notes = @ \cup {"declared-never-observed"}]
                       ELSE rows[i]]
    IN  touched \o phantoms

\* Followed when no edit was cut short by the scan.  A program that loads nothing
\* traces no ecosystem; one that fails to start leaves no session.
Session(loaded) ==
    /\ scanned /\ Busy = {} /\ Len(sessions) < MaxSessions
    /\ sessions' = Append(sessions, loaded)
    /\ table' = MapObservations(table, loaded)
    /\ UNCHANGED <<file, editor, edits, scanned, marked, raced, obeyed>>
----------------------------------------------------------------------------

StoreInit ==
    /\ file = [whole |-> TRUE, entries |-> <<>>] /\ editor = [e \in Editors |-> Idle] /\ edits = 0
    /\ scanned = FALSE /\ table = <<>> /\ sessions = <<>> /\ marked = {} /\ raced = FALSE
    /\ obeyed = [clean |-> FALSE, marks |-> {}]

\* Of some packages the version is not observed.
Loads == UNION {[S -> Version \cup {0}] : S \in SUBSET Names}

StoreNext ==
    \/ \E e \in Editors : \/ \E op \in {"add", "remove"}, entry \in Marks : BeginEdit(e, op, entry)
                          \/ Truncate(e) \/ SaveCorrections(e) \/ Killed(e)
    \/ \E tree \in Trees : Scan(tree)
    \/ \E loaded \in Loads : Session(loaded)
StoreSpec == StoreInit /\ [][StoreNext]_storeVars
----------------------------------------------------------------------------
(* Properties *)

Means(ref, row) == row.name = ref.name /\ (ref.ver = 0 \/ row.ver = ref.ver)
\* What the scanner found of that name; a purl without a version is that of the
\* component without one, if there is such, and else of every version.
Scanned(rows, name) == {i \in DOMAIN rows : rows[i].from = "scan" /\ rows[i].name = name}
MeansScanned(rows, ref) ==
    LET exact == {i \in Scanned(rows, ref.name) : rows[i].ver = ref.ver}
    IN  IF ref.ver # 0 \/ (ref.purl /\ exact # {}) THEN exact ELSE Scanned(rows, ref.name)

\* What a mark says of the rows, and why a row is excluded or was added.
Obeyed(rows, e) ==
    IF e.kind = "missing" THEN \E i \in DOMAIN rows : Means(e.ref, rows[i])
    ELSE \A i \in MeansScanned(rows, e.ref) : rows[i].excluded
IsMarked(row, marks) ==
    /\ row.excluded => \E e \in marks : e.kind = "false-positive" /\ Means(e.ref, row)
    /\ row.from = "user" => \E e \in marks : e.kind = "missing" /\ e.ref.name = row.name /\ e.ref.ver = row.ver
IsNew(rows, row) == \A j \in Scanned(rows, row.name) : rows[j].ver # row.ver

\* A scan obeys every correction on record and no other, unless two edits were
\* at it at once: what is marked a false positive is not listed, what is asserted
\* is there, not beside what the scanner found itself, and nothing is excluded or
\* added that nobody marked.  A scoped name is obeyed as a purl only.
MarksAreObeyed ==
    obeyed.clean /\ sessions = <<>> =>
      /\ \A e \in obeyed.marks : e.ref.purl \/ e.ref.name \notin Scoped => Obeyed(table, e)
      /\ \A i \in DOMAIN table :
           /\ IsMarked(table[i], obeyed.marks)
           /\ table[i].from = "user" /\ table[i].name \notin Scoped => IsNew(table, table[i])

Rows == DOMAIN table
LoadedNames == UNION {DOMAIN sessions[k] : k \in DOMAIN sessions}

\* The sessions of one watch add up: whatever any of them loaded is listed as
\* observed, and what no manifest declares is one phantom, not one per session.
SessionsAddUp ==
    /\ \A n \in LoadedNames : \E i \in Rows : table[i].name = n /\ ~table[i].excluded /\ table[i].tier = Observed
    /\ \A i, j \in Rows : table[i].from = "trace" /\ table[j].from = "trace" /\ table[i].name = table[j].name => i = j
    /\ \A i \in Rows : table[i].tier = Observed => table[i].name \in LoadedNames
=============================================================================
