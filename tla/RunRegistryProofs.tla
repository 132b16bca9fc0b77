-------------------------- MODULE RunRegistryProofs --------------------------
(***************************************************************************)
(* Proofs about RunRegistry: what a reader can load from index.json is     *)
(* consistent in itself and with the stores, for any number of runs,       *)
(* subjects, serials and tools and any bound on overlap and crashes.       *)
(*                                                                         *)
(* The properties speak of the file, but the file is overwritten from the  *)
(* copies the scans hold in memory, so the inductive invariant states them *)
(* of every copy, and ties each listed entry to the one copy it came from: *)
(* it stays the last entry of the copy its own run holds or held.          *)
(***************************************************************************)
EXTENDS RunRegistry, FiniteSetTheorems, SequenceTheorems, TLAPS

Holding == {"loaded", "writing", "registered"}
Listed  == Holding \cup {"done", "dead"}

\* How far a scan has come and what its store shows agree.
StagesAgree ==
    \A r \in Runs :
        /\ pc[r] = "new" => store[r] = Missing
        /\ pc[r] \in Holding \cup {"reconciled"} => store[r] = Reconciled
        /\ pc[r] = "done" => store[r].stage = "final"

\* A scan that holds an index holds its own entry at the end of its lineage.
OwnEntryLast ==
    \A r \in Runs : pc[r] \in Holding =>
        LET l == loaded[r][scan[r].subject] IN
        /\ l # <<>>
        /\ LastOf(l).run = r
        /\ LastOf(l).serial = scan[r].serial

\* What an entry of subject s says of its run.
EntryOfRun(e, s) ==
    /\ pc[e.run] \in Listed
    /\ store[e.run].stage \in {"reconciled", "final"}
    /\ scan[e.run].subject = s
    /\ scan[e.run].serial = e.serial
    /\ loaded[e.run][s] # <<>> /\ e = LastOf(loaded[e.run][s])
    /\ store[e.run].stage = "final" =>
           store[e.run].version = e.version /\ store[e.run].serial = e.serial

\* A lineage whose entries are consistent, in order of creation and of
\* different runs.
GoodLineage(l) ==
    \A i \in DOMAIN l :
        /\ ConsistentEntry(l, i)
        /\ l[i].created <= clock
        /\ \A j \in DOMAIN l : i <= j => l[i].created <= l[j].created
        /\ \A j \in DOMAIN l : l[i].run = l[j].run => i = j

GoodIndex(lineages) ==
    \A s \in Subjects :
        /\ GoodLineage(lineages[s])
        /\ \A i \in DOMAIN lineages[s] : EntryOfRun(lineages[s][i], s)

IInv ==
    /\ TypeOK
    /\ StagesAgree
    /\ OwnEntryLast
    /\ GoodIndex(LoadIndex(index))
    /\ \A r \in Runs : GoodIndex(loaded[r])

-----------------------------------------------------------------------------

\* The positions of changes are a finite set of positions of the lineage.
LEMMA ChangesFinite ==
    ASSUME NEW l \in Seq(Entries)
    PROVE  /\ Changes(l) \subseteq 1 .. Len(l)
           /\ IsFiniteSet(Changes(l))
           /\ Cardinality(Changes(l)) \in Nat
<1>1. Changes(l) \subseteq 1 .. Len(l)
  BY DEF Changes
<1>2. IsFiniteSet(1 .. Len(l))
  BY FS_Interval, LenProperties
<1>3. IsFiniteSet(Changes(l))
  BY <1>1, <1>2, FS_Subset
<1> QED
  BY <1>1, <1>3, FS_CardinalityType

\* One more entry adds its position exactly if its serial is a change.
LEMMA ChangesAppend ==
    ASSUME NEW l \in Seq(Entries), NEW e \in Entries
    PROVE  Changes(Append(l, e)) =
             IF l # <<>> /\ LastOf(l).serial = e.serial
             THEN Changes(l) ELSE Changes(l) \cup {Len(l) + 1}
<1> DEFINE m == Append(l, e)
<1>1. /\ Len(m) = Len(l) + 1
      /\ DOMAIN m = 1 .. Len(l) + 1
      /\ \A i \in 1 .. Len(l) : m[i] = l[i]
      /\ m[Len(l) + 1] = e
      /\ Len(l) \in Nat
      /\ DOMAIN l = 1 .. Len(l)
  BY AppendProperties, LenProperties
<1> HIDE DEF m
<1>2. \A i \in 1 .. Len(l) : i \in Changes(m) <=> i \in Changes(l)
  BY <1>1 DEF Changes
<1>3. Len(l) + 1 \in Changes(m) <=> l = <<>> \/ LastOf(l).serial # e.serial
  <2>1. CASE l = <<>>
    BY <1>1, <2>1 DEF Changes
  <2>2. CASE l # <<>>
    <3>1. Len(l) # 0
      BY <2>2, EmptySeq
    <3>2. (Len(l) + 1) - 1 = Len(l) /\ m[Len(l)] = LastOf(l) /\ Len(l) + 1 # 1
      BY <1>1, <3>1 DEF LastOf
    <3>3. Len(l) + 1 \in DOMAIN m
      BY <1>1
    <3> QED
      BY <1>1, <2>2, <3>2, <3>3 DEF Changes
  <2> QED
    BY <2>1, <2>2
<1>4. Changes(m) \subseteq 1 .. Len(l) + 1 /\ Changes(l) \subseteq 1 .. Len(l)
  BY <1>1 DEF Changes
<1>5. CASE l # <<>> /\ LastOf(l).serial = e.serial
  <2>0. Len(l) + 1 \notin Changes(m)
    BY <1>3, <1>5
  <2>1. \A i \in 1 .. Len(l) + 1 : i \in 1 .. Len(l) \/ i = Len(l) + 1
    BY <1>1
  <2>2. Changes(m) = Changes(l)
    BY <1>2, <1>4, <2>0, <2>1
  <2> QED
    BY <1>5, <2>2 DEF m
<1>6. CASE ~(l # <<>> /\ LastOf(l).serial = e.serial)
  <2>1. Changes(m) = Changes(l) \cup {Len(l) + 1}
    BY <1>1, <1>2, <1>3, <1>4, <1>6
  <2> QED
    BY <1>6, <2>1 DEF m
<1> QED
  BY <1>5, <1>6

\* What register_run computes for a run has the type of an entry.
LEMMA EntryForType ==
    ASSUME NEW r \in Runs, NEW l \in Seq(Entries), NEW sc \in Scans, NEW now \in Nat
    PROVE  EntryFor(r, l, sc, now) \in Entries
<1>1. VersionFor(l, sc) \in Nat
  BY ChangesFinite DEF VersionFor
<1>2. ReasonFor(l, sc) \in Reasons
  BY DEF ReasonFor, Reasons
<1> QED
  BY <1>1, <1>2 DEF EntryFor, Entries, Scans

\* The entry register_run appends to a consistent lineage keeps it consistent:
\* its version counts the changes with its own, its reason is right, and the
\* entries before it mean what they meant.
LEMMA AppendConsistent ==
    ASSUME NEW r \in Runs, NEW l \in Seq(Entries), NEW sc \in Scans, NEW now \in Nat,
           \A i \in DOMAIN l : ConsistentEntry(l, i)
    PROVE  \A i \in DOMAIN Append(l, EntryFor(r, l, sc, now)) :
               ConsistentEntry(Append(l, EntryFor(r, l, sc, now)), i)
<1> DEFINE e == EntryFor(r, l, sc, now)
           m == Append(l, e)
<1>1. e \in Entries
  BY EntryForType
<1>2. /\ m \in Seq(Entries)
      /\ Len(m) = Len(l) + 1
      /\ DOMAIN m = 1 .. Len(l) + 1
      /\ \A i \in 1 .. Len(l) : m[i] = l[i]
      /\ m[Len(l) + 1] = e
      /\ Len(l) \in Nat
      /\ DOMAIN l = 1 .. Len(l)
  BY <1>1, AppendProperties, LenProperties
<1>3. /\ e.serial = sc.serial
      /\ e.tool = sc.tool
      /\ e.reason = ReasonFor(l, sc)
      /\ e.version = VersionFor(l, sc)
  BY DEF EntryFor
<1>4. Changes(m) = IF l # <<>> /\ LastOf(l).serial = e.serial
                   THEN Changes(l) ELSE Changes(l) \cup {Len(l) + 1}
  BY <1>1, ChangesAppend
<1>5. Changes(l) \subseteq 1 .. Len(l)
  BY ChangesFinite
<1> HIDE DEF e, m
<1>6. \A i \in 1 .. Len(l) : ConsistentEntry(m, i)
  <2> SUFFICES ASSUME NEW i \in 1 .. Len(l)
               PROVE  ConsistentEntry(m, i)
    OBVIOUS
  <2>1. {j \in Changes(m) : j <= i} = {j \in Changes(l) : j <= i}
    BY <1>2, <1>4, <1>5
  <2>2. ConsistentEntry(l, i)
    BY <1>2
  <2>3. i > 1 => m[i - 1] = l[i - 1]
    BY <1>2
  <2>4. i > 1 \/ i = 1
    BY <1>2
  <2>5. m[i].reason = "initial" <=> i = 1
    BY <1>2, <2>2 DEF ConsistentEntry
  <2>6. m[i].version = Cardinality({j \in Changes(m) : j <= i})
    BY <1>2, <2>1, <2>2 DEF ConsistentEntry
  <2>7. CASE i > 1
    <3>1. /\ m[i].reason = "identical" <=> m[i].serial = m[i - 1].serial
          /\ m[i].reason = "tooling-changed" => m[i].tool # m[i - 1].tool
          /\ m[i].reason = "subject-changed" => m[i].tool = m[i - 1].tool
      BY <1>2, <2>2, <2>3, <2>7 DEF ConsistentEntry
    <3> QED
      BY <2>5, <2>6, <3>1 DEF ConsistentEntry
  <2>8. CASE i = 1
    BY <2>5, <2>6, <2>8 DEF ConsistentEntry
  <2> QED
    BY <2>4, <2>7, <2>8
<1>7. ConsistentEntry(m, Len(l) + 1)
  <2>1. {j \in Changes(m) : j <= Len(l) + 1} = Changes(m)
    BY <1>2, <1>4, <1>5
  <2>2. e.version = Cardinality(Changes(m))
    <3>1. /\ IsFiniteSet(Changes(l))
          /\ Cardinality(Changes(l)) \in Nat
      BY ChangesFinite
    <3>2. Len(l) + 1 \notin Changes(l)
      BY <1>2, <1>5
    <3>3. Cardinality(Changes(l) \cup {Len(l) + 1}) = Cardinality(Changes(l)) + 1
      BY <3>1, <3>2, FS_AddElement
    <3> QED
      BY <1>3, <1>4, <3>1, <3>3 DEF VersionFor
  <2>3. m[Len(l) + 1].version = Cardinality({j \in Changes(m) : j <= Len(l) + 1})
    BY <1>2, <2>1, <2>2
  <2>4. CASE l = <<>>
    <3>1. Len(l) = 0
      BY <2>4
    <3>2. e.reason = "initial"
      BY <1>3, <2>4 DEF ReasonFor
    <3> QED
      BY <1>2, <2>3, <3>1, <3>2 DEF ConsistentEntry
  <2>5. CASE l # <<>>
    <3>1. Len(l) \in Nat \ {0}
      BY <1>2, <2>5, EmptySeq
    <3>2. (Len(l) + 1) - 1 = Len(l) /\ m[Len(l)] = LastOf(l)
      BY <1>2, <3>1 DEF LastOf
    <3>3. /\ e.reason # "initial"
          /\ e.reason = "identical" <=> e.serial = LastOf(l).serial
          /\ e.reason = "tooling-changed" => e.tool # LastOf(l).tool
          /\ e.reason = "subject-changed" => e.tool = LastOf(l).tool
      BY <1>3, <2>5 DEF ReasonFor
    <3> QED
      BY <1>2, <2>3, <3>1, <3>2, <3>3 DEF ConsistentEntry
  <2> QED
    BY <2>4, <2>5
<1>8. \A i \in DOMAIN m : ConsistentEntry(m, i)
  BY <1>2, <1>6, <1>7
<1> QED
  BY <1>8 DEF e, m

-----------------------------------------------------------------------------

\* Any content of index.json is read as an index.
LEMMA LoadIndexType ==
    ASSUME NEW file \in Files
    PROVE  LoadIndex(file) \in Indexes
<1>1. NoIndex \in Indexes
  BY EmptySeq DEF NoIndex, Indexes
<1> QED
  BY <1>1 DEF Files, EmptyFile, TornFile, LoadIndex

\* What WriteIndex writes is read back as the copy it was written from.
LEMMA FileOfType ==
    ASSUME NEW i \in Indexes
    PROVE  FileOf(i) \in Files /\ LoadIndex(FileOf(i)) = i
BY DEF FileOf, Files, LoadIndex

\* An empty results directory is well typed.
LEMMA InitType == Init => TypeOK
<1> SUFFICES ASSUME Init PROVE TypeOK
  OBVIOUS
<1>1. NoIndex \in Indexes
  BY EmptySeq DEF NoIndex, Indexes
<1> QED
  BY <1>1 DEF Init, TypeOK, Files, Stores

\* The lineage of its own subject that a scan loads, and what it appends.
LEMMA LoadAndAppendType ==
    ASSUME TypeOK, NEW r \in Runs, LoadAndAppend(r)
    PROVE  /\ LoadIndex(index) \in Indexes
           /\ scan[r] \in Scans
           /\ scan[r].subject \in Subjects
           /\ LoadIndex(index)[scan[r].subject] \in Seq(Entries)
           /\ EntryFor(r, LoadIndex(index)[scan[r].subject], scan[r], clock) \in Entries
           /\ loaded' \in [Runs -> Indexes]
<1> DEFINE s == scan[r].subject
           l == LoadIndex(index)[s]
           e == EntryFor(r, l, scan[r], clock)
<1>1. scan[r] \in Scans /\ s \in Subjects
  BY DEF TypeOK, LoadAndAppend, Scans
<1>2. LoadIndex(index) \in Indexes /\ l \in Seq(Entries)
  BY <1>1, LoadIndexType DEF TypeOK, Indexes
<1>3. e \in Entries
  BY <1>1, <1>2, EntryForType DEF TypeOK
<1>4. Append(l, e) \in Seq(Entries)
  BY <1>2, <1>3, AppendProperties
<1> HIDE DEF e, l
<1>5. [LoadIndex(index) EXCEPT ![s] = Append(l, e)] \in Indexes
  BY <1>1, <1>2, <1>4 DEF Indexes
<1>6. loaded' = [loaded EXCEPT ![r] = [LoadIndex(index) EXCEPT ![s] = Append(l, e)]]
  BY DEF LoadAndAppend, e, l
<1>7. loaded' \in [Runs -> Indexes]
  BY <1>5, <1>6 DEF TypeOK
<1> QED
  BY <1>1, <1>2, <1>3, <1>7 DEF e, l

\* The metadata a finalized store gets are of their types.
LEMMA FinalizeType ==
    ASSUME TypeOK, OwnEntryLast, NEW r \in Runs, FinalizeStore(r)
    PROVE  store' \in [Runs -> Stores]
<1> DEFINE l == loaded[r][scan[r].subject]
           before == SubSeq(l, 1, Len(l) - 1)
           reason == IF LastOf(l).reason = "identical" THEN "initial" ELSE LastOf(l).reason
<1>1. scan[r] \in Scans /\ scan[r].subject \in Subjects
  BY DEF TypeOK, FinalizeStore, Scans
<1>2. l \in Seq(Entries) /\ l # <<>>
  BY <1>1 DEF TypeOK, Indexes, OwnEntryLast, FinalizeStore, Holding
<1>3. Len(l) \in Nat \ {0} /\ \A i \in 1 .. Len(l) : l[i] \in Entries
  BY <1>2, EmptySeq, LenProperties, ElementOfSeq
<1>4. LastOf(l) \in Entries
  BY <1>3 DEF LastOf
<1>5. before \in Seq(Entries)
  BY <1>3, SubSeqProperties
<1> HIDE DEF before
<1>6. SupersededBy(before, scan[r]) \in Serials \cup {NoSerial}
  <2>1. CASE before = <<>>
    BY <2>1 DEF SupersededBy
  <2>2. CASE before # <<>>
    <3>1. LastOf(before) \in Entries
      BY <1>5, <2>2, EmptySeq, LenProperties, ElementOfSeq DEF LastOf
    <3> QED
      BY <3>1 DEF SupersededBy, Entries
  <2> QED
    BY <2>1, <2>2
<1>7. LastOf(l).serial \in Serials /\ LastOf(l).version \in Nat /\ reason \in Reasons
  BY <1>4 DEF Entries, Reasons
<1> HIDE DEF reason
<1>8. Finalized(LastOf(l).serial, reason, LastOf(l).version, SupersededBy(before, scan[r]))
        \in Stores
  BY <1>6, <1>7 DEF Finalized, Stores
<1>9. store' = [store EXCEPT ![r] =
          Finalized(LastOf(l).serial, reason, LastOf(l).version,
                    SupersededBy(before, scan[r]))]
  BY DEF FinalizeStore, before, reason
<1> QED
  BY <1>8, <1>9 DEF TypeOK

\* Every step keeps the types; finalize_store needs the own entry of its run.
LEMMA TypeStep == TypeOK /\ OwnEntryLast /\ [Next]_vars => TypeOK'
<1> SUFFICES ASSUME TypeOK, OwnEntryLast, [Next]_vars
             PROVE  TypeOK'
  OBVIOUS
<1>1. ASSUME NEW r \in Runs, NEW sc \in Scans, StartScan(r, sc)
      PROVE  TypeOK'
  BY <1>1 DEF StartScan, TypeOK, Stores
<1>2. ASSUME NEW r \in Runs, Reconcile(r)
      PROVE  TypeOK'
  BY <1>2 DEF Reconcile, TypeOK, Stores
<1>3. ASSUME NEW r \in Runs, LoadAndAppend(r)
      PROVE  TypeOK'
  <2>1. loaded' \in [Runs -> Indexes]
    BY <1>3, LoadAndAppendType
  <2>2. /\ pc' = [pc EXCEPT ![r] = "loaded"]
        /\ pc[r] = "reconciled"
        /\ UNCHANGED <<scan, started, store, index, clock>>
    BY <1>3 DEF LoadAndAppend
  <2> QED
    BY <2>1, <2>2 DEF TypeOK
<1>4. ASSUME NEW r \in Runs, TruncateIndex(r)
      PROVE  TypeOK'
  BY <1>4 DEF TruncateIndex, TypeOK, Files
<1>5. ASSUME NEW r \in Runs, WriteIndex(r)
      PROVE  TypeOK'
  <2>1. index' \in Files
    BY <1>5, FileOfType DEF WriteIndex, TypeOK, Files
  <2> QED
    BY <1>5, <2>1 DEF WriteIndex, TypeOK
<1>6. ASSUME NEW r \in Runs, FinalizeStore(r)
      PROVE  TypeOK'
  <2>1. store' \in [Runs -> Stores]
    BY <1>6, FinalizeType
  <2>2. /\ pc' = [pc EXCEPT ![r] = "done"]
        /\ pc[r] = "registered"
        /\ UNCHANGED <<scan, started, index, loaded, clock>>
    BY <1>6 DEF FinalizeStore
  <2> QED
    BY <2>1, <2>2 DEF TypeOK
<1>7. ASSUME NEW r \in Runs, Crash(r)
      PROVE  TypeOK'
  BY <1>7 DEF Crash, Active, TypeOK
<1>8. ASSUME Tick
      PROVE  TypeOK'
  BY <1>8, BoundsAssumption DEF Tick, TypeOK
<1>9. ASSUME UNCHANGED vars
      PROVE  TypeOK'
  BY <1>9 DEF vars, TypeOK
<1> QED
  BY <1>1, <1>2, <1>3, <1>4, <1>5, <1>6, <1>7, <1>8, <1>9 DEF Next

-----------------------------------------------------------------------------

\* No step takes back what an entry says of its run.  The one step that makes
\* it say more is the entry's own finalize_store, and it writes the metadata
\* of the entry its run holds, which is this entry.
LEMMA EntryOfRunStable ==
    ASSUME TypeOK, StagesAgree, OwnEntryLast, [Next]_vars,
           NEW e \in Entries, NEW s \in Subjects, EntryOfRun(e, s)
    PROVE  EntryOfRun(e, s)'
<1> USE DEF EntryOfRun, Holding, Listed
<1>0. e.run \in Runs
  BY DEF Entries
<1>1. ASSUME NEW r \in Runs, NEW sc \in Scans, StartScan(r, sc)
      PROVE  EntryOfRun(e, s)'
  BY <1>0, <1>1 DEF StartScan, TypeOK
<1>2. ASSUME NEW r \in Runs, Reconcile(r)
      PROVE  EntryOfRun(e, s)'
  BY <1>0, <1>2 DEF Reconcile, TypeOK
<1>3. ASSUME NEW r \in Runs, LoadAndAppend(r)
      PROVE  EntryOfRun(e, s)'
  <2>1. r # e.run
    BY <1>3 DEF LoadAndAppend
  <2>2. pc'[e.run] = pc[e.run] /\ loaded'[e.run] = loaded[e.run]
    BY <1>0, <1>3, <2>1 DEF LoadAndAppend, TypeOK
  <2>3. UNCHANGED <<scan, store>>
    BY <1>3 DEF LoadAndAppend
  <2> QED
    BY <2>2, <2>3
<1>4. ASSUME NEW r \in Runs, TruncateIndex(r)
      PROVE  EntryOfRun(e, s)'
  BY <1>0, <1>4 DEF TruncateIndex, TypeOK
<1>5. ASSUME NEW r \in Runs, WriteIndex(r)
      PROVE  EntryOfRun(e, s)'
  BY <1>0, <1>5 DEF WriteIndex, TypeOK
<1>6. ASSUME NEW r \in Runs, FinalizeStore(r)
      PROVE  EntryOfRun(e, s)'
  <2>1. CASE r # e.run
    BY <1>0, <1>6, <2>1 DEF FinalizeStore, TypeOK
  <2>2. CASE r = e.run
    <3>1. e = LastOf(loaded[r][scan[r].subject])
      BY <1>6, <2>2 DEF FinalizeStore
    <3>2. /\ store'[r].stage = "final"
          /\ store'[r].serial = e.serial
          /\ store'[r].version = e.version
      BY <1>6, <3>1 DEF FinalizeStore, Finalized, TypeOK
    <3>3. pc'[r] = "done" /\ scan' = scan /\ loaded' = loaded
      BY <1>6 DEF FinalizeStore, TypeOK
    <3> QED
      BY <2>2, <3>2, <3>3
  <2> QED
    BY <2>1, <2>2
<1>7. ASSUME NEW r \in Runs, Crash(r)
      PROVE  EntryOfRun(e, s)'
  BY <1>0, <1>7 DEF Crash, TypeOK
<1>8. ASSUME Tick
      PROVE  EntryOfRun(e, s)'
  BY <1>8 DEF Tick
<1>9. ASSUME UNCHANGED vars
      PROVE  EntryOfRun(e, s)'
  BY <1>9 DEF vars
<1> QED
  BY <1>1, <1>2, <1>3, <1>4, <1>5, <1>6, <1>7, <1>8, <1>9 DEF Next

\* Time never runs back.
LEMMA ClockMonotone == TypeOK /\ [Next]_vars => clock <= clock' /\ clock' \in Nat
<1> SUFFICES ASSUME TypeOK, [Next]_vars PROVE clock <= clock' /\ clock' \in Nat
  OBVIOUS
<1>1. CASE Tick
  BY <1>1 DEF Tick, TypeOK
<1>2. CASE clock' = clock
  BY <1>2 DEF TypeOK
<1> QED
  BY <1>1, <1>2 DEF Next, vars, StartScan, Reconcile, LoadAndAppend, TruncateIndex,
     WriteIndex, FinalizeStore, Crash

\* A copy of the index that was good stays good, whatever step is taken.
LEMMA GoodIndexStable ==
    ASSUME TypeOK, StagesAgree, OwnEntryLast, [Next]_vars,
           NEW I \in Indexes, GoodIndex(I)
    PROVE  GoodIndex(I)'
<1> SUFFICES ASSUME NEW s \in Subjects
             PROVE  /\ GoodLineage(I[s])'
                    /\ \A i \in DOMAIN I[s] : EntryOfRun(I[s][i], s)'
  BY DEF GoodIndex
<1>1. /\ GoodLineage(I[s])
      /\ \A i \in DOMAIN I[s] : EntryOfRun(I[s][i], s)
  BY DEF GoodIndex
<1>2. I[s] \in Seq(Entries) /\ \A i \in DOMAIN I[s] : I[s][i] \in Entries
  BY ElementOfSeq, LenProperties DEF Indexes
<1>3. \A i \in DOMAIN I[s] : EntryOfRun(I[s][i], s)'
  <2> SUFFICES ASSUME NEW i \in DOMAIN I[s] PROVE EntryOfRun(I[s][i], s)'
    OBVIOUS
  <2> DEFINE e == I[s][i]
  <2>1. e \in Entries /\ EntryOfRun(e, s)
    BY <1>1, <1>2
  <2> HIDE DEF e
  <2>2. EntryOfRun(e, s)'
    BY <2>1, EntryOfRunStable
  <2> QED
    BY <2>2 DEF e
<1>4. GoodLineage(I[s])'
  <2>1. clock <= clock' /\ clock \in Nat /\ clock' \in Nat
    BY ClockMonotone DEF TypeOK
  <2>2. \A i \in DOMAIN I[s] : I[s][i].created \in Nat
    BY <1>2 DEF Entries
  <2>3. \A i \in DOMAIN I[s] : I[s][i].created <= clock'
    BY <1>1, <2>1, <2>2 DEF GoodLineage
  <2> QED
    BY <1>1, <2>3 DEF GoodLineage
<1> QED
  BY <1>3, <1>4

\* The index a scan has just extended with its own entry is good: the entry is
\* consistent with those before it, is the newest, and its run was in the
\* lineage before under no other entry.
LEMMA AppendedIndexGood ==
    ASSUME TypeOK, StagesAgree, OwnEntryLast, GoodIndex(LoadIndex(index)),
           NEW r \in Runs, LoadAndAppend(r)
    PROVE  /\ GoodIndex(loaded[r])'
           /\ (LET l == loaded[r][scan[r].subject]
               IN l # <<>> /\ LastOf(l).run = r /\ LastOf(l).serial = scan[r].serial)'
<1>1. PICK I \in Indexes : I = LoadIndex(index)
  BY LoadIndexType DEF TypeOK
<1>2. PICK sc \in Scans : sc = scan[r]
  BY LoadAndAppendType
<1>3. PICK s \in Subjects : s = sc.subject
  BY <1>2 DEF Scans
<1>4. PICK l \in Seq(Entries) : l = I[s]
  BY <1>1, <1>3 DEF Indexes
<1>5. PICK e \in Entries : e = EntryFor(r, l, sc, clock)
  BY EntryForType DEF TypeOK
<1>6. PICK m \in Seq(Entries) : m = Append(l, e)
  BY AppendProperties
<1>7. /\ Len(m) = Len(l) + 1 /\ Len(l) \in Nat
      /\ DOMAIN m = 1 .. Len(l) + 1 /\ DOMAIN l = 1 .. Len(l)
      /\ \A i \in 1 .. Len(l) : m[i] = l[i]
      /\ m[Len(l) + 1] = e
      /\ m # <<>> /\ LastOf(m) = e
  BY <1>6, AppendProperties, LenProperties DEF LastOf
<1>8. e.run = r /\ e.serial = sc.serial /\ e.created = clock
  BY <1>5 DEF EntryFor
<1>9. /\ loaded'[r] = [I EXCEPT ![s] = m]
      /\ pc[r] = "reconciled" /\ pc'[r] = "loaded"
      /\ scan' = scan /\ store' = store /\ clock' = clock
  BY <1>1, <1>2, <1>3, <1>4, <1>5, <1>6 DEF LoadAndAppend, TypeOK
<1>10. /\ loaded'[r][s] = m
       /\ \A t \in Subjects : t # s => loaded'[r][t] = I[t]
  BY <1>1, <1>9 DEF Indexes
<1>11. GoodIndex(I) /\ GoodIndex(I)'
  <2>1. GoodIndex(I)
    BY <1>1
  <2>2. Next
    BY DEF Next
  <2> QED
    BY <2>1, <2>2, GoodIndexStable
<1>12. \A i \in 1 .. Len(l) :
          /\ ConsistentEntry(l, i)
          /\ l[i].created <= clock /\ l[i].created \in Nat
          /\ l[i].run # r
          /\ EntryOfRun(l[i], s)'
  <2> SUFFICES ASSUME NEW i \in 1 .. Len(l)
               PROVE  /\ ConsistentEntry(l, i)
                      /\ l[i].created <= clock /\ l[i].created \in Nat
                      /\ l[i].run # r
                      /\ EntryOfRun(l[i], s)'
    OBVIOUS
  <2>1. ConsistentEntry(l, i) /\ l[i].created <= clock /\ EntryOfRun(l[i], s)
    BY <1>4, <1>7, <1>11 DEF GoodIndex, GoodLineage
  <2>2. l[i] \in Entries
    BY ElementOfSeq
  <2>3. l[i].run # r
    BY <1>9, <2>1 DEF EntryOfRun, Listed, Holding
  <2>4. EntryOfRun(l[i], s)'
    BY <1>4, <1>7, <1>11 DEF GoodIndex
  <2> QED
    BY <2>1, <2>2, <2>3, <2>4 DEF Entries
<1>13. GoodLineage(m)'
  <2>1. \A i \in DOMAIN m : ConsistentEntry(m, i)
    BY <1>5, <1>6, <1>7, <1>12, AppendConsistent DEF TypeOK
  <2>2. \A i \in DOMAIN m : i \in 1 .. Len(l) \/ i = Len(l) + 1
    BY <1>7
  <2>3. \A i \in DOMAIN m : m[i].created <= clock'
    BY <1>7, <1>8, <1>9, <1>12, <2>2 DEF TypeOK
  <2>4. \A i, j \in DOMAIN m : i <= j => m[i].created <= m[j].created
    <3>1. \A i, j \in 1 .. Len(l) : i <= j => m[i].created <= m[j].created
      BY <1>4, <1>7, <1>11 DEF GoodIndex, GoodLineage
    <3>2. \A i \in DOMAIN m : m[i].created <= m[Len(l) + 1].created
      BY <1>7, <1>8, <1>9, <2>3
    <3>3. \A i \in 1 .. Len(l) : ~(Len(l) + 1 <= i)
      BY <1>7
    <3> QED
      BY <2>2, <3>1, <3>2, <3>3
  <2>5. \A i, j \in DOMAIN m : m[i].run = m[j].run => i = j
    <3>1. \A i, j \in 1 .. Len(l) : m[i].run = m[j].run => i = j
      BY <1>4, <1>7, <1>11 DEF GoodIndex, GoodLineage
    <3>2. \A i \in 1 .. Len(l) : m[i].run # m[Len(l) + 1].run
      BY <1>7, <1>8, <1>12
    <3> QED
      BY <2>2, <3>1, <3>2
  <2> QED
    BY <2>1, <2>3, <2>4, <2>5 DEF GoodLineage
<1>14. EntryOfRun(e, s)'
  BY <1>2, <1>3, <1>7, <1>8, <1>9, <1>10 DEF EntryOfRun, Listed, Holding, StagesAgree, Reconciled
<1>15. \A i \in DOMAIN m : EntryOfRun(m[i], s)'
  BY <1>7, <1>12, <1>14
<1>16. GoodIndex(loaded[r])'
  BY <1>10, <1>11, <1>13, <1>15 DEF GoodIndex
<1> QED
  BY <1>2, <1>3, <1>7, <1>8, <1>9, <1>10, <1>16

\* A step other than LoadAndAppend of run r keeps the copy r holds.
LEMMA OtherCopiesKept ==
    ASSUME TypeOK, [Next]_vars, NEW r \in Runs, ~LoadAndAppend(r)
    PROVE  loaded'[r] = loaded[r]
<1>1. CASE loaded' = loaded
  BY <1>1
<1>2. CASE \E q \in Runs : LoadAndAppend(q)
  <2>1. PICK q \in Runs : LoadAndAppend(q)
    BY <1>2
  <2> QED
    BY <2>1 DEF LoadAndAppend, TypeOK
<1> QED
  BY <1>1, <1>2 DEF Next, vars, StartScan, Reconcile, TruncateIndex, WriteIndex,
     FinalizeStore, Crash, Tick

\* A store changes stage only with its own scan.
LEMMA StagesAgreeStep == TypeOK /\ StagesAgree /\ [Next]_vars => StagesAgree'
BY DEF StagesAgree, Holding, TypeOK, Next, vars, StartScan, Reconcile, LoadAndAppend,
   TruncateIndex, WriteIndex, FinalizeStore, Finalized, Crash, Tick

\* No other scan touches the copy a scan holds: its own entry stays last.
LEMMA OwnEntryLastStep ==
    TypeOK /\ StagesAgree /\ OwnEntryLast /\ GoodIndex(LoadIndex(index)) /\ [Next]_vars
        => OwnEntryLast'
<1> SUFFICES ASSUME TypeOK, StagesAgree, OwnEntryLast, GoodIndex(LoadIndex(index)),
                    [Next]_vars, NEW r \in Runs, (pc[r] \in Holding)'
             PROVE  (LET l == loaded[r][scan[r].subject]
                     IN l # <<>> /\ LastOf(l).run = r /\ LastOf(l).serial = scan[r].serial)'
  BY DEF OwnEntryLast
<1>1. CASE LoadAndAppend(r)
  BY <1>1, AppendedIndexGood
<1>2. CASE ~LoadAndAppend(r)
  <2>1. pc[r] \in Holding /\ scan'[r] = scan[r]
    BY <1>2 DEF Holding, TypeOK, Next, vars, StartScan, Reconcile, LoadAndAppend,
       TruncateIndex, WriteIndex, FinalizeStore, Crash, Tick
  <2>2. loaded'[r] = loaded[r]
    BY <1>2, OtherCopiesKept
  <2> QED
    BY <2>1, <2>2 DEF OwnEntryLast
<1> QED
  BY <1>1, <1>2

\* index.json after a step is the file as it was, a file without entries, or
\* the copy some scan holds.
LEMMA FileAfterStep ==
    ASSUME TypeOK, [Next]_vars
    PROVE  \/ LoadIndex(index)' = LoadIndex(index)
           \/ LoadIndex(index)' = NoIndex
           \/ \E r \in Runs : LoadIndex(index)' = loaded[r]
<1>1. CASE index' = index
  BY <1>1
<1>2. CASE index' \in {EmptyFile, TornFile}
  BY <1>2 DEF LoadIndex, EmptyFile, TornFile
<1>3. CASE \E r \in Runs : index' = FileOf(loaded[r])
  BY <1>3 DEF LoadIndex, FileOf
<1> QED
  BY <1>1, <1>2, <1>3 DEF Next, vars, StartScan, Reconcile, LoadAndAppend, TruncateIndex,
     WriteIndex, FinalizeStore, Crash, Tick

\* An index without subjects is good: a truncated or torn file is harmless.
LEMMA NoIndexGood == GoodIndex(NoIndex)
BY DEF GoodIndex, GoodLineage, NoIndex

\* The inductive invariant holds of an empty results directory ...
LEMMA IInvInit == Init => IInv
<1> SUFFICES ASSUME Init PROVE IInv
  OBVIOUS
<1>1. TypeOK
  BY InitType
<1>2. StagesAgree /\ OwnEntryLast
  BY DEF Init, StagesAgree, OwnEntryLast, Holding
<1>3. LoadIndex(index) = NoIndex /\ \A r \in Runs : loaded[r] = NoIndex
  BY DEF Init, LoadIndex, EmptyFile
<1> QED
  BY <1>1, <1>2, <1>3, NoIndexGood DEF IInv

\* ... every step keeps it: the file only ever takes the content of a good copy ...
LEMMA IInvStep == IInv /\ [Next]_vars => IInv'
<1> SUFFICES ASSUME IInv, [Next]_vars PROVE IInv'
  OBVIOUS
<1>1. TypeOK /\ StagesAgree /\ OwnEntryLast /\ GoodIndex(LoadIndex(index))
  BY DEF IInv
<1>2. TypeOK' /\ StagesAgree' /\ OwnEntryLast'
  BY <1>1, TypeStep, StagesAgreeStep, OwnEntryLastStep
<1>3. \A r \in Runs : GoodIndex(loaded[r])'
  <2> SUFFICES ASSUME NEW r \in Runs PROVE GoodIndex(loaded[r])'
    OBVIOUS
  <2>1. CASE LoadAndAppend(r)
    BY <1>1, <2>1, AppendedIndexGood
  <2>2. CASE ~LoadAndAppend(r)
    <3>1. PICK I \in Indexes : I = loaded[r]
      BY <1>1 DEF TypeOK
    <3>2. GoodIndex(I)'
      BY <1>1, <3>1, GoodIndexStable DEF IInv
    <3>3. loaded'[r] = I
      BY <1>1, <2>2, <3>1, OtherCopiesKept
    <3> QED
      BY <3>2, <3>3
  <2> QED
    BY <2>1, <2>2
<1>4. GoodIndex(LoadIndex(index))'
  <2>1. PICK I \in Indexes : I = LoadIndex(index)'
    BY <1>2, LoadIndexType DEF TypeOK
  <2>2. I = LoadIndex(index) \/ I = NoIndex \/ \E r \in Runs : I = loaded[r]
    BY <1>1, <2>1, FileAfterStep
  <2>3. GoodIndex(I)
    BY <1>1, <2>2, NoIndexGood DEF IInv
  <2>4. GoodIndex(I)'
    BY <1>1, <2>3, GoodIndexStable
  <2> QED
    BY <2>1, <2>4
<1> QED
  BY <1>2, <1>3, <1>4 DEF IInv

\* ... and so it always holds.
LEMMA IInvAlways == Spec => []IInv
BY IInvInit, IInvStep, PTL DEF Spec

-----------------------------------------------------------------------------

\* Every action keeps the state well typed: what register_run and
\* finalize_store write is an index and store metadata, whatever was in the
\* file they read.
THEOREM TypeCorrect == Spec => []TypeOK
<1>1. IInv => TypeOK
  BY DEF IInv
<1> QED
  BY <1>1, IInvAlways, PTL

\* Whatever scans overlap and wherever they are killed, the lineages of
\* index.json are consistent: register_run's versions and reasons.
THEOREM LineagesAlwaysConsistent == Spec => []LineagesConsistent
<1>1. IInv => LineagesConsistent
  BY DEF IInv, GoodIndex, GoodLineage, LineagesConsistent
<1> QED
  BY <1>1, IInvAlways, PTL

\* A run listed in index.json has its graph committed: every flow registers
\* after reconcile's commit.
THEOREM RegisteredRunsAlwaysReconciled == Spec => []RegisteredRunsReconciled
<1>1. IInv => RegisteredRunsReconciled
  BY DEF IInv, GoodIndex, EntryOfRun, RegisteredRunsReconciled
<1> QED
  BY <1>1, IInvAlways, PTL

\* The serial and the document version finalize_store commits are those the
\* registry lists for the run.
THEOREM StoreAlwaysAgreesWithRegistry == Spec => []StoreAgreesWithRegistry
<1>1. IInv => StoreAgreesWithRegistry
  BY DEF IInv, GoodIndex, EntryOfRun, StoreAgreesWithRegistry
<1> QED
  BY <1>1, IInvAlways, PTL

\* A run is listed at most once, in the lineage of its own subject.
LEMMA ListedOnce == IInv => RunsListedOnce
<1> SUFFICES ASSUME IInv, NEW s \in Subjects, NEW t \in Subjects,
                    NEW i \in DOMAIN LoadIndex(index)[s],
                    NEW j \in DOMAIN LoadIndex(index)[t],
                    LoadIndex(index)[s][i].run = LoadIndex(index)[t][j].run
             PROVE  s = t /\ i = j
  BY DEF RunsListedOnce
<1>1. s = t
  BY DEF IInv, GoodIndex, EntryOfRun
<1> QED
  BY <1>1 DEF IInv, GoodIndex, GoodLineage

\* No interleaving of scans lists a run twice.
THEOREM RunsAlwaysListedOnce == Spec => []RunsListedOnce
BY ListedOnce, IInvAlways, PTL

\* The run latest_run_db returns was created in no earlier second than any
\* listed run, although it compares only the last entry of each lineage.
THEOREM LatestRunAlwaysNewest == Spec => []LatestRunIsNewest
<1>1. IInv => LatestRunIsNewest
  <2> SUFFICES ASSUME IInv, NEW s \in Subjects, NEW t \in Subjects,
                      NEW i \in DOMAIN LoadIndex(index)[s],
                      NEW j \in DOMAIN LoadIndex(index)[t],
                      LoadIndex(index)[s][i].run \in LatestRunDb
               PROVE  LoadIndex(index)[t][j].created <= LoadIndex(index)[s][i].created
    BY DEF LatestRunIsNewest
  <2>1. PICK I \in Indexes : I = LoadIndex(index)
    BY LoadIndexType DEF IInv, TypeOK
  <2>2. GoodIndex(I) /\ RunsListedOnce
    BY <2>1, ListedOnce DEF IInv
  <2>3. \A u \in Subjects :
           /\ I[u] \in Seq(Entries)
           /\ DOMAIN I[u] = 1 .. Len(I[u]) /\ Len(I[u]) \in Nat
           /\ \A k \in DOMAIN I[u] : I[u][k] \in Entries
    BY LenProperties, ElementOfSeq DEF Indexes
  <2>4. \A u \in Subjects : \A k \in DOMAIN I[u] :
           I[u] # <<>> /\ Len(I[u]) \in DOMAIN I[u]
             /\ I[u][k].created <= LastOf(I[u]).created
    <3> SUFFICES ASSUME NEW u \in Subjects, NEW k \in DOMAIN I[u]
                 PROVE  I[u] # <<>> /\ Len(I[u]) \in DOMAIN I[u]
                          /\ I[u][k].created <= LastOf(I[u]).created
      OBVIOUS
    <3>1. I[u] # <<>> /\ Len(I[u]) \in DOMAIN I[u] /\ k <= Len(I[u])
      BY <2>3
    <3> QED
      BY <2>2, <3>1 DEF GoodIndex, GoodLineage, LastOf
  <2>5. LastOf(I[t]) \in LatestCandidates(I)
    BY <2>1, <2>4 DEF LatestCandidates
  <2>6. PICK c \in LatestCandidates(I) :
           /\ c.run = I[s][i].run
           /\ \A d \in LatestCandidates(I) : After(c.created, c.run, d.created, d.run)
    BY <2>1, <2>5 DEF LatestRunDb
  <2>7. PICK u \in Subjects : I[u] # <<>> /\ c = LastOf(I[u])
    BY <2>6 DEF LatestCandidates
  <2>8. u = s /\ Len(I[u]) = i
    <3>1. Len(I[u]) \in DOMAIN I[u]
      BY <2>3, <2>7, EmptySeq
    <3>2. I[u][Len(I[u])].run = I[s][i].run
      BY <2>6, <2>7 DEF LastOf
    <3> QED
      BY <2>1, <2>2, <3>1, <3>2 DEF RunsListedOnce
  <2>9. c = I[s][i]
    BY <2>7, <2>8 DEF LastOf
  <2>10. c.created >= LastOf(I[t]).created
    <3>1. /\ c.created \in Nat /\ LastOf(I[t]).created \in Nat
      BY <2>1, <2>3, <2>4, <2>9 DEF LastOf, Entries
    <3> QED
      BY <2>5, <2>6, <3>1 DEF After
  <2>11. I[t][j].created <= LastOf(I[t]).created
    BY <2>1, <2>4
  <2>12. I[t][j].created \in Nat /\ LastOf(I[t]).created \in Nat /\ c.created \in Nat
    BY <2>1, <2>3, <2>4, <2>9 DEF LastOf, Entries
  <2> QED
    BY <2>1, <2>9, <2>10, <2>11, <2>12
<1> QED
  BY <1>1, IInvAlways, PTL
\* Two entries in a row with different serials have versions in a row.
LEMMA NextVersion ==
    ASSUME NEW l \in Seq(Entries), NEW n \in Nat \ {0}, n + 1 \in DOMAIN l,
           ConsistentEntry(l, n), ConsistentEntry(l, n + 1),
           l[n].serial # l[n + 1].serial
    PROVE  l[n].version + 1 = l[n + 1].version
<1> DEFINE upto(i) == {j \in Changes(l) : j <= i}
<1>1. /\ Changes(l) \subseteq 1 .. Len(l)
      /\ IsFiniteSet(Changes(l))
  BY ChangesFinite
<1>2. n + 1 \in Changes(l)
  BY DEF Changes
<1>3. upto(n + 1) = upto(n) \cup {n + 1}
  BY <1>1, <1>2
<1>4. n + 1 \notin upto(n)
  OBVIOUS
<1>5. IsFiniteSet(upto(n))
  BY <1>1, FS_Subset
<1>6. Cardinality(upto(n + 1)) = Cardinality(upto(n)) + 1
  BY <1>3, <1>4, <1>5, FS_AddElement
<1> QED
  BY <1>6 DEF ConsistentEntry

\* What finalize_store says its document supersedes is what the entry before its
\* own says, and that entry is the last one of the copy of its own run.
LEMMA FinalizeSupersedes ==
    ASSUME IInv, NEW r \in Runs, FinalizeStore(r), store'[r].supersedes # NoSerial
    PROVE  \E q \in Runs \ {r} :
             /\ scan[q].subject = scan[r].subject
             /\ loaded[q][scan[q].subject] # <<>>
             /\ LET entry == LastOf(loaded[q][scan[q].subject])
                IN  /\ entry.run = q
                    /\ entry.serial = store'[r].supersedes
                    /\ entry.version + 1 = store'[r].version
<1>1. PICK s \in Subjects : s = scan[r].subject
  BY DEF IInv, TypeOK, FinalizeStore, Scans
<1>2. PICK l \in Seq(Entries) : l = loaded[r][s]
  BY DEF IInv, TypeOK, Indexes
<1>3. l # <<>> /\ LastOf(l).run = r /\ LastOf(l).serial = scan[r].serial
  BY <1>1, <1>2 DEF IInv, OwnEntryLast, FinalizeStore, Holding
<1>4. /\ GoodLineage(l)
      /\ \A i \in DOMAIN l : EntryOfRun(l[i], s)
  BY <1>2 DEF IInv, GoodIndex
<1>5. Len(l) \in Nat \ {0} /\ DOMAIN l = 1 .. Len(l) /\ \A i \in 1 .. Len(l) : l[i] \in Entries
  BY <1>3, EmptySeq, LenProperties, ElementOfSeq
<1> DEFINE n == Len(l) - 1
           before == SubSeq(l, 1, n)
<1>6. n \in Nat /\ n + 1 = Len(l)
  BY <1>5
<1>7. /\ store'[r].version = LastOf(l).version
      /\ store'[r].supersedes = SupersededBy(before, scan[r])
  BY <1>1, <1>2 DEF FinalizeStore, Finalized, IInv, TypeOK
<1>8. before \in Seq(Entries) /\ Len(before) = n /\ \A i \in 1 .. n : before[i] = l[i]
  BY <1>5, <1>6, SubSeqProperties
<1>9. before # <<>> /\ LastOf(before).serial # scan[r].serial
  BY <1>7 DEF SupersededBy
<1> HIDE DEF before, n
<1>10. n \in Nat \ {0} /\ LastOf(before) = l[n]
  BY <1>6, <1>8, <1>9, EmptySeq DEF LastOf
<1>11. n \in DOMAIN l /\ n + 1 \in DOMAIN l /\ l[n + 1] = LastOf(l)
  BY <1>5, <1>6, <1>10 DEF LastOf
<1>12. store'[r].supersedes = l[n].serial /\ l[n].serial # l[n + 1].serial
  BY <1>3, <1>7, <1>9, <1>10, <1>11 DEF SupersededBy
<1>13. l[n].version + 1 = l[n + 1].version
  BY <1>4, <1>10, <1>11, <1>12, NextVersion DEF GoodLineage
<1>14. l[n].run # r
  BY <1>3, <1>4, <1>6, <1>10, <1>11 DEF GoodLineage
<1>15. l[n].run \in Runs
  BY <1>5, <1>11 DEF Entries
<1>16. EntryOfRun(l[n], s)
  BY <1>4, <1>11
<1> QED
  BY <1>1, <1>7, <1>11, <1>12, <1>13, <1>14, <1>15, <1>16 DEF EntryOfRun

\* A finalized document stays what it is, and the copy of the run it supersedes
\* is held by nobody else.
LEMMA SupersedesStep == IInv /\ SupersedesChain /\ [Next]_vars => SupersedesChain'
<1> DEFINE Precedes(q, r, sc, ld, st) ==
             /\ sc[q].subject = sc[r].subject
             /\ ld[q][sc[q].subject] # <<>>
             /\ LET entry == LastOf(ld[q][sc[q].subject])
                IN  /\ entry.run = q
                    /\ entry.serial = st[r].supersedes
                    /\ entry.version + 1 = st[r].version
<1> SUFFICES ASSUME IInv, SupersedesChain, [Next]_vars, NEW r \in Runs,
                    store'[r].stage = "final", store'[r].supersedes # NoSerial
             PROVE  \E q \in Runs \ {r} : Precedes(q, r, scan', loaded', store')
  BY DEF SupersedesChain
<1>1. TypeOK /\ StagesAgree
  BY DEF IInv
<1>2. CASE FinalizeStore(r)
  <2>1. scan' = scan /\ loaded' = loaded
    BY <1>2 DEF FinalizeStore
  <2> QED
    BY <1>2, <2>1, FinalizeSupersedes
<1>3. CASE ~FinalizeStore(r)
  <2>1. store'[r] = store[r]
    BY <1>1, <1>3 DEF TypeOK, Next, vars, StartScan, Reconcile, LoadAndAppend, TruncateIndex,
       WriteIndex, FinalizeStore, Crash, Tick, Created, Reconciled, StagesAgree
  <2>2. PICK q \in Runs \ {r} : Precedes(q, r, scan, loaded, store)
    BY <2>1 DEF SupersedesChain
  <2>3. scan'[r] = scan[r]
    BY <1>1, <2>1 DEF TypeOK, Next, vars, StartScan, Reconcile, LoadAndAppend, TruncateIndex,
       WriteIndex, FinalizeStore, Crash, Tick, Created
  <2>4. pc[q] \in Listed
    <3>1. PICK s \in Subjects : s = scan[q].subject
      BY <1>1, <2>1, <2>2 DEF StagesAgree, Missing, TypeOK, Scans
    <3>2. PICK l \in Seq(Entries) : l = loaded[q][s]
      BY <1>1 DEF TypeOK, Indexes
    <3>3. Len(l) \in DOMAIN l
      BY <2>2, <3>1, <3>2, EmptySeq, LenProperties
    <3>4. EntryOfRun(l[Len(l)], s)
      BY <3>2, <3>3 DEF IInv, GoodIndex
    <3> QED
      BY <2>2, <3>1, <3>2, <3>4 DEF LastOf, EntryOfRun
  <2>5. scan'[q] = scan[q] /\ loaded'[q] = loaded[q]
    BY <1>1, <2>4 DEF Listed, Holding, TypeOK, Next, vars, StartScan, Reconcile, LoadAndAppend,
       TruncateIndex, WriteIndex, FinalizeStore, Crash, Tick
  <2> QED
    BY <2>1, <2>2, <2>3, <2>5
<1> QED
  BY <1>2, <1>3

\* What a finished document says it supersedes is what another run of the subject
\* registered one version before: finalize_store reads it off the lineage that
\* register_run extended, whoever writes index.json meanwhile.
THEOREM SupersedesAlwaysChain == Spec => []SupersedesChain
<1>1. Init => SupersedesChain
  BY DEF Init, SupersedesChain, Missing
<1> QED
  BY <1>1, SupersedesStep, IInvAlways, PTL DEF Spec

=============================================================================
