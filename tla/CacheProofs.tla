----------------------------- MODULE CacheProofs -----------------------------
(***************************************************************************)
(* BlobCache implements KeyCache: what the store answers is what was last  *)
(* put under the key, or a miss.  The invariant behind it is that a blob   *)
(* file is never seen half written: it comes into being by the rename of a *)
(* file that was written to its end.                                       *)
(*                                                                         *)
(* LayerCache answers each image for its own squash.  The invariant behind *)
(* it is that an entry answers exactly for the files named in its key.     *)
(*                                                                         *)
(* DetectCache tells a scan what it would find without it.  The invariant  *)
(* behind it is that an entry is of the content in its key, and that no    *)
(* file which alone declares a project has an entry.                       *)
(***************************************************************************)
EXTENDS BlobCache, LayerCache, DetectCache, FiniteSetTheorems, TLAPS

Steps == {"idle", "open", "write", "rename", "insert", "prune"}
Storing == {"open", "write", "rename", "insert"}

\* The call, with whatever keys prune has still to come to.
Shape ==
    call \in [at : Steps, key : CacheKey \cup {NoKey}, data : Data \cup {NoEntry},
              entries : Index, todo : {call.todo}, limit : Nat, readable : SUBSET Data]

Entries == index \in Index
BlobsWhole == blobs \in [Data -> {"none", "whole"}]
Tmps == tmps \in [Data -> File]
StoresData == call.at \in Storing => call.data \in Data
WrittenOut == call.at = "rename" => tmps[call.data] = "whole"
OnlyForgets == call.at = "prune" => \A k \in CacheKey : call.entries[k] \in {NoEntry, index[k]}

BlobInv ==
    /\ Shape /\ Entries /\ BlobsWhole /\ Tmps
    /\ StoresData /\ WrittenOut /\ OnlyForgets /\ SurvivorsReadable

\* Nothing is stored and no call is in progress when the store is opened.
LEMMA InvHolds == BlobInit => BlobInv
BY BlobAssumption
   DEF BlobInit, BlobInv, Shape, Entries, BlobsWhole, Tmps, StoresData, WrittenOut, OnlyForgets,
       SurvivorsReadable, Returned, NoEntries, Index, File, Steps, Storing, At

\* Every step keeps blob files whole and prune's view of the index behind it.
LEMMA InvKept == BlobInv /\ [BlobNext]_blobVars => BlobInv'
<1> SUFFICES ASSUME BlobInv, [BlobNext]_blobVars PROVE BlobInv'
    OBVIOUS
<1> USE BlobAssumption
<1> USE DEF BlobInv, Entries, BlobsWhole, Tmps, StoresData, WrittenOut, OnlyForgets,
            SurvivorsReadable, Index, File, Steps, Storing, At
<1>1. ASSUME NEW k \in CacheKey \cup {NoKey}, NEW d \in Data, PutBlob(k, d)
      PROVE  BlobInv'
    BY <1>1 DEF PutBlob, Shape, Returned, NoEntries
<1>2. CASE OpenTmp
    BY <1>2 DEF OpenTmp, Goto, Shape
<1>3. CASE WriteTmp
    BY <1>3 DEF WriteTmp, Goto, Shape
<1>4. CASE RenameTmp
    BY <1>4 DEF RenameTmp, Goto, Shape
<1>5. CASE BlobFails
    BY <1>5 DEF BlobFails, Goto, Shape
<1>6. CASE Insert
    <2>1. index' \in Index
        BY <1>6 DEF Insert, Shape
    <2> QED
        BY <1>6, <2>1 DEF Insert, Shape, Returned, NoEntries
<1>7. ASSUME NEW k \in CacheKey, Get(k)
      PROVE  BlobInv'
    BY <1>7 DEF Get, Shape, Returned, NoEntries
<1>8. ASSUME NEW limit \in Limits, StartPrune(limit)
      PROVE  BlobInv'
    BY <1>8 DEF StartPrune, Shape, Returned, NoEntries
<1>9. CASE PruneEntry
    <2> DEFINE oldest == Head(call.todo)
               left   == [call.entries EXCEPT ![oldest] = NoEntry]
    <2>1. /\ call.at = "prune" /\ call' = [call EXCEPT !.entries = left, !.todo = Tail(@)]
          /\ index' = index /\ tmps' = tmps
        BY <1>9 DEF PruneEntry
    <2>2. left \in Index /\ \A k \in CacheKey : left[k] \in {NoEntry, call.entries[k]}
        BY DEF Shape
    <2>3. call'.at = "prune" /\ call'.entries = left /\ call'.readable = call.readable
        BY <2>1 DEF Shape
    <2>4. Shape' /\ OnlyForgets'
        BY <2>1, <2>2, <2>3 DEF Shape
    <2>5. \/ /\ \A k \in CacheKey : left[k] # call.entries[oldest]
             /\ blobs' = [blobs EXCEPT ![call.entries[oldest]] = "none"]
          \/ blobs' = blobs
        BY <1>9 DEF PruneEntry
    <2> HIDE DEF left, oldest
    <2>6. BlobsWhole'
        BY <2>5
    <2>7. SurvivorsReadable'
        <3> SUFFICES ASSUME NEW k \in CacheKey, left[k] \in call.readable
                     PROVE  blobs'[left[k]] = "whole"
            BY <2>3
        <3>1. left[k] \in Data /\ left[k] # NoEntry
            BY DEF Shape
        <3>2. left[k] = call.entries[k]
            BY <2>2, <3>1
        <3>3. blobs[left[k]] = "whole"
            BY <2>1, <3>2
        <3> QED
            BY <2>5, <3>1, <3>3
    <2> QED
        BY <2>1, <2>3, <2>4, <2>6, <2>7
<1>10. CASE CommitPrune
    BY <1>10 DEF CommitPrune, Shape, Returned, NoEntries
<1>11. CASE Dies
    BY <1>11 DEF Dies, Shape, Returned, NoEntries
<1>12. CASE UNCHANGED blobVars
    BY <1>12 DEF blobVars, Shape
<1> QED
    BY <1>1, <1>2, <1>3, <1>4, <1>5, <1>6, <1>7, <1>8, <1>9, <1>10, <1>11, <1>12 DEF BlobNext

\* The invariant in every reachable state.
LEMMA InvAlways == BlobSpec => []BlobInv
BY InvHolds, InvKept, PTL DEF BlobSpec

\* Pruning takes no blob away from an entry that it leaves: a blob is unlinked
\* only when no entry has it any more, and entries of a prune that is rolled
\* back are found missing, not wrong.
THEOREM SurvivorsAlwaysReadable == BlobSpec => []SurvivorsReadable
BY InvAlways, PTL DEF BlobInv

\* Whatever is answered was put under the key: Cas implements the cache its
\* callers rely on, whatever fails and wherever the process dies.
THEOREM CacheFailsOpen == BlobSpec => FailOpen
<1>1. BlobInit => Promise!Init
    BY DEF BlobInit, Promise!Init, NoEntries
<1>2. BlobInv /\ [BlobNext]_blobVars => [Promise!Next]_Promise!vars
    <2> SUFFICES ASSUME BlobInv, [BlobNext]_blobVars
                 PROVE  Promise!Next \/ (index' = index /\ answer' = answer)
        BY DEF Promise!vars
    <2> USE DEF BlobInv, Entries, Index
    <2>1. CASE Insert
        <3>1. ASSUME call.key # NoKey, index' = [index EXCEPT ![call.key] = call.data]
              PROVE  Promise!Put(call.key, call.data)
            BY <2>1, <3>1 DEF Insert, Promise!Put
        <3>2. call.at = "insert" /\ call.data \in Data
            BY <2>1 DEF Insert, At, StoresData, Storing
        <3>3. call.key \in CacheKey \cup {NoKey}
            BY DEF Shape
        <3> QED
            BY <2>1, <3>1, <3>2, <3>3 DEF Insert, Promise!Next
    <2>2. ASSUME NEW k \in CacheKey, Get(k)
          PROVE  Promise!Get(k)
        <3>1. Content(index[k]) \in {NoEntry, index[k]}
            <4>1. CASE index[k] = NoEntry
                BY <4>1, BlobAssumption DEF Content
            <4>2. CASE index[k] \in Data
                BY <4>2, BlobAssumption DEF Content, BlobsWhole
            <4> QED
                BY <4>1, <4>2
        <3> QED
            BY <2>2, <3>1 DEF Get, Promise!Get
    <2>3. CASE CommitPrune
        <3> DEFINE evicted == {k \in CacheKey : call.entries[k] = NoEntry}
        <3>1. call.entries \in Index /\ \A k \in CacheKey : call.entries[k] \in {NoEntry, index[k]}
            BY <2>3 DEF CommitPrune, At, Shape, OnlyForgets
        <3>2. index' = [k \in CacheKey |-> IF k \in evicted THEN NoEntry ELSE index[k]]
            BY <2>3, <3>1 DEF CommitPrune
        <3>3. Promise!Evict(evicted)
            BY <2>3, <3>2 DEF CommitPrune, Promise!Evict
        <3>4. evicted \in SUBSET CacheKey
            OBVIOUS
        <3> HIDE DEF evicted
        <3> QED
            BY <3>3, <3>4 DEF Promise!Next
    <2>4. ASSUME NEW k \in CacheKey \cup {NoKey}, NEW d \in Data, PutBlob(k, d)
          PROVE  index' = index /\ answer' = answer
        BY <2>4 DEF PutBlob
    <2>5. CASE OpenTmp \/ WriteTmp \/ RenameTmp \/ BlobFails
        BY <2>5 DEF OpenTmp, WriteTmp, RenameTmp, BlobFails
    <2>6. CASE PruneEntry \/ Dies \/ (\E limit \in Limits : StartPrune(limit))
        BY <2>6 DEF PruneEntry, Dies, StartPrune
    <2>7. CASE UNCHANGED blobVars
        BY <2>7 DEF blobVars
    <2> QED
        BY <2>1, <2>2, <2>3, <2>4, <2>5, <2>6, <2>7, BlobAssumption DEF BlobNext, Promise!Next
<1> QED
    BY <1>1, <1>2, InvAlways, PTL DEF BlobSpec, FailOpen, Promise!Spec
-----------------------------------------------------------------------------
\* LayerCache.

\* The findings are those of a layer's files, of each one and of no other.
Answers(findings, layer, files, s) ==
    /\ \A f \in findings : f.path \in files /\ f.layer = layer /\ f.setup = s
    /\ \A p \in files : \E f \in findings : f.path = p

EntriesAnswer == \A k \in DOMAIN stored : Answers(stored[k], k[1], k[2], k[3])

Came == {i \in 1 .. Len(image) : i < ordinal}

FoundSoFar ==
    /\ \A f \in found : \E i \in Came : f.path \in Shown(i) /\ f.layer = image[i] /\ f.setup = setup
    /\ \A i \in Came : \A p \in Shown(i) :
          \E f \in found : f.path = p /\ f.layer = image[i] /\ f.setup = setup

LayerInv ==
    /\ image \in Seq(Layer) /\ ordinal \in Nat
    /\ EntriesAnswer /\ FoundSoFar

LEMMA LayerInvHolds == LayerInit => LayerInv
BY DEF LayerInit, LayerInv, EntriesAnswer, FoundSoFar, Came

\* A layer's part of the findings is added: the one replayed or detected.
LEMMA PartAdded ==
    ASSUME LayerInv, Scanning,
           NEW part, Answers(part, image[ordinal], Shown(ordinal), setup),
           found' = found \cup part, ordinal' = ordinal + 1,
           UNCHANGED <<image, setup>>
    PROVE  FoundSoFar'
<1> USE DEF LayerInv, Scanning
<1>1. Came' = Came \cup {ordinal}
    BY DEF Came
<1>2. \A i : Shown(i)' = Shown(i)
    BY DEF Shown, ShowsFrom
<1>3. ASSUME NEW f \in found'
      PROVE  \E i \in Came' : f.path \in Shown(i) /\ f.layer = image[i] /\ f.setup = setup
    <2>1. CASE f \in found
        BY <1>1, <2>1 DEF FoundSoFar
    <2>2. CASE f \in part
        BY <1>1, <2>2 DEF Answers
    <2> QED
        BY <1>3, <2>1, <2>2
<1>4. ASSUME NEW i \in Came', NEW p \in Shown(i)
      PROVE  \E f \in found' : f.path = p /\ f.layer = image[i] /\ f.setup = setup
    <2>1. CASE i \in Came
        BY <2>1 DEF FoundSoFar
    <2>2. CASE i = ordinal
        BY <2>2 DEF Answers
    <2> QED
        BY <1>1, <1>4, <2>1, <2>2
<1> QED
    BY <1>2, <1>3, <1>4 DEF FoundSoFar

LEMMA LayerInvKept == LayerInv /\ [LayerNext]_layerVars => LayerInv'
<1> SUFFICES ASSUME LayerInv, [LayerNext]_layerVars PROVE LayerInv'
    OBVIOUS
<1> USE LayerAssumption
<1>1. ASSUME NEW i \in Images, NEW s \in Setup, StartImage(i, s)
      PROVE  LayerInv'
    BY <1>1 DEF StartImage, LayerInv, EntriesAnswer, FoundSoFar, Came
<1>2. CASE SkipLayer
    <2>1. Answers({}, image[ordinal], Shown(ordinal), setup)
        BY <1>2 DEF SkipLayer, Answers
    <2>2. FoundSoFar'
        BY <1>2, <2>1, PartAdded DEF SkipLayer
    <2> QED
        BY <1>2, <2>2 DEF SkipLayer, LayerInv, EntriesAnswer
<1>3. CASE ReplayLayer
    <2>1. Answers(stored[LayerKey(ordinal)], image[ordinal], Shown(ordinal), setup)
        BY <1>3 DEF ReplayLayer, LayerInv, EntriesAnswer, LayerKey
    <2>2. FoundSoFar'
        BY <1>3, <2>1, PartAdded DEF ReplayLayer
    <2> QED
        BY <1>3, <2>2 DEF ReplayLayer, LayerInv, EntriesAnswer
<1>4. CASE DetectLayer
    <2> DEFINE detected == {Detected(ordinal, p) : p \in Shown(ordinal)}
               key == LayerKey(ordinal)
    <2>1. Answers(detected, image[ordinal], Shown(ordinal), setup)
        <3>1. \A p : LET f == Detected(ordinal, p)
                     IN  f.path = p /\ f.layer = image[ordinal] /\ f.setup = setup
            BY DEF Detected
        <3> QED
            BY <3>1 DEF Answers
    <2>2. FoundSoFar'
        BY <1>4, <2>1, PartAdded DEF DetectLayer
    <2>3. stored' = [k \in DOMAIN stored \cup {key} |-> IF k = key THEN detected ELSE stored[k]]
        BY <1>4 DEF DetectLayer
    <2>4. Answers(detected, key[1], key[2], key[3])
        BY <2>1 DEF LayerKey
    <2> HIDE DEF detected, key
    <2>5. EntriesAnswer'
        BY <2>3, <2>4 DEF EntriesAnswer, LayerInv
    <2> QED
        BY <1>4, <2>2, <2>5 DEF DetectLayer, LayerInv
<1>5. CASE EvictLayer
    <2>1. EntriesAnswer'
        BY <1>5 DEF EvictLayer, LayerInv, EntriesAnswer
    <2> QED
        BY <1>5, <2>1 DEF EvictLayer, LayerInv, FoundSoFar, Came, Shown, ShowsFrom
<1>6. CASE KillScan
    BY <1>6 DEF KillScan, LayerInv, EntriesAnswer, FoundSoFar, Came
<1>7. CASE UNCHANGED layerVars
    BY <1>7 DEF layerVars, LayerInv, EntriesAnswer, FoundSoFar, Came, Shown, ShowsFrom
<1> QED
    BY <1>1, <1>2, <1>3, <1>4, <1>5, <1>6, <1>7 DEF LayerNext

\* A scan that is through has found what its own image shows, whatever scans
\* of other images filled the cache.
THEOREM ReplayIsAlwaysTheSquash == LayerSpec => []ReplayIsTheSquash
<1>1. LayerInv => ReplayIsTheSquash
    <2> DEFINE told  == {<<f.path, f.layer, f.setup>> : f \in found}
               shown == UNION {{<<p, image[i], setup>> : p \in Shown(i)} : i \in 1 .. Len(image)}
    <2> SUFFICES ASSUME LayerInv, ordinal = Len(image) + 1
                 PROVE  told = shown
        BY DEF ReplayIsTheSquash
    <2>1. Came = 1 .. Len(image)
        BY DEF Came, LayerInv
    <2>2. ASSUME NEW t \in told
          PROVE  t \in shown
        <3>1. PICK f \in found : t = <<f.path, f.layer, f.setup>>
            OBVIOUS
        <3>2. PICK i \in 1 .. Len(image) :
                 f.path \in Shown(i) /\ f.layer = image[i] /\ f.setup = setup
            BY <2>1 DEF LayerInv, FoundSoFar
        <3> QED
            BY <3>1, <3>2
    <2>3. ASSUME NEW t \in shown
          PROVE  t \in told
        <3>1. PICK i \in 1 .. Len(image) : \E p \in Shown(i) : t = <<p, image[i], setup>>
            OBVIOUS
        <3>2. PICK p \in Shown(i) : t = <<p, image[i], setup>>
            BY <3>1
        <3>3. PICK f \in found : f.path = p /\ f.layer = image[i] /\ f.setup = setup
            BY <2>1 DEF LayerInv, FoundSoFar
        <3> QED
            BY <3>2, <3>3
    <2> HIDE DEF told, shown
    <2> QED
        BY <2>2, <2>3
<1> QED
    BY <1>1, LayerInvHolds, LayerInvKept, PTL DEF LayerSpec

(***************************************************************************)
(* The detector cache                                                      *)
(***************************************************************************)

\* The project of a file that no other file declares and whose detector does not fail.
Sole(f) == /\ f \notin Flaky /\ Declares[f] \in Projects
           /\ \A g \in Files : Declares[g] = Declares[f] => g = f

\* What is known of a file with that content by what is kept of it.
IsOf(f, content, value) ==
    /\ value # Nil /\ value.own = content
    /\ value.failed => f \in Flaky
    /\ Peeks[f] = 0 => value.sibling = Absent

\* An entry tells the truth, and there is none that keeps a project from being declared.
Honest(tier) == \A k \in Keys : tier[k] # Nil => IsOf(k[1], k[2], tier[k]) /\ ~Sole(k[1])

\* A scan has its answers of the files behind it, and holds the file that it is at.
Behind(m) == {f \in Files : f < scan[m].file}
AnswersHold(m) ==
    \A f \in Behind(m) : IF tree[m][f] = Absent THEN scan[m].found[f] = Nil
                         ELSE IsOf(f, tree[m][f], scan[m].found[f])
ProjectsHold(m) ==
    /\ \A p \in scan[m].projects : \E f \in Behind(m) : tree[m][f] # Absent /\ Declares[f] = p
    /\ \A f \in Behind(m) : tree[m][f] # Absent /\ Sole(f) => Declares[f] \in scan[m].projects
HoldsFile(m) ==
    LET f == scan[m].file
        at == scan[m].at
    IN  /\ at # "done" => f \in Files
        /\ at = "done" => f = NumFiles + 1
        /\ at \in {"digest", "lookup", "parse", "store"} => scan[m].blob = tree[m][f] /\ tree[m][f] # Absent
        /\ at \in {"lookup", "parse", "store"} => scan[m].digest = tree[m][f]
        /\ at = "store" => IsOf(f, tree[m][f], scan[m].found[f]) /\ ~Sole(f)
ScanHolds(m) ==
    scan[m].at \notin {"idle", "crashed"} => HoldsFile(m) /\ AnswersHold(m) /\ ProjectsHold(m)

DetectInv ==
    /\ TypeOK
    /\ Honest(remote) /\ \A m \in Machines : Honest(local[m]) /\ ScanHolds(m)

LEMMA DetectStarts == Init => DetectInv
<1> SUFFICES ASSUME Init PROVE DetectInv
    OBVIOUS
<1>1. Nil \notin Value /\ \A k \in Keys : Empty[k] = Nil
    BY CacheAssumption DEF Nil, Value, Empty
<1>2. Idle \in Scan /\ Idle.at = "idle"
    BY CacheAssumption DEF Idle, Scan
<1>3. TypeOK
    BY <1>2 DEF Init, TypeOK, Tier, Empty
<1>4. Honest(remote) /\ \A m \in Machines : Honest(local[m])
    BY <1>1 DEF Init, Honest
<1>5. \A m \in Machines : ScanHolds(m)
    BY <1>2 DEF Init, ScanHolds
<1> QED
    BY <1>3, <1>4, <1>5 DEF DetectInv

\* One scan takes a step, the others and the checkouts stay as they are.
LEMMA OneScanMoves ==
    ASSUME DetectInv, NEW m \in Machines, NEW s \in Scan, scan' = [scan EXCEPT ![m] = s],
           UNCHANGED tree, ScanHolds(m)'
    PROVE  scan' \in [Machines -> Scan] /\ \A n \in Machines : ScanHolds(n)'
<1>1. scan \in [Machines -> Scan] /\ scan' \in [Machines -> Scan]
    BY DEF DetectInv, TypeOK
<1>2. ASSUME NEW n \in Machines, n # m PROVE ScanHolds(n)'
  <2>1. scan'[n] = scan[n] /\ ScanHolds(n)
      BY <1>1, <1>2 DEF DetectInv
  <2> QED
      BY <2>1 DEF ScanHolds, HoldsFile, AnswersHold, ProjectsHold, Behind
<1> QED
    BY <1>1, <1>2

\* The walk goes on with an answer that is true of the file it leaves.
Answered(m, value) ==
    LET f == scan[m].file
    IN  IF tree[m][f] = Absent THEN value = Nil ELSE IsOf(f, tree[m][f], value)

LEMMA WalkGoesOn ==
    ASSUME DetectInv, NEW m \in Machines, scan[m].at \in {"open", "lookup", "parse", "store"}, UNCHANGED tree,
           NEW value \in Value \cup {Nil}, NEW declared \in SUBSET Projects,
           NEW s \in Scan, scan' = [scan EXCEPT ![m] = s],
           s.at = IF scan[m].file = NumFiles THEN "done" ELSE "open",
           s.file = scan[m].file + 1, s.found = [scan[m].found EXCEPT ![scan[m].file] = value],
           s.projects = scan[m].projects \cup declared,
           Answered(m, value),
           \A p \in declared : tree[m][scan[m].file] # Absent /\ Declares[scan[m].file] = p,
           tree[m][scan[m].file] # Absent /\ Sole(scan[m].file) => Declares[scan[m].file] \in declared
    PROVE  scan' \in [Machines -> Scan] /\ \A n \in Machines : ScanHolds(n)'
<1> DEFINE now == scan[m].file
<1>1. scan \in [Machines -> Scan] /\ scan[m] \in Scan /\ HoldsFile(m) /\ AnswersHold(m) /\ ProjectsHold(m)
    BY DEF DetectInv, TypeOK, ScanHolds
<1>2. now \in Files /\ NumFiles \in Nat /\ now \in 1 .. NumFiles
    BY <1>1, CacheAssumption DEF HoldsFile, Files
<1>3. scan'[m] = s /\ tree' = tree
    BY <1>1
<1>4. /\ \A g \in Behind(m) : s.found[g] = scan[m].found[g]
      /\ s.found[now] = value
    BY <1>1, <1>2 DEF Behind, Files, Scan
<1>5. Behind(m)' = Behind(m) \cup {now}
    BY <1>1, <1>2, <1>3 DEF Behind, Files, Scan
<1>6. Answered(m, value) = IF tree[m][now] = Absent THEN value = Nil ELSE IsOf(now, tree[m][now], value)
    BY DEF Answered
<1> HIDE DEF now
<1>7. HoldsFile(m)'
  <2>1. s.file = now + 1 /\ s.at = IF now = NumFiles THEN "done" ELSE "open"
      BY DEF now
  <2>2. s.at # "done" => s.file \in 1 .. NumFiles
      BY <1>2, <2>1
  <2>3. s.at = "done" => s.file = NumFiles + 1
      BY <2>1
  <2> QED
      BY <1>3, <2>1, <2>2, <2>3 DEF HoldsFile, Files
<1>8. AnswersHold(m)'
    BY <1>1, <1>3, <1>4, <1>5, <1>6 DEF AnswersHold
<1>9. ProjectsHold(m)'
  <2>1. \A p \in s.projects : p \in scan[m].projects \/ (p \in declared /\ tree[m][now] # Absent /\ Declares[now] = p)
      BY DEF now
  <2>2. \A p \in s.projects : \E g \in Behind(m)' : tree[m][g] # Absent /\ Declares[g] = p
      BY <1>1, <1>5, <2>1 DEF ProjectsHold
  <2>3. tree[m][now] # Absent /\ Sole(now) => Declares[now] \in s.projects
      BY DEF now
  <2>4. \A g \in Behind(m)' : tree[m][g] # Absent /\ Sole(g) => Declares[g] \in s.projects
      BY <1>1, <1>5, <2>3 DEF ProjectsHold
  <2> QED
      BY <1>3, <2>2, <2>4 DEF ProjectsHold
<1>10. ScanHolds(m)'
    BY <1>7, <1>8, <1>9 DEF ScanHolds
<1> QED
    BY <1>3, <1>10, OneScanMoves

LEMMA EntryKept ==
    ASSUME NEW tier \in Tier, Honest(tier), NEW k \in Keys, NEW value \in Value \cup {Nil},
           value # Nil => IsOf(k[1], k[2], value) /\ ~Sole(k[1])
    PROVE  [tier EXCEPT ![k] = value] \in Tier /\ Honest([tier EXCEPT ![k] = value])
<1> DEFINE t == [tier EXCEPT ![k] = value]
<1>1. t \in Tier
    BY DEF Tier
<1>2. \A j \in Keys : t[j] = IF j = k THEN value ELSE tier[j]
    BY DEF Tier
<1> HIDE DEF t
<1>3. Honest(t)
    BY <1>2 DEF Honest
<1> QED
    BY <1>1, <1>3 DEF t

LEMMA OnwardIs ==
    ASSUME DetectInv, NEW m \in Machines, NEW value \in Value \cup {Nil}, scan[m].file \in Files, Onward(m, value)
    PROVE  \E s \in Scan :
             /\ scan' = [scan EXCEPT ![m] = s]
             /\ s.at = IF scan[m].file = NumFiles THEN "done" ELSE "open"
             /\ s.file = scan[m].file + 1 /\ s.found = [scan[m].found EXCEPT ![scan[m].file] = value]
             /\ s.projects = scan[m].projects
<1> DEFINE now == scan[m].file
           s == [at |-> IF now = NumFiles THEN "done" ELSE "open", file |-> now + 1, blob |-> Absent, digest |-> Absent,
                 found |-> [scan[m].found EXCEPT ![now] = value], projects |-> scan[m].projects]
<1>1. scan \in [Machines -> Scan] /\ scan[m] \in Scan /\ now \in 1 .. NumFiles /\ NumFiles \in Nat
    BY CacheAssumption DEF DetectInv, TypeOK, Files
<1>2. scan' = [scan EXCEPT ![m] = s]
    BY <1>1 DEF Onward, Current, Scan
<1>3. s.found \in [Files -> Value \cup {Nil}] /\ now + 1 \in 1 .. NumFiles + 1
    BY <1>1 DEF Scan
<1>4. s \in Scan
    BY <1>1, <1>3 DEF Scan
<1> QED
    BY <1>2, <1>4

\* A lookup that answers, a file that is gone, and the end of a store.
LEMMA WalkAnswers ==
    ASSUME DetectInv, NEW m \in Machines, scan[m].at \in {"open", "lookup", "parse", "store"}, UNCHANGED tree,
           NEW value \in Value \cup {Nil}, Onward(m, value), Answered(m, value),
           tree[m][scan[m].file] # Absent => ~Sole(scan[m].file)
    PROVE  scan' \in [Machines -> Scan] /\ \A n \in Machines : ScanHolds(n)'
<1>1. scan[m].file \in Files
    BY DEF DetectInv, ScanHolds, HoldsFile
<1>2. PICK s \in Scan :
             /\ scan' = [scan EXCEPT ![m] = s]
             /\ s.at = IF scan[m].file = NumFiles THEN "done" ELSE "open"
             /\ s.file = scan[m].file + 1 /\ s.found = [scan[m].found EXCEPT ![scan[m].file] = value]
             /\ s.projects = scan[m].projects
    BY <1>1, OnwardIs
<1> DEFINE none == {}
<1>3. none \in SUBSET Projects /\ (\A p \in none : FALSE) /\ s.projects = scan[m].projects \cup none
    BY <1>2
<1> HIDE DEF none
<1> QED
    BY <1>2, <1>3, WalkGoesOn

LEMMA HeldKey ==
    ASSUME DetectInv, NEW m \in Machines, scan[m].at \in {"lookup", "parse", "store"}
    PROVE  LET f == scan[m].file
           IN  /\ f \in Files /\ tree[m][f] \in Contents /\ scan[m].blob = tree[m][f]
               /\ Key(m) = <<f, tree[m][f]>> /\ Key(m) \in Keys /\ Key(m)[1] = f /\ Key(m)[2] = tree[m][f]
<1>1. HoldsFile(m) /\ tree[m] \in [Files -> Contents \cup {Absent}]
    BY DEF DetectInv, TypeOK, ScanHolds
<1> QED
    BY <1>1 DEF HoldsFile, Key, Current, Keys

\* The file is read once and once more, and does not change meanwhile.
LEMMA FileIsRead ==
    ASSUME DetectInv, NEW m \in Machines, OpenFile(m) \/ DigestFile(m) \/ Miss(m) \/ TransferBreaks(m)
    PROVE  DetectInv'
<1> DEFINE now == scan[m].file
<1>1. scan \in [Machines -> Scan] /\ scan[m] \in Scan /\ HoldsFile(m) /\ AnswersHold(m) /\ ProjectsHold(m)
    BY DEF DetectInv, TypeOK, ScanHolds, OpenFile, DigestFile, Miss, TransferBreaks, AtLookup
<1>2. now \in Files /\ tree[m][now] \in Contents \cup {Absent}
    BY <1>1 DEF HoldsFile, DetectInv, TypeOK, OpenFile, DigestFile, Miss, TransferBreaks, AtLookup
<1>3. UNCHANGED <<tree, local, remote>>
    BY DEF OpenFile, DigestFile, Miss, TransferBreaks
<1>4. \E s \in Scan :
        /\ scan' = [scan EXCEPT ![m] = s]
        /\ s.file = now /\ s.found = scan[m].found /\ s.projects = scan[m].projects
        /\ \/ s.at = "crashed"
           \/ s.at = "digest" /\ s.blob = tree[m][now] /\ tree[m][now] # Absent
           \/ s.at \in {"lookup", "parse"} /\ s.blob = tree[m][now] /\ tree[m][now] # Absent /\ s.digest = tree[m][now]
  <2>1. CASE OpenFile(m)
    <3> DEFINE s == [scan[m] EXCEPT !.at = "digest", !.blob = tree[m][now]]
    <3>1. scan' = [scan EXCEPT ![m] = s] /\ tree[m][now] # Absent
        BY <1>1, <2>1 DEF OpenFile, Gone, Current
    <3>2. /\ s \in Scan /\ s.file = now /\ s.found = scan[m].found /\ s.projects = scan[m].projects
          /\ s.at = "digest" /\ s.blob = tree[m][now]
        BY <1>1, <1>2 DEF Scan
    <3> HIDE DEF s
    <3> QED
        BY <3>1, <3>2
  <2>2. CASE DigestFile(m) /\ Gone(m)
    <3> DEFINE s == [scan[m] EXCEPT !.at = "crashed"]
    <3>1. scan' = [scan EXCEPT ![m] = s]
        BY <1>1, <2>2 DEF DigestFile
    <3>2. s \in Scan /\ s.file = now /\ s.found = scan[m].found /\ s.projects = scan[m].projects /\ s.at = "crashed"
        BY <1>1 DEF Scan
    <3> HIDE DEF s
    <3> QED
        BY <3>1, <3>2
  <2>3. CASE DigestFile(m) /\ ~Gone(m)
    <3> DEFINE s == [scan[m] EXCEPT !.at = "lookup", !.digest = tree[m][now]]
    <3>1. scan' = [scan EXCEPT ![m] = s] /\ scan[m].at = "digest"
        BY <1>1, <2>3 DEF DigestFile, Current
    <3>2. /\ s \in Scan /\ s.file = now /\ s.found = scan[m].found /\ s.projects = scan[m].projects
          /\ s.at = "lookup" /\ s.digest = tree[m][now] /\ s.blob = scan[m].blob
        BY <1>1, <1>2 DEF Scan
    <3>3. scan[m].blob = tree[m][now] /\ tree[m][now] # Absent
        BY <1>1, <3>1 DEF HoldsFile
    <3> HIDE DEF s
    <3> QED
        BY <3>1, <3>2, <3>3
  <2>4. CASE Miss(m)
    <3> DEFINE s == [scan[m] EXCEPT !.at = "parse"]
    <3>1. scan' = [scan EXCEPT ![m] = s] /\ scan[m].at = "lookup"
        BY <1>1, <2>4 DEF Miss, AtLookup
    <3>2. /\ s \in Scan /\ s.file = now /\ s.found = scan[m].found /\ s.projects = scan[m].projects
          /\ s.at = "parse" /\ s.digest = scan[m].digest /\ s.blob = scan[m].blob
        BY <1>1, <1>2 DEF Scan
    <3>3. scan[m].blob = tree[m][now] /\ tree[m][now] # Absent /\ scan[m].digest = tree[m][now]
        BY <1>1, <3>1 DEF HoldsFile
    <3> HIDE DEF s
    <3> QED
        BY <3>1, <3>2, <3>3
  <2>5. CASE TransferBreaks(m)
    <3> DEFINE s == [scan[m] EXCEPT !.at = "crashed"]
    <3>1. scan' = [scan EXCEPT ![m] = s]
        BY <1>1, <2>5 DEF TransferBreaks
    <3>2. s \in Scan /\ s.file = now /\ s.found = scan[m].found /\ s.projects = scan[m].projects /\ s.at = "crashed"
        BY <1>1 DEF Scan
    <3> HIDE DEF s
    <3> QED
        BY <3>1, <3>2
  <2> QED
      BY <2>1, <2>2, <2>3, <2>4, <2>5
<1>5. PICK s \in Scan :
        /\ scan' = [scan EXCEPT ![m] = s]
        /\ s.file = now /\ s.found = scan[m].found /\ s.projects = scan[m].projects
        /\ \/ s.at = "crashed"
           \/ s.at = "digest" /\ s.blob = tree[m][now] /\ tree[m][now] # Absent
           \/ s.at \in {"lookup", "parse"} /\ s.blob = tree[m][now] /\ tree[m][now] # Absent /\ s.digest = tree[m][now]
    BY <1>4
<1>6. scan'[m] = s /\ Behind(m)' = Behind(m)
    BY <1>1, <1>5 DEF Behind
<1>7. AnswersHold(m)' /\ ProjectsHold(m)'
    BY <1>1, <1>3, <1>5, <1>6 DEF AnswersHold, ProjectsHold
<1>8. s.at # "crashed" => HoldsFile(m)'
    BY <1>2, <1>3, <1>5, <1>6 DEF HoldsFile
<1>9. ScanHolds(m)'
    BY <1>5, <1>6, <1>7, <1>8 DEF ScanHolds
<1>10. scan' \in [Machines -> Scan] /\ \A n \in Machines : ScanHolds(n)'
    BY <1>3, <1>5, <1>9, OneScanMoves
<1> QED
    BY <1>3, <1>10 DEF DetectInv, TypeOK, Honest

LEMMA LookupAnswers ==
    ASSUME DetectInv, NEW m \in Machines, SkipAbsent(m) \/ LocalHit(m) \/ RemoteHit(m)
    PROVE  DetectInv'
<1> DEFINE now == scan[m].file
           k == Key(m)
<1>1. CASE SkipAbsent(m)
  <2>1. scan[m].at = "open" /\ tree[m][now] = Absent /\ Onward(m, Nil) /\ UNCHANGED <<tree, local, remote>>
      BY <1>1 DEF SkipAbsent, Gone, Current
  <2>2. Answered(m, Nil)
      BY <2>1 DEF Answered
  <2>3. scan' \in [Machines -> Scan] /\ \A n \in Machines : ScanHolds(n)'
      BY <2>1, <2>2, WalkAnswers
  <2> QED
      BY <2>1, <2>3 DEF DetectInv, TypeOK, Honest
<1>2. CASE LocalHit(m)
  <2>1. scan[m].at = "lookup" /\ local[m][k] # Nil /\ Onward(m, local[m][k]) /\ UNCHANGED <<tree, local, remote>>
      BY <1>2 DEF LocalHit, AtLookup
  <2>2. tree[m][now] \in Contents /\ k \in Keys /\ k[1] = now /\ k[2] = tree[m][now]
      BY <2>1, HeldKey
  <2> HIDE DEF now, k
  <2>3. local[m][k] \in Value \cup {Nil} /\ Honest(local[m])
      BY <2>2 DEF DetectInv, TypeOK, Tier
  <2>4. IsOf(now, tree[m][now], local[m][k]) /\ ~Sole(now)
      BY <2>1, <2>2, <2>3 DEF Honest
  <2>5. Answered(m, local[m][k]) /\ ~Sole(scan[m].file)
      BY <2>2, <2>4, CacheAssumption DEF Answered, now
  <2>6. scan' \in [Machines -> Scan] /\ \A n \in Machines : ScanHolds(n)'
      BY <2>1, <2>3, <2>5, WalkAnswers
  <2> QED
      BY <2>1, <2>6 DEF DetectInv, TypeOK, Honest
<1>3. CASE RemoteHit(m)
  <2>1. /\ scan[m].at = "lookup" /\ remote[k] # Nil /\ Onward(m, remote[k]) /\ UNCHANGED <<tree, remote>>
        /\ local' = [local EXCEPT ![m][k] = remote[k]]
      BY <1>3 DEF RemoteHit, AtLookup
  <2>2. tree[m][now] \in Contents /\ k \in Keys /\ k[1] = now /\ k[2] = tree[m][now]
      BY <2>1, HeldKey
  <2> HIDE DEF now, k
  <2>3. remote[k] \in Value \cup {Nil} /\ Honest(remote)
      BY <2>2 DEF DetectInv, TypeOK, Tier
  <2>4. IsOf(now, tree[m][now], remote[k]) /\ ~Sole(now)
      BY <2>1, <2>2, <2>3 DEF Honest
  <2>5. Answered(m, remote[k]) /\ ~Sole(scan[m].file)
      BY <2>2, <2>4, CacheAssumption DEF Answered, now
  <2>6. scan' \in [Machines -> Scan] /\ \A n \in Machines : ScanHolds(n)'
      BY <2>1, <2>3, <2>5, WalkAnswers
  <2>7. local[m] \in Tier /\ Honest(local[m])
      BY DEF DetectInv, TypeOK
  <2>8. [local[m] EXCEPT ![k] = remote[k]] \in Tier /\ Honest([local[m] EXCEPT ![k] = remote[k]])
      BY <2>2, <2>3, <2>4, <2>7, EntryKept
  <2> DEFINE t == [local[m] EXCEPT ![k] = remote[k]]
  <2>9. local' = [local EXCEPT ![m] = t]
      BY <2>1
  <2> HIDE DEF t
  <2>10. local' \in [Machines -> Tier] /\ \A n \in Machines : Honest(local'[n])
      BY <2>8, <2>9 DEF DetectInv, TypeOK, t
  <2> QED
      BY <2>1, <2>6, <2>10 DEF DetectInv, TypeOK, Honest
<1> QED
    BY <1>1, <1>2, <1>3

LEMMA ScanStores ==
    ASSUME DetectInv, NEW m \in Machines, WriteThrough(m)
    PROVE  DetectInv'
<1> DEFINE now == scan[m].file
           k == Key(m)
           value == scan[m].found[now]
<1>1. /\ scan[m].at = "store" /\ Onward(m, value) /\ UNCHANGED <<tree, local>>
      /\ remote' = remote \/ remote' = [remote EXCEPT ![k] = value]
    BY DEF WriteThrough, Current
<1>2. now \in Files /\ tree[m][now] \in Contents /\ k \in Keys /\ k[1] = now /\ k[2] = tree[m][now]
    BY <1>1, HeldKey
<1>3. IsOf(now, tree[m][now], value) /\ ~Sole(now)
    BY <1>1 DEF DetectInv, ScanHolds, HoldsFile
<1>4. value \in Value \cup {Nil}
    BY <1>2 DEF DetectInv, TypeOK, Scan
<1> HIDE DEF k, value
<1>5. Answered(m, value)
    BY <1>2, <1>3, CacheAssumption DEF Answered
<1>6. scan' \in [Machines -> Scan] /\ \A n \in Machines : ScanHolds(n)'
    BY <1>1, <1>3, <1>4, <1>5, WalkAnswers
<1> HIDE DEF now
<1>7. remote \in Tier /\ Honest(remote)
    BY DEF DetectInv, TypeOK
<1>8. [remote EXCEPT ![k] = value] \in Tier /\ Honest([remote EXCEPT ![k] = value])
    BY <1>2, <1>3, <1>4, <1>7, EntryKept
<1>9. remote' \in Tier /\ Honest(remote')
    BY <1>1, <1>7, <1>8
<1> QED
    BY <1>1, <1>6, <1>9 DEF DetectInv, TypeOK, Honest

\* A parse of the file that was looked up.
LEMMA FileIsParsed ==
    ASSUME DetectInv, NEW m \in Machines, ParseFile(m)
    PROVE  DetectInv'
<1> DEFINE now == scan[m].file
           k == Key(m)
<1>1. PICK failed \in MayFail(now) :
        LET value    == Parsed(m, now, scan[m].blob, failed)
            declared == IF failed THEN {} ELSE {Declares[now]} \cap Projects
        IN  IF declared \subseteq scan[m].projects
            THEN /\ local' = [local EXCEPT ![m][k] = value]
                 /\ scan' = [scan EXCEPT ![m].at = "store", ![m].found[now] = value]
            ELSE /\ UNCHANGED local
                 /\ scan' = [scan EXCEPT
                       ![m].at = IF now = NumFiles THEN "done" ELSE "open",
                       ![m].file = now + 1, ![m].blob = Absent, ![m].digest = Absent,
                       ![m].found[now] = value,
                       ![m].projects = @ \cup declared]
    BY DEF ParseFile, Current
<1> DEFINE value == Parsed(m, now, scan[m].blob, failed)
           declared == IF failed THEN {} ELSE {Declares[now]} \cap Projects
<1>2. scan[m].at = "parse" /\ UNCHANGED <<tree, remote>>
    BY DEF ParseFile
<1>3. /\ now \in Files /\ tree[m][now] \in Contents /\ scan[m].blob = tree[m][now]
      /\ k = <<now, tree[m][now]>> /\ k \in Keys /\ k[1] = now /\ k[2] = tree[m][now]
    BY <1>2, HeldKey
<1>4. scan \in [Machines -> Scan] /\ scan[m] \in Scan /\ HoldsFile(m) /\ AnswersHold(m) /\ ProjectsHold(m)
    BY <1>2 DEF DetectInv, TypeOK, ScanHolds
<1>5. failed \in BOOLEAN /\ (failed => now \in Flaky)
    BY DEF MayFail
<1>6. value \in Value /\ IsOf(now, tree[m][now], value)
  <2>1. Peeks[now] # 0 => Peeks[now] \in Files
      BY <1>3, CacheAssumption DEF Files
  <2>2. tree[m] \in [Files -> Contents \cup {Absent}]
      BY DEF DetectInv, TypeOK
  <2>3. /\ value.own = tree[m][now] /\ value.failed = failed /\ value.sibling \in Contents \cup {Absent}
        /\ Peeks[now] = 0 => value.sibling = Absent
      BY <1>3, <2>1, <2>2 DEF Parsed
  <2>4. value \in Value
      BY <1>3, <1>5, <2>3 DEF Parsed, Value
  <2>5. value # Nil
    <3>1. Nil.own = Absent /\ value.own # Absent
        BY <1>3, <2>3, CacheAssumption DEF Nil
    <3> QED
        BY <3>1
  <2> QED
      BY <1>5, <2>3, <2>4, <2>5 DEF IsOf
<1>7. declared \in SUBSET Projects /\ (\A p \in declared : Declares[now] = p) /\ (Sole(now) => Declares[now] \in declared)
    BY <1>5 DEF Sole
<1>8. tree[m][now] # Absent
    BY <1>3, CacheAssumption
<1>9. CASE declared \subseteq scan[m].projects
  <2>1. /\ local' = [local EXCEPT ![m][k] = value]
        /\ scan' = [scan EXCEPT ![m].at = "store", ![m].found[now] = value]
      BY <1>1, <1>9
  <2>2. ~Sole(now)
    <3>1. SUFFICES ASSUME Sole(now) PROVE FALSE
        OBVIOUS
    <3>2. PICK g \in Behind(m) : Declares[g] = Declares[now]
        BY <1>4, <1>7, <1>9, <3>1 DEF ProjectsHold
    <3>3. g \in Files /\ g = now /\ g < now
        BY <3>1, <3>2 DEF Behind, Sole
    <3> QED
        BY <3>3 DEF Files
  <2> HIDE DEF value, declared, k
  <2> DEFINE s == [scan[m] EXCEPT !.at = "store", !.found = [@ EXCEPT ![now] = value]]
  <2>3. scan' = [scan EXCEPT ![m] = s]
      BY <1>4, <2>1 DEF Scan
  <2>4. /\ s.at = "store" /\ s.file = now /\ s.blob = scan[m].blob /\ s.digest = scan[m].digest
        /\ s.found = [scan[m].found EXCEPT ![now] = value] /\ s.projects = scan[m].projects
      BY <1>4 DEF Scan
  <2>5. s \in Scan
    <3>1. s.found \in [Files -> Value \cup {Nil}]
        BY <1>4, <1>6, <2>4 DEF Scan
    <3> QED
        BY <1>4, <3>1, <2>4 DEF Scan
  <2> HIDE DEF s
  <2>6. scan'[m] = s /\ Behind(m)' = Behind(m)
      BY <1>4, <2>3, <2>4 DEF Behind
  <2>7. s.found[now] = value /\ \A g \in Behind(m) : s.found[g] = scan[m].found[g]
    <3>1. DOMAIN scan[m].found = Files /\ now \in Files /\ s.found = [scan[m].found EXCEPT ![now] = value]
        BY <1>3, <1>4, <2>4 DEF Scan
    <3>2. now \notin Behind(m) /\ Behind(m) \subseteq Files
        BY <1>3 DEF Behind, Files
    <3> QED
        BY <3>1, <3>2
  <2>8. AnswersHold(m)'
      BY <1>2, <1>4, <2>6, <2>7 DEF AnswersHold
  <2>9. ProjectsHold(m)'
      BY <1>2, <1>4, <2>4, <2>6 DEF ProjectsHold
  <2>10. scan[m].blob = tree[m][now] /\ scan[m].digest = tree[m][now]
      BY <1>2, <1>4 DEF HoldsFile
  <2>11. HoldsFile(m)'
      BY <1>2, <1>3, <1>6, <1>8, <2>2, <2>4, <2>6, <2>7, <2>10 DEF HoldsFile
  <2>12. scan' \in [Machines -> Scan] /\ \A n \in Machines : ScanHolds(n)'
    <3>1. ScanHolds(m)'
        BY <2>8, <2>9, <2>11 DEF ScanHolds
    <3> QED
        BY <1>2, <2>3, <2>5, <3>1, OneScanMoves
  <2>13. local[m] \in Tier /\ Honest(local[m])
      BY DEF DetectInv, TypeOK
  <2> DEFINE t == [local[m] EXCEPT ![k] = value]
  <2>14. t \in Tier /\ Honest(t)
      BY <1>3, <1>6, <2>2, <2>13, EntryKept
  <2>15. local' = [local EXCEPT ![m] = t]
      BY <2>1
  <2> HIDE DEF t
  <2>16. local' \in [Machines -> Tier] /\ \A n \in Machines : Honest(local'[n])
      BY <2>14, <2>15 DEF DetectInv, TypeOK
  <2> QED
      BY <1>2, <2>12, <2>16 DEF DetectInv, TypeOK, Honest
<1>10. CASE ~(declared \subseteq scan[m].projects)
  <2>1. /\ UNCHANGED local
        /\ scan' = [scan EXCEPT
                       ![m].at = IF now = NumFiles THEN "done" ELSE "open",
                       ![m].file = now + 1, ![m].blob = Absent, ![m].digest = Absent,
                       ![m].found[now] = value,
                       ![m].projects = @ \cup declared]
      BY <1>1, <1>10
  <2> HIDE DEF value, declared, k
  <2> DEFINE s == [at |-> IF now = NumFiles THEN "done" ELSE "open", file |-> now + 1, blob |-> Absent, digest |-> Absent,
                   found |-> [scan[m].found EXCEPT ![now] = value], projects |-> scan[m].projects \cup declared]
  <2>2. scan' = [scan EXCEPT ![m] = s]
      BY <1>4, <2>1 DEF Scan
  <2>3. s.found \in [Files -> Value \cup {Nil}] /\ now + 1 \in 1 .. NumFiles + 1 /\ s.projects \in SUBSET Projects
      BY <1>3, <1>4, <1>6, <1>7, CacheAssumption DEF Scan, Files
  <2>4. s \in Scan
      BY <2>3 DEF Scan
  <2>5. Answered(m, value)
      BY <1>6, <1>8 DEF Answered
  <2>6. /\ s.at = (IF now = NumFiles THEN "done" ELSE "open") /\ s.file = now + 1
        /\ s.found = [scan[m].found EXCEPT ![now] = value] /\ s.projects = scan[m].projects \cup declared
      OBVIOUS
  <2> HIDE DEF s
  <2>7. scan' \in [Machines -> Scan] /\ \A n \in Machines : ScanHolds(n)'
      BY <1>2, <1>6, <1>7, <1>8, <2>2, <2>4, <2>5, <2>6, WalkGoesOn
  <2> QED
      BY <1>2, <2>1, <2>7 DEF DetectInv, TypeOK, Honest
<1> QED
    BY <1>9, <1>10

\* What happens around the scans, where no file changes under one.
LEMMA AroundTheScans ==
    ASSUME DetectInv, ~EditsRace, (\E m \in Machines : Edit(m) \/ StartScan(m)) \/ Prune
    PROVE  DetectInv'
<1>1. ASSUME NEW m \in Machines, Edit(m) PROVE DetectInv'
  <2>1. PICK f \in Files, c \in Contents \cup {Absent} : tree' = [tree EXCEPT ![m][f] = c]
      BY <1>1 DEF Edit
  <2>2. scan' = [scan EXCEPT ![m] = Idle] /\ UNCHANGED <<local, remote>>
      BY <1>1 DEF Edit
  <2>3. Idle \in Scan /\ Idle.at = "idle"
      BY CacheAssumption DEF Idle, Scan
  <2>4. tree' \in [Machines -> [Files -> Contents \cup {Absent}]] /\ scan' \in [Machines -> Scan]
      BY <2>1, <2>2, <2>3 DEF DetectInv, TypeOK
  <2>5. ASSUME NEW n \in Machines PROVE ScanHolds(n)'
    <3>1. CASE n = m
        BY <2>2, <2>3, <3>1 DEF ScanHolds, DetectInv, TypeOK
    <3>2. CASE n # m
      <4>1. scan'[n] = scan[n] /\ tree'[n] = tree[n] /\ ScanHolds(n)
          BY <2>1, <2>2, <3>2 DEF DetectInv, TypeOK
      <4> QED
          BY <4>1 DEF ScanHolds, HoldsFile, AnswersHold, ProjectsHold, Behind
    <3> QED
        BY <3>1, <3>2
  <2> QED
      BY <2>2, <2>4, <2>5 DEF DetectInv, TypeOK, Honest
<1>2. ASSUME NEW m \in Machines, StartScan(m) PROVE DetectInv'
  <2> DEFINE s == [Idle EXCEPT !.at = "open"]
  <2>1. scan' = [scan EXCEPT ![m] = s] /\ UNCHANGED <<tree, local, remote>>
      BY <1>2 DEF StartScan
  <2>2. s \in Scan /\ s.at = "open" /\ s.file = 1 /\ s.projects = {}
      BY CacheAssumption DEF Idle, Scan
  <2> HIDE DEF s
  <2>3. scan'[m] = s /\ Behind(m)' = {}
      BY <2>1, <2>2 DEF DetectInv, TypeOK, Behind, Files
  <2>4. ScanHolds(m)'
      BY <2>2, <2>3, CacheAssumption DEF ScanHolds, HoldsFile, AnswersHold, ProjectsHold, Files
  <2>5. scan' \in [Machines -> Scan] /\ \A n \in Machines : ScanHolds(n)'
      BY <2>1, <2>2, <2>4, OneScanMoves
  <2> QED
      BY <2>1, <2>5 DEF DetectInv, TypeOK, Honest
<1>3. CASE Prune
  <2>1. UNCHANGED <<tree, scan>>
      BY <1>3 DEF Prune
  <2>2. \A m \in Machines : ScanHolds(m)'
      BY <2>1 DEF DetectInv, ScanHolds, HoldsFile, AnswersHold, ProjectsHold, Behind
  <2>3. local \in [Machines -> Tier] /\ remote \in Tier /\ Honest(remote) /\ \A m \in Machines : Honest(local[m])
      BY DEF DetectInv, TypeOK
  <2>4. /\ local' \in [Machines -> Tier] /\ remote' \in Tier
        /\ Honest(remote') /\ \A m \in Machines : Honest(local'[m])
    <3>1. ASSUME NEW k \in Keys, NEW m \in Machines, local' = [local EXCEPT ![m][k] = Nil], UNCHANGED remote
          PROVE  local' \in [Machines -> Tier] /\ \A n \in Machines : Honest(local'[n])
      <4> DEFINE t == [local[m] EXCEPT ![k] = Nil]
      <4>1. t \in Tier /\ Honest(t)
          BY <2>3, EntryKept
      <4>2. local' = [local EXCEPT ![m] = t]
          BY <3>1
      <4> HIDE DEF t
      <4> QED
          BY <2>3, <4>1, <4>2
    <3>2. ASSUME NEW k \in Keys, remote' = [remote EXCEPT ![k] = Nil], UNCHANGED local
          PROVE  remote' \in Tier /\ Honest(remote')
        BY <2>3, <3>2, EntryKept
    <3> QED
        BY <1>3, <2>3, <3>1, <3>2 DEF Prune
  <2> QED
      BY <2>1, <2>2, <2>4 DEF DetectInv, TypeOK
<1> QED
    BY <1>1, <1>2, <1>3

LEMMA DetectKept ==
    ASSUME ~EditsRace, DetectInv, [Next]_vars
    PROVE  DetectInv'
<1>1. CASE UNCHANGED vars
    BY <1>1 DEF vars, DetectInv, TypeOK, Honest, ScanHolds, HoldsFile, AnswersHold, ProjectsHold, Behind
<1>2. CASE Next
    BY <1>2, AroundTheScans, FileIsRead, LookupAnswers, ScanStores, FileIsParsed DEF Next, Step
<1> QED
    BY <1>1, <1>2

\* Whatever mix of tiers, evictions, lost calls, failing detectors and machines that
\* stay offline answered: a scan that went to its end found in every file that its
\* key determines what a scan without the cache might find, and declared the same
\* projects (detect_entry, lookup, store).  No file changes under a scan: where one
\* does, the cache is wrong.
THEOREM WarmAlwaysFindsWhatColdFinds ==
    ASSUME ~EditsRace PROVE Spec => []WarmFindsWhatColdFinds
<1>1. DetectInv => WarmFindsWhatColdFinds
  <2> SUFFICES ASSUME DetectInv PROVE ReplayIsFaithful /\ ProjectsReplayed
      BY DEF WarmFindsWhatColdFinds
  <2>1. ASSUME NEW m \in Machines, Done(m)
        PROVE  Behind(m) = Files /\ AnswersHold(m) /\ ProjectsHold(m)
    <3>1. HoldsFile(m) /\ scan[m].file = NumFiles + 1 /\ AnswersHold(m) /\ ProjectsHold(m)
        BY <2>1 DEF Done, DetectInv, ScanHolds, HoldsFile
    <3> QED
        BY <3>1, CacheAssumption DEF Behind, Files
  <2>2. ASSUME NEW m \in Machines, Done(m), NEW f \in Determined
        PROVE  IF f \in Present(m) THEN scan[m].found[f] \in Outcomes(m, f) ELSE scan[m].found[f] = Nil
    <3>1. f \in Files /\ Peeks[f] = 0
        BY DEF Determined
    <3> DEFINE v == scan[m].found[f]
    <3>2. IF tree[m][f] = Absent THEN v = Nil ELSE IsOf(f, tree[m][f], v)
        BY <2>1, <2>2, <3>1 DEF AnswersHold
    <3>3. v \in Value \cup {Nil}
        BY <3>1 DEF DetectInv, TypeOK, Scan
    <3> HIDE DEF v
    <3>4. ASSUME f \in Present(m) PROVE v \in Outcomes(m, f)
      <4>1. v \in Value /\ v.own = tree[m][f] /\ v.sibling = Absent /\ (v.failed => f \in Flaky)
          BY <3>1, <3>2, <3>3, <3>4 DEF Present, IsOf
      <4>2. v = [own |-> v.own, sibling |-> v.sibling, failed |-> v.failed] /\ v.failed \in BOOLEAN
          BY <4>1 DEF Value
      <4>3. v = Parsed(m, f, tree[m][f], v.failed)
          BY <3>1, <4>1, <4>2 DEF Parsed
      <4>4. v.failed \in MayFail(f)
          BY <4>1, <4>2 DEF MayFail
      <4> QED
          BY <4>3, <4>4 DEF Outcomes
    <3> QED
        BY <3>1, <3>2, <3>4 DEF Present, v
  <2>3. ASSUME NEW m \in Machines, Done(m), NEW p \in Projects, p \in scan[m].projects
        PROVE  DeclaredBy(m, p) # {}
    <3>1. PICK f \in Behind(m) : tree[m][f] # Absent /\ Declares[f] = p
        BY <2>1, <2>3 DEF ProjectsHold
    <3> QED
        BY <3>1 DEF DeclaredBy, Present, Behind
  <2>4. ASSUME NEW m \in Machines, Done(m), NEW p \in Projects, DeclaredBy(m, p) \ Flaky # {},
               Cardinality({f \in Files : Declares[f] = p}) = 1
        PROVE  p \in scan[m].projects
    <3>1. PICK f \in Files : tree[m][f] # Absent /\ Declares[f] = p /\ f \notin Flaky
        BY <2>4 DEF DeclaredBy, Present
    <3>2. IsFiniteSet({g \in Files : Declares[g] = p})
      <4>1. IsFiniteSet(1 .. NumFiles)
          BY FS_Interval, CacheAssumption
      <4> QED
          BY <4>1, FS_Subset DEF Files
    <3>3. \A g \in Files : Declares[g] = p => g = f
      <4>1. PICK only : {g \in Files : Declares[g] = p} = {only}
          BY <2>4, <3>2, FS_Singleton
      <4> QED
          BY <3>1, <4>1
    <3>4. Sole(f)
        BY <3>1, <3>3 DEF Sole
    <3> QED
        BY <2>1, <2>4, <3>1, <3>4 DEF ProjectsHold
  <2>5. ReplayIsFaithful
      BY <2>2 DEF ReplayIsFaithful
  <2>6. ProjectsReplayed
      BY <2>3, <2>4 DEF ProjectsReplayed
  <2> QED
      BY <2>5, <2>6
<1>2. Init => DetectInv
    BY DetectStarts
<1>3. DetectInv /\ [Next]_vars => DetectInv'
    BY DetectKept
<1> QED
    BY <1>1, <1>2, <1>3, PTL DEF Spec

\* Every entry of every tier is of the content that its key names, so that the tiers
\* of a fleet agree (put_from_local, LocalTier, the cache server).
THEOREM TiersAlwaysAgree ==
    ASSUME ~EditsRace PROVE Spec => [](EntriesMatchTheirKey /\ TiersAgree)
<1>1. DetectInv => EntriesMatchTheirKey /\ TiersAgree
    BY DEF DetectInv, Honest, IsOf, EntriesMatchTheirKey, TiersAgree, SameFile
<1>2. Init => DetectInv
    BY DetectStarts
<1>3. DetectInv /\ [Next]_vars => DetectInv'
    BY DetectKept
<1> QED
    BY <1>1, <1>2, <1>3, PTL DEF Spec
=============================================================================
