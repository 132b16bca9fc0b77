----------------------------- MODULE BlobCache -----------------------------
(***************************************************************************)
(* The content-addressed store (cache/__init__.py, Cas): blob files named  *)
(* by their digest, and an SQLite index that maps keys to digests.  One    *)
(* process uses it at a time; it may die between any two steps and any     *)
(* file operation or statement of it may fail.                             *)
(*                                                                         *)
(* A value stands for its digest as well.  A file holds all of its value,  *)
(* a part of it, or does not exist.                                        *)
(***************************************************************************)
EXTENDS Integers, Sequences, SequencesExt

CONSTANTS
    CacheKey,
    Data,
    NoEntry,
    NoKey,    \* for a blob that is stored without an entry (image layers)
    Torn,     \* what a reader gets of a file that holds a part of its value
    Loose,    \* the values that callers store without an entry
    Size,     \* Size[d]: the bytes of a value
    Limits,   \* the sizes that prune is called with
    Faults    \* TRUE: the process may die and operations may fail

ASSUME BlobAssumption ==
    /\ NoEntry \notin Data /\ Torn \notin Data /\ NoKey \notin CacheKey
    /\ Size \in [Data -> Nat] /\ Limits \subseteq Nat
    /\ Loose \subseteq Data /\ Faults \in BOOLEAN

VARIABLES
    blobs,      \* blobs[d]: the file cas/sha256/../<digest>
    tmps,       \* tmps[d]: the file <digest>.tmp beside it
    index,      \* index[k]: the entries that are committed
    recent,     \* their keys, least recently used first
    call,       \* the call in progress
    answer      \* of the last get

blobVars == <<blobs, tmps, index, recent, call, answer>>

File == {"none", "part", "whole"}
Index == [CacheKey -> Data \cup {NoEntry}]

Call == [at : {"idle", "open", "write", "rename", "insert", "prune"},
         key : CacheKey \cup {NoKey},
         data : Data \cup {NoEntry},
         entries : Index,          \* the index as the open transaction sees it
         todo : Seq(CacheKey),          \* rows that prune has not come to
         limit : Nat,
         readable : SUBSET Data]   \* blobs that were there when prune began

BlobTypeOK ==
    /\ blobs \in [Data -> File] /\ tmps \in [Data -> File]
    /\ index \in Index
    /\ recent \in Seq(CacheKey)
    /\ call \in Call
    /\ answer \in Data \cup {NoEntry, Torn}

NoEntries == [k \in CacheKey |-> NoEntry]
Returned ==
    [at |-> "idle", key |-> NoKey, data |-> NoEntry, entries |-> NoEntries,
     todo |-> <<>>, limit |-> 0, readable |-> {}]

BlobInit ==
    /\ blobs = [d \in Data |-> "none"]
    /\ tmps = [d \in Data |-> "none"]
    /\ index = NoEntries
    /\ recent = <<>>
    /\ call = Returned
    /\ answer = NoEntry

At(step) == call.at = step
Ready == At("idle")
Goto(step) == call' = [call EXCEPT !.at = step]

-----------------------------------------------------------------------------
\* put and put_blob.

\* The blob is not written again if the file exists.
PutBlob(k, d) ==
    /\ Ready
    /\ call' = [Returned EXCEPT
          !.at = IF blobs[d] = "none" THEN "open" ELSE "insert",
          !.key = k, !.data = d]
    /\ UNCHANGED <<blobs, tmps, index, recent, answer>>

\* Mutant: the blob is written in place.
OpenInPlace ==
    /\ At("open")
    /\ blobs' = [blobs EXCEPT ![call.data] = "part"]
    /\ Goto("rename")
    /\ UNCHANGED <<tmps, index, recent, answer>>

OpenTmp ==
    /\ At("open")
    /\ tmps' = [tmps EXCEPT ![call.data] = "part"]
    /\ Goto("write")
    /\ UNCHANGED <<blobs, index, recent, answer>>

WriteTmp ==
    /\ At("write")
    /\ tmps' = [tmps EXCEPT ![call.data] = "whole"]
    /\ Goto("rename")
    /\ UNCHANGED <<blobs, index, recent, answer>>

RenameTmp ==
    /\ At("rename")
    /\ blobs' = [blobs EXCEPT ![call.data] = tmps[call.data]]
    /\ tmps' = [tmps EXCEPT ![call.data] = "none"]
    /\ Goto("insert")
    /\ UNCHANGED <<index, recent, answer>>

\* An OSError is passed over, and put goes on to the index.
BlobFails ==
    /\ Faults
    /\ call.at \in {"open", "write", "rename"}
    /\ Goto("insert")
    /\ UNCHANGED <<blobs, tmps, index, recent, answer>>

Used(k) == Append(Remove(recent, k), k)

\* INSERT OR REPLACE and its commit, which may fail; nothing for put_blob.
Insert ==
    /\ At("insert")
    /\ \/ /\ call.key # NoKey
          /\ index' = [index EXCEPT ![call.key] = call.data]
          /\ recent' = Used(call.key)
       \/ /\ call.key = NoKey \/ Faults
          /\ UNCHANGED <<index, recent>>
    /\ call' = Returned
    /\ UNCHANGED <<blobs, tmps, answer>>

-----------------------------------------------------------------------------
\* get.

Content(d) ==
    CASE d = NoEntry -> NoEntry
      [] d \in Data /\ blobs[d] = "none" -> NoEntry
      [] d \in Data /\ blobs[d] = "part" -> Torn
      [] d \in Data /\ blobs[d] = "whole" -> d

\* An error is a miss, that of the UPDATE of last_used too.
Get(k) ==
    /\ Ready
    /\ \/ /\ answer' = Content(index[k])
          /\ recent' = IF Content(index[k]) = NoEntry THEN recent ELSE Used(k)
       \/ /\ Faults
          /\ answer' = NoEntry
          /\ UNCHANGED recent
    /\ call' = Returned
    /\ UNCHANGED <<blobs, tmps, index>>

-----------------------------------------------------------------------------
\* prune.

\* SELECT COALESCE(SUM(size), 0)
SizeOf(d) == IF d \in Data THEN Size[d] ELSE 0
TotalOf(entries, keys) == FoldSeq(LAMBDA k, sum : SizeOf(entries[k]) + sum, 0, keys)

StartPrune(limit) ==
    /\ Ready
    /\ call' = [Returned EXCEPT
          !.at = "prune", !.entries = index, !.todo = recent, !.limit = limit,
          !.readable = {d \in Data : blobs[d] = "whole"}]
    /\ UNCHANGED <<blobs, tmps, index, recent, answer>>

Total == TotalOf(call.entries, call.todo)

\* Mutant: the blob goes with the first of its entries.
PruneSharedEntry ==
    /\ At("prune")
    /\ Total > call.limit
    /\ call' = [call EXCEPT !.entries[Head(call.todo)] = NoEntry, !.todo = Tail(@)]
    /\ blobs' = [blobs EXCEPT ![call.entries[Head(call.todo)]] = "none"]
    /\ UNCHANGED <<tmps, index, recent, answer>>

\* The least recently used entry goes, and its blob unless another entry has
\* it too; an unlink that fails is passed over.
PruneEntry ==
    LET oldest == Head(call.todo)
        digest == call.entries[oldest]
        left   == [call.entries EXCEPT ![oldest] = NoEntry]
    IN  /\ At("prune")
        /\ Total > call.limit
        /\ call' = [call EXCEPT !.entries = left, !.todo = Tail(@)]
        /\ \/ /\ \A k \in CacheKey : left[k] # digest
              /\ blobs' = [blobs EXCEPT ![digest] = "none"]
           \/ /\ Faults \/ \E k \in CacheKey : left[k] = digest
              /\ UNCHANGED blobs
        /\ UNCHANGED <<tmps, index, recent, answer>>

CommitPrune ==
    /\ At("prune")
    /\ Total <= call.limit
    /\ index' = call.entries
    /\ recent' = call.todo
    /\ call' = Returned
    /\ UNCHANGED <<blobs, tmps, answer>>

\* The process dies, or a statement of prune fails and close() follows: what
\* was not committed is rolled back, and files stay as they are.
Dies ==
    /\ Faults
    /\ ~Ready
    /\ call' = Returned
    /\ UNCHANGED <<blobs, tmps, index, recent, answer>>

BlobNext ==
    \/ \E k \in CacheKey, d \in Data : PutBlob(k, d)
    \/ \E d \in Loose : PutBlob(NoKey, d)
    \/ OpenTmp \/ WriteTmp \/ RenameTmp \/ BlobFails \/ Insert
    \/ \E k \in CacheKey : Get(k)
    \/ \E limit \in Limits : StartPrune(limit)
    \/ PruneEntry \/ CommitPrune
    \/ Dies

BlobSpec == BlobInit /\ [][BlobNext]_blobVars

-----------------------------------------------------------------------------

\* The callers' view: the index holds what was put and not evicted, and a get
\* answers that or misses, whatever failed or died before.  (Said of Cas: any
\* IO or DB error degrades to a miss.)
Promise == INSTANCE KeyCache WITH Key <- CacheKey, Nil <- NoEntry, kept <- index
FailOpen == Promise!Spec

\* An entry that prune leaves can be read if it could be when prune began.
SurvivorsReadable ==
    At("prune") =>
        \A k \in CacheKey : call.entries[k] \in call.readable => blobs[call.entries[k]] = "whole"

=============================================================================
