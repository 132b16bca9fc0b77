---------------------------- MODULE DetectCache ----------------------------
(***************************************************************************)
(* The incremental detector cache (core/detect_cache.py, cache/remote.py,  *)
(* cache/server.py) as detect_entry uses it: machines of a fleet scan      *)
(* their checkouts file by file, look each file up in a local tier, then   *)
(* in the shared server, parse it if both miss and store what they found.  *)
(*                                                                         *)
(* A parse is what it depends on: the file's content, the content of the   *)
(* sibling its cataloger peeks at, and whether the detector failed.  The   *)
(* key is the file and its digest (detectors and configuration stay the    *)
(* same here).  The file is read twice, for its bytes and for its digest.  *)
(* The walk goes through Files in order.                                   *)
(***************************************************************************)
EXTENDS Integers, FiniteSets

CONSTANTS
    Machines,
    Offline,    \* machines that run with --offline
    NumFiles,   \* files of a checkout, numbered in walk order
    Contents,   \* what a file may contain
    Absent,     \* no such file
    Peeks,      \* Peeks[f]: the sibling the cataloger of f reads, 0 if none
    Projects,
    NoProject,
    Declares,   \* Declares[f]: the project the cataloger of f declares
    Flaky,      \* files whose detector may fail for a passing reason (plugins)
    Breaks,     \* TRUE: a transfer may break off in the middle of a body
    EditsRace   \* TRUE: files may change while a scan runs

Files == 1 .. NumFiles

ASSUME CacheAssumption ==
    /\ Offline \subseteq Machines /\ Flaky \subseteq Files /\ Breaks \in BOOLEAN
    /\ EditsRace \in BOOLEAN
    /\ NumFiles \in Nat \ {0}
    /\ Absent \notin Contents /\ NoProject \notin Projects
    /\ Peeks \in [Files -> 0 .. NumFiles]
    /\ Declares \in [Files -> Projects \cup {NoProject}]

VARIABLES
    tree,    \* tree[m][f]: the checkout of a machine
    local,   \* local[m][key]: the local tier
    remote,  \* remote[key]: the shared server
    scan     \* scan[m]: the scan that runs or ran last

vars == <<tree, local, remote, scan>>

Keys == Files \X Contents
Value == [own : Contents, sibling : Contents \cup {Absent}, failed : BOOLEAN]
Nil == [own |-> Absent, sibling |-> Absent, failed |-> FALSE]
Tier == [Keys -> Value \cup {Nil}]

Scan == [at : {"idle", "open", "digest", "lookup", "parse", "store", "done", "crashed"},
         file : 1 .. NumFiles + 1,
         blob : Contents \cup {Absent},      \* what source.open read
         digest : Contents \cup {Absent},    \* what source.digest read
         found : [Files -> Value \cup {Nil}],
         projects : SUBSET Projects]

TypeOK ==
    /\ tree \in [Machines -> [Files -> Contents \cup {Absent}]]
    /\ local \in [Machines -> Tier]
    /\ remote \in Tier
    /\ scan \in [Machines -> Scan]

Empty == [k \in Keys |-> Nil]
Idle == [at |-> "idle", file |-> 1, blob |-> Absent, digest |-> Absent,
         found |-> [f \in Files |-> Nil], projects |-> {}]

Init ==
    /\ tree \in [Machines -> [Files -> {Absent}]]
    /\ local = [m \in Machines |-> Empty]
    /\ remote = Empty
    /\ scan = [m \in Machines |-> Idle]

-----------------------------------------------------------------------------
\* Around the scans.

UnderScan(m) == scan[m].at \notin {"idle", "done", "crashed"}

\* A file of a checkout is changed, added or removed, between two scans or
\* under a running one.
Edit(m) ==
    /\ UnderScan(m) => EditsRace
    /\ \E f \in Files, c \in Contents \cup {Absent} :
          /\ tree[m][f] # c
          /\ tree' = [tree EXCEPT ![m][f] = c]
    /\ scan' = IF UnderScan(m) THEN scan ELSE [scan EXCEPT ![m] = Idle]
    /\ UNCHANGED <<local, remote>>

StartScan(m) ==
    /\ ~UnderScan(m)
    /\ scan' = [scan EXCEPT ![m] = [Idle EXCEPT !.at = "open"]]
    /\ UNCHANGED <<tree, local, remote>>

\* sorb cache prune, here and on the server.
Prune ==
    /\ \E k \in Keys :
          \/ \E m \in Machines : /\ local[m][k] # Nil
                                 /\ local' = [local EXCEPT ![m][k] = Nil]
                                 /\ UNCHANGED remote
          \/ /\ remote[k] # Nil
             /\ remote' = [remote EXCEPT ![k] = Nil]
             /\ UNCHANGED local
    /\ UNCHANGED <<tree, scan>>

-----------------------------------------------------------------------------
\* The walk and detect_entry.

Current(m) == scan[m].file

\* Mutant: the digest is left out of the key.
KeyByPath(m) == <<Current(m), CHOOSE c \in Contents : TRUE>>

Key(m) == <<Current(m), scan[m].digest>>

\* Whether the detector of file f fails.
MayFail(f) == IF f \in Flaky THEN BOOLEAN ELSE {FALSE}

\* What the catalogers find in file f of m's checkout, given its bytes.
Parsed(m, f, bytes, failed) ==
    [own |-> bytes,
     sibling |-> IF Peeks[f] = 0 THEN Absent ELSE tree[m][Peeks[f]],
     failed |-> failed]

\* The walk goes on to the next file, with what was found in this one.
Onward(m, value) ==
    scan' = [scan EXCEPT ![m].at = IF Current(m) = NumFiles THEN "done" ELSE "open",
                         ![m].file = @ + 1, ![m].blob = Absent, ![m].digest = Absent,
                         ![m].found[Current(m)] = value]

Gone(m) == tree[m][Current(m)] = Absent

\* The walk did not see the file, or open raised OSError and left a gap.
SkipAbsent(m) ==
    /\ scan[m].at = "open" /\ Gone(m)
    /\ Onward(m, Nil)
    /\ UNCHANGED <<tree, local, remote>>

OpenFile(m) ==
    /\ scan[m].at = "open" /\ ~Gone(m)
    /\ scan' = [scan EXCEPT ![m].at = "digest", ![m].blob = tree[m][Current(m)]]
    /\ UNCHANGED <<tree, local, remote>>

\* digest reads the file again, and what it raises is not caught.
DigestFile(m) ==
    /\ scan[m].at = "digest"
    /\ scan' = IF Gone(m) THEN [scan EXCEPT ![m].at = "crashed"]
               ELSE [scan EXCEPT ![m].at = "lookup", ![m].digest = tree[m][Current(m)]]
    /\ UNCHANGED <<tree, local, remote>>

AtLookup(m) == scan[m].at = "lookup"

LocalHit(m) ==
    /\ AtLookup(m)
    /\ local[m][Key(m)] # Nil
    /\ Onward(m, local[m][Key(m)])
    /\ UNCHANGED <<tree, local, remote>>

\* A hit of the shared tier populates the local one.
RemoteHit(m) ==
    /\ AtLookup(m)
    /\ local[m][Key(m)] = Nil /\ m \notin Offline
    /\ remote[Key(m)] # Nil
    /\ local' = [local EXCEPT ![m][Key(m)] = remote[Key(m)]]
    /\ Onward(m, remote[Key(m)])
    /\ UNCHANGED <<tree, remote>>

\* Mutant: a miss asks again.
MissAsksAgain(m) ==
    /\ AtLookup(m)
    /\ local[m][Key(m)] = Nil /\ remote[Key(m)] = Nil
    /\ UNCHANGED vars

\* Both tiers miss: 404, or a server that does not answer in time (status 0),
\* or no server to ask.
Miss(m) ==
    /\ AtLookup(m)
    /\ local[m][Key(m)] = Nil
    /\ scan' = [scan EXCEPT ![m].at = "parse"]
    /\ UNCHANGED <<tree, local, remote>>

\* resp.read() raises IncompleteRead, which is none of the errors that
\* HttpTransport catches, and nothing above it catches it.
TransferBreaks(m) ==
    /\ Breaks
    /\ AtLookup(m)
    /\ local[m][Key(m)] = Nil /\ m \notin Offline
    /\ remote[Key(m)] # Nil
    /\ scan' = [scan EXCEPT ![m].at = "crashed"]
    /\ UNCHANGED <<tree, local, remote>>

\* Mutant: the guard on declared projects is dropped.
ParseAndStoreAlways(m) ==
    LET f == Current(m)
    IN  /\ scan[m].at = "parse"
        /\ \E failed \in MayFail(f) :
              /\ scan' = [scan EXCEPT
                             ![m].at = "store",
                             ![m].projects = @ \cup (IF failed THEN {} ELSE {Declares[f]} \cap Projects),
                             ![m].found[f] = Parsed(m, f, scan[m].blob, failed)]
              /\ local' = [local EXCEPT ![m][Key(m)] = Parsed(m, f, scan[m].blob, failed)]
        /\ UNCHANGED <<tree, remote>>

\* The parse, and the local store if the parse declared no project that was
\* not declared before (len(projects) is what it was).  A detector that fails
\* leaves a gap, which is part of the value.
ParseFile(m) ==
    LET f == Current(m)
    IN  /\ scan[m].at = "parse"
        /\ \E failed \in MayFail(f) :
              LET value    == Parsed(m, f, scan[m].blob, failed)
                  declared == IF failed THEN {} ELSE {Declares[f]} \cap Projects
              IN  IF declared \subseteq scan[m].projects
                  THEN /\ local' = [local EXCEPT ![m][Key(m)] = value]
                       /\ scan' = [scan EXCEPT ![m].at = "store", ![m].found[f] = value]
                  ELSE /\ UNCHANGED local
                       /\ scan' = [scan EXCEPT
                             ![m].at = IF f = NumFiles THEN "done" ELSE "open",
                             ![m].file = f + 1, ![m].blob = Absent, ![m].digest = Absent,
                             ![m].found[f] = value,
                             ![m].projects = @ \cup declared]
        /\ UNCHANGED <<tree, remote>>

\* The PUT of the shared tier: it may be lost, and it overwrites.
WriteThrough(m) ==
    LET value == scan[m].found[Current(m)]
    IN  /\ scan[m].at = "store"
        /\ \/ UNCHANGED remote
           \/ /\ m \notin Offline
              /\ remote' = [remote EXCEPT ![Key(m)] = value]
        /\ Onward(m, value)
        /\ UNCHANGED <<tree, local>>

Step(m) ==
    \/ SkipAbsent(m) \/ OpenFile(m) \/ DigestFile(m)
    \/ LocalHit(m) \/ RemoteHit(m) \/ Miss(m)
    \/ TransferBreaks(m) \/ ParseFile(m) \/ WriteThrough(m)

Next ==
    \/ \E m \in Machines : Edit(m) \/ StartScan(m) \/ Step(m)
    \/ Prune

Spec == Init /\ [][Next]_vars /\ \A m \in Machines : WF_vars(Step(m))

-----------------------------------------------------------------------------

Done(m) == scan[m].at = "done"
Present(m) == {f \in Files : tree[m][f] # Absent}

\* Files whose detectors read nothing but the file, and what they may find.
Determined == {f \in Files : Peeks[f] = 0}
Outcomes(m, f) == {Parsed(m, f, tree[m][f], failed) : failed \in MayFail(f)}

\* Whatever mix of tiers, evictions, lost calls and commits answered: a file
\* whose detectors read nothing but the file gets what a scan without a cache
\* might find in it now.
ReplayIsFaithful ==
    \A m \in Machines : Done(m) =>
        \A f \in Determined :
            IF f \in Present(m) THEN scan[m].found[f] \in Outcomes(m, f)
            ELSE scan[m].found[f] = Nil

\* The tiers of the whole fleet agree on what such a file holds.
SameFile(v, w) == v # Nil /\ w # Nil => v.own = w.own
TiersAgree ==
    \A k \in Keys : k[1] \in Determined =>
        \A m, n \in Machines : /\ SameFile(local[m][k], local[n][k])
                               /\ SameFile(local[m][k], remote[k])

DeclaredBy(m, p) == {f \in Present(m) : Declares[f] = p}

\* A project that one file of the tree alone may declare is declared by every
\* scan that sees the file, and no scan declares one that no file declares.
ProjectsReplayed ==
    \A m \in Machines : Done(m) =>
        \A p \in Projects :
            /\ p \in scan[m].projects => DeclaredBy(m, p) # {}
            /\ /\ DeclaredBy(m, p) \ Flaky # {}
               /\ Cardinality({f \in Files : Declares[f] = p}) = 1
               => p \in scan[m].projects

\* What a scan with the cache reports is what a scan without it might, in the
\* files and in the projects alike.
WarmFindsWhatColdFinds == ReplayIsFaithful /\ ProjectsReplayed

\* Every scan that starts ends, whatever the server does.
ScansEnd == \A m \in Machines : scan[m].at = "open" ~> scan[m].at \in {"done", "crashed"}

\* Said by the suite of the cache: results with and without it are identical.
WarmEqualsCold ==
    \A m \in Machines : Done(m) =>
        \A f \in Present(m) : ~scan[m].found[f].failed => scan[m].found[f] = Parsed(m, f, tree[m][f], FALSE)

\* Said of the key: it holds the digest of the blob that was parsed, so that an
\* unchanged file replays its own findings.
EntriesMatchTheirKey ==
    \A k \in Keys, m \in Machines :
        /\ local[m][k] # Nil => local[m][k].own = k[2]
        /\ remote[k] # Nil => remote[k].own = k[2]
=============================================================================
