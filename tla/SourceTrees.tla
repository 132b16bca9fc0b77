---------------------------- MODULE SourceTrees ----------------------------
(* A directory as the target of a scan: one walk (source/dir.py) while others
   change the tree, the read of each entry by the path that was reported
   (core/pipeline.py), and the catalogers an entry is offered to
   (catalogers/base.py). *)
EXTENDS Naturals, SequencesExt

CONSTANTS
    Places,      \* the paths at which something can be, sequences of names
    MaxNodes,    \* what the tree holds when the walk begins
    MaxChanges   \* changes during the walk

VARIABLES
    tree,        \* path |-> what is there
    ignored,     \* the names that .gitignore or .sorbignore lists
    frames,      \* the directories the walk is in, each with what is left of its listing
    seen,        \* the directories that it entered, by device and inode
    entry,       \* what the walk yielded last, until it is read
    readings,    \* the entries and what was read of them
    changed,     \* the paths that changed during the walk
    stage,       \* "before", "walking" or "done"
    catalogers,  \* the catalogers in the order of registration, a matcher each
    index,       \* the candidate tables of dispatch, and the catalogers when they were built
    offered      \* a file, what it was offered to, and the catalogers there were then
treeVars == <<tree, ignored, frames, seen, entry, readings, changed, stage, catalogers, index, offered>>

File(readable) == [kind |-> "file", to |-> << >>, readable |-> readable]
Directory(readable) == [kind |-> "dir", to |-> << >>, readable |-> readable]
Link(to) == [kind |-> "link", to |-> to, readable |-> TRUE]
\* A directory that is another one as well: a bind mount, or a junction.  It leads
\* to the root, or to a directory that is listed before it.
Mount(to) == [kind |-> "mount", to |-> to, readable |-> TRUE]
Outside == <<"outside">>
Nowhere == <<"nowhere">>

\* "nfd" is the name "nfc" in its decomposed spelling.
Nfc(name) == IF name = "nfd" THEN "nfc" ELSE name
Sorted == <<"code", "git", "modules", "nfc", "nfd", "pkg">>
ASSUME PlacesAreNamed == \A p \in Places : p # << >> /\ p \in Seq(Range(Sorted))
SkipDirs == {"git"}
InstallDir(path) == \E i \in DOMAIN path : path[i] = "modules"
Ignored(path) == \E i \in DOMAIN path : path[i] \in ignored
Excluded(path) == Ignored(path) /\ ~InstallDir(path)

\* Where a path leads in the file system, and what is read there.
Mounted(place) == IF place \in DOMAIN tree /\ tree[place].kind = "mount" THEN tree[place].to ELSE place
At(path) ==
    LET at[i \in 0 .. Len(path)] == IF i = 0 THEN << >> ELSE Mounted(Append(at[i - 1], path[i]))
    IN  at[Len(path)]
IsDir(place) == place = << >> \/ (place \in DOMAIN tree /\ tree[place].kind = "dir")
IsReadable(place) == place = << >> \/ tree[place].readable
IsFile(place) == place \in DOMAIN tree /\ tree[place].kind = "file"
LinkTarget(place) == IF place \in DOMAIN tree /\ tree[place].kind = "link" THEN tree[place].to ELSE place
Content(path) ==
    LET place == LinkTarget(At(path))
    IN  IF place = Outside THEN Outside ELSE IF IsFile(place) /\ tree[place].readable THEN place ELSE Nowhere
\* What os.scandir gives, sorted: of each name that is there, its kind.
Listing(place) ==
    [i \in {k \in DOMAIN Sorted : Append(place, Sorted[k]) \in DOMAIN tree} |-> tree[Append(place, Sorted[i])].kind]
Frame(rel, raw, left) == [rel |-> rel, raw |-> raw, left |-> left]
----------------------------------------------------------------------------
(* Others change the tree *)

TreeInit ==
    /\ tree = [p \in {} |-> 0] /\ ignored \in {{}, {"code", "modules", "pkg"}}
    /\ frames = << >> /\ seen = {} /\ entry = << >> /\ readings = << >> /\ changed = {} /\ stage = "before"
    /\ catalogers = << >> /\ index = [size |-> 0, of |-> {}] /\ offered = << >>

MayChange == IF stage = "before" THEN Cardinality(DOMAIN tree) < MaxNodes
             ELSE stage = "walking" /\ Cardinality(changed) < MaxChanges
Noted(places) == IF stage = "walking" THEN changed \cup places ELSE changed

Create(place, node) ==
    /\ MayChange /\ catalogers = << >> /\ place \notin DOMAIN tree /\ IsDir(Front(place))
    /\ stage = "walking" => node.kind \in {"file", "dir"} /\ node.readable
    /\ tree' = [p \in DOMAIN tree \cup {place} |-> IF p = place THEN node ELSE tree[p]]
    /\ changed' = Noted({place})
    /\ UNCHANGED <<ignored, frames, seen, entry, readings, stage, catalogers, index, offered>>
TakeAway(place) ==
    /\ stage = "walking" /\ MayChange /\ place \in DOMAIN tree
    /\ tree' = [p \in {q \in DOMAIN tree : ~IsPrefix(place, q)} |-> tree[p]]
    /\ changed' = Noted({place})
    /\ UNCHANGED <<ignored, frames, seen, entry, readings, stage, catalogers, index, offered>>
----------------------------------------------------------------------------
(* DirSource.walk and the loop of _run_dir_scan *)

\* Mutant: a directory is known by its path.
ByPath(path) == path
ByInode(path) == At(path)

\* _walk_dir on a directory: one that is gone, that was seen or that cannot be
\* listed yields nothing.
Enter(rel, raw, rest) ==
    LET place == At(raw)
        lists == IsDir(place) /\ ByInode(raw) \notin seen /\ IsReadable(place)
    IN  /\ seen' = IF IsDir(place) THEN seen \cup {ByInode(raw)} ELSE seen
        /\ frames' = IF lists /\ DOMAIN Listing(place) # {} THEN Append(rest, Frame(rel, raw, Listing(place))) ELSE rest
        /\ UNCHANGED entry
Report(rel, raw) == entry' = <<rel, raw>>
Pass == UNCHANGED entry

BeginWalk ==
    /\ stage = "before" /\ catalogers = << >> /\ stage' = "walking"
    /\ Enter(<< >>, << >>, << >>)
    /\ UNCHANGED <<tree, ignored, readings, changed, catalogers, index, offered>>

\* One child, of the kind that the listing gave it.  A link that leads to no file
\* of the tree is recorded, whatever is ignored.
VisitChild ==
    LET top == Last(frames)
        next == Min(DOMAIN top.left)
        later == DOMAIN top.left \ {next}
        name == Sorted[next]
        kind == top.left[next]
        rel == Append(top.rel, Nfc(name))
        raw == Append(top.raw, name)
        rest == IF later = {} THEN Front(frames)
                ELSE Append(Front(frames), Frame(top.rel, top.raw, [i \in later |-> top.left[i]]))
        inside == IsFile(LinkTarget(At(raw)))
    IN  /\ stage = "walking" /\ frames # << >> /\ entry = << >>
        /\ IF kind \in {"dir", "mount"}
           THEN IF name \in SkipDirs \/ Excluded(rel) THEN frames' = rest /\ Pass /\ UNCHANGED seen
                ELSE Enter(rel, raw, rest)
           ELSE /\ frames' = rest /\ UNCHANGED seen
                /\ IF (kind = "link" /\ ~inside) \/ ~(Excluded(rel) \/ Content(raw) = Nowhere)
                   THEN Report(rel, raw) ELSE Pass
        /\ UNCHANGED <<tree, ignored, readings, changed, stage, catalogers, index, offered>>

\* source.open on the path that was reported; an OSError is a gap.
ReadEntry ==
    /\ entry # << >>
    /\ readings' = Append(readings, [path |-> entry[1], place |-> At(entry[2]), got |-> Content(entry[1])])
    /\ entry' = << >>
    /\ UNCHANGED <<tree, ignored, frames, seen, changed, stage, catalogers, index, offered>>

Finish ==
    /\ stage = "walking" /\ frames = << >> /\ entry = << >> /\ stage' = "done"
    /\ UNCHANGED <<tree, ignored, frames, seen, entry, readings, changed, catalogers, index, offered>>
----------------------------------------------------------------------------
(* dispatch: a matcher asks for a directory, a stem, an extension and the first
   bytes, or for any *)

Anything == "any"
Bare == "bare"
Fits(wanted, is) == wanted = Anything \/ wanted = is
Matches(m, f) == Fits(m.dir, f.dir) /\ Fits(m.stem, f.stem) /\ Fits(m.ext, f.ext) /\ Fits(m.magic, f.magic)

\* _required_name: the exact name, or the extension, that a matcher asks for
RequiredName(m) ==
    CASE m.stem # Anything /\ m.ext # Anything -> <<"exact", m.stem, m.ext>>
      [] m.stem = Anything /\ m.ext \notin {Anything, Bare} -> <<"extension", m.ext>>
      [] OTHER -> <<"rest">>
Buckets3(f) == {<<"exact", f.stem, f.ext>>, <<"extension", f.ext>>, <<"rest">>}

\* register: an id that is known is not added again
Register(m) ==
    /\ stage = "before" /\ tree = << >> /\ ignored = {} /\ Len(catalogers) < 2
    /\ catalogers' = IF m \in Range(catalogers) THEN catalogers ELSE Append(catalogers, m)
    /\ offered' = << >>
    /\ UNCHANGED <<tree, ignored, frames, seen, entry, readings, changed, stage, index>>

Dispatch(f) ==
    /\ catalogers # << >>
    /\ index' = IF index.size = Len(catalogers) THEN index ELSE [size |-> Len(catalogers), of |-> Range(catalogers)]
    /\ offered' = <<f, {m \in index'.of : RequiredName(m) \in Buckets3(f) /\ Matches(m, f)}, Range(catalogers)>>
    /\ UNCHANGED <<tree, ignored, frames, seen, entry, readings, changed, stage, catalogers>>

FileNames == [dir : {"d", "e"}, stem : {"s", "t"}, ext : {Bare, "x"}, magic : {"zip", "text"}]
Matchers ==
    {[dir |-> d, stem |-> s, ext |-> x, magic |-> g] :
       d \in {Anything, "d"}, s \in {Anything, "s"}, x \in {Anything, Bare, "x"}, g \in {Anything, "zip"}}
      \ [dir : {Anything, "d"}, stem : {Anything}, ext : {Bare}, magic : {Anything, "zip"}]

Nodes(place) ==
    IF Last(place) \in SkipDirs THEN {Directory(TRUE)}
    ELSE IF Last(place) \in {"code", "modules"}
    THEN {Directory(r) : r \in BOOLEAN} \cup {Mount(p) : p \in {<< >>, <<"code">>} \ {place}}
    ELSE {File(r) : r \in BOOLEAN} \cup {Link(Outside), Link(<<"pkg">>), Link(<<"code">>)}

TreeNext ==
    \/ \E place \in Places : (\E node \in Nodes(place) : Create(place, node)) \/ TakeAway(place)
    \/ BeginWalk \/ VisitChild \/ ReadEntry \/ Finish
    \/ \E m \in Matchers : Register(m)
    \/ \E f \in FileNames : Dispatch(f)

TreeSpec == TreeInit /\ [][TreeNext]_treeVars
----------------------------------------------------------------------------
(* Properties *)

Steady(place) == \A p \in changed : ~IsPrefix(p, place)
NoMounts == \A p \in DOMAIN tree : tree[p].kind # "mount"
\* The walk may be expected at a file: its directories can be listed, none is
\* skipped, and the path is not ignored outside an install directory.
Walkable(place) ==
    LET above == {SubSeq(place, 1, i) : i \in 1 .. Len(place) - 1}
    IN  /\ IsFile(place) /\ tree[place].readable
        /\ \A dir \in above : IsDir(dir) /\ IsReadable(dir) /\ Last(dir) \notin SkipDirs
        /\ \A p \in above \cup {place} : ~Excluded([i \in DOMAIN p |-> Nfc(p[i])])

\* Whatever changes meanwhile, a walk comes to no file twice, however many names
\* its directory has; and when it is over, every file that stood there throughout,
\* can be read and is not ignored was read, unless its name is decomposed (it is
\* then asked for under another name).  What is reported as a gap changed, has such
\* a name or is a link that leads nowhere.  (What cannot be read is left out.)
TreeIsAccountedFor ==
    /\ \A i, j \in DOMAIN readings : readings[i].place = readings[j].place => i = j
    /\ stage = "done" =>
         \A place \in DOMAIN tree :
            (Walkable(place) /\ Steady(place) /\ (NoMounts \/ (ignored = {} /\ changed = {}))) =>
               \E i \in DOMAIN readings : readings[i].place = place /\ (Last(place) = "nfd" \/ readings[i].got = place)
    /\ \A i \in DOMAIN readings :
         readings[i].got = Nowhere =>
            changed # {} \/ Last(readings[i].place) = "nfd" \/ tree[readings[i].place].kind = "link"

\* The tables only save work: a file is offered to every cataloger registered by
\* then whose matcher accepts it.
DispatchMissesNothing ==
    offered # << >> => offered[2] = {m \in offered[3] : Matches(m, offered[1])}

\* A scan of a directory overlooks no file and no cataloger for it.
NothingIsOverlooked == TreeIsAccountedFor /\ DispatchMissesNothing
=============================================================================
