------------------------------ MODULE Archives ------------------------------
(* Files inside files: the members of a tar or zip archive as a source
   (source/archive.py), and a jar with jars in it (JarCataloger of
   catalogers/jvm_gradle.py).  An archive is put together, then read. *)
EXTENDS Naturals, SequencesExt

CONSTANTS
    MaxMembers,   \* members of an archive, and jars in a jar
    MaxSize       \* max_member_bytes
ASSUME SizesAreNumbers == MaxSize \in Nat

VARIABLES
    container,    \* "tar", "zip" or "jar"
    packed,       \* tar, zip: the members in order
    answers,      \* tar, zip: what open said of each path
    outer,        \* jar: the jar itself
    inner,        \* jar: the jars under its lib directory, in order
    report        \* jar: what the cataloger reported
archiveVars == <<container, packed, answers, outer, inner, report>>

Unread == << >>
ArchiveInit ==
    /\ container \in {"tar", "zip", "jar"}
    /\ packed = << >> /\ answers = Unread /\ outer = << >> /\ inner = << >> /\ report = Unread
----------------------------------------------------------------------------
(* source/archive.py *)

\* A member as it is stored: its name may be spelled in another way ("./x") or
\* lead out of the archive; a header may say another size than the data has.
Spellings == {"plain", "dotted", "escaping"}
Member(path, spelling, kind, says, size) ==
    [path |-> path, spelling |-> spelling, kind |-> kind, says |-> says, size |-> size]
PathNames == {"x", "y"}
TarMembers ==
    {Member(p, s, "file", n, n) : p \in PathNames, s \in Spellings, n \in 0 .. MaxSize + 1}
      \cup {Member(p, "plain", k, 0, 0) : p \in PathNames, k \in {"symlink", "hardlink"}}
ZipMembers ==
    {Member(p, s, "file", n, m) : p \in PathNames, s \in Spellings, n \in 0 .. MaxSize + 1, m \in 0 .. MaxSize + 1}

Store(m) ==
    /\ answers = Unread /\ Len(packed) < MaxMembers
    /\ m \in CASE container = "tar" -> TarMembers [] container = "zip" -> ZipMembers [] container = "jar" -> {}
    /\ packed' = Append(packed, m)
    /\ UNCHANGED <<container, answers, outer, inner, report>>

\* _index_tar and _index_zip: what escapes is dropped, the last of a path stays.
Indexed == {i \in DOMAIN packed : packed[i].spelling # "escaping"}
Named(path) == {i \in Indexed : packed[i].path = path}
Spelled(path, spelling) == {i \in Named(path) : packed[i].spelling = spelling}
Latest(places) == packed[Max(places)]
MemberPaths == {packed[i].path : i \in Indexed}
\* What a hard link leads to: the last member of the other path before it.
Linked(path) == {i \in Indexed \ Named(path) : i < Max(Named(path))}

\* The data that zipfile and tarfile find: a zip is asked for the plain name if
\* there is one, and for the first spelling of it if there is none.
Data(path) ==
    LET last == Latest(Named(path))
        first == packed[Min(Named(path))].spelling
    IN  IF container = "zip" THEN Latest(Spelled(path, IF Spelled(path, "plain") # {} THEN "plain" ELSE first))
        ELSE IF last.kind = "hardlink" /\ Linked(path) # {} THEN Latest(Linked(path)) ELSE last

Missing == [answer |-> "missing", data |-> 0]
Refused == [answer |-> "refused", data |-> 0]
Bytes(n) == [answer |-> "bytes", data |-> n]
\* Mutant: what the header says is not compared with what is read.
OpenMemberTrusting(path) ==
    IF path \notin MemberPaths THEN Missing ELSE
    LET said == Latest(Named(path)) IN IF said.kind = "symlink" THEN Bytes(0) ELSE Bytes(Data(path).size)
\* open and _read_member: a symbolic link reads as empty; more than the budget, or
\* than the index said (0 for a hard link), is refused.
OpenMember(path) ==
    IF path \notin MemberPaths THEN Missing ELSE
    LET said == Latest(Named(path)).says
        data == Data(path)
    IN  IF Latest(Named(path)).kind = "symlink" THEN Bytes(0)
        ELSE IF said > MaxSize THEN Refused
        ELSE IF data.kind # "file" THEN Missing
        ELSE IF data.size > said \/ data.size > data.says THEN Refused ELSE Bytes(data.size)

OpenAll ==
    /\ packed # << >> /\ answers = Unread
    /\ answers' = [p \in PathNames |-> OpenMember(p)]
    /\ UNCHANGED <<container, packed, outer, inner, report>>
----------------------------------------------------------------------------
(* JarCataloger *)

\* A jar: the pom.properties in it (its own, that of a library shaded into it),
\* whether its manifest names it, and loose classes.  A jar in a jar may not be an
\* archive, or hold a member that is refused.
JarOf(poms, manifest, loose, opens) == [poms |-> poms, manifest |-> manifest, loose |-> loose, opens |-> opens]
Jars == {JarOf(p, m, l, o) : p \in SUBSET {"own", "shaded"}, m \in BOOLEAN, l \in BOOLEAN, o \in {"well", "refused", "broken"}}

PutJar(j) ==
    /\ container = "jar" /\ outer = << >> /\ j.opens = "well"
    /\ outer' = j
    /\ UNCHANGED <<container, packed, answers, inner, report>>
PutInner(j) ==
    /\ container = "jar" /\ outer # << >> /\ report = Unread /\ Len(inner) < MaxMembers
    /\ inner' = Append(inner, j)
    /\ UNCHANGED <<container, packed, answers, outer, report>>

\* What a jar at a place (0 for the outer one) is: the pom of its file name, for
\* the outer one also the only pom there is, or else what the manifest says.
Nobody == <<"nobody">>
Shaded == <<"shaded">>
Identity(j, place) ==
    IF "own" \in j.poms THEN <<"pom", place>>
    ELSE IF j.poms = {"shaded"} /\ place = 0 THEN Shaded
    ELSE IF j.manifest THEN <<"manifest", place>> ELSE Nobody

Reports(components, contains, notes, gap) ==
    [components |-> components, contains |-> contains, notes |-> notes, gap |-> gap]
\* _analyse without the jars inside: the identity, and the shaded library.
Analysed(j, place, holder) ==
    LET self == Identity(j, place)
        rest == IF "shaded" \in j.poms THEN {Shaded} \ {self} ELSE {}
        under(h, set) == IF h = Nobody THEN {} ELSE {h} \X set
        known == {self} \ {Nobody}
    IN  Reports(known \cup rest, under(holder, known) \cup under(IF self = Nobody THEN holder ELSE self, rest), {}, FALSE)
LooseClasses(j, place) == Identity(j, place) # Nobody /\ j.loose /\ j.poms = {}

\* One jar of the library directory after the other; a member that is refused
\* inside one of them ends the parse, what was yielded before stays.
WithInner(so_far, place) ==
    LET j == inner[place]
        within == Analysed(j, place, Identity(outer, 0))
    IN  IF so_far.gap THEN so_far
        ELSE IF j.opens = "broken" THEN Reports(so_far.components, so_far.contains, so_far.notes, TRUE)
        ELSE IF j.opens = "refused" \/ within.components = {}
        THEN Reports(so_far.components, so_far.contains, so_far.notes \cup {place}, FALSE)
        ELSE Reports(so_far.components \cup within.components, so_far.contains \cup within.contains, so_far.notes, FALSE)
\* The annotation on what was not identified hangs on the jar's own identity.
JarFindings ==
    LET whole == FoldLeft(WithInner, Analysed(outer, 0, Nobody), [i \in DOMAIN inner |-> i])
    IN  IF whole.gap \/ Identity(outer, 0) = Nobody THEN [whole EXCEPT !.notes = {}]
        ELSE IF whole.notes = {} /\ LooseClasses(outer, 0) THEN [whole EXCEPT !.notes = {0}] ELSE whole

CatalogJar ==
    /\ outer # << >> /\ report = Unread
    /\ report' = JarFindings
    /\ UNCHANGED <<container, packed, answers, outer, inner>>

ArchiveNext ==
    \/ \E m \in TarMembers \cup ZipMembers : Store(m)
    \/ OpenAll
    \/ \E j \in Jars : PutJar(j) \/ PutInner(j)
    \/ CatalogJar

ArchiveSpec == ArchiveInit /\ [][ArchiveNext]_archiveVars
----------------------------------------------------------------------------
(* Properties *)

\* What is read under a path is at most as long as the index and the budget allow,
\* and is the whole of a member of that path: in a tar of the last one, in a zip of
\* one that is stored under that very name if there is such.  A link counts as
\* empty: what it leads to is refused or not read, unless it is empty as well.
MembersAreReadWhole ==
    answers # Unread =>
      \A p \in PathNames :
        LET all == {packed[i] : i \in Named(p)}
        IN  /\ answers[p].answer = "bytes" =>
                 /\ p \in MemberPaths /\ answers[p].data <= Latest(Named(p)).says /\ answers[p].data <= MaxSize
                 /\ \/ \E m \in all : m.kind = "file" /\ m.size = answers[p].data
                    \/ Latest(Named(p)).kind # "file" /\ answers[p].data = 0
                 /\ (container = "tar" /\ Latest(Named(p)).kind = "file") => answers[p].data = Latest(Named(p)).size
            /\ (container = "tar" /\ p \in MemberPaths /\ Latest(Named(p)).kind = "file" /\ Latest(Named(p)).size <= MaxSize)
                  => answers[p].answer = "bytes"

\* A jar that could be parsed accounts for every jar inside: it is a component, or
\* it is named as unidentified (a note of five names at most); only when the outer
\* jar is nobody is there no one to carry the note.  What is in a jar with an
\* identity is contained in it, and what was found before a jar inside broke the
\* parse is still reported.
JarsAreAccountedFor ==
    report # Unread =>
      LET self == Identity(outer, 0)
          before == {i \in DOMAIN inner : \A k \in 1 .. i : inner[k].opens # "broken"}
          within(i) == IF inner[i].opens = "well" THEN Analysed(inner[i], i, Nobody).components ELSE {}
          below == {e[2] : e \in {d \in report.contains : d[1] = self}}
          deeper == below \cup {e[2] : e \in {d \in report.contains : d[1] \in below}}
      IN  /\ \A i \in before : within(i) \subseteq report.components
          /\ report.gap <=> before # DOMAIN inner
          /\ ~report.gap => \A i \in DOMAIN inner : within(i) # {} \/ i \in report.notes \/ self = Nobody
          /\ self # Nobody => report.components \subseteq deeper \cup {self}
          /\ \A e \in report.contains : e[1] \in report.components /\ e[2] \in report.components

\* What is inside a file is read as it is stored, or the scan says that it is not.
ArchivesAreAccountedFor == MembersAreReadWhole /\ JarsAreAccountedFor
=============================================================================
