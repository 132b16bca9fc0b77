------------------------------- MODULE MCScan -------------------------------
(* What one scan does with the files it meets and whom it tells: the stream of
   its progress (EventStream), the tree it walks (SourceTrees), the archives in
   it (Archives), the lock files it reads back (Lockfiles), the manifests beside
   them (Declarations), the poms of a Maven project (MavenPoms), the databases of
   installed packages (SystemPackages), what the resolvers select (Resolvers) and
   a run of the build tool (NativeRun).  They share no state: a behaviour explores
   one of them. *)
EXTENDS EventStream, SourceTrees, Archives, Lockfiles, Declarations, MavenPoms, SystemPackages,
        Resolvers, NativeRun, TLC

VARIABLE explored

\* Scan threads and connections are interchangeable.
Symmetry == Permutations(Producers) \cup Permutations(Connections)

\* Two versions of one package and one of another.
Name(n) == Family("eco", None, n)
TwoPackages == {<<Name("a"), 1>>, <<Name("a"), 2>>, <<Name("b"), 1>>}
\* What is published: two versions of one package, and two others.
PublishedPackages == {<<"a", 1>>, <<"a", 2>>, <<"b", 1>>, <<"c", 1>>}

\* Files of every name at the root, one in each directory that is walked, and a
\* directory two levels down.
TreePlaces ==
    {<<n>> : n \in {"code", "git", "modules", "nfc", "nfd", "pkg"}}
      \cup {<<d, "pkg">> : d \in {"code", "modules"}}
      \cup {<<"code", "modules">>, <<"code", "modules", "pkg">>}

\* The parts that a behaviour does not explore keep one idle state.
ScanInit ==
    /\ explored \in {"events", "tree", "archives", "locks", "manifests", "poms", "system", "resolvers", "native"}
    /\ Init /\ LockInit /\ DeclInit
    /\ TreeInit /\ (explored # "tree" => ignored = {})
    /\ ArchiveInit /\ (explored # "archives" => container = "tar")
    /\ PomInit /\ (explored # "poms" => poms = Drawn(<<Property("p"), "found">>, NoDependency))
    /\ OsInit /\ (explored # "system" => db = "apk" /\ named)
    /\ ResolveInit /\ (explored # "resolvers" => tool = "npm")
    /\ IF explored = "native" THEN NativeInit
       ELSE host = << >> /\ options = << >> /\ NativeStart

scanVars == <<vars, treeVars, archiveVars, lockVars, declVars, pomVars, osVars, resolveVars, nativeVars>>
ScanNext ==
    /\ UNCHANGED explored
    /\ \/ explored = "events" /\ Next
          /\ UNCHANGED <<treeVars, archiveVars, lockVars, declVars, pomVars, osVars, resolveVars, nativeVars>>
       \/ explored = "tree" /\ TreeNext
          /\ UNCHANGED <<vars, archiveVars, lockVars, declVars, pomVars, osVars, resolveVars, nativeVars>>
       \/ explored = "archives" /\ ArchiveNext
          /\ UNCHANGED <<vars, treeVars, lockVars, declVars, pomVars, osVars, resolveVars, nativeVars>>
       \/ explored = "locks" /\ LockNext
          /\ UNCHANGED <<vars, treeVars, archiveVars, declVars, pomVars, osVars, resolveVars, nativeVars>>
       \/ explored = "manifests" /\ DeclNext
          /\ UNCHANGED <<vars, treeVars, archiveVars, lockVars, pomVars, osVars, resolveVars, nativeVars>>
       \/ explored = "poms" /\ PomNext
          /\ UNCHANGED <<vars, treeVars, archiveVars, lockVars, declVars, osVars, resolveVars, nativeVars>>
       \/ explored = "system" /\ OsNext
          /\ UNCHANGED <<vars, treeVars, archiveVars, lockVars, declVars, pomVars, resolveVars, nativeVars>>
       \/ explored = "resolvers" /\ ResolveNext
          /\ UNCHANGED <<vars, treeVars, archiveVars, lockVars, declVars, pomVars, osVars, nativeVars>>
       \/ explored = "native" /\ NativeNext
          /\ UNCHANGED <<vars, treeVars, archiveVars, lockVars, declVars, pomVars, osVars, resolveVars>>

ScanSpec == ScanInit /\ [][ScanNext]_<<scanVars, explored>>

\* A manifest means what the lock file beside it says was chosen for it, and a pom
\* what the poms around it make of it.
ManifestsAreUnderstood == ManifestMeetsLock /\ PomsAreEffective
=============================================================================
