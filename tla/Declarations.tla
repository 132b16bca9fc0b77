---------------------------- MODULE Declarations ----------------------------
(* The catalogers of hand-written manifests, and of the lock files and install
   databases beside them: dsl_manifests.py, cpp_build.py, cpp_vcpkg.py,
   longtail.py, jvm_gradle.py, dotnet.py, ruby_php.py, and setup.py of
   python.py, and the answer of a Python build backend.  A line of a manifest
   requires a name; the tool chose a version for it, which the lock file lists.
   The two are read and reconciled. *)
EXTENDS Findings

CONSTANTS PkgNames, MaxLines, MaxTables

VARIABLES
    manifest,   \* the format of the manifest, None before it is chosen
    lines,      \* its requirements, in order
    tables,     \* what it inherits versions from: directory -> name -> requirement
    chosen,     \* the version the tool chose for a name
    read        \* what the catalogers found

declVars == <<manifest, lines, tables, chosen, read>>

\* How a requirement says which version it wants.  A "least" looks like a
\* version and means that one or a later one; "computed" is no literal at all.
Req(how, ver) == [how |-> how, ver |-> ver]
Reqs == {Req(how, v) : how \in {"exact", "least"}, v \in Version} \cup {Req(how, 0) : how \in {"range", "bare", "computed", "inherited"}}
Line(name, req, part, origin) == [name |-> name, req |-> req, part |-> part, origin |-> origin]

Written == {lines[i] : i \in DOMAIN lines}
\* The first line of each name among those that a pattern matches.
FirstOf(matches(_)) ==
    {lines[i] : i \in {j \in DOMAIN lines : matches(lines[j]) /\ \A k \in 1 .. j - 1 :
                                              matches(lines[k]) => lines[k].name # lines[j].name}}
LastOf(matches(_)) ==
    {lines[i] : i \in {j \in DOMAIN lines : matches(lines[j]) /\ \A k \in j + 1 .. Len(lines) :
                                              matches(lines[k]) => lines[k].name # lines[j].name}}
Each(set, findings(_)) ==
    Found(UNION {findings(l).claims : l \in set}, UNION {findings(l).edges : l \in set})

\* One declared dependency, with or without a version.
Pinned(family, l, tier, scope) ==
    Found({Claim(<<family, l.req.ver>>, tier, {})}, {DirectEdge(Root, RefPurl(<<family, l.req.ver>>), scope)})
Requested(family, tier, scope) ==
    Found({Claim(<<family, 0>>, tier, {})}, {DirectEdge(Root, RefFamily(family), scope)})
EmitLine(family, l, versions, scope) ==
    IF l.req.how \in versions THEN Pinned(family, l, Tier.DECLARED, scope)
    ELSE Requested(family, Tier.DECLARED, scope)
Of(eco, l) == Family(eco, None, l.name)
WithoutEdges(found) == Found(found.claims, {})
IsLiteral(l) == l.req.how # "computed"
----------------------------------------------------------------------------
(* dsl_manifests.py *)

PackageSwift ==
    Each(FirstOf(LAMBDA l : IsLiteral(l) /\ l.origin = "git"), LAMBDA l : EmitLine(Family("swift", "owner", l.name), l, {"exact"}, "runtime"))
BuildSbt == Each(FirstOf(IsLiteral), LAMBDA l : EmitLine(Family("maven", "group", l.name), l, {"exact", "least"}, "runtime"))
\* An entry without a version does not match.
BazelModule == Each(FirstOf(LAMBDA l : l.req.how = "least"), LAMBDA l : EmitLine(Of("bazel", l), l, {"least"}, "runtime"))
ClojureDeps == Each(FirstOf(LAMBDA l : l.origin = "registry"), LAMBDA l : EmitLine(Family("maven", "group", l.name), l, {"exact", "least"}, "runtime"))
Opam == Each(Written, LAMBDA l : EmitLine(Of("opam", l), l, {"exact"}, "runtime"))
Dune == Each(Written, LAMBDA l : EmitLine(Of("opam", l), l, {}, "runtime"))
TestScope(l) == IF l.part = "test" THEN "test" ELSE "runtime"
Cpanfile == Each(Written, LAMBDA l : EmitLine(Of("cpan", l), l, {}, TestScope(l)))
\* Of the kinds of prerequisite only "requires" is read.
PerlMeta == Each({l \in Written : l.part # "feature"}, LAMBDA l : EmitLine(Of("cpan", l), l, {}, TestScope(l)))
Rockspec == Each({l \in Written : IsLiteral(l)}, LAMBDA l : EmitLine(Of("luarocks", l), l, {}, "runtime"))
----------------------------------------------------------------------------
(* cpp_build.py, cpp_vcpkg.py *)

\* A range in brackets is not a reference.
ConanTxt ==
    Each({l \in Written : l.req.how = "exact"},
         LAMBDA l : EmitLine(Of("conan", l), l, {"exact"}, IF l.part = "build" THEN "build" ELSE "runtime"))
ConanPy == Each(LastOf(LAMBDA l : l.req.how = "exact"), LAMBDA l : EmitLine(Of("conan", l), l, {"exact"}, "runtime"))

\* find_package: a claim with a version is of another family than one without,
\* and the edge leads to a third.
FindPackage(l) ==
    Found({Claim(<<Family("cmake", IF l.req.ver = 0 THEN "cmake" ELSE "generic", l.name), l.req.ver>>, Tier.INFERRED, {})},
          {DirectEdge(Root, RefFamily(Of("generic", l)), "runtime")})
\* FetchContent, CPM: a commit is locked; a tag that is no version is only a name.
FetchContent(l) ==
    CASE l.req.how = "exact" -> Pinned(Of("github", l), l, Tier.LOCKED, "runtime")
      [] l.req.how = "least" -> Pinned(Of("github", l), l, Tier.DECLARED, "runtime")
      [] OTHER -> Requested(Of("github", l), Tier.DECLARED, "runtime")
CMakeLists == Each(Written, LAMBDA l : IF l.origin = "git" THEN FetchContent(l) ELSE FindPackage(l))
LinkedLibraries(eco) == Each(FirstOf(LAMBDA l : TRUE), LAMBDA l : WithoutEdges(Requested(Of(eco, l), Tier.INFERRED, "runtime")))
CMakeFileApi == LinkedLibraries("cmake")
Makefile == LinkedLibraries("c")
MesonWrap == Each(Written, LAMBDA l : WithoutEdges(Pinned(Of("meson", l), l, Tier.LOCKED, "runtime")))
\* A submodule whose commit cannot be read is known by its address alone.
Gitmodules ==
    Each(Written, LAMBDA l : WithoutEdges(IF l.req.how = "exact" THEN Pinned(Of("github", l), l, Tier.LOCKED, "runtime")
                                          ELSE Requested(Of("github", l), Tier.DECLARED, "runtime")))

\* An override counts before the line's own minimum.
VcpkgManifest ==
    LET override == IF "near" \in DOMAIN tables THEN tables["near"] ELSE << >>
        settled(l) == IF l.name \in DOMAIN override THEN [l EXCEPT !.req = override[l.name]] ELSE l
        scope(l) == IF l.part = "feature" THEN "optional" ELSE "runtime"
    IN  Each(Written, LAMBDA l : IF settled(l).req.ver # 0 THEN Pinned(Of("vcpkg", l), settled(l), Tier.LOCKED, scope(l))
                                 ELSE Requested(Of("vcpkg", l), Tier.DECLARED, scope(l)))
----------------------------------------------------------------------------
(* longtail.py, dotnet.py, jvm_gradle.py, setup.py *)

ZigZon == Each(Written, LAMBDA l : WithoutEdges(IF l.req.how = "exact" THEN Pinned(Of("zig", l), l, Tier.LOCKED, "runtime")
                                                ELSE Requested(Of("zig", l), Tier.LOCKED, "runtime")))

\* The nearest table there is, whether it has the name or not.
Nearest(name) ==
    LET dirs == DOMAIN tables
        table == IF dirs = {} THEN << >> ELSE IF "near" \in dirs THEN tables["near"] ELSE tables["root"]
    IN  IF name \in DOMAIN table THEN table[name] ELSE Req("bare", 0)
Inheriting(l) == IF l.req.how = "inherited" THEN [l EXCEPT !.req = Nearest(l.name)] ELSE l
CargoScope(l) == IF l.part = "test" THEN "dev" ELSE l.part
\* Mutant: a bare version string is taken for the version.
CargoLiteral == Each(Written, LAMBDA l : EmitLine(Of("cargo", l), Inheriting(l), {"exact", "least"}, CargoScope(l)))
CargoToml == Each(Written, LAMBDA l : EmitLine(Of("cargo", l), Inheriting(l), {"exact"}, CargoScope(l)))
CondaEnvironment == Each(Written, LAMBDA l : EmitLine(Of(IF l.part = "feature" THEN "pypi" ELSE "conda", l), l, {"exact"}, "runtime"))
\* What has the characters of a version is one; an exact range is not.
Csproj == Each(Written, LAMBDA l : EmitLine(Of("nuget", l), Inheriting(l), {"least"}, "runtime"))
\* A library of a version catalog without a plain version is left out.
GradleCatalog ==
    Each({l \in Written : Inheriting(l).req.how = "least"},
         LAMBDA l : WithoutEdges(Pinned(Family("maven", "group", l.name), Inheriting(l), Tier.DECLARED, "runtime")))
\* The family of an unversioned Maven claim has the group in it twice.
GradleFamily(l) == Family("maven", IF l.req.how = "least" THEN "group" ELSE "group twice", l.name)
GradleBuild ==
    Each({l \in Written : IsLiteral(l)},
         LAMBDA l : IF l.req.how = "least" THEN Pinned(GradleFamily(l), l, Tier.DECLARED, TestScope(l))
                    ELSE Found({Declared(GradleFamily(l))}, {DirectEdge(Root, RefClaim(GradleFamily(l)), TestScope(l))}))
\* One element that is no literal hides the whole list.
SetupPy ==
    IF \A l \in Written : IsLiteral(l) THEN Each(Written, LAMBDA l : EmitLine(Of("pypi", l), l, {}, "runtime")) ELSE Nothing
\* What a build backend says of its project (--resolve=native): whatever it asks
\* for counts as locked, and what an extra asks for as needed.
Pep517 ==
    Each(Written, LAMBDA l : IF l.req.how = "exact" THEN Pinned(Of("pypi", l), l, Tier.LOCKED, "runtime")
                             ELSE Found({Claim(<<Of("pypi", l), 0>>, Tier.LOCKED, {})}, {DirectEdge(Root, RefClaim(Of("pypi", l)), "runtime")}))
----------------------------------------------------------------------------
(* Lock files and install databases *)

\* Lists of exact entries, without a graph.
Pins(eco, matching) == Each(matching, LAMBDA l : WithoutEdges(Pinned(Of(eco, l), l, Tier.LOCKED, "runtime")))
PkgConfig == Each(Written, LAMBDA l : WithoutEdges(Pinned(Of("pkg-config", l), l, Tier.INSTALLED, "runtime")))
MixLock == Pins("hex", Written)
StackLock == Pins("hackage", {l \in Written : l.origin = "registry"})
CabalFreeze == Pins("hackage", Written)
CartfileResolved == Pins("carthage", Written)

Chosen(family(_), tier) == Found({Claim(<<family(n), chosen[n]>>, tier, {}) : n \in DOMAIN chosen}, {})
\* The host is part of the namespace here and not in Package.swift.
PackageResolved == Chosen(LAMBDA n : Family("swift", "host and owner", n), Tier.LOCKED)
ConanLock == Chosen(LAMBDA n : Family("conan", None, n), Tier.LOCKED)
\* Every configuration that has an artifact is listed; test comes first.
GradleLockfile ==
    LET scopes(n) == {l.part : l \in {k \in Written : k.name = n}}
        scope(n) == IF "test" \in scopes(n) THEN "test" ELSE IF "build" \in scopes(n) THEN "build" ELSE "runtime"
        listed == Chosen(LAMBDA n : Family("maven", "group", n), Tier.LOCKED)
    IN  Found(listed.claims, {Edge(RefProject(Root), RefPurl(<<c.name, c.ver>>), scope(c.name.name), FALSE) : c \in listed.claims})
GradleVerification == Chosen(LAMBDA n : Family("maven", "group", n), Tier.LOCKED)
ProjectAssets == Chosen(LAMBDA n : Family("nuget", None, n), Tier.INSTALLED)
VcpkgSpdx == Chosen(LAMBDA n : Family("vcpkg", None, n), Tier.DECLARED)
VcpkgInstalled == Chosen(LAMBDA n : Family("vcpkg", None, n), Tier.INSTALLED)

\* Ecosystems with one version of a family at a time: what reconcile pins, the
\* version of the highest tier, stands for all of them.
SingleVersion == {"conan", "vcpkg", "conda", "pypi"}
Settle(found) ==
    LET concrete(family) == {c \in found.claims : c.name = family /\ c.ver # 0}
        above(c, d) == c.tier > d.tier \/ (c.tier = d.tier /\ c.ver >= d.ver)
        best(family) == CHOOSE c \in concrete(family) : \A d \in concrete(family) : above(c, d)
        pin(family, ver) == IF family.eco \in SingleVersion /\ ver # 0 THEN best(family).ver ELSE ver
        settled(ref) == IF ref[1] = "purl" THEN RefPurl(<<ref[2], pin(ref[2], ref[3])>>) ELSE ref
    IN  Found({[c EXCEPT !.ver = pin(c.name, @)] : c \in found.claims},
              {[e EXCEPT !.src = settled(@), !.dst = settled(@)] : e \in found.edges})
----------------------------------------------------------------------------
(* A manifest is written, its tool chooses versions, both are read *)

Literals == {"exact", "least", "range", "bare"}
Syntax ==
    [PackageSwift |-> {"exact", "range", "computed"}, BuildSbt |-> {"exact", "least", "computed"},
     BazelModule |-> {"least", "bare"}, ClojureDeps |-> {"exact", "least"}, Opam |-> Literals, Dune |-> Literals,
     Cpanfile |-> {"least", "bare"}, PerlMeta |-> {"least", "bare"}, Rockspec |-> Literals \cup {"computed"},
     ConanTxt |-> {"exact", "range"}, ConanPy |-> {"exact", "range", "computed"}, CMakeLists |-> {"exact", "least", "bare"},
     CMakeFileApi |-> {"bare"}, Makefile |-> {"bare"}, MesonWrap |-> {"exact", "bare"}, Gitmodules |-> {"exact", "bare"},
     VcpkgManifest |-> {"least", "bare"}, ZigZon |-> {"exact", "bare"}, CargoToml |-> {"exact", "least", "bare", "inherited"},
     CondaEnvironment |-> Literals, Csproj |-> {"exact", "least", "range", "inherited"},
     GradleCatalog |-> {"least", "bare", "inherited"}, GradleBuild |-> {"least", "range", "computed"},
     SetupPy |-> Literals \cup {"computed"}, Pep517 |-> Literals, MixLock |-> {"exact"}, StackLock |-> {"exact"},
     CabalFreeze |-> {"exact"}, PkgConfig |-> {"exact"}, CartfileResolved |-> {"exact"}]
Formats == DOMAIN Syntax
Origins(f) ==
    CASE f = "PackageSwift" -> {"git", "path"}
      [] f = "ClojureDeps" -> {"registry", "path"}
      [] f \in {"CMakeLists", "MixLock", "StackLock", "CartfileResolved"} -> {"registry", "git"}
      [] OTHER -> {"registry"}
Parts(f) ==
    CASE f \in {"Cpanfile", "PerlMeta"} -> {"runtime", "test", "feature"}
      [] f = "ConanTxt" -> {"runtime", "build"}
      [] f \in {"CargoToml", "GradleBuild"} -> {"runtime", "test", "build"}
      [] f \in {"VcpkgManifest", "CondaEnvironment", "Pep517"} -> {"runtime", "feature"}
      [] OTHER -> {"runtime"}
\* A workspace or a directory above may hold versions for the projects below;
\* version catalogs and overrides are tables of the file itself.
TableDirs(f) ==
    CASE f \in {"CargoToml", "Csproj"} -> {"near", "root"}
      [] f \in {"GradleCatalog", "VcpkgManifest"} -> {"near"}
      [] OTHER -> {}
TableReqs(f) == {r \in Reqs : r.how \in (Syntax[f] \cap {"exact", "least"}) \cup (IF f = "VcpkgManifest" THEN {"exact"} ELSE {})}

ManifestReading(f) ==
    CASE f = "PackageSwift" -> PackageSwift [] f = "BuildSbt" -> BuildSbt [] f = "BazelModule" -> BazelModule
      [] f = "ClojureDeps" -> ClojureDeps [] f = "Opam" -> Opam [] f = "Dune" -> Dune [] f = "Cpanfile" -> Cpanfile
      [] f = "PerlMeta" -> PerlMeta [] f = "Rockspec" -> Rockspec [] f = "ConanTxt" -> ConanTxt
      [] f = "ConanPy" -> ConanPy [] f = "CMakeLists" -> CMakeLists [] f = "CMakeFileApi" -> CMakeFileApi
      [] f = "Makefile" -> Makefile [] f = "MesonWrap" -> MesonWrap [] f = "Gitmodules" -> Gitmodules
      [] f = "VcpkgManifest" -> VcpkgManifest [] f = "ZigZon" -> ZigZon [] f = "CargoToml" -> CargoToml
      [] f = "CondaEnvironment" -> CondaEnvironment [] f = "Csproj" -> Csproj [] f = "GradleCatalog" -> GradleCatalog
      [] f = "GradleBuild" -> GradleBuild [] f = "SetupPy" -> SetupPy [] f = "Pep517" -> Pep517 [] f = "MixLock" -> MixLock
      [] f = "StackLock" -> StackLock [] f = "CabalFreeze" -> CabalFreeze [] f = "PkgConfig" -> PkgConfig [] f = "CartfileResolved" -> CartfileResolved

HasLock == {"PackageSwift", "ConanTxt", "ConanPy", "GradleBuild", "GradleCatalog", "VcpkgManifest", "CargoToml", "Csproj", "SetupPy", "Pep517"}
LockOf(f) ==
    CASE f = "PackageSwift" -> PackageResolved
      [] f \in {"ConanTxt", "ConanPy"} -> ConanLock
      [] f \in {"GradleBuild", "GradleCatalog"} -> Both(GradleLockfile, GradleVerification)
      [] f = "VcpkgManifest" -> Both(VcpkgSpdx, VcpkgInstalled)
      [] f = "CargoToml" -> Chosen(LAMBDA n : Family("cargo", None, n), Tier.LOCKED)
      [] f = "Csproj" -> ProjectAssets
      [] f \in {"SetupPy", "Pep517"} -> Chosen(LAMBDA n : Family("pypi", None, n), Tier.INSTALLED)
      [] OTHER -> Nothing

Open == manifest \in Formats /\ chosen = << >> /\ read = Nothing
DeclInit == manifest = None /\ lines = << >> /\ tables = << >> /\ chosen = << >> /\ read = Nothing

Choose(f) ==
    /\ manifest = None /\ manifest' = f
    /\ UNCHANGED <<lines, tables, chosen, read>>

Write(l) ==
    /\ Open /\ Len(lines) < MaxLines
    /\ l.req.how \in Syntax[manifest] /\ l.origin \in Origins(manifest) /\ l.part \in Parts(manifest)
    /\ lines' = Append(lines, l)
    /\ UNCHANGED <<manifest, tables, chosen, read>>

\* Bound: a name that some line may take from the table.
AddTable(dir, name, req) ==
    /\ \E l \in Written : l.name = name /\ (l.req.how = "inherited" \/ manifest = "VcpkgManifest")
    /\ Open /\ dir \in TableDirs(manifest) \ DOMAIN tables /\ req \in TableReqs(manifest)
    /\ Cardinality(DOMAIN tables) < MaxTables
    /\ tables' = [d \in DOMAIN tables \cup {dir} |-> IF d = dir THEN [n \in {name} |-> req] ELSE tables[d]]
    /\ UNCHANGED <<manifest, lines, chosen, read>>

\* The requirement a line stands for, and the tool's choice of versions that
\* satisfy every line.
Stands(l) ==
    IF manifest = "VcpkgManifest" /\ tables # << >> /\ l.name \in DOMAIN tables["near"]
    THEN tables["near"][l.name] ELSE Inheriting(l).req
Satisfies(v, req) ==
    CASE req.how = "exact" -> v = req.ver
      [] req.how = "least" -> v >= req.ver
      [] OTHER -> TRUE

Solve(choice) ==
    /\ Open /\ lines # << >> /\ manifest \in HasLock
    /\ \A l \in Written : Satisfies(choice[l.name], Stands(l))
    /\ chosen' = choice
    /\ UNCHANGED <<manifest, lines, tables, read>>

Read ==
    /\ manifest \in Formats /\ lines # << >> /\ read = Nothing
    /\ read' = Settle(Both(ManifestReading(manifest), LockOf(manifest)))
    /\ UNCHANGED <<manifest, lines, tables, chosen>>

DeclNext ==
    \/ \E f \in Formats : Choose(f)
    \/ \E name \in PkgNames, req \in Reqs, part \in {"runtime", "test", "build", "feature"},
          origin \in {"registry", "git", "path"} : Write(Line(name, req, part, origin))
    \/ \E dir \in {"near", "root"}, name \in PkgNames, req \in Reqs : AddTable(dir, name, req)
    \/ \E choice \in [{l.name : l \in Written} -> Version] : Solve(choice)
    \/ Read

DeclSpec == DeclInit /\ [][DeclNext]_declVars
----------------------------------------------------------------------------
(* Properties *)

\* Formats that take a minimum for the version.
MinimumIsVersion ==
    {"BuildSbt", "ClojureDeps", "BazelModule", "Csproj", "GradleBuild", "GradleCatalog", "VcpkgManifest", "CMakeLists"}
States(l, v) ==
    \/ Stands(l) = Req("exact", v)
    \/ Stands(l) = Req("least", v) /\ manifest \in MinimumIsVersion

\* A manifest alone proves no version but one that a line, or the table the line
\* inherits from, states; what is needed for tests or builds alone, or for a
\* feature, does not become a runtime dependency where the format has sections.
NothingInvented ==
    (read # Nothing /\ chosen = << >>) =>
      /\ \A c \in Components(read.claims) : \E l \in Written : l.name = c[1].name /\ (c[2] = 0 \/ States(l, c[2]))
      /\ \A e \in Graph(read) : (e[3] = "runtime" /\ manifest # "GradleBuild") =>
            \E l \in Written : l.name = e[2][1].name /\ l.part # "test" /\ l.part # "build"

Beside(n) == {c \in Components(read.claims) : c[1].name = n}
InLock(family) == \E c \in LockOf(manifest).claims : c.name = family

\* A manifest and its lock tell one story: of a name the tool chose a version of,
\* that version is a component, what else there is is a minimum the manifest was
\* taken for, a request of another family, or one that several versions meet; and
\* the edges of the project that lead to the lock's family lead to the version
\* chosen.
OneStory ==
    (read # Nothing /\ chosen # << >>) =>
      \A n \in DOMAIN chosen :
        LET told(p) == p[2] = chosen[n] \/ (manifest \in MinimumIsVersion /\ p[2] < chosen[n] /\ p[2] # 0)
        IN  /\ \E c \in Beside(n) : c[2] = chosen[n]
            /\ \A c \in Beside(n) : told(c) \/ (c[2] = 0 /\ (InLock(c[1]) => Cardinality(VersionsOf(read.claims, c[1])) > 1))
            /\ \A e \in Graph(read) : e[2][1].name = n => told(e[2]) \/ ~InLock(e[2][1])

\* A manifest claims no more than it says, and agrees with its lock.
ManifestMeetsLock == NothingInvented /\ OneStory
=============================================================================
