----------------------------- MODULE Lockfiles -----------------------------
(* A project is set up and its dependencies are installed; then one of the
   files its manager wrote is catalogued, together with the manifests beside
   it, and the references are resolved.  What comes out is compared with what
   was installed. *)
EXTENDS NodeLocks, OtherLocks, NativeDrivers

CONSTANTS Packages, MaxNeeds
\* In a lock the name carries its scope or group; it is no directory, and an
\* artifact's name is no group:artifact.
ASSUME PackagesAreVersions ==
    \A p \in Packages :
       /\ p = <<Family(p[1].eco, None, p[1].name), p[2]>> /\ p[2] \in Version /\ p[1] # MemberDir
       /\ \A q \in Packages : Called(p[1]) # Called(ArtifactOf(q[1]))

VARIABLES
    format,    \* the file that was catalogued, None before
    replace,   \* the replacements of a go.mod
    later,     \* what the manifest requires since the lock was written
    found      \* the claims and edges of the catalogers

lockVars == <<installed, needs, maybe, section, members, format, replace, later, found>>

\* Formats by what their managers can install and by what they record.
ManyVersions == {"npm-lock-v1", "npm-lock-v2", "pnpm-lock", "yarn-classic", "yarn-berry", "bun-lock", "deno-lock",
                 "npm-ls", "pnpm-ls"}
Workspaces == {"npm-lock-v2", "pnpm-lock", "yarn-classic", "yarn-berry", "bun-lock", "uv-lock"}
Node == (ManyVersions \ {"npm-ls", "pnpm-ls"}) \cup {"node-modules"}
Python == {"poetry-lock", "uv-lock", "pipfile-lock", "dist-info", "requirements"}
Other == {"gemfile-lock", "composer-lock", "composer-installed", "podfile-lock", "nuget-lock", "rebar-lock",
          "paket-lock", "package-list", "vcpkg-status"}
\* The build tools that --resolve=native asks instead.
Native == {"npm-ls", "pnpm-ls", "swift-dependencies", "bazel-graph", "maven-tree", "gradle-dependencies", "sbt-list"}
Exact == {"npm-lock-v2", "pnpm-lock"}
Graphed == Exact \cup {"npm-lock-v1", "yarn-classic", "yarn-berry", "poetry-lock", "uv-lock", "dist-info",
                       "gemfile-lock", "composer-lock", "composer-installed", "podfile-lock", "vcpkg-status",
                       "npm-ls", "swift-dependencies", "bazel-graph"}
\* Formats that list the project's own requirements only.
DirectOnly == {"pnpm-ls"}
\* Formats that do not say what the project requires, or only for its build.
Rootless == {"podfile-lock", "vcpkg-status", "bazel-graph"}
\* Formats whose own edges from the project are all runtime dependencies.
Flat == {"bun-lock", "deno-lock", "gemfile-lock", "nuget-lock", "rebar-lock", "paket-lock", "requirements",
         "npm-ls", "swift-dependencies"}

LockInit ==
    /\ installed = {} /\ needs = {} /\ maybe = {} /\ section = << >> /\ members = {}
    /\ format = None /\ replace = << >> /\ later = {} /\ found = Nothing

\* The project's manifest names a package; a package needs another.
Require(p, s) ==
    /\ format = None /\ \A q \in DOMAIN section : q[1] # p[1]
    /\ section' = [q \in DOMAIN section \cup {p} |-> IF q \in DOMAIN section THEN section[q] ELSE s]
    /\ installed' = installed \cup {p}
    /\ UNCHANGED <<needs, maybe, members, format, replace, later, found>>

Need(p, q, optional) ==
    /\ format = None /\ Cardinality(needs) < MaxNeeds
    /\ p \in installed /\ p[1] # q[1] /\ \A r \in NeedsOf(p) : r[1] # q[1]
    /\ \A m \in members : q[1] # m[1]
    /\ needs' = needs \cup {<<p, q>>} /\ installed' = installed \cup {q}
    /\ maybe' = IF optional THEN maybe \cup {<<p, q>>} ELSE maybe
    /\ UNCHANGED <<section, members, format, replace, later, found>>

AddMember(p) ==
    /\ format = None /\ members = {} /\ p \in Required({"runtime"})
    /\ \A e \in needs : e[2] # p
    /\ \A q \in installed : q[1] = p[1] => q = p
    /\ members' = {p}
    /\ UNCHANGED <<installed, needs, maybe, section, format, replace, later, found>>

CatalogNpm(f) ==
    /\ format = None /\ f \in {"npm-lock-v1", "npm-lock-v2"} /\ (f \in Workspaces \/ members = {})
    /\ \E tree \in Layouts :
         found' = Both(PackageJson, IF f = "npm-lock-v1" THEN NpmLockV1(tree) ELSE NpmLockV2(tree))
    /\ format' = f
    /\ UNCHANGED <<installed, needs, maybe, section, members, replace, later>>

Reading(f) ==
    CASE f = "pnpm-lock" -> Both(PackageJson, PnpmLock)
      [] f = "yarn-classic" -> Both(PackageJson, YarnClassic)
      [] f = "yarn-berry" -> Both(PackageJson, YarnBerry)
      [] f = "bun-lock" -> Both(PackageJson, BunLock)
      [] f = "deno-lock" -> DenoLock
      [] f = "node-modules" -> Both(PackageJson, NodeModules)
      [] f = "uv-lock" -> Both(Pyproject, UvLock)
      [] f = "pipfile-lock" -> PipfileLock
      [] f = "dist-info" -> Both(Pyproject, DistInfo)
      [] f = "requirements" -> Frozen(TRUE)
      [] f = "gemfile-lock" -> GemfileLock
      [] f = "composer-lock" -> Both(ComposerJson, ComposerFindings(Tier.LOCKED))
      [] f = "composer-installed" -> Both(ComposerJson, ComposerFindings(Tier.INSTALLED))
      [] f = "podfile-lock" -> PodfileLock
      [] f = "vcpkg-status" -> VcpkgStatus
      [] f = "nuget-lock" -> NugetLock
      [] f = "rebar-lock" -> RebarLock
      [] f = "paket-lock" -> PaketLock
      [] f = "package-list" -> PackageList(Tier.LOCKED)
      [] f = "npm-ls" -> Both(PackageJson, NpmLs)
      [] f = "pnpm-ls" -> Both(PackageJson, PnpmLs)
      [] f = "swift-dependencies" -> SwiftDependencies
      [] f = "bazel-graph" -> BazelGraph
      [] f = "maven-tree" -> MavenTree
      [] f = "gradle-dependencies" -> GradleDependencies
      [] f = "sbt-list" -> SbtList

Catalog(f) ==
    /\ format = None /\ installed # {}
    /\ f \in ManyVersions \/ OneVersionEach(installed)
    /\ f \in Workspaces \/ members = {}
    /\ format' = f /\ found' = Reading(f)
    /\ UNCHANGED <<installed, needs, maybe, section, members, replace, later>>

\* poetry.lock beside a pyproject.toml, to which a package may have been added
\* since.
CatalogPoetry(p, s) ==
    /\ format = None /\ installed # {} /\ OneVersionEach(installed) /\ members = {}
    /\ p \in DOMAIN section \/ \A q \in DOMAIN section : q[1] # p[1]
    /\ LET required == [q \in DOMAIN section \cup {p} |-> IF q \in DOMAIN section THEN section[q] ELSE s]
       IN  /\ later' = {<<q, s>> : q \in DOMAIN required \ DOMAIN section}
           /\ found' = Both(Manifest(Root, required),
                            PoetryLock(IsStale(required, installed)))
    /\ format' = "poetry-lock"
    /\ UNCHANGED <<installed, needs, maybe, section, members, replace>>

\* A module with a go.mod and a go.sum, perhaps with a replacement (to # p) and
\* an excluded module that is still required.
CatalogGo(p, to, was, excluded) ==
    /\ format = None /\ installed # {} /\ OneVersionEach(installed) /\ members = {}
    /\ excluded \cap installed = {}
    /\ replace' = IF to = p THEN << >> ELSE [n \in {p[1]} |-> [was |-> was, to |-> to]]
    /\ found' = Both(GoMod(replace', excluded), GoSum(GoBuild(replace') \ {Local}, TRUE))
    /\ format' = "go-mod"
    /\ UNCHANGED <<installed, needs, maybe, section, members, later>>

LockNext ==
    \/ \E p \in Packages, s \in Section : Require(p, s)
    \/ \E p, q \in Packages, optional \in BOOLEAN : Need(p, q, optional)
    \/ \E p \in Packages : AddMember(p)
    \/ \E f \in Node : CatalogNpm(f)
    \/ \E f \in (Node \ {"npm-lock-v1", "npm-lock-v2"}) \cup (Python \ {"poetry-lock"}) \cup Other \cup Native : Catalog(f)
    \/ \E p \in Packages, s \in Section : CatalogPoetry(p, s)
    \/ \E p \in Packages, to \in Packages \cup {Local}, was \in {0} \cup Version, q \in Packages :
          \E excluded \in {{}, {q}} : CatalogGo(p, to, was, excluded)

LockSpec == LockInit /\ [][LockNext]_lockVars
----------------------------------------------------------------------------
(* Properties *)

Unambiguous == format \in Exact \/ OneVersionEach(installed)
GraphEdges == Graph(found)
Between(packages) == {<<e[1], e[2]>> : e \in {g \in GraphEdges : g[1] \in packages /\ g[2] \in packages}}

\* What was installed is what is reported: every released package that the file
\* lists is a component, and no version that was not installed is one.  Where the file
\* records who needs whom, the edges between components are these needs; of a
\* name in several versions only exact references lead to the right one (and a
\* build tool's dependents are names).
GraphIsReadBack ==
    format \notin {None, "go-mod"} =>
      LET components == Components(found.claims)
          released == installed \ members
          edges == Between(installed)
      IN  /\ (IF format \in DirectOnly THEN DOMAIN section ELSE released) \subseteq components
          /\ \A c \in components : c[2] # 0 => c \in installed
          /\ \A e \in edges : \E n \in needs :
               /\ n[2][1] = e[2][1] /\ (Unambiguous => n[2] = e[2])
               /\ IF format \in Native THEN n[1][1] = e[1][1] ELSE n[1] = e[1]
          /\ (format \in Graphed /\ Unambiguous) =>
               \A e \in needs \ maybe : e[1] \in released => e \in edges

\* Every module the go command builds from a registry is a component, one that
\* stands in for another leads to it, and an excluded version is not listed.
GoBuildIsListed ==
    format = "go-mod" =>
      LET built == GoBuild(replace) \ {Local}
      IN  /\ built \subseteq Components(found.claims)
          /\ \A p \in built \ installed : \E q \in installed : <<p, q>> \in {<<e[1], e[2]>> : e \in GraphEdges}
          /\ \A c \in Components(found.claims) : c \in installed \cup {replace[n].to : n \in DOMAIN replace}

\* A package that the project needs at run time is reached from its projects by
\* runtime edges, whatever the file, provided it records the graph; and where
\* the sections are known a development dependency is not.
RuntimeIsReachable ==
    (format \in Graphed /\ Unambiguous /\ format \notin Rootless) =>
      LET follows == {<<e[1], e[2]>> : e \in {g \in GraphEdges : g[3] \in {None, "runtime"}}}
          reached == ReachOver({RefProject(Root)} \cup {RefProject(m[1]) : m \in members}, follows)
          runtime == ReachOver(Required({"runtime"}), needs \ maybe)
      IN  /\ runtime \ members \subseteq reached
          /\ (format \notin Flat /\ OneVersionEach(installed) /\ later = {}) =>
               \A p \in reached : p \in installed => p \in NeededBy({"runtime", "optional"})

\* The versions of a lock that lags behind the manifest are marked, those of one
\* that does not are not: a name that the manifest gained is missing from the
\* lock unless the lock has it for another reason.  (Extras are not compared.)
StaleLockIsMarked ==
    format = "poetry-lock" =>
      LET missing == {e \in later : e[2] # "optional" /\ \A q \in installed : q[1] # e[1][1]}
          locked == {c \in found.claims : c.tier = Tier.LOCKED}
      IN  {c \in locked : "stale" \in c.marks} = IF missing = {} THEN {} ELSE locked

\* What a package manager resolved is what a scan of its file reports: the same
\* packages and edges, the scopes these imply, and versions marked if they lag.
LockIsReadBack == GraphIsReadBack /\ GoBuildIsListed /\ RuntimeIsReachable /\ StaleLockIsMarked
=============================================================================
