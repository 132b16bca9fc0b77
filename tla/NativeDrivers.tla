--------------------------- MODULE NativeDrivers ---------------------------
(* What an ecosystem's own build tool says it resolved (dynamic/drivers): the
   drivers' parsers (ecosystems.py) and the bridge to findings (bridge.py). *)
EXTENDS Installation

\* A resolved dependency becomes a claim at the locked tier and one edge, from
\* the project or from the name of the dependent.
FromProject(p, scope, direct) == Edge(RefProject(Root), RefPurl(p), scope, direct)
FromParent(parent, p, scope) == Edge(RefFamily(parent), RefPurl(p), scope, FALSE)
Resolution(packages, edges) == Found({Claim(p, Tier.LOCKED, {}) : p \in packages}, edges)

\* A tree whose nodes are the needs: what the project requires is direct.
TreeOf(scope, parentName(_)) ==
    Resolution(installed,
               {FromProject(p, scope, TRUE) : p \in DOMAIN section}
               \cup {FromParent(parentName(e[1][1]), e[2], scope) : e \in needs})
NpmLs == TreeOf("runtime", LAMBDA name : name)
SwiftDependencies == TreeOf("runtime", LAMBDA name : name)
BazelGraph == TreeOf("build", LAMBDA name : name)

\* The dependent of a Maven artifact is called by its artifact alone, while
\* components are called group:artifact.
ArtifactOf(name) == Family("maven", None, <<"artifact", name>>)
MavenTree == TreeOf("runtime", ArtifactOf)

\* `pnpm ls` is not followed below the project's own sections.
PnpmLs == Resolution(DOMAIN section,
                     {FromProject(p, IF section[p] = "dev" THEN "dev" ELSE "runtime", TRUE) : p \in DOMAIN section})

\* Without a parent everything hangs on the project.  Of the configurations that
\* resolve a module Gradle's script keeps the last, which is one of the tests'.
AllFromProject(scope) == Resolution(installed, {FromProject(p, scope, FALSE) : p \in installed})
GradleDependencies == AllFromProject("test")
SbtList == AllFromProject("runtime")
=============================================================================
