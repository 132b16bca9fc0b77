----------------------------- MODULE OtherLocks -----------------------------
(* The Python catalogers (catalogers/python.py), and those of the other
   ecosystems: ruby_php.py, golang.py, dotnet.py, longtail.py, table.py with
   table_specs.py. *)
EXTENDS Installation
----------------------------------------------------------------------------
(* Python.  A need in maybe is one that only an extra asks for; a member is a
   project of the same workspace. *)

\* Every package of the lock under the version its name is listed with last.
ByName(packages, name) ==
    LET listed == {p \in packages : p[1] = name}
    IN  {p \in listed : \A q \in listed : q[2] <= p[2]}

\* poetry.lock and uv.lock have no edge from the project; uv leaves the
\* workspace's own projects out, poetry does not list them.
NamedEdges(packages, listed) ==
    UNION {{Edge(RefPurl(e[1]), RefPurl(q), None, FALSE) : q \in ByName(listed, e[2][1])}
             : e \in {d \in needs : d[1] \in packages}}
Released == installed \ members

PoetryLock(stale) ==
    Found({Claim(p, Tier.LOCKED, IF stale THEN {"stale"} ELSE {}) : p \in Released},
          NamedEdges(Released, Released))
UvLock == Found({Claim(p, Tier.LOCKED, {}) : p \in Released}, NamedEdges(Released, installed))

\* Mutant: the lock lists a name that the manifest does not require.
IsSuperfluous(sections, listed) == ~({p[1] : p \in listed} \subseteq {p[1] : p \in DOMAIN sections})
\* The manifest, but for its extras, requires a name that the lock does not list.
IsStale(sections, listed) ==
    ~({p[1] : p \in {q \in DOMAIN sections : sections[q] \in {"runtime", "dev"}}} \subseteq {p[1] : p \in listed})

\* A package of both sections is listed twice, once with the mark.
PipfileLock ==
    Found({Claim(p, Tier.LOCKED, {}) : p \in Released \cap NeededBy({"runtime", "optional"})}
          \cup {Claim(p, Tier.LOCKED, {"dev"}) : p \in Released \cap NeededBy({"dev"})}, {})

\* pyproject.toml: dependencies, extras and groups, a direct edge each.
Pyproject == Manifests

\* requirements.txt.  A file that includes others is read with them, each once;
\* it counts as a lock when all of its own lines are pinned and one is hashed.
FilesRead(includes, top) == ReachOver({top}, includes)
RequirementsFile(pinned, loose, hashed) ==
    LET tier == IF hashed /\ loose = {} THEN Tier.LOCKED ELSE Tier.DECLARED
    IN  Found({Claim(p, tier, {}) : p \in pinned} \cup {Declared(p[1]) : p \in loose},
              {DirectEdge(Root, RefPurl(p), "runtime") : p \in pinned}
              \cup {DirectEdge(Root, RefFamily(p[1]), "runtime") : p \in loose})
Requirements(includes, lines, hashed, top) ==
    LET parts == {RequirementsFile(lines[f].pinned, lines[f].loose, hashed) : f \in FilesRead(includes, top)}
    IN  Found(UNION {part.claims : part \in parts}, UNION {part.edges : part \in parts})

\* pip freeze: every package of the environment, pinned, in two files that
\* include one another.
Frozen(hashed) ==
    LET direct == Released \cap DOMAIN section
        lines == [main |-> [pinned |-> direct, loose |-> {}],
                  more |-> [pinned |-> Released \ direct, loose |-> {}]]
    IN  Requirements({<<"main", "more">>, <<"more", "main">>}, lines, hashed, "main")

\* *.dist-info: requirements by name, those of an extra left out.
DistInfo ==
    Found({Claim(p, Tier.INSTALLED, {}) : p \in Released},
          {Edge(RefPurl(e[1]), RefFamily(e[2][1]), None, FALSE)
             : e \in {d \in needs : d[1] \in Released /\ d \notin maybe}})
----------------------------------------------------------------------------
(* The other ecosystems *)

DevNeeded == installed \ NeededBy({"runtime", "optional"})

\* Edges that name what is required, under one scope.
FamilyEdges(scopeOf(_)) ==
    {Edge(RefPurl(e[1]), RefFamily(e[2][1]), scopeOf(e[1]), FALSE) : e \in needs}
Locked(marks(_)) == {Claim(p, Tier.LOCKED, marks(p)) : p \in installed}

\* Gemfile.lock does not say which group a dependency belongs to.
GemfileLock ==
    Found(Locked(LAMBDA p : {}),
          FamilyEdges(LAMBDA p : "runtime")
          \cup {DirectEdge(Root, RefPurl(p), "runtime") : p \in DOMAIN section})

\* composer.lock and vendor/composer/installed.json: two lists of packages.
DevScope(p) == IF p \in DevNeeded THEN "dev" ELSE "runtime"
ComposerFindings(tier) ==
    Found({Claim(p, tier, IF p \in DevNeeded THEN {"dev"} ELSE {}) : p \in installed},
          FamilyEdges(DevScope))
ComposerJson == Manifest(Root, [p \in DOMAIN section |-> IF section[p] = "dev" THEN "dev" ELSE "runtime"])

\* Podfile.lock: the subspecs of a pod are the pod.
PodfileLock == Found(Locked(LAMBDA p : {}), FamilyEdges(LAMBDA p : "runtime"))

\* vcpkg's database of installed ports.
VcpkgStatus == Found({Claim(p, Tier.INSTALLED, {}) : p \in installed}, FamilyEdges(LAMBDA p : "runtime"))

\* packages.lock.json, rebar.lock and paket.lock hang everything on the project.
HungOnProject(isDirect(_)) ==
    Found(Locked(LAMBDA p : {}),
          {Edge(RefProject(Root), RefPurl(p), "runtime", isDirect(p)) : p \in installed})
NugetLock == HungOnProject(LAMBDA p : p \in DOMAIN section)
RebarLock == HungOnProject(LAMBDA p : FALSE)
PaketLock == HungOnProject(LAMBDA p : FALSE)

\* Lists without a graph: project.assets.json, the table driven formats
\* (Cargo.lock, pubspec.lock, ...), mix.lock, stack, cabal, Package.resolved,
\* Cartfile.resolved, conda-meta.
PackageList(tier) == Found({Claim(p, tier, {}) : p \in installed}, {})
----------------------------------------------------------------------------
(* go.mod and go.sum.  replace maps a module's name to the version that is
   replaced (0: any) and to what is built instead, a module or a directory. *)

Local == <<Family("directory", None, "local"), 0>>
Replaces(replace, p) == p[1] \in DOMAIN replace
\* The version a replacement is meant for is read and not used.
GoMod(replace, excluded) ==
    LET required == installed \cup excluded
        kept == required \ excluded
        to(p) == replace[p[1]].to
        local == {p \in kept : Replaces(replace, p) /\ to(p) = Local}
        moved == {p \in kept \ local : Replaces(replace, p)}
        marks(p) == (IF p \in DOMAIN section THEN {} ELSE {"indirect"}) \cup (IF p \in local THEN {"local"} ELSE {})
    IN  Found({Claim(p, Tier.DECLARED, marks(p)) : p \in kept} \cup {Claim(to(p), Tier.DECLARED, {"replaces"}) : p \in moved},
              {Edge(RefProject(Root), RefPurl(p), "runtime", p \in DOMAIN section) : p \in kept}
              \cup {Edge(RefPurl(to(p)), RefPurl(p), "resolved-from", FALSE) : p \in moved})

\* What the go command builds.
GoBuild(replace) ==
    {IF Replaces(replace, p) /\ replace[p[1]].was \in {0, p[2]} THEN replace[p[1]].to ELSE p : p \in installed}

\* The requirements that go.sum's cataloger finds in go.mod: its pattern is
\* anchored at the beginning of the text, where the module directive is.
InGoMod(moduleDirective) == IF moduleDirective THEN {} ELSE {p[1] : p \in installed}
GoSum(listed, moduleDirective) ==
    Found({Claim(p, Tier.LOCKED, IF p[1] \in InGoMod(moduleDirective) THEN {} ELSE {"superset"}) : p \in listed}, {})
=============================================================================
