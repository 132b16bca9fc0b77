----------------------------- MODULE NodeLocks -----------------------------
(* The JavaScript catalogers (catalogers/js.py).  An npm lock file is a tree of
   directories: its keys are paths, sequences of package names, the first of
   which is the member's own directory where a workspace member is meant. *)
EXTENDS Installation, FiniteSetsExt

\* The directory of the one workspace member, which no package is named like.
MemberDir == Family("directory", None, "workspace")
\* An entry of the packages map: a package, or the link to a member.
Plain(p) == [pkg |-> p, link |-> FALSE]
LinkTo(p) == [pkg |-> p, link |-> TRUE]

Paths == {<<p[1]>> : p \in installed} \cup {<<p[1], q[1]>> : p, q \in installed}
           \cup {<<MemberDir>>} \cup {<<MemberDir, q[1]>> : q \in installed}

\* How node finds a module: in the closest directory around the requirer's own.
NodeFinds(tree, from, name) ==
    LET around == {k \in DOMAIN tree : \E d \in 0 .. Len(from) : k = Append(SubSeq(from, 1, d), name)}
    IN  {tree[k].pkg : k \in {j \in around : \A i \in around : Len(i) <= Len(j)}}

\* The trees npm may lay out: everything is somewhere, and every requirement
\* finds the version that was resolved for it.
IsLayout(tree) ==
    /\ {tree[k].pkg : k \in DOMAIN tree} = installed
    /\ \A k \in DOMAIN tree :
         /\ Len(k) = 2 => <<k[1]>> \in DOMAIN tree
         /\ ~tree[k].link => \A q \in NeedsOf(tree[k].pkg) : NodeFinds(tree, k, q[1]) = {q}
    /\ \A p \in DOMAIN section : <<p[1]>> \in DOMAIN tree /\ tree[<<p[1]>>].pkg = p
    /\ members # {} => <<MemberDir>> \in DOMAIN tree

\* Where an entry may be: a package in a directory of its name, a member in its
\* own, with a link to it among the others.
Entries ==
    {e \in Paths \X {Plain(p) : p \in installed} :
        IF e[2].pkg \in members THEN e[1] = <<MemberDir>> ELSE e[1][Len(e[1])] = e[2].pkg[1]}
    \cup {<<<<p[1]>>, LinkTo(p)>> : p \in members}
Layouts ==
    {tree \in {[k \in {e[1] : e \in chosen} |-> (CHOOSE e \in chosen : e[1] = k)[2]]
                 : chosen \in UNION {kSubset(n, Entries) : n \in 0 .. Cardinality(installed) + 1}} : IsLayout(tree)}
----------------------------------------------------------------------------
(* package.json of the project and of its members *)

PackageJson == Manifests
----------------------------------------------------------------------------
(* package-lock.json *)

\* Mutant: only the root's node_modules is searched.
RootOnly(tree, from, name) == {k \in {<<name>>} \cap DOMAIN tree : ~tree[k].link}
\* Walks outward from the requirer's own node_modules to the root.
NpmResolve(tree, from, name) ==
    LET try[d \in 0 .. Len(from)] ==
          LET candidate == Append(SubSeq(from, 1, d), name)
          IN  IF candidate \in DOMAIN tree THEN {candidate} ELSE IF d = 0 THEN {} ELSE try[d - 1]
    IN  {k \in try[Len(from)] : ~tree[k].link}

DevOnly(p) == p \notin NeededBy({"runtime", "optional"})
DevMark(p) == IF DevOnly(p) THEN {"dev"} ELSE {}

\* The root's sections are direct edges.  Of another entry only "dependencies"
\* is read: its optional dependencies, and what is a link, give no edge.
NpmLockV2(tree) ==
    LET keys == {k \in DOMAIN tree : ~tree[k].link}
        follow(k, q) == {tree[t].pkg : t \in NpmResolve(tree, k, q[1])}
    IN  Found({Claim(tree[k].pkg, Tier.LOCKED, DevMark(tree[k].pkg)) : k \in keys},
              (UNION {{DirectEdge(Root, RefPurl(t), section[q]) : t \in follow(<<>>, q)} : q \in DOMAIN section})
              \cup UNION {UNION {{Edge(RefPurl(tree[k].pkg), RefPurl(t), None, FALSE) : t \in follow(k, q)}
                                   : q \in {r \in NeedsOf(tree[k].pkg) : <<tree[k].pkg, r>> \notin maybe}} : k \in keys})

\* A nested tree; what is hoisted to the top is taken for a direct dependency,
\* and a requirement is a name.
NpmLockV1(tree) ==
    LET keys == {k \in DOMAIN tree : ~tree[k].link}
    IN  Found({Claim(tree[k].pkg, Tier.LOCKED, DevMark(tree[k].pkg)) : k \in keys},
              {DirectEdge(Root, RefPurl(tree[k].pkg), IF DevOnly(tree[k].pkg) THEN "dev" ELSE "runtime")
                 : k \in {j \in keys : Len(j) = 1}}
              \cup {Edge(RefPurl(e[1]), RefFamily(e[2][1]), None, FALSE) : e \in needs})
----------------------------------------------------------------------------
(* pnpm-lock.yaml, yarn.lock, bun.lock, deno.lock, node_modules *)

NotMembers == installed \ members

\* Keys and requirements carry versions; importers give each project its edges.
PnpmLock ==
    LET edge(e) == Edge(RefPurl(e[1]), RefPurl(e[2]), IF e \in maybe THEN "optional" ELSE None, FALSE)
        kept == {e \in needs : e[1] \in NotMembers}
        importer(m, q) == DirectEdge(m[1], RefPurl(q), IF <<m, q>> \in maybe THEN "optional" ELSE "runtime")
    IN  Found({Claim(p, Tier.LOCKED, DevMark(p)) : p \in NotMembers},
              {edge(e) : e \in kept}
              \cup {DirectEdge(Root, RefPurl(p), section[p]) : p \in DOMAIN section}
              \cup UNION {{importer(m, q) : q \in NeedsOf(m)} : m \in members})

\* A block names the requirements without the version that satisfies them.
\* Optional ones are only met on the way past a list of dependencies.
YarnClassic ==
    LET reads(e) == e \notin maybe \/ \E q \in NeedsOf(e[1]) : <<e[1], q>> \notin maybe
    IN  Found({Claim(p, Tier.LOCKED, {}) : p \in NotMembers},
              {Edge(RefPurl(e[1]), RefFamily(e[2][1]), None, FALSE)
                 : e \in {d \in needs : d[1] \in NotMembers /\ reads(d)}})

\* Berry writes optional requirements among the dependencies.
YarnBerry ==
    Found({Claim(p, Tier.LOCKED, {}) : p \in NotMembers},
          {Edge(RefPurl(e[1]), RefFamily(e[2][1]), None, FALSE) : e \in {d \in needs : d[1] \in NotMembers}})

\* Flat lists: every package hangs on the project.  A member's entry is a
\* protocol, not a version.
FlatList(packages) ==
    Found({Claim(p, Tier.LOCKED, {}) : p \in packages},
          {Edge(RefProject(Root), RefPurl(p), "runtime", FALSE) : p \in packages})
BunLock ==
    Both(FlatList(NotMembers),
         Found({[name |-> p[1], ver |-> 0, tier |-> Tier.LOCKED, marks |-> {}] : p \in members},
               {Edge(RefProject(Root), RefFamily(p[1]), "runtime", FALSE) : p \in members}))
DenoLock == FlatList(NotMembers)

\* What is unpacked below node_modules, each package by its own manifest.
NodeModules == Found({Claim(p, Tier.INSTALLED, {}) : p \in NotMembers}, {})
=============================================================================
