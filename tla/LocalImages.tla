----------------------------- MODULE LocalImages -----------------------------
(* Images that are on the machine already (container/local.py): in an OCI layout,
   behind the API of an engine or in the archive it saves (container/daemon.py),
   and in containerd's store, whose names are in a bolt database
   (container/boltdb.py).  While sorb opens one, others name images, collect
   garbage, upgrade the engine and replace containers. *)
EXTENDS Naturals, Sequences, FiniteSets

CONSTANTS MaxNamings, NumPages

VARIABLES
    place,    \* bound: the kind of source a behaviour is about
    imageIndex, \* the manifests of the multi-platform image, in order
    pages,    \* of containerd's meta.db; the first two are the meta pages
    namings,  \* what the names stood for after each commit
    writing,  \* the commit on its way, or Quiet
    content,  \* the blobs of the store
    engine,   \* what stands behind the socket
    copy,     \* the pages of meta.db that were read
    opened    \* the image that is being opened

localVars == <<place, imageIndex, pages, namings, writing, content, engine, copy, opened>>

Places == {"oci-layout", "docker-archive", "containerd", "running"}
Unnamed == "no image"
----------------------------------------------------------------------------
(* Images and indexes (container/image.py) *)

Platform(arch, variant) == <<arch, variant>>
Amd64 == Platform("amd64", "")
PlatformOf ==
    [old |-> Amd64, new |-> Amd64, arm |-> Platform("arm", ""), arm6 |-> Platform("arm", "v6"),
     arm7 |-> Platform("arm", "v7"), attestation |-> Platform("unknown", "")]
DiffIdsOf ==
    [old |-> <<"base", "app1">>, new |-> <<"base", "app2">>, arm |-> <<"baseA">>, arm6 |-> <<"base6">>,
     arm7 |-> <<"base7", "app7">>, attestation |-> << >>]
Scannable(image) == image # "attestation"

\* What the tools that write indexes put into them.
WrittenIndexes ==
    {<<"attestation", "arm6", "arm7", "new">>, <<"arm7", "new", "arm6">>, <<"new", "arm", "arm7">>,
     <<"arm7", "arm">>}

\* --platform: none at all means Amd64, no variant any one.
Whatever == << >>
Asked == {Whatever, Amd64, Platform("arm", ""), Platform("arm", "v7"), Platform("s390x", "")}
ParsePlatform(asked) == IF asked = Whatever THEN Amd64 ELSE asked

Fits(image, want) ==
    /\ Scannable(image)
    /\ PlatformOf[image][1] = want[1]
    /\ want[2] # "" => PlatformOf[image][2] = want[2]
\* The first that fits, if one does.
SelectManifest(manifests, asked) ==
    LET fitting == SelectSeq(manifests, LAMBDA image : Fits(image, ParsePlatform(asked)))
    IN  IF fitting = << >> THEN Unnamed ELSE Head(fitting)
IndexPlatforms == [k \in DOMAIN SelectSeq(imageIndex, Scannable) |-> PlatformOf[SelectSeq(imageIndex, Scannable)[k]]]
\* --all-platforms: a scan of each platform that the index lists.
FanOut == [k \in DOMAIN IndexPlatforms |-> SelectManifest(imageIndex, IndexPlatforms[k])]

\* A name stands for one image, or for the index.
Tops == {"old", "multi"}
ImagesOf(top) == IF top = "multi" THEN {imageIndex[k] : k \in DOMAIN imageIndex} ELSE {top}
ImageBlob(kind, of) == <<kind, of>>
TopBlob(top) == IF top = "multi" THEN ImageBlob("index", top) ELSE ImageBlob("manifest", top)
LayerBlobsOf(image) == [k \in DOMAIN DiffIdsOf[image] |-> ImageBlob("layer", DiffIdsOf[image][k])]
\* containerd fetches what it is told to of an index: never arm6, here.
Fetched(top) == ImagesOf(top) \ (IF place = "containerd" THEN {"arm6"} ELSE {})
BlobsOf(top) ==
    {TopBlob(top)} \cup UNION {{ImageBlob("manifest", i), ImageBlob("config", i)} \cup
                               {LayerBlobsOf(i)[k] : k \in DOMAIN DiffIdsOf[i]} : i \in Fetched(top)}
----------------------------------------------------------------------------
(* meta.db: buckets of names, one for each namespace *)

Namespaces == 1 .. 2
Names == 1 .. 2
LastPage == NumPages - 1

Blank == [kind |-> "blank"]
Meta(tx, root) == [kind |-> "meta", tx |-> tx, root |-> root]
Leaf(elements) == [kind |-> "leaf", elements |-> elements]
Branch(children) == [kind |-> "branch", children |-> children]
NameValue(top) == [bucket |-> FALSE, value |-> top]
Bucket(root, inline) == [bucket |-> TRUE, root |-> root, inline |-> inline]
NamesLeaf(names) == Leaf([n \in {m \in Names : names[m] # Unnamed} |-> NameValue(names[n])])
\* What a lookup gives when there is nothing, and when it gives up.
NotThere == [found |-> "absent"]
Broken == [found |-> "broken"]
Element(e) == [found |-> "element", element |-> e]

\* The meta page of the higher transaction.
BestMeta(file) == IF file[1].tx > file[0].tx THEN file[1] ELSE file[0]

RECURSIVE LookupIn(_, _, _)
LookupIn(file, page, key) ==
    CASE page.kind = "leaf" -> IF key \in DOMAIN page.elements THEN Element(page.elements[key]) ELSE NotThere
      [] page.kind = "branch" ->
            LET below == {k \in DOMAIN page.children : \A j \in 2 .. k : page.children[j][1] <= key}
                last == CHOOSE k \in below : \A j \in below : j <= k
            IN  LookupIn(file, file[page.children[last][2]], key)
      [] OTHER -> Broken

\* The value of a name: a bucket where a value should be is none, and the reverse.
ValueIn(found) ==
    IF found.found = "element" THEN IF found.element.bucket THEN NotThere ELSE found ELSE found
BoltLookup(file, ns, name) ==
    LET outer == LookupIn(file, file[BestMeta(file).root], ns)
    IN  IF outer.found # "element" THEN outer
        ELSE IF ~outer.element.bucket THEN NotThere
        ELSE ValueIn(LookupIn(file, IF outer.element.root = 0 THEN outer.element.inline
                                    ELSE file[outer.element.root], name))

\* The tree of the last commit.
ChildPages(page) == {page.children[k][2] : k \in DOMAIN page.children}
BucketPages(e) ==
    IF e.root = 0 THEN {}
    ELSE {e.root} \cup (IF pages[e.root].kind = "branch" THEN ChildPages(pages[e.root]) ELSE {})
RootPage == BestMeta(pages).root
LivePages == {RootPage} \cup UNION {BucketPages(pages[RootPage].elements[ns]) : ns \in Namespaces}
FreePages == (2 .. LastPage) \ LivePages
\* The n lowest of them.
RECURSIVE Lowest(_, _)
Lowest(n, S) ==
    IF n = 0 THEN << >>
    ELSE LET least == CHOOSE p \in S : \A q \in S : p <= q IN <<least>> \o Lowest(n - 1, S \ {least})
----------------------------------------------------------------------------
(* The others *)

Quiet == [tx |-> 0]
Now == namings[Len(namings)]
FirstNames == <<<<Unnamed, "old">>, <<"multi", Unnamed>>>>

\* Small buckets are inside their parent's page, large ones have a branch page.
Shapes(ns, names) ==
    IF ns = 2 THEN {"inline"}
    ELSE {"leaf"} \cup (IF \A n \in Names : names[n] # Unnamed THEN {"split"} ELSE {"inline"})

\* A name is given to an image, or taken away.  Its blobs are there first; the
\* pages of a transaction go where no page of the last one is.
WritePages(ns, name, top, shape) ==
    LET names == [Now[ns] EXCEPT ![name] = top]
        free == Lowest(4, FreePages)
        element == CASE shape = "inline" -> Bucket(0, NamesLeaf(names))
                     [] OTHER -> Bucket(free[2], Leaf(<< >>))
        root == Leaf([pages[RootPage].elements EXCEPT ![ns] = element])
    IN  /\ place = "containerd" /\ writing = Quiet /\ Len(namings) <= MaxNamings /\ Now[ns][name] # top
        /\ ns = 2 => name = 1
        /\ shape \in Shapes(ns, names)
        /\ pages' = [p \in DOMAIN pages |->
               CASE p = free[1] -> root
                 [] p = free[2] /\ shape = "leaf" -> NamesLeaf(names)
                 [] p = free[2] /\ shape = "split" -> Branch(<<<<1, free[3]>>, <<2, free[4]>>>>)
                 [] p = free[3] /\ shape = "split" -> NamesLeaf([names EXCEPT ![2] = Unnamed])
                 [] p = free[4] /\ shape = "split" -> NamesLeaf([names EXCEPT ![1] = Unnamed])
                 [] OTHER -> pages[p]]
        /\ writing' = [tx |-> BestMeta(pages).tx + 1, root |-> free[1], names |-> [Now EXCEPT ![ns] = names]]
        /\ content' = content \cup (IF top = Unnamed THEN {} ELSE BlobsOf(top))
        /\ opened' = IF opened.at = "copy" THEN [opened EXCEPT !.overlaps = @ + 1] ELSE opened
        /\ UNCHANGED <<place, imageIndex, namings, engine, copy>>

\* The older meta page is overwritten last: an engine that dies before it leaves
\* the names as they were.
WriteMeta ==
    /\ writing # Quiet
    /\ pages' = [pages EXCEPT ![writing.tx % 2] = Meta(writing.tx, writing.root)]
    /\ namings' = Append(namings, writing.names)
    /\ writing' = Quiet
    /\ UNCHANGED <<place, imageIndex, content, engine, copy, opened>>

\* In a layout, or by an engine.
NameImage(name, top) ==
    /\ place \in {"oci-layout", "docker-archive"} /\ Len(namings) <= MaxNamings /\ Now[1][name] # top
    /\ namings' = Append(namings, [Now EXCEPT ![1][name] = top])
    /\ content' = content \cup (IF top = Unnamed THEN {} ELSE BlobsOf(top))
    /\ UNCHANGED <<place, imageIndex, pages, writing, engine, copy, opened>>

CollectGarbage ==
    LET kept == UNION {BlobsOf(top) : top \in {Now[ns][n] : ns \in Namespaces, n \in Names} \ {Unnamed}}
    IN  /\ place = "containerd" /\ writing = Quiet /\ kept # content /\ content' = kept
        /\ UNCHANGED <<place, imageIndex, pages, namings, writing, engine, copy, opened>>

\* The engine is replaced by one that takes other API versions; a container by
\* another of its name; or it stops.
Fallback == 43
UpgradeEngine ==
    /\ place \in {"docker-archive", "running"} /\ engine.api = 47
    /\ engine' = [engine EXCEPT !.least = 44, !.api = 53]
    /\ opened' = [opened EXCEPT !.upgraded = TRUE]
    /\ UNCHANGED <<place, imageIndex, pages, namings, writing, content, copy>>
ReplaceContainer ==
    /\ place = "running" /\ engine.web = 1
    /\ engine' = [engine EXCEPT !.web = 2, !.runs = TRUE]
    /\ UNCHANGED <<place, imageIndex, pages, namings, writing, content, copy, opened>>
StopContainer ==
    /\ place = "running" /\ engine.runs
    /\ engine' = [engine EXCEPT !.runs = FALSE]
    /\ UNCHANGED <<place, imageIndex, pages, namings, writing, content, copy, opened>>
----------------------------------------------------------------------------
(* sorb scan oci-dir:, docker-archive:, docker:, podman:, containerd:,
   container:// *)

Closed ==
    [at |-> "idle", want |-> <<0, 0>>, asked |-> Whatever, since |-> 0, overlaps |-> 0, upgraded |-> FALSE,
     prefix |-> 0, found |-> Unnamed, need |-> << >>, image |-> Unnamed, id |-> << >>, label |-> Whatever,
     layers |-> << >>, inspected |-> 0, exported |-> 0, programs |-> 0, why |-> ""]
LocalAt(step) == opened.at = step
Fail(why) == [opened EXCEPT !.at = "failed", !.why = why]
othersVars == <<place, imageIndex, pages, namings, writing, content, engine>>

\* A name of a namespace, a tag of the layout or none (0), a container by its id
\* or by its name (0).
Wanted ==
    CASE place = "containerd" -> {<<1, 2>>, <<2, 1>>}
      [] place = "oci-layout" -> {1} \X (0 .. 2)
      [] place = "docker-archive" -> {1} \X Names
      [] place = "running" -> {0} \X (0 .. 2)
StepsFrom ==
    CASE place = "containerd" -> {"copy"}
      [] place = "oci-layout" -> {"table"}
      [] place = "docker-archive" -> {"version", "file"}
      [] place = "running" -> {"version"}
AcquireImage(want, asked, step) ==
    /\ LocalAt("idle")
    /\ place = "running" => asked = Whatever
    /\ place = "docker-archive" => asked \in {Whatever, Platform("arm", "v7")}
    /\ place = "containerd" => <<want, asked>> \in {<<<<1, 2>>, Platform("arm", "v7")>>, <<<<2, 1>>, Whatever>>}
    /\ opened' = [Closed EXCEPT !.at = step, !.want = want, !.asked = asked,
                                !.since = IF step = "file" THEN 1 ELSE Len(namings),
                                !.overlaps = IF writing = Quiet THEN 0 ELSE 1]
    /\ copy' = << >>
    /\ UNCHANGED othersVars

\* meta.db is read page after page.
CopyPage ==
    /\ LocalAt("copy") /\ Len(copy) < NumPages
    /\ copy' = Append(copy, pages[Len(copy)])
    /\ UNCHANGED <<othersVars, opened>>

Open(top) ==
    IF top = Unnamed THEN Fail("not found")
    ELSE [opened EXCEPT !.at = "blobs", !.found = top, !.need = <<TopBlob(top)>>]

BoltGet ==
    /\ LocalAt("copy") /\ Len(copy) = NumPages
    /\ LET got == BoltLookup([p \in 0 .. LastPage |-> copy[p + 1]], opened.want[1], opened.want[2])
       IN  opened' = CASE got.found = "element" -> Open(got.element.value)
                       [] got.found = "absent" -> Open(Unnamed)
                       [] got.found = "broken" -> Fail("broken")
    /\ copy' = << >>
    /\ UNCHANGED othersVars

\* index.json: the image of the tag, or the first.
ReadIndex ==
    /\ LocalAt("table")
    /\ LET listed == SelectSeq([n \in Names |-> n], LAMBDA n : Now[1][n] # Unnamed)
           chosen == SelectSeq(listed, LAMBDA n : opened.want[2] \in {0, n})
       IN  opened' = Open(IF chosen = << >> THEN Unnamed ELSE Now[1][Head(chosen)])
    /\ UNCHANGED <<othersVars, copy>>

\* What is not labelled by an index is what was asked for, or its architecture.
Label(image) ==
    CASE opened.label # Whatever -> opened.label
      [] opened.label = Whatever /\ opened.asked # Whatever -> opened.asked
      [] OTHER -> Platform(PlatformOf[image][1], "")
Identified(image) == [opened EXCEPT !.image = image, !.id = ImageBlob("config", image), !.label = Label(image)]
ZippedLayer(digest) == [digest |-> digest, diff |-> DiffIdsOf[opened.image][Len(opened.layers) + 1]]

\* An index leads to a manifest, a manifest to its config, a config to the layers.
AfterLocalBlob(blob) ==
    CASE blob[1] = "index" ->
            LET image == SelectManifest(imageIndex, opened.asked)
            IN  IF image = Unnamed THEN Fail("no such platform")
                ELSE [opened EXCEPT !.need = <<ImageBlob("manifest", image)>>, !.label = PlatformOf[image]]
      [] blob[1] = "manifest" -> [opened EXCEPT !.need = <<ImageBlob("config", blob[2])>>]
      [] blob[1] = "config" -> [Identified(blob[2]) EXCEPT !.need = LayerBlobsOf(blob[2])]
      [] blob[1] = "layer" ->
            [opened EXCEPT !.need = Tail(@), !.layers = Append(@, ZippedLayer(blob)),
                           !.at = IF Len(opened.need) = 1 THEN "done" ELSE "blobs"]
ReadLocalBlob ==
    /\ LocalAt("blobs")
    /\ opened' = IF Head(opened.need) \in content THEN AfterLocalBlob(Head(opened.need)) ELSE Fail("missing")
    /\ UNCHANGED <<othersVars, copy>>
----------------------------------------------------------------------------
(* An engine, and what it saves *)

\* /version, once; an engine that does not say gets the fallback.
ApiPrefix ==
    /\ LocalAt("version")
    /\ \E prefix \in {engine.api, Fallback} : opened' = [opened EXCEPT !.at = "request", !.prefix = prefix]
    /\ UNCHANGED <<othersVars, copy>>
Accepted == opened.prefix \in engine.least .. engine.api

\* The first image of the archive; its layers are tars, each its own digest.
FromArchive(top, images) ==
    LET image == Head(images) IN
    [Identified(image) EXCEPT !.at = "done", !.found = top,
        !.layers = [k \in DOMAIN DiffIdsOf[image] |->
                       [digest |-> ImageBlob("tar", DiffIdsOf[image][k]), diff |-> DiffIdsOf[image][k]]]]
\* An engine has one platform of an index.
Kept(top) == IF top = "multi" THEN SelectManifest(imageIndex, Whatever) ELSE top
ImageSave ==
    /\ place = "docker-archive" /\ LocalAt("request")
    /\ LET top == Now[1][opened.want[2]]
       IN  opened' = IF ~Accepted THEN Fail("refused")
                     ELSE IF Kept(top) = Unnamed THEN Fail("not found")
                     ELSE FromArchive(top, <<Kept(top)>>)
    /\ UNCHANGED <<othersVars, copy>>
\* A file that was saved at some time, of that image and perhaps of others.
OpenDockerArchive ==
    /\ LocalAt("file")
    /\ \E k \in DOMAIN namings, more \in {<< >>, <<"old">>} :
          LET top == namings[k][1][opened.want[2]]
          IN  opened' = IF Kept(top) = Unnamed THEN Fail("not found") ELSE FromArchive(top, <<Kept(top)>> \o more)
    /\ UNCHANGED <<othersVars, copy>>

\* The container that the reference leads to now.
Container == IF opened.want[2] \in {0, engine.web} THEN engine.web ELSE 0
ContainerInspect ==
    /\ place = "running" /\ LocalAt("request")
    /\ opened' = IF ~Accepted THEN Fail("refused")
                 ELSE IF Container = 0 THEN Fail("not found")
                 ELSE [opened EXCEPT !.at = "export", !.inspected = Container]
    /\ UNCHANGED <<othersVars, copy>>
ContainerExport ==
    /\ LocalAt("export")
    /\ opened' = IF ~Accepted THEN Fail("refused")
                 ELSE IF Container = 0 THEN Fail("not found")
                 ELSE [opened EXCEPT !.at = "top", !.exported = Container]
    /\ UNCHANGED <<othersVars, copy>>
\* An engine that does not answer this leaves the programs unknown.
ContainerTop ==
    /\ LocalAt("top")
    /\ opened' = [opened EXCEPT !.at = "done", !.programs = IF Accepted /\ engine.runs THEN Container ELSE 0]
    /\ UNCHANGED <<othersVars, copy>>
----------------------------------------------------------------------------
FirstPages ==
    [p \in 0 .. LastPage |->
       CASE p \in {0, 1} -> Meta(p, 2)
         [] p = 2 -> Leaf([ns \in Namespaces |-> Bucket(0, NamesLeaf(FirstNames[ns]))])
         [] OTHER -> Blank]

LocalInit ==
    /\ place \in Places /\ imageIndex \in WrittenIndexes
    /\ place \in {"containerd", "running"} => imageIndex = <<"attestation", "arm6", "arm7", "new">>
    /\ place = "docker-archive" => imageIndex \in {<<"attestation", "arm6", "arm7", "new">>, <<"arm7", "arm">>}
    /\ pages = (IF place = "containerd" THEN FirstPages ELSE << >>) /\ namings = <<FirstNames>> /\ writing = Quiet
    /\ content = (IF place = "running" THEN {} ELSE UNION {BlobsOf(top) : top \in Tops})
    /\ engine = [least |-> 24, api |-> 47, web |-> 1, runs |-> TRUE]
    /\ copy = << >> /\ opened = Closed

LocalNext ==
    \/ \E ns \in Namespaces, name \in Names, top \in Tops \cup {Unnamed}, shape \in {"inline", "leaf", "split"} :
          WritePages(ns, name, top, shape)
    \/ WriteMeta \/ CollectGarbage
    \/ \E name \in Names, top \in Tops \cup {Unnamed} : NameImage(name, top)
    \/ UpgradeEngine \/ ReplaceContainer \/ StopContainer
    \/ \E want \in Wanted, asked \in Asked, step \in StepsFrom : AcquireImage(want, asked, step)
    \/ CopyPage \/ BoltGet \/ ReadIndex \/ ReadLocalBlob
    \/ ApiPrefix \/ ImageSave \/ OpenDockerArchive
    \/ ContainerInspect \/ ContainerExport \/ ContainerTop
----------------------------------------------------------------------------
(* What an opened image is *)

\* What the name stood for at some time since the opening began.
StoodFor(top) ==
    \E k \in opened.since .. Len(namings) :
        \E n \in Names : opened.want[2] \in {0, n} /\ namings[k][opened.want[1]][n] = top
\* A copy of meta.db that at most one commit overlaps is the store before or
\* after it (BoltFile): two may reuse the pages that the copy still needs.
NameIsReadBack ==
    (place # "running" /\ opened.overlaps <= 1) =>
        /\ opened.why # "broken"
        /\ opened.found # Unnamed => StoodFor(opened.found)
        /\ opened.why = "not found" => place # "containerd" \/ StoodFor(Unnamed)

\* The image is one that the name stands for, fits what was asked of an index,
\* and has the identity and the layers it has wherever it is kept ("identical SBOM
\* across acquisition paths", container/image.py).
ImageIsTheSameEverywhere ==
    (LocalAt("done") /\ place # "running") =>
        /\ opened.image \in ImagesOf(opened.found) /\ Scannable(opened.image)
        /\ opened.found = "multi" /\ place # "docker-archive" => Fits(opened.image, ParsePlatform(opened.asked))
        /\ opened.id = ImageBlob("config", opened.image)
        /\ [k \in DOMAIN opened.layers |-> opened.layers[k].diff] = DiffIdsOf[opened.image]

\* A blob is missing only when the name has moved on or the store never had it;
\* an engine refuses a version only when it did not say, or was upgraded since;
\* a container named by its id is one container.
FailuresHaveReasons ==
    /\ opened.why = "missing" =>
          Len(namings) > opened.since \/ opened.overlaps > 1 \/ Head(opened.need) \notin BlobsOf(opened.found)
    /\ opened.why = "refused" => opened.upgraded \/ opened.prefix = Fallback
    /\ (LocalAt("done") /\ place = "running" /\ opened.want[2] # 0) =>
          opened.inspected = opened.exported /\ opened.programs \in {0, opened.exported}

\* --all-platforms of a registry scans every image of the index once, if no two have
\* one platform and one without a variant is the first of its architecture: asked
\* of each index before anything happens.
Unambiguous ==
    \A j, k \in DOMAIN imageIndex :
        j < k => PlatformOf[imageIndex[j]] # PlatformOf[imageIndex[k]]
                 /\ (PlatformOf[imageIndex[j]][1] = PlatformOf[imageIndex[k]][1] => PlatformOf[imageIndex[k]][2] # "")
FanOutIsComplete ==
    (place = "oci-layout" /\ LocalAt("idle") /\ Unambiguous) => FanOut = SelectSeq(imageIndex, Scannable)

LocalImagesAreWhole ==
    NameIsReadBack /\ ImageIsTheSameEverywhere /\ FailuresHaveReasons /\ FanOutIsComplete
=============================================================================
