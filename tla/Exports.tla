------------------------------ MODULE Exports -------------------------------
(* What leaves a run and what comes back: the emitters (emit/cyclonedx.py,
   spdx.py, spdx3.py, native.py), the importers (emit/importers.py, spdx3.py),
   sorb convert along any chain of formats, the structural checks of sorb
   validate, the loss report and the page's export of a selection (ui/export.py).
   A component has the facts that some format writes and not every importer
   reads; a purl is its type, name and version; confidences are percentages. *)
EXTENDS Integers, FiniteSetsExt, SequencesExt

VARIABLES
    origin, carried,    \* the run that was scanned, and what the last conversion made of it
    route               \* the formats it has been through

exportVars == <<origin, carried, route>>

Unsaid == "-"
Formats == {"sorb", "cyclonedx", "spdx", "spdx3"}
Foreign == Formats \ {"sorb"}

\* Tiers, the most a component of one is trusted, and an import's confidence.
DeclaredTier == 2
TierCap == [t \in 1 .. 5 |-> <<85, 90, 95, 98, 100>>[t]]
ImportRate == 80

\* What an emitter writes and what the importer of its format knows.
HashesWritten ==
    [cyclonedx |-> {"md5", "sha1", "sha256", "sha384", "sha512", "blake2b", "blake3"},
     spdx      |-> {"md5", "sha1", "sha256", "sha384", "sha512"},
     spdx3     |-> {"md5", "sha1", "sha256", "sha384", "sha512", "blake3"}]
HashesRead ==
    [cyclonedx |-> {"md5", "sha1", "sha256", "sha384", "sha512", "blake3"},
     spdx      |-> {"md5", "sha1", "sha256", "sha512"},
     spdx3     |-> HashesWritten.spdx3]
LinksWritten ==
    [cyclonedx |-> {"DEPENDS_ON"}, spdx |-> {"DEPENDS_ON", "CONTAINS", "RESOLVED_FROM"},
     spdx3     |-> {"DEPENDS_ON", "CONTAINS", "RESOLVED_FROM"}]
LinksRead ==
    [cyclonedx |-> {"DEPENDS_ON"}, spdx |-> {"DEPENDS_ON", "CONTAINS"}, spdx3 |-> LinksWritten.spdx3]
TypeOut(ctype) ==
    CASE ctype \in {"os-package", "resource"}           -> "library"
      [] ctype \in {"build-tool", "windows-service"}    -> "application"
      [] OTHER                                          -> ctype
TypeIn(ctype) ==
    CASE ctype = "operating-system"           -> "os-package"
      [] ctype \in {"application", "file"}    -> ctype
      [] OTHER                                -> "library"
----------------------------------------------------------------------------
(* Emitters *)

Shown(run) == {i \in DOMAIN run.rows : ~run.rows[i].hidden}
PurlOf(c) == <<c.purl, c.name, c.ver>>

\* Components that share a purl share their reference in CycloneDX.
Ref(fmt, c, i) == IF fmt = "cyclonedx" /\ c.purl # Unsaid THEN <<PurlOf(c), 0>> ELSE <<PurlOf(c), i>>
SubjectRef == <<<<Unsaid, "subject", 0>>, 0>>

\* A purl says which ecosystem it is.
EcoFact(c) == IF c.purl = Unsaid THEN c.eco ELSE Unsaid
EmitCyclonedx(c) == [ctype |-> TypeOut(c.ctype), eco |-> EcoFact(c), scope |-> c.scope]
EmitSpdx(c) == [ctype |-> Unsaid, eco |-> EcoFact(c), scope |-> c.scope]
EmitSpdx3(c) == [ctype |-> c.ctype, eco |-> c.eco, scope |-> Unsaid]

OwnFacts(fmt, c) ==
    CASE fmt = "cyclonedx" -> EmitCyclonedx(c) [] fmt = "spdx" -> EmitSpdx(c) [] OTHER -> EmitSpdx3(c)
Entry(fmt, c, i) ==
    LET own == OwnFacts(fmt, c)
    IN  [ref |-> Ref(fmt, c, i), name |-> c.name, ver |-> c.ver, purl |-> c.purl, licence |-> c.licence,
         algos |-> c.algos \cap HashesWritten[fmt], tier |-> c.tier, conf |-> c.conf,
         ctype |-> own.ctype, eco |-> own.eco, scope |-> own.scope]

\* The project's own dependencies become the subject's, or are left out.
SubjectArrows(fmt, run, refs) ==
    CASE fmt = "cyclonedx" ->
            {<<l.kind, SubjectRef, refs[l.to]>> :
               l \in {k \in run.links : k.kind = "DEPENDS_ON" /\ k.from = 0 /\ k.to \in DOMAIN refs}}
      [] fmt = "spdx" -> {<<"DESCRIBES", SubjectRef, refs[i]>> : i \in DOMAIN refs}
      [] OTHER -> {}

Written(fmt, run) ==
    {l \in run.links : l.kind \in LinksWritten[fmt] /\ l.from \in Shown(run) /\ l.to \in Shown(run)}

Document(fmt, run) ==
    LET refs == [i \in DOMAIN run.rows |-> Ref(fmt, run.rows[i], i)]
    IN  [entries |-> [i \in Shown(run) |-> Entry(fmt, run.rows[i], i)],
         arrows  |-> {<<l.kind, refs[l.from], refs[l.to]>> : l \in Written(fmt, run)}
                       \cup SubjectArrows(fmt, run, [i \in Shown(run) |-> refs[i]])]
----------------------------------------------------------------------------
(* Importers *)

\* What a reader passes on of an entry.
ImportCyclonedx(e) == [ctype |-> TypeIn(e.ctype), eco |-> e.eco, scope |-> e.scope, tier |-> e.tier, conf |-> e.conf]
ImportSpdx(e) == [ctype |-> "library", eco |-> e.eco, scope |-> e.scope, tier |-> e.tier, conf |-> e.conf]
ImportSpdx3(e) == [ctype |-> e.ctype, eco |-> Unsaid, scope |-> Unsaid, tier |-> 0, conf |-> 0]
Given(fmt, e) ==
    CASE fmt = "cyclonedx" -> ImportCyclonedx(e) [] fmt = "spdx" -> ImportSpdx(e) [] OTHER -> ImportSpdx3(e)

\* Mutant: without a purl the ecosystem is not asked for.
EcoOfPurl(e, given) == e.purl
EcoIn(e, given) == IF e.purl # Unsaid THEN e.purl ELSE given.eco

\* _Ingest.add: a tier caps the confidence that comes with it; a document that
\* states neither gets those of an import.
Ingest(fmt, e) ==
    LET given == Given(fmt, e)
        tier == IF given.tier = 0 THEN DeclaredTier ELSE given.tier
    IN  [name   |-> e.name, ver |-> e.ver, purl |-> e.purl, licence |-> e.licence, hidden |-> FALSE,
         eco    |-> EcoIn(e, given), ctype |-> given.ctype, scope |-> given.scope, tier |-> tier,
         algos  |-> e.algos \cap HashesRead[fmt],
         conf   |-> IF given.conf = 0 THEN ImportRate ELSE Min({given.conf, TierCap[tier]})]

\* The last component with a reference stands for it.
Import(fmt, doc) ==
    LET named == {doc.entries[i].ref : i \in DOMAIN doc.entries}
        rowOf(ref) == Max({i \in DOMAIN doc.entries : doc.entries[i].ref = ref})
        known == {a \in doc.arrows : a[1] \in LinksRead[fmt] /\ a[2] \in named /\ a[3] \in named}
    IN  [rows  |-> [i \in DOMAIN doc.entries |-> Ingest(fmt, doc.entries[i])],
         links |-> {[kind |-> a[1], from |-> rowOf(a[2]), to |-> rowOf(a[3])] :
                      a \in {b \in known : rowOf(b[2]) # rowOf(b[3])}}]

\* The native format is the tables themselves, what is left out included.
Converted(fmt, run) == IF fmt = "sorb" THEN run ELSE Import(fmt, Document(fmt, run))

\* validate: every dependency starts at a component or the subject, and in SPDX
\* also ends there.
Validates(fmt, doc) ==
    LET refs == {doc.entries[i].ref : i \in DOMAIN doc.entries} \cup {SubjectRef}
    IN  \A a \in doc.arrows : a[2] \in refs /\ (fmt = "spdx" => a[3] \in refs)

\* What validate misses of the minimum elements: SPDX always states a licence,
\* if only that it makes no statement.
Missing(fmt, doc) ==
    UNION {{<<"version", i>> : i \in {j \in DOMAIN doc.entries : doc.entries[j].ver = 0}},
           {<<"hash", i>> : i \in {j \in DOMAIN doc.entries : doc.entries[j].algos = {}}},
           {<<"licence", i>> : i \in {j \in DOMAIN doc.entries : fmt = "cyclonedx" /\ doc.entries[j].licence = Unsaid}},
           {<<"identifier", i>> : i \in {j \in DOMAIN doc.entries : fmt = "spdx" /\ doc.entries[j].purl = Unsaid}}}

\* The loss report: the kinds of fact a format has no place for, of those it knows.
CanExpress == [cyclonedx |-> {"DEPENDS_ON"}, spdx |-> {"DEPENDS_ON", "CONTAINS"}]
Counted == {"DEPENDS_ON", "CONTAINS", "SUPERSEDES"}
LossReport(fmt, run) == ({l.kind : l \in run.links} \cap Counted) \ CanExpress[fmt]
----------------------------------------------------------------------------
(* The page's export: a copy of the run in which what is not selected is left
   out; an empty selection is none. *)

\* Mutant: what the scan held back is exported when it is selected.
HiddenIfUnselected(run, ids, include, i) == i \notin ids
HiddenInCopy(run, ids, include, i) ==
    IF ids = {} THEN run.rows[i].hidden /\ ~include
    ELSE i \notin ids \/ (run.rows[i].hidden /\ ~include)

Copy(run, ids, include) ==
    [run EXCEPT !.rows = [i \in DOMAIN run.rows |-> [run.rows[i] EXCEPT !.hidden = HiddenInCopy(run, ids, include, i)]]]
ExportSbom(run, fmt, ids, include) == Document(fmt, Copy(run, ids, include))
----------------------------------------------------------------------------

\* A component of a run: its facts, and whether the scan held it back.
IsComponent(c) ==
    /\ c = [name |-> c.name, ver |-> c.ver, purl |-> c.purl, licence |-> c.licence, hidden |-> c.hidden, eco |-> c.eco,
            ctype |-> c.ctype, scope |-> c.scope, tier |-> c.tier, algos |-> c.algos, conf |-> c.conf]
    /\ c.hidden \in BOOLEAN /\ c.tier \in 1 .. 5 /\ c.conf \in 1 .. 100

\* A finished run: its components by the number of their row, which is never
\* that of the project, 0, and what links them.
IsRun(run) ==
    /\ run = [rows |-> run.rows, links |-> run.links]
    /\ run.rows = [i \in DOMAIN run.rows |-> run.rows[i]]
    /\ DOMAIN run.rows \subseteq Nat \ {0} /\ IsFiniteSet(DOMAIN run.rows)
    /\ \A i \in DOMAIN run.rows : IsComponent(run.rows[i])

ExportInit(runs) == origin \in runs /\ carried = origin /\ route = {}

Convert(fmt) ==
    /\ carried' = Converted(fmt, carried)
    /\ route' = route \cup {fmt}
    /\ UNCHANGED origin

ExportNext == \E fmt \in Formats : Convert(fmt)
ExportSpec(runs) == ExportInit(runs) /\ [][ExportNext]_exportVars
----------------------------------------------------------------------------
(* Properties *)

Through == route \cap Foreign
Common(reads) == {x \in UNION {reads[f] : f \in Foreign} : \A f \in Through : x \in reads[f]}

\* What a component is after any chain of conversions: the order of the formats
\* does not matter, only which they were.
Remains(c) ==
    LET plain == "spdx3" \notin Through
    IN  [name |-> c.name, ver |-> c.ver, purl |-> c.purl, licence |-> c.licence,
         algos |-> c.algos \cap Common(HashesRead),
         eco   |-> IF c.purl # Unsaid THEN c.purl ELSE IF plain THEN c.eco ELSE Unsaid,
         scope |-> IF plain THEN c.scope ELSE Unsaid,
         tier  |-> IF plain THEN c.tier ELSE DeclaredTier,
         conf  |-> IF plain THEN Min({c.conf, TierCap[c.tier]}) ELSE ImportRate]
Facts(c) == [f \in {"name", "ver", "purl", "licence", "algos", "eco", "scope", "tier", "conf"} |-> c[f]]

\* Links between components, those that share a purl taken together.
Thing(run, i) == IF "cyclonedx" \in Through THEN Ref("cyclonedx", run.rows[i], i) ELSE <<PurlOf(run.rows[i]), i>>
Relations(run, kinds) ==
    {<<l.kind, Thing(run, l.from), Thing(run, l.to)>> :
       l \in {k \in run.links : /\ k.kind \in kinds /\ {k.from, k.to} \subseteq Shown(run)
                                /\ Thing(run, k.from) # Thing(run, k.to)}}

\* A chain of conversions loses what the formats on it have no place for, and
\* nothing else: whatever the order, and however often one comes again.  The
\* native format loses nothing.
ConversionsLoseOnlyThis ==
    IF Through = {} THEN carried = origin
    ELSE /\ DOMAIN carried.rows = Shown(origin)
         /\ \A i \in Shown(origin) :
              /\ Facts(carried.rows[i]) = Remains(origin.rows[i])
              /\ origin.rows[i].ctype = "library" => carried.rows[i].ctype = "library"
         /\ Relations(carried, Common(LinksRead)) = Relations(origin, Common(LinksRead))
         /\ \A l \in carried.links : l.kind \in Common(LinksRead)

\* No conversion makes a document look more complete than the run it comes from,
\* and the loss report names the relations a document is without.
NothingIsMadeUp ==
    \A fmt \in {"cyclonedx", "spdx"} :
      LET before == Document(fmt, origin)
          now == Document(fmt, carried)
          there == {a[1] : a \in before.arrows}
          among == {l.kind : l \in {k \in origin.links : {k.from, k.to} \subseteq Shown(origin)}}
      IN  /\ Missing(fmt, before) \subseteq Missing(fmt, now)
          /\ among \cap {"DEPENDS_ON", "CONTAINS"} \subseteq there \cup LossReport(fmt, origin)
          /\ LossReport(fmt, origin) \cap there = {}

\* The page exports what was selected, what the scan held back only on demand,
\* with the relations among it; and whatever is exported validates.
SelectionIsExact ==
    \A fmt \in {"cyclonedx", "spdx"}, ids \in SUBSET DOMAIN carried.rows, include \in BOOLEAN :
      LET doc == ExportSbom(carried, fmt, ids, include)
          wanted == {i \in DOMAIN carried.rows : (ids = {} \/ i \in ids) /\ (include \/ ~carried.rows[i].hidden)}
          among == {l \in carried.links : l.from \in wanted /\ l.to \in wanted /\ l.kind \in LinksWritten[fmt]}
          ref(i) == Ref(fmt, carried.rows[i], i)
      IN  /\ DOMAIN doc.entries = wanted
          /\ {a \in doc.arrows : a[2] # SubjectRef} = {<<l.kind, ref(l.from), ref(l.to)>> : l \in among}
          /\ Validates(fmt, doc)

DocumentsCarryTheRun == ConversionsLoseOnlyThis /\ NothingIsMadeUp
=============================================================================
