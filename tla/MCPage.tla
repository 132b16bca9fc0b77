------------------------------- MODULE MCPage -------------------------------
(* The page of sorb ui: the scans it follows and starts (ScanServer), the
   corrections it edits and the observations that change what it lists
   (StoreEdits), the views it opens (Views), the filter it runs (QueryLang) and
   the documents it exports (Exports).
   They share no state here: a behaviour explores one of them. *)
EXTENDS ScanServer, StoreEdits, Views, QueryLang, Exports

VARIABLE explored

Finds(name, ver, scope) == [name |-> name, ver |-> ver, scope |-> scope]
SmallTrees ==
    {<<>>, <<Finds("a", 0, "runtime")>>, <<Finds("a", 1, "dev"), Finds("a", 2, "runtime")>>,
     <<Finds("s", 1, "runtime")>>,
     <<Finds("a", 2, "runtime"), Finds("s", 0, "runtime"), Finds("s", 1, "runtime"), Finds("s", 2, "runtime")>>}

Mark(kind, name, ver, purl, known) == [kind |-> kind, ref |-> [name |-> name, ver |-> ver, purl |-> purl], eco |-> known]
SomeMarks ==
    {Mark("false-positive", "a", 0, FALSE, FALSE), Mark("false-positive", "a", 1, TRUE, FALSE),
     Mark("missing", "a", 2, FALSE, FALSE), Mark("missing", "s", 2, TRUE, TRUE),
     Mark("missing", "s", 1, FALSE, TRUE), Mark("false-positive", "s", 0, TRUE, FALSE)}

\* Two runs are compared, or one is looked at, or neither.
NoView ==
    /\ eco = [c \in Listable |-> 1] /\ hidden = {} /\ links = {} /\ stack = {} /\ paths = {} /\ old = {} /\ new = {}

\* Two components, one of them like the first or different in one respect: two
\* that share a purl, an ecosystem that is not its purl's, no purl at all, one
\* that was asserted; and up to two links between them and the project.
Plain(n, v, type, known, kind) ==
    [name |-> n, ver |-> v, purl |-> type, eco |-> known, ctype |-> kind, tier |-> 3, conf |-> 93,
     scope |-> "dev", algos |-> {"sha256"}, licence |-> "MIT", hidden |-> FALSE]
Like(c) ==
    {c, [c EXCEPT !.tier = 2, !.conf = 100], [c EXCEPT !.scope = Unsaid], [c EXCEPT !.hidden = TRUE],
     [c EXCEPT !.algos = {"sha384", "blake2b", "h1"}], [c EXCEPT !.licence = Unsaid]}
Sorts ==
    {Plain("a", 1, "npm", "npm", "library"), Plain("b", 1, "generic", "meson", "library"),
     Plain("c", 0, Unsaid, "windows", "windows-service"), Plain("o", 1, Unsaid, Unsaid, "operating-system")}
Rels ==
    {[kind |-> "DEPENDS_ON", from |-> 0, to |-> 1]} \cup
    {[kind |-> k, from |-> i, to |-> 3 - i] : k \in {"DEPENDS_ON", "CONTAINS", "RESOLVED_FROM"}, i \in 1 .. 2}
ConvertedRuns ==
    {[rows |-> <<c, d>>, links |-> S] :
       c \in UNION {Like(k) : k \in Sorts}, d \in Sorts, S \in {T \in SUBSET Rels : Cardinality(T) <= 2}}
EmptyRun == {[rows |-> << >>, links |-> {}]}
ASSUME RunsAreRuns == \A any \in ConvertedRuns \cup EmptyRun : IsRun(any)

PageInit ==
    /\ explored \in {"scans", "edits", "views", "query", "exports"}
    /\ Init /\ StoreInit /\ QueryInit
    /\ IF explored = "views" THEN ViewInit ELSE NoView
    /\ ExportInit(IF explored = "exports" THEN ConvertedRuns ELSE EmptyRun)

PageNext ==
    /\ UNCHANGED explored
    /\ \/ explored = "scans" /\ Next /\ UNCHANGED <<storeVars, viewVars, queryVars, exportVars>>
       \/ explored = "edits" /\ StoreNext /\ UNCHANGED <<vars, viewVars, queryVars, exportVars>>
       \/ explored = "views" /\ ViewNext /\ UNCHANGED <<vars, storeVars, queryVars, exportVars>>
       \/ explored = "query" /\ QueryNext /\ UNCHANGED <<vars, storeVars, viewVars, exportVars>>
       \/ explored = "exports" /\ ExportNext /\ UNCHANGED <<vars, storeVars, viewVars, queryVars>>

PageSpec == PageInit /\ [][PageNext]_<<vars, storeVars, viewVars, queryVars, exportVars, explored>>
=============================================================================
