------------------------------ MODULE DocMerge ------------------------------
(***************************************************************************)
(* How merge_stores (core/merge.py) makes one document of several: a       *)
(* union-find over the identity keys of all their components, one merged   *)
(* component per group, and the edges of each document moved to the merged *)
(* components by a table from (label, row id).  The label of a document is *)
(* its file name (cli/commands/interop.py).                                *)
(*                                                                         *)
(* A component is its digest (0: none; one algorithm), whether it has a    *)
(* purl, its package (ecosystem and name, numbered in the order of their   *)
(* names), its version (0: none) and its rank: tier, then confidence.      *)
(***************************************************************************)
EXTENDS Naturals, Sequences, FiniteSets

CONSTANTS
    Documents,    \* number of inputs
    LabelOf,      \* the label of each input
    Described,    \* the components that documents list
    Strategies,   \* the strategies asked for
    MaxEntries,   \* bound: components of all inputs
    MaxLinks      \* bound: edges of all inputs

Document == 1 .. Documents

ASSUME DocMergeAssumption ==
    /\ Documents \in Nat /\ MaxEntries \in Nat /\ MaxLinks \in Nat
    /\ DOMAIN LabelOf = Document
    /\ Strategies \subseteq {"union", "hierarchical", "intersect"}
    /\ Described \subseteq [hash : Nat, purl : BOOLEAN, pkg : Nat, ver : Nat, rank : Nat]

VARIABLES
    strategy,     \* --strategy
    stage,        \* "gather", "link", "done"
    entries,      \* entries: a document, a row of it, what it says
    groupOf,      \* find() of every entry
    written,      \* the merged components, by group
    idMap,        \* id_map: (label, row) to merged component
    links,        \* the edges read so far, between entries of one document
    mergedLinks,  \* the edges written
    describes     \* the subtrees of a hierarchical merge

mergeVars == <<strategy, stage, entries, groupOf, written, idMap, links, mergedLinks, describes>>

Entry == 1 .. Len(entries)
---------------------------------------------------------------------------
(* Groups *)

IdentityKeys(c) ==
    {<<"digest", h, 0>> : h \in {c.hash} \ {0}}
        \cup {<<IF c.purl THEN "purl" ELSE "name", c.pkg, c.ver>>}

KeysOf(i) == IdentityKeys(entries[i].comp)

Smallest(S) == CHOOSE x \in S : \A y \in S : x <= y

\* by_key: the first entry with a key.
HoldersOf(k) == {i \in Entry : k \in KeysOf(i)}
ByKey(k) == Smallest(HoldersOf(k))
MetBy(c) == {ByKey(k) : k \in {q \in IdentityKeys(c) : HoldersOf(q) # {}}}

\* Mutant: the groups it meets stay apart.
JoinFirstOnly(g, n, met) ==
    [x \in DOMAIN g \cup {n} |-> IF x # n THEN g[x]
                                 ELSE IF met = {} THEN n ELSE Smallest({g[y] : y \in met})]

\* Entry n joins the group of every entry in met, and so do their groups.
Join(g, n, met) ==
    LET joined == {g[x] : x \in met}
        head   == IF met = {} THEN n ELSE Smallest(joined)
    IN  [x \in DOMAIN g \cup {n} |->
            IF x = n \/ g[x] \in joined THEN head ELSE g[x]]

GroupHeads == {groupOf[i] : i \in Entry}
InGroup(g) == {i \in Entry : groupOf[i] = g}

LabelsOf(g) == {LabelOf[entries[i].doc] : i \in InGroup(g)}
AllLabels == {LabelOf[d] : d \in Document}
---------------------------------------------------------------------------
(* What is written of a group *)

\* The member of the highest rank, of two the first one.
BestOf(g) ==
    CHOOSE i \in InGroup(g) : \A j \in InGroup(g) :
        \/ entries[j].comp.rank < entries[i].comp.rank
        \/ entries[j].comp.rank = entries[i].comp.rank /\ i <= j

\* hashes.update in the order of the members: the last digest stays.
HashOf(g) ==
    LET hashed == {i \in InGroup(g) : entries[i].comp.hash # 0}
    IN  IF hashed = {} THEN 0
        ELSE entries[CHOOSE i \in hashed : \A j \in hashed : j <= i].comp.hash

\* Mutant: a group is kept whoever lists it.
KeptAnyway(g) == strategy = "intersect" => LabelsOf(g) # {}

Kept(g) == strategy = "intersect" => LabelsOf(g) = AllLabels
KeptGroups == {g \in GroupHeads : Kept(g)}

\* merge-conflict: another merged component of its package has another version.
Disagrees(g) ==
    LET best(h) == entries[BestOf(h)].comp
    IN  \E h \in KeptGroups : best(h).pkg = best(g).pkg /\ best(h).ver # best(g).ver

MergedComponent(g) ==
    [best |-> BestOf(g), hash |-> HashOf(g), sources |-> LabelsOf(g), conflict |-> Disagrees(g)]

\* The groups are written in the order of name and version of their heads.
WrittenBefore(g, h) ==
    LET a == entries[g].comp  b == entries[h].comp
    IN  \/ a.pkg < b.pkg
        \/ a.pkg = b.pkg /\ a.ver < b.ver
        \/ a.pkg = b.pkg /\ a.ver = b.ver /\ g < h

\* The key an entry has in the table, and the groups that write it there.
SourceRow(i) == <<LabelOf[entries[i].doc], entries[i].row>>
WritersOf(k) == {g \in KeptGroups : \E i \in InGroup(g) : SourceRow(i) = k}

\* The last group that writes a row stays.
IdMap ==
    [k \in {SourceRow(i) : i \in {j \in Entry : Kept(groupOf[j])}} |->
        CHOOSE g \in WritersOf(k) : \A h \in WritersOf(k) \ {g} : WrittenBefore(h, g)]
---------------------------------------------------------------------------
(* Actions *)

\* The documents are read one after the other, each in the order of its rows.
NextRow(d) ==
    LET last == entries[Len(entries)]
    IN  IF entries = <<>> THEN 1 ELSE IF last.doc = d THEN last.row + 1 ELSE 1

MergeInit ==
    /\ strategy \in Strategies
    /\ stage = "gather" /\ entries = <<>> /\ groupOf = <<>>
    /\ written = <<>> /\ idMap = <<>>
    /\ links = {} /\ mergedLinks = {} /\ describes = {}

\* The next component of document d, which is not excluded.
Gather(d, c) ==
    /\ stage = "gather" /\ Len(entries) < MaxEntries
    /\ \A i \in Entry : entries[i].doc <= d
    /\ entries' = Append(entries, [doc |-> d, row |-> NextRow(d), comp |-> c])
    /\ groupOf' = Join(groupOf, Len(entries) + 1, MetBy(c))
    /\ UNCHANGED <<strategy, stage, written, idMap, links, mergedLinks, describes>>

WriteComponents ==
    /\ stage = "gather" /\ stage' = "link"
    /\ written' = [g \in KeptGroups |-> MergedComponent(g)]
    /\ idMap' = IdMap
    /\ UNCHANGED <<strategy, entries, groupOf, links, mergedLinks, describes>>

\* An edge of a document, from the component of entry i to that of entry j.
WriteLink(i, j) ==
    /\ stage = "link" /\ Cardinality(links) < MaxLinks
    /\ i # j /\ entries[i].doc = entries[j].doc
    /\ links' = links \cup {<<i, j>>}
    /\ LET src == SourceRow(i)  dst == SourceRow(j)
       IN  mergedLinks' =
             IF src \in DOMAIN idMap /\ dst \in DOMAIN idMap /\ idMap[src] # idMap[dst]
             THEN mergedLinks \cup {<<idMap[src], idMap[dst]>>} ELSE mergedLinks
    /\ UNCHANGED <<strategy, stage, entries, groupOf, written, idMap, describes>>

Finish ==
    /\ stage = "link" /\ stage' = "done"
    /\ describes' = IF strategy = "hierarchical"
                    THEN {<<k[1], idMap[k]>> : k \in DOMAIN idMap} ELSE {}
    /\ UNCHANGED <<strategy, entries, groupOf, written, idMap, links, mergedLinks>>

MergeNext ==
    \/ \E d \in Document, c \in Described : Gather(d, c)
    \/ WriteComponents
    \/ \E i, j \in Entry : WriteLink(i, j)
    \/ Finish

MergeSpec == MergeInit /\ [][MergeNext]_mergeVars
---------------------------------------------------------------------------
(* Properties *)

\* What merging can put together, whatever the order: a set of entries that no
\* identity key leaves.
ClosedUnderKeys(S) ==
    \A i \in S, j \in Entry : KeysOf(i) \cap KeysOf(j) # {} => j \in S

\* Two components of the inputs become one exactly when a chain of shared
\* identity keys leads from one to the other (merge_stores, by_key), in
\* whatever order the documents are named: a component that links two groups
\* brings them together, and nothing else does.
GroupsAreChains ==
    \A i, j \in Entry :
        groupOf[i] = groupOf[j]
            <=> \A S \in SUBSET Entry : i \in S /\ ClosedUnderKeys(S) => j \in S

\* The merged document has the edges of its inputs between the components
\* their ends were merged into, and no others: an edge of one document is never
\* moved to a component of another.  Holds as long as the labels differ.
EdgesKeepTheirEnds ==
    mergedLinks = {<<groupOf[l[1]], groupOf[l[2]]>> :
                     l \in {k \in links : /\ groupOf[k[1]] # groupOf[k[2]]
                                          /\ groupOf[k[1]] \in DOMAIN written
                                          /\ groupOf[k[2]] \in DOMAIN written}}

\* --strategy intersect keeps a component when every document, not every
\* label, lists it (merge_stores, labels != all_labels); the other strategies
\* keep all.  Holds as long as the labels differ.
IntersectMeansEverywhere ==
    stage # "gather" =>
        DOMAIN written =
            {g \in GroupHeads : strategy = "intersect" =>
                 \A d \in Document : \E i \in InGroup(g) : entries[i].doc = d}

\* The merged document keeps the edges between what it keeps, and keeps what
\* its strategy names.
MergeIsFaithful == EdgesKeepTheirEnds /\ IntersectMeansEverywhere
=============================================================================
