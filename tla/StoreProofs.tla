----------------------------- MODULE StoreProofs -----------------------------
(***************************************************************************)
(* What is done with the results of a scan, proved for any packages,       *)
(* corrections, sessions and runs: the corrections that are applied and    *)
(* the sessions that are traced (StoreEdits), the views of a run and the   *)
(* comparison of two (Views), what the page exports (Exports), and what a  *)
(* query of any length means (QueryLang); and what the page is told of     *)
(* scans while they run, for any number of threads, browsers, connections, *)
(* edits and failures (ScanServer).                                        *)
(***************************************************************************)
EXTENDS ScanServer, StoreEdits, Views, QueryLang, Exports, FiniteSetTheorems, WellFoundedInduction, TLAPS

(***************************************************************************)
(* The corrections and the traced sessions                                 *)
(***************************************************************************)

\* A set of counts that holds 0 and goes on from each to the next holds all.
LEMMA CountUp ==
    ASSUME NEW n \in Nat, NEW G, 0 \in G, \A k \in 1 .. n : k - 1 \in G => k \in G
    PROVE  \A k \in 0 .. n : k \in G
<1> DEFINE bad == {k \in 0 .. n : k \notin G}
<1> SUFFICES ASSUME bad # {} PROVE FALSE
    OBVIOUS
<1>1. bad \subseteq Nat
    OBVIOUS
<1>2. PICK x \in bad : \A y \in bad : ~(<<y, x>> \in OpToRel(<, Nat))
  <2> HIDE DEF bad
  <2> QED
    BY <1>1, NatLessThanWellFounded, WFMin, Zenon
<1>3. \A y \in bad : ~(y < x)
    BY <1>1, <1>2 DEF OpToRel
<1>4. x \in 1 .. n /\ x - 1 \in 0 .. n /\ x - 1 < x
    OBVIOUS
<1>5. x - 1 \in G
    BY <1>3, <1>4
<1> QED
    BY <1>4, <1>5

Follows(f, n, S, base, step) ==
    f \in [0 .. n -> S] /\ f[0] = base /\ \A k \in 1 .. n : f[k] = step[k][f[k - 1]]
Runs(n, S, base, step) == \E f : Follows(f, n, S, base, step)

\* A loop over n steps passes through a value after each.
LEMMA LoopRuns ==
    ASSUME NEW n \in Nat, NEW S, NEW base \in S, NEW step \in [1 .. n -> [S -> S]]
    PROVE  Runs(n, S, base, step)
<1> DEFINE tries(m) == {f \in [0 .. m -> S] : f[0] = base /\ \A k \in 1 .. m : f[k] = step[k][f[k - 1]]}
           G == {m \in 0 .. n : tries(m) # {}}
<1>1. 0 \in G
  <2> DEFINE f == [k \in 0 .. 0 |-> base]
  <2>1. f \in tries(0)
      OBVIOUS
  <2> QED
      BY <2>1
<1>2. ASSUME NEW m \in 1 .. n, m - 1 \in G PROVE m \in G
  <2>1. PICK f \in [0 .. m - 1 -> S] : f[0] = base /\ \A k \in 1 .. m - 1 : f[k] = step[k][f[k - 1]]
      BY <1>2
  <2> DEFINE g == [k \in 0 .. m |-> IF k = m THEN step[m][f[m - 1]] ELSE f[k]]
  <2>2. f[m - 1] \in S /\ step[m][f[m - 1]] \in S
    <3>1. m - 1 \in 0 .. m - 1
        OBVIOUS
    <3>2. step[m] \in [S -> S]
        OBVIOUS
    <3> QED
        BY <2>1, <3>1, <3>2
  <2>3. g \in [0 .. m -> S]
    <3> SUFFICES ASSUME NEW k \in 0 .. m PROVE (IF k = m THEN step[m][f[m - 1]] ELSE f[k]) \in S
        OBVIOUS
    <3>1. k # m => k \in 0 .. m - 1
        OBVIOUS
    <3> QED
        BY <2>2, <3>1
  <2>4. g[0] = base
      BY <2>1
  <2>5. ASSUME NEW k \in 1 .. m PROVE g[k] = step[k][g[k - 1]]
    <3>1. CASE k = m
        BY <3>1
    <3>2. CASE k # m
      <4>1. k \in 1 .. m - 1 /\ k \in 0 .. m /\ k - 1 \in 0 .. m /\ k - 1 # m
          BY <3>2
      <4>2. g[k] = f[k] /\ g[k - 1] = f[k - 1]
          BY <4>1, <3>2
      <4> QED
          BY <2>1, <4>1, <4>2
    <3> QED
        BY <3>1, <3>2
  <2>6. g \in tries(m)
      BY <2>3, <2>4, <2>5
  <2> QED
      BY <2>6
<1>3. \A k \in 0 .. n : k \in G
  <2> HIDE DEF G
  <2> QED
      BY <1>1, <1>2, CountUp
<1>4. n \in G
    BY <1>3
<1>5. PICK f \in [0 .. n -> S] : f[0] = base /\ \A k \in 1 .. n : f[k] = step[k][f[k - 1]]
    BY <1>4
<1>6. Follows(f, n, S, base, step)
    BY <1>5 DEF Follows
<1> QED
    BY <1>6 DEF Runs

Notes == {"user-asserted", "user-false-positive", "runtime-observed", "drift:observed-not-declared",
          "declared-never-observed"}
Row == [name : Names, ver : Version \cup {0}, purl : BOOLEAN, eco : BOOLEAN,
        scope : Scopes \cup {"runtime-observed"}, tier : 1 .. 5, from : {"scan", "user", "trace"},
        excluded : BOOLEAN, notes : SUBSET Notes]

LEMMA MarkFields ==
    ASSUME NEW e \in Marks
    PROVE  /\ e.kind \in Kinds /\ e.ref.name \in Names /\ e.ref.ver \in Version \cup {0}
           /\ e.ref.purl \in BOOLEAN /\ e.eco \in BOOLEAN
<1>1. e \in [kind : Kinds, ref : UNION {RefsTo(n) : n \in Names}, eco : BOOLEAN]
    BY MarksAreEntries
<1>2. PICK n \in Names : e.ref \in RefsTo(n)
    BY <1>1
<1> QED
    BY <1>1, <1>2 DEF RefsTo

LEMMA AssertedIsRow ==
    ASSUME NEW e \in Marks
    PROVE  /\ Asserted(e) \in Row
           /\ Asserted(e).name = e.ref.name /\ Asserted(e).ver = e.ref.ver /\ Asserted(e).from = "user"
           /\ Asserted(e).purl = e.ref.purl /\ Asserted(e).tier # Observed /\ ~Asserted(e).excluded
<1>1. /\ e.ref.name \in Names /\ e.ref.ver \in Version \cup {0}
      /\ e.ref.purl \in BOOLEAN /\ e.eco \in BOOLEAN
    BY MarkFields
<1> DEFINE c == Component(e.ref.name, e.ref.ver, e.ref.purl, "", Tier.DECLARED, "user")
<1>2. 2 \in 1 .. 5 /\ "" \in Scopes /\ {} \in SUBSET Notes /\ {"user-asserted"} \in SUBSET Notes /\ 2 # Observed
      /\ Tier.DECLARED = 2
    BY DEF Scopes, Notes, Observed, Tier
<1>3. /\ c \in Row /\ c.name = e.ref.name /\ c.ver = e.ref.ver /\ c.from = "user"
      /\ c.purl = e.ref.purl /\ c.tier = 2 /\ ~c.excluded
    BY <1>1, <1>2 DEF Component, Row
<1>4. Asserted(e) = [c EXCEPT !.eco = e.eco, !.notes = {"user-asserted"}]
    BY DEF Asserted
<1> HIDE DEF c
<1>5. PICK r \in Row : r = c
    BY <1>3
<1> QED
    BY <1>1, <1>2, <1>3, <1>4, <1>5 DEF Row

\* What is asserted when nothing answers to it.
LEMMA ExcludeRows ==
    ASSUME NEW rows \in Seq(Row), NEW hits
    PROVE  /\ Exclude(rows, hits) \in Seq(Row) /\ Len(Exclude(rows, hits)) = Len(rows)
           /\ \A i \in 1 .. Len(rows) :
                /\ Exclude(rows, hits)[i].excluded <=> (rows[i].excluded \/ i \in hits)
                /\ Exclude(rows, hits)[i].name = rows[i].name /\ Exclude(rows, hits)[i].ver = rows[i].ver
                /\ Exclude(rows, hits)[i].from = rows[i].from /\ Exclude(rows, hits)[i].purl = rows[i].purl
                /\ Exclude(rows, hits)[i].tier = rows[i].tier
<1> DEFINE marked1(i) == IF i \in hits /\ ~rows[i].excluded
                         THEN [rows[i] EXCEPT !.excluded = TRUE, !.notes = @ \cup {"user-false-positive"}] ELSE rows[i]
<1>1. DOMAIN rows = 1 .. Len(rows) /\ Len(rows) \in Nat
    OBVIOUS
<1>2. ASSUME NEW i \in 1 .. Len(rows)
      PROVE  /\ marked1(i) \in Row
             /\ marked1(i).excluded <=> (rows[i].excluded \/ i \in hits)
             /\ marked1(i).name = rows[i].name /\ marked1(i).ver = rows[i].ver
             /\ marked1(i).from = rows[i].from /\ marked1(i).purl = rows[i].purl /\ marked1(i).tier = rows[i].tier
  <2>1. PICK r \in Row : r = rows[i]
      OBVIOUS
  <2> QED
      BY <2>1 DEF Row, Notes
<1>3. Exclude(rows, hits) = [i \in 1 .. Len(rows) |-> marked1(i)]
    BY <1>1 DEF Exclude
<1> HIDE DEF marked1
<1>4. Exclude(rows, hits) \in Seq(Row) /\ Len(Exclude(rows, hits)) = Len(rows)
    BY <1>1, <1>2, <1>3
<1>5. \A i \in 1 .. Len(rows) : Exclude(rows, hits)[i] = marked1(i)
    BY <1>3
<1> QED
    BY <1>2, <1>4, <1>5

LEMMA CorrectionKeepsRows ==
    ASSUME NEW rows \in Seq(Row), NEW e \in Marks
    PROVE  ApplyCorrection(rows, e) \in Seq(Row)
<1>1. Exclude(rows, FindComponent(rows, e.ref)) \in Seq(Row)
    BY ExcludeRows
<1>2. AssertMissing(rows, e) \in Seq(Row)
    BY AssertedIsRow DEF AssertMissing
<1> QED
    BY <1>1, <1>2 DEF ApplyCorrection

\* The corrections are applied one after the other.
LEMMA AppliedInTurn ==
    ASSUME NEW rows \in Seq(Row), NEW entries \in Seq(Marks)
    PROVE  \E done \in [0 .. Len(entries) -> Seq(Row)] :
              /\ done[0] = rows
              /\ \A k \in 1 .. Len(entries) : done[k] = ApplyCorrection(done[k - 1], entries[k])
              /\ ApplyCorrections(rows, entries) = done[Len(entries)]
<1> DEFINE n == Len(entries)
           step == [k \in 1 .. n |-> [r \in Seq(Row) |-> ApplyCorrection(r, entries[k])]]
           Unrolls(f) == f = [k \in 0 .. n |-> IF k = 0 THEN rows ELSE ApplyCorrection(f[k - 1], entries[k])]
           loop == CHOOSE f : Unrolls(f)
<1>1. n \in Nat /\ \A k \in 1 .. n : entries[k] \in Marks
    OBVIOUS
<1>2. step \in [1 .. n -> [Seq(Row) -> Seq(Row)]]
    BY <1>1, CorrectionKeepsRows
<1>3. PICK f \in [0 .. n -> Seq(Row)] : f[0] = rows /\ \A k \in 1 .. n : f[k] = step[k][f[k - 1]]
  <2> DEFINE S == Seq(Row)
  <2>1. n \in Nat /\ rows \in S /\ step \in [1 .. n -> [S -> S]]
      BY <1>1, <1>2
  <2>2. Runs(n, S, rows, step)
    <3> HIDE DEF S, step, n
    <3> QED
        BY <2>1, LoopRuns
  <2>3. PICK f : Follows(f, n, S, rows, step)
    <3> HIDE DEF S, step, n
    <3> QED
        BY <2>2 DEF Runs
  <2> QED
      BY <2>3 DEF Follows
<1>4. ASSUME NEW k \in 1 .. n PROVE f[k] = ApplyCorrection(f[k - 1], entries[k])
  <2>1. k - 1 \in 0 .. n
      BY <1>1
  <2> QED
      BY <1>3, <2>1
<1>5. Unrolls(f)
    BY <1>1, <1>3, <1>4
<1>6. Unrolls(loop)
  <2> HIDE DEF Unrolls
  <2> QED
      BY <1>5
<1>7. ApplyCorrections(rows, entries) = loop[n]
    BY DEF ApplyCorrections
<1>10. loop = [k \in 0 .. n |-> IF k = 0 THEN rows ELSE ApplyCorrection(loop[k - 1], entries[k])]
    BY <1>6
<1> HIDE DEF loop, Unrolls
<1> DEFINE H == {k \in 0 .. n : loop[k] = f[k]}
<1>8. \A k \in 0 .. n : k \in H
  <2>1. 0 \in H
    <3>1. 0 \in 0 .. n
        BY <1>1
    <3>2. loop[0] = rows
        BY <1>10, <3>1
    <3> QED
        BY <1>3, <3>1, <3>2
  <2>2. ASSUME NEW k \in 1 .. n, k - 1 \in H PROVE k \in H
    <3>1. loop[k] = ApplyCorrection(loop[k - 1], entries[k])
        BY <1>1, <1>10
    <3>2. loop[k - 1] = f[k - 1]
        BY <2>2
    <3> QED
        BY <1>4, <3>1, <3>2
  <2> HIDE DEF H
  <2> QED
      BY <1>1, <2>1, <2>2, CountUp
<1>9. loop[n] = f[n]
    BY <1>1, <1>8
<1> QED
    BY <1>3, <1>4, <1>7, <1>9

OnRecord(entries) == {entries[i] : i \in DOMAIN entries}

\* What remains when a mark is removed are the others.
LEMMA RemovedFromRecord ==
    ASSUME NEW entries \in Seq(Marks), NEW e \in Marks
    PROVE  /\ RemoveCorrection(entries, e) \in Seq(Marks)
           /\ OnRecord(RemoveCorrection(entries, e)) = {m \in OnRecord(entries) : ~SameMark(m, e)}
<1> DEFINE n == Len(entries)
           S == Seq(Marks)
           next(kept, k) == KeepOther(kept, entries[k], e)
           step == [k \in 1 .. n |-> [kept \in S |-> next(kept, k)]]
           Unrolls(f) == f = [k \in 0 .. n |-> IF k = 0 THEN << >> ELSE KeepOther(f[k - 1], entries[k], e)]
           loop == CHOOSE f : Unrolls(f)
<1>1. n \in Nat /\ << >> \in S /\ DOMAIN entries = 1 .. n /\ \A k \in 1 .. n : entries[k] \in Marks
    OBVIOUS
<1>2. \A k \in 1 .. n, kept \in S : next(kept, k) \in S
    BY <1>1 DEF KeepOther
<1>3. step \in [1 .. n -> [S -> S]]
    BY <1>2
<1>4. Runs(n, S, << >>, step)
  <2> HIDE DEF S, step, n
  <2> QED
      BY <1>1, <1>3, LoopRuns
<1>5. PICK f : Follows(f, n, S, << >>, step)
  <2> HIDE DEF S, step, n
  <2> QED
      BY <1>4 DEF Runs
<1>6. f \in [0 .. n -> S] /\ f[0] = << >> /\ \A k \in 1 .. n : f[k] = step[k][f[k - 1]]
    BY <1>5 DEF Follows
<1>7. ASSUME NEW k \in 1 .. n PROVE f[k] = next(f[k - 1], k) /\ f[k - 1] \in S
  <2>1. k - 1 \in 0 .. n
      BY <1>1
  <2>2. f[k - 1] \in S
      BY <1>6, <2>1
  <2>3. step[k][f[k - 1]] = next(f[k - 1], k)
    <3> HIDE DEF next
    <3> QED
        BY <2>2
  <2> QED
      BY <1>6, <2>2, <2>3
<1>8. Unrolls(f)
    BY <1>1, <1>6, <1>7
<1>9. Unrolls(loop)
  <2> HIDE DEF Unrolls
  <2> QED
      BY <1>8
<1>10. RemoveCorrection(entries, e) = loop[n]
    BY DEF RemoveCorrection
<1>11. loop = [k \in 0 .. n |-> IF k = 0 THEN << >> ELSE KeepOther(loop[k - 1], entries[k], e)]
    BY <1>9
<1> DEFINE others(k) == {m \in {entries[i] : i \in 1 .. k} : ~SameMark(m, e)}
           H == {k \in 0 .. n : loop[k] = f[k] /\ OnRecord(f[k]) = others(k)}
<1> HIDE DEF loop, Unrolls, S, n
<1>12. 0 \in H
  <2>1. 0 \in 0 .. n
      BY <1>1
  <2>2. loop[0] = << >>
      BY <1>11, <2>1
  <2>3. OnRecord(<< >>) = {} /\ others(0) = {}
      BY DEF OnRecord
  <2> QED
      BY <1>6, <2>1, <2>2, <2>3
<1>13. ASSUME NEW k \in 1 .. n, k - 1 \in H PROVE k \in H
  <2>1. loop[k - 1] = f[k - 1] /\ OnRecord(f[k - 1]) = others(k - 1)
      BY <1>13
  <2>2. loop[k] = next(loop[k - 1], k)
      BY <1>1, <1>11
  <2>3. loop[k] = f[k]
    <3> HIDE DEF next
    <3> QED
        BY <1>7, <2>1, <2>2
  <2>4. PICK kept \in Seq(Marks) : kept = f[k - 1]
      BY <1>7 DEF S
  <2>5. others(k) = IF SameMark(entries[k], e) THEN others(k - 1) ELSE others(k - 1) \cup {entries[k]}
    <3>1. 1 .. k = (1 .. k - 1) \cup {k}
        BY <1>1
    <3> QED
        BY <3>1
  <2>6. OnRecord(next(kept, k)) = IF SameMark(entries[k], e) THEN OnRecord(kept) ELSE OnRecord(kept) \cup {entries[k]}
    <3>1. CASE SameMark(entries[k], e)
        BY <3>1 DEF KeepOther
    <3>2. CASE ~SameMark(entries[k], e)
      <4> DEFINE x == entries[k]
                 more == Append(kept, x)
      <4>1. DOMAIN kept = 1 .. Len(kept) /\ DOMAIN more = 1 .. Len(kept) + 1 /\ Len(kept) \in Nat
          BY <1>1
      <4>2. more[Len(kept) + 1] = x /\ \A i \in 1 .. Len(kept) : more[i] = kept[i]
          BY <1>1
      <4> HIDE DEF x, more
      <4>3. OnRecord(more) = OnRecord(kept) \cup {x}
          BY <4>1, <4>2 DEF OnRecord
      <4> QED
          BY <3>2, <4>3 DEF x, more, KeepOther
    <3> QED
        BY <3>1, <3>2
  <2>7. OnRecord(f[k]) = others(k)
    <3> HIDE DEF next, others
    <3> QED
        BY <1>7, <2>1, <2>4, <2>5, <2>6
  <2>8. k \in 0 .. n
      BY <1>1
  <2> QED
      BY <2>3, <2>7, <2>8
<1>14. \A k \in 0 .. n : k \in H
  <2> HIDE DEF H
  <2> QED
      BY <1>1, <1>12, <1>13, CountUp
<1>15. loop[n] = f[n] /\ OnRecord(f[n]) = others(n) /\ f[n] \in S
    BY <1>1, <1>6, <1>14
<1>16. others(n) = {m \in OnRecord(entries) : ~SameMark(m, e)}
    BY <1>1 DEF OnRecord
<1> QED
    BY <1>10, <1>15, <1>16 DEF S

LEMMA AddedToRecord ==
    ASSUME NEW entries \in Seq(Marks), NEW e \in Marks
    PROVE  /\ AddCorrection(entries, e) \in Seq(Marks)
           /\ AddCorrection(entries, e) # entries => OnRecord(AddCorrection(entries, e)) = OnRecord(entries) \cup {e}
<1>1. CASE \E i \in DOMAIN entries : SameMark(entries[i], e)
    BY <1>1 DEF AddCorrection
<1>2. CASE ~\E i \in DOMAIN entries : SameMark(entries[i], e)
  <2> DEFINE more == Append(entries, e)
  <2>1. AddCorrection(entries, e) = more
      BY <1>2 DEF AddCorrection
  <2>2. more \in Seq(Marks) /\ DOMAIN more = 1 .. Len(entries) + 1 /\ Len(entries) \in Nat
      OBVIOUS
  <2>3. DOMAIN entries = 1 .. Len(entries) /\ more[Len(entries) + 1] = e
        /\ \A i \in 1 .. Len(entries) : more[i] = entries[i]
      OBVIOUS
  <2> HIDE DEF more
  <2>4. OnRecord(more) = OnRecord(entries) \cup {e}
      BY <2>2, <2>3 DEF OnRecord
  <2> QED
      BY <2>1, <2>2, <2>4
<1> QED
    BY <1>1, <1>2

\* While the corrections are applied: what the scanner found comes first, what
\* was asserted after it, and the marks so far are obeyed.
Applying(rows, size, marks) ==
    /\ rows \in Seq(Row) /\ size \in 0 .. Len(rows)
    /\ \A i \in 1 .. Len(rows) :
         /\ rows[i].from = IF i <= size THEN "scan" ELSE "user"
         /\ i <= size => rows[i].purl
         /\ rows[i].tier # Observed
         /\ IsMarked(rows[i], marks)
         /\ rows[i].from = "user" /\ rows[i].name \notin Scoped => IsNew(rows, rows[i])
         /\ rows[i].from = "user" /\ rows[i].purl /\ rows[i].ver = 0 => Scanned(rows, rows[i].name) = {}
    /\ \A e \in marks : e.ref.purl \/ e.ref.name \notin Scoped => Obeyed(rows, e)

\* What answers to a reference is what it means.
LEMMA FoundIsMeant ==
    ASSUME NEW rows \in Seq(Row), NEW e \in Marks, NEW i \in FindComponent(rows, e.ref)
    PROVE  i \in DOMAIN rows /\ Means(e.ref, rows[i])
BY DEF FindComponent, Means

LEMMA MeantIsFound ==
    ASSUME NEW rows, NEW size, NEW marks, Applying(rows, size, marks), NEW e \in Marks,
           e.ref.purl \/ e.ref.name \notin Scoped
    PROVE  MeansScanned(rows, e.ref) \subseteq FindComponent(rows, e.ref)
<1> DEFINE ref == e.ref
           named == {i \in DOMAIN rows : rows[i].name = ref.name}
           exact == {i \in named : rows[i].ver = ref.ver}
           pure(S) == {i \in S : rows[i].purl}
           met == Scanned(rows, ref.name)
           plain == {i \in met : rows[i].ver = ref.ver}
<1>1. rows \in Seq(Row) /\ DOMAIN rows = 1 .. Len(rows)
    BY DEF Applying
<1>2. \A i \in met : i \in named /\ rows[i].purl
    BY <1>1 DEF Applying, Scanned
<1>3. FindComponent(rows, ref) = IF ref.purl THEN IF pure(exact) # {} \/ ref.ver # 0 THEN pure(exact) ELSE pure(named)
                                 ELSE IF ref.name \in Scoped THEN {} ELSE IF ref.ver # 0 THEN exact ELSE named
    BY DEF FindComponent
<1>4. MeansScanned(rows, ref) = IF ref.ver # 0 \/ (ref.purl /\ plain # {}) THEN plain ELSE met
    BY DEF MeansScanned
<1>5. plain \subseteq exact /\ plain \subseteq pure(exact) /\ met \subseteq pure(named) /\ met \subseteq named
    BY <1>2
<1>6. ASSUME ref.purl, ref.ver = 0, plain = {}, pure(exact) # {}
      PROVE  met = {}
  <2>1. PICK i \in named : rows[i].ver = 0 /\ rows[i].purl
      BY <1>6
  <2>2. rows[i].from # "scan"
      BY <1>6, <2>1 DEF Scanned
  <2>3. rows[i].from = "user" /\ i \in 1 .. Len(rows)
      BY <1>1, <2>1, <2>2 DEF Applying
  <2> QED
      BY <2>1, <2>3 DEF Applying
<1> HIDE DEF named, exact, pure, met, plain
<1>7. CASE ref.purl
  <2>1. CASE ref.ver # 0
    <3>1. MeansScanned(rows, ref) = plain /\ FindComponent(rows, ref) = pure(exact)
        BY <1>3, <1>4, <1>7, <2>1
    <3> QED
        BY <1>5, <3>1
  <2>2. CASE ref.ver = 0 /\ plain # {}
    <3>1. MeansScanned(rows, ref) = plain /\ FindComponent(rows, ref) = pure(exact)
        BY <1>3, <1>4, <1>5, <1>7, <2>2
    <3> QED
        BY <1>5, <3>1
  <2>3. CASE ref.ver = 0 /\ plain = {} /\ pure(exact) # {}
    <3>1. MeansScanned(rows, ref) = {}
        BY <1>4, <1>6, <1>7, <2>3
    <3> QED
        BY <3>1
  <2>4. CASE ref.ver = 0 /\ plain = {} /\ pure(exact) = {}
    <3>1. MeansScanned(rows, ref) = met /\ FindComponent(rows, ref) = pure(named)
        BY <1>3, <1>4, <1>7, <2>4
    <3> QED
        BY <1>5, <3>1
  <2> QED
      BY <2>1, <2>2, <2>3, <2>4
<1>8. CASE ~ref.purl
  <2>1. ref.name \notin Scoped
      BY <1>8
  <2>2. CASE ref.ver # 0
    <3>1. MeansScanned(rows, ref) = plain /\ FindComponent(rows, ref) = exact
        BY <1>3, <1>4, <1>8, <2>1, <2>2
    <3> QED
        BY <1>5, <3>1
  <2>3. CASE ref.ver = 0
    <3>1. MeansScanned(rows, ref) = met /\ FindComponent(rows, ref) = named
        BY <1>3, <1>4, <1>8, <2>1, <2>3
    <3> QED
        BY <1>5, <3>1
  <2> QED
      BY <2>2, <2>3
<1> QED
    BY <1>7, <1>8

\* Rows that agree in what the scanner found are meant alike.
LEMMA SameScanned ==
    ASSUME NEW rows \in Seq(Row), NEW more \in Seq(Row), Len(rows) <= Len(more),
           \A i \in 1 .. Len(more) :
              IF i <= Len(rows) THEN more[i].from = rows[i].from /\ more[i].name = rows[i].name /\ more[i].ver = rows[i].ver
              ELSE more[i].from # "scan"
    PROVE  /\ \A name : Scanned(more, name) = Scanned(rows, name)
           /\ \A ref : MeansScanned(more, ref) = MeansScanned(rows, ref)
           /\ \A row : IsNew(more, row) <=> IsNew(rows, row)
<1>1. DOMAIN rows = 1 .. Len(rows) /\ DOMAIN more = 1 .. Len(more) /\ Len(rows) \in Nat /\ Len(more) \in Nat
    OBVIOUS
<1>2. ASSUME NEW name PROVE Scanned(more, name) = Scanned(rows, name)
    BY <1>1 DEF Scanned
<1>3. ASSUME NEW name, NEW i \in Scanned(rows, name) PROVE i \in 1 .. Len(rows) /\ more[i].ver = rows[i].ver
    BY <1>1 DEF Scanned
<1>4. ASSUME NEW ref PROVE MeansScanned(more, ref) = MeansScanned(rows, ref)
  <2>1. {i \in Scanned(more, ref.name) : more[i].ver = ref.ver} = {i \in Scanned(rows, ref.name) : rows[i].ver = ref.ver}
      BY <1>2, <1>3
  <2> QED
      BY <1>2, <2>1 DEF MeansScanned
<1>5. ASSUME NEW row PROVE IsNew(more, row) <=> IsNew(rows, row)
    BY <1>2, <1>3 DEF IsNew
<1> QED
    BY <1>2, <1>4, <1>5

LEMMA ExclusionApplies ==
    ASSUME NEW rows, NEW size, NEW marks, Applying(rows, size, marks), NEW e \in Marks, e.kind = "false-positive"
    PROVE  Applying(ApplyCorrection(rows, e), size, marks \cup {e})
<1> DEFINE hits == FindComponent(rows, e.ref)
           got == Exclude(rows, hits)
<1>0. rows \in Seq(Row) /\ size \in 0 .. Len(rows) /\ DOMAIN rows = 1 .. Len(rows)
    BY DEF Applying
<1>1. ApplyCorrection(rows, e) = got
    BY DEF ApplyCorrection
<1>2. /\ got \in Seq(Row) /\ Len(got) = Len(rows)
      /\ \A i \in 1 .. Len(rows) :
           /\ got[i].excluded <=> (rows[i].excluded \/ i \in hits)
           /\ got[i].name = rows[i].name /\ got[i].ver = rows[i].ver
           /\ got[i].from = rows[i].from /\ got[i].purl = rows[i].purl
           /\ got[i].tier = rows[i].tier
    BY <1>0, ExcludeRows
<1> HIDE DEF got
<1>3. /\ \A name : Scanned(got, name) = Scanned(rows, name)
      /\ \A ref : MeansScanned(got, ref) = MeansScanned(rows, ref)
      /\ \A row : IsNew(got, row) <=> IsNew(rows, row)
  <2>1. \A i \in 1 .. Len(got) :
           IF i <= Len(rows) THEN got[i].from = rows[i].from /\ got[i].name = rows[i].name /\ got[i].ver = rows[i].ver
           ELSE got[i].from # "scan"
      BY <1>0, <1>2
  <2>2. Len(rows) <= Len(got)
      BY <1>0, <1>2
  <2> QED
      BY <1>0, <1>2, <2>1, <2>2, SameScanned
<1>4. \A i \in hits : i \in 1 .. Len(rows) /\ Means(e.ref, rows[i])
    BY <1>0, FoundIsMeant
<1> HIDE DEF hits
<1>5. ASSUME NEW i \in 1 .. Len(got)
      PROVE  /\ got[i].from = IF i <= size THEN "scan" ELSE "user"
             /\ i <= size => got[i].purl
             /\ got[i].tier # Observed
             /\ IsMarked(got[i], marks \cup {e})
             /\ got[i].from = "user" /\ got[i].name \notin Scoped => IsNew(got, got[i])
             /\ got[i].from = "user" /\ got[i].purl /\ got[i].ver = 0 => Scanned(got, got[i].name) = {}
  <2>1. /\ rows[i].from = IF i <= size THEN "scan" ELSE "user"
        /\ i <= size => rows[i].purl
        /\ rows[i].tier # Observed
        /\ IsMarked(rows[i], marks)
        /\ rows[i].from = "user" /\ rows[i].name \notin Scoped => IsNew(rows, rows[i])
        /\ rows[i].from = "user" /\ rows[i].purl /\ rows[i].ver = 0 => Scanned(rows, rows[i].name) = {}
      BY <1>2 DEF Applying
  <2>2. /\ got[i].excluded <=> (rows[i].excluded \/ i \in hits)
        /\ got[i].name = rows[i].name /\ got[i].ver = rows[i].ver
        /\ got[i].from = rows[i].from /\ got[i].purl = rows[i].purl
        /\ got[i].tier = rows[i].tier
      BY <1>2
  <2>3. IsMarked(got[i], marks \cup {e})
    <3>1. got[i].excluded => \E f \in marks \cup {e} : f.kind = "false-positive" /\ Means(f.ref, got[i])
      <4>1. CASE rows[i].excluded
          BY <2>1, <2>2, <4>1 DEF IsMarked, Means
      <4>2. CASE i \in hits
          BY <1>4, <2>2, <4>2 DEF Means
      <4> QED
          BY <2>2, <4>1, <4>2
    <3>2. got[i].from = "user" =>
             \E f \in marks \cup {e} : f.kind = "missing" /\ f.ref.name = got[i].name /\ f.ref.ver = got[i].ver
        BY <2>1, <2>2 DEF IsMarked
    <3> QED
        BY <3>1, <3>2 DEF IsMarked
  <2>4. got[i].from = "user" /\ got[i].name \notin Scoped => IsNew(got, got[i])
      BY <1>3, <2>1, <2>2 DEF IsNew
  <2>5. got[i].from = "user" /\ got[i].purl /\ got[i].ver = 0 => Scanned(got, got[i].name) = {}
      BY <1>3, <2>1, <2>2
  <2> QED
      BY <2>1, <2>2, <2>3, <2>4, <2>5
<1>6. ASSUME NEW f \in marks \cup {e}, f.ref.purl \/ f.ref.name \notin Scoped PROVE Obeyed(got, f)
  <2>0. DOMAIN got = DOMAIN rows
      BY <1>0, <1>2
  <2>1. CASE f \in marks
    <3>1. Obeyed(rows, f)
        BY <1>6, <2>1 DEF Applying
    <3>2. CASE f.kind = "missing"
      <4>1. PICK i \in DOMAIN rows : Means(f.ref, rows[i])
          BY <3>1, <3>2 DEF Obeyed
      <4>2. Means(f.ref, got[i])
          BY <1>0, <1>2, <4>1 DEF Means
      <4> QED
          BY <2>0, <3>2, <4>2 DEF Obeyed
    <3>3. CASE f.kind # "missing"
      <4>1. \A i \in MeansScanned(got, f.ref) : rows[i].excluded /\ i \in 1 .. Len(rows)
        <5>1. \A i \in MeansScanned(rows, f.ref) : rows[i].excluded /\ i \in DOMAIN rows
            BY <3>1, <3>3 DEF Obeyed, MeansScanned, Scanned
        <5> QED
            BY <1>0, <1>3, <5>1
      <4>2. \A i \in MeansScanned(got, f.ref) : got[i].excluded
          BY <1>2, <4>1
      <4> QED
          BY <3>3, <4>2 DEF Obeyed
    <3> QED
        BY <3>2, <3>3
  <2>2. CASE f = e
    <3>1. MeansScanned(rows, e.ref) \subseteq hits
        BY <1>6, <2>2, MeantIsFound DEF hits
    <3>2. \A i \in MeansScanned(got, e.ref) : got[i].excluded
        BY <1>2, <1>3, <1>4, <3>1
    <3> QED
        BY <2>2, <3>2 DEF Obeyed
  <2> QED
      BY <2>1, <2>2
<1> QED
    BY <1>0, <1>1, <1>2, <1>5, <1>6 DEF Applying

LEMMA AssertionApplies ==
    ASSUME NEW rows, NEW size, NEW marks, Applying(rows, size, marks), NEW e \in Marks, e.kind = "missing"
    PROVE  Applying(ApplyCorrection(rows, e), size, marks \cup {e})
<1>0. rows \in Seq(Row) /\ size \in 0 .. Len(rows) /\ DOMAIN rows = 1 .. Len(rows) /\ Len(rows) \in Nat
    BY DEF Applying
<1>1. ApplyCorrection(rows, e) = AssertMissing(rows, e)
    BY DEF ApplyCorrection
<1>2. ASSUME NEW row, IsMarked(row, marks) PROVE IsMarked(row, marks \cup {e})
    BY <1>2 DEF IsMarked
<1>3. CASE FindComponent(rows, e.ref) # {}
  <2>1. AssertMissing(rows, e) = rows
      BY <1>3 DEF AssertMissing
  <2>2. Obeyed(rows, e)
    <3>1. PICK i \in FindComponent(rows, e.ref) : TRUE
        BY <1>3
    <3>2. i \in DOMAIN rows /\ Means(e.ref, rows[i])
        BY <1>0, <3>1, FoundIsMeant
    <3> QED
        BY <3>2 DEF Obeyed
  <2> QED
      BY <1>1, <1>2, <2>1, <2>2 DEF Applying
<1>4. CASE FindComponent(rows, e.ref) = {}
  <2> DEFINE now == Asserted(e)
             got == Append(rows, now)
             n == Len(rows) + 1
  <2>1. AssertMissing(rows, e) = got
      BY <1>4 DEF AssertMissing
  <2>2. /\ now \in Row /\ now.name = e.ref.name /\ now.ver = e.ref.ver /\ now.from = "user"
        /\ now.purl = e.ref.purl /\ now.tier # Observed /\ ~now.excluded
      BY AssertedIsRow
  <2> HIDE DEF now
  <2>3. /\ got \in Seq(Row) /\ Len(got) = n /\ got[n] = now /\ n \notin 1 .. Len(rows)
        /\ \A i \in 1 .. Len(rows) : got[i] = rows[i]
        /\ DOMAIN got = 1 .. n /\ 1 .. n = (1 .. Len(rows)) \cup {n}
      BY <1>0, <2>2
  <2> HIDE DEF got
  <2>4. /\ \A name : Scanned(got, name) = Scanned(rows, name)
        /\ \A ref : MeansScanned(got, ref) = MeansScanned(rows, ref)
        /\ \A row : IsNew(got, row) <=> IsNew(rows, row)
    <3>1. \A i \in 1 .. Len(got) :
             IF i <= Len(rows) THEN got[i].from = rows[i].from /\ got[i].name = rows[i].name /\ got[i].ver = rows[i].ver
             ELSE got[i].from # "scan"
        BY <1>0, <2>2, <2>3
    <3>2. Len(rows) <= Len(got)
        BY <1>0, <2>3
    <3> QED
        BY <1>0, <2>3, <3>1, <3>2, SameScanned
  <2>5. \A i \in Scanned(rows, e.ref.name) : rows[i].purl
      BY <1>0 DEF Applying, Scanned
  <2>6. now.purl /\ now.ver = 0 => Scanned(got, now.name) = {}
    <3> SUFFICES ASSUME e.ref.purl, e.ref.ver = 0 PROVE Scanned(rows, e.ref.name) = {}
        BY <2>2, <2>4
    <3>1. {i \in {j \in DOMAIN rows : rows[j].name = e.ref.name} : rows[i].purl} = {}
        BY <1>4 DEF FindComponent
    <3> QED
        BY <2>5, <3>1 DEF Scanned
  <2>7. now.name \notin Scoped => IsNew(got, now)
    <3> SUFFICES ASSUME e.ref.name \notin Scoped, NEW j \in Scanned(rows, e.ref.name) PROVE rows[j].ver # e.ref.ver
        BY <2>2, <2>4 DEF IsNew
    <3>1. j \in DOMAIN rows /\ rows[j].name = e.ref.name /\ rows[j].purl
        BY <2>5 DEF Scanned
    <3> QED
        BY <1>4, <3>1 DEF FindComponent
  <2>8. IsMarked(now, marks \cup {e})
      BY <2>2 DEF IsMarked
  <2>9. size \in 0 .. Len(got) /\ size < n
      BY <1>0, <2>3
  <2>10. ASSUME NEW i \in 1 .. Len(got)
         PROVE  /\ got[i].from = IF i <= size THEN "scan" ELSE "user"
                /\ i <= size => got[i].purl
                /\ got[i].tier # Observed
                /\ IsMarked(got[i], marks \cup {e})
                /\ got[i].from = "user" /\ got[i].name \notin Scoped => IsNew(got, got[i])
                /\ got[i].from = "user" /\ got[i].purl /\ got[i].ver = 0 => Scanned(got, got[i].name) = {}
    <3>1. CASE i = n
        BY <2>2, <2>3, <2>6, <2>7, <2>8, <2>9, <3>1
    <3>2. CASE i # n
      <4>1. i \in 1 .. Len(rows) /\ got[i] = rows[i]
          BY <2>3, <3>2
      <4>2. /\ rows[i].from = IF i <= size THEN "scan" ELSE "user"
            /\ i <= size => rows[i].purl
            /\ rows[i].tier # Observed
            /\ IsMarked(rows[i], marks)
            /\ rows[i].from = "user" /\ rows[i].name \notin Scoped => IsNew(rows, rows[i])
            /\ rows[i].from = "user" /\ rows[i].purl /\ rows[i].ver = 0 => Scanned(rows, rows[i].name) = {}
          BY <4>1 DEF Applying
      <4> QED
          BY <1>2, <2>4, <4>1, <4>2
    <3> QED
        BY <3>1, <3>2
  <2>11. ASSUME NEW f \in marks \cup {e}, f.ref.purl \/ f.ref.name \notin Scoped PROVE Obeyed(got, f)
    <3>1. CASE f \in marks /\ f.kind = "missing"
      <4>1. PICK i \in DOMAIN rows : Means(f.ref, rows[i])
          BY <2>11, <3>1 DEF Applying, Obeyed
      <4>2. i \in DOMAIN got /\ Means(f.ref, got[i])
          BY <1>0, <2>3, <4>1
      <4> QED
          BY <3>1, <4>2 DEF Obeyed
    <3>2. CASE f \in marks /\ f.kind # "missing"
      <4>1. \A i \in MeansScanned(rows, f.ref) : rows[i].excluded /\ i \in 1 .. Len(rows)
          BY <1>0, <2>11, <3>2 DEF Applying, Obeyed, MeansScanned, Scanned
      <4>2. \A i \in MeansScanned(got, f.ref) : got[i].excluded
          BY <2>3, <2>4, <4>1
      <4> QED
          BY <3>2, <4>2 DEF Obeyed
    <3>3. CASE f = e
      <4>1. n \in DOMAIN got /\ Means(e.ref, got[n])
          BY <2>2, <2>3 DEF Means
      <4> QED
          BY <3>3, <4>1 DEF Obeyed
    <3> QED
        BY <3>1, <3>2, <3>3
  <2> QED
      BY <1>1, <2>1, <2>3, <2>9, <2>10, <2>11 DEF Applying
<1> QED
    BY <1>3, <1>4

LEMMA FoundIsRow ==
    ASSUME NEW name \in Names, NEW ver \in Version \cup {0}, NEW scope \in Scopes
    PROVE  LET c == Component(name, ver, TRUE, scope, Tier.INSTALLED, "scan")
           IN  c \in Row /\ c.from = "scan" /\ c.purl /\ c.tier # Observed /\ ~c.excluded
<1>1. Tier.INSTALLED = 4 /\ 4 \in 1 .. 5 /\ 4 # Observed /\ {} \in SUBSET Notes
    BY DEF Tier, Observed
<1> QED
    BY <1>1 DEF Component, Row

LEMMA ScannedRows ==
    ASSUME NEW tree \in Trees
    PROVE  RowsOf(tree) \in Seq(Row) /\ Applying(RowsOf(tree), Len(tree), {})
<1> DEFINE rows == RowsOf(tree)
<1>1. tree \in Seq(Find)
    BY TreesAreFinds
<1>2. DOMAIN tree = 1 .. Len(tree) /\ Len(tree) \in Nat
    BY <1>1
<1>3. rows = [i \in 1 .. Len(tree) |-> Component(tree[i].name, tree[i].ver, TRUE, tree[i].scope, Tier.INSTALLED, "scan")]
    BY <1>2 DEF RowsOf
<1>4. ASSUME NEW i \in 1 .. Len(tree)
      PROVE  /\ rows[i] \in Row /\ rows[i].from = "scan" /\ rows[i].purl
             /\ rows[i].tier # Observed /\ ~rows[i].excluded
  <2>1. PICK t \in Find : t = tree[i]
      BY <1>1
  <2>2. t.name \in Names /\ t.ver \in Version \cup {0} /\ t.scope \in Scopes
      BY DEF Find
  <2>3. rows[i] = Component(tree[i].name, tree[i].ver, TRUE, tree[i].scope, Tier.INSTALLED, "scan")
      BY <1>3
  <2> DEFINE c == Component(t.name, t.ver, TRUE, t.scope, Tier.INSTALLED, "scan")
  <2>4. rows[i] = c
    <3> HIDE DEF rows
    <3> QED
        BY <2>1, <2>3
  <2>5. c \in Row /\ c.from = "scan" /\ c.purl /\ c.tier # Observed /\ ~c.excluded
      BY <2>2, FoundIsRow
  <2> HIDE DEF rows, c
  <2> QED
      BY <2>4, <2>5
<1>5. rows \in Seq(Row) /\ Len(rows) = Len(tree)
  <2>1. \A i \in 1 .. Len(tree) : rows[i] \in Row
      BY <1>4
  <2> HIDE DEF rows
  <2>2. Len(tree) \in Nat /\ DOMAIN rows = 1 .. Len(tree) /\ rows = [i \in 1 .. Len(tree) |-> rows[i]]
      BY <1>2, <1>3
  <2> QED
      BY <2>1, <2>2
<1>6. \A i \in 1 .. Len(rows) : rows[i].from = "scan" /\ rows[i].purl /\ rows[i].tier # Observed /\ ~rows[i].excluded
    BY <1>4, <1>5
<1> HIDE DEF rows
<1>7. Applying(rows, Len(tree), {})
    BY <1>2, <1>5, <1>6 DEF Applying, IsMarked
<1> QED
    BY <1>5, <1>7 DEF rows

\* A scan that reads the corrections obeys them.
LEMMA ScanApplies ==
    ASSUME NEW tree \in Trees, NEW entries \in Seq(Marks)
    PROVE  Applying(ApplyCorrections(RowsOf(tree), entries), Len(tree), OnRecord(entries))
<1> DEFINE n == Len(entries)
           firsts(k) == {entries[i] : i \in 1 .. k}
<1>1. RowsOf(tree) \in Seq(Row) /\ Applying(RowsOf(tree), Len(tree), {})
    BY ScannedRows
<1>2. PICK done \in [0 .. n -> Seq(Row)] :
         /\ done[0] = RowsOf(tree)
         /\ \A k \in 1 .. n : done[k] = ApplyCorrection(done[k - 1], entries[k])
         /\ ApplyCorrections(RowsOf(tree), entries) = done[n]
    BY <1>1, AppliedInTurn
<1>3. n \in Nat /\ DOMAIN entries = 1 .. n /\ \A k \in 1 .. n : entries[k] \in Marks
    OBVIOUS
<1> DEFINE H == {k \in 0 .. n : Applying(done[k], Len(tree), firsts(k))}
<1> HIDE DEF n
<1>9. n \in 0 .. n
    BY <1>3
<1>4. 0 \in H
  <2>1. firsts(0) = {} /\ 0 \in 0 .. n
      BY <1>3
  <2> QED
      BY <1>1, <1>2, <2>1
<1>5. ASSUME NEW k \in 1 .. n, k - 1 \in H PROVE k \in H
  <2>1. Applying(done[k - 1], Len(tree), firsts(k - 1))
      BY <1>5
  <2>2. firsts(k) = firsts(k - 1) \cup {entries[k]} /\ k \in 0 .. n
    <3>1. 1 .. k = (1 .. k - 1) \cup {k}
        BY <1>3
    <3> QED
        BY <1>3, <3>1
  <2> HIDE DEF firsts
  <2>3. entries[k] \in Marks /\ entries[k].kind \in {"false-positive", "missing"}
      BY <1>3, MarkFields DEF Kinds
  <2>4. Applying(ApplyCorrection(done[k - 1], entries[k]), Len(tree), firsts(k - 1) \cup {entries[k]})
      BY <2>1, <2>3, ExclusionApplies, AssertionApplies
  <2> QED
      BY <1>2, <2>2, <2>4
<1>6. \A k \in 0 .. n : k \in H
  <2> HIDE DEF H
  <2> QED
      BY <1>3, <1>4, <1>5, CountUp
<1>7. Applying(done[n], Len(tree), firsts(n))
  <2> HIDE DEF firsts
  <2> QED
      BY <1>6, <1>9
<1>8. firsts(n) = OnRecord(entries)
    BY <1>3 DEF OnRecord
<1> QED
    BY <1>2, <1>7, <1>8 DEF n

\* A finite set is lined up with every element once.
LEMMA LinedUp ==
    ASSUME NEW S, IsFiniteSet(S)
    PROVE  LET s == SetToSeq(S)
           IN  /\ s \in Seq(S) /\ Len(s) \in Nat
               /\ \A i, j \in 1 .. Len(s) : s[i] = s[j] => i = j
               /\ \A x \in S : \E i \in 1 .. Len(s) : s[i] = x
<1> DEFINE n == Cardinality(S)
           Lines(f) == f \in [1 .. n -> S] /\ IsInjective(f)
           s == CHOOSE f \in [1 .. n -> S] : IsInjective(f)
<1>1. n \in Nat /\ ExistsBijection(1 .. n, S)
  <2>1. PICK m \in Nat : ExistsBijection(1 .. m, S)
      BY FS_NatBijection
  <2>2. n = m
      BY <2>1, FS_CountingElements
  <2> QED
      BY <2>1, <2>2
<1>2. PICK f : f \in Bijection(1 .. n, S)
    BY <1>1 DEF ExistsBijection
<1>3. Lines(f)
    BY <1>2 DEF Bijection, Injection, IsInjective
<1>4. Lines(s)
  <2>1. \E g \in [1 .. n -> S] : IsInjective(g)
      BY <1>3
  <2> QED
      BY <2>1
<1>5. SetToSeq(S) = s
    BY DEF SetToSeq
<1> HIDE DEF s, n
<1>6. s \in Injection(1 .. n, S)
    BY <1>4 DEF Injection, IsInjective
<1>7. IsFiniteSet(1 .. n) /\ Cardinality(1 .. n) = n
    BY <1>1, FS_Interval
<1>8. s \in Surjection(1 .. n, S)
    BY <1>6, <1>7, FS_Injection DEF n
<1>9. s \in Seq(S) /\ Len(s) = n
    BY <1>1, <1>4
<1>10. \A i, j \in 1 .. n : s[i] = s[j] => i = j
    BY <1>4 DEF IsInjective
<1>11. \A x \in S : \E i \in 1 .. n : s[i] = x
    BY <1>8 DEF Surjection
<1> QED
    BY <1>1, <1>5, <1>9, <1>10, <1>11

(* The sessions *)

\* What the sessions so far have loaded is listed as observed, and nothing else
\* is; a phantom is met again by its name.
Observing(rows, names) ==
    /\ rows \in Seq(Row)
    /\ \A n \in names : \E i \in 1 .. Len(rows) : rows[i].name = n /\ ~rows[i].excluded /\ rows[i].tier = Observed
    /\ \A i \in 1 .. Len(rows) :
         /\ rows[i].tier = Observed => rows[i].name \in names
         /\ rows[i].from = "trace" => ~rows[i].excluded /\ rows[i].eco
    /\ \A i, j \in 1 .. Len(rows) :
         rows[i].from = "trace" /\ rows[j].from = "trace" /\ rows[i].name = rows[j].name => i = j

Known(rows, loaded) == {n \in DOMAIN loaded : Indexed(rows, n) # {}}
Touched(rows, loaded) ==
    [i \in DOMAIN rows |->
       IF \E n \in Known(rows, loaded) : i \in Indexed(rows, n) THEN MarkObserved(rows[i])
       ELSE IF loaded # <<>> /\ i \in Listed(rows) /\ Expected(rows[i])
       THEN [rows[i] EXCEPT !.notes = @ \cup {"declared-never-observed"}]
       ELSE rows[i]]
Phantoms(rows, loaded) == {Phantom(n, loaded[n]) : n \in DOMAIN loaded \ Known(rows, loaded)}

LEMMA PhantomIsRow ==
    ASSUME NEW name \in Names, NEW ver \in Version \cup {0}
    PROVE  LET p == Phantom(name, ver)
           IN  /\ p \in Row /\ p.name = name /\ p.tier = Observed /\ p.from = "trace" /\ p.eco /\ ~p.excluded
<1> DEFINE c == Component(name, ver, ver # 0, "runtime-observed", Observed, "trace")
<1>1. /\ "runtime-observed" \in Scopes \cup {"runtime-observed"} /\ Observed = 5 /\ 5 \in 1 .. 5
      /\ {} \in SUBSET Notes /\ {"drift:observed-not-declared"} \in SUBSET Notes
    BY DEF Observed, Notes
<1>2. c \in Row /\ c.name = name /\ c.tier = Observed /\ c.from = "trace" /\ c.eco /\ ~c.excluded
    BY <1>1 DEF Component, Row
<1>3. Phantom(name, ver) = [c EXCEPT !.notes = {"drift:observed-not-declared"}]
    BY DEF Phantom
<1> HIDE DEF c
<1>4. PICK r \in Row : r = c
    BY <1>2
<1> QED
    BY <1>1, <1>2, <1>3, <1>4 DEF Row

LEMMA TouchedRows ==
    ASSUME NEW rows \in Seq(Row), NEW loaded
    PROVE  LET t == Touched(rows, loaded)
           IN  /\ t \in Seq(Row) /\ Len(t) = Len(rows)
               /\ \A i \in 1 .. Len(rows) :
                    /\ t[i].name = rows[i].name /\ t[i].excluded = rows[i].excluded
                    /\ t[i].from = rows[i].from /\ t[i].eco = rows[i].eco
                    /\ IF \E n \in Known(rows, loaded) : i \in Indexed(rows, n) THEN t[i].tier = Observed
                       ELSE t[i].tier = rows[i].tier
<1> DEFINE met(i) == \E n \in Known(rows, loaded) : i \in Indexed(rows, n)
           missed(i) == loaded # <<>> /\ i \in Listed(rows) /\ Expected(rows[i])
           one(i) == IF met(i) THEN MarkObserved(rows[i])
                     ELSE IF missed(i) THEN [rows[i] EXCEPT !.notes = @ \cup {"declared-never-observed"}] ELSE rows[i]
<1>1. DOMAIN rows = 1 .. Len(rows) /\ Len(rows) \in Nat
    OBVIOUS
<1>2. Touched(rows, loaded) = [i \in 1 .. Len(rows) |-> one(i)]
    BY <1>1 DEF Touched
<1> HIDE DEF met, missed
<1>3. ASSUME NEW i \in 1 .. Len(rows)
      PROVE  /\ one(i) \in Row /\ one(i).name = rows[i].name /\ one(i).excluded = rows[i].excluded
             /\ one(i).from = rows[i].from /\ one(i).eco = rows[i].eco
             /\ IF met(i) THEN one(i).tier = Observed ELSE one(i).tier = rows[i].tier
  <2>1. PICK r \in Row : r = rows[i]
      OBVIOUS
  <2>2. Observed \in 1 .. 5
      BY DEF Observed
  <2>3. LET m == MarkObserved(r)
        IN  /\ m \in Row /\ m.name = r.name /\ m.excluded = r.excluded /\ m.from = r.from /\ m.eco = r.eco
            /\ m.tier = Observed
      BY <2>2 DEF MarkObserved, Row, Notes
  <2>4. LET m == [r EXCEPT !.notes = @ \cup {"declared-never-observed"}]
        IN  /\ m \in Row /\ m.name = r.name /\ m.excluded = r.excluded /\ m.from = r.from /\ m.eco = r.eco
            /\ m.tier = r.tier
      BY DEF Row, Notes
  <2> QED
      BY <2>1, <2>3, <2>4
<1> HIDE DEF one
<1>4. /\ Touched(rows, loaded) \in Seq(Row) /\ Len(Touched(rows, loaded)) = Len(rows)
      /\ \A i \in 1 .. Len(rows) : Touched(rows, loaded)[i] = one(i)
    BY <1>1, <1>2, <1>3
<1> QED
    BY <1>3, <1>4 DEF met

LEMMA Joined ==
    ASSUME NEW S, NEW t \in Seq(S), NEW s \in Seq(S)
    PROVE  /\ t \o s \in Seq(S) /\ Len(t \o s) = Len(t) + Len(s)
           /\ \A i \in 1 .. Len(t) : (t \o s)[i] = t[i]
           /\ \A i \in Len(t) + 1 .. Len(t) + Len(s) :
                (t \o s)[i] = s[i - Len(t)] /\ i - Len(t) \in 1 .. Len(s)
    OBVIOUS

LEMMA SessionObserves ==
    ASSUME NEW rows, NEW names, Observing(rows, names), NEW loaded \in Loads
    PROVE  Observing(MapObservations(rows, loaded), names \cup DOMAIN loaded)
<1> DEFINE known == Known(rows, loaded)
           t == Touched(rows, loaded)
           s == SetToSeq(Phantoms(rows, loaded))
           got == t \o s
           a == Len(rows)
           b == Len(s)
<1>0. rows \in Seq(Row) /\ a \in Nat /\ DOMAIN rows = 1 .. a
    BY DEF Observing
<1>1. MapObservations(rows, loaded) = got
    BY DEF MapObservations, Touched, Phantoms, Known
<1>2. PICK S \in SUBSET Names : loaded \in [S -> Version \cup {0}]
    BY DEF Loads
<1>3. \A n \in DOMAIN loaded : n \in Names /\ loaded[n] \in Version \cup {0}
    BY <1>2
<1>4. /\ t \in Seq(Row) /\ Len(t) = a
      /\ \A i \in 1 .. a :
           /\ t[i].name = rows[i].name /\ t[i].excluded = rows[i].excluded
           /\ t[i].from = rows[i].from /\ t[i].eco = rows[i].eco
           /\ IF \E n \in known : i \in Indexed(rows, n) THEN t[i].tier = Observed ELSE t[i].tier = rows[i].tier
    BY <1>0, TouchedRows
<1>5. IsFiniteSet(Phantoms(rows, loaded))
  <2> DEFINE fresh == DOMAIN loaded \ known
             make == [n \in fresh |-> Phantom(n, loaded[n])]
  <2>1. IsFiniteSet(fresh)
    <3>1. fresh \subseteq Names
        BY <1>3
    <3> HIDE DEF fresh
    <3> QED
        BY <3>1, ScopedAreNames, FS_Subset
  <2>2. Phantoms(rows, loaded) = {make[n] : n \in fresh}
      BY DEF Phantoms
  <2> HIDE DEF fresh, make
  <2>3. IsFiniteSet({make[n] : n \in fresh})
    <3> DEFINE image == {make[n] : n \in fresh}
    <3>1. DOMAIN make = fresh
        BY DEF make
    <3>2. make \in [fresh -> image] /\ \A x \in image : \E n \in fresh : make[n] = x
      <4>1. make = [n \in fresh |-> make[n]]
          BY DEF make
      <4> QED
          BY <4>1
    <3> HIDE DEF image
    <3>3. make \in Surjection(fresh, image)
        BY <3>2 DEF Surjection
    <3> QED
        BY <2>1, <3>3, FS_Surjection DEF image
  <2> QED
      BY <2>2, <2>3
<1>6. /\ s \in Seq(Phantoms(rows, loaded)) /\ b \in Nat
      /\ \A i, j \in 1 .. b : s[i] = s[j] => i = j
      /\ \A x \in Phantoms(rows, loaded) : \E i \in 1 .. b : s[i] = x
    BY <1>5, LinedUp
<1>7. ASSUME NEW x \in Phantoms(rows, loaded)
      PROVE  \E n \in DOMAIN loaded \ known : /\ x = Phantom(n, loaded[n])
                /\ x \in Row /\ x.name = n /\ x.tier = Observed /\ x.from = "trace" /\ x.eco /\ ~x.excluded
  <2>1. PICK n \in DOMAIN loaded \ known : x = Phantom(n, loaded[n])
      BY DEF Phantoms
  <2>2. n \in Names /\ loaded[n] \in Version \cup {0}
      BY <1>3
  <2> QED
      BY <2>1, <2>2, PhantomIsRow
<1> HIDE DEF t, s, known
<1>8. \A j \in 1 .. b : s[j] \in Phantoms(rows, loaded)
    BY <1>6
<1>9. /\ got \in Seq(Row) /\ Len(got) = a + b
      /\ \A i \in 1 .. a : got[i] = t[i]
      /\ \A i \in a + 1 .. a + b : got[i] = s[i - a] /\ i - a \in 1 .. b
  <2>1. s \in Seq(Row)
    <3>1. Phantoms(rows, loaded) \subseteq Row
        BY <1>7
    <3> QED
        BY <1>6, <3>1
  <2>2. t \in Seq(Row) /\ Len(t) = a /\ Len(s) = b
      BY <1>4
  <2> HIDE DEF a, b
  <2> QED
      BY <2>1, <2>2, Joined
<1>10. 1 .. a + b = (1 .. a) \cup (a + 1 .. a + b) /\ \A i \in 1 .. a : i \notin a + 1 .. a + b
    BY <1>0, <1>6
<1> HIDE DEF got, a, b
<1>11. ASSUME NEW i \in a + 1 .. a + b
       PROVE  /\ got[i].name \in DOMAIN loaded \ known /\ got[i].tier = Observed
              /\ got[i].from = "trace" /\ got[i].eco /\ ~got[i].excluded
    BY <1>7, <1>8, <1>9
<1>12. \A n, i : i \in Indexed(rows, n) => i \in 1 .. a /\ rows[i].name = n /\ ~rows[i].excluded
    BY <1>0 DEF Indexed, Listed
<1>13. ASSUME NEW n \in names \cup DOMAIN loaded
       PROVE  \E i \in 1 .. a + b : got[i].name = n /\ ~got[i].excluded /\ got[i].tier = Observed
  <2>1. CASE n \in names
    <3>1. PICK i \in 1 .. a : rows[i].name = n /\ ~rows[i].excluded /\ rows[i].tier = Observed
        BY <2>1 DEF Observing, a
    <3>2. got[i].name = n /\ ~got[i].excluded /\ got[i].tier = Observed
        BY <1>4, <1>9, <3>1
    <3> QED
        BY <1>10, <3>2
  <2>2. CASE n \in known
    <3>1. PICK i : i \in Indexed(rows, n)
        BY <2>2 DEF known, Known
    <3>2. got[i].name = n /\ ~got[i].excluded /\ got[i].tier = Observed /\ i \in 1 .. a
        BY <1>4, <1>9, <1>12, <2>2, <3>1
    <3> QED
        BY <1>10, <3>2
  <2>3. CASE n \in DOMAIN loaded \ known
    <3> DEFINE x == Phantom(n, loaded[n])
    <3>1. x \in Phantoms(rows, loaded)
        BY <2>3 DEF Phantoms, known
    <3>2. PICK j \in 1 .. b : s[j] = x
        BY <1>6, <3>1
    <3>3. x.name = n
        BY <1>3, <2>3, PhantomIsRow
    <3>4. a + j \in a + 1 .. a + b /\ (a + j) - a = j
        BY <1>0, <1>6 DEF a, b
    <3> HIDE DEF x
    <3>5. got[a + j] = x
        BY <1>9, <3>2, <3>4
    <3> QED
        BY <1>10, <1>11, <3>3, <3>4, <3>5
  <2> QED
      BY <2>1, <2>2, <2>3
<1>14. ASSUME NEW i \in 1 .. a + b
       PROVE  /\ got[i].tier = Observed => got[i].name \in names \cup DOMAIN loaded
              /\ got[i].from = "trace" => ~got[i].excluded /\ got[i].eco
  <2>1. CASE i \in a + 1 .. a + b
      BY <1>11, <2>1
  <2>2. CASE i \in 1 .. a
    <3>1. \A n \in known : n \in DOMAIN loaded
        BY DEF known, Known
    <3>2. /\ rows[i].tier = Observed => rows[i].name \in names
          /\ rows[i].from = "trace" => ~rows[i].excluded /\ rows[i].eco
        BY <2>2 DEF Observing, a
    <3> QED
        BY <1>4, <1>9, <1>12, <2>2, <3>1, <3>2
  <2> QED
      BY <1>10, <2>1, <2>2
<1>15. ASSUME NEW i \in 1 .. a, NEW j \in a + 1 .. a + b, got[i].from = "trace", got[i].name = got[j].name
       PROVE  FALSE
  <2>1. rows[i].from = "trace" /\ rows[i].name = got[j].name
      BY <1>4, <1>9, <1>15
  <2>2. ~rows[i].excluded /\ rows[i].eco
      BY <2>1 DEF Observing, a
  <2>3. i \in Indexed(rows, got[j].name)
      BY <1>0, <2>1, <2>2 DEF Indexed, Listed, LosesScope
  <2>4. got[j].name \in known
      BY <1>11, <2>3 DEF known, Known
  <2> QED
      BY <1>11, <2>4
<1>16. ASSUME NEW i \in 1 .. a + b, NEW j \in 1 .. a + b,
              got[i].from = "trace", got[j].from = "trace", got[i].name = got[j].name
       PROVE  i = j
  <2>1. CASE i \in 1 .. a /\ j \in 1 .. a
      BY <1>4, <1>9, <1>16, <2>1 DEF Observing, a
  <2>2. CASE i \in a + 1 .. a + b /\ j \in a + 1 .. a + b
    <3>1. s[i - a] \in Phantoms(rows, loaded) /\ s[j - a] \in Phantoms(rows, loaded)
        BY <1>8, <1>9, <2>2
    <3>2. PICK m \in DOMAIN loaded \ known : s[i - a] = Phantom(m, loaded[m]) /\ s[i - a].name = m
        BY <1>7, <3>1
    <3>3. PICK n \in DOMAIN loaded \ known : s[j - a] = Phantom(n, loaded[n]) /\ s[j - a].name = n
        BY <1>7, <3>1
    <3>4. m = n
        BY <1>9, <1>16, <2>2, <3>2, <3>3
    <3>5. i - a = j - a
        BY <1>6, <1>9, <2>2, <3>2, <3>3, <3>4
    <3> QED
        BY <1>0, <1>6, <2>2, <3>5 DEF a
  <2> QED
      BY <1>10, <1>15, <1>16, <2>1, <2>2
<1> QED
    BY <1>1, <1>9, <1>13, <1>14, <1>16 DEF Observing
(* The file and its editors *)

EditorState ==
    [at : {"idle", "read", "writing"}, op : {"add", "remove", None}, entry : Marks \cup {None}, copy : Seq(Marks)]
Works(e) == editor[e].at # "idle" => editor[e].op \in {"add", "remove"} /\ editor[e].entry \in Marks

\* Without a race one editor at most is at it; it knows what will be on record
\* when it is through, and until it truncates the file that is what is marked.
Undisturbed ==
    /\ \A e, f \in Busy : e = f
    /\ \A e \in Busy : OnRecord(editor[e].copy) = MarkedAfter(marked, editor[e].op, editor[e].entry)
    /\ (\E e \in Editors : editor[e].at = "writing") => ~file.whole
    /\ (\A e \in Editors : editor[e].at # "writing") => file.whole /\ OnRecord(file.entries) = marked

EditInv ==
    /\ scanned \in BOOLEAN /\ raced \in BOOLEAN
    /\ file \in [whole : BOOLEAN, entries : Seq(Marks)]
    /\ editor \in [Editors -> EditorState]
    /\ \A e \in Editors : Works(e)
    /\ ~raced /\ ~scanned => Undisturbed
    /\ sessions \in Seq(Loads)
    /\ ~scanned => ~obeyed.clean /\ sessions = << >> /\ table = << >>
    /\ scanned => Observing(table, LoadedNames)
    /\ obeyed.clean /\ sessions = << >> => \E size \in Nat : Applying(table, size, obeyed.marks)

LEMMA EditsStart == StoreInit => EditInv
<1> SUFFICES ASSUME StoreInit PROVE EditInv
    OBVIOUS
<1>1. << >> \in Seq(Marks) /\ OnRecord(<< >>) = {}
    BY DEF OnRecord
<1>2. Idle \in EditorState /\ Idle.at = "idle"
    BY <1>1 DEF Idle, EditorState
<1>3. << >> \in Seq(Loads)
    OBVIOUS
<1> QED
    BY <1>1, <1>2, <1>3 DEF StoreInit, EditInv, Works, Undisturbed, Busy

LEMMA EditedOnRecord ==
    ASSUME NEW entries \in Seq(Marks), NEW op \in {"add", "remove"}, NEW e \in Marks, OnRecord(entries) = marked
    PROVE  /\ Edited(op, entries, e) \in Seq(Marks)
           /\ Edited(op, entries, e) # entries => OnRecord(Edited(op, entries, e)) = MarkedAfter(marked, op, e)
<1>1. CASE op = "add"
    BY <1>1, AddedToRecord DEF Edited, MarkedAfter
<1>2. CASE op = "remove"
    BY <1>2, RemovedFromRecord DEF Edited, MarkedAfter
<1> QED
    BY <1>1, <1>2

LEMMA EditBegins ==
    ASSUME EditInv, NEW e \in Editors, NEW op \in {"add", "remove"}, NEW entry \in Marks, BeginEdit(e, op, entry)
    PROVE  EditInv'
<1> DEFINE was == LoadCorrections
           now == Edited(op, was, entry)
           begun == [at |-> "read", op |-> op, entry |-> entry, copy |-> now]
<1>1. /\ editor[e].at = "idle" /\ ~scanned /\ raced' = (raced \/ Busy # {})
      /\ editor' = IF now = was THEN editor ELSE [editor EXCEPT ![e] = begun]
      /\ UNCHANGED <<file, scanned, table, sessions, marked, obeyed>>
    BY DEF BeginEdit
<1>2. was \in Seq(Marks) /\ now \in Seq(Marks)
  <2>1. PICK f \in [whole : BOOLEAN, entries : Seq(Marks)] : f = file
      BY DEF EditInv
  <2>2. f.entries \in Seq(Marks) /\ << >> \in Seq(Marks)
      OBVIOUS
  <2>3. was \in Seq(Marks)
      BY <2>1, <2>2 DEF LoadCorrections
  <2>4. \A s \in Seq(Marks) : Edited(op, s, entry) \in Seq(Marks)
      BY AddedToRecord, RemovedFromRecord DEF Edited
  <2> QED
      BY <2>3, <2>4
<1> HIDE DEF was, now
<1>3. begun \in EditorState /\ begun.at = "read" /\ begun.op = op /\ begun.entry = entry /\ begun.copy = now
    BY <1>2 DEF EditorState
<1> HIDE DEF begun
<1>4. editor' \in [Editors -> EditorState] /\ \A f \in Editors : Works(f)'
  <2>1. ASSUME NEW f \in Editors PROVE Works(f)'
      BY <1>1, <1>3 DEF EditInv, Works
  <2> QED
      BY <1>1, <1>3, <2>1 DEF EditInv
<1>5. ASSUME ~raced' PROVE Undisturbed'
  <2>1. ~raced /\ Busy = {} /\ Undisturbed /\ marked' = marked /\ file' = file
      BY <1>1, <1>5 DEF EditInv
  <2>2. \A f \in Editors : editor[f].at = "idle"
      BY <2>1 DEF Busy
  <2>3. file.whole /\ OnRecord(file.entries) = marked /\ was = file.entries
      BY <2>1, <2>2 DEF Undisturbed, LoadCorrections, was
  <2>4. CASE now = was
      BY <1>1, <2>1, <2>4 DEF Undisturbed, Busy, MarkedAfter
  <2>5. CASE now # was
    <3>1. OnRecord(now) = MarkedAfter(marked, op, entry)
        BY <1>2, <2>3, <2>5, EditedOnRecord DEF now
    <3>2. editor' = [editor EXCEPT ![e] = begun] /\ editor \in [Editors -> EditorState]
        BY <1>1, <2>5 DEF EditInv
    <3>3. editor'[e] = begun /\ \A f \in Editors : f # e => editor'[f].at = "idle"
        BY <2>2, <3>2
    <3>4. Busy' = {e}
        BY <1>3, <3>3 DEF Busy
    <3>5. \A f \in Busy' : OnRecord(editor'[f].copy) = MarkedAfter(marked', editor'[f].op, editor'[f].entry)
        BY <1>3, <2>1, <3>1, <3>3, <3>4 DEF MarkedAfter
    <3>6. \A f \in Editors : editor'[f].at # "writing"
        BY <1>3, <3>3
    <3> QED
        BY <2>1, <2>3, <3>4, <3>5, <3>6 DEF Undisturbed
  <2> QED
      BY <2>4, <2>5
<1>6. raced' \in BOOLEAN
    BY <1>1 DEF EditInv
<1> QED
    BY <1>1, <1>4, <1>5, <1>6 DEF EditInv, LoadedNames

LEMMA EditTruncates ==
    ASSUME EditInv, NEW e \in Editors, Truncate(e)
    PROVE  EditInv'
<1>1. /\ editor[e].at = "read" /\ ~scanned
      /\ file' = [whole |-> FALSE, entries |-> << >>]
      /\ editor' = [editor EXCEPT ![e].at = "writing"]
      /\ UNCHANGED <<scanned, table, sessions, marked, raced, obeyed>>
    BY DEF Truncate
<1>2. editor \in [Editors -> EditorState]
    BY DEF EditInv
<1>3. /\ editor'[e] \in EditorState /\ editor'[e].at = "writing" /\ editor'[e].op = editor[e].op
      /\ editor'[e].entry = editor[e].entry /\ editor'[e].copy = editor[e].copy
      /\ \A f \in Editors : f # e => editor'[f] = editor[f]
  <2>1. PICK s \in EditorState : s = editor[e]
      BY <1>2
  <2>2. editor'[e] = [s EXCEPT !.at = "writing"]
      BY <1>1, <1>2, <2>1
  <2>3. LET t == [s EXCEPT !.at = "writing"]
        IN  t \in EditorState /\ t.at = "writing" /\ t.op = s.op /\ t.entry = s.entry /\ t.copy = s.copy
      BY DEF EditorState
  <2> QED
      BY <1>1, <1>2, <2>1, <2>2, <2>3
<1>4. editor' \in [Editors -> EditorState]
    BY <1>1, <1>2, <1>3
<1>5. \A f \in Editors : Works(f)'
    BY <1>1, <1>3 DEF EditInv, Works
<1>6. file' \in [whole : BOOLEAN, entries : Seq(Marks)] /\ ~file'.whole
    BY <1>1
<1>7. ASSUME ~raced PROVE Undisturbed'
  <2>1. Undisturbed /\ e \in Busy
      BY <1>1, <1>7 DEF EditInv, Busy
  <2>2. Busy' = Busy
      BY <1>1, <1>3 DEF Busy
  <2>3. \A f \in Busy' : OnRecord(editor'[f].copy) = MarkedAfter(marked', editor'[f].op, editor'[f].entry)
    <3> SUFFICES ASSUME NEW f \in Busy
                 PROVE  OnRecord(editor'[f].copy) = MarkedAfter(marked', editor'[f].op, editor'[f].entry)
        BY <2>2
    <3>1. OnRecord(editor[f].copy) = MarkedAfter(marked, editor[f].op, editor[f].entry) /\ f \in Editors
        BY <2>1 DEF Undisturbed, Busy
    <3>2. /\ editor'[f].copy = editor[f].copy /\ editor'[f].op = editor[f].op
          /\ editor'[f].entry = editor[f].entry /\ marked' = marked
        BY <1>1, <1>3, <3>1
    <3> QED
        BY <3>1, <3>2
  <2> QED
      BY <1>3, <1>6, <2>1, <2>2, <2>3 DEF Undisturbed
<1> QED
    BY <1>1, <1>4, <1>5, <1>6, <1>7 DEF EditInv, LoadedNames

LEMMA IdleState == Idle \in EditorState /\ Idle.at = "idle"
<1>1. << >> \in Seq(Marks)
    OBVIOUS
<1> QED
    BY <1>1 DEF Idle, EditorState

LEMMA EditSaves ==
    ASSUME EditInv, NEW e \in Editors, SaveCorrections(e)
    PROVE  EditInv'
<1>1. /\ editor[e].at = "writing" /\ ~scanned
      /\ file' = [whole |-> TRUE, entries |-> editor[e].copy]
      /\ editor' = [editor EXCEPT ![e] = Idle]
      /\ marked' = MarkedAfter(marked, editor[e].op, editor[e].entry)
      /\ UNCHANGED <<scanned, table, sessions, raced, obeyed>>
    BY DEF SaveCorrections
<1>2. editor \in [Editors -> EditorState]
    BY DEF EditInv
<1>3. editor'[e] = Idle /\ \A f \in Editors : f # e => editor'[f] = editor[f]
    BY <1>1, <1>2
<1>4. editor' \in [Editors -> EditorState]
    BY <1>1, <1>2, IdleState
<1>5. \A f \in Editors : Works(f)'
    BY <1>3, IdleState DEF EditInv, Works
<1>6. editor[e].copy \in Seq(Marks)
  <2>1. PICK s \in EditorState : s = editor[e]
      BY <1>2
  <2> QED
      BY <2>1 DEF EditorState
<1>7. file' \in [whole : BOOLEAN, entries : Seq(Marks)] /\ file'.whole /\ file'.entries = editor[e].copy
    BY <1>1, <1>6
<1>8. ASSUME ~raced PROVE Undisturbed'
  <2>1. Undisturbed /\ e \in Busy
      BY <1>1, <1>8 DEF EditInv, Busy
  <2>2. \A f \in Editors : f # e => editor[f].at = "idle"
      BY <2>1 DEF Undisturbed, Busy
  <2>3. \A f \in Editors : editor'[f].at = "idle"
      BY <1>3, <2>2, IdleState
  <2>4. Busy' = {}
      BY <2>3 DEF Busy
  <2>5. OnRecord(file'.entries) = marked'
      BY <1>1, <1>7, <2>1 DEF Undisturbed
  <2> QED
      BY <1>7, <2>3, <2>4, <2>5 DEF Undisturbed
<1> QED
    BY <1>1, <1>4, <1>5, <1>7, <1>8 DEF EditInv, LoadedNames

LEMMA EditKilled ==
    ASSUME EditInv, NEW e \in Editors, Killed(e)
    PROVE  EditInv'
<1>1. /\ editor' = [editor EXCEPT ![e] = Idle] /\ raced' = TRUE
      /\ UNCHANGED <<file, scanned, table, sessions, marked, obeyed>>
    BY DEF Killed
<1>2. editor \in [Editors -> EditorState]
    BY DEF EditInv
<1>3. editor' \in [Editors -> EditorState]
    BY <1>1, <1>2, IdleState
<1>4. \A f \in Editors : Works(f)'
    BY <1>1, <1>2, IdleState DEF EditInv, Works
<1> QED
    BY <1>1, <1>3, <1>4 DEF EditInv, LoadedNames

LEMMA EditsAreScanned ==
    ASSUME EditInv, NEW tree \in Trees, Scan(tree)
    PROVE  EditInv'
<1>1. /\ ~scanned /\ scanned' = TRUE
      /\ table' = ApplyCorrections(RowsOf(tree), LoadCorrections)
      /\ obeyed' = [clean |-> ~raced /\ file.whole, marks |-> marked]
      /\ UNCHANGED <<file, editor, sessions, marked, raced>>
    BY DEF Scan
<1>2. LoadCorrections \in Seq(Marks)
  <2>1. PICK f \in [whole : BOOLEAN, entries : Seq(Marks)] : f = file
      BY DEF EditInv
  <2> QED
      BY <2>1 DEF LoadCorrections
<1>3. Applying(table', Len(tree), OnRecord(LoadCorrections))
    BY <1>1, <1>2, ScanApplies
<1>4. table' \in Seq(Row)
    BY <1>3 DEF Applying
<1>5. obeyed'.clean = (~raced /\ file.whole) /\ obeyed'.marks = marked
    BY <1>1
<1>6. ASSUME obeyed'.clean PROVE \E size \in Nat : Applying(table', size, obeyed'.marks)
  <2>1. Undisturbed /\ file.whole
      BY <1>1, <1>5, <1>6 DEF EditInv
  <2>2. OnRecord(LoadCorrections) = marked
      BY <2>1 DEF Undisturbed, LoadCorrections
  <2>3. Len(tree) \in Nat
      BY TreesAreFinds
  <2> QED
      BY <1>3, <1>5, <2>2, <2>3
<1>7. \A e \in Editors : Works(e)'
    BY <1>1 DEF EditInv, Works
<1>8. Observing(table', {})
  <2>1. \A i \in 1 .. Len(table') : table'[i].tier # Observed /\ table'[i].from \in {"scan", "user"}
      BY <1>3, <1>4 DEF Applying
  <2> QED
      BY <1>4, <2>1 DEF Observing
<1>9. LoadedNames' = {}
    BY <1>1 DEF EditInv, LoadedNames
<1> QED
    BY <1>1, <1>6, <1>7, <1>8, <1>9 DEF EditInv

LEMMA EditsObserved ==
    ASSUME EditInv, NEW loaded \in Loads, Session(loaded)
    PROVE  EditInv'
<1>1. /\ scanned /\ sessions' = Append(sessions, loaded)
      /\ table' = MapObservations(table, loaded)
      /\ UNCHANGED <<file, editor, scanned, marked, raced, obeyed>>
    BY DEF Session
<1>2. sessions \in Seq(Loads) /\ Observing(table, LoadedNames)
    BY <1>1 DEF EditInv
<1>3. /\ sessions' \in Seq(Loads) /\ Len(sessions') = Len(sessions) + 1
      /\ \A k \in 1 .. Len(sessions) : sessions'[k] = sessions[k]
      /\ sessions'[Len(sessions) + 1] = loaded
    BY <1>1, <1>2
<1>4. LoadedNames' = LoadedNames \cup DOMAIN loaded
  <2>1. DOMAIN sessions = 1 .. Len(sessions) /\ DOMAIN sessions' = (1 .. Len(sessions)) \cup {Len(sessions) + 1}
      BY <1>2, <1>3
  <2> QED
      BY <1>3, <2>1 DEF LoadedNames
<1>5. Observing(table', LoadedNames')
    BY <1>1, <1>2, <1>4, SessionObserves
<1>6. sessions' # << >>
    BY <1>2, <1>3
<1>7. \A e \in Editors : Works(e)'
    BY <1>1 DEF EditInv, Works
<1> QED
    BY <1>1, <1>3, <1>5, <1>6, <1>7 DEF EditInv

LEMMA EditsKept ==
    ASSUME EditInv, [StoreNext]_storeVars
    PROVE  EditInv'
<1>1. ASSUME NEW e \in Editors, NEW op \in {"add", "remove"}, NEW entry \in Marks, BeginEdit(e, op, entry)
      PROVE  EditInv'
    BY <1>1, EditBegins
<1>2. ASSUME NEW e \in Editors, Truncate(e) PROVE EditInv'
    BY <1>2, EditTruncates
<1>3. ASSUME NEW e \in Editors, SaveCorrections(e) PROVE EditInv'
    BY <1>3, EditSaves
<1>4. ASSUME NEW e \in Editors, Killed(e) PROVE EditInv'
    BY <1>4, EditKilled
<1>5. ASSUME NEW tree \in Trees, Scan(tree) PROVE EditInv'
    BY <1>5, EditsAreScanned
<1>6. ASSUME NEW loaded \in Loads, Session(loaded) PROVE EditInv'
    BY <1>6, EditsObserved
<1>7. CASE UNCHANGED storeVars
    BY <1>7 DEF storeVars, EditInv, Works, Undisturbed, Busy, LoadedNames
<1> QED
    BY <1>1, <1>2, <1>3, <1>4, <1>5, <1>6, <1>7 DEF StoreNext

\* Whatever edits the corrections in whatever order, a scan that no race touched
\* obeys what is on record, and nothing else (apply_corrections, add_correction,
\* remove_correction).
THEOREM MarksAlwaysObeyed == StoreSpec => []MarksAreObeyed
<1>1. StoreInit => EditInv
    BY EditsStart
<1>2. EditInv /\ [StoreNext]_storeVars => EditInv'
    BY EditsKept
<1>3. EditInv => MarksAreObeyed
  <2> SUFFICES ASSUME EditInv, obeyed.clean, sessions = << >>
               PROVE  /\ \A e \in obeyed.marks : e.ref.purl \/ e.ref.name \notin Scoped => Obeyed(table, e)
                      /\ \A i \in DOMAIN table :
                           /\ IsMarked(table[i], obeyed.marks)
                           /\ table[i].from = "user" /\ table[i].name \notin Scoped => IsNew(table, table[i])
      BY DEF MarksAreObeyed
  <2>1. PICK size \in Nat : Applying(table, size, obeyed.marks)
      BY DEF EditInv
  <2>2. table \in Seq(Row) /\ DOMAIN table = 1 .. Len(table)
      BY <2>1 DEF Applying
  <2> QED
      BY <2>1, <2>2 DEF Applying
<1> QED
    BY <1>1, <1>2, <1>3, PTL DEF StoreSpec

\* However many sessions are traced, in whatever order, what they loaded is listed
\* as observed and a package that nothing declares is one phantom
\* (map_observations).
THEOREM SessionsAlwaysAddUp == StoreSpec => []SessionsAddUp
<1>1. StoreInit => EditInv
    BY EditsStart
<1>2. EditInv /\ [StoreNext]_storeVars => EditInv'
    BY EditsKept
<1>3. EditInv => SessionsAddUp
  <2> SUFFICES ASSUME EditInv PROVE SessionsAddUp
      OBVIOUS
  <2>1. CASE scanned
    <3>1. Observing(table, LoadedNames)
        BY <2>1 DEF EditInv
    <3>2. Rows = 1 .. Len(table)
        BY <3>1 DEF Observing, Rows
    <3> QED
        BY <3>1, <3>2 DEF Observing, SessionsAddUp
  <2>2. CASE ~scanned
    <3>1. Rows = {} /\ LoadedNames = {}
        BY <2>2 DEF EditInv, Rows, LoadedNames
    <3> QED
        BY <3>1 DEF SessionsAddUp
  <2> QED
      BY <2>1, <2>2 DEF EditInv
<1> QED
    BY <1>1, <1>2, <1>3, PTL DEF StoreSpec

(***************************************************************************)
(* The difference of two runs                                              *)
(***************************************************************************)

\* A family is stood for by one of its own.
LEMMA EmittedIsListed ==
    ASSUME NEW res \in SUBSET Findable
    PROVE  Emitted(res) \in ByName(res)
<1>1. ASSUME NEW n \in NamesIn(res)
      PROVE  \E r \in res : r.name = n /\ \A q \in res : q.name = n => r.ver <= q.ver
  <2> DEFINE family == {r \in res : r.name = n}
             vers == {r.ver : r \in family}
  <2>1. family # {}
      BY DEF NamesIn
  <2>2. vers \subseteq Nat /\ vers # {}
      BY <2>1, ReleasesAreNumbers DEF Findable
  <2>3. PICK v \in vers : \A w \in vers : ~(<<w, v>> \in OpToRel(<, Nat))
    <3> HIDE DEF vers
    <3> QED
        BY <2>2, NatLessThanWellFounded, WFMin, Zenon
  <2>4. PICK r \in family : r.ver = v
      BY <2>3
  <2>5. \A q \in family : r.ver <= q.ver
    <3> SUFFICES ASSUME NEW q \in family PROVE v <= q.ver
        BY <2>4
    <3>1. q.ver \in vers /\ q.ver \in Nat /\ v \in Nat
        BY <2>2, <2>3
    <3>2. ~(<<q.ver, v>> \in OpToRel(<, Nat))
        BY <2>3, <3>1
    <3> QED
        BY <3>1, <3>2 DEF OpToRel
  <2> QED
      BY <2>4, <2>5
<1> DEFINE first(n) == CHOOSE r \in res : r.name = n /\ \A q \in res : q.name = n => r.ver <= q.ver
<1>2. \A n \in NamesIn(res) : first(n) \in res /\ first(n).name = n
  <2> TAKE n \in NamesIn(res)
  <2>1. \E r \in res : r.name = n /\ \A q \in res : q.name = n => r.ver <= q.ver
      BY <1>1
  <2> QED
      BY <2>1
<1>3. Emitted(res) = [n \in NamesIn(res) |-> first(n)]
    BY DEF Emitted
<1> HIDE DEF first
<1> QED
    BY <1>2, <1>3 DEF ByName

\* What a name stands for in a run that lists each once is all that is listed of it.
LEMMA SingleIsNamed ==
    ASSUME NEW res, NEW f \in ByName(res), Single(res)
    PROVE  /\ DOMAIN f = NamesIn(res)
           /\ \A n \in NamesIn(res) : f[n] \in res /\ f[n].name = n
           /\ \A r \in res : r.name \in NamesIn(res) /\ f[r.name] = r
<1>1. /\ DOMAIN f = NamesIn(res)
      /\ \A n \in NamesIn(res) : f[n] \in res /\ f[n].name = n
    BY DEF ByName
<1>2. \A r \in res : r.name \in NamesIn(res)
    BY DEF NamesIn
<1> QED
    BY <1>1, <1>2 DEF Single

Before(changes) == {<<c[1], c[2]>> : c \in changes}
After(changes) == {<<c[1], c[3]>> : c \in changes}

Each(M, u) == {<<n, u[n]>> : n \in M}
Changes(M, u, v) == {<<n, u[n], v[n]>> : n \in M}

LEMMA Triples ==
    ASSUME NEW M, NEW u, NEW v
    PROVE  /\ Before(Changes(M, u, v)) = Each(M, u)
           /\ After(Changes(M, u, v)) = Each(M, v)
           /\ Swapped(Changes(M, u, v)) = Changes(M, v, u)
<1> DEFINE C == Changes(M, u, v)
<1>1. ASSUME NEW c \in C PROVE \E n \in M : c = <<n, u[n], v[n]>> /\ c[1] = n /\ c[2] = u[n] /\ c[3] = v[n]
    BY DEF Changes
<1>2. ASSUME NEW n \in M PROVE \E c \in C : c[1] = n /\ c[2] = u[n] /\ c[3] = v[n]
  <2>1. <<n, u[n], v[n]>> \in C
      BY DEF Changes
  <2> QED
      BY <2>1
<1> HIDE DEF C
<1>3. Before(C) = Each(M, u)
    BY <1>1, <1>2 DEF Before, Each
<1>4. After(C) = Each(M, v)
    BY <1>1, <1>2 DEF After, Each
<1>5. Swapped(C) = Changes(M, v, u)
    BY <1>1, <1>2 DEF Swapped, Changes
<1> QED
    BY <1>3, <1>4, <1>5 DEF C

\* The difference of two runs turns the one into the other.
LEMMA DiffPatches ==
    ASSUME NEW a, NEW b, NEW f \in ByName(a), NEW g \in ByName(b), Single(a), Single(b)
    PROVE  LET s == DiffSnapshots(f, g) IN Patched(a, s.installed, s.removed, s.upgraded) = Listing(b)
<1> DEFINE s == DiffSnapshots(f, g)
           rest == {<<r.name, r.ver>> : r \in (a \ s.removed) \cup s.installed}
           gone == Before(s.upgraded)
           come == After(s.upgraded)
           moved == {n \in NamesIn(a) \cap NamesIn(b) : f[n].ver # g[n].ver}
<1>1. /\ DOMAIN f = NamesIn(a) /\ DOMAIN g = NamesIn(b)
      /\ \A n \in NamesIn(a) : f[n] \in a /\ f[n].name = n
      /\ \A n \in NamesIn(b) : g[n] \in b /\ g[n].name = n
      /\ \A r \in a : r.name \in NamesIn(a) /\ f[r.name] = r
      /\ \A r \in b : r.name \in NamesIn(b) /\ g[r.name] = r
    BY SingleIsNamed
<1>2. /\ s.installed = {g[n] : n \in NamesIn(b) \ NamesIn(a)}
      /\ s.removed = {f[n] : n \in NamesIn(a) \ NamesIn(b)}
      /\ s.upgraded = {<<n, f[n].ver, g[n].ver>> : n \in moved}
    BY <1>1 DEF DiffSnapshots
<1> HIDE DEF s, moved
<1>3. gone = {<<n, f[n].ver>> : n \in moved} /\ come = {<<n, g[n].ver>> : n \in moved}
  <2> DEFINE u == [n \in moved |-> f[n].ver]
             v == [n \in moved |-> g[n].ver]
  <2>1. s.upgraded = Changes(moved, u, v)
      BY <1>2 DEF Changes
  <2>2. Each(moved, u) = {<<n, f[n].ver>> : n \in moved} /\ Each(moved, v) = {<<n, g[n].ver>> : n \in moved}
      BY DEF Each
  <2> HIDE DEF u, v
  <2> QED
      BY <2>1, <2>2, Triples
<1> HIDE DEF gone, come
<1>4. ASSUME NEW r \in b PROVE <<r.name, r.ver>> \in (rest \ gone) \cup come
  <2>1. CASE r.name \in moved
      BY <1>1, <1>3, <2>1
  <2>2. CASE r.name \notin NamesIn(a)
    <3>1. r \in s.installed
        BY <1>1, <1>2, <2>2
    <3>2. <<r.name, r.ver>> \notin gone
        BY <1>3, <2>2 DEF moved
    <3> QED
        BY <3>1, <3>2
  <2>3. CASE r.name \in NamesIn(a) /\ r.name \notin moved
    <3>1. f[r.name].ver = r.ver /\ f[r.name].name = r.name /\ f[r.name] \in a
        BY <1>1, <2>3 DEF moved
    <3>2. f[r.name] \notin s.removed
        BY <1>1, <1>2, <3>1
    <3>3. <<r.name, r.ver>> \notin gone
        BY <1>3, <2>3
    <3> QED
        BY <3>1, <3>2, <3>3
  <2> QED
      BY <2>1, <2>2, <2>3
<1>5. ASSUME NEW x \in come PROVE x \in Listing(b)
    BY <1>1, <1>3, <1>5 DEF Listing, moved
<1>6. ASSUME NEW r \in (a \ s.removed) \cup s.installed, <<r.name, r.ver>> \notin gone
      PROVE  <<r.name, r.ver>> \in Listing(b)
  <2>1. CASE r \in s.installed
      BY <1>1, <1>2, <2>1 DEF Listing
  <2>2. CASE r \in a \ s.removed
    <3>1. r.name \in NamesIn(a) \cap NamesIn(b) /\ f[r.name] = r
        BY <1>1, <1>2, <2>2
    <3>2. r.name \notin moved
        BY <1>3, <1>6, <3>1
    <3>3. g[r.name] \in b /\ g[r.name].name = r.name /\ g[r.name].ver = r.ver
        BY <1>1, <3>1, <3>2 DEF moved
    <3> QED
        BY <3>3 DEF Listing
  <2> QED
      BY <2>1, <2>2
<1>7. Patched(a, s.installed, s.removed, s.upgraded) = (rest \ gone) \cup come
    BY DEF Patched, Before, After, gone, come
<1>8. \A x \in rest : \E r \in (a \ s.removed) \cup s.installed : x = <<r.name, r.ver>>
    OBVIOUS
<1> HIDE DEF rest
<1>9. (rest \ gone) \cup come \subseteq Listing(b)
    BY <1>5, <1>6, <1>8
<1>10. Listing(b) \subseteq (rest \ gone) \cup come
    BY <1>4 DEF Listing
<1> QED
    BY <1>7, <1>9, <1>10 DEF s

DiffInv == old \in SUBSET Findable /\ new \in SUBSET Findable

\* A difference is the whole of it and reads backwards as the other way round,
\* whatever two runs list (diff_stores, diff of snapshots).
THEOREM DiffsAlwaysExact == ViewSpec => []DiffsAreExact
<1>1. ViewInit => DiffInv
    BY DEF ViewInit, WalkInit, DiffInit, DiffInv
<1>2. DiffInv /\ [ViewNext]_viewVars => DiffInv'
    BY DEF DiffInv, ViewNext, Pop, viewVars
<1>3. DiffInv => DiffsAreExact
  <2> SUFFICES ASSUME DiffInv PROVE DiffsAreExact
      OBVIOUS
  <2> DEFINE f == Emitted(old)
             g == Emitted(new)
             d == DiffStores(old, new)
             b == DiffStores(new, old)
  <2>1. f \in ByName(old) /\ g \in ByName(new)
      BY EmittedIsListed DEF DiffInv
  <2>2. DOMAIN f = NamesIn(old) /\ DOMAIN g = NamesIn(new)
      BY DEF Emitted
  <2>3. /\ \A n \in NamesIn(old) : f[n].ver \in Nat
        /\ \A n \in NamesIn(new) : g[n].ver \in Nat
    <3>1. \A r \in Findable : r.ver \in Nat
        BY ReleasesAreNumbers DEF Findable
    <3>2. /\ \A n \in NamesIn(old) : f[n] \in Findable
          /\ \A n \in NamesIn(new) : g[n] \in Findable
      <4> HIDE DEF f, g
      <4> QED
          BY <2>1 DEF ByName, DiffInv
    <3> QED
        BY <3>1, <3>2
  <2> DEFINE both == NamesIn(old) \cap NamesIn(new)
  <2>4. /\ d.added = {g[n] : n \in NamesIn(new) \ NamesIn(old)}
        /\ d.removed = {f[n] : n \in NamesIn(old) \ NamesIn(new)}
        /\ d.upgraded = {<<n, f[n].ver, g[n].ver>> : n \in {m \in both : g[m].ver > f[m].ver}}
        /\ d.downgraded = {<<n, f[n].ver, g[n].ver>> : n \in {m \in both : g[m].ver < f[m].ver}}
        /\ d.scopes = {<<n, f[n].scope, g[n].scope>> : n \in {m \in both : f[m].scope # g[m].scope}}
    <3> DEFINE all == Compared(f, g)
               twice == all \cap DOMAIN f \cap DOMAIN g
    <3>1. /\ all \ DOMAIN f = NamesIn(new) \ NamesIn(old) /\ all \ DOMAIN g = NamesIn(old) \ NamesIn(new)
          /\ twice = both
        BY <2>2 DEF Compared
    <3> HIDE DEF all, twice, f, g, both
    <3>2. d = [added      |-> {g[n] : n \in all \ DOMAIN f},
               removed    |-> {f[n] : n \in all \ DOMAIN g},
               upgraded   |-> {<<n, f[n].ver, g[n].ver>> : n \in {m \in twice : g[m].ver > f[m].ver}},
               downgraded |-> {<<n, f[n].ver, g[n].ver>> : n \in {m \in twice : g[m].ver < f[m].ver}},
               scopes     |-> {<<n, f[n].scope, g[n].scope>> : n \in {m \in twice : f[m].scope # g[m].scope}}]
        BY DEF DiffStores, f, g, all, twice
    <3> HIDE DEF d
    <3> QED
        BY <3>1, <3>2
  <2>5. /\ b.added = {f[n] : n \in NamesIn(old) \ NamesIn(new)}
        /\ b.removed = {g[n] : n \in NamesIn(new) \ NamesIn(old)}
        /\ b.upgraded = {<<n, g[n].ver, f[n].ver>> : n \in {m \in both : f[m].ver > g[m].ver}}
        /\ b.scopes = {<<n, g[n].scope, f[n].scope>> : n \in {m \in both : g[m].scope # f[m].scope}}
    <3> DEFINE all == Compared(g, f)
               twice == all \cap DOMAIN g \cap DOMAIN f
    <3>1. /\ all \ DOMAIN f = NamesIn(new) \ NamesIn(old) /\ all \ DOMAIN g = NamesIn(old) \ NamesIn(new)
          /\ twice = both
        BY <2>2 DEF Compared
    <3> HIDE DEF all, twice, f, g, both
    <3>2. b = [added      |-> {f[n] : n \in all \ DOMAIN g},
               removed    |-> {g[n] : n \in all \ DOMAIN f},
               upgraded   |-> {<<n, g[n].ver, f[n].ver>> : n \in {m \in twice : f[m].ver > g[m].ver}},
               downgraded |-> {<<n, g[n].ver, f[n].ver>> : n \in {m \in twice : f[m].ver < g[m].ver}},
               scopes     |-> {<<n, g[n].scope, f[n].scope>> : n \in {m \in twice : g[m].scope # f[m].scope}}]
        BY DEF DiffStores, f, g, all, twice
    <3> HIDE DEF b
    <3> QED
        BY <3>1, <3>2
  <2> HIDE DEF f, g, d, b
  <2>6. b.upgraded = Swapped(d.downgraded)
    <3>1. {m \in both : f[m].ver > g[m].ver} = {m \in both : g[m].ver < f[m].ver}
        BY <2>3
    <3> DEFINE M == {m \in both : g[m].ver < f[m].ver}
               u == [n \in M |-> f[n].ver]
               v == [n \in M |-> g[n].ver]
    <3>2. d.downgraded = Changes(M, u, v) /\ b.upgraded = Changes(M, v, u)
        BY <2>4, <2>5, <3>1 DEF Changes
    <3> HIDE DEF M, u, v
    <3> QED
        BY <3>2, Triples
  <2>7. b.scopes = Swapped(d.scopes)
    <3>1. {m \in both : f[m].scope # g[m].scope} = {m \in both : g[m].scope # f[m].scope}
        OBVIOUS
    <3> DEFINE M == {m \in both : f[m].scope # g[m].scope}
               u == [n \in M |-> f[n].scope]
               v == [n \in M |-> g[n].scope]
    <3>2. d.scopes = Changes(M, u, v) /\ b.scopes = Changes(M, v, u)
        BY <2>4, <2>5, <3>1 DEF Changes
    <3> HIDE DEF M, u, v
    <3> QED
        BY <3>2, Triples
  <2>8. ASSUME Single(old), Single(new), NEW h \in ByName(old), NEW k \in ByName(new)
        PROVE  LET s == DiffSnapshots(h, k) IN Patched(old, s.installed, s.removed, s.upgraded) = Listing(new)
      BY <2>8, DiffPatches
  <2>9. ASSUME Single(old), Single(new)
        PROVE  Patched(old, d.added, d.removed, d.upgraded \cup d.downgraded) = Listing(new)
    <3> DEFINE s == DiffSnapshots(f, g)
    <3>1. s = [installed |-> {g[n] : n \in NamesIn(new) \ NamesIn(old)},
               removed   |-> {f[n] : n \in NamesIn(old) \ NamesIn(new)},
               upgraded  |-> {<<n, f[n].ver, g[n].ver>> : n \in {m \in both : f[m].ver # g[m].ver}}]
        BY <2>2 DEF DiffSnapshots
    <3>2. {m \in both : f[m].ver # g[m].ver} = {m \in both : g[m].ver > f[m].ver} \cup {m \in both : g[m].ver < f[m].ver}
        BY <2>3
    <3> HIDE DEF s, both
    <3>3. s.installed = d.added /\ s.removed = d.removed /\ s.upgraded = d.upgraded \cup d.downgraded
        BY <2>4, <3>1, <3>2
    <3>4. Patched(old, s.installed, s.removed, s.upgraded) = Listing(new)
        BY <2>1, <2>9, DiffPatches DEF s
    <3> QED
        BY <3>3, <3>4
  <2>10. DiffsAreExact <=>
            /\ b.added = d.removed /\ b.removed = d.added
            /\ b.upgraded = Swapped(d.downgraded) /\ b.scopes = Swapped(d.scopes)
            /\ Single(old) /\ Single(new) =>
                 /\ Patched(old, d.added, d.removed, d.upgraded \cup d.downgraded) = Listing(new)
                 /\ \A h \in ByName(old), k \in ByName(new) :
                      LET s == DiffSnapshots(h, k) IN Patched(old, s.installed, s.removed, s.upgraded) = Listing(new)
      BY DEF DiffsAreExact, d, b
  <2> QED
      BY <2>4, <2>5, <2>6, <2>7, <2>8, <2>9, <2>10
<1> QED
    BY <1>1, <1>2, <1>3, PTL DEF ViewSpec

(***************************************************************************)
(* The ways to look at one run                                             *)
(***************************************************************************)

Nodes == Listable \cup {Project}
NoneTwice(s) == \A i, j \in 1 .. Len(s) : s[i] = s[j] => i = j
\* A chain as the walk keeps it: from the component upwards, no node twice.
IsChain(c, s) ==
    /\ s \in Seq(Nodes) /\ s # << >> /\ s[1] = c /\ NoneTwice(s)
    /\ \A i \in 1 .. Len(s) - 1 : <<s[i + 1], s[i]>> \in links
\* A way ends like the chain begins.
EndsLike(w, s) == Len(s) <= Len(w) /\ \A i \in 1 .. Len(s) : s[i] = w[Len(w) + 1 - i]

\* Every way to a component is found, or a chain that may become it is open.
WalkFrom(c) ==
    /\ \A s \in stack : IsChain(c, s)
    /\ \A p \in paths : p \in Ways /\ Last(p) = c
    /\ \A w \in Ways : Last(w) = c => w \in paths \/ \E s \in stack : EndsLike(w, s)
WalkInv ==
    /\ links \subseteq Needs /\ hidden \subseteq Listable
    /\ (stack = {} /\ paths = {}) \/ \E c \in Listable : WalkFrom(c)

LEMMA NoneTwiceIs ==
    ASSUME NEW S, NEW p \in Seq(S)
    PROVE  Cardinality(On(p)) = Len(p) <=> NoneTwice(p)
<1> DEFINE k == Len(p)
<1>1. k \in Nat /\ DOMAIN p = 1 .. k /\ p \in [1 .. k -> S]
    OBVIOUS
<1> HIDE DEF k
<1>2. p \in Surjection(1 .. k, On(p))
    BY <1>1 DEF Surjection, On
<1>3. IsFiniteSet(1 .. k) /\ Cardinality(1 .. k) = k
    BY <1>1, FS_Interval
<1>4. Cardinality(On(p)) = k <=> p \in Injection(1 .. k, On(p))
    BY <1>2, <1>3, FS_Surjection
<1>5. p \in Injection(1 .. k, On(p)) <=> NoneTwice(p)
    BY <1>2 DEF Injection, IsInjective, NoneTwice, Surjection, k
<1> QED
    BY <1>4, <1>5 DEF k

LEMMA WaysAre ==
    \A w : w \in Ways <=> /\ w \in Seq(Nodes) /\ Len(w) \in 1 .. MaxDepth
                          /\ \A i \in 1 .. Len(w) - 1 : <<w[i], w[i + 1]>> \in links
                          /\ NoneTwice(w) /\ Parents(w[1]) = {}
<1> TAKE w
<1>1. w \in UNION {[1 .. k -> Nodes] : k \in 1 .. MaxDepth} <=> w \in Seq(Nodes) /\ Len(w) \in 1 .. MaxDepth
  <2>1. \A k \in 1 .. MaxDepth : \A f \in [1 .. k -> Nodes] : f \in Seq(Nodes) /\ Len(f) = k
      BY BoundsAreNumbers
  <2>2. ASSUME w \in Seq(Nodes), Len(w) \in 1 .. MaxDepth PROVE w \in [1 .. Len(w) -> Nodes]
      BY <2>2
  <2> HIDE DEF Nodes
  <2> QED
      BY <2>1, <2>2
<1>2. w \in Seq(Nodes) => (Cardinality(On(w)) = Len(w) <=> NoneTwice(w))
    BY NoneTwiceIs
<1> QED
    BY <1>1, <1>2 DEF Ways, Nodes

LEMMA ParentsAre ==
    ASSUME links \subseteq Needs, NEW n
    PROVE  /\ \A m : m \in Parents(n) <=> <<m, n>> \in links
           /\ Parents(n) \subseteq Nodes
           /\ n = Project => Parents(n) = {}
<1>1. \A l \in links : l = <<l[1], l[2]>> /\ l[1] \in Nodes /\ l[2] \in Listable
    BY DEF Needs, Nodes
<1>2. \A m : m \in Parents(n) <=> <<m, n>> \in links
    BY <1>1 DEF Parents
<1>3. Project \notin Listable
    BY BoundsAreNumbers DEF Project, Listable
<1>4. \A m : <<m, n>> \in links => m \in Nodes /\ n \in Listable
  <2> TAKE m
  <2>1. <<m, n>>[1] = m /\ <<m, n>>[2] = n
      OBVIOUS
  <2> QED
      BY <1>1, <2>1
<1> QED
    BY <1>2, <1>3, <1>4

\* A chain that reached the top, read from there, is the one way it may become.
LEMMA ChainIsWay ==
    ASSUME links \subseteq Needs, NEW c, NEW s, IsChain(c, s), Len(s) <= MaxDepth, Parents(Last(s)) = {}
    PROVE  /\ RootFirst(s) \in Ways /\ Last(RootFirst(s)) = c
           /\ \A w \in Ways : EndsLike(w, s) => w = RootFirst(s)
<1> DEFINE k == Len(s)
           r == RootFirst(s)
<1>1. /\ s \in Seq(Nodes) /\ s # << >> /\ s[1] = c /\ NoneTwice(s)
      /\ \A i \in 1 .. k - 1 : <<s[i + 1], s[i]>> \in links
    BY DEF IsChain
<1>2. k \in Nat /\ k >= 1 /\ DOMAIN s = 1 .. k /\ k <= MaxDepth /\ Last(s) = s[k] /\ \A i \in 1 .. k : s[i] \in Nodes
    BY <1>1 DEF Last
<1>3. r = [i \in 1 .. k |-> s[k + 1 - i]]
    BY <1>2 DEF RootFirst
<1> HIDE DEF r, k
<1>4. \A i \in 1 .. k : k + 1 - i \in 1 .. k /\ r[i] = s[k + 1 - i]
    BY <1>2, <1>3
<1>5. r \in Seq(Nodes) /\ Len(r) = k
  <2>1. r \in [1 .. k -> Nodes]
      BY <1>2, <1>3, <1>4
  <2> QED
      BY <1>2, <2>1
<1>6. NoneTwice(r)
  <2> SUFFICES ASSUME NEW i \in 1 .. k, NEW j \in 1 .. k, r[i] = r[j] PROVE i = j
      BY <1>5 DEF NoneTwice
  <2>1. k + 1 - i = k + 1 - j
      BY <1>1, <1>4 DEF NoneTwice, k
  <2> QED
      BY <1>2, <2>1
<1>7. ASSUME NEW i \in 1 .. k - 1 PROVE <<r[i], r[i + 1]>> \in links
  <2> DEFINE j == k - i
  <2>1. j \in 1 .. k - 1 /\ k + 1 - i = j + 1 /\ k + 1 - (i + 1) = j /\ i \in 1 .. k /\ i + 1 \in 1 .. k
      BY <1>2
  <2>2. r[i] = s[j + 1] /\ r[i + 1] = s[j]
      BY <1>4, <2>1
  <2> QED
      BY <1>1, <2>1, <2>2 DEF k
<1>8. r[1] = Last(s) /\ r[k] = c
  <2>1. k + 1 - 1 = k /\ k + 1 - k = 1 /\ 1 \in 1 .. k /\ k \in 1 .. k
      BY <1>2
  <2> QED
      BY <1>1, <1>2, <1>4, <2>1
<1>9. r \in Ways
  <2>1. k \in 1 .. MaxDepth
      BY <1>2, BoundsAreNumbers
  <2> QED
      BY <1>5, <1>6, <1>7, <1>8, <2>1, WaysAre
<1>10. Last(r) = c
    BY <1>5, <1>8 DEF Last
<1>11. ASSUME NEW w \in Ways, EndsLike(w, s) PROVE w = r
  <2> DEFINE n == Len(w)
  <2>1. w \in Seq(Nodes) /\ n \in Nat /\ n >= 1 /\ \A i \in 1 .. n - 1 : <<w[i], w[i + 1]>> \in links
      BY WaysAre, BoundsAreNumbers
  <2>2. k <= n /\ \A i \in 1 .. k : s[i] = w[n + 1 - i]
      BY <1>11 DEF EndsLike, k
  <2>3. k = n
    <3> SUFFICES ASSUME k < n PROVE FALSE
        BY <1>2, <2>1, <2>2
    <3>1. n - k \in 1 .. n - 1 /\ n - k + 1 = n + 1 - k /\ k \in 1 .. k
        BY <1>2, <2>1
    <3>2. w[n + 1 - k] = Last(s)
        BY <1>2, <2>2, <3>1
    <3>3. <<w[n - k], Last(s)>> \in links
        BY <2>1, <3>1, <3>2
    <3> QED
        BY <3>3, ParentsAre
  <2>4. \A i \in 1 .. k : w[i] = r[i]
    <3> TAKE i \in 1 .. k
    <3>1. k + 1 - i \in 1 .. k /\ k + 1 - (k + 1 - i) = i
        BY <1>2
    <3> QED
        BY <1>4, <2>2, <2>3, <3>1
  <2>5. Len(r) = n /\ r \in Seq(Nodes)
      BY <1>5, <2>3
  <2> QED
      BY <2>1, <2>3, <2>4, <2>5
<1> QED
    BY <1>9, <1>10, <1>11 DEF r

LEMMA WalkGoesOn ==
    ASSUME links \subseteq Needs, NEW c \in Listable, WalkFrom(c), Pop
    PROVE  WalkFrom(c)'
<1>1. PICK s \in stack :
         /\ stack' = IF Len(s) > MaxDepth \/ IsRoot(s) THEN stack \ {s}
                     ELSE (stack \ {s}) \cup {Append(s, n) : n \in Parents(Last(s)) \ On(s)}
         /\ paths' = IF Len(s) <= MaxDepth /\ IsRoot(s) THEN paths \cup {RootFirst(s)} ELSE paths
    BY DEF Pop
<1>2. links' = links
    BY DEF Pop
<1> DEFINE k == Len(s)
           top == Last(s)
           further == {Append(s, n) : n \in Parents(top) \ On(s)}
<1>3. IsChain(c, s)
    BY DEF WalkFrom
<1>4. /\ s \in Seq(Nodes) /\ k \in Nat /\ k >= 1 /\ top = s[k] /\ DOMAIN s = 1 .. k /\ NoneTwice(s) /\ s[1] = c
      /\ \A i \in 1 .. k - 1 : <<s[i + 1], s[i]>> \in links
    BY <1>3 DEF IsChain, Last
<1>5. IsRoot(s) <=> Parents(top) = {}
    BY ParentsAre DEF IsRoot
<1>6. Ways' = Ways /\ \A d, q : IsChain(d, q)' <=> IsChain(d, q)
    BY <1>2 DEF Ways, Parents, IsChain
<1> SUFFICES /\ \A q \in stack' : IsChain(c, q)
             /\ \A p \in paths' : p \in Ways /\ Last(p) = c
             /\ \A w \in Ways : Last(w) = c => w \in paths' \/ \E q \in stack' : EndsLike(w, q)
    BY <1>6 DEF WalkFrom, EndsLike
<1>7. ASSUME NEW w \in Ways, EndsLike(w, s)
      PROVE  /\ w \in Seq(Nodes) /\ Len(w) \in Nat /\ k <= Len(w) /\ Len(w) <= MaxDepth
             /\ \A i \in 1 .. k : s[i] = w[Len(w) + 1 - i]
  <2>1. w \in Seq(Nodes) /\ Len(w) \in 1 .. MaxDepth
      BY WaysAre
  <2>2. Len(w) \in Nat /\ Len(w) <= MaxDepth
      BY <2>1, BoundsAreNumbers
  <2> QED
      BY <1>7, <2>1, <2>2 DEF EndsLike
<1>8. CASE k > MaxDepth
  <2>1. stack' = stack \ {s} /\ paths' = paths
      BY <1>1, <1>4, <1>8, BoundsAreNumbers
  <2>2. \A w \in Ways : ~EndsLike(w, s)
      BY <1>4, <1>7, <1>8, BoundsAreNumbers
  <2> QED
      BY <2>1, <2>2 DEF WalkFrom
<1>9. CASE k <= MaxDepth /\ IsRoot(s)
  <2>1. stack' = stack \ {s} /\ paths' = paths \cup {RootFirst(s)}
      BY <1>1, <1>9
  <2>2. /\ RootFirst(s) \in Ways /\ Last(RootFirst(s)) = c
        /\ \A w \in Ways : EndsLike(w, s) => w = RootFirst(s)
      BY <1>3, <1>5, <1>9, ChainIsWay
  <2> QED
      BY <2>1, <2>2 DEF WalkFrom
<1>10. CASE k <= MaxDepth /\ ~IsRoot(s)
  <2>1. stack' = (stack \ {s}) \cup further /\ paths' = paths
      BY <1>1, <1>4, <1>10, BoundsAreNumbers
  <2>2. ASSUME NEW n \in Parents(top) \ On(s) PROVE IsChain(c, Append(s, n))
    <3> DEFINE a == Append(s, n)
    <3>1. n \in Nodes /\ <<n, top>> \in links /\ \A i \in 1 .. k : s[i] # n
        BY <1>4, ParentsAre DEF On
    <3>2. /\ a \in Seq(Nodes) /\ Len(a) = k + 1 /\ a # << >> /\ a[k + 1] = n
          /\ \A i \in 1 .. k : a[i] = s[i]
        BY <1>4, <3>1
    <3> HIDE DEF a
    <3>3. NoneTwice(a)
      <4> SUFFICES ASSUME NEW i \in 1 .. k + 1, NEW j \in 1 .. k + 1, a[i] = a[j] PROVE i = j
          BY <3>2 DEF NoneTwice
      <4>1. \A m \in 1 .. k + 1 : m \in 1 .. k \/ m = k + 1
          BY <1>4
      <4>2. \A m \in 1 .. k : a[m] = s[m] /\ s[m] # n
          BY <3>1, <3>2
      <4> QED
          BY <1>4, <3>2, <4>1, <4>2 DEF NoneTwice
    <3>4. \A i \in 1 .. k : <<a[i + 1], a[i]>> \in links
      <4> TAKE i \in 1 .. k
      <4>1. CASE i = k
          BY <1>4, <3>1, <3>2, <4>1
      <4>2. CASE i # k
        <5>1. i \in 1 .. k - 1 /\ i + 1 \in 1 .. k
          <6>1. k \in Nat
              BY <1>4
          <6> HIDE DEF k
          <6> QED
              BY <4>2, <6>1
        <5> QED
            BY <1>4, <3>2, <5>1
      <4> QED
          BY <4>1, <4>2
    <3>5. a[1] = c
        BY <1>4, <3>2
    <3>6. k + 1 - 1 = k
        BY <1>4
    <3> QED
        BY <3>2, <3>3, <3>4, <3>5, <3>6 DEF IsChain, a
  <2>3. ASSUME NEW w \in Ways, EndsLike(w, s) PROVE \E q \in further : EndsLike(w, q)
    <3> DEFINE m == Len(w)
               n == w[m - k]
               a == Append(s, n)
    <3>1. /\ w \in Seq(Nodes) /\ m \in Nat /\ k <= m /\ \A i \in 1 .. k : s[i] = w[m + 1 - i]
        BY <1>7, <2>3
    <3>2. (\A i \in 1 .. m - 1 : <<w[i], w[i + 1]>> \in links) /\ NoneTwice(w) /\ Parents(w[1]) = {}
        BY WaysAre
    <3> HIDE DEF m
    <3>3. k # m
      <4> SUFFICES ASSUME k = m PROVE FALSE
          OBVIOUS
      <4>1. m + 1 - k = 1 /\ k \in 1 .. k
          BY <1>4, <3>1
      <4>2. w[1] = top
          BY <1>4, <3>1, <4>1
      <4> QED
          BY <1>5, <1>10, <3>2, <4>2
    <3>4. m - k \in 1 .. m - 1 /\ m - k + 1 = m + 1 - k /\ k \in 1 .. k /\ m - k \in 1 .. m
      <4>1. k \in Nat /\ k >= 1 /\ m \in Nat /\ k <= m
          BY <1>4, <3>1
      <4> HIDE DEF k
      <4> QED
          BY <3>3, <4>1
    <3>5. n \in Parents(top)
      <4>1. <<n, w[m + 1 - k]>> \in links
          BY <3>2, <3>4
      <4>2. w[m + 1 - k] = top
          BY <1>4, <3>1, <3>4
      <4> QED
          BY <4>1, <4>2, ParentsAre
    <3>6. n \notin On(s)
      <4> SUFFICES ASSUME NEW i \in 1 .. k, s[i] = n PROVE FALSE
          BY <1>4 DEF On
      <4>1. m + 1 - i \in 1 .. m /\ m + 1 - i # m - k
          BY <1>4, <3>1
      <4>2. w[m + 1 - i] = w[m - k]
          BY <3>1
      <4> QED
          BY <3>2, <3>4, <4>1, <4>2 DEF NoneTwice, m
    <3>7. a \in further
        BY <3>5, <3>6
    <3>8. EndsLike(w, a)
      <4>1. n \in Nodes
          BY <3>1, <3>4, <3>5, ParentsAre
      <4> HIDE DEF n
      <4>2. Len(a) = k + 1 /\ a[k + 1] = n /\ \A i \in 1 .. k : a[i] = s[i]
          BY <1>4, <4>1
      <4> HIDE DEF a
      <4>3. k + 1 <= m /\ m + 1 - (k + 1) = m - k
        <5>1. k \in Nat /\ m \in Nat /\ k <= m
            BY <1>4, <3>1
        <5> HIDE DEF k
        <5> QED
            BY <3>3, <5>1
      <4>4. \A i \in 1 .. k + 1 : a[i] = w[m + 1 - i]
        <5> TAKE i \in 1 .. k + 1
        <5>1. i \in 1 .. k \/ i = k + 1
            BY <1>4
        <5> QED
            BY <3>1, <4>2, <4>3, <5>1 DEF n
      <4> QED
          BY <4>2, <4>3, <4>4 DEF EndsLike, m
    <3> QED
        BY <3>7, <3>8
  <2>4. \A q \in further : IsChain(c, q)
      BY <2>2
  <2> HIDE DEF further
  <2> QED
      BY <2>1, <2>3, <2>4 DEF WalkFrom
<1> QED
    BY <1>4, <1>8, <1>9, <1>10, BoundsAreNumbers

LEMMA WalkKept == ViewSpec => []WalkInv
<1>1. ViewInit => WalkInv
  <2>1. ASSUME WalkInit PROVE WalkInv
    <3>1. /\ links \subseteq Needs /\ hidden \subseteq Listable /\ paths = {}
        BY <2>1 DEF WalkInit
    <3>2. PICK c \in Listable : stack = {<<c>>}
        BY <2>1 DEF WalkInit
    <3>3. IsChain(c, <<c>>)
        BY DEF IsChain, NoneTwice, Nodes
    <3>4. ASSUME NEW w \in Ways, Last(w) = c PROVE EndsLike(w, <<c>>)
      <4>1. w \in Seq(Nodes) /\ Len(w) \in 1 .. MaxDepth
          BY WaysAre
      <4>2. Len(w) \in Nat /\ 1 <= Len(w) /\ Len(w) + 1 - 1 = Len(w) /\ w[Len(w)] = c
          BY <3>4, <4>1, BoundsAreNumbers DEF Last
      <4>3. Len(<<c>>) = 1 /\ <<c>>[1] = c
          OBVIOUS
      <4> QED
          BY <4>2, <4>3 DEF EndsLike
    <3> QED
        BY <3>1, <3>2, <3>3, <3>4 DEF WalkInv, WalkFrom
  <2>2. ASSUME DiffInit PROVE WalkInv
    <3>1. links = {} /\ hidden = {} /\ stack = {} /\ paths = {}
        BY <2>2 DEF DiffInit
    <3> QED
        BY <3>1 DEF WalkInv
  <2> QED
      BY <2>1, <2>2 DEF ViewInit
<1>2. WalkInv /\ [ViewNext]_viewVars => WalkInv'
  <2> SUFFICES ASSUME WalkInv, [ViewNext]_viewVars PROVE WalkInv'
      OBVIOUS
  <2>1. CASE Pop
    <3>1. stack # {} /\ UNCHANGED <<eco, hidden, links>>
        BY <2>1 DEF Pop
    <3>2. PICK c \in Listable : WalkFrom(c)
        BY <3>1 DEF WalkInv
    <3>3. WalkFrom(c)'
        BY <2>1, <3>2, WalkGoesOn DEF WalkInv
    <3> QED
        BY <3>1, <3>3 DEF WalkInv, Needs, Listable
  <2>2. CASE UNCHANGED viewVars
      BY <2>2 DEF viewVars, WalkInv, WalkFrom, IsChain, EndsLike, Ways, Parents, Needs, Listable
  <2> QED
      BY <2>1, <2>2 DEF ViewNext
<1> QED
    BY <1>1, <1>2, PTL DEF ViewSpec

LEMMA WaysAreFound == WalkInv => PathsAreTheWays
<1> SUFFICES ASSUME WalkInv, stack = {}, paths # {} PROVE paths = {p \in Ways : Last(p) = Target}
    BY DEF PathsAreTheWays
<1>1. PICK c \in Listable : WalkFrom(c)
    BY DEF WalkInv
<1>2. /\ \A p \in paths : p \in Ways /\ Last(p) = c
      /\ \A w \in Ways : Last(w) = c => w \in paths
    BY <1>1 DEF WalkFrom
<1>3. Target = c
  <2>1. \A d : (\E p \in paths \cup {RootFirst(s) : s \in stack} : Last(p) = d) <=> d = c
      BY <1>2
  <2> QED
      BY <2>1 DEF Target
<1> QED
    BY <1>2, <1>3

(***************************************************************************)
(* The clusters, the pages and the tree                                    *)
(***************************************************************************)

LEMMA PageIs ==
    ASSUME NEW N \in SUBSET Nat, IsFiniteSet(N)
    PROVE  /\ Page(N) \subseteq N /\ IsFiniteSet(Page(N))
           /\ Cardinality(Page(N)) \in Nat /\ Cardinality(N) \in Nat
           /\ Cardinality(Page(N)) <= Budget
           /\ Cardinality(N) <= Budget => Page(N) = N
           /\ Cardinality(N) > Budget <=> Cardinality(Page(N)) < Cardinality(N)
<1> DEFINE less(n) == {m \in N : m < n}
           P == Page(N)
<1>1. P = {n \in N : Cardinality(less(n)) < Budget}
    BY DEF Page
<1>2. ASSUME NEW n \in N
      PROVE  IsFiniteSet(less(n)) /\ Cardinality(less(n)) \in Nat /\ Cardinality(less(n)) < Cardinality(N)
  <2>1. less(n) \in SUBSET N /\ less(n) # N
      OBVIOUS
  <2> HIDE DEF less
  <2>2. IsFiniteSet(less(n)) /\ Cardinality(less(n)) <= Cardinality(N) /\ Cardinality(less(n)) # Cardinality(N)
      BY <2>1, FS_Subset
  <2>3. Cardinality(less(n)) \in Nat /\ Cardinality(N) \in Nat
      BY <2>2, FS_CardinalityType
  <2> QED
      BY <2>2, <2>3
<1>3. ASSUME NEW m \in N, NEW n \in N, m < n PROVE Cardinality(less(m)) < Cardinality(less(n))
  <2>1. less(m) \in SUBSET less(n)
    <3> SUFFICES ASSUME NEW x \in N, x < m PROVE x < n
        OBVIOUS
    <3>1. x \in Nat /\ m \in Nat /\ n \in Nat
        OBVIOUS
    <3> QED
        BY <1>3, <3>1
  <2>4. m \in less(n) /\ m \notin less(m)
    <3>1. m \in Nat
        OBVIOUS
    <3> QED
        BY <1>3, <3>1
  <2>2. IsFiniteSet(less(n)) /\ Cardinality(less(n)) \in Nat /\ Cardinality(less(m)) \in Nat
      BY <1>2
  <2> HIDE DEF less
  <2>3. Cardinality(less(m)) <= Cardinality(less(n)) /\ Cardinality(less(m)) # Cardinality(less(n))
      BY <2>1, <2>2, <2>4, FS_Subset
  <2> QED
      BY <2>2, <2>3
<1>4. P \subseteq N /\ IsFiniteSet(P)
    BY <1>1, FS_Subset
<1>5. Cardinality(P) \in Nat /\ Cardinality(N) \in Nat /\ Cardinality(P) <= Cardinality(N)
  <2> HIDE DEF P
  <2> QED
      BY <1>4, FS_Subset, FS_CardinalityType
<1>6. Cardinality(P) <= Budget
  <2> DEFINE T == 0 .. Budget - 1
             f == [n \in P |-> Cardinality(less(n))]
  <2>1. IsFiniteSet(T) /\ Cardinality(T) = Budget
      BY FS_Interval, BoundsAreNumbers
  <2> HIDE DEF less
  <2>2. ASSUME NEW n \in P PROVE n \in N /\ n \in Nat /\ Cardinality(less(n)) \in T
    <3>1. n \in N /\ Cardinality(less(n)) < Budget
        BY <1>1
    <3>2. Cardinality(less(n)) \in Nat
        BY <1>2, <3>1
    <3> HIDE DEF P
    <3> QED
        BY <3>1, <3>2, BoundsAreNumbers
  <2>3. \A m, n \in P : Cardinality(less(m)) = Cardinality(less(n)) => m = n
    <3> TAKE m \in P, n \in P
    <3>1. m \in Nat /\ n \in Nat /\ (m < n \/ n < m \/ m = n)
        BY <2>2
    <3>2. /\ m < n => Cardinality(less(m)) < Cardinality(less(n))
          /\ n < m => Cardinality(less(n)) < Cardinality(less(m))
        BY <1>3, <2>2
    <3>3. Cardinality(less(m)) \in Nat /\ Cardinality(less(n)) \in Nat
        BY <1>2, <2>2
    <3> QED
        BY <3>1, <3>2, <3>3
  <2>4. f \in Injection(P, T)
      BY <2>2, <2>3 DEF Injection, IsInjective
  <2> HIDE DEF f, P, T
  <2> QED
      BY <2>1, <2>4, FS_Injection
<1>7. Cardinality(N) <= Budget => P = N
  <2> SUFFICES ASSUME Cardinality(N) <= Budget, NEW n \in N PROVE n \in P
      BY <1>4
  <2>1. Cardinality(less(n)) < Budget
    <3>1. Cardinality(less(n)) \in Nat /\ Cardinality(less(n)) < Cardinality(N)
        BY <1>2
    <3> HIDE DEF less
    <3> QED
        BY <1>5, <3>1, BoundsAreNumbers
  <2> QED
      BY <1>1, <2>1
<1> HIDE DEF P
<1>8. Cardinality(N) > Budget <=> Cardinality(P) < Cardinality(N)
    BY <1>5, <1>6, <1>7, BoundsAreNumbers
<1> QED
    BY <1>4, <1>5, <1>6, <1>7, <1>8 DEF P

\* The kept components of some ecosystems.
Within(s) == {c \in Kept : eco[c] \in s}
Clusters == {eco[c] : c \in Kept}
Adds(g) ==
    g = [s \in SUBSET Clusters |->
           IF s = {} THEN 0
           ELSE Cardinality(Members(CHOOSE e \in s : TRUE)) + g[s \ {CHOOSE e \in s : TRUE}]]

LEMMA ClustersAddUp ==
    ASSUME IsFiniteSet(Kept)
    PROVE  MapThenSumSet(LAMBDA e : Overview.nodes[e], DOMAIN Overview.nodes) = Cardinality(Kept)
<1> DEFINE h == [s \in SUBSET Clusters |-> Cardinality(Within(s))]
           size == Cardinality(Clusters)
           g == CHOOSE a : Adds(a)
<1>1. IsFiniteSet(Clusters) /\ size \in Nat
  <2> DEFINE f == [c \in Kept |-> eco[c]]
  <2>1. f \in Surjection(Kept, Clusters)
      BY DEF Surjection, Clusters
  <2> HIDE DEF f
  <2> QED
      BY <2>1, FS_Surjection, FS_CardinalityType
<1>2. ASSUME NEW s PROVE IsFiniteSet(Within(s)) /\ Cardinality(Within(s)) \in Nat
    BY FS_Subset, FS_CardinalityType DEF Within
<1>3. ASSUME NEW s \in SUBSET Clusters, NEW e \in s
      PROVE  Cardinality(Within(s)) = Cardinality(Members(e)) + Cardinality(Within(s \ {e}))
  <2> DEFINE A == Members(e)
             B == Within(s \ {e})
  <2>1. A = Within({e})
      BY DEF Members, Within
  <2>2. Within(s) = A \cup B /\ A \cap B = {}
      BY DEF Members, Within
  <2>3. IsFiniteSet(A) /\ IsFiniteSet(B) /\ Cardinality(A) \in Nat /\ Cardinality(B) \in Nat
      BY <1>2, <2>1
  <2> HIDE DEF A, B
  <2>4. Cardinality({}) = 0
      BY FS_EmptySet
  <2>5. Cardinality(A \cup B) = Cardinality(A) + Cardinality(B) - Cardinality(A \cap B)
      BY <2>3, FS_Union
  <2>6. Cardinality(A \cup B) = Cardinality(A) + Cardinality(B)
      BY <2>2, <2>3, <2>4, <2>5
  <2> QED
      BY <2>2, <2>6 DEF A, B
<1>4. Adds(h)
  <2> DEFINE pick(s) == CHOOSE e \in s : TRUE
  <2>1. \A s \in SUBSET Clusters : s # {} => pick(s) \in s /\ s \ {pick(s)} \in SUBSET Clusters
      OBVIOUS
  <2>2. Within({}) = {}
      BY DEF Within
  <2>3. Cardinality(Within({})) = 0
      BY <2>2, FS_EmptySet
  <2>4. ASSUME NEW s \in SUBSET Clusters
        PROVE  Cardinality(Within(s)) = IF s = {} THEN 0 ELSE Cardinality(Members(pick(s))) + h[s \ {pick(s)}]
    <3>1. CASE s = {}
        BY <2>3, <3>1
    <3>2. CASE s # {}
      <4>1. Cardinality(Within(s)) = Cardinality(Members(pick(s))) + Cardinality(Within(s \ {pick(s)}))
          BY <1>3, <2>1, <3>2
      <4>2. h[s \ {pick(s)}] = Cardinality(Within(s \ {pick(s)}))
          BY <2>1, <3>2
      <4> QED
          BY <3>2, <4>1, <4>2
    <3> QED
        BY <3>1, <3>2
  <2> QED
      BY <2>4 DEF Adds
<1>5. Adds(g)
    BY <1>4
<1>6. MapThenSumSet(LAMBDA e : Overview.nodes[e], DOMAIN Overview.nodes) = g[Clusters]
  <2>1. DOMAIN Overview.nodes = Clusters /\ \A e \in Clusters : Overview.nodes[e] = Cardinality(Members(e))
      BY DEF Overview, Clusters, Members
  <2> DEFINE sums(a) ==
        a = [s \in SUBSET Clusters |-> IF s = {} THEN 0
               ELSE Overview.nodes[CHOOSE e \in s : TRUE] + a[s \ {CHOOSE e \in s : TRUE}]]
  <2>2. MapThenSumSet(LAMBDA e : Overview.nodes[e], Clusters) = (CHOOSE a : sums(a))[Clusters]
      BY DEF MapThenSumSet, MapThenFoldSet
  <2>3. \A s \in SUBSET Clusters : s # {} => Overview.nodes[CHOOSE e \in s : TRUE] = Cardinality(Members(CHOOSE e \in s : TRUE))
      BY <2>1
  <2>4. \A a : sums(a) <=> Adds(a)
    <3> TAKE a
    <3> DEFINE one(s) == IF s = {} THEN 0 ELSE Overview.nodes[CHOOSE e \in s : TRUE] + a[s \ {CHOOSE e \in s : TRUE}]
               other(s) == IF s = {} THEN 0 ELSE Cardinality(Members(CHOOSE e \in s : TRUE)) + a[s \ {CHOOSE e \in s : TRUE}]
    <3>1. \A s \in SUBSET Clusters : one(s) = other(s)
        BY <2>3
    <3>2. sums(a) <=> a = [s \in SUBSET Clusters |-> one(s)]
        OBVIOUS
    <3>3. Adds(a) <=> a = [s \in SUBSET Clusters |-> other(s)]
        BY DEF Adds
    <3> HIDE DEF one, other, sums
    <3>4. [s \in SUBSET Clusters |-> one(s)] = [s \in SUBSET Clusters |-> other(s)]
        BY <3>1
    <3> QED
        BY <3>2, <3>3, <3>4
  <2> HIDE DEF sums
  <2>5. (CHOOSE a : sums(a)) = g
      BY <2>4
  <2> QED
      BY <2>1, <2>2, <2>5
<1> HIDE DEF g
<1>7. g[Clusters] = h[Clusters]
  <2> DEFINE G == {k \in 0 .. size : \A s \in SUBSET Clusters : Cardinality(s) <= k => g[s] = h[s]}
  <2>1. \A s \in SUBSET Clusters : IsFiniteSet(s) /\ Cardinality(s) \in Nat /\ (Cardinality(s) = 0 <=> s = {})
      BY <1>1, FS_Subset, FS_CardinalityType, FS_EmptySet
  <2>2. \A s \in SUBSET Clusters : s # {} =>
            \E e \in s : g[s] = Cardinality(Members(e)) + g[s \ {e}] /\ h[s] = Cardinality(Members(e)) + h[s \ {e}]
    <3> TAKE s \in SUBSET Clusters
    <3> HAVE s # {}
    <3> DEFINE e == CHOOSE x \in s : TRUE
    <3>1. e \in s
        OBVIOUS
    <3>2. g[s] = Cardinality(Members(e)) + g[s \ {e}]
        BY <1>5 DEF Adds
    <3> HIDE DEF h
    <3>3. h[s] = Cardinality(Members(e)) + h[s \ {e}]
        BY <1>4 DEF Adds
    <3> HIDE DEF e
    <3> QED
        BY <3>1, <3>2, <3>3
  <2>3. g[{}] = 0 /\ h[{}] = 0
    <3> HIDE DEF h
    <3> QED
        BY <1>4, <1>5 DEF Adds
  <2> HIDE DEF h
  <2>4. 0 \in G
      BY <1>1, <2>1, <2>3
  <2>5. ASSUME NEW k \in 1 .. size, k - 1 \in G PROVE k \in G
    <3> SUFFICES ASSUME NEW s \in SUBSET Clusters, Cardinality(s) <= k PROVE g[s] = h[s]
        BY <1>1
    <3>1. CASE s = {}
        BY <2>3, <3>1
    <3>2. CASE s # {}
      <4>1. PICK e \in s : g[s] = Cardinality(Members(e)) + g[s \ {e}] /\ h[s] = Cardinality(Members(e)) + h[s \ {e}]
          BY <2>2, <3>2
      <4>2. Cardinality(s \ {e}) = Cardinality(s) - 1
          BY <2>1, FS_RemoveElement
      <4>3. s \ {e} \in SUBSET Clusters /\ Cardinality(s \ {e}) <= k - 1
          BY <2>1, <4>2
      <4>4. g[s \ {e}] = h[s \ {e}]
          BY <2>5, <4>3
      <4> QED
          BY <4>1, <4>4
    <3> QED
        BY <3>1, <3>2
  <2>6. size \in G
    <3> HIDE DEF G
    <3>1. \A k \in 0 .. size : k \in G
        BY <1>1, <2>4, <2>5, CountUp
    <3> QED
        BY <1>1, <3>1
  <2> QED
      BY <1>1, <2>1, <2>6
<1>8. h[Clusters] = Cardinality(Kept)
  <2>1. Within(Clusters) = Kept
      BY DEF Within, Clusters
  <2> QED
      BY <2>1
<1> QED
    BY <1>6, <1>7, <1>8

LEMMA ZoomIsFaithful ==
    ASSUME links \subseteq Needs, hidden \subseteq Listable
    PROVE  ZoomLosesNothing
<1>1. Listable \subseteq Nat /\ IsFiniteSet(Listable)
    BY BoundsAreNumbers, FS_Interval DEF Listable
<1>2. Kept \in SUBSET Listable /\ Kept \in SUBSET Nat /\ IsFiniteSet(Kept)
    BY <1>1, FS_Subset DEF Kept
<1>3. ASSUME NEW S \in SUBSET Kept
      PROVE  /\ Page(S) \subseteq S /\ Cardinality(Page(S)) <= Budget
             /\ ~(Cardinality(S) > Budget) => Page(S) = S
             /\ Cardinality(S) > Budget <=> Cardinality(Page(S)) < Cardinality(S)
  <2>1. S \in SUBSET Nat /\ IsFiniteSet(S)
      BY <1>2, FS_Subset
  <2>2. /\ Page(S) \subseteq S /\ Cardinality(Page(S)) <= Budget /\ Cardinality(S) \in Nat
        /\ Cardinality(S) <= Budget => Page(S) = S
        /\ Cardinality(S) > Budget <=> Cardinality(Page(S)) < Cardinality(S)
      BY <2>1, PageIs
  <2> QED
      BY <2>2, BoundsAreNumbers
<1>4. \A l \in links : l = <<l[1], l[2]>> /\ l[1] \in Nodes /\ l[2] \in Listable
    BY DEF Needs, Nodes
<1>5. MapThenSumSet(LAMBDA e : Overview.nodes[e], DOMAIN Overview.nodes) = Counters.components
    BY <1>2, ClustersAddUp DEF Counters
<1>6. ASSUME NEW e \in DOMAIN Overview.nodes
      PROVE  /\ Cardinality(Expand(e).nodes) <= Budget
             /\ Expand(e).truncated = (Cardinality(Expand(e).nodes) < Overview.nodes[e])
  <2>1. Overview.nodes[e] = Cardinality(Members(e))
      BY DEF Overview, Members
  <2>2. Expand(e).nodes = Page(Members(e)) /\ Expand(e).truncated = (Cardinality(Members(e)) > Budget)
      BY DEF Expand
  <2>3. Members(e) \in SUBSET Kept
      BY DEF Members
  <2>4. /\ Cardinality(Page(Members(e))) <= Budget
        /\ Cardinality(Members(e)) > Budget <=> Cardinality(Page(Members(e))) < Cardinality(Members(e))
      BY <1>3, <2>3
  <2> QED
      BY <2>1, <2>2, <2>4
<1>7. ASSUME NEW l \in Among(Kept)
      PROVE  \/ <<eco[l[1]], eco[l[2]]>> \in Overview.edges
             \/ l \in Expand(eco[l[1]]).edges \/ Expand(eco[l[1]]).truncated
  <2> DEFINE e == eco[l[1]]
  <2>1. l \in links /\ l[1] \in Kept /\ l[2] \in Kept
      BY DEF Among
  <2>2. CASE e # eco[l[2]]
      BY <2>2 DEF Overview
  <2>3. CASE e = eco[l[2]] /\ ~(Cardinality(Members(e)) > Budget)
    <3>1. l[1] \in Members(e) /\ l[2] \in Members(e) /\ Members(e) \in SUBSET Kept
        BY <2>1, <2>3 DEF Members
    <3>2. Page(Members(e)) = Members(e)
        BY <1>3, <2>3, <3>1
    <3>3. l \in Among(Page(Members(e)))
        BY <2>1, <3>1, <3>2 DEF Among
    <3> QED
        BY <3>3 DEF Expand
  <2>4. CASE Cardinality(Members(e)) > Budget
      BY <2>4 DEF Expand
  <2> QED
      BY <2>2, <2>3, <2>4
<1>8. ASSUME NEW c \in Listable
      PROVE  /\ ~Deps(c).truncated => Cardinality(Deps(c).nodes) = Kids(c)
             /\ c \in Kept => \A d \in Deps(c).nodes : c \in Above(d)
  <2> DEFINE K == {l \in links : l[1] = c /\ l[2] \in Kept}
             f == [l \in K |-> l[2]]
  <2>1. \A d : d \in Below(c) <=> d \in Kept /\ <<c, d>> \in links
      BY <1>4 DEF Below
  <2>2. Below(c) \in SUBSET Kept /\ IsFiniteSet(Below(c))
      BY <1>2, <2>1, FS_Subset
  <2>3. Deps(c).nodes = Page(Below(c)) /\ Deps(c).truncated = (Cardinality(Below(c)) > Budget)
      BY DEF Deps
  <2>4. Page(Below(c)) \subseteq Below(c) /\ (~(Cardinality(Below(c)) > Budget) => Page(Below(c)) = Below(c))
      BY <1>3, <2>2
  <2>5. Cardinality(Below(c)) = Kids(c)
    <3>1. \A l \in K : l = <<c, l[2]>> /\ l[2] \in Below(c)
        BY <1>4, <2>1
    <3>2. \A d \in Below(c) : <<c, d>> \in K /\ f[<<c, d>>] = d
        BY <2>1
    <3>3. f \in Injection(K, Below(c)) /\ f \in Surjection(K, Below(c))
      <4>1. f \in [K -> Below(c)] /\ \A l \in K : f[l] = l[2]
          BY <3>1
      <4>2. \A d \in Below(c) : \E l \in K : f[l] = d
          BY <3>2
      <4>3. \A k, l \in K : f[k] = f[l] => k = l
        <5> HIDE DEF f, K
        <5> TAKE k \in K, l \in K
        <5>1. k = <<c, k[2]>> /\ l = <<c, l[2]>> /\ f[k] = k[2] /\ f[l] = l[2]
            BY <3>1, <4>1
        <5> QED
            BY <5>1
      <4> HIDE DEF f, K
      <4> QED
          BY <4>1, <4>2, <4>3 DEF Injection, IsInjective, Surjection
    <3>4. Kids(c) = Cardinality(K)
        BY DEF Kids
    <3> HIDE DEF f, K
    <3>5. Cardinality(K) = Cardinality(Below(c))
        BY <2>2, <3>3, FS_Injection
    <3> QED
        BY <3>4, <3>5
  <2>6. ASSUME c \in Kept, NEW d \in Below(c) PROVE c \in Above(d)
      BY <2>1, <2>6, ParentsAre DEF Above
  <2> QED
      BY <2>3, <2>4, <2>5, <2>6
<1> QED
    BY <1>5, <1>6, <1>7, <1>8 DEF ZoomLosesNothing

\* What the page draws is in the run, and what is in the run can be reached
\* on the page.
THEOREM ViewsAlwaysShowTheGraph == ViewSpec => []ViewsShowTheGraph
<1>1. WalkInv => ViewsShowTheGraph
    BY WaysAreFound, ZoomIsFaithful DEF ViewsShowTheGraph, WalkInv
<1> QED
    BY <1>1, WalkKept, PTL

(***************************************************************************)
(* The page's export                                                       *)
(***************************************************************************)

\* What is selected of a run, and the relations among it.
Wanted(res, ids, include) ==
    {i \in DOMAIN res.rows : (ids = {} \/ i \in ids) /\ (include \/ ~res.rows[i].hidden)}
AmongWanted(fmt, res, ids, include) ==
    {l \in res.links : /\ l.from \in Wanted(res, ids, include) /\ l.to \in Wanted(res, ids, include)
                       /\ l.kind \in LinksWritten[fmt]}

LEMMA CopyHides ==
    ASSUME NEW res, IsRun(res), NEW ids \in SUBSET DOMAIN res.rows, NEW include \in BOOLEAN
    PROVE  LET copy == Copy(res, ids, include)
           IN  /\ DOMAIN copy.rows = DOMAIN res.rows /\ copy.links = res.links
               /\ Shown(copy) = Wanted(res, ids, include)
               /\ \A fmt : \A i \in DOMAIN res.rows : Ref(fmt, copy.rows[i], i) = Ref(fmt, res.rows[i], i)
<1> DEFINE copy == Copy(res, ids, include)
           one(i) == [res.rows[i] EXCEPT !.hidden = HiddenInCopy(res, ids, include, i)]
<1>1. copy.rows = [i \in DOMAIN res.rows |-> one(i)] /\ copy.links = res.links
  <2> DEFINE rows == [i \in DOMAIN res.rows |-> one(i)]
  <2>1. copy = [res EXCEPT !.rows = rows]
      BY DEF Copy
  <2>2. PICK r, l : res = [rows |-> r, links |-> l]
      BY DEF IsRun
  <2> HIDE DEF rows, copy
  <2>3. [res EXCEPT !.rows = rows].rows = rows /\ [res EXCEPT !.rows = rows].links = res.links
      BY <2>2
  <2> QED
      BY <2>1, <2>3 DEF rows
<1>2. ASSUME NEW i \in DOMAIN res.rows
      PROVE  /\ one(i).hidden = HiddenInCopy(res, ids, include, i)
             /\ one(i).purl = res.rows[i].purl /\ one(i).name = res.rows[i].name /\ one(i).ver = res.rows[i].ver
  <2> DEFINE c == res.rows[i]
             h == HiddenInCopy(res, ids, include, i)
  <2>1. c = [name |-> c.name, ver |-> c.ver, purl |-> c.purl, licence |-> c.licence, hidden |-> c.hidden, eco |-> c.eco,
             ctype |-> c.ctype, scope |-> c.scope, tier |-> c.tier, algos |-> c.algos, conf |-> c.conf]
      BY DEF IsRun, IsComponent
  <2> HIDE DEF h, c
  <2>2. LET d == [c EXCEPT !.hidden = h] IN d.hidden = h /\ d.purl = c.purl /\ d.name = c.name /\ d.ver = c.ver
      BY <2>1
  <2> QED
      BY <2>2 DEF c, h
<1> HIDE DEF copy, one
<1>3. \A i \in DOMAIN res.rows : ~one(i).hidden <=> (ids = {} \/ i \in ids) /\ (include \/ ~res.rows[i].hidden)
    BY <1>2 DEF HiddenInCopy, IsRun, IsComponent
<1>4. Shown(copy) = Wanted(res, ids, include)
    BY <1>1, <1>3 DEF Shown, Wanted
<1>5. \A fmt : \A i \in DOMAIN res.rows : Ref(fmt, copy.rows[i], i) = Ref(fmt, res.rows[i], i)
    BY <1>1, <1>2 DEF Ref, PurlOf
<1> QED
    BY <1>1, <1>4, <1>5 DEF copy

\* No component is taken for the subject.
LEMMA RefsAreNotTheSubject ==
    ASSUME NEW fmt, NEW c, NEW i, i # 0
    PROVE  Ref(fmt, c, i) # SubjectRef
<1>1. CASE fmt = "cyclonedx" /\ c.purl # Unsaid
    BY <1>1 DEF Ref, PurlOf, SubjectRef
<1>2. CASE ~(fmt = "cyclonedx" /\ c.purl # Unsaid)
    BY <1>2 DEF Ref, SubjectRef
<1> QED
    BY <1>1, <1>2

LEMMA EntryRef ==
    ASSUME NEW fmt, NEW c, NEW i
    PROVE  Entry(fmt, c, i).ref = Ref(fmt, c, i)
    BY DEF Entry

Selection(fmt, res, ids, include) ==
    LET doc == ExportSbom(res, fmt, ids, include)
        ref(i) == Ref(fmt, res.rows[i], i)
    IN  /\ DOMAIN doc.entries = Wanted(res, ids, include)
        /\ {a \in doc.arrows : a[2] # SubjectRef} =
               {<<l.kind, ref(l.from), ref(l.to)>> : l \in AmongWanted(fmt, res, ids, include)}
        /\ Validates(fmt, doc)

LEMMA ExportsSelect ==
    ASSUME NEW res, IsRun(res), NEW fmt \in {"cyclonedx", "spdx"},
           NEW ids \in SUBSET DOMAIN res.rows, NEW include \in BOOLEAN
    PROVE  Selection(fmt, res, ids, include)
<1> DEFINE copy == Copy(res, ids, include)
           doc == Document(fmt, copy)
           wanted == Wanted(res, ids, include)
           among == AmongWanted(fmt, res, ids, include)
           ref(i) == Ref(fmt, res.rows[i], i)
           refs == [i \in DOMAIN copy.rows |-> Ref(fmt, copy.rows[i], i)]
           shownRefs == [i \in Shown(copy) |-> refs[i]]
           tops == SubjectArrows(fmt, copy, shownRefs)
           arrows == {<<l.kind, refs[l.from], refs[l.to]>> : l \in Written(fmt, copy)}
<1>1. /\ DOMAIN copy.rows = DOMAIN res.rows /\ copy.links = res.links /\ Shown(copy) = wanted
      /\ \A i \in DOMAIN res.rows : Ref(fmt, copy.rows[i], i) = ref(i)
    BY CopyHides
<1>2. wanted \subseteq DOMAIN res.rows /\ 0 \notin wanted
    BY DEF Wanted, IsRun
<1> HIDE DEF wanted, ref
<1>3. doc.entries = [i \in Shown(copy) |-> Entry(fmt, copy.rows[i], i)] /\ doc.arrows = arrows \cup tops
    BY DEF Document
<1>4. /\ refs = [i \in DOMAIN res.rows |-> ref(i)]
      /\ shownRefs = [i \in wanted |-> ref(i)]
    BY <1>1, <1>2
<1>5. Written(fmt, copy) = among
    BY <1>1 DEF Written, AmongWanted, wanted
<1>6. \A l \in among : l.from \in wanted /\ l.to \in wanted
    BY DEF AmongWanted, wanted
<1> HIDE DEF refs, shownRefs
<1>7. arrows = {<<l.kind, ref(l.from), ref(l.to)>> : l \in among}
  <2>1. \A l \in among : refs[l.from] = ref(l.from) /\ refs[l.to] = ref(l.to)
      BY <1>2, <1>4, <1>6
  <2> HIDE DEF among
  <2> QED
      BY <1>5, <2>1
<1> HIDE DEF arrows, tops, among
<1>8. \A i \in wanted : ref(i) # SubjectRef
    BY <1>2, RefsAreNotTheSubject DEF ref
<1>9. \A a \in arrows : a[2] # SubjectRef /\ \E i, j \in wanted : a[2] = ref(i) /\ a[3] = ref(j)
    BY <1>6, <1>7, <1>8
<1>10. ASSUME NEW a \in tops PROVE a[2] = SubjectRef /\ (fmt = "spdx" => \E i \in wanted : a[3] = ref(i))
  <2>1. CASE fmt = "cyclonedx"
      BY <2>1, <1>10 DEF tops, SubjectArrows
  <2>2. CASE fmt = "spdx"
    <3>1. tops = {<<"DESCRIBES", SubjectRef, shownRefs[i]>> : i \in wanted}
        BY <1>4, <2>2 DEF tops, SubjectArrows
    <3>2. PICK i \in wanted : a = <<"DESCRIBES", SubjectRef, shownRefs[i]>>
        BY <1>10, <3>1
    <3>3. a[2] = SubjectRef /\ a[3] = ref(i)
        BY <1>4, <3>2
    <3> QED
        BY <3>3
  <2> QED
      BY <2>1, <2>2
<1> DEFINE entryRefs == {doc.entries[i].ref : i \in DOMAIN doc.entries}
<1>11. DOMAIN doc.entries = wanted
    BY <1>1, <1>3
<1>12. \A i \in wanted : ref(i) \in entryRefs
  <2>1. \A i \in wanted : doc.entries[i] = Entry(fmt, copy.rows[i], i)
      BY <1>1, <1>3
  <2>2. \A i \in wanted : Entry(fmt, copy.rows[i], i).ref = ref(i)
    <3>1. \A c, i : Entry(fmt, c, i).ref = Ref(fmt, c, i)
        BY EntryRef
    <3> QED
        BY <1>1, <1>2, <3>1
  <2> HIDE DEF doc
  <2> QED
      BY <1>11, <2>1, <2>2
<1> HIDE DEF doc
<1>13. Validates(fmt, doc)
  <2>1. ASSUME NEW a \in doc.arrows
        PROVE  a[2] \in entryRefs \cup {SubjectRef} /\ (fmt = "spdx" => a[3] \in entryRefs \cup {SubjectRef})
    <3> HIDE DEF entryRefs
    <3> QED
        BY <1>3, <1>9, <1>10, <1>12, <2>1
  <2> QED
      BY <2>1 DEF Validates
<1>14. {a \in doc.arrows : a[2] # SubjectRef} = arrows
    BY <1>3, <1>9, <1>10
<1>15. ExportSbom(res, fmt, ids, include) = doc
    BY DEF ExportSbom, doc
<1> QED
    BY <1>7, <1>11, <1>13, <1>14, <1>15 DEF Selection, wanted, among, ref

(***************************************************************************)
(* Chains of conversions                                                   *)
(***************************************************************************)

\* What the properties say of the formats on the way, for any set of them.
CommonIn(T, reads) == {x \in UNION {reads[f] : f \in Foreign} : \A f \in T : x \in reads[f]}
RemainsIn(T, c) ==
    LET plain == "spdx3" \notin T
    IN  [name |-> c.name, ver |-> c.ver, purl |-> c.purl, licence |-> c.licence,
         algos |-> c.algos \cap CommonIn(T, HashesRead),
         eco   |-> IF c.purl # Unsaid THEN c.purl ELSE IF plain THEN c.eco ELSE Unsaid,
         scope |-> IF plain THEN c.scope ELSE Unsaid,
         tier  |-> IF plain THEN c.tier ELSE DeclaredTier,
         conf  |-> IF plain THEN Min({c.conf, TierCap[c.tier]}) ELSE ImportRate]
ThingIn(T, any, i) == IF "cyclonedx" \in T THEN Ref("cyclonedx", any.rows[i], i) ELSE <<PurlOf(any.rows[i]), i>>
RelationsIn(T, any, kinds) ==
    {<<l.kind, ThingIn(T, any, l.from), ThingIn(T, any, l.to)>> :
       l \in {k \in any.links : /\ k.kind \in kinds /\ {k.from, k.to} \subseteq Shown(any)
                                /\ ThingIn(T, any, k.from) # ThingIn(T, any, k.to)}}

\* One component says the same as another.
Alike(d, r) ==
    /\ d.name = r.name /\ d.ver = r.ver /\ d.purl = r.purl /\ d.licence = r.licence /\ d.algos = r.algos
    /\ d.eco = r.eco /\ d.scope = r.scope /\ d.tier = r.tier /\ d.conf = r.conf

LEMMA ReadsAreWritten ==
    ASSUME NEW fmt \in Foreign
    PROVE  HashesRead[fmt] \subseteq HashesWritten[fmt] /\ LinksRead[fmt] \subseteq LinksWritten[fmt]
<1>1. fmt \in {"cyclonedx", "spdx", "spdx3"}
    BY DEF Foreign, Formats
<1>2. HashesRead[fmt] \subseteq HashesWritten[fmt]
    BY <1>1 DEF HashesRead, HashesWritten
<1>3. LinksRead[fmt] \subseteq LinksWritten[fmt]
    BY <1>1 DEF LinksRead, LinksWritten
<1> QED
    BY <1>2, <1>3

LEMMA CommonToMore ==
    ASSUME NEW T, NEW fmt \in Foreign, NEW reads
    PROVE  /\ CommonIn(T \cup {fmt}, reads) = CommonIn(T, reads) \cap reads[fmt]
           /\ CommonIn({fmt}, reads) = reads[fmt]
    BY DEF CommonIn

LEMMA LeastOfTwo ==
    ASSUME NEW a \in Nat, NEW b \in Nat
    PROVE  Min({a, b}) = IF a <= b THEN a ELSE b
<1>1. \A x \in {a, b} : (\A y \in {a, b} : x <= y) => x = IF a <= b THEN a ELSE b
    OBVIOUS
<1>2. \E x \in {a, b} : \A y \in {a, b} : x <= y
    OBVIOUS
<1> QED
    BY <1>1, <1>2 DEF Min

LEMMA CapsAreRates == \A t \in 1 .. 5 : TierCap[t] \in 85 .. 100 /\ (t = 2 => TierCap[t] = 90)
    BY DEF TierCap

\* The last of some rows is one of them.
LEMMA LastIsOne ==
    ASSUME NEW S \in SUBSET Nat, IsFiniteSet(S), S # {}
    PROVE  Max(S) \in S
<1>1. PICK n \in Nat : ExistsBijection(1 .. n, S)
    BY FS_NatBijection
<1>2. PICK f : f \in Bijection(1 .. n, S)
    BY <1>1 DEF ExistsBijection
<1>3. f \in [1 .. n -> S] /\ \A x \in S : \E k \in 1 .. n : f[k] = x
    BY <1>2 DEF Bijection, Surjection
<1> DEFINE G == {k \in 0 .. n : k = 0 \/ \E m \in 1 .. k : \A j \in 1 .. k : f[j] <= f[m]}
<1>4. 0 \in G
    BY <1>1
<1>5. ASSUME NEW k \in 1 .. n, k - 1 \in G PROVE k \in G
  <2>1. \A j \in 1 .. n : f[j] \in Nat
      BY <1>3
  <2>2. CASE k = 1
      BY <2>1, <2>2
  <2>3. CASE k # 1
    <3>1. PICK m \in 1 .. k - 1 : \A j \in 1 .. k - 1 : f[j] <= f[m]
        BY <1>5, <2>3
    <3>2. 1 .. k = (1 .. k - 1) \cup {k} /\ k \in 0 .. n
        BY <2>3
    <3>3. CASE f[k] <= f[m]
        BY <3>1, <3>2, <3>3
    <3>4. CASE f[m] <= f[k]
      <4>1. \A j \in 1 .. k : f[j] <= f[k]
          BY <2>1, <3>1, <3>2, <3>4
      <4> QED
          BY <3>2, <4>1
    <3> QED
        BY <2>1, <3>1, <3>3, <3>4
  <2> QED
      BY <2>2, <2>3
<1>6. n \in G
  <2> HIDE DEF G
  <2>1. \A k \in 0 .. n : k \in G
      BY <1>4, <1>5, CountUp
  <2> QED
      BY <1>1, <2>1
<1>7. n # 0
  <2>1. PICK x \in S : TRUE
      OBVIOUS
  <2> QED
      BY <1>3, <2>1
<1>8. PICK m \in 1 .. n : \A j \in 1 .. n : f[j] <= f[m]
    BY <1>6, <1>7
<1>9. f[m] \in S /\ \A y \in S : f[m] >= y
  <2>1. \A j \in 1 .. n : f[j] \in Nat
      BY <1>3
  <2> QED
      BY <1>3, <1>8, <2>1
<1> QED
    BY <1>9 DEF Max

\* What an importer makes of what an emitter wrote.
LEMMA IngestedFacts ==
    ASSUME NEW c, IsComponent(c), NEW fmt \in Foreign, NEW i
    PROVE  LET d == Ingest(fmt, Entry(fmt, c, i))
           IN  /\ IsComponent(d) /\ ~d.hidden /\ Alike(d, RemainsIn({fmt}, c))
               /\ c.ctype = "library" => d.ctype = "library"
<1> DEFINE e == Entry(fmt, c, i)
           given == Given(fmt, e)
           tier == IF given.tier = 0 THEN DeclaredTier ELSE given.tier
           d == Ingest(fmt, e)
           plain == fmt # "spdx3"
<1>1. fmt \in {"cyclonedx", "spdx", "spdx3"}
    BY DEF Foreign, Formats
<1>2. c.tier \in 1 .. 5 /\ c.conf \in 1 .. 100
    BY DEF IsComponent
<1>3. /\ e.name = c.name /\ e.ver = c.ver /\ e.purl = c.purl /\ e.licence = c.licence
      /\ e.algos = c.algos \cap HashesWritten[fmt] /\ e.tier = c.tier /\ e.conf = c.conf
      /\ e.ctype = OwnFacts(fmt, c).ctype /\ e.eco = OwnFacts(fmt, c).eco /\ e.scope = OwnFacts(fmt, c).scope
    BY DEF Entry
<1>4. /\ e.eco = IF c.purl = Unsaid \/ fmt = "spdx3" THEN c.eco ELSE Unsaid
      /\ plain => e.scope = c.scope
      /\ fmt = "cyclonedx" => e.ctype = TypeOut(c.ctype)
      /\ fmt = "spdx3" => e.ctype = c.ctype
    BY <1>1, <1>3 DEF OwnFacts, EmitCyclonedx, EmitSpdx, EmitSpdx3, EcoFact
<1> HIDE DEF e
<1>5. /\ plain => given.eco = e.eco /\ given.scope = e.scope /\ given.tier = e.tier /\ given.conf = e.conf
      /\ ~plain => given.eco = Unsaid /\ given.scope = Unsaid /\ given.tier = 0 /\ given.conf = 0
      /\ c.ctype = "library" => given.ctype = "library"
    BY <1>1, <1>4 DEF Given, ImportCyclonedx, ImportSpdx, ImportSpdx3, TypeIn, TypeOut
<1>6. d = [name   |-> e.name, ver |-> e.ver, purl |-> e.purl, licence |-> e.licence, hidden |-> FALSE,
           eco    |-> EcoIn(e, given), ctype |-> given.ctype, scope |-> given.scope, tier |-> tier,
           algos  |-> e.algos \cap HashesRead[fmt],
           conf   |-> IF given.conf = 0 THEN ImportRate ELSE Min({given.conf, TierCap[tier]})]
    BY DEF Ingest
<1> HIDE DEF given
<1>7. /\ tier = IF plain THEN c.tier ELSE DeclaredTier
      /\ tier \in 1 .. 5
    BY <1>2, <1>3, <1>5 DEF DeclaredTier
<1> HIDE DEF tier, d
<1>8. /\ d.name = e.name /\ d.ver = e.ver /\ d.purl = e.purl /\ d.licence = e.licence /\ d.hidden = FALSE
      /\ d.eco = EcoIn(e, given) /\ d.ctype = given.ctype /\ d.scope = given.scope /\ d.tier = tier
      /\ d.algos = e.algos \cap HashesRead[fmt]
      /\ d.conf = IF given.conf = 0 THEN ImportRate ELSE Min({given.conf, TierCap[tier]})
      /\ d = [name |-> d.name, ver |-> d.ver, purl |-> d.purl, licence |-> d.licence, hidden |-> d.hidden, eco |-> d.eco,
              ctype |-> d.ctype, scope |-> d.scope, tier |-> d.tier, algos |-> d.algos, conf |-> d.conf]
    BY <1>6
<1>9. d.conf = (IF plain THEN Min({c.conf, TierCap[c.tier]}) ELSE ImportRate) /\ d.conf \in 1 .. 100
  <2>1. CASE plain
    <3>1. d.conf = Min({c.conf, TierCap[c.tier]})
        BY <1>2, <1>3, <1>5, <1>7, <1>8, <2>1
    <3>2. Min({c.conf, TierCap[c.tier]}) = IF c.conf <= TierCap[c.tier] THEN c.conf ELSE TierCap[c.tier]
      <4>1. c.conf \in Nat /\ TierCap[c.tier] \in Nat
          BY <1>2, CapsAreRates
      <4> QED
          BY <4>1, LeastOfTwo
    <3> QED
        BY <1>2, <2>1, <3>1, <3>2, CapsAreRates
  <2>2. CASE ~plain
      BY <1>5, <1>8, <2>2 DEF ImportRate
  <2> QED
      BY <2>1, <2>2
<1>10. d.algos = c.algos \cap CommonIn({fmt}, HashesRead)
    BY <1>3, <1>8, ReadsAreWritten, CommonToMore
<1>11. d.eco = IF c.purl # Unsaid THEN c.purl ELSE IF plain THEN c.eco ELSE Unsaid
    BY <1>3, <1>4, <1>5, <1>8 DEF EcoIn
<1>12. IsComponent(d)
    BY <1>7, <1>8, <1>9 DEF IsComponent
<1>13. Alike(d, RemainsIn({fmt}, c))
  <2>1. ("spdx3" \notin {fmt}) <=> plain
      OBVIOUS
  <2> DEFINE r == RemainsIn({fmt}, c)
  <2>2. /\ r.name = c.name /\ r.ver = c.ver /\ r.purl = c.purl /\ r.licence = c.licence
        /\ r.algos = c.algos \cap CommonIn({fmt}, HashesRead)
        /\ r.eco = IF c.purl # Unsaid THEN c.purl ELSE IF plain THEN c.eco ELSE Unsaid
        /\ r.scope = IF plain THEN c.scope ELSE Unsaid
        /\ r.tier = IF plain THEN c.tier ELSE DeclaredTier
        /\ r.conf = IF plain THEN Min({c.conf, TierCap[c.tier]}) ELSE ImportRate
      BY <2>1 DEF RemainsIn
  <2> HIDE DEF r, plain
  <2>3. d.scope = IF plain THEN c.scope ELSE Unsaid
      BY <1>4, <1>5, <1>8
  <2>4. d.name = c.name /\ d.ver = c.ver /\ d.purl = c.purl /\ d.licence = c.licence
      BY <1>3, <1>8
  <2>5. d.tier = IF plain THEN c.tier ELSE DeclaredTier
      BY <1>7, <1>8
  <2>6. d.conf = IF plain THEN Min({c.conf, TierCap[c.tier]}) ELSE ImportRate
      BY <1>9
  <2> QED
      BY <1>10, <1>11, <2>2, <2>3, <2>4, <2>5, <2>6 DEF Alike, r
<1> QED
    BY <1>5, <1>8, <1>12, <1>13 DEF d, e

\* What is left of it after one more conversion.
LEMMA RemainsOfRemains ==
    ASSUME NEW c, IsComponent(c), NEW T \in SUBSET Foreign, T # {}, NEW fmt \in Foreign,
           NEW d, Alike(d, RemainsIn(T, c)), NEW e, Alike(e, RemainsIn({fmt}, d))
    PROVE  Alike(e, RemainsIn(T \cup {fmt}, c))
<1> DEFINE plain == "spdx3" \notin T
           also == fmt # "spdx3"
           r == RemainsIn(T, c)
           q == RemainsIn({fmt}, d)
           o == RemainsIn(T \cup {fmt}, c)
<1>1. /\ r.name = c.name /\ r.ver = c.ver /\ r.purl = c.purl /\ r.licence = c.licence
      /\ r.algos = c.algos \cap CommonIn(T, HashesRead)
      /\ r.eco = IF c.purl # Unsaid THEN c.purl ELSE IF plain THEN c.eco ELSE Unsaid
      /\ r.scope = IF plain THEN c.scope ELSE Unsaid
      /\ r.tier = IF plain THEN c.tier ELSE DeclaredTier
      /\ r.conf = IF plain THEN Min({c.conf, TierCap[c.tier]}) ELSE ImportRate
    BY DEF RemainsIn
<1>2. /\ q.name = d.name /\ q.ver = d.ver /\ q.purl = d.purl /\ q.licence = d.licence
      /\ q.algos = d.algos \cap CommonIn({fmt}, HashesRead)
      /\ q.eco = IF d.purl # Unsaid THEN d.purl ELSE IF also THEN d.eco ELSE Unsaid
      /\ q.scope = IF also THEN d.scope ELSE Unsaid
      /\ q.tier = IF also THEN d.tier ELSE DeclaredTier
      /\ q.conf = IF also THEN Min({d.conf, TierCap[d.tier]}) ELSE ImportRate
  <2>1. ("spdx3" \notin {fmt}) <=> also
      OBVIOUS
  <2> QED
      BY <2>1 DEF RemainsIn
<1>3. /\ o.name = c.name /\ o.ver = c.ver /\ o.purl = c.purl /\ o.licence = c.licence
      /\ o.algos = c.algos \cap CommonIn(T \cup {fmt}, HashesRead)
      /\ o.eco = IF c.purl # Unsaid THEN c.purl ELSE IF plain /\ also THEN c.eco ELSE Unsaid
      /\ o.scope = IF plain /\ also THEN c.scope ELSE Unsaid
      /\ o.tier = IF plain /\ also THEN c.tier ELSE DeclaredTier
      /\ o.conf = IF plain /\ also THEN Min({c.conf, TierCap[c.tier]}) ELSE ImportRate
  <2>1. ("spdx3" \notin T \cup {fmt}) <=> plain /\ also
      OBVIOUS
  <2> QED
      BY <2>1 DEF RemainsIn
<1> HIDE DEF r, q, o, plain, also
<1>4. /\ d.name = r.name /\ d.ver = r.ver /\ d.purl = r.purl /\ d.licence = r.licence /\ d.algos = r.algos
      /\ d.eco = r.eco /\ d.scope = r.scope /\ d.tier = r.tier /\ d.conf = r.conf
    BY DEF Alike, r
<1>5. /\ e.name = q.name /\ e.ver = q.ver /\ e.purl = q.purl /\ e.licence = q.licence /\ e.algos = q.algos
      /\ e.eco = q.eco /\ e.scope = q.scope /\ e.tier = q.tier /\ e.conf = q.conf
    BY DEF Alike, q
<1>6. e.name = o.name /\ e.ver = o.ver /\ e.purl = o.purl /\ e.licence = o.licence
    BY <1>1, <1>2, <1>3, <1>4, <1>5
<1>7. e.algos = o.algos
  <2>1. e.algos = (c.algos \cap CommonIn(T, HashesRead)) \cap HashesRead[fmt]
    <3>1. CommonIn({fmt}, HashesRead) = HashesRead[fmt]
        BY CommonToMore
    <3> QED
        BY <1>1, <1>2, <1>4, <1>5, <3>1
  <2>2. CommonIn(T \cup {fmt}, HashesRead) = CommonIn(T, HashesRead) \cap HashesRead[fmt]
      BY CommonToMore
  <2> QED
      BY <1>3, <2>1, <2>2
<1>8. e.eco = o.eco
    BY <1>1, <1>2, <1>3, <1>4, <1>5
<1>9. e.scope = o.scope
    BY <1>1, <1>2, <1>3, <1>4, <1>5
<1>10. e.tier = o.tier
    BY <1>1, <1>2, <1>3, <1>4, <1>5
<1>11. e.conf = o.conf
  <2> DEFINE cap == TierCap[c.tier]
  <2>1. c.conf \in Nat /\ cap \in Nat /\ c.tier \in 1 .. 5
      BY CapsAreRates DEF IsComponent
  <2>2. Min({c.conf, cap}) = IF c.conf <= cap THEN c.conf ELSE cap
      BY <2>1, LeastOfTwo
  <2>3. CASE ~also
      BY <1>2, <1>3, <1>5, <2>3
  <2>4. CASE also /\ plain
    <3> DEFINE m == Min({c.conf, cap})
    <3>1. m \in Nat /\ m <= cap
        BY <2>1, <2>2
    <3> HIDE DEF cap, m
    <3>2. Min({m, cap}) = m
        BY <2>1, <3>1, LeastOfTwo
    <3>3. e.conf = Min({m, cap})
        BY <1>1, <1>2, <1>4, <1>5, <2>4 DEF m, cap
    <3> QED
        BY <1>3, <2>4, <3>2, <3>3 DEF m, cap
  <2>5. CASE also /\ ~plain
    <3>1. TierCap[2] = 90
        BY CapsAreRates
    <3>2. Min({80, 90}) = 80
        BY LeastOfTwo
    <3>3. e.conf = Min({ImportRate, TierCap[DeclaredTier]})
        BY <1>1, <1>2, <1>4, <1>5, <2>5
    <3> QED
        BY <1>3, <2>5, <3>1, <3>2, <3>3 DEF ImportRate, DeclaredTier
  <2> QED
      BY <2>3, <2>4, <2>5
<1> QED
    BY <1>6, <1>7, <1>8, <1>9, <1>10, <1>11 DEF Alike, o

\* The facts of a document that its importer builds on.
DocRef(fmt, any, i) == Ref(fmt, any.rows[i], i)
RowOf(fmt, any, ref) == Max({i \in Shown(any) : DocRef(fmt, any, i) = ref})
Legible(fmt, any) == {l \in any.links : l.kind \in LinksRead[fmt] /\ l.from \in Shown(any) /\ l.to \in Shown(any)}

LEMMA RowHasRef ==
    ASSUME NEW any, IsRun(any), NEW fmt, NEW i \in Shown(any)
    PROVE  LET r == RowOf(fmt, any, DocRef(fmt, any, i))
           IN  r \in Shown(any) /\ DocRef(fmt, any, r) = DocRef(fmt, any, i)
<1> DEFINE S == {k \in Shown(any) : DocRef(fmt, any, k) = DocRef(fmt, any, i)}
<1>1. S \subseteq DOMAIN any.rows /\ i \in S
    BY DEF Shown
<1>2. S \subseteq Nat /\ IsFiniteSet(S) /\ S # {}
    BY <1>1, FS_Subset DEF IsRun
<1>3. Max(S) \in S
    BY <1>2, LastIsOne
<1> QED
    BY <1>3 DEF RowOf

LEMMA ImportedLinks ==
    ASSUME NEW any, IsRun(any), NEW fmt \in Foreign
    PROVE  LET got == Import(fmt, Document(fmt, any))
               row(i) == RowOf(fmt, any, DocRef(fmt, any, i))
           IN  /\ got = [rows |-> got.rows, links |-> got.links]
               /\ got.rows = [i \in Shown(any) |-> Ingest(fmt, Entry(fmt, any.rows[i], i))]
               /\ \A m \in Legible(fmt, any) : row(m.from) # row(m.to) =>
                    [kind |-> m.kind, from |-> row(m.from), to |-> row(m.to)] \in got.links
               /\ \A l \in got.links : \E m \in Legible(fmt, any) :
                    l = [kind |-> m.kind, from |-> row(m.from), to |-> row(m.to)]
<1> DEFINE doc == Document(fmt, any)
           ref(i) == DocRef(fmt, any, i)
           refs == [i \in DOMAIN any.rows |-> Ref(fmt, any.rows[i], i)]
           shown == Shown(any)
           shownRefs == [i \in shown |-> refs[i]]
           tops == SubjectArrows(fmt, any, shownRefs)
           arrows == {<<l.kind, refs[l.from], refs[l.to]>> : l \in Written(fmt, any)}
<1>1. shown \subseteq DOMAIN any.rows /\ 0 \notin shown
    BY DEF Shown, IsRun
<1>2. \A i \in shown : refs[i] = ref(i)
    BY <1>1 DEF DocRef
<1>3. /\ doc.entries = [i \in shown |-> Entry(fmt, any.rows[i], i)]
      /\ doc.arrows = arrows \cup tops
    BY DEF Document
<1>4. \A i \in shown : doc.entries[i].ref = ref(i)
  <2>1. \A i : Entry(fmt, any.rows[i], i).ref = Ref(fmt, any.rows[i], i)
      BY EntryRef
  <2> HIDE DEF doc
  <2> QED
      BY <1>3, <2>1 DEF DocRef
<1>5. \A i \in shown : ref(i) # SubjectRef
    BY <1>1, RefsAreNotTheSubject DEF DocRef
<1> HIDE DEF shownRefs
<1>6. \A a \in tops : a[2] = SubjectRef
  <2>1. CASE fmt = "cyclonedx"
      BY <2>1 DEF SubjectArrows
  <2>2. CASE fmt = "spdx"
      BY <2>2 DEF SubjectArrows
  <2>3. CASE fmt = "spdx3"
      BY <2>3 DEF SubjectArrows
  <2> QED
      BY <2>1, <2>2, <2>3 DEF Foreign, Formats
<1> HIDE DEF tops, ref, refs, shown, doc
<1>7. DOMAIN doc.entries = shown
    BY <1>3
<1> DEFINE named == {doc.entries[i].ref : i \in DOMAIN doc.entries}
           rowOf(r) == Max({i \in DOMAIN doc.entries : doc.entries[i].ref = r})
           known == {a \in doc.arrows : a[1] \in LinksRead[fmt] /\ a[2] \in named /\ a[3] \in named}
           got == Import(fmt, doc)
<1>8. /\ got.rows = [i \in DOMAIN doc.entries |-> Ingest(fmt, doc.entries[i])]
      /\ got.links = {[kind |-> a[1], from |-> rowOf(a[2]), to |-> rowOf(a[3])] :
                         a \in {b \in known : rowOf(b[2]) # rowOf(b[3])}}
      /\ got = [rows |-> got.rows, links |-> got.links]
    BY DEF Import
<1> HIDE DEF got
<1>9. named = {ref(i) : i \in shown}
    BY <1>4, <1>7
<1>10. \A r : rowOf(r) = RowOf(fmt, any, r)
  <2> TAKE r
  <2>1. {i \in DOMAIN doc.entries : doc.entries[i].ref = r} = {i \in Shown(any) : DocRef(fmt, any, i) = r}
      BY <1>4, <1>7 DEF ref, shown
  <2> QED
      BY <2>1 DEF RowOf
<1> HIDE DEF rowOf, named
<1>11. \A m \in Legible(fmt, any) : m \in Written(fmt, any) /\ m.from \in shown /\ m.to \in shown /\ m.kind \in LinksRead[fmt]
    BY ReadsAreWritten DEF Legible, Written, shown
<1>12. ASSUME NEW m \in Legible(fmt, any) PROVE <<m.kind, ref(m.from), ref(m.to)>> \in known
  <2>1. <<m.kind, refs[m.from], refs[m.to]>> \in arrows
      BY <1>11
  <2>2. <<m.kind, ref(m.from), ref(m.to)>> \in doc.arrows
      BY <1>2, <1>3, <1>11, <2>1
  <2> QED
      BY <1>9, <1>11, <2>2
<1>13. ASSUME NEW a \in known
       PROVE  \E m \in Legible(fmt, any) : a[1] = m.kind /\ a[2] = ref(m.from) /\ a[3] = ref(m.to)
  <2>1. a[2] # SubjectRef
      BY <1>5, <1>9
  <2>2. a \in arrows
      BY <1>3, <1>6, <2>1
  <2>3. PICK m \in Written(fmt, any) : a = <<m.kind, refs[m.from], refs[m.to]>>
      BY <2>2
  <2>4. m \in any.links /\ m.from \in shown /\ m.to \in shown
      BY <2>3 DEF Written, shown
  <2>5. a[1] = m.kind /\ a[2] = ref(m.from) /\ a[3] = ref(m.to)
      BY <1>2, <2>3, <2>4
  <2>6. m \in Legible(fmt, any)
      BY <2>4, <2>5 DEF Legible, shown
  <2> QED
      BY <2>5, <2>6
<1> HIDE DEF known, arrows
<1>14. \A i : ref(i) = DocRef(fmt, any, i)
    BY DEF ref
<1> DEFINE row(i) == RowOf(fmt, any, DocRef(fmt, any, i))
<1>15. ASSUME NEW m \in Legible(fmt, any), row(m.from) # row(m.to)
       PROVE  [kind |-> m.kind, from |-> row(m.from), to |-> row(m.to)] \in got.links
  <2> DEFINE a == <<m.kind, ref(m.from), ref(m.to)>>
  <2>1. a \in known /\ a[1] = m.kind /\ a[2] = ref(m.from) /\ a[3] = ref(m.to)
      BY <1>12
  <2> HIDE DEF a
  <2>2. rowOf(a[2]) = row(m.from) /\ rowOf(a[3]) = row(m.to)
      BY <1>10, <1>14, <2>1
  <2> HIDE DEF row
  <2> QED
      BY <1>8, <1>15, <2>1, <2>2
<1>16. ASSUME NEW l \in got.links
       PROVE  \E m \in Legible(fmt, any) : l = [kind |-> m.kind, from |-> row(m.from), to |-> row(m.to)]
  <2>1. PICK a \in known : l = [kind |-> a[1], from |-> rowOf(a[2]), to |-> rowOf(a[3])]
      BY <1>8
  <2>2. PICK m \in Legible(fmt, any) : a[1] = m.kind /\ a[2] = ref(m.from) /\ a[3] = ref(m.to)
      BY <1>13
  <2>3. rowOf(a[2]) = row(m.from) /\ rowOf(a[3]) = row(m.to)
      BY <1>10, <1>14, <2>2
  <2> HIDE DEF row
  <2> QED
      BY <2>1, <2>2, <2>3
<1>17. got.rows = [i \in Shown(any) |-> Ingest(fmt, Entry(fmt, any.rows[i], i))]
    BY <1>3, <1>7, <1>8 DEF shown
<1> QED
    BY <1>8, <1>15, <1>16, <1>17 DEF got, doc

\* The relations of what comes in are those that went out, of the kinds that the
\* importer reads, between what the format can tell apart.
LEMMA ImportedRelations ==
    ASSUME NEW any, IsRun(any), NEW fmt \in Foreign, NEW T, fmt \in T, NEW kinds
    PROVE  LET got == Import(fmt, Document(fmt, any))
           IN  /\ Shown(got) = Shown(any) /\ DOMAIN got.rows = Shown(any)
               /\ RelationsIn(T, got, kinds) = RelationsIn(T, any, kinds \cap LinksRead[fmt])
               /\ \A l \in got.links : l.kind \in LinksRead[fmt] /\ \E m \in any.links : m.kind = l.kind
<1> DEFINE got == Import(fmt, Document(fmt, any))
           row(i) == RowOf(fmt, any, DocRef(fmt, any, i))
           made(m) == [kind |-> m.kind, from |-> row(m.from), to |-> row(m.to)]
<1>1. /\ got.rows = [i \in Shown(any) |-> Ingest(fmt, Entry(fmt, any.rows[i], i))]
      /\ \A m \in Legible(fmt, any) : row(m.from) # row(m.to) => made(m) \in got.links
      /\ \A l \in got.links : \E m \in Legible(fmt, any) : l = made(m)
    BY ImportedLinks
<1> HIDE DEF got
<1>2. \A i \in Shown(any) :
        /\ ~got.rows[i].hidden /\ got.rows[i].name = any.rows[i].name
        /\ got.rows[i].ver = any.rows[i].ver /\ got.rows[i].purl = any.rows[i].purl
  <2> TAKE i \in Shown(any)
  <2> DEFINE c == any.rows[i]
             d == Ingest(fmt, Entry(fmt, c, i))
  <2>1. IsComponent(c)
      BY DEF IsRun, Shown
  <2> HIDE DEF c
  <2>2. ~d.hidden /\ Alike(d, RemainsIn({fmt}, c))
      BY <2>1, IngestedFacts
  <2> HIDE DEF d
  <2>3. d.name = c.name /\ d.ver = c.ver /\ d.purl = c.purl
      BY <2>2 DEF Alike, RemainsIn
  <2>4. got.rows[i] = d
      BY <1>1 DEF d, c
  <2> QED
      BY <2>2, <2>3, <2>4 DEF c
<1>3. DOMAIN got.rows = Shown(any) /\ Shown(got) = Shown(any)
    BY <1>1, <1>2 DEF Shown
<1>4. \A i \in Shown(any) : ThingIn(T, got, i) = ThingIn(T, any, i)
    BY <1>2 DEF ThingIn, Ref, PurlOf
<1>5. \A i \in Shown(any) : row(i) \in Shown(any) /\ DocRef(fmt, any, row(i)) = DocRef(fmt, any, i)
    BY RowHasRef
<1>6. ASSUME NEW i \in Shown(any) PROVE ThingIn(T, got, row(i)) = ThingIn(T, any, i)
  <2> DEFINE r == row(i)
  <2>1. r \in Shown(any) /\ DocRef(fmt, any, r) = DocRef(fmt, any, i)
      BY <1>5
  <2> HIDE DEF r
  <2>2. ThingIn(T, any, r) = ThingIn(T, any, i)
    <3>1. CASE fmt = "cyclonedx"
        BY <2>1, <3>1 DEF ThingIn, DocRef
    <3>2. CASE fmt # "cyclonedx"
      <4>1. r = i
          BY <2>1, <3>2 DEF DocRef, Ref
      <4> QED
          BY <4>1
    <3> QED
        BY <3>1, <3>2
  <2>3. ThingIn(T, got, r) = ThingIn(T, any, r)
      BY <1>4, <2>1
  <2> QED
      BY <2>2, <2>3 DEF r
<1> HIDE DEF row
<1> DEFINE all == kinds \cap LinksRead[fmt]
<1>7. ASSUME NEW m \in any.links, m.kind \in all, m.from \in Shown(any), m.to \in Shown(any),
             ThingIn(T, any, m.from) # ThingIn(T, any, m.to)
      PROVE  <<m.kind, ThingIn(T, any, m.from), ThingIn(T, any, m.to)>> \in RelationsIn(T, got, kinds)
  <2>1. m \in Legible(fmt, any)
      BY <1>7 DEF Legible
  <2>2. ThingIn(T, got, row(m.from)) = ThingIn(T, any, m.from) /\ ThingIn(T, got, row(m.to)) = ThingIn(T, any, m.to)
      BY <1>6, <1>7
  <2>3. row(m.from) # row(m.to)
      BY <1>7, <2>2
  <2>4. PICK l \in got.links : l = made(m)
      BY <1>1, <2>1, <2>3
  <2>5. l.kind = m.kind /\ l.from = row(m.from) /\ l.to = row(m.to)
      BY <2>4
  <2>6. l.from \in Shown(got) /\ l.to \in Shown(got)
      BY <1>3, <1>5, <1>7, <2>5 DEF row
  <2> QED
      BY <1>7, <2>2, <2>5, <2>6 DEF RelationsIn
<1>8. ASSUME NEW l \in got.links
      PROVE  \E m \in Legible(fmt, any) : /\ l.kind = m.kind
                 /\ ThingIn(T, got, l.from) = ThingIn(T, any, m.from) /\ ThingIn(T, got, l.to) = ThingIn(T, any, m.to)
  <2>1. PICK m \in Legible(fmt, any) : l = made(m)
      BY <1>1
  <2>2. l.kind = m.kind /\ l.from = row(m.from) /\ l.to = row(m.to)
      BY <2>1
  <2>3. m.from \in Shown(any) /\ m.to \in Shown(any)
      BY DEF Legible
  <2> QED
      BY <1>6, <2>2, <2>3
<1>9. RelationsIn(T, got, kinds) \subseteq RelationsIn(T, any, all)
  <2> SUFFICES ASSUME NEW l \in got.links, l.kind \in kinds, ThingIn(T, got, l.from) # ThingIn(T, got, l.to)
               PROVE  <<l.kind, ThingIn(T, got, l.from), ThingIn(T, got, l.to)>> \in RelationsIn(T, any, all)
      BY DEF RelationsIn
  <2>1. PICK m \in Legible(fmt, any) : /\ l.kind = m.kind
              /\ ThingIn(T, got, l.from) = ThingIn(T, any, m.from) /\ ThingIn(T, got, l.to) = ThingIn(T, any, m.to)
      BY <1>8
  <2>2. m \in any.links /\ m.kind \in all /\ m.from \in Shown(any) /\ m.to \in Shown(any)
      BY <2>1 DEF Legible
  <2> QED
      BY <2>1, <2>2 DEF RelationsIn
<1>10. RelationsIn(T, any, all) \subseteq RelationsIn(T, got, kinds)
  <2> SUFFICES ASSUME NEW x \in RelationsIn(T, any, all) PROVE x \in RelationsIn(T, got, kinds)
      OBVIOUS
  <2>1. PICK m \in any.links :
           /\ m.kind \in all /\ {m.from, m.to} \subseteq Shown(any) /\ ThingIn(T, any, m.from) # ThingIn(T, any, m.to)
           /\ x = <<m.kind, ThingIn(T, any, m.from), ThingIn(T, any, m.to)>>
      BY DEF RelationsIn
  <2> QED
      BY <1>7, <2>1
<1>11. \A l \in got.links : l.kind \in LinksRead[fmt] /\ \E m \in any.links : m.kind = l.kind
    BY <1>8 DEF Legible
<1> QED
    BY <1>3, <1>9, <1>10, <1>11 DEF got

\* Who can tell less apart sees less, and of two runs that look alike the same.
LEMMA LessIsSeen ==
    ASSUME NEW T, NEW U, T \subseteq U, NEW a, NEW b, NEW kinds, NEW fewer, fewer \subseteq kinds,
           RelationsIn(T, a, kinds) \subseteq RelationsIn(T, b, kinds)
    PROVE  RelationsIn(U, a, fewer) \subseteq RelationsIn(U, b, fewer)
<1> DEFINE coarse(t) == IF "cyclonedx" \in T \/ "cyclonedx" \notin U THEN t
                        ELSE IF t[1][1] # Unsaid THEN <<t[1], 0>> ELSE t
<1>1. \A any, i : ThingIn(U, any, i) = coarse(ThingIn(T, any, i))
  <2> TAKE any, i
  <2>1. CASE "cyclonedx" \in T \/ "cyclonedx" \notin U
      BY <2>1 DEF ThingIn
  <2>2. CASE "cyclonedx" \notin T /\ "cyclonedx" \in U
    <3>1. ThingIn(T, any, i) = <<PurlOf(any.rows[i]), i>> /\ PurlOf(any.rows[i])[1] = any.rows[i].purl
        BY <2>2 DEF ThingIn, PurlOf
    <3>2. ThingIn(U, any, i) = IF any.rows[i].purl # Unsaid THEN <<PurlOf(any.rows[i]), 0>> ELSE <<PurlOf(any.rows[i]), i>>
        BY <2>2 DEF ThingIn, Ref
    <3> QED
        BY <2>2, <3>1, <3>2
  <2> QED
      BY <2>1, <2>2
<1> HIDE DEF coarse
<1>2. SUFFICES ASSUME NEW l \in a.links, l.kind \in fewer, {l.from, l.to} \subseteq Shown(a),
                      ThingIn(U, a, l.from) # ThingIn(U, a, l.to)
               PROVE  <<l.kind, ThingIn(U, a, l.from), ThingIn(U, a, l.to)>> \in RelationsIn(U, b, fewer)
    BY DEF RelationsIn
<1>3. ThingIn(T, a, l.from) # ThingIn(T, a, l.to)
    BY <1>1, <1>2
<1>4. <<l.kind, ThingIn(T, a, l.from), ThingIn(T, a, l.to)>> \in RelationsIn(T, b, kinds)
  <2>1. <<l.kind, ThingIn(T, a, l.from), ThingIn(T, a, l.to)>> \in RelationsIn(T, a, kinds)
      BY <1>2, <1>3 DEF RelationsIn
  <2> QED
      BY <2>1
<1>5. PICK m \in b.links :
         /\ m.kind \in kinds /\ {m.from, m.to} \subseteq Shown(b)
         /\ <<l.kind, ThingIn(T, a, l.from), ThingIn(T, a, l.to)>> = <<m.kind, ThingIn(T, b, m.from), ThingIn(T, b, m.to)>>
    BY <1>4 DEF RelationsIn
<1>6. l.kind = m.kind /\ ThingIn(T, a, l.from) = ThingIn(T, b, m.from) /\ ThingIn(T, a, l.to) = ThingIn(T, b, m.to)
    BY <1>5
<1>7. ThingIn(U, a, l.from) = ThingIn(U, b, m.from) /\ ThingIn(U, a, l.to) = ThingIn(U, b, m.to)
    BY <1>1, <1>6
<1> QED
    BY <1>2, <1>5, <1>6, <1>7 DEF RelationsIn

LEMMA ConvertedIsRun ==
    ASSUME NEW any, IsRun(any), NEW fmt \in Formats
    PROVE  IsRun(Converted(fmt, any))
<1>1. CASE fmt = "sorb"
    BY <1>1 DEF Converted
<1>2. CASE fmt # "sorb"
  <2> DEFINE got == Import(fmt, Document(fmt, any))
  <2>1. fmt \in Foreign
      BY <1>2 DEF Foreign
  <2>2. /\ got = [rows |-> got.rows, links |-> got.links]
        /\ got.rows = [i \in Shown(any) |-> Ingest(fmt, Entry(fmt, any.rows[i], i))]
      BY <2>1, ImportedLinks
  <2> HIDE DEF got
  <2>3. \A i \in Shown(any) : IsComponent(Ingest(fmt, Entry(fmt, any.rows[i], i)))
      BY <2>1, IngestedFacts DEF IsRun, Shown
  <2>4. DOMAIN got.rows = Shown(any) /\ \A i \in Shown(any) : IsComponent(got.rows[i])
      BY <2>2, <2>3
  <2>5. got.rows = [i \in DOMAIN got.rows |-> got.rows[i]]
      BY <2>2, <2>4
  <2>6. Shown(any) \subseteq Nat \ {0} /\ IsFiniteSet(Shown(any))
      BY FS_Subset DEF IsRun, Shown
  <2>7. IsRun(got)
      BY <2>2, <2>4, <2>5, <2>6 DEF IsRun
  <2> QED
      BY <1>2, <2>7 DEF Converted, got
<1> QED
    BY <1>1, <1>2

\* One run is what a set of formats leaves of another.
Carries(T, was, now) ==
    /\ DOMAIN now.rows = Shown(was) /\ Shown(now) = Shown(was)
    /\ \A i \in Shown(was) :
         /\ Alike(now.rows[i], RemainsIn(T, was.rows[i]))
         /\ was.rows[i].ctype = "library" => now.rows[i].ctype = "library"
    /\ RelationsIn(T, now, CommonIn(T, LinksRead)) = RelationsIn(T, was, CommonIn(T, LinksRead))
    /\ \A l \in now.links : l.kind \in CommonIn(T, LinksRead)

LEMMA FirstConversion ==
    ASSUME NEW any, IsRun(any), NEW fmt \in Foreign
    PROVE  Carries({fmt}, any, Import(fmt, Document(fmt, any)))
<1> DEFINE got == Import(fmt, Document(fmt, any))
           reads == CommonIn({fmt}, LinksRead)
<1>1. reads = LinksRead[fmt]
    BY CommonToMore
<1>2. /\ Shown(got) = Shown(any) /\ DOMAIN got.rows = Shown(any)
      /\ RelationsIn({fmt}, got, reads) = RelationsIn({fmt}, any, reads \cap LinksRead[fmt])
      /\ \A l \in got.links : l.kind \in LinksRead[fmt]
  <2>1. fmt \in {fmt}
      OBVIOUS
  <2> HIDE DEF reads
  <2> QED
      BY <2>1, ImportedRelations
<1>3. got.rows = [i \in Shown(any) |-> Ingest(fmt, Entry(fmt, any.rows[i], i))]
    BY ImportedLinks
<1> HIDE DEF got, reads
<1>4. \A i \in Shown(any) :
        /\ Alike(got.rows[i], RemainsIn({fmt}, any.rows[i]))
        /\ any.rows[i].ctype = "library" => got.rows[i].ctype = "library"
  <2> TAKE i \in Shown(any)
  <2> DEFINE c == any.rows[i]
             d == Ingest(fmt, Entry(fmt, c, i))
  <2>1. IsComponent(c)
      BY DEF IsRun, Shown
  <2> HIDE DEF c
  <2>2. Alike(d, RemainsIn({fmt}, c)) /\ (c.ctype = "library" => d.ctype = "library")
      BY <2>1, IngestedFacts
  <2> HIDE DEF d
  <2>3. got.rows[i] = d
      BY <1>3 DEF d, c
  <2> QED
      BY <2>2, <2>3 DEF c
<1>5. reads \cap LinksRead[fmt] = reads
    BY <1>1
<1> QED
    BY <1>1, <1>2, <1>4, <1>5 DEF Carries, got, reads

LEMMA OneMoreConversion ==
    ASSUME NEW was, IsRun(was), NEW now, IsRun(now), NEW fmt \in Foreign,
           NEW T \in SUBSET Foreign, T # {}, Carries(T, was, now)
    PROVE  Carries(T \cup {fmt}, was, Import(fmt, Document(fmt, now)))
<1> DEFINE got == Import(fmt, Document(fmt, now))
           U == T \cup {fmt}
           before == CommonIn(T, LinksRead)
           after == CommonIn(U, LinksRead)
<1>1. after = before \cap LinksRead[fmt]
    BY CommonToMore
<1>2. /\ Shown(got) = Shown(now) /\ DOMAIN got.rows = Shown(now)
      /\ RelationsIn(U, got, after) = RelationsIn(U, now, after \cap LinksRead[fmt])
      /\ \A l \in got.links : l.kind \in LinksRead[fmt] /\ \E m \in now.links : m.kind = l.kind
  <2>1. fmt \in U
      OBVIOUS
  <2> HIDE DEF U, after
  <2> QED
      BY <2>1, ImportedRelations
<1>3. got.rows = [i \in Shown(now) |-> Ingest(fmt, Entry(fmt, now.rows[i], i))]
    BY ImportedLinks
<1> HIDE DEF got, before, after
<1>4. RelationsIn(U, now, after) = RelationsIn(U, was, after)
  <2>1. T \subseteq U /\ after \subseteq before
      BY <1>1
  <2>2. RelationsIn(T, now, before) = RelationsIn(T, was, before)
      BY DEF Carries, before
  <2> HIDE DEF U
  <2>3. RelationsIn(U, now, after) \subseteq RelationsIn(U, was, after)
    <3>1. RelationsIn(T, now, before) \subseteq RelationsIn(T, was, before)
        BY <2>2
    <3> QED
        BY <2>1, <3>1, LessIsSeen
  <2>4. RelationsIn(U, was, after) \subseteq RelationsIn(U, now, after)
    <3>1. RelationsIn(T, was, before) \subseteq RelationsIn(T, now, before)
        BY <2>2
    <3> QED
        BY <2>1, <3>1, LessIsSeen
  <2> QED
      BY <2>3, <2>4
<1>5. RelationsIn(U, got, after) = RelationsIn(U, was, after)
  <2>1. after \cap LinksRead[fmt] = after
      BY <1>1
  <2> QED
      BY <1>2, <1>4, <2>1
<1>6. Shown(now) = Shown(was) /\ \A l \in now.links : l.kind \in before
    BY DEF Carries, before
<1>7. \A l \in got.links : l.kind \in after
    BY <1>1, <1>2, <1>6
<1>8. ASSUME NEW i \in Shown(was)
      PROVE  /\ Alike(got.rows[i], RemainsIn(U, was.rows[i]))
             /\ was.rows[i].ctype = "library" => got.rows[i].ctype = "library"
  <2> DEFINE c == was.rows[i]
             d == now.rows[i]
             e == Ingest(fmt, Entry(fmt, d, i))
  <2>1. IsComponent(c) /\ IsComponent(d)
      BY <1>6 DEF IsRun, Shown
  <2>2. Alike(d, RemainsIn(T, c)) /\ (c.ctype = "library" => d.ctype = "library")
      BY DEF Carries
  <2> HIDE DEF c, d
  <2>3. Alike(e, RemainsIn({fmt}, d)) /\ (d.ctype = "library" => e.ctype = "library")
      BY <2>1, IngestedFacts
  <2> HIDE DEF e
  <2>4. Alike(e, RemainsIn(U, c))
      BY <2>1, <2>2, <2>3, RemainsOfRemains
  <2>5. got.rows[i] = e
      BY <1>3, <1>6 DEF e, d
  <2> QED
      BY <2>2, <2>3, <2>4, <2>5 DEF c
<1> QED
    BY <1>2, <1>5, <1>6, <1>7, <1>8 DEF Carries, got, after

\* The inductive invariant: what a run has become after any chain of conversions is
\* what the formats on the chain leave of it.
CarryInv ==
    /\ IsRun(origin) /\ IsRun(carried) /\ route \subseteq Formats
    /\ IF Through = {} THEN carried = origin ELSE Carries(Through, origin, carried)

LEMMA CarriesOn ==
    ASSUME CarryInv, [ExportNext]_exportVars
    PROVE  CarryInv'
<1>1. CASE UNCHANGED exportVars
    BY <1>1 DEF exportVars, CarryInv, Through
<1>2. ASSUME NEW fmt \in Formats, Convert(fmt) PROVE CarryInv'
  <2>1. carried' = Converted(fmt, carried) /\ route' = route \cup {fmt} /\ origin' = origin
      BY <1>2 DEF Convert
  <2>2. IsRun(carried')
      BY <2>1, ConvertedIsRun DEF CarryInv
  <2>3. CASE fmt = "sorb"
    <3>1. Through' = Through /\ carried' = carried
        BY <2>1, <2>3 DEF Through, Foreign, Converted
    <3> QED
        BY <2>1, <2>2, <3>1 DEF CarryInv
  <2>4. CASE fmt # "sorb"
    <3>1. fmt \in Foreign /\ Through' = Through \cup {fmt} /\ Through \in SUBSET Foreign
        BY <2>1, <2>4 DEF Through, Foreign
    <3>2. carried' = Import(fmt, Document(fmt, carried))
        BY <2>1, <2>4 DEF Converted
    <3>3. Carries(Through', origin, carried')
      <4>1. CASE Through = {}
        <5>1. Through' = {fmt} /\ carried = origin
            BY <3>1, <4>1 DEF CarryInv
        <5> QED
            BY <3>1, <3>2, <5>1, FirstConversion DEF CarryInv
      <4>2. CASE Through # {}
          BY <3>1, <3>2, <4>2, OneMoreConversion DEF CarryInv
      <4> QED
          BY <4>1, <4>2
    <3>4. Through' # {}
        BY <3>1
    <3> QED
        BY <2>1, <2>2, <3>3, <3>4 DEF CarryInv
  <2> QED
      BY <2>3, <2>4
<1> QED
    BY <1>1, <1>2 DEF ExportNext

LEMMA FactsOfAlike ==
    ASSUME NEW c, NEW d, Alike(d, RemainsIn(Through, c))
    PROVE  Facts(d) = Remains(c)
<1> DEFINE r == RemainsIn(Through, c)
<1>1. Remains(c) = r
    BY DEF Remains, RemainsIn, Common, CommonIn
<1>2. r = [name |-> r.name, ver |-> r.ver, purl |-> r.purl, licence |-> r.licence, algos |-> r.algos,
           eco |-> r.eco, scope |-> r.scope, tier |-> r.tier, conf |-> r.conf]
    BY DEF RemainsIn
<1> HIDE DEF r
<1>3. /\ d.name = r.name /\ d.ver = r.ver /\ d.purl = r.purl /\ d.licence = r.licence /\ d.algos = r.algos
      /\ d.eco = r.eco /\ d.scope = r.scope /\ d.tier = r.tier /\ d.conf = r.conf
    BY DEF Alike, r
<1>4. Facts(d) = [name |-> d.name, ver |-> d.ver, purl |-> d.purl, licence |-> d.licence, algos |-> d.algos,
                  eco |-> d.eco, scope |-> d.scope, tier |-> d.tier, conf |-> d.conf]
    BY DEF Facts
<1> QED
    BY <1>1, <1>2, <1>3, <1>4

LEMMA CarriedLosesOnlyThis == ASSUME CarryInv PROVE ConversionsLoseOnlyThis
<1>1. CASE Through = {}
    BY <1>1 DEF CarryInv, ConversionsLoseOnlyThis
<1>2. CASE Through # {}
  <2>1. Carries(Through, origin, carried)
      BY <1>2 DEF CarryInv
  <2>2. Common(LinksRead) = CommonIn(Through, LinksRead)
      BY DEF Common, CommonIn
  <2>3. \A any, kinds : Relations(any, kinds) = RelationsIn(Through, any, kinds)
    <3>1. \A any, i : Thing(any, i) = ThingIn(Through, any, i)
        BY DEF Thing, ThingIn
    <3> QED
        BY <3>1 DEF Relations, RelationsIn
  <2>4. \A i \in Shown(origin) : Facts(carried.rows[i]) = Remains(origin.rows[i])
      BY <2>1, FactsOfAlike DEF Carries
  <2> QED
      BY <1>2, <2>1, <2>2, <2>3, <2>4 DEF Carries, ConversionsLoseOnlyThis
<1> QED
    BY <1>1, <1>2

\* What a document says of the components of a run.
Entered(fmt, any, doc) ==
    /\ DOMAIN doc.entries = Shown(any)
    /\ \A i \in Shown(any) :
         /\ doc.entries[i].ver = any.rows[i].ver /\ doc.entries[i].licence = any.rows[i].licence
         /\ doc.entries[i].purl = any.rows[i].purl
         /\ doc.entries[i].algos = any.rows[i].algos \cap HashesWritten[fmt]

LEMMA DocumentEntries ==
    ASSUME NEW fmt \in {"cyclonedx", "spdx"}, NEW any
    PROVE  Entered(fmt, any, Document(fmt, any))
<1> DEFINE doc == Document(fmt, any)
<1>1. doc.entries = [i \in Shown(any) |-> Entry(fmt, any.rows[i], i)]
    BY DEF Document
<1>2. \A c, i : /\ Entry(fmt, c, i).ver = c.ver /\ Entry(fmt, c, i).licence = c.licence
               /\ Entry(fmt, c, i).purl = c.purl /\ Entry(fmt, c, i).algos = c.algos \cap HashesWritten[fmt]
    BY DEF Entry
<1> HIDE DEF doc
<1>3. Entered(fmt, any, doc)
    BY <1>1, <1>2 DEF Entered
<1> QED
    BY <1>3 DEF doc

LEMMA NothingIsAdded ==
    ASSUME CarryInv, NEW fmt \in {"cyclonedx", "spdx"}
    PROVE  Missing(fmt, Document(fmt, origin)) \subseteq Missing(fmt, Document(fmt, carried))
<1>1. CASE Through = {}
    BY <1>1 DEF CarryInv
<1>2. CASE Through # {}
  <2> DEFINE b == Document(fmt, origin)
             n == Document(fmt, carried)
  <2>1. Carries(Through, origin, carried)
      BY <1>2 DEF CarryInv
  <2>2. ASSUME NEW i \in Shown(origin)
        PROVE  LET c == origin.rows[i]
                   d == carried.rows[i]
               IN  d.ver = c.ver /\ d.licence = c.licence /\ d.purl = c.purl /\ d.algos \subseteq c.algos
      BY <2>1 DEF Carries, Alike, RemainsIn
  <2>3. Shown(carried) = Shown(origin)
      BY <2>1 DEF Carries
  <2>4. Entered(fmt, origin, b) /\ Entered(fmt, carried, n)
      BY DocumentEntries
  <2> HIDE DEF b, n
  <2>5. ASSUME NEW i \in Shown(origin)
        PROVE  /\ n.entries[i].ver = b.entries[i].ver /\ n.entries[i].licence = b.entries[i].licence
               /\ n.entries[i].purl = b.entries[i].purl
               /\ b.entries[i].algos = {} => n.entries[i].algos = {}
    <3>1. n.entries[i].ver = b.entries[i].ver
        BY <2>2, <2>3, <2>4 DEF Entered
    <3>2. n.entries[i].licence = b.entries[i].licence
        BY <2>2, <2>3, <2>4 DEF Entered
    <3>3. n.entries[i].purl = b.entries[i].purl
        BY <2>2, <2>3, <2>4 DEF Entered
    <3>4. /\ b.entries[i].algos = origin.rows[i].algos \cap HashesWritten[fmt]
          /\ n.entries[i].algos = carried.rows[i].algos \cap HashesWritten[fmt]
          /\ carried.rows[i].algos \subseteq origin.rows[i].algos
        BY <2>2, <2>3, <2>4 DEF Entered
    <3>5. b.entries[i].algos = {} => n.entries[i].algos = {}
        BY <3>4
    <3> QED
        BY <3>1, <3>2, <3>3, <3>5
  <2>6. DOMAIN b.entries = DOMAIN n.entries /\ DOMAIN b.entries = Shown(origin)
      BY <2>3, <2>4 DEF Entered
  <2> QED
      BY <2>5, <2>6 DEF Missing, b, n
<1> QED
    BY <1>1, <1>2

LEMMA LossIsReported ==
    ASSUME NEW any, IsRun(any), NEW fmt \in {"cyclonedx", "spdx"}
    PROVE  LET there == {a[1] : a \in Document(fmt, any).arrows}
               among == {l.kind : l \in {k \in any.links : {k.from, k.to} \subseteq Shown(any)}}
           IN  /\ among \cap {"DEPENDS_ON", "CONTAINS"} \subseteq there \cup LossReport(fmt, any)
               /\ LossReport(fmt, any) \cap there = {}
<1> DEFINE doc == Document(fmt, any)
           there == {a[1] : a \in doc.arrows}
           refs == [i \in DOMAIN any.rows |-> Ref(fmt, any.rows[i], i)]
           shownRefs == [i \in Shown(any) |-> refs[i]]
           tops == SubjectArrows(fmt, any, shownRefs)
           arrows == {<<l.kind, refs[l.from], refs[l.to]>> : l \in Written(fmt, any)}
<1>1. doc.arrows = arrows \cup tops
    BY DEF Document
<1> HIDE DEF doc, refs, shownRefs
<1>2. \A a \in tops : a[1] = IF fmt = "cyclonedx" THEN "DEPENDS_ON" ELSE "DESCRIBES"
  <2>1. CASE fmt = "cyclonedx"
      BY <2>1 DEF SubjectArrows
  <2>2. CASE fmt = "spdx"
      BY <2>2 DEF SubjectArrows
  <2> QED
      BY <2>1, <2>2
<1> HIDE DEF tops
<1>3. \A a \in arrows : a[1] \in LinksWritten[fmt]
    BY DEF Written
<1>4. \A l \in any.links : {l.from, l.to} \subseteq Shown(any) /\ l.kind \in LinksWritten[fmt] => l.kind \in there
  <2> SUFFICES ASSUME NEW l \in any.links, {l.from, l.to} \subseteq Shown(any), l.kind \in LinksWritten[fmt]
               PROVE  \E a \in arrows : a[1] = l.kind
      BY <1>1
  <2>1. l \in Written(fmt, any)
      BY DEF Written
  <2>2. <<l.kind, refs[l.from], refs[l.to]>> \in arrows
      BY <2>1
  <2> QED
      BY <2>2
<1>5. there \subseteq LinksWritten[fmt] \cup {IF fmt = "cyclonedx" THEN "DEPENDS_ON" ELSE "DESCRIBES"}
    BY <1>1, <1>2, <1>3
<1> HIDE DEF arrows, there
<1>6. /\ fmt = "cyclonedx" => LinksWritten[fmt] = {"DEPENDS_ON"} /\ CanExpress[fmt] = {"DEPENDS_ON"}
      /\ fmt = "spdx" => /\ LinksWritten[fmt] = {"DEPENDS_ON", "CONTAINS", "RESOLVED_FROM"}
                         /\ CanExpress[fmt] = {"DEPENDS_ON", "CONTAINS"}
    BY DEF LinksWritten, CanExpress
<1>7. LossReport(fmt, any) \cap there = {}
    BY <1>5, <1>6 DEF LossReport, Counted
<1>8. ASSUME NEW l \in any.links, {l.from, l.to} \subseteq Shown(any), l.kind \in {"DEPENDS_ON", "CONTAINS"}
      PROVE  l.kind \in there \cup LossReport(fmt, any)
    BY <1>4, <1>6, <1>8 DEF LossReport, Counted
<1> QED
    BY <1>7, <1>8 DEF there, doc

\* Whatever chain of formats a run goes through, in whatever order, its components
\* and relations lose what those formats have no place for and nothing else, no
\* document looks more complete than the run, and the loss report names what it is
\* without (import_sbom, _Ingest, loss_report).
THEOREM DocumentsAlwaysCarryTheRun ==
    ASSUME NEW held, \A any \in held : IsRun(any)
    PROVE  ExportSpec(held) => []DocumentsCarryTheRun
<1>1. ExportInit(held) => CarryInv
    BY DEF ExportInit, CarryInv, Through
<1>2. CarryInv /\ [ExportNext]_exportVars => CarryInv'
    BY CarriesOn
<1>3. CarryInv => DocumentsCarryTheRun
  <2> SUFFICES ASSUME CarryInv PROVE DocumentsCarryTheRun
      OBVIOUS
  <2>1. ConversionsLoseOnlyThis
      BY CarriedLosesOnlyThis
  <2>2. NothingIsMadeUp
      BY NothingIsAdded, LossIsReported DEF NothingIsMadeUp, CarryInv
  <2> QED
      BY <2>1, <2>2 DEF DocumentsCarryTheRun
<1> QED
    BY <1>1, <1>2, <1>3, PTL DEF ExportSpec

\* The page exports what is selected and nothing else, with the relations among
\* it, of whatever a run is after any chain of conversions (export_sbom).
THEOREM SelectionAlwaysExact ==
    ASSUME NEW held, \A res \in held : IsRun(res)
    PROVE  ExportSpec(held) => []SelectionIsExact
<1> DEFINE CarriedIsRun == IsRun(carried)
<1>1. ExportInit(held) => CarriedIsRun
    BY DEF ExportInit
<1>2. CarriedIsRun /\ [ExportNext]_exportVars => CarriedIsRun'
    BY ConvertedIsRun DEF ExportNext, Convert, exportVars
<1>3. CarriedIsRun => SelectionIsExact
  <2> SUFFICES ASSUME CarriedIsRun, NEW fmt \in {"cyclonedx", "spdx"},
                      NEW ids \in SUBSET DOMAIN carried.rows, NEW include \in BOOLEAN
               PROVE  Selection(fmt, carried, ids, include)
      BY DEF SelectionIsExact, Selection, Wanted, AmongWanted
  <2> QED
      BY ExportsSelect
<1> QED
    BY <1>1, <1>2, <1>3, PTL DEF ExportSpec

(***************************************************************************)
(* What the page is told of a scan                                         *)
(***************************************************************************)

Places == Unsettled \cup {"off", "closing", "signalling", "arming", "watching", "over", "crashed"}

\* Whoever runs or ran has a run; what a thread has behind it is on record.
ThreadsInv ==
    /\ pc \in [Threads -> Places] /\ run \in [Threads -> Nat] /\ runs \in Nat
    /\ \A t \in Threads :
         /\ pc[t] # "off" => run[t] # 0
         /\ pc[t] \in {"landed", "published"} => run[t] \in landed
         /\ pc[t] = "published" => published # 0
         /\ pc[t] \in {"closing", "signalling"} =>
                run[t] \in failed \/ (run[t] \in landed /\ published # 0)

\* No end of the stream is on its way, and no page has seen one.
NothingEnds ==
    /\ callbacks \in Seq({Stream!Deliver})
    /\ queue \in [Connections -> Seq(Nat \ {0})]
    /\ \A b \in Browsers : page[b] # "done"

Queryable == failed # {} \/ published # 0

ServerInv ==
    /\ delivered \in Nat
    /\ page \in [Browsers -> {"off", "loaded", "connected", "done", "reconnecting"}]
    /\ link \in [Browsers -> 0 .. MaxConnects]
    /\ \A b \in Browsers : page[b] = "connected" => link[b] # 0
    /\ ThreadsInv
    /\ ScanningStatusHasScan
    /\ Queryable \/ NothingEnds

LEMMA ServerInit == Init => ServerInv
<1> SUFFICES ASSUME Init PROVE ServerInv
    OBVIOUS
<1>1. /\ callbacks = <<>> /\ delivered = 0 /\ queue = [c \in Connections |-> <<>>]
      /\ pc = [t \in Threads |-> IF t = Main THEN "starting" ELSE "off"]
      /\ run = [t \in Threads |-> IF t = Main THEN 1 ELSE 0] /\ runs = 1
      /\ page = [b \in Browsers |-> "off"] /\ link = [b \in Browsers |-> 0]
    BY DEF Init, Stream!Init
<1>2. ThreadsInv
    BY <1>1 DEF ThreadsInv, Places, Unsettled, Scanning
<1>3. ScanningStatusHasScan
    BY <1>1 DEF ScanningStatusHasScan, Threads, Unsettled, Scanning
<1>4. NothingEnds
    BY <1>1 DEF NothingEnds
<1>5. link \in [Browsers -> 0 .. MaxConnects]
    BY <1>1, ServerAssumption
<1> QED BY <1>1, <1>2, <1>3, <1>4, <1>5 DEF ServerInv

\* A step of thread t leaves the records of the other threads true.
LEMMA ThreadsKept ==
    ASSUME ThreadsInv, NEW t \in Threads, NEW place \in Places, Goto(t, place),
           run' \in [Threads -> Nat], runs' \in Nat,
           \A u \in Threads : u # t => run'[u] = run[u],
           landed \subseteq landed', failed \subseteq failed', published # 0 => published' # 0,
           place # "off" => run'[t] # 0,
           place \in {"landed", "published"} => run'[t] \in landed',
           place = "published" => published' # 0,
           place \in {"closing", "signalling"} =>
               run'[t] \in failed' \/ (run'[t] \in landed' /\ published' # 0)
    PROVE  /\ ThreadsInv'
           /\ pc'[t] = place /\ \A u \in Threads : u # t => pc'[u] = pc[u]
<1>1. /\ pc' \in [Threads -> Places] /\ pc'[t] = place
      /\ \A u \in Threads : u # t => pc'[u] = pc[u]
    BY DEF ThreadsInv, Goto
<1> QED BY <1>1 DEF ThreadsInv

\* A thread that goes on keeps its run.
LEMMA ThreadMoves ==
    ASSUME ThreadsInv, NEW t \in Threads, NEW place \in Places, Goto(t, place), pc[t] # "off",
           UNCHANGED <<run, runs>>,
           landed \subseteq landed', failed \subseteq failed', published # 0 => published' # 0,
           place \in {"landed", "published"} => run[t] \in landed',
           place = "published" => published' # 0,
           place \in {"closing", "signalling"} =>
               run[t] \in failed' \/ (run[t] \in landed' /\ published' # 0)
    PROVE  ThreadsInv'
<1>1. run' \in [Threads -> Nat] /\ runs' \in Nat /\ run'[t] # 0 /\ run' = run
    BY DEF ThreadsInv
<1> QED BY <1>1, ThreadsKept

LEMMA QueryableKept ==
    ASSUME Queryable, failed \subseteq failed', published # 0 => published' # 0
    PROVE  Queryable'
BY DEF Queryable

\* An event delivered, sent or emitted ends nothing.
LEMMA StreamEndsNothing ==
    ASSUME delivered \in Nat, NothingEnds, page' = page,
           \/ Stream!Emit /\ UNCHANGED <<delivered, queue>>
           \/ Stream!LoopStep
           \/ \E c \in Connections : Stream!Yield(c)
    PROVE  NothingEnds' /\ delivered' \in Nat
<1>1. CASE Stream!Emit /\ UNCHANGED <<delivered, queue>>
    <2>1. callbacks' = Append(callbacks, Stream!Deliver)
        BY <1>1 DEF Stream!Emit
    <2>2. callbacks' \in Seq({Stream!Deliver})
        BY <2>1 DEF NothingEnds
    <2> QED BY <1>1, <2>2 DEF NothingEnds
<1>2. CASE Stream!DeliverEvent
    <2>1. callbacks # <<>> /\ callbacks' = Tail(callbacks) /\ delivered' = delivered + 1
          /\ queue' = [c \in Connections |->
                         IF c \in subscribers THEN Append(queue[c], delivered + 1) ELSE queue[c]]
        BY <1>2 DEF Stream!DeliverEvent
    <2>2. callbacks' \in Seq({Stream!Deliver}) /\ delivered' \in Nat
        BY <2>1 DEF NothingEnds
    <2>3. queue' \in [Connections -> Seq(Nat \ {0})]
        <3>1. ASSUME NEW c \in Connections
              PROVE  Append(queue[c], delivered + 1) \in Seq(Nat \ {0}) /\ queue[c] \in Seq(Nat \ {0})
            BY DEF NothingEnds
        <3> QED BY <2>1, <3>1
    <2> QED BY <2>2, <2>3 DEF NothingEnds
<1>3. CASE Stream!DeliverDone
    <2>1. Head(callbacks) = Stream!Deliver
        BY <1>3 DEF Stream!DeliverDone, NothingEnds
    <2> QED BY <1>3, <2>1 DEF Stream!DeliverDone
<1>4. ASSUME NEW c \in Connections, Stream!Yield(c)
      PROVE  NothingEnds' /\ delivered' \in Nat
    <2>1. queue[c] # <<>> /\ queue' = [queue EXCEPT ![c] = Tail(queue[c])]
          /\ callbacks' = callbacks /\ delivered' = delivered
        BY <1>4 DEF Stream!Yield
    <2>2. Tail(queue[c]) \in Seq(Nat \ {0})
        BY <2>1 DEF NothingEnds
    <2>3. queue' \in [Connections -> Seq(Nat \ {0})]
        BY <2>1, <2>2 DEF NothingEnds
    <2> QED BY <2>1, <2>3 DEF NothingEnds
<1> QED BY <1>1, <1>2, <1>3, <1>4 DEF Stream!LoopStep

LEMMA ThreadStepInv ==
    ASSUME ServerInv, NEW t \in Threads, ThreadStep(t) \/ Fail(t)
    PROVE  ServerInv'
<1> USE DEF Places, Unsettled, Scanning
<1>1. /\ delivered \in Nat /\ ThreadsInv /\ (Queryable \/ NothingEnds)
      /\ pc \in [Threads -> Places] /\ run \in [Threads -> Nat] /\ runs \in Nat
      /\ page \in [Browsers -> {"off", "loaded", "connected", "done", "reconnecting"}]
    BY DEF ServerInv, ThreadsInv
\* Only a thread that settles the status leaves the scans under way.
<1>2. ASSUME NEW place \in Places, Goto(t, place), ThreadsInv',
             \/ status' = status /\ (pc[t] \in Unsettled => place \in Unsettled)
             \/ status' \in {"done", "error"}
             \/ place \in Unsettled
      PROVE  ScanningStatusHasScan'
    <2>1. pc'[t] = place /\ \A u \in Threads : u # t => pc'[u] = pc[u]
        BY <1>1, <1>2 DEF Goto
    <2> QED BY <1>2, <2>1 DEF ServerInv, ScanningStatusHasScan
<1>3. CASE StartScan(t)
    <2>1. Goto(t, "walking") /\ UNCHANGED <<run, runs, landed, failed, published, status, page, link>> /\ pc[t] = "starting"
        BY <1>3 DEF StartScan, scanVars, browserVars
    <2>2. ThreadsInv'
        BY <1>1, <2>1, ThreadMoves
    <2>3. ScanningStatusHasScan'
        BY <1>2, <2>1, <2>2
    <2>4. Stream!Emit /\ UNCHANGED <<delivered, queue>>
        BY <1>3 DEF StartScan
    <2>5. delivered' \in Nat /\ (Queryable' \/ NothingEnds')
        BY <1>1, <2>1, <2>4, StreamEndsNothing, QueryableKept
    <2> QED BY <1>1, <2>1, <2>2, <2>3, <2>5, <2>4 DEF ServerInv
<1>4. CASE Walk(t)
    <2>1. /\ Goto(t, "landing") /\ UNCHANGED <<run, runs, landed, failed, published, status, page, link>>
          /\ pc[t] = "walking" /\ UNCHANGED <<callbacks, queue, delivered>>
        BY <1>4 DEF Walk, browserVars, streamVars
    <2>2. ThreadsInv'
        BY <1>1, <2>1, ThreadMoves
    <2>3. ScanningStatusHasScan'
        BY <1>2, <2>1, <2>2
    <2> QED BY <1>1, <2>1, <2>2, <2>3 DEF ServerInv, Queryable, NothingEnds
<1>5. CASE Land(t)
    <2>1. /\ Goto(t, "landed") /\ UNCHANGED <<run, runs, failed, published, status, page, link>>
          /\ pc[t] = "landing" /\ landed' = landed \cup {run[t]} /\ UNCHANGED <<callbacks, queue, delivered>>
        BY <1>5 DEF Land, browserVars, streamVars
    <2>2. ThreadsInv'
        BY <1>1, <2>1, ThreadMoves
    <2>3. ScanningStatusHasScan'
        BY <1>2, <2>1, <2>2
    <2> QED BY <1>1, <2>1, <2>2, <2>3 DEF ServerInv, Queryable, NothingEnds
<1>6. CASE Publish(t)
    <2>1. /\ Goto(t, "published") /\ UNCHANGED <<run, runs, failed, landed, status, page, link>>
          /\ pc[t] = "landed" /\ published' = run[t] /\ UNCHANGED <<callbacks, queue, delivered>>
          /\ run[t] \in landed /\ run[t] # 0
        BY <1>6, <1>1 DEF Publish, browserVars, streamVars, ThreadsInv
    <2>2. ThreadsInv'
        BY <1>1, <2>1, ThreadMoves
    <2>3. ScanningStatusHasScan'
        BY <1>2, <2>1, <2>2
    <2> QED BY <1>1, <2>1, <2>2, <2>3 DEF ServerInv, Queryable, NothingEnds
<1>7. CASE SetDone(t)
    <2>1. /\ Goto(t, "closing") /\ UNCHANGED <<run, runs, failed, landed, published, page, link>>
          /\ pc[t] = "published" /\ status' = "done" /\ UNCHANGED <<callbacks, queue, delivered>>
          /\ run[t] \in landed /\ run[t] # 0 /\ published # 0
        BY <1>7, <1>1 DEF SetDone, browserVars, streamVars, scanVars, ThreadsInv
    <2>2. ThreadsInv'
        BY <1>1, <2>1, ThreadMoves
    <2>3. ScanningStatusHasScan'
        BY <1>2, <2>1, <2>2
    <2> QED BY <1>1, <2>1, <2>2, <2>3 DEF ServerInv, Queryable, NothingEnds
<1>8. CASE Fail(t)
    <2>1. /\ Goto(t, "closing") /\ UNCHANGED <<run, runs, landed, published, page, link>>
          /\ pc[t] \in Scanning /\ status' = "error" /\ failed' = failed \cup {run[t]}
          /\ UNCHANGED <<queue, delivered>>
          /\ run[t] # 0
        BY <1>8, <1>1 DEF Fail, browserVars, ThreadsInv
    <2>2. ThreadsInv'
        BY <1>1, <2>1, ThreadMoves
    <2>3. ScanningStatusHasScan'
        BY <1>2, <2>1, <2>2
    <2>4. Queryable'
        BY <2>1 DEF Queryable
    <2> QED BY <1>1, <2>1, <2>2, <2>3, <2>4 DEF ServerInv
<1>9. CASE BeginClose(t)
    <2>1. /\ Goto(t, "signalling") /\ UNCHANGED <<run, runs, landed, failed, published, page, link, status>>
          /\ pc[t] = "closing" /\ UNCHANGED <<callbacks, queue, delivered>>
          /\ run[t] \in failed \/ (run[t] \in landed /\ published # 0)
        BY <1>9, <1>1 DEF BeginClose, browserVars, scanVars, Stream!BeginClose, ThreadsInv
    <2>2. ThreadsInv'
        BY <1>1, <2>1, ThreadMoves
    <2>3. ScanningStatusHasScan'
        BY <1>2, <2>1, <2>2
    <2> QED BY <1>1, <2>1, <2>2, <2>3 DEF ServerInv, Queryable, NothingEnds
<1>10. CASE CloseStep(t)
    <2>1. /\ UNCHANGED <<run, runs, landed, failed, published, page, link, status, delivered>>
          /\ pc[t] = "signalling"
          /\ run[t] \in failed \/ (run[t] \in landed /\ published # 0)
          /\ \/ pc' = pc
             \/ \E place \in {"over", "arming", "watching", "crashed"} : Goto(t, place)
        BY <1>10, <1>1
           DEF CloseStep, browserVars, scanVars, Stream!CloseNext, Stream!CloseEnd, Stream!CloseRaises,
               ThreadsInv
    <2>2. Queryable'
        BY <2>1 DEF Queryable
    <2>3. CASE pc' = pc
        BY <1>1, <2>1, <2>2, <2>3 DEF ServerInv, ThreadsInv, ScanningStatusHasScan
    <2>4. ASSUME NEW place \in {"over", "arming", "watching", "crashed"}, Goto(t, place)
          PROVE  ThreadsInv' /\ ScanningStatusHasScan'
        <3>1. ThreadsInv'
            BY <1>1, <2>1, <2>4, ThreadMoves
        <3>2. ScanningStatusHasScan'
            BY <1>2, <2>1, <2>4, <3>1
        <3> QED BY <3>1, <3>2
    <2> QED BY <1>1, <2>1, <2>2, <2>3, <2>4 DEF ServerInv
<1>11. CASE Arm(t)
    <2>1. /\ Goto(t, "watching") /\ UNCHANGED <<run, runs, landed, failed, published, page, link, status>>
          /\ pc[t] = "arming" /\ UNCHANGED <<callbacks, queue, delivered>>
        BY <1>11 DEF Arm, browserVars, scanVars, streamVars
    <2>2. ThreadsInv'
        BY <1>1, <2>1, ThreadMoves
    <2>3. ScanningStatusHasScan'
        BY <1>2, <2>1, <2>2
    <2> QED BY <1>1, <2>1, <2>2, <2>3 DEF ServerInv, Queryable, NothingEnds
<1>12. CASE Notice(t)
    <2>1. /\ Goto(t, "starting") /\ UNCHANGED <<landed, failed, published, page, link>>
          /\ pc[t] = "watching" /\ UNCHANGED <<callbacks, queue, delivered>>
          /\ runs' = runs + 1 /\ run' = [run EXCEPT ![t] = runs + 1]
        BY <1>12 DEF Notice, browserVars, streamVars
    <2>2. run' \in [Threads -> Nat] /\ run'[t] = runs + 1 /\ \A u \in Threads : u # t => run'[u] = run[u]
        BY <1>1, <2>1
    <2>3. ThreadsInv'
        BY <1>1, <2>1, <2>2, ThreadsKept
    <2>4. ScanningStatusHasScan'
        BY <1>2, <2>1, <2>3
    <2> QED BY <1>1, <2>1, <2>3, <2>4 DEF ServerInv, Queryable, NothingEnds
<1> QED BY <1>3, <1>4, <1>5, <1>6, <1>7, <1>8, <1>9, <1>10, <1>11, <1>12 DEF ThreadStep

\* A step that leaves the threads and the status alone.
LEMMA OthersKept ==
    ASSUME ServerInv, UNCHANGED <<pc, run, runs, landed, failed, published, status>>
    PROVE  ThreadsInv' /\ ScanningStatusHasScan' /\ (Queryable => Queryable')
BY DEF ServerInv, ThreadsInv, ScanningStatusHasScan, Queryable

LEMMA BrowserInv ==
    ASSUME ServerInv, NEW b \in Browsers, Load(b) \/ BrowserStep(b) \/ LoseConnection(b)
    PROVE  ServerInv'
<1>1. /\ delivered \in Nat /\ (Queryable \/ NothingEnds)
      /\ page \in [Browsers -> {"off", "loaded", "connected", "done", "reconnecting"}]
      /\ link \in [Browsers -> 0 .. MaxConnects] /\ MaxConnects \in Nat
      /\ \A x \in Browsers : page[x] = "connected" => link[x] # 0
    BY ServerAssumption DEF ServerInv
<1>2. UNCHANGED <<pc, run, runs, landed, failed, published, status, callbacks, delivered>>
    BY DEF Load, BrowserStep, Connect, Receive, ReceiveDone, Refresh, LoseConnection, scanVars, streamVars,
           Stream!Subscribe, Stream!Yield, Stream!YieldDone, Stream!Disconnect
<1>3. /\ page' \in [Browsers -> {"off", "loaded", "connected", "done", "reconnecting"}]
      /\ link' \in [Browsers -> 0 .. MaxConnects]
      /\ \A x \in Browsers : page'[x] = "connected" => link'[x] # 0
    <2>1. CASE Connect(b)
        <3>1. /\ link[b] < MaxConnects /\ link' = [link EXCEPT ![b] = @ + 1]
              /\ page' = [page EXCEPT ![b] = "connected"]
            BY <2>1 DEF Connect
        <3>2. link[b] + 1 \in 1 .. MaxConnects
            BY <1>1, <3>1
        <3> QED BY <1>1, <3>1, <3>2
    <2>2. CASE UNCHANGED link
        <3>1. \/ page' = page
              \/ \E to \in {"loaded", "done", "reconnecting"} : page' = [page EXCEPT ![b] = to]
              \/ Connect(b)
            BY DEF Load, BrowserStep, Connect, Receive, ReceiveDone, Refresh, LoseConnection, browserVars
        <3> QED BY <1>1, <2>1, <2>2, <3>1
    <2>3. link' = link \/ Connect(b)
        BY DEF Load, BrowserStep, Connect, Receive, ReceiveDone, Refresh, LoseConnection, browserVars
    <2> QED BY <2>1, <2>2, <2>3
<1>4. page[b] = "connected" => Connection(b) \in Connections
    BY <1>1 DEF Connection, Connections
<1>5. ASSUME NothingEnds
      PROVE  NothingEnds'
    <2> USE <1>5
    <2>1. CASE Receive(b)
        <3>1. page' = page /\ Connection(b) \in Connections /\ Stream!Yield(Connection(b))
            BY <2>1, <1>4 DEF Receive, browserVars
        <3> QED BY <1>1, <3>1, StreamEndsNothing
    <2>2. CASE ReceiveDone(b)
        <3>1. /\ Connection(b) \in Connections /\ queue[Connection(b)] # <<>>
              /\ Head(queue[Connection(b)]) = 0
            BY <2>2, <1>4 DEF ReceiveDone, Stream!YieldDone, Stream!Done
        <3>2. queue[Connection(b)] \in Seq(Nat \ {0})
            BY <3>1 DEF NothingEnds
        <3> QED BY <3>1, <3>2
    <2>3. CASE LoseConnection(b)
        <3>1. /\ queue' = [queue EXCEPT ![Connection(b)] = <<>>]
              /\ page' = [page EXCEPT ![b] = "reconnecting"]
            BY <2>3 DEF LoseConnection, Stream!Disconnect
        <3>2. <<>> \in Seq(Nat \ {0})
            OBVIOUS
        <3>3. queue' \in [Connections -> Seq(Nat \ {0})]
            BY <3>1, <3>2 DEF NothingEnds
        <3> QED BY <3>3, <1>1, <1>2, <3>1, <3>2 DEF NothingEnds
    <2>4. CASE Load(b) \/ Connect(b) \/ Refresh(b)
        <3>1. queue' = queue /\ \E to \in {"loaded", "connected", "reconnecting"} : page' = [page EXCEPT ![b] = to]
            BY <2>4 DEF Load, Connect, Refresh, streamVars, Stream!Subscribe
        <3> QED BY <1>1, <1>2, <3>1 DEF NothingEnds
    <2> QED BY <2>1, <2>2, <2>3, <2>4 DEF BrowserStep
<1> QED BY <1>1, <1>2, <1>3, <1>5, OthersKept DEF ServerInv

LEMMA PostInv ==
    ASSUME ServerInv, (\E t \in Posts : PostScan(t)) \/ PostFails
    PROVE  ServerInv'
<1> USE DEF Places, Unsettled, Scanning
<1>1. /\ ThreadsInv /\ pc \in [Threads -> Places] /\ run \in [Threads -> Nat] /\ runs \in Nat
      /\ (Queryable \/ NothingEnds)
    BY DEF ServerInv, ThreadsInv
<1>2. ASSUME NEW t \in Posts, PostScan(t)
      PROVE  ServerInv'
    <2>1. /\ t \in Threads /\ Goto(t, "starting")
          /\ UNCHANGED <<landed, failed, published, page, link, callbacks, queue, delivered>>
          /\ runs' = runs + 1 /\ run' = [run EXCEPT ![t] = runs + 1]
        BY <1>2 DEF PostScan, browserVars, streamVars, Threads
    <2>2. run' \in [Threads -> Nat] /\ run'[t] = runs + 1 /\ \A u \in Threads : u # t => run'[u] = run[u]
        BY <1>1, <2>1
    <2>3. ThreadsInv' /\ pc'[t] = "starting"
        BY <1>1, <2>1, <2>2, ThreadsKept
    <2>4. ScanningStatusHasScan'
        BY <2>1, <2>3 DEF ScanningStatusHasScan
    <2> QED BY <1>1, <2>1, <2>3, <2>4 DEF ServerInv, Queryable, NothingEnds
<1>3. CASE PostFails
    <2>1. /\ UNCHANGED <<pc, run, runs, landed, failed, published, page, link, callbacks, queue, delivered>>
          /\ status' = "error"
        BY <1>3 DEF PostFails, scanVars, browserVars, streamVars
    <2> QED BY <1>1, <2>1 DEF ServerInv, ThreadsInv, ScanningStatusHasScan, Queryable, NothingEnds
<1> QED BY <1>2, <1>3

LEMMA LoopInv ==
    ASSUME ServerInv, Deliver \/ (\E touches \in Edits : Edit(touches)) \/ UNCHANGED vars
    PROVE  ServerInv'
<1>1. delivered \in Nat /\ (Queryable \/ NothingEnds)
    BY DEF ServerInv
<1>2. UNCHANGED <<pc, run, runs, landed, failed, published, status, page, link>>
    BY DEF Deliver, Edit, vars, scanVars, browserVars, streamVars
<1>3. CASE Deliver
    <2>1. Stream!LoopStep
        BY <1>3 DEF Deliver
    <2>2. delivered' \in Nat
        BY <1>1, <2>1 DEF Stream!LoopStep, Stream!DeliverEvent, Stream!DeliverDone
    <2>3. NothingEnds => NothingEnds'
        BY <1>1, <1>2, <2>1, StreamEndsNothing
    <2> QED BY <1>1, <1>2, <2>2, <2>3, OthersKept DEF ServerInv
<1>4. CASE (\E touches \in Edits : Edit(touches)) \/ UNCHANGED vars
    <2>1. UNCHANGED <<callbacks, queue, delivered>>
        BY <1>4 DEF Edit, vars, streamVars
    <2>2. NothingEnds => NothingEnds'
        BY <1>2, <2>1 DEF NothingEnds
    <2> QED BY <1>1, <1>2, <2>1, <2>2, OthersKept DEF ServerInv
<1> QED BY <1>3, <1>4

LEMMA NextServer ==
    ASSUME ServerInv, [Next]_vars
    PROVE  ServerInv'
BY ThreadStepInv, BrowserInv, PostInv, LoopInv DEF Next

\* A page has seen the end of the stream only when there is a run to show.
LEMMA ServerTells == ServerInv => AnnouncedScansAreReal
BY DEF ServerInv, ThreadsInv, Queryable, NothingEnds, AnnouncedScansAreReal, ScanningStatusHasScan,
       DoneMeansQueryable

\* However many threads scan, are posted or fail, and however many pages come
\* and go: a status "scanning" has a scan behind it, and the end of the stream
\* is seen only when a run failed or a store is published.
THEOREM AnnouncedScansAlwaysReal == Spec => []AnnouncedScansAreReal
<1>1. Init => ServerInv
    BY ServerInit
<1>2. ServerInv /\ [Next]_vars => ServerInv'
    BY NextServer
<1>3. ServerInv => AnnouncedScansAreReal
    BY ServerTells
<1> QED BY <1>1, <1>2, <1>3, PTL DEF Spec

-----------------------------------------------------------------------------
\* The server drives its event stream by the stream's own steps.

StreamFacts == INSTANCE EventStreamProofs
    WITH Producers <- Threads, MaxEvents <- 2 * MaxScans, MaxCloses <- MaxScans

LEMMA SameSizes == \A S : Stream!Cardinality(S) = StreamFacts!Cardinality(S)
BY DEF Stream!Cardinality, StreamFacts!Cardinality

LEMMA SameIterations ==
    \A t : Stream!SizeUnchanged(t) <=> StreamFacts!SizeUnchanged(t)
BY SameSizes DEF Stream!SizeUnchanged, StreamFacts!SizeUnchanged

\* Only a thread in CloseStep is in the middle of an iteration.
IterationsInv == \A t \in Threads : closing[t].on => pc[t] = "signalling"

JoinedInv == ServerInv /\ StreamFacts!StreamInv /\ IterationsInv

LEMMA JoinedInit == Init => JoinedInv
<1> SUFFICES ASSUME Init PROVE JoinedInv
    OBVIOUS
<1>1. StreamFacts!Init
    BY DEF Init, Stream!Init, StreamFacts!Init, Stream!NoIteration, StreamFacts!NoIteration
<1>2. StreamFacts!StreamAssumption
    BY ServerAssumption DEF StreamFacts!StreamAssumption
<1>3. StreamFacts!StreamInv
    BY <1>1, <1>2, StreamFacts!InitEstablishesInv
<1>4. IterationsInv
    BY DEF Init, Stream!Init, Stream!NoIteration, IterationsInv
<1> QED BY <1>3, <1>4, ServerInit DEF JoinedInv

\* Every step of the server is one of the stream, or leaves it alone.
LEMMA NextDrivesStream ==
    ASSUME JoinedInv, [Next]_vars
    PROVE  [StreamFacts!Next]_(StreamFacts!vars)
<1>1. /\ pc \in [Threads -> Places] /\ link \in [Browsers -> 0 .. MaxConnects] /\ MaxConnects \in Nat
      /\ \A t \in Threads : closing[t].on => pc[t] = "signalling"
      /\ \A b \in Browsers : page[b] = "connected" => link[b] # 0
    BY ServerAssumption DEF JoinedInv, ServerInv, ThreadsInv, IterationsInv
<1>2. ASSUME NEW t \in Threads, StartScan(t) \/ Fail(t)
      PROVE  StreamFacts!EmitEvent(t)
    <2>1. pc[t] # "signalling" /\ Stream!Emit
          /\ UNCHANGED <<delivered, history, subscribers, conn, queue, out, closing, closes>>
        BY <1>2 DEF StartScan, Fail, Scanning
    <2> QED BY <1>1, <2>1 DEF Stream!Emit, StreamFacts!EmitEvent, StreamFacts!Emit, Stream!Deliver, StreamFacts!Deliver
<1>3. ASSUME NEW t \in Threads, BeginClose(t) \/ CloseStep(t)
      PROVE  StreamFacts!BeginClose(t) \/ StreamFacts!CloseNext(t) \/ StreamFacts!CloseEnd(t) \/ StreamFacts!CloseRaises(t)
    <2>1. ASSUME Stream!BeginClose(t) PROVE StreamFacts!BeginClose(t)
        BY <2>1 DEF Stream!BeginClose, StreamFacts!BeginClose, Stream!Iteration, StreamFacts!Iteration
    <2>2. ASSUME Stream!CloseNext(t) PROVE StreamFacts!CloseNext(t)
        BY <2>2, SameIterations DEF Stream!CloseNext, StreamFacts!CloseNext,
                    Stream!PutDone, StreamFacts!PutDone
    <2>3. ASSUME Stream!CloseEnd(t) PROVE StreamFacts!CloseEnd(t)
        BY <2>3, SameIterations DEF Stream!CloseEnd, StreamFacts!CloseEnd,
                    Stream!NoIteration, StreamFacts!NoIteration
    <2>4. ASSUME Stream!CloseRaises(t) PROVE StreamFacts!CloseRaises(t)
        BY <2>4, SameIterations DEF Stream!CloseRaises, StreamFacts!CloseRaises,
                    Stream!NoIteration, StreamFacts!NoIteration
    <2> QED BY <1>3, <2>1, <2>2, <2>3, <2>4 DEF BeginClose, CloseStep
<1>4. ASSUME Deliver
      PROVE  StreamFacts!LoopStep
    BY <1>4
       DEF Deliver, Stream!LoopStep, Stream!DeliverEvent, Stream!DeliverDone, StreamFacts!LoopStep,
           StreamFacts!DeliverEvent, StreamFacts!DeliverDone, Stream!RingAppend, StreamFacts!RingAppend,
           Stream!Deliver, StreamFacts!Deliver, Stream!Done, StreamFacts!Done
<1>5. ASSUME NEW b \in Browsers, Connect(b) \/ Receive(b) \/ ReceiveDone(b) \/ LoseConnection(b)
      PROVE  \E c \in Connections : StreamFacts!Subscribe(c) \/ StreamFacts!Yield(c) \/ StreamFacts!YieldDone(c) \/ StreamFacts!Disconnect(c)
    <2>1. CASE Connect(b)
        <3>1. <<b, link[b] + 1>> \in Connections /\ Stream!Subscribe(<<b, link[b] + 1>>)
            BY <1>1, <2>1 DEF Connect, Connections
        <3> QED BY <3>1 DEF Stream!Subscribe, StreamFacts!Subscribe
    <2>2. CASE Receive(b) \/ ReceiveDone(b) \/ LoseConnection(b)
        <3>1. page[b] = "connected"
            BY <2>2 DEF Receive, ReceiveDone, LoseConnection
        <3>2. Connection(b) \in Connections
            BY <1>1, <3>1 DEF Connection, Connections
        <3>3. Stream!Yield(Connection(b)) \/ Stream!YieldDone(Connection(b)) \/ Stream!Disconnect(Connection(b))
            BY <2>2 DEF Receive, ReceiveDone, LoseConnection
        <3>4. StreamFacts!Yield(Connection(b)) \/ StreamFacts!YieldDone(Connection(b)) \/ StreamFacts!Disconnect(Connection(b))
            BY <3>3 DEF Stream!Yield, Stream!YieldDone, Stream!Disconnect, StreamFacts!Yield, StreamFacts!YieldDone,
                        StreamFacts!Disconnect, Stream!Done, StreamFacts!Done
        <3> QED BY <3>2, <3>4
    <2> QED BY <1>5, <2>1, <2>2
<1>6. ASSUME \/ \E t \in Threads : Walk(t) \/ Land(t) \/ Publish(t) \/ SetDone(t) \/ Arm(t) \/ Notice(t)
             \/ \E t \in Posts : PostScan(t)
             \/ PostFails
             \/ \E b \in Browsers : Load(b) \/ Refresh(b)
             \/ \E touches \in Edits : Edit(touches)
             \/ UNCHANGED vars
      PROVE  UNCHANGED StreamFacts!vars
    BY <1>6 DEF Walk, Land, Publish, SetDone, Arm, Notice, PostScan, PostFails, Load, Refresh, Edit, vars,
                streamVars, StreamFacts!vars
<1> QED BY <1>2, <1>3, <1>4, <1>5, <1>6 DEF Next, ThreadStep, BrowserStep, StreamFacts!Next

LEMMA IterationsKept ==
    ASSUME JoinedInv, [Next]_vars
    PROVE  IterationsInv'
<1>1. /\ pc \in [Threads -> Places] /\ DOMAIN closing = Threads
      /\ \A t \in Threads : closing[t].on => pc[t] = "signalling"
    BY DEF JoinedInv, ServerInv, ThreadsInv, IterationsInv, StreamFacts!StreamInv, StreamFacts!TypeOK
<1>2. ASSUME NEW t \in Threads,
             StartScan(t) \/ Fail(t) \/ Walk(t) \/ Land(t) \/ Publish(t) \/ SetDone(t) \/ Arm(t) \/ Notice(t)
      PROVE  IterationsInv'
    <2>1. /\ closing' = closing /\ pc[t] # "signalling" /\ \E place \in Places : pc' = [pc EXCEPT ![t] = place]
        BY <1>2 DEF StartScan, Fail, Walk, Land, Publish, SetDone, Arm, Notice, Goto, Places, Unsettled, Scanning,
                    streamVars
    <2> QED BY <1>1, <2>1 DEF IterationsInv
<1>3. ASSUME NEW t \in Threads, BeginClose(t)
      PROVE  IterationsInv'
    <2>1. pc' = [pc EXCEPT ![t] = "signalling"] /\ \E it : closing' = [closing EXCEPT ![t] = it]
        BY <1>3 DEF BeginClose, Stream!BeginClose, Goto
    <2> QED BY <1>1, <2>1 DEF IterationsInv
<1>4. ASSUME NEW t \in Threads, CloseStep(t)
      PROVE  IterationsInv'
    <2>1. CASE pc' = pc
        <3>1. pc[t] = "signalling" /\ \A u \in Threads : u # t => closing'[u] = closing[u]
            BY <1>1, <1>4 DEF CloseStep, Stream!CloseNext, Stream!CloseEnd, Stream!CloseRaises
        <3> QED BY <1>1, <2>1, <3>1 DEF IterationsInv
    <2>2. CASE closing' = [closing EXCEPT ![t] = Stream!NoIteration]
        <3>1. ~ closing'[t].on /\ \A u \in Threads : u # t => closing'[u] = closing[u]
            BY <1>1, <2>2 DEF Stream!NoIteration
        <3>2. \A u \in Threads : u # t => pc'[u] = pc[u]
            BY <1>1, <1>4 DEF CloseStep, Goto
        <3> QED BY <1>1, <3>1, <3>2 DEF IterationsInv
    <2> QED BY <1>4, <2>1, <2>2 DEF CloseStep, Stream!CloseEnd, Stream!CloseRaises
<1>5. ASSUME NEW t \in Posts, PostScan(t)
      PROVE  IterationsInv'
    <2>1. t \in Threads /\ closing' = closing /\ pc[t] = "off" /\ pc' = [pc EXCEPT ![t] = "starting"]
        BY <1>5 DEF PostScan, Goto, streamVars, Threads
    <2> QED BY <1>1, <2>1 DEF IterationsInv
<1>6. ASSUME \/ PostFails \/ Deliver
             \/ \E b \in Browsers : Load(b) \/ BrowserStep(b) \/ LoseConnection(b)
             \/ \E touches \in Edits : Edit(touches)
             \/ UNCHANGED vars
      PROVE  IterationsInv'
    <2>1. closing' = closing /\ pc' = pc
        BY <1>6 DEF PostFails, Deliver, Load, BrowserStep, LoseConnection, Connect, Receive, ReceiveDone,
                    Refresh, Edit, vars, streamVars, Stream!LoopStep, Stream!DeliverEvent, Stream!DeliverDone,
                    Stream!Subscribe, Stream!Yield, Stream!YieldDone, Stream!Disconnect
    <2> QED BY <1>1, <2>1 DEF IterationsInv
<1> QED BY <1>2, <1>3, <1>4, <1>5, <1>6 DEF Next, ThreadStep

LEMMA NextJoined ==
    ASSUME JoinedInv, [Next]_vars
    PROVE  JoinedInv'
<1>1. StreamFacts!StreamAssumption
    BY ServerAssumption DEF StreamFacts!StreamAssumption
<1>2. StreamFacts!StreamInv'
    BY <1>1, NextDrivesStream, StreamFacts!NextKeepsInv DEF JoinedInv
<1> QED BY <1>2, IterationsKept, NextServer DEF JoinedInv

\* The server uses its event stream as EventStream says: it starts it empty,
\* and each step of threads, loop and pages is a step of the stream or leaves
\* it alone.
THEOREM ServerDrivesStream == Spec => StreamFacts!Init /\ [][StreamFacts!Next]_(StreamFacts!vars)
<1>1. Init => StreamFacts!Init
    BY DEF Init, Stream!Init, StreamFacts!Init, Stream!NoIteration, StreamFacts!NoIteration
<1>2. JoinedInv /\ [Next]_vars => [StreamFacts!Next]_(StreamFacts!vars)
    BY NextDrivesStream
<1> QED BY <1>1, <1>2, JoinedInit, NextJoined, PTL DEF Spec

\* So whatever the stream promises a connection it promises the pages: each is
\* sent the events in order, without a gap, from the oldest the ring held.
THEOREM PagesAlwaysSeamless == Spec => []Stream!StreamIsSeamless
<1>1. JoinedInv => Stream!StreamIsSeamless
    <2> SUFFICES ASSUME JoinedInv PROVE Stream!StreamIsSeamless
        OBVIOUS
    <2>1. StreamFacts!StreamAssumption
        BY ServerAssumption DEF StreamFacts!StreamAssumption
    <2>2. StreamFacts!ConnectionInOrder /\ StreamFacts!LateSubscriberCatchesUp
        BY <2>1, StreamFacts!InvImpliesOrder, StreamFacts!InvImpliesCatchUp DEF JoinedInv
    <2> QED BY <2>2
            DEF StreamFacts!ConnectionInOrder, StreamFacts!LateSubscriberCatchesUp, Stream!StreamIsSeamless,
                Stream!ConnectionInOrder, Stream!LateSubscriberCatchesUp,
                StreamFacts!Sent, StreamFacts!Pending, StreamFacts!Done, Stream!Sent, Stream!Pending, Stream!Done
<1> QED BY <1>1, JoinedInit, NextJoined, PTL DEF Spec

(***************************************************************************)
(* The conditions of a query                                               *)
(***************************************************************************)

\* What `body` makes of an x of S is made of what is smaller.
LooksBack(body, T, S, V, size) ==
    /\ T \subseteq [S -> V] /\ T # {} /\ body \in [T -> T]
    /\ \A f \in T, g \in T : \A x \in S :
          (\A y \in S : size[y] < size[x] => f[y] = g[y]) => body[f][x] = body[g][x]
HasFixpoint(body, T) == \E f \in T : body[f] = f

\* A recursive definition has a value where it looks only at what is smaller.
LEMMA Recursion ==
    ASSUME NEW body, NEW T, NEW S, NEW V, NEW n \in Nat, NEW size \in [S -> 0 .. n],
           LooksBack(body, T, S, V, size)
    PROVE  HasFixpoint(body, T)
<1>C. /\ T \subseteq [S -> V] /\ body \in [T -> T]
      /\ \A f \in T, g \in T : \A x \in S :
            (\A y \in S : size[y] < size[x] => f[y] = g[y]) => body[f][x] = body[g][x]
    BY DEF LooksBack
<1>E. PICK base : base \in T
    BY DEF LooksBack
<1> DEFINE step == [k \in 1 .. n + 1 |-> body]
<1>1. n + 1 \in Nat /\ step \in [1 .. n + 1 -> [T -> T]]
    BY <1>C
<1>D. \A k \in 1 .. n + 1 : step[k] = body
    OBVIOUS
<1>2. PICK h : Follows(h, n + 1, T, base, step)
  <2> HIDE DEF step
  <2> QED
    BY <1>C, <1>E, <1>1, LoopRuns DEF Runs
<1>3. /\ h \in [0 .. n + 1 -> T]
      /\ \A k \in 1 .. n + 1 : h[k] = body[h[k - 1]]
    BY <1>D, <1>2 DEF Follows
<1> DEFINE G == {k \in 0 .. n + 1 : \A x \in S : size[x] < k => body[h[k]][x] = h[k][x]}
<1>4. 0 \in G
  <2>1. \A x \in S : size[x] \in 0 .. n
      BY <1>C
  <2> QED
      BY <1>C, <2>1
<1>5. ASSUME NEW k \in 1 .. n + 1, k - 1 \in G PROVE k \in G
  <2> SUFFICES ASSUME NEW x \in S, size[x] < k PROVE body[h[k]][x] = h[k][x]
      OBVIOUS
  <2>1. h[k] \in T /\ h[k - 1] \in T /\ h[k] = body[h[k - 1]]
      BY <1>3
  <2>2. ASSUME NEW y \in S, size[y] < size[x] PROVE h[k][y] = h[k - 1][y]
    <3>1. size[y] < k - 1
      <4>1. size[y] \in 0 .. n /\ size[x] \in 0 .. n
          BY <1>C
      <4> QED
          BY <2>2, <4>1
    <3>2. body[h[k - 1]][y] = h[k - 1][y]
        BY <1>5, <3>1
    <3> QED
        BY <2>1, <3>2
  <2>3. body[h[k]][x] = body[h[k - 1]][x]
      BY <1>C, <2>1, <2>2
  <2> QED
      BY <2>1, <2>3
<1>6. n + 1 \in G
  <2> HIDE DEF G
  <2>1. \A k \in 0 .. n + 1 : k \in G
      BY <1>C, <1>1, <1>4, <1>5, CountUp
  <2> QED
      BY <2>1
<1> DEFINE f == h[n + 1]
<1>7. f \in T /\ body[f] \in T
    BY <1>C, <1>3
<1>8. \A x \in S : body[f][x] = f[x]
  <2>1. \A x \in S : size[x] < n + 1
    <3>1. \A x \in S : size[x] \in 0 .. n
        BY <1>C
    <3> QED
        BY <3>1
  <2> QED
      BY <1>C, <1>6, <2>1
<1>9. f \in [S -> V] /\ body[f] \in [S -> V]
    BY <1>C, <1>7
<1> HIDE DEF f
<1>10. body[f] = f
    BY <1>8, <1>9
<1> QED
    BY <1>7, <1>10 DEF HasFixpoint

Expressions == {"OrExpr", "AndExpr", "Term"}
Rests == {"OrRest", "AndRest"}

\* What a call reads: no less than it had, an expression something of its own,
\* and nothing after a mistake.
ReadsOn(r, c) ==
    /\ r.next >= c.left.next
    /\ c.rule \in Expressions /\ r.value # Rejected => r.next > c.left.next
    /\ c.rule \in Rests /\ c.left.value = Rejected => r.value = Rejected
Tries == {f \in [Calls -> Readings] : \A c \in Calls : ReadsOn(f[c], c)}

LEMMA PeekWithin ==
    ASSUME text \in Seq(Tokens)
    PROVE  /\ Len(text) \in Nat
           /\ \A i \in 1 .. Len(text) + 1 : Peek(i) # "end" => i \in 1 .. Len(text) /\ Peek(i) = text[i]
BY DEF Peek

LEMMA ParsedFields ==
    ASSUME text \in Seq(Tokens), NEW v \in Truths \cup {Rejected, Unread}, NEW i \in 1 .. Len(text) + 1
    PROVE  Parsed(v, i) \in Readings /\ Parsed(v, i).value = v /\ Parsed(v, i).next = i
BY DEF Parsed, Readings

LEMMA ExpressionCalls ==
    ASSUME text \in Seq(Tokens), NEW rule \in Expressions, NEW i \in 1 .. Len(text) + 1
    PROVE  At(rule, i) \in Calls /\ At(rule, i).rule = rule /\ At(rule, i).left.next = i
<1>1. Parsed(Unread, i) \in Readings /\ Parsed(Unread, i).next = i
    BY ParsedFields
<1> QED
    BY <1>1 DEF At, Call, Calls, Expressions

LEMMA RestCalls ==
    ASSUME text \in Seq(Tokens), NEW rule \in Rests, NEW left \in Readings
    PROVE  Call(rule, left) \in Calls /\ Call(rule, left).rule = rule /\ Call(rule, left).left = left
BY DEF Call, Calls, Rests

LEMMA TruthOfBoth ==
    ASSUME NEW v, NEW w
    PROVE  SqlOr(v, w) \in Truths /\ SqlAnd(v, w) \in Truths
BY DEF SqlOr, SqlAnd, Truths

LEMMA ReadingFields ==
    ASSUME text \in Seq(Tokens), NEW r \in Readings
    PROVE  /\ r.value \in Truths \cup {Rejected, Unread} /\ r.next \in 1 .. Len(text) + 1
           /\ Len(text) \in Nat
BY DEF Readings

LEMMA TryFields ==
    ASSUME text \in Seq(Tokens), NEW f \in Tries
    PROVE  /\ \A i \in 1 .. Len(text) + 1 : \A rule \in Expressions :
                /\ f[At(rule, i)] \in Readings
                /\ f[At(rule, i)].next >= i
                /\ f[At(rule, i)].value # Rejected => f[At(rule, i)].next > i
           /\ \A left \in Readings : \A rule \in Rests :
                /\ f[Call(rule, left)] \in Readings
                /\ f[Call(rule, left)].next >= left.next
                /\ left.value = Rejected => f[Call(rule, left)].value = Rejected
<1>1. \A c \in Calls : f[c] \in Readings /\ ReadsOn(f[c], c)
    BY DEF Tries
<1>2. ASSUME NEW i \in 1 .. Len(text) + 1, NEW rule \in Expressions
      PROVE  /\ f[At(rule, i)] \in Readings
             /\ f[At(rule, i)].next >= i
             /\ f[At(rule, i)].value # Rejected => f[At(rule, i)].next > i
    BY <1>1, ExpressionCalls DEF ReadsOn
<1>3. ASSUME NEW left \in Readings, NEW rule \in Rests
      PROVE  /\ f[Call(rule, left)] \in Readings
             /\ f[Call(rule, left)].next >= left.next
             /\ left.value = Rejected => f[Call(rule, left)].value = Rejected
    BY <1>1, RestCalls DEF ReadsOn
<1> QED
    BY <1>2, <1>3

LEMMA OrExprReadsOn ==
    ASSUME text \in Seq(Tokens), NEW f \in Tries, NEW i \in 1 .. Len(text) + 1
    PROVE  /\ OrExpr(f, i) \in Readings /\ OrExpr(f, i).next >= i
           /\ OrExpr(f, i).value # Rejected => OrExpr(f, i).next > i
<1> DEFINE a == f[At("AndExpr", i)]
           b == f[Call("OrRest", a)]
<1>1. a \in Readings /\ a.next >= i /\ (a.value # Rejected => a.next > i)
    BY TryFields DEF Expressions
<1> HIDE DEF a
<1>2. b \in Readings /\ b.next >= a.next /\ (a.value = Rejected => b.value = Rejected)
    BY <1>1, TryFields DEF Rests
<1>3. a.next \in Nat /\ b.next \in Nat /\ i \in Nat
    BY <1>1, <1>2, ReadingFields
<1>4. OrExpr(f, i) = b
    BY DEF OrExpr, a
<1> HIDE DEF b
<1> QED
    BY <1>1, <1>2, <1>3, <1>4

LEMMA AndExprReadsOn ==
    ASSUME text \in Seq(Tokens), NEW f \in Tries, NEW i \in 1 .. Len(text) + 1
    PROVE  /\ AndExpr(f, i) \in Readings /\ AndExpr(f, i).next >= i
           /\ AndExpr(f, i).value # Rejected => AndExpr(f, i).next > i
<1> DEFINE a == f[At("Term", i)]
           b == f[Call("AndRest", a)]
<1>1. a \in Readings /\ a.next >= i /\ (a.value # Rejected => a.next > i)
    BY TryFields DEF Expressions
<1> HIDE DEF a
<1>2. b \in Readings /\ b.next >= a.next /\ (a.value = Rejected => b.value = Rejected)
    BY <1>1, TryFields DEF Rests
<1>3. a.next \in Nat /\ b.next \in Nat /\ i \in Nat
    BY <1>1, <1>2, ReadingFields
<1>4. AndExpr(f, i) = b
    BY DEF AndExpr, a
<1> HIDE DEF b
<1> QED
    BY <1>1, <1>2, <1>3, <1>4

LEMMA RestsReadOn ==
    ASSUME text \in Seq(Tokens), NEW f \in Tries, NEW left \in Readings
    PROVE  /\ OrRest(f, left) \in Readings /\ OrRest(f, left).next >= left.next
           /\ left.value = Rejected => OrRest(f, left).value = Rejected
           /\ AndRest(f, left) \in Readings /\ AndRest(f, left).next >= left.next
           /\ left.value = Rejected => AndRest(f, left).value = Rejected
<1>1. left.next \in 1 .. Len(text) + 1 /\ Len(text) \in Nat
    BY ReadingFields
<1>2. CASE left.value = Rejected
    BY <1>1, <1>2 DEF OrRest, AndRest
<1>3. ASSUME left.value # Rejected
      PROVE  OrRest(f, left) \in Readings /\ OrRest(f, left).next >= left.next
  <2>1. CASE Peek(left.next) # "or"
      BY <1>1, <2>1 DEF OrRest
  <2>2. CASE Peek(left.next) = "or"
    <3> DEFINE right == f[At("AndExpr", left.next + 1)]
               both == Parsed(SqlOr(left.value, right.value), right.next)
    <3>1. left.next + 1 \in 1 .. Len(text) + 1
        BY <1>1, <2>2, PeekWithin
    <3>2. right \in Readings /\ right.next >= left.next + 1 /\ right.next \in 1 .. Len(text) + 1
        BY <3>1, TryFields, ReadingFields DEF Expressions
    <3>3. both \in Readings /\ both.next = right.next
        BY <3>2, TruthOfBoth, ParsedFields
    <3>4. OrRest(f, left) = IF right.value = Rejected THEN right ELSE f[Call("OrRest", both)]
        BY <1>3, <2>2 DEF OrRest
    <3> HIDE DEF both, right
    <3>5. f[Call("OrRest", both)] \in Readings /\ f[Call("OrRest", both)].next >= both.next
        BY <3>3, TryFields DEF Rests
    <3>6. f[Call("OrRest", both)].next \in Nat
        BY <3>5, ReadingFields
    <3> QED
        BY <1>1, <3>2, <3>3, <3>4, <3>5, <3>6
  <2> QED
      BY <2>1, <2>2
<1>4. ASSUME left.value # Rejected
      PROVE  AndRest(f, left) \in Readings /\ AndRest(f, left).next >= left.next
  <2>1. CASE Peek(left.next) # "and"
      BY <1>1, <2>1 DEF AndRest
  <2>2. CASE Peek(left.next) = "and"
    <3> DEFINE right == f[At("Term", left.next + 1)]
               both == Parsed(SqlAnd(left.value, right.value), right.next)
    <3>1. left.next + 1 \in 1 .. Len(text) + 1
        BY <1>1, <2>2, PeekWithin
    <3>2. right \in Readings /\ right.next >= left.next + 1 /\ right.next \in 1 .. Len(text) + 1
        BY <3>1, TryFields, ReadingFields DEF Expressions
    <3>3. both \in Readings /\ both.next = right.next
        BY <3>2, TruthOfBoth, ParsedFields
    <3>4. AndRest(f, left) = IF right.value = Rejected THEN right ELSE f[Call("AndRest", both)]
        BY <1>4, <2>2 DEF AndRest
    <3> HIDE DEF both, right
    <3>5. f[Call("AndRest", both)] \in Readings /\ f[Call("AndRest", both)].next >= both.next
        BY <3>3, TryFields DEF Rests
    <3>6. f[Call("AndRest", both)].next \in Nat
        BY <3>5, ReadingFields
    <3> QED
        BY <1>1, <3>2, <3>3, <3>4, <3>5, <3>6
  <2> QED
      BY <2>1, <2>2
<1> QED
    BY <1>2, <1>3, <1>4

LEMMA TermReadsOn ==
    ASSUME text \in Seq(Tokens), NEW f \in Tries, NEW i \in 1 .. Len(text) + 1
    PROVE  /\ Term(f, i) \in Readings /\ Term(f, i).next >= i
           /\ Term(f, i).value # Rejected => Term(f, i).next > i
<1> DEFINE inner == f[At("OrExpr", i + 1)]
<1>1. /\ Len(text) \in Nat
      /\ Parsed(Rejected, i) \in Readings /\ Parsed(Rejected, i).value = Rejected /\ Parsed(Rejected, i).next = i
    BY ParsedFields, PeekWithin
<1>2. CASE Peek(i) = "("
  <2>1. i + 1 \in 1 .. Len(text) + 1
      BY <1>2, PeekWithin
  <2>2. inner \in Readings /\ inner.next >= i + 1
      BY <2>1, TryFields DEF Expressions
  <2> HIDE DEF inner
  <2>3. inner.next \in 1 .. Len(text) + 1 /\ inner.value \in Truths \cup {Rejected, Unread}
      BY <2>2, ReadingFields
  <2>4. Peek(inner.next) = ")" => inner.next + 1 \in 1 .. Len(text) + 1
      BY <2>3, PeekWithin
  <2>5. Term(f, i) = IF inner.value # Rejected /\ Peek(inner.next) = ")" THEN Parsed(inner.value, inner.next + 1)
                     ELSE Parsed(Rejected, i)
      BY <1>2 DEF Term, inner
  <2>6. CASE inner.value # Rejected /\ Peek(inner.next) = ")"
    <3>1. Term(f, i) = Parsed(inner.value, inner.next + 1)
        BY <2>5, <2>6
    <3>2. inner.next + 1 \in 1 .. Len(text) + 1
        BY <2>4, <2>6
    <3>3. PICK q \in 1 .. Len(text) + 1 : q = inner.next + 1
        BY <3>2
    <3>4. Parsed(inner.value, q) \in Readings /\ Parsed(inner.value, q).next = q
        BY <2>3, ParsedFields
    <3> QED
        BY <1>1, <2>2, <2>3, <3>1, <3>3, <3>4
  <2>7. CASE ~(inner.value # Rejected /\ Peek(inner.next) = ")")
    <3>1. Term(f, i) = Parsed(Rejected, i)
        BY <2>5, <2>7
    <3> QED
        BY <1>1, <3>1
  <2> QED
      BY <2>6, <2>7
<1>3. CASE Peek(i) \in Truths
  <2>1. i + 1 \in 1 .. Len(text) + 1 /\ Peek(i) # "("
      BY <1>3, PeekWithin DEF Truths
  <2>2. Term(f, i) = Parsed(Peek(i), i + 1)
      BY <1>3, <2>1 DEF Term
  <2>3. Term(f, i) \in Readings /\ Term(f, i).next = i + 1
      BY <1>3, <2>1, <2>2, ParsedFields
  <2> QED
      BY <1>1, <2>3
<1>4. CASE Peek(i) # "(" /\ Peek(i) \notin Truths
  <2>1. Term(f, i) = Parsed(Rejected, i)
      BY <1>4 DEF Term
  <2> QED
      BY <1>1, <2>1
<1> QED
    BY <1>2, <1>3, <1>4

LEMMA RuleReadsOn ==
    ASSUME text \in Seq(Tokens), NEW f \in Tries, NEW c \in Calls
    PROVE  Rule(f, c) \in Readings /\ ReadsOn(Rule(f, c), c)
<1>1. /\ c.left \in Readings /\ c.left.next \in 1 .. Len(text) + 1
      /\ c.rule \in {"OrExpr", "OrRest", "AndExpr", "AndRest", "Term"}
    BY ReadingFields DEF Calls
<1>2. CASE c.rule = "OrExpr"
  <2>1. Rule(f, c) = OrExpr(f, c.left.next) /\ c.rule \notin Rests
      BY <1>2 DEF Rule, Rests
  <2> QED
      BY <1>1, <2>1, OrExprReadsOn DEF ReadsOn
<1>3. CASE c.rule = "AndExpr"
  <2>1. Rule(f, c) = AndExpr(f, c.left.next) /\ c.rule \notin Rests
      BY <1>3 DEF Rule, Rests
  <2> QED
      BY <1>1, <2>1, AndExprReadsOn DEF ReadsOn
<1>4. CASE c.rule = "Term"
  <2>1. Rule(f, c) = Term(f, c.left.next) /\ c.rule \notin Rests
      BY <1>4 DEF Rule, Rests
  <2> QED
      BY <1>1, <2>1, TermReadsOn DEF ReadsOn
<1>5. CASE c.rule = "OrRest"
  <2>1. Rule(f, c) = OrRest(f, c.left) /\ c.rule \notin Expressions
      BY <1>5 DEF Rule, Expressions
  <2> QED
      BY <1>1, <2>1, RestsReadOn DEF ReadsOn
<1>6. CASE c.rule = "AndRest"
  <2>1. Rule(f, c) = AndRest(f, c.left) /\ c.rule \notin Expressions
      BY <1>6 DEF Rule, Expressions
  <2> QED
      BY <1>1, <2>1, RestsReadOn DEF ReadsOn
<1> QED
    BY <1>1, <1>2, <1>3, <1>4, <1>5, <1>6

\* How much is left to read, and by which rule.
Ahead(i) == 3 * (Len(text) + 1 - i)
Rank(rule) == IF rule = "OrExpr" THEN 2 ELSE IF rule = "AndExpr" THEN 1 ELSE 0
CallSize(c) == Ahead(c.left.next) + Rank(c.rule)

LEMMA LessAhead ==
    ASSUME text \in Seq(Tokens), NEW i \in 1 .. Len(text) + 1
    PROVE  /\ Ahead(i) \in 0 .. 3 * Len(text)
           /\ \A k \in 1 .. Len(text) + 1 : k > i => Ahead(k) \in Nat /\ Ahead(k) + 3 <= Ahead(i)
<1>1. Len(text) \in Nat
    OBVIOUS
<1>2. Ahead(i) \in 0 .. 3 * Len(text)
    BY <1>1 DEF Ahead
<1>3. ASSUME NEW k \in 1 .. Len(text) + 1, k > i PROVE Ahead(k) \in Nat /\ Ahead(k) + 3 <= Ahead(i)
    BY <1>1, <1>3 DEF Ahead
<1> QED
    BY <1>2, <1>3

LEMMA SizeOfExpressions ==
    ASSUME text \in Seq(Tokens), NEW i \in 1 .. Len(text) + 1
    PROVE  /\ CallSize(At("OrExpr", i)) = Ahead(i) + 2
           /\ CallSize(At("AndExpr", i)) = Ahead(i) + 1
           /\ CallSize(At("Term", i)) = Ahead(i)
<1>1. \A rule \in Expressions : At(rule, i).rule = rule /\ At(rule, i).left.next = i
    BY ExpressionCalls
<1>2. Ahead(i) \in Nat
    BY LessAhead
<1>3. Rank("OrExpr") = 2 /\ Rank("AndExpr") = 1 /\ Rank("Term") = 0
    BY DEF Rank
<1> QED
    BY <1>1, <1>2, <1>3 DEF CallSize, Expressions

LEMMA SizeOfRests ==
    ASSUME text \in Seq(Tokens), NEW left \in Readings, NEW rule \in Rests
    PROVE  CallSize(Call(rule, left)) = Ahead(left.next)
<1>1. Call(rule, left).rule = rule /\ Call(rule, left).left = left
    BY RestCalls
<1>2. Rank(rule) = 0
    BY DEF Rank, Rests
<1>3. Ahead(left.next) \in Nat
    BY ReadingFields, LessAhead
<1> QED
    BY <1>1, <1>2, <1>3 DEF CallSize

LEMMA SizeOfCall ==
    ASSUME text \in Seq(Tokens), NEW c \in Calls
    PROVE  /\ Ahead(c.left.next) \in Nat /\ CallSize(c) \in 0 .. 3 * Len(text) + 2
           /\ CallSize(c) >= Ahead(c.left.next)
<1>1. c.left.next \in 1 .. Len(text) + 1 /\ Len(text) \in Nat
    BY ReadingFields DEF Calls
<1>2. Ahead(c.left.next) \in 0 .. 3 * Len(text) /\ 3 * Len(text) \in Nat
    BY <1>1, LessAhead
<1>3. Rank(c.rule) \in 0 .. 2
    BY DEF Rank
<1> QED
    BY <1>2, <1>3 DEF CallSize

\* A rule looks only at what is read after it, and at the rules it is made of.
LEMMA RulesLookAhead ==
    ASSUME text \in Seq(Tokens), NEW f \in Tries, NEW g, NEW c \in Calls,
           \A d \in Calls : CallSize(d) < CallSize(c) => f[d] = g[d]
    PROVE  Rule(f, c) = Rule(g, c)
<1> DEFINE i == c.left.next
           left == c.left
<1>1. /\ left \in Readings /\ i \in 1 .. Len(text) + 1 /\ Len(text) \in Nat
      /\ c.rule \in {"OrExpr", "OrRest", "AndExpr", "AndRest", "Term"}
    BY ReadingFields DEF Calls
<1>2. ASSUME NEW rule \in Rests, NEW r \in Readings, Ahead(r.next) < CallSize(c)
      PROVE  f[Call(rule, r)] = g[Call(rule, r)]
    BY <1>2, RestCalls, SizeOfRests
<1>3. CallSize(c) \in Nat /\ CallSize(c) >= Ahead(i)
    BY SizeOfCall, PeekWithin
<1>4. ASSUME NEW rule \in Expressions, NEW k \in 1 .. Len(text) + 1, k > i
      PROVE  f[At(rule, k)] = g[At(rule, k)]
  <2>1. At(rule, k) \in Calls
      BY ExpressionCalls
  <2>2. Ahead(k) \in Nat /\ Ahead(i) \in Nat /\ Ahead(k) + 3 <= Ahead(i)
      BY <1>1, <1>4, LessAhead
  <2>3. CallSize(At(rule, k)) \in {Ahead(k), Ahead(k) + 1, Ahead(k) + 2}
      BY SizeOfExpressions DEF Expressions
  <2>4. CallSize(At(rule, k)) < CallSize(c)
      BY <1>3, <2>2, <2>3
  <2> QED
      BY <2>1, <2>4
<1>5. CASE c.rule = "OrExpr"
  <2> DEFINE a == f[At("AndExpr", i)]
  <2>1. Ahead(i) \in Nat /\ CallSize(c) = Ahead(i) + 2 /\ CallSize(At("AndExpr", i)) = Ahead(i) + 1
    <3>1. Rank(c.rule) = 2
        BY <1>5 DEF Rank
    <3>2. CallSize(c) = Ahead(i) + 2
        BY <3>1 DEF CallSize
    <3>3. Ahead(i) \in Nat
        BY <1>1, LessAhead
    <3> QED
        BY <1>1, <3>2, <3>3, SizeOfExpressions
  <2>2. At("AndExpr", i) \in Calls
      BY <1>1, ExpressionCalls DEF Expressions
  <2>3. a = g[At("AndExpr", i)]
      BY <1>1, <2>1, <2>2
  <2>4. a \in Readings /\ a.next >= i
      BY <1>1, TryFields DEF Expressions
  <2> HIDE DEF a
  <2>5. a.next \in 1 .. Len(text) + 1
      BY <2>4, ReadingFields
  <2>6. f[Call("OrRest", a)] = g[Call("OrRest", a)]
    <3>1. a.next = i \/ a.next > i
        BY <1>1, <2>4, <2>5
    <3>2. Ahead(a.next) < CallSize(c)
        BY <1>1, <2>1, <2>5, <3>1, LessAhead
    <3> QED
        BY <1>2, <2>4, <3>2 DEF Rests
  <2>7. OrExpr(f, i) = OrExpr(g, i)
      BY <2>3, <2>6 DEF OrExpr, a
  <2> QED
      BY <1>5, <2>7 DEF Rule
<1>6. CASE c.rule = "AndExpr"
  <2> DEFINE a == f[At("Term", i)]
  <2>1. Ahead(i) \in Nat /\ CallSize(c) = Ahead(i) + 1 /\ CallSize(At("Term", i)) = Ahead(i)
    <3>1. Rank(c.rule) = 1
        BY <1>6 DEF Rank
    <3>2. CallSize(c) = Ahead(i) + 1
        BY <3>1 DEF CallSize
    <3>3. Ahead(i) \in Nat
        BY <1>1, LessAhead
    <3> QED
        BY <1>1, <3>2, <3>3, SizeOfExpressions
  <2>2. At("Term", i) \in Calls
      BY <1>1, ExpressionCalls DEF Expressions
  <2>3. a = g[At("Term", i)]
      BY <1>1, <2>1, <2>2
  <2>4. a \in Readings /\ a.next >= i
      BY <1>1, TryFields DEF Expressions
  <2> HIDE DEF a
  <2>5. a.next \in 1 .. Len(text) + 1
      BY <2>4, ReadingFields
  <2>6. f[Call("AndRest", a)] = g[Call("AndRest", a)]
    <3>1. a.next = i \/ a.next > i
        BY <1>1, <2>4, <2>5
    <3>2. Ahead(a.next) < CallSize(c)
        BY <1>1, <2>1, <2>5, <3>1, LessAhead
    <3> QED
        BY <1>2, <2>4, <3>2 DEF Rests
  <2>7. AndExpr(f, i) = AndExpr(g, i)
      BY <2>3, <2>6 DEF AndExpr, a
  <2> QED
      BY <1>6, <2>7 DEF Rule
<1>7. CASE c.rule = "Term"
  <2>1. Peek(i) = "(" => f[At("OrExpr", i + 1)] = g[At("OrExpr", i + 1)]
    <3> SUFFICES ASSUME Peek(i) = "(" PROVE f[At("OrExpr", i + 1)] = g[At("OrExpr", i + 1)]
        OBVIOUS
    <3>1. i + 1 \in 1 .. Len(text) + 1
        BY <1>1, PeekWithin
    <3>2. i + 1 > i
        BY <1>1
    <3> QED
        BY <1>4, <3>1, <3>2 DEF Expressions
  <2>2. Term(f, i) = Term(g, i)
      BY <2>1 DEF Term
  <2> QED
      BY <1>7, <2>2 DEF Rule
<1>8. CASE c.rule = "OrRest"
  <2>1. ASSUME left.value # Rejected, Peek(i) = "or" PROVE OrRest(f, left) = OrRest(g, left)
    <3> DEFINE right == f[At("AndExpr", i + 1)]
               both == Parsed(SqlOr(left.value, right.value), right.next)
    <3>1. i + 1 \in 1 .. Len(text) + 1 /\ i + 1 > i
        BY <1>1, <2>1, PeekWithin
    <3>2. right = g[At("AndExpr", i + 1)]
        BY <1>4, <3>1 DEF Expressions
    <3>3. right \in Readings /\ right.next >= i + 1
        BY <3>1, TryFields DEF Expressions
    <3>4. right.next \in 1 .. Len(text) + 1
        BY <3>3, ReadingFields
    <3>5. both \in Readings /\ both.next = right.next
        BY <3>4, TruthOfBoth, ParsedFields
    <3>6. right.next > i
        BY <1>1, <3>3, <3>4
    <3> HIDE DEF both, right
    <3>7. Ahead(both.next) \in Nat /\ Ahead(both.next) + 3 <= Ahead(i) /\ Ahead(i) \in Nat
        BY <1>1, <3>4, <3>5, <3>6, LessAhead
    <3>8. Ahead(both.next) < CallSize(c)
        BY <1>3, <3>7
    <3>9. f[Call("OrRest", both)] = g[Call("OrRest", both)]
        BY <1>2, <3>5, <3>8 DEF Rests
    <3> QED
        BY <2>1, <3>2, <3>9 DEF OrRest, both, right
  <2>2. OrRest(f, left) = OrRest(g, left)
      BY <2>1 DEF OrRest
  <2> QED
      BY <1>8, <2>2 DEF Rule
<1>9. CASE c.rule = "AndRest"
  <2>1. ASSUME left.value # Rejected, Peek(i) = "and" PROVE AndRest(f, left) = AndRest(g, left)
    <3> DEFINE right == f[At("Term", i + 1)]
               both == Parsed(SqlAnd(left.value, right.value), right.next)
    <3>1. i + 1 \in 1 .. Len(text) + 1 /\ i + 1 > i
        BY <1>1, <2>1, PeekWithin
    <3>2. right = g[At("Term", i + 1)]
        BY <1>4, <3>1 DEF Expressions
    <3>3. right \in Readings /\ right.next >= i + 1
        BY <3>1, TryFields DEF Expressions
    <3>4. right.next \in 1 .. Len(text) + 1
        BY <3>3, ReadingFields
    <3>5. both \in Readings /\ both.next = right.next
        BY <3>4, TruthOfBoth, ParsedFields
    <3>6. right.next > i
        BY <1>1, <3>3, <3>4
    <3> HIDE DEF both, right
    <3>7. Ahead(both.next) \in Nat /\ Ahead(both.next) + 3 <= Ahead(i) /\ Ahead(i) \in Nat
        BY <1>1, <3>4, <3>5, <3>6, LessAhead
    <3>8. Ahead(both.next) < CallSize(c)
        BY <1>3, <3>7
    <3>9. f[Call("AndRest", both)] = g[Call("AndRest", both)]
        BY <1>2, <3>5, <3>8 DEF Rests
    <3> QED
        BY <2>1, <3>2, <3>9 DEF AndRest, both, right
  <2>2. AndRest(f, left) = AndRest(g, left)
      BY <2>1 DEF AndRest
  <2> QED
      BY <1>9, <2>2 DEF Rule
<1> QED
    BY <1>1, <1>5, <1>6, <1>7, <1>8, <1>9

\* Every text is parsed.
LEMMA Parses ==
    ASSUME text \in Seq(Tokens)
    PROVE  Parse \in Tries /\ \A c \in Calls : Parse[c] = Rule(Parse, c)
<1> DEFINE body == [f \in Tries |-> [c \in Calls |-> Rule(f, c)]]
           size == [c \in Calls |-> CallSize(c)]
           base == [c \in Calls |-> Parsed(Rejected, c.left.next)]
<1>1. 3 * Len(text) + 2 \in Nat /\ size \in [Calls -> 0 .. 3 * Len(text) + 2]
    BY SizeOfCall, PeekWithin
<1>2. base \in Tries
  <2>1. ASSUME NEW c \in Calls
        PROVE  Parsed(Rejected, c.left.next) \in Readings /\ ReadsOn(Parsed(Rejected, c.left.next), c)
    <3>1. c.left.next \in 1 .. Len(text) + 1 /\ Len(text) \in Nat
        BY ReadingFields DEF Calls
    <3>2. /\ Parsed(Rejected, c.left.next) \in Readings
          /\ Parsed(Rejected, c.left.next).value = Rejected /\ Parsed(Rejected, c.left.next).next = c.left.next
        BY <3>1, ParsedFields
    <3> QED
        BY <3>1, <3>2 DEF ReadsOn
  <2> QED
      BY <2>1 DEF Tries
<1>3. body \in [Tries -> Tries]
  <2> SUFFICES ASSUME NEW f \in Tries PROVE [c \in Calls |-> Rule(f, c)] \in Tries
      OBVIOUS
  <2> QED
      BY RuleReadsOn DEF Tries
<1>4. ASSUME NEW f \in Tries, NEW g \in Tries, NEW c \in Calls, \A d \in Calls : size[d] < size[c] => f[d] = g[d]
      PROVE  body[f][c] = body[g][c]
  <2>1. Rule(f, c) = Rule(g, c)
      BY <1>4, RulesLookAhead
  <2> QED
      BY <2>1
<1>5. Tries \subseteq [Calls -> Readings]
    BY DEF Tries
<1>6. HasFixpoint(body, Tries)
  <2> HIDE DEF body, size, base
  <2>1. LooksBack(body, Tries, Calls, Readings, size)
      BY <1>1, <1>2, <1>3, <1>4, <1>5 DEF LooksBack
  <2> QED
      BY <1>1, <2>1, Recursion
<1>7. PICK f \in Tries : f = [c \in Calls |-> Rule(f, c)]
    BY <1>6 DEF HasFixpoint
<1>8. Parse = CHOOSE p : p = [c \in Calls |-> Rule(p, c)]
    BY DEF Parse
<1>9. Parse = [c \in Calls |-> Rule(Parse, c)]
    BY <1>7, <1>8
<1> HIDE DEF body, size, base
<1> DEFINE n == 3 * Len(text) + 2
           G == {k \in 0 .. n : \A c \in Calls : CallSize(c) <= k => f[c] = Parse[c]}
<1>10. n \in Nat /\ \A c \in Calls : CallSize(c) \in 0 .. n
    BY <1>1, SizeOfCall
<1>11. ASSUME NEW k \in 0 .. n, \A d \in Calls : CallSize(d) < k => f[d] = Parse[d]
       PROVE  k \in G
  <2> SUFFICES ASSUME NEW c \in Calls, CallSize(c) <= k PROVE f[c] = Parse[c]
      OBVIOUS
  <2>1. \A d \in Calls : CallSize(d) < CallSize(c) => f[d] = Parse[d]
    <3> HIDE DEF n
    <3> QED
        BY <1>10, <1>11
  <2>2. Rule(f, c) = Rule(Parse, c)
      BY <2>1, RulesLookAhead
  <2>3. f[c] = Rule(f, c)
      BY <1>7
  <2>4. Parse[c] = Rule(Parse, c)
      BY <1>9
  <2> QED
      BY <2>2, <2>3, <2>4
<1>12. \A k \in 0 .. n : k \in G
  <2> HIDE DEF n
  <2>1. 0 \in G
    <3> HIDE DEF G
    <3>1. \A d \in Calls : ~(CallSize(d) < 0)
        BY <1>10
    <3> QED
        BY <1>10, <1>11, <3>1
  <2>2. ASSUME NEW k \in 1 .. n, k - 1 \in G PROVE k \in G
    <3>1. \A d \in Calls : CallSize(d) < k => f[d] = Parse[d]
        BY <1>10, <2>2
    <3> HIDE DEF G
    <3> QED
        BY <1>10, <1>11, <3>1
  <2> HIDE DEF G
  <2> QED
      BY <1>10, <2>1, <2>2, CountUp
<1>13. \A c \in Calls : f[c] = Parse[c]
  <2> HIDE DEF n
  <2>1. n \in G /\ \A c \in Calls : CallSize(c) <= n
      BY <1>10, <1>12
  <2> QED
      BY <2>1
<1>14. f = Parse
  <2>1. f = [c \in Calls |-> f[c]] /\ Parse = [c \in Calls |-> Parse[c]]
    <3>1. f = [c \in Calls |-> f[c]]
        BY DEF Tries
    <3>2. Parse = [c \in Calls |-> Parse[c]]
        BY <1>9
    <3> QED
        BY <3>1, <3>2
  <2> QED
      BY <1>13, <2>1
<1> QED
    BY <1>7, <1>14

\* The last of some positions is one of them, and none is after it.
LEMMA LastOfThem ==
    ASSUME NEW n \in Nat, NEW S \in SUBSET (1 .. n), S # {}
    PROVE  LastOne(S) \in S /\ \A l \in S : l <= LastOne(S)
<1> DEFINE behind == {n - k : k \in S}
<1>1. behind \subseteq Nat /\ behind # {}
  <2>1. \A k \in S : n - k \in Nat
      OBVIOUS
  <2>2. behind # {}
      OBVIOUS
  <2> QED
      BY <2>1, <2>2
<1>2. PICK x \in behind : \A y \in behind : ~(<<y, x>> \in OpToRel(<, Nat))
  <2> HIDE DEF behind
  <2> QED
    BY <1>1, NatLessThanWellFounded, WFMin, Zenon
<1>3. \A y \in behind : ~(y < x)
    BY <1>1, <1>2 DEF OpToRel
<1>4. PICK k \in S : x = n - k
    OBVIOUS
<1>5. \A l \in S : l <= k
  <2> SUFFICES ASSUME NEW l \in S PROVE l <= k
      OBVIOUS
  <2>1. n - l \in behind
      OBVIOUS
  <2>2. ~(n - l < n - k)
      BY <1>3, <1>4, <2>1
  <2> QED
      BY <2>2
<1>6. \E m \in S : \A l \in S : l <= m
    BY <1>5
<1> QED
    BY <1>6 DEF LastOne

LEMMA CountsOn ==
    ASSUME text \in Seq(Tokens), NEW token, NEW i \in 1 .. Len(text)
    PROVE  /\ Cardinality({k \in 1 .. i - 1 : text[k] = token}) \in Nat
           /\ Cardinality({k \in 1 .. i : text[k] = token})
              = Cardinality({k \in 1 .. i - 1 : text[k] = token}) + (IF text[i] = token THEN 1 ELSE 0)
<1> DEFINE before == {k \in 1 .. i - 1 : text[k] = token}
           upto == {k \in 1 .. i : text[k] = token}
<1>1. i \in Nat /\ i - 1 \in Nat
    OBVIOUS
<1>2. IsFiniteSet(before) /\ Cardinality(before) \in Nat
  <2>1. IsFiniteSet(1 .. i - 1)
      BY <1>1, FS_Interval
  <2>2. before \subseteq 1 .. i - 1
      OBVIOUS
  <2>3. IsFiniteSet(before)
      BY <2>1, <2>2, FS_Subset
  <2> QED
      BY <2>3, FS_CardinalityType
<1>3. i \notin before
    BY <1>1
<1>4. ASSUME text[i] = token PROVE Cardinality(upto) = Cardinality(before) + 1
  <2>1. upto = before \cup {i}
      BY <1>1, <1>4
  <2>2. Cardinality(before \cup {i}) = Cardinality(before) + 1
      BY <1>2, <1>3, FS_AddElement
  <2> QED
      BY <2>1, <2>2
<1>5. ASSUME text[i] # token PROVE Cardinality(upto) = Cardinality(before)
  <2>1. upto = before
      BY <1>1, <1>5
  <2> QED
      BY <2>1
<1>6. /\ Cardinality(before) \in Nat
      /\ Cardinality(upto) = Cardinality(before) + (IF text[i] = token THEN 1 ELSE 0)
  <2> HIDE DEF before, upto
  <2> QED
      BY <1>2, <1>4, <1>5
<1> QED
    BY <1>6

\* A parenthesis opens or closes one level, another token none.
LEMMA DepthsOn ==
    ASSUME text \in Seq(Tokens)
    PROVE  /\ \A i \in 0 .. Len(text) : Depth(i) \in Int
           /\ \A i \in 1 .. Len(text) :
                Depth(i) = IF text[i] = "(" THEN Depth(i - 1) + 1
                           ELSE IF text[i] = ")" THEN Depth(i - 1) - 1 ELSE Depth(i - 1)
<1> DEFINE n == Len(text)
           count(token, i) == Cardinality({k \in 1 .. i : text[k] = token})
<1>1. n \in Nat
    OBVIOUS
<1>2. ASSUME NEW i \in 1 .. n, NEW token
      PROVE  /\ count(token, i - 1) \in Nat
             /\ count(token, i) = count(token, i - 1) + (IF text[i] = token THEN 1 ELSE 0)
    BY CountsOn
<1>3. ASSUME NEW token PROVE count(token, 0) \in Nat
  <2>1. {k \in 1 .. 0 : text[k] = token} = {}
      OBVIOUS
  <2> QED
      BY <2>1, FS_EmptySet
<1>4. \A i \in 0 .. n : Depth(i) = count("(", i) - count(")", i)
    BY DEF Depth
<1> HIDE DEF count
<1>5. ASSUME NEW i \in 1 .. n
      PROVE  /\ Depth(i) \in Int
             /\ Depth(i) = IF text[i] = "(" THEN Depth(i - 1) + 1
                           ELSE IF text[i] = ")" THEN Depth(i - 1) - 1 ELSE Depth(i - 1)
  <2>1. i \in 0 .. n /\ i - 1 \in 0 .. n
      BY <1>1
  <2>2. /\ count("(", i - 1) \in Nat /\ count(")", i - 1) \in Nat
        /\ count("(", i) = count("(", i - 1) + (IF text[i] = "(" THEN 1 ELSE 0)
        /\ count(")", i) = count(")", i - 1) + (IF text[i] = ")" THEN 1 ELSE 0)
      BY <1>2
  <2> QED
      BY <1>4, <2>1, <2>2
<1>6. Depth(0) \in Int
    BY <1>1, <1>3, <1>4
<1> QED
    BY <1>1, <1>5, <1>6

\* Where the outermost operators of a segment are.
LEMMA Outside ==
    ASSUME text \in Seq(Tokens), NEW op, NEW i \in 1 .. Len(text) + 1, NEW j \in 0 .. Len(text),
           Outermost(op, i, j) # {}
    PROVE  /\ LastOne(Outermost(op, i, j)) \in Outermost(op, i, j)
           /\ LastOne(Outermost(op, i, j)) \in i .. j
           /\ \A l \in Outermost(op, i, j) : l <= LastOne(Outermost(op, i, j))
<1>1. Len(text) \in Nat
    OBVIOUS
<1>2. Outermost(op, i, j) \subseteq i .. j
    BY DEF Outermost
<1>3. Outermost(op, i, j) \subseteq 1 .. Len(text)
    BY <1>1, <1>2
<1> HIDE DEF Outermost
<1>4. /\ LastOne(Outermost(op, i, j)) \in Outermost(op, i, j)
      /\ \A l \in Outermost(op, i, j) : l <= LastOne(Outermost(op, i, j))
    BY <1>1, <1>3, LastOfThem
<1> QED
    BY <1>2, <1>4

MeaningMaps == [Segments -> Truths \cup {Rejected}]
SegmentSize(s) == IF s[1] > s[2] THEN 0 ELSE s[2] - s[1] + 1

LEMMA SegmentsRead ==
    ASSUME text \in Seq(Tokens), NEW f \in MeaningMaps, NEW i \in 1 .. Len(text) + 1, NEW j \in 0 .. Len(text)
    PROVE  Read(f, i, j) \in Truths \cup {Rejected}
<1>1. ASSUME NEW op, Outermost(op, i, j) # {} PROVE Split(f, op, i, j) \in Truths \cup {Rejected}
    BY TruthOfBoth DEF Split
<1>2. ASSUME i < j PROVE f[<<i + 1, j - 1>>] \in Truths \cup {Rejected}
  <2>1. <<i + 1, j - 1>> \in Segments
      BY <1>2 DEF Segments
  <2> QED
      BY <2>1 DEF MeaningMaps
<1> QED
    BY <1>1, <1>2 DEF Read

\* The meaning of a segment is made of those of smaller ones.
LEMMA SegmentsLookInside ==
    ASSUME text \in Seq(Tokens), NEW f, NEW g, NEW i \in 1 .. Len(text) + 1, NEW j \in 0 .. Len(text),
           \A s \in Segments : SegmentSize(s) < SegmentSize(<<i, j>>) => f[s] = g[s]
    PROVE  Read(f, i, j) = Read(g, i, j)
<1>1. Len(text) \in Nat
    OBVIOUS
<1>2. CASE i > j
    BY <1>2 DEF Read
<1>3. CASE i <= j
  <2>1. SegmentSize(<<i, j>>) = j - i + 1
      BY <1>3 DEF SegmentSize
  <2>2. ASSUME NEW op, Outermost(op, i, j) # {} PROVE Split(f, op, i, j) = Split(g, op, i, j)
    <3> DEFINE k == LastOne(Outermost(op, i, j))
    <3>1. k \in i .. j
        BY <2>2, Outside
    <3> HIDE DEF k
    <3>2. <<i, k - 1>> \in Segments /\ <<k + 1, j>> \in Segments
        BY <1>1, <3>1 DEF Segments
    <3>3. SegmentSize(<<i, k - 1>>) < j - i + 1 /\ SegmentSize(<<k + 1, j>>) < j - i + 1
        BY <1>1, <3>1 DEF SegmentSize
    <3>4. f[<<i, k - 1>>] = g[<<i, k - 1>>] /\ f[<<k + 1, j>>] = g[<<k + 1, j>>]
        BY <2>1, <3>2, <3>3
    <3> QED
        BY <3>4 DEF Split, k
  <2>3. ASSUME i < j PROVE f[<<i + 1, j - 1>>] = g[<<i + 1, j - 1>>]
    <3>1. <<i + 1, j - 1>> \in Segments /\ SegmentSize(<<i + 1, j - 1>>) < j - i + 1
        BY <1>1, <2>3 DEF Segments, SegmentSize
    <3> QED
        BY <2>1, <3>1
  <2> QED
      BY <2>2, <2>3 DEF Read
<1> QED
    BY <1>2, <1>3

\* Every segment has a meaning.
LEMMA Meanings ==
    ASSUME text \in Seq(Tokens)
    PROVE  \A i \in 1 .. Len(text) + 1 : \A j \in 0 .. Len(text) :
              /\ Meaning[<<i, j>>] \in Truths \cup {Rejected}
              /\ Meaning[<<i, j>>] = Read(Meaning, i, j)
<1> DEFINE body == [f \in MeaningMaps |-> [s \in Segments |-> Read(f, s[1], s[2])]]
           size == [s \in Segments |-> SegmentSize(s)]
           base == [s \in Segments |-> Rejected]
<1>1. Len(text) \in Nat /\ \A s \in Segments : s = <<s[1], s[2]>> /\ s[1] \in 1 .. Len(text) + 1 /\ s[2] \in 0 .. Len(text)
    BY DEF Segments
<1>2. \A s \in Segments : SegmentSize(s) \in 0 .. Len(text)
    BY <1>1 DEF SegmentSize
<1>3. size \in [Segments -> 0 .. Len(text)]
    BY <1>2
<1>4. base \in MeaningMaps
    BY DEF MeaningMaps
<1>5. body \in [MeaningMaps -> MeaningMaps]
  <2> SUFFICES ASSUME NEW f \in MeaningMaps PROVE [s \in Segments |-> Read(f, s[1], s[2])] \in MeaningMaps
      OBVIOUS
  <2> QED
      BY <1>1, SegmentsRead DEF MeaningMaps
<1>6. ASSUME NEW f, NEW g, NEW s \in Segments, \A d \in Segments : SegmentSize(d) < SegmentSize(s) => f[d] = g[d]
      PROVE  Read(f, s[1], s[2]) = Read(g, s[1], s[2])
  <2>1. PICK i \in 1 .. Len(text) + 1 : i = s[1]
      BY <1>1
  <2>2. PICK j \in 0 .. Len(text) : j = s[2]
      BY <1>1
  <2>3. s = <<i, j>>
      BY <1>1, <2>1, <2>2
  <2> QED
      BY <1>6, <2>1, <2>2, <2>3, SegmentsLookInside
<1>7. ASSUME NEW f \in MeaningMaps, NEW g \in MeaningMaps, NEW s \in Segments, \A d \in Segments : size[d] < size[s] => f[d] = g[d]
      PROVE  body[f][s] = body[g][s]
  <2>1. \A d \in Segments : SegmentSize(d) < SegmentSize(s) => f[d] = g[d]
      BY <1>7
  <2>2. Read(f, s[1], s[2]) = Read(g, s[1], s[2])
      BY <1>6, <2>1
  <2> QED
      BY <2>2
<1>8. MeaningMaps \subseteq [Segments -> Truths \cup {Rejected}]
    BY DEF MeaningMaps
<1>9. HasFixpoint(body, MeaningMaps)
  <2> HIDE DEF body, size, base
  <2>1. LooksBack(body, MeaningMaps, Segments, Truths \cup {Rejected}, size)
      BY <1>4, <1>5, <1>7, <1>8 DEF LooksBack
  <2> QED
      BY <1>1, <1>3, <2>1, Recursion
<1>10. PICK f \in MeaningMaps : f = [s \in Segments |-> Read(f, s[1], s[2])]
    BY <1>9 DEF HasFixpoint
<1>11. Meaning = CHOOSE m : m = [s \in Segments |-> Read(m, s[1], s[2])]
    BY DEF Meaning
<1>12. Meaning = [s \in Segments |-> Read(Meaning, s[1], s[2])]
    BY <1>10, <1>11
<1> HIDE DEF body, size, base
<1> DEFINE n == Len(text)
           G == {k \in 0 .. n : \A s \in Segments : SegmentSize(s) <= k => f[s] = Meaning[s]}
<1>13. ASSUME NEW k \in 0 .. n, \A d \in Segments : SegmentSize(d) < k => f[d] = Meaning[d]
       PROVE  k \in G
  <2> SUFFICES ASSUME NEW s \in Segments, SegmentSize(s) <= k PROVE f[s] = Meaning[s]
      OBVIOUS
  <2>1. \A d \in Segments : SegmentSize(d) < SegmentSize(s) => f[d] = Meaning[d]
      BY <1>2, <1>13
  <2>2. Read(f, s[1], s[2]) = Read(Meaning, s[1], s[2])
      BY <1>6, <2>1
  <2>3. f[s] = Read(f, s[1], s[2])
      BY <1>10
  <2>4. Meaning[s] = Read(Meaning, s[1], s[2])
      BY <1>12
  <2> QED
      BY <2>2, <2>3, <2>4
<1>14. n \in G
  <2>1. 0 \in G
    <3> HIDE DEF G
    <3>1. \A d \in Segments : ~(SegmentSize(d) < 0)
        BY <1>2
    <3> QED
        BY <1>1, <1>13, <3>1
  <2>2. ASSUME NEW k \in 1 .. n, k - 1 \in G PROVE k \in G
    <3>1. \A d \in Segments : SegmentSize(d) < k => f[d] = Meaning[d]
        BY <1>2, <2>2
    <3> HIDE DEF G
    <3> QED
        BY <1>1, <1>13, <3>1
  <2> HIDE DEF G
  <2>3. \A k \in 0 .. n : k \in G
      BY <1>1, <2>1, <2>2, CountUp
  <2> QED
      BY <1>1, <2>3
<1>15. \A s \in Segments : f[s] = Meaning[s]
    BY <1>1, <1>2, <1>14
<1> QED
  <2> SUFFICES ASSUME NEW i \in 1 .. Len(text) + 1, NEW j \in 0 .. Len(text)
               PROVE  /\ Meaning[<<i, j>>] \in Truths \cup {Rejected}
                      /\ Meaning[<<i, j>>] = Read(Meaning, i, j)
      OBVIOUS
  <2>1. <<i, j>> \in Segments
      BY DEF Segments
  <2>2. f[<<i, j>>] \in Truths \cup {Rejected}
      BY <2>1 DEF MeaningMaps
  <2>3. Meaning[<<i, j>>] = Read(Meaning, i, j)
      BY <1>12, <2>1
  <2> QED
      BY <1>15, <2>1, <2>2, <2>3

\* An operator outside of parentheses parts what is outside before and after it.
LEMMA OutsideParts ==
    ASSUME text \in Seq(Tokens), NEW op, NEW i \in 1 .. Len(text), NEW j \in i .. Len(text), NEW k \in i .. j,
           Depth(k) = Depth(i - 1), \A l \in i .. k : Depth(l) >= Depth(i - 1)
    PROVE  /\ \A m \in i .. j : m < k => (m \in Outermost(op, i, j) <=> m \in Outermost(op, i, k - 1))
           /\ \A m \in i .. j : m > k => (m \in Outermost(op, i, j) <=> m \in Outermost(op, k + 1, j))
<1>1. Len(text) \in Nat /\ \A l \in 0 .. Len(text) : Depth(l) \in Int
    BY DepthsOn
<1>2. ASSUME NEW m \in i .. j, m < k
      PROVE  m \in Outermost(op, i, j) <=> m \in Outermost(op, i, k - 1)
    BY <1>1, <1>2 DEF Outermost
<1>3. ASSUME NEW m \in i .. j, m > k
      PROVE  m \in Outermost(op, i, j) <=> m \in Outermost(op, k + 1, j)
  <2>1. m \in k + 1 .. j /\ Depth(k + 1 - 1) = Depth(i - 1)
      BY <1>1, <1>3
  <2>2. (\A l \in i .. m : Depth(l) >= Depth(i - 1)) <=> (\A l \in k + 1 .. m : Depth(l) >= Depth(i - 1))
    <3>1. ASSUME \A l \in k + 1 .. m : Depth(l) >= Depth(i - 1), NEW l \in i .. m
          PROVE  Depth(l) >= Depth(i - 1)
      <4>1. l \in i .. k \/ l \in k + 1 .. m
          BY <1>1
      <4> QED
          BY <3>1, <4>1
    <3>2. k + 1 .. m \subseteq i .. m
        BY <1>1
    <3> QED
        BY <3>1, <3>2
  <2> QED
      BY <2>1, <2>2 DEF Outermost
<1> QED
    BY <1>2, <1>3

\* A condition of its own, in parentheses or not.
Whole(i, j) ==
    /\ i <= j /\ Meaning[<<i, j>>] # Rejected
    /\ Depth(j) = Depth(i - 1) /\ \A l \in i .. j : Depth(l) >= Depth(i - 1)

LEMMA OneToken ==
    ASSUME text \in Seq(Tokens), NEW i \in 1 .. Len(text), text[i] \in Truths
    PROVE  Whole(i, i) /\ Outermost("or", i, i) = {} /\ Outermost("and", i, i) = {}
<1>1. text[i] \notin {"or", "and", "(", ")"} /\ text[i] # Rejected
    BY DEF Truths, Rejected
<1>2. Outermost("or", i, i) = {} /\ Outermost("and", i, i) = {}
    BY <1>1 DEF Outermost
<1>3. Depth(i) = Depth(i - 1) /\ Depth(i) \in Int /\ Len(text) \in Nat
    BY <1>1, DepthsOn
<1>4. Meaning[<<i, i>>] = Read(Meaning, i, i)
    BY <1>3, Meanings
<1>5. ~(i > i) /\ ~(i < i)
    OBVIOUS
<1>6. Read(Meaning, i, i) = text[i]
    BY <1>2, <1>5 DEF Read
<1>7. \A l \in i .. i : Depth(l) >= Depth(i - 1)
    BY <1>3
<1> QED
    BY <1>1, <1>2, <1>3, <1>4, <1>6, <1>7 DEF Whole

LEMMA Bracketed ==
    ASSUME text \in Seq(Tokens), NEW i \in 1 .. Len(text), NEW j \in i + 1 .. Len(text),
           text[i] = "(", text[j] = ")", Whole(i + 1, j - 1)
    PROVE  Whole(i, j) /\ Outermost("or", i, j) = {} /\ Outermost("and", i, j) = {}
<1>1. Len(text) \in Nat /\ \A l \in 0 .. Len(text) : Depth(l) \in Int
    BY DepthsOn
<1>2. /\ Depth(i) = Depth(i - 1) + 1 /\ i + 1 <= j - 1 /\ Depth(j - 1) = Depth(i)
      /\ \A l \in i + 1 .. j - 1 : Depth(l) >= Depth(i)
  <2>1. Depth(i) = Depth(i - 1) + 1
      BY DepthsOn
  <2>2. i + 1 - 1 = i
      OBVIOUS
  <2>3. /\ i + 1 <= j - 1 /\ Depth(j - 1) = Depth(i + 1 - 1)
        /\ \A l \in i + 1 .. j - 1 : Depth(l) >= Depth(i + 1 - 1)
      BY DEF Whole
  <2> QED
      BY <2>1, <2>2, <2>3
<1>3. Depth(j) = Depth(j - 1) - 1
  <2>1. j \in 1 .. Len(text) /\ text[j] # "("
      BY <1>1
  <2> QED
      BY <2>1, DepthsOn
<1>4. Depth(j) = Depth(i - 1)
    BY <1>1, <1>2, <1>3
<1>5. ASSUME NEW l \in i .. j - 1 PROVE Depth(l) > Depth(i - 1) /\ Depth(l) >= Depth(i - 1)
  <2>1. l = i \/ l \in i + 1 .. j - 1
      BY <1>1
  <2>2. Depth(l) >= Depth(i)
      BY <1>1, <1>2, <2>1
  <2>3. l \in 0 .. Len(text) /\ i - 1 \in 0 .. Len(text)
      BY <1>1
  <2>4. Depth(l) \in Int /\ Depth(i - 1) \in Int
      BY <1>1, <2>3
  <2> QED
      BY <1>2, <2>2, <2>4
<1>6. \A l \in i .. j : Depth(l) >= Depth(i - 1)
  <2> SUFFICES ASSUME NEW l \in i .. j PROVE Depth(l) >= Depth(i - 1)
      OBVIOUS
  <2>1. l = j \/ l \in i .. j - 1
      BY <1>1
  <2> QED
      BY <1>1, <1>4, <1>5, <2>1
<1>7. ASSUME NEW op \in {"or", "and"} PROVE Outermost(op, i, j) = {}
  <2> SUFFICES ASSUME NEW m \in i .. j, text[m] = op, Depth(m) = Depth(i - 1) PROVE FALSE
      BY DEF Outermost
  <2>1. m # j
      BY <1>7
  <2>2. m \in i .. j - 1
      BY <1>1, <2>1
  <2>3. Depth(m) > Depth(i - 1)
      BY <1>5, <2>2
  <2>4. i - 1 \in 0 .. Len(text)
      BY <1>1
  <2>5. Depth(i - 1) \in Int
      BY <1>1, <2>4
  <2> QED
      BY <2>3, <2>5
<1>8. Meaning[<<i, j>>] = Read(Meaning, i, j)
    BY <1>1, Meanings
<1>9. ~(i > j) /\ i < j
    BY <1>1
<1>10. Read(Meaning, i, j) = Meaning[<<i + 1, j - 1>>]
    BY <1>7, <1>9 DEF Read
<1> QED
    BY <1>4, <1>6, <1>7, <1>8, <1>9, <1>10 DEF Whole

\* Two conditions with an operator between them are one.
LEMMA JoinedConditions ==
    ASSUME text \in Seq(Tokens), NEW i \in 1 .. Len(text), NEW p \in i .. Len(text), NEW j \in p .. Len(text),
           NEW op \in {"or", "and"}, text[p] = op, Whole(i, p - 1), Whole(p + 1, j),
           Outermost(op, p + 1, j) = {},
           op = "and" => Outermost("or", i, p - 1) = {} /\ Outermost("or", p + 1, j) = {}
    PROVE  Whole(i, j) /\ (op = "and" => Outermost("or", i, j) = {})
<1>1. Len(text) \in Nat /\ \A l \in 0 .. Len(text) : Depth(l) \in Int
    BY DepthsOn
<1>2. /\ Depth(p - 1) = Depth(i - 1) /\ \A l \in i .. p - 1 : Depth(l) >= Depth(i - 1)
      /\ Depth(j) = Depth(p) /\ \A l \in p + 1 .. j : Depth(l) >= Depth(p)
      /\ i <= p - 1 /\ p + 1 <= j
      /\ Meaning[<<i, p - 1>>] # Rejected /\ Meaning[<<p + 1, j>>] # Rejected
  <2>1. p + 1 - 1 = p
      BY <1>1
  <2>2. /\ Depth(j) = Depth(p + 1 - 1) /\ \A l \in p + 1 .. j : Depth(l) >= Depth(p + 1 - 1)
        /\ p + 1 <= j /\ Meaning[<<p + 1, j>>] # Rejected
      BY DEF Whole
  <2>3. /\ Depth(p - 1) = Depth(i - 1) /\ \A l \in i .. p - 1 : Depth(l) >= Depth(i - 1)
        /\ i <= p - 1 /\ Meaning[<<i, p - 1>>] # Rejected
      BY DEF Whole
  <2> QED
      BY <2>1, <2>2, <2>3
<1>3. Depth(p) = Depth(i - 1)
  <2>1. p \in 1 .. Len(text) /\ text[p] # "(" /\ text[p] # ")"
      BY <1>1
  <2>2. Depth(p) = Depth(p - 1)
      BY <2>1, DepthsOn
  <2> QED
      BY <1>2, <2>2
<1>4. \A l \in i .. p : Depth(l) >= Depth(i - 1)
  <2> SUFFICES ASSUME NEW l \in i .. p PROVE Depth(l) >= Depth(i - 1)
      OBVIOUS
  <2>1. l = p \/ l \in i .. p - 1
      BY <1>1
  <2> QED
      BY <1>1, <1>2, <1>3, <2>1
<1>5. \A l \in i .. j : Depth(l) >= Depth(i - 1)
  <2> SUFFICES ASSUME NEW l \in i .. j PROVE Depth(l) >= Depth(i - 1)
      OBVIOUS
  <2>1. l \in i .. p \/ l \in p + 1 .. j
      BY <1>1
  <2> QED
      BY <1>2, <1>3, <1>4, <2>1
<1>6. i \in 1 .. Len(text) /\ j \in i .. Len(text) /\ p \in i .. j
    BY <1>1
<1>7. \A o : /\ \A m \in i .. j : m < p => (m \in Outermost(o, i, j) <=> m \in Outermost(o, i, p - 1))
             /\ \A m \in i .. j : m > p => (m \in Outermost(o, i, j) <=> m \in Outermost(o, p + 1, j))
    BY <1>3, <1>4, <1>6, OutsideParts
<1>8. p \in Outermost(op, i, j)
    BY <1>3, <1>4, <1>6 DEF Outermost
<1>9. \A o : Outermost(o, i, j) \subseteq i .. j
    BY DEF Outermost
<1>10. LastOne(Outermost(op, i, j)) = p
  <2> DEFINE k == LastOne(Outermost(op, i, j))
  <2>1. k \in Outermost(op, i, j) /\ k \in i .. j /\ \A l \in Outermost(op, i, j) : l <= k
      BY <1>6, <1>8, Outside
  <2> HIDE DEF k
  <2>2. ~(k > p)
      BY <1>7, <2>1
  <2>3. k >= p
      BY <1>8, <2>1
  <2>4. k = p
      BY <1>1, <2>1, <2>2, <2>3
  <2> QED
      BY <2>4 DEF k
<1>11. Meaning[<<i, j>>] = Read(Meaning, i, j) /\ ~(i > j)
  <2>1. i \in 1 .. Len(text) + 1 /\ j \in 0 .. Len(text) /\ ~(i > j)
      BY <1>1, <1>6
  <2> QED
      BY <2>1, Meanings
<1>12. Split(Meaning, op, i, j) \in Truths
    BY <1>2, <1>10, TruthOfBoth DEF Split
<1>13. ASSUME op = "and" PROVE Outermost("or", i, j) = {}
  <2> SUFFICES ASSUME NEW m \in Outermost("or", i, j) PROVE FALSE
      OBVIOUS
  <2>1. m \in i .. j /\ text[m] = "or"
      BY DEF Outermost
  <2>2. m # p
      BY <1>13, <2>1
  <2>3. m < p \/ m > p
      BY <1>1, <2>1, <2>2
  <2> QED
      BY <1>7, <1>13, <2>1, <2>3
<1>14. Read(Meaning, i, j) = Split(Meaning, op, i, j)
  <2>1. CASE op = "or"
      BY <1>8, <1>11, <2>1 DEF Read
  <2>2. CASE op = "and"
      BY <1>8, <1>11, <1>13, <2>2 DEF Read
  <2> QED
      BY <2>1, <2>2
<1>15. Meaning[<<i, j>>] # Rejected
    BY <1>11, <1>12, <1>14 DEF Truths, Rejected
<1> QED
    BY <1>2, <1>3, <1>5, <1>11, <1>13, <1>15 DEF Whole

\* What the parser makes of its calls.
LEMMA ParserSteps ==
    ASSUME text \in Seq(Tokens)
    PROVE  /\ \A i \in 1 .. Len(text) + 1 :
                /\ Parse[At("OrExpr", i)] = Parse[Call("OrRest", Parse[At("AndExpr", i)])]
                /\ Parse[At("AndExpr", i)] = Parse[Call("AndRest", Parse[At("Term", i)])]
                /\ Parse[At("Term", i)] = Term(Parse, i)
           /\ \A left \in Readings :
                /\ Parse[Call("OrRest", left)] = OrRest(Parse, left)
                /\ Parse[Call("AndRest", left)] = AndRest(Parse, left)
<1>1. \A c \in Calls : Parse[c] = Rule(Parse, c)
    BY Parses
<1>2. ASSUME NEW i \in 1 .. Len(text) + 1
      PROVE  /\ Parse[At("OrExpr", i)] = OrExpr(Parse, i)
             /\ Parse[At("AndExpr", i)] = AndExpr(Parse, i)
             /\ Parse[At("Term", i)] = Term(Parse, i)
  <2>1. \A rule \in Expressions : At(rule, i) \in Calls /\ At(rule, i).rule = rule /\ At(rule, i).left.next = i
      BY ExpressionCalls
  <2>2. Rule(Parse, At("OrExpr", i)) = OrExpr(Parse, i)
    <3>1. At("OrExpr", i).rule = "OrExpr" /\ At("OrExpr", i).left.next = i
        BY <2>1 DEF Expressions
    <3> QED
        BY <3>1 DEF Rule
  <2>3. Rule(Parse, At("AndExpr", i)) = AndExpr(Parse, i)
    <3>1. At("AndExpr", i).rule = "AndExpr" /\ At("AndExpr", i).left.next = i
        BY <2>1 DEF Expressions
    <3> QED
        BY <3>1 DEF Rule
  <2>4. Rule(Parse, At("Term", i)) = Term(Parse, i)
    <3>1. At("Term", i).rule = "Term" /\ At("Term", i).left.next = i
        BY <2>1 DEF Expressions
    <3> QED
        BY <3>1 DEF Rule
  <2> QED
      BY <1>1, <2>1, <2>2, <2>3, <2>4 DEF Expressions
<1>3. ASSUME NEW left \in Readings
      PROVE  /\ Parse[Call("OrRest", left)] = OrRest(Parse, left)
             /\ Parse[Call("AndRest", left)] = AndRest(Parse, left)
  <2>1. \A rule \in Rests : Call(rule, left) \in Calls /\ Call(rule, left).rule = rule /\ Call(rule, left).left = left
      BY RestCalls
  <2>2. Rule(Parse, Call("OrRest", left)) = OrRest(Parse, left)
    <3>1. Call("OrRest", left).rule = "OrRest" /\ Call("OrRest", left).left = left
        BY <2>1 DEF Rests
    <3> QED
        BY <3>1 DEF Rule
  <2>3. Rule(Parse, Call("AndRest", left)) = AndRest(Parse, left)
    <3>1. Call("AndRest", left).rule = "AndRest" /\ Call("AndRest", left).left = left
        BY <2>1 DEF Rests
    <3> QED
        BY <3>1 DEF Rule
  <2> QED
      BY <1>1, <2>1, <2>2, <2>3 DEF Rests
<1> QED
    BY <1>2, <1>3 DEF OrExpr, AndExpr

\* An operator that follows is read on from, another token is not.
LEMMA RestSteps ==
    ASSUME text \in Seq(Tokens), NEW left \in Readings
    PROVE  /\ left.value = Rejected \/ Peek(left.next) # "or" => Parse[Call("OrRest", left)] = left
           /\ left.value = Rejected \/ Peek(left.next) # "and" => Parse[Call("AndRest", left)] = left
           /\ left.value # Rejected /\ Peek(left.next) = "or"
              => Parse[Call("OrRest", left)] =
                   IF Parse[At("AndExpr", left.next + 1)].value = Rejected
                   THEN Parse[At("AndExpr", left.next + 1)]
                   ELSE Parse[Call("OrRest", Parsed(SqlOr(left.value, Parse[At("AndExpr", left.next + 1)].value),
                                                    Parse[At("AndExpr", left.next + 1)].next))]
           /\ left.value # Rejected /\ Peek(left.next) = "and"
              => Parse[Call("AndRest", left)] =
                   IF Parse[At("Term", left.next + 1)].value = Rejected
                   THEN Parse[At("Term", left.next + 1)]
                   ELSE Parse[Call("AndRest", Parsed(SqlAnd(left.value, Parse[At("Term", left.next + 1)].value),
                                                     Parse[At("Term", left.next + 1)].next))]
<1>1. Parse[Call("OrRest", left)] = OrRest(Parse, left) /\ Parse[Call("AndRest", left)] = AndRest(Parse, left)
    BY ParserSteps
<1> QED
    BY <1>1 DEF OrRest, AndRest

\* What means something is read, and read as what it means.
Understood(i, j) ==
    Meaning[<<i, j>>] # Rejected =>
        /\ Outermost("or", i, j) = {} /\ Outermost("and", i, j) = {}
           => Parse[At("Term", i)] = Parsed(Meaning[<<i, j>>], j + 1)
        /\ Outermost("or", i, j) = {}
           => Parse[At("AndExpr", i)] = Parse[Call("AndRest", Parsed(Meaning[<<i, j>>], j + 1))]
        /\ Peek(j + 1) # "and"
           => Parse[At("OrExpr", i)] = Parse[Call("OrRest", Parsed(Meaning[<<i, j>>], j + 1))]

LEMMA SegmentFacts ==
    ASSUME text \in Seq(Tokens), NEW i \in 1 .. Len(text), NEW j \in i .. Len(text)
    PROVE  /\ Len(text) \in Nat /\ i \in 1 .. Len(text) + 1 /\ j \in 1 .. Len(text) /\ j + 1 \in 1 .. Len(text) + 1
           /\ Meaning[<<i, j>>] \in Truths \cup {Rejected} /\ Meaning[<<i, j>>] = Read(Meaning, i, j)
           /\ \A v \in Truths : /\ Parsed(v, j + 1) \in Readings /\ Parsed(v, j + 1).value = v
                                /\ Parsed(v, j + 1).next = j + 1 /\ v # Rejected
<1>1. Len(text) \in Nat /\ i \in 1 .. Len(text) + 1 /\ j \in 1 .. Len(text) /\ j + 1 \in 1 .. Len(text) + 1 /\ j \in 0 .. Len(text)
    OBVIOUS
<1>2. Meaning[<<i, j>>] \in Truths \cup {Rejected} /\ Meaning[<<i, j>>] = Read(Meaning, i, j)
    BY <1>1, Meanings
<1>3. \A v \in Truths : /\ Parsed(v, j + 1) \in Readings /\ Parsed(v, j + 1).value = v
                        /\ Parsed(v, j + 1).next = j + 1
    BY <1>1, ParsedFields
<1>4. \A v \in Truths : v # Rejected
    BY DEF Truths, Rejected
<1> QED
    BY <1>1, <1>2, <1>3, <1>4

\* A segment that an operator parts means what its parts mean together.
LEMMA PartsOf ==
    ASSUME text \in Seq(Tokens), NEW i \in 1 .. Len(text), NEW j \in i .. Len(text), NEW op \in {"or", "and"},
           Meaning[<<i, j>>] # Rejected, Outermost(op, i, j) # {}, op = "and" => Outermost("or", i, j) = {}
    PROVE  \E k \in i + 1 .. j - 1 :
              /\ text[k] = op
              /\ Meaning[<<i, k - 1>>] # Rejected /\ Meaning[<<k + 1, j>>] # Rejected
              /\ Meaning[<<i, j>>] = IF op = "or" THEN SqlOr(Meaning[<<i, k - 1>>], Meaning[<<k + 1, j>>])
                                     ELSE SqlAnd(Meaning[<<i, k - 1>>], Meaning[<<k + 1, j>>])
              /\ Outermost(op, k + 1, j) = {}
              /\ op = "and" => Outermost("or", i, k - 1) = {} /\ Outermost("or", k + 1, j) = {}
<1> DEFINE k == LastOne(Outermost(op, i, j))
<1>1. Len(text) \in Nat /\ Meaning[<<i, j>>] = Read(Meaning, i, j) /\ ~(i > j)
    BY SegmentFacts
<1>2. k \in Outermost(op, i, j) /\ k \in i .. j /\ \A l \in Outermost(op, i, j) : l <= k
  <2>1. i \in 1 .. Len(text) + 1 /\ j \in 0 .. Len(text)
      BY <1>1
  <2> QED
      BY <2>1, Outside
<1>3. Read(Meaning, i, j) = Split(Meaning, op, i, j)
  <2>1. CASE op = "or"
      BY <1>1, <2>1 DEF Read
  <2>2. CASE op = "and"
      BY <1>1, <2>2 DEF Read
  <2> QED
      BY <2>1, <2>2
<1>4. /\ Meaning[<<i, k - 1>>] # Rejected /\ Meaning[<<k + 1, j>>] # Rejected
      /\ Meaning[<<i, j>>] = IF op = "or" THEN SqlOr(Meaning[<<i, k - 1>>], Meaning[<<k + 1, j>>])
                             ELSE SqlAnd(Meaning[<<i, k - 1>>], Meaning[<<k + 1, j>>])
    BY <1>1, <1>3 DEF Split
<1> HIDE DEF k
<1>5. k - 1 \in 0 .. Len(text) /\ k + 1 \in 1 .. Len(text) + 1
    BY <1>1, <1>2
<1>6. k > i /\ k < j
  <2>1. Meaning[<<i, k - 1>>] = Read(Meaning, i, k - 1) /\ Meaning[<<k + 1, j>>] = Read(Meaning, k + 1, j)
    <3>1. i \in 1 .. Len(text) + 1 /\ j \in 0 .. Len(text)
        BY <1>1
    <3> QED
        BY <1>5, <3>1, Meanings
  <2>2. ~(i > k - 1) /\ ~(k + 1 > j)
      BY <1>4, <2>1 DEF Read
  <2> QED
      BY <1>1, <1>2, <2>2
<1>7. text[k] = op /\ Depth(k) = Depth(i - 1) /\ \A l \in i .. k : Depth(l) >= Depth(i - 1)
    BY <1>2 DEF Outermost
<1>8. \A o : /\ \A m \in i .. j : m < k => (m \in Outermost(o, i, j) <=> m \in Outermost(o, i, k - 1))
             /\ \A m \in i .. j : m > k => (m \in Outermost(o, i, j) <=> m \in Outermost(o, k + 1, j))
    BY <1>2, <1>7, OutsideParts
<1>9. Outermost(op, k + 1, j) = {}
  <2> SUFFICES ASSUME NEW m \in Outermost(op, k + 1, j) PROVE FALSE
      OBVIOUS
  <2>1. m \in k + 1 .. j
      BY DEF Outermost
  <2>2. m \in i .. j /\ m > k
      BY <1>1, <1>2, <2>1
  <2>3. m <= k
      BY <1>2, <1>8, <2>2
  <2> QED
      BY <1>2, <2>2, <2>3
<1>10. ASSUME op = "and" PROVE Outermost("or", i, k - 1) = {} /\ Outermost("or", k + 1, j) = {}
  <2>1. Outermost("or", i, j) = {}
      BY <1>10
  <2>2. ASSUME NEW m \in Outermost("or", i, k - 1) PROVE FALSE
    <3>1. m \in i .. k - 1
        BY DEF Outermost
    <3>2. m \in i .. j /\ m < k
        BY <1>1, <1>2, <3>1
    <3> QED
        BY <1>8, <2>1, <3>2
  <2>3. ASSUME NEW m \in Outermost("or", k + 1, j) PROVE FALSE
    <3>1. m \in k + 1 .. j
        BY DEF Outermost
    <3>2. m \in i .. j /\ m > k
        BY <1>1, <1>2, <3>1
    <3> QED
        BY <1>8, <2>1, <3>2
  <2> QED
      BY <2>2, <2>3
<1>11. k \in i + 1 .. j - 1
    BY <1>1, <1>2, <1>6
<1> QED
    BY <1>4, <1>7, <1>9, <1>10, <1>11

LEMMA UnderstoodByParts ==
    ASSUME text \in Seq(Tokens), NEW i \in 1 .. Len(text), NEW j \in i .. Len(text),
           \A a \in 1 .. Len(text) : \A b \in a .. Len(text) : b - a < j - i => Understood(a, b)
    PROVE  Understood(i, j)
<1> DEFINE v == Meaning[<<i, j>>]
           read == Parsed(v, j + 1)
<1> SUFFICES ASSUME v # Rejected
             PROVE  /\ Outermost("or", i, j) = {} /\ Outermost("and", i, j) = {}
                       => Parse[At("Term", i)] = read
                    /\ Outermost("or", i, j) = {} => Parse[At("AndExpr", i)] = Parse[Call("AndRest", read)]
                    /\ Peek(j + 1) # "and" => Parse[At("OrExpr", i)] = Parse[Call("OrRest", read)]
    BY DEF Understood
<1>1. Len(text) \in Nat /\ i \in 1 .. Len(text) + 1 /\ j + 1 \in 1 .. Len(text) + 1 /\ v \in Truths /\ v = Read(Meaning, i, j)
    BY SegmentFacts
<1>2. read \in Readings /\ read.value = v /\ read.next = j + 1
    BY <1>1, SegmentFacts
<1>3. /\ Parse[At("OrExpr", i)] = Parse[Call("OrRest", Parse[At("AndExpr", i)])]
      /\ Parse[At("AndExpr", i)] = Parse[Call("AndRest", Parse[At("Term", i)])]
    BY <1>1, ParserSteps
<1>4. Peek(j + 1) # "and" => Parse[Call("AndRest", read)] = read
  <2> HIDE DEF read
  <2> QED
      BY <1>2, RestSteps
<1>5. CASE Outermost("or", i, j) # {}
  <2>1. PICK k \in i + 1 .. j - 1 :
              /\ text[k] = "or"
              /\ Meaning[<<i, k - 1>>] # Rejected /\ Meaning[<<k + 1, j>>] # Rejected
              /\ v = SqlOr(Meaning[<<i, k - 1>>], Meaning[<<k + 1, j>>])
              /\ Outermost("or", k + 1, j) = {}
      BY <1>5, PartsOf
  <2> DEFINE l == Meaning[<<i, k - 1>>]
             r == Meaning[<<k + 1, j>>]
             before == Parsed(l, k - 1 + 1)
             after == Parsed(r, j + 1)
  <2>2. /\ k - 1 \in i .. Len(text) /\ k + 1 \in 1 .. Len(text) /\ j \in k + 1 .. Len(text)
        /\ k - 1 - i < j - i /\ j - (k + 1) < j - i /\ k - 1 + 1 = k /\ k \in 1 .. Len(text)
      BY <1>1
  <2>3. Peek(k) = "or"
      BY <2>1, <2>2 DEF Peek
  <2>4. Parse[At("OrExpr", i)] = Parse[Call("OrRest", before)]
    <3>1. Understood(i, k - 1)
        BY <2>2
    <3>2. Peek(k - 1 + 1) # "and"
        BY <2>2, <2>3
    <3> QED
        BY <2>1, <3>1, <3>2 DEF Understood
  <2>5. before \in Readings /\ before.value = l /\ before.next = k /\ l # Rejected
    <3>1. l \in Truths /\ l # Rejected
        BY <2>1, <2>2, SegmentFacts
    <3>2. k - 1 + 1 \in 1 .. Len(text) + 1
        BY <2>2
    <3> HIDE DEF l
    <3> QED
        BY <2>2, <3>1, <3>2, ParsedFields
  <2>6. after \in Readings /\ after.value = r /\ after.next = j + 1 /\ r # Rejected
      BY <2>1, <2>2, SegmentFacts
  <2>7. Understood(k + 1, j)
      BY <2>2
  <2>8. ASSUME Peek(j + 1) # "and" PROVE Parse[At("AndExpr", k + 1)] = after
    <3>1. Parse[At("AndExpr", k + 1)] = Parse[Call("AndRest", after)]
        BY <2>1, <2>7 DEF Understood
    <3>2. Parse[Call("AndRest", after)] = after
      <4> HIDE DEF after
      <4> QED
        BY <2>6, <2>8, RestSteps
    <3> QED
        BY <3>1, <3>2
  <2>9. ASSUME Peek(j + 1) # "and" PROVE Parse[Call("OrRest", before)] = Parse[Call("OrRest", read)]
    <3>1. v = SqlOr(l, r)
        BY <2>1
    <3>2. Parse[At("AndExpr", before.next + 1)] = after
        BY <2>5, <2>8, <2>9
    <3> HIDE DEF v, before, after, l, r
    <3>3. Parse[Call("OrRest", before)] = Parse[Call("OrRest", Parsed(SqlOr(before.value, after.value), after.next))]
        BY <2>3, <2>5, <2>6, <3>2, RestSteps
    <3> QED
        BY <2>5, <2>6, <3>1, <3>3
  <2> QED
      BY <1>5, <2>4, <2>9
<1>6. CASE Outermost("or", i, j) = {} /\ Outermost("and", i, j) # {}
  <2>1. PICK k \in i + 1 .. j - 1 :
              /\ text[k] = "and"
              /\ Meaning[<<i, k - 1>>] # Rejected /\ Meaning[<<k + 1, j>>] # Rejected
              /\ v = SqlAnd(Meaning[<<i, k - 1>>], Meaning[<<k + 1, j>>])
              /\ Outermost("and", k + 1, j) = {}
              /\ Outermost("or", i, k - 1) = {} /\ Outermost("or", k + 1, j) = {}
      BY <1>6, PartsOf
  <2> DEFINE l == Meaning[<<i, k - 1>>]
             r == Meaning[<<k + 1, j>>]
             before == Parsed(l, k - 1 + 1)
             after == Parsed(r, j + 1)
  <2>2. /\ k - 1 \in i .. Len(text) /\ k + 1 \in 1 .. Len(text) /\ j \in k + 1 .. Len(text)
        /\ k - 1 - i < j - i /\ j - (k + 1) < j - i /\ k - 1 + 1 = k /\ k \in 1 .. Len(text)
      BY <1>1
  <2>3. Peek(k) = "and"
      BY <2>1, <2>2 DEF Peek
  <2>4. Parse[At("AndExpr", i)] = Parse[Call("AndRest", before)]
    <3>1. Understood(i, k - 1)
        BY <2>2
    <3> QED
        BY <2>1, <3>1 DEF Understood
  <2>5. before \in Readings /\ before.value = l /\ before.next = k /\ l # Rejected
    <3>1. l \in Truths /\ l # Rejected
        BY <2>1, <2>2, SegmentFacts
    <3>2. k - 1 + 1 \in 1 .. Len(text) + 1
        BY <2>2
    <3> HIDE DEF l
    <3> QED
        BY <2>2, <3>1, <3>2, ParsedFields
  <2>6. after \in Readings /\ after.value = r /\ after.next = j + 1 /\ r # Rejected
      BY <2>1, <2>2, SegmentFacts
  <2>7. Understood(k + 1, j)
      BY <2>2
  <2>8. Parse[At("Term", k + 1)] = after
      BY <2>1, <2>7 DEF Understood
  <2>9. Parse[Call("AndRest", before)] = Parse[Call("AndRest", read)]
    <3>1. v = SqlAnd(l, r)
        BY <2>1
    <3>2. Parse[At("Term", before.next + 1)] = after
        BY <2>5, <2>8
    <3> HIDE DEF v, before, after, l, r
    <3>3. Parse[Call("AndRest", before)] = Parse[Call("AndRest", Parsed(SqlAnd(before.value, after.value), after.next))]
        BY <2>3, <2>5, <2>6, <3>2, RestSteps
    <3> QED
        BY <2>5, <2>6, <3>1, <3>3
  <2> QED
    <3> HIDE DEF v, read
    <3> QED
      BY <1>3, <1>4, <1>6, <2>4, <2>9
<1>7. CASE Outermost("or", i, j) = {} /\ Outermost("and", i, j) = {}
  <2>1. Parse[At("Term", i)] = read
    <3>1. CASE i < j /\ text[i] = "(" /\ text[j] = ")"
      <4> DEFINE inner == Parsed(v, j - 1 + 1)
      <4>1. v = Meaning[<<i + 1, j - 1>>]
          BY <1>1, <1>7, <3>1 DEF Read
      <4>2. i + 1 \in 1 .. Len(text) + 1 /\ j - 1 \in 0 .. Len(text)
          BY <1>1, <3>1
      <4>3. ~(i + 1 > j - 1)
        <5>1. Meaning[<<i + 1, j - 1>>] = Read(Meaning, i + 1, j - 1)
            BY <4>2, Meanings
        <5> QED
            BY <4>1, <5>1 DEF Read
      <4>4. /\ i + 1 \in 1 .. Len(text) /\ j - 1 \in i + 1 .. Len(text) /\ j - 1 - (i + 1) < j - i
            /\ j - 1 + 1 = j /\ j \in 1 .. Len(text)
          BY <1>1, <4>2, <4>3
      <4>5. Understood(i + 1, j - 1)
          BY <4>4
      <4>6. Peek(j) = ")" /\ Peek(i) = "("
          BY <1>1, <3>1, <4>4 DEF Peek
      <4>7. Parse[At("OrExpr", i + 1)] = Parse[Call("OrRest", inner)]
        <5> HIDE DEF v
        <5>1. Peek(j - 1 + 1) # "and"
            BY <4>4, <4>6
        <5> QED
            BY <4>1, <4>5, <5>1 DEF Understood
      <4>8. inner \in Readings /\ inner.value = v /\ inner.next = j
        <5>1. j - 1 + 1 \in 1 .. Len(text) + 1 /\ v \in Truths \cup {Rejected, Unread}
            BY <1>1, <4>4
        <5> HIDE DEF v
        <5> QED
            BY <4>4, <5>1, ParsedFields
      <4>9. Parse[Call("OrRest", inner)] = inner
        <5> HIDE DEF inner, v
        <5> QED
          BY <4>6, <4>8, RestSteps
      <4>10. Parse[At("Term", i)] = Term(Parse, i)
          BY <1>1, ParserSteps
      <4>11. Parse[At("OrExpr", i + 1)] = inner
          BY <4>7, <4>9
      <4> HIDE DEF inner, v
      <4>12. Term(Parse, i) = Parsed(v, j + 1)
          BY <4>6, <4>8, <4>11 DEF Term
      <4> QED
          BY <4>10, <4>12
    <3>2. CASE ~(i < j /\ text[i] = "(" /\ text[j] = ")")
      <4>1. i = j /\ text[i] \in Truths /\ v = text[i]
          BY <1>1, <1>7, <3>2 DEF Read
      <4>2. Peek(i) = text[i]
          BY <1>1, <4>1 DEF Peek
      <4>3. Peek(i) # "("
          BY <4>1, <4>2 DEF Truths
      <4>4. Parse[At("Term", i)] = Term(Parse, i)
          BY <1>1, ParserSteps
      <4>5. Term(Parse, i) = Parsed(text[i], i + 1)
          BY <4>1, <4>2, <4>3 DEF Term
      <4> QED
          BY <4>1, <4>4, <4>5
    <3> QED
        BY <3>1, <3>2
  <2> QED
    <3> HIDE DEF v, read
    <3> QED
      BY <1>3, <1>4, <2>1
<1> QED
    BY <1>5, <1>6, <1>7

LEMMA AllUnderstood ==
    ASSUME text \in Seq(Tokens)
    PROVE  \A i \in 1 .. Len(text) : \A j \in i .. Len(text) : Understood(i, j)
<1> DEFINE n == Len(text)
           G == {d \in 0 .. n : \A i \in 1 .. n : \A j \in i .. n : j - i <= d => Understood(i, j)}
<1>1. n \in Nat
    OBVIOUS
<1>2. ASSUME NEW d \in 0 .. n, \A i \in 1 .. n : \A j \in i .. n : j - i < d => Understood(i, j) PROVE d \in G
  <2> SUFFICES ASSUME NEW i \in 1 .. n, NEW j \in i .. n, j - i <= d PROVE Understood(i, j)
      OBVIOUS
  <2>1. \A a \in 1 .. n : \A b \in a .. n : b - a < j - i => Understood(a, b)
      BY <1>1, <1>2
  <2> QED
      BY <2>1, UnderstoodByParts
<1>3. 0 \in G
  <2> HIDE DEF G
  <2>1. \A i \in 1 .. n : \A j \in i .. n : ~(j - i < 0)
      BY <1>1
  <2> QED
      BY <1>1, <1>2, <2>1
<1>4. ASSUME NEW d \in 1 .. n, d - 1 \in G PROVE d \in G
  <2>1. \A i \in 1 .. n : \A j \in i .. n : j - i < d => Understood(i, j)
      BY <1>1, <1>4
  <2> HIDE DEF G
  <2> QED
      BY <1>1, <1>2, <2>1
<1>5. n \in G
  <2> HIDE DEF G
  <2>1. \A d \in 0 .. n : d \in G
      BY <1>1, <1>3, <1>4, CountUp
  <2> QED
      BY <1>1, <2>1
<1> QED
    BY <1>1, <1>5

\* What is read of the text from i up to `next` is a condition.
ReadFrom(i) ==
    /\ Parse[At("Term", i)].value # Rejected
       => /\ Whole(i, Parse[At("Term", i)].next - 1)
          /\ Outermost("or", i, Parse[At("Term", i)].next - 1) = {}
          /\ Outermost("and", i, Parse[At("Term", i)].next - 1) = {}
    /\ Parse[At("AndExpr", i)].value # Rejected
       => /\ Whole(i, Parse[At("AndExpr", i)].next - 1)
          /\ Outermost("or", i, Parse[At("AndExpr", i)].next - 1) = {}
    /\ Parse[At("OrExpr", i)].value # Rejected => Whole(i, Parse[At("OrExpr", i)].next - 1)

\* What a loop reads after a condition is one with it.
LoopsFrom(i, left) ==
    left.value # Rejected /\ left.next > i /\ Whole(i, left.next - 1) =>
        /\ Parse[Call("OrRest", left)].value # Rejected => Whole(i, Parse[Call("OrRest", left)].next - 1)
        /\ Outermost("or", i, left.next - 1) = {} /\ Parse[Call("AndRest", left)].value # Rejected
           => /\ Whole(i, Parse[Call("AndRest", left)].next - 1)
              /\ Outermost("or", i, Parse[Call("AndRest", left)].next - 1) = {}

LEMMA ParsesReadOn ==
    ASSUME text \in Seq(Tokens), NEW i \in 1 .. Len(text) + 1, NEW rule \in Expressions
    PROVE  /\ Parse[At(rule, i)] \in Readings /\ Parse[At(rule, i)].next \in i .. Len(text) + 1
           /\ Parse[At(rule, i)].value \in Truths \cup {Rejected, Unread}
           /\ Parse[At(rule, i)].value # Rejected => Parse[At(rule, i)].next > i
<1>1. Parse \in Tries
    BY Parses
<1>2. /\ Parse[At(rule, i)] \in Readings /\ Parse[At(rule, i)].next >= i
      /\ Parse[At(rule, i)].value # Rejected => Parse[At(rule, i)].next > i
    BY <1>1, TryFields
<1>3. /\ Parse[At(rule, i)].next \in 1 .. Len(text) + 1 /\ Len(text) \in Nat
      /\ Parse[At(rule, i)].value \in Truths \cup {Rejected, Unread}
    BY <1>2, ReadingFields
<1> QED
    BY <1>2, <1>3

LEMMA LoopsOn ==
    ASSUME text \in Seq(Tokens), NEW i \in 1 .. Len(text) + 1, NEW left \in Readings,
           \A k \in i + 1 .. Len(text) + 1 : ReadFrom(k),
           \A r \in Readings : r.next > left.next => LoopsFrom(i, r)
    PROVE  LoopsFrom(i, left)
<1> DEFINE p == left.next
<1> SUFFICES ASSUME left.value # Rejected, p > i, Whole(i, p - 1)
             PROVE  /\ Parse[Call("OrRest", left)].value # Rejected => Whole(i, Parse[Call("OrRest", left)].next - 1)
                    /\ Outermost("or", i, p - 1) = {} /\ Parse[Call("AndRest", left)].value # Rejected
                       => /\ Whole(i, Parse[Call("AndRest", left)].next - 1)
                          /\ Outermost("or", i, Parse[Call("AndRest", left)].next - 1) = {}
    BY DEF LoopsFrom
<1>1. Len(text) \in Nat /\ p \in 1 .. Len(text) + 1
    BY ReadingFields
<1>2. ASSUME Parse[Call("OrRest", left)].value # Rejected PROVE Whole(i, Parse[Call("OrRest", left)].next - 1)
  <2>1. CASE Peek(p) # "or"
    <3>1. Parse[Call("OrRest", left)] = left
        BY <2>1, RestSteps
    <3> QED
        BY <3>1
  <2>2. CASE Peek(p) = "or"
    <3> DEFINE right == Parse[At("AndExpr", p + 1)]
               both == Parsed(SqlOr(left.value, right.value), right.next)
               q == right.next
    <3>1. p \in 1 .. Len(text) /\ text[p] = "or" /\ p + 1 \in i + 1 .. Len(text) + 1 /\ p + 1 \in 1 .. Len(text) + 1
      <4>1. p \in 1 .. Len(text) /\ Peek(p) = text[p]
          BY <1>1, <2>2, PeekWithin
      <4> QED
          BY <1>1, <2>2, <4>1
    <3>2. Parse[Call("OrRest", left)] = IF right.value = Rejected THEN right ELSE Parse[Call("OrRest", both)]
        BY <2>2, RestSteps
    <3>3. right.value # Rejected /\ Parse[Call("OrRest", left)] = Parse[Call("OrRest", both)]
        BY <1>2, <3>2
    <3>4. q \in p + 2 .. Len(text) + 1
      <4>1. right.next \in p + 1 .. Len(text) + 1 /\ right.next > p + 1
          BY <3>1, <3>3, ParsesReadOn DEF Expressions
      <4> QED
          BY <1>1, <4>1
    <3>5. both \in Readings /\ both.value \in Truths /\ both.next = q /\ both.value # Rejected
      <4>1. SqlOr(left.value, right.value) \in Truths /\ q \in 1 .. Len(text) + 1
          BY <1>1, <3>4, TruthOfBoth
      <4>2. SqlOr(left.value, right.value) # Rejected
          BY <4>1 DEF Truths, Rejected
      <4> HIDE DEF right, q
      <4>3. right.next = q
          BY DEF q
      <4> QED
          BY <4>1, <4>2, <4>3, ParsedFields
    <3>6. Whole(p + 1, q - 1) /\ Outermost("or", p + 1, q - 1) = {}
        BY <3>1, <3>3 DEF ReadFrom
    <3>7. Whole(i, q - 1)
      <4> HIDE DEF p, q, right, both
      <4>1. i \in 1 .. Len(text) /\ p \in i .. Len(text) /\ q - 1 \in p .. Len(text)
          BY <1>1, <3>1, <3>4
      <4> QED
          BY <3>1, <3>6, <4>1, JoinedConditions
    <3>8. LoopsFrom(i, both)
      <4>1. both.next > left.next
          BY <1>1, <3>4, <3>5
      <4> HIDE DEF both
      <4> QED
          BY <3>5, <4>1
    <3>9. both.next > i /\ Whole(i, both.next - 1)
      <4>1. q > i
          BY <1>1, <3>4
      <4> HIDE DEF both, q
      <4> QED
          BY <3>5, <3>7, <4>1
    <3> HIDE DEF both, right, q
    <3> QED
        BY <1>2, <3>3, <3>5, <3>8, <3>9 DEF LoopsFrom
  <2> QED
      BY <2>1, <2>2
<1>3. ASSUME Outermost("or", i, p - 1) = {}, Parse[Call("AndRest", left)].value # Rejected
      PROVE  /\ Whole(i, Parse[Call("AndRest", left)].next - 1)
             /\ Outermost("or", i, Parse[Call("AndRest", left)].next - 1) = {}
  <2>1. CASE Peek(p) # "and"
    <3>1. Parse[Call("AndRest", left)] = left
        BY <2>1, RestSteps
    <3> QED
        BY <1>3, <3>1
  <2>2. CASE Peek(p) = "and"
    <3> DEFINE right == Parse[At("Term", p + 1)]
               both == Parsed(SqlAnd(left.value, right.value), right.next)
               q == right.next
    <3>1. p \in 1 .. Len(text) /\ text[p] = "and" /\ p + 1 \in i + 1 .. Len(text) + 1 /\ p + 1 \in 1 .. Len(text) + 1
      <4>1. p \in 1 .. Len(text) /\ Peek(p) = text[p]
          BY <1>1, <2>2, PeekWithin
      <4> QED
          BY <1>1, <2>2, <4>1
    <3>2. Parse[Call("AndRest", left)] = IF right.value = Rejected THEN right ELSE Parse[Call("AndRest", both)]
        BY <2>2, RestSteps
    <3>3. right.value # Rejected /\ Parse[Call("AndRest", left)] = Parse[Call("AndRest", both)]
        BY <1>3, <3>2
    <3>4. q \in p + 2 .. Len(text) + 1
      <4>1. right.next \in p + 1 .. Len(text) + 1 /\ right.next > p + 1
          BY <3>1, <3>3, ParsesReadOn DEF Expressions
      <4> QED
          BY <1>1, <4>1
    <3>5. both \in Readings /\ both.value \in Truths /\ both.next = q /\ both.value # Rejected
      <4>1. SqlAnd(left.value, right.value) \in Truths /\ q \in 1 .. Len(text) + 1
          BY <1>1, <3>4, TruthOfBoth
      <4>2. SqlAnd(left.value, right.value) # Rejected
          BY <4>1 DEF Truths, Rejected
      <4> HIDE DEF right, q
      <4>3. right.next = q
          BY DEF q
      <4> QED
          BY <4>1, <4>2, <4>3, ParsedFields
    <3>6. Whole(p + 1, q - 1) /\ Outermost("or", p + 1, q - 1) = {} /\ Outermost("and", p + 1, q - 1) = {}
        BY <3>1, <3>3 DEF ReadFrom
    <3>7. Whole(i, q - 1) /\ Outermost("or", i, q - 1) = {}
      <4> HIDE DEF p, q, right, both
      <4>1. i \in 1 .. Len(text) /\ p \in i .. Len(text) /\ q - 1 \in p .. Len(text)
          BY <1>1, <3>1, <3>4
      <4> QED
          BY <1>3, <3>1, <3>6, <4>1, JoinedConditions
    <3>8. LoopsFrom(i, both)
      <4>1. both.next > left.next
          BY <1>1, <3>4, <3>5
      <4> HIDE DEF both
      <4> QED
          BY <3>5, <4>1
    <3>9. both.next > i /\ Whole(i, both.next - 1) /\ Outermost("or", i, both.next - 1) = {}
      <4>1. q > i
          BY <1>1, <3>4
      <4> HIDE DEF both, q
      <4> QED
          BY <3>5, <3>7, <4>1
    <3> HIDE DEF both, right, q
    <3> QED
        BY <1>3, <3>3, <3>5, <3>8, <3>9 DEF LoopsFrom
  <2> QED
      BY <2>1, <2>2
<1> QED
    BY <1>2, <1>3

LEMMA AllLoops ==
    ASSUME text \in Seq(Tokens), NEW i \in 1 .. Len(text) + 1, \A k \in i + 1 .. Len(text) + 1 : ReadFrom(k)
    PROVE  \A left \in Readings : LoopsFrom(i, left)
<1> DEFINE n == Len(text)
           G == {d \in 0 .. n : \A r \in Readings : r.next >= n + 1 - d => LoopsFrom(i, r)}
<1>1. n \in Nat /\ \A r \in Readings : r.next \in 1 .. n + 1
    BY ReadingFields
<1>2. ASSUME NEW d \in 0 .. n, \A r \in Readings : r.next > n + 1 - d => LoopsFrom(i, r) PROVE d \in G
  <2> SUFFICES ASSUME NEW left \in Readings, left.next >= n + 1 - d PROVE LoopsFrom(i, left)
      OBVIOUS
  <2>1. \A r \in Readings : r.next > left.next => LoopsFrom(i, r)
      BY <1>1, <1>2
  <2> QED
      BY <2>1, LoopsOn
<1>3. 0 \in G
  <2> HIDE DEF G
  <2>1. \A r \in Readings : ~(r.next > n + 1 - 0)
      BY <1>1
  <2> QED
      BY <1>1, <1>2, <2>1
<1>4. ASSUME NEW d \in 1 .. n, d - 1 \in G PROVE d \in G
  <2>1. \A r \in Readings : r.next > n + 1 - d => LoopsFrom(i, r)
      BY <1>1, <1>4
  <2> HIDE DEF G
  <2> QED
      BY <1>1, <1>2, <2>1
<1>5. n \in G
  <2> HIDE DEF G
  <2>1. \A d \in 0 .. n : d \in G
      BY <1>1, <1>3, <1>4, CountUp
  <2> QED
      BY <1>1, <2>1
<1> QED
    BY <1>1, <1>5

LEMMA TermIsWhole ==
    ASSUME text \in Seq(Tokens), NEW i \in 1 .. Len(text) + 1, \A k \in i + 1 .. Len(text) + 1 : ReadFrom(k),
           Parse[At("Term", i)].value # Rejected
    PROVE  /\ Whole(i, Parse[At("Term", i)].next - 1)
           /\ Outermost("or", i, Parse[At("Term", i)].next - 1) = {}
           /\ Outermost("and", i, Parse[At("Term", i)].next - 1) = {}
<1>1. Parse[At("Term", i)] = Term(Parse, i)
    BY ParserSteps
<1>2. Len(text) \in Nat
    OBVIOUS
<1>3. CASE Peek(i) = "("
  <2> DEFINE inner == Parse[At("OrExpr", i + 1)]
             q == inner.next
  <2>1. i \in 1 .. Len(text) /\ text[i] = "(" /\ i + 1 \in i + 1 .. Len(text) + 1 /\ i + 1 \in 1 .. Len(text) + 1
    <3>1. i \in 1 .. Len(text) /\ Peek(i) = text[i]
        BY <1>3, PeekWithin
    <3> QED
        BY <1>2, <1>3, <3>1
  <2>2. Term(Parse, i) = IF inner.value # Rejected /\ Peek(q) = ")" THEN Parsed(inner.value, q + 1)
                         ELSE Parsed(Rejected, i)
      BY <1>3 DEF Term
  <2>3. inner.value # Rejected /\ Peek(q) = ")"
    <3> SUFFICES ASSUME ~(inner.value # Rejected /\ Peek(q) = ")") PROVE FALSE
        OBVIOUS
    <3>1. Term(Parse, i) = Parsed(Rejected, i)
        BY <2>2
    <3> QED
        BY <1>1, <3>1 DEF Parsed
  <2>4. Parse[At("Term", i)].next = q + 1
      BY <1>1, <2>2, <2>3 DEF Parsed
  <2>5. q \in i + 1 .. Len(text) + 1
      BY <2>1, ParsesReadOn DEF Expressions
  <2>6. q \in 1 .. Len(text) /\ text[q] = ")"
    <3>1. q \in 1 .. Len(text) + 1
        BY <1>2, <2>5
    <3> HIDE DEF q, inner
    <3> QED
        BY <2>3, <3>1, PeekWithin
  <2>7. Whole(i + 1, q - 1)
      BY <2>1, <2>3 DEF ReadFrom
  <2> HIDE DEF inner, q
  <2>8. q \in i + 1 .. Len(text)
      BY <1>2, <2>5, <2>6
  <2>9. Whole(i, q) /\ Outermost("or", i, q) = {} /\ Outermost("and", i, q) = {}
      BY <2>1, <2>6, <2>7, <2>8, Bracketed
  <2>10. Parse[At("Term", i)].next - 1 = q
      BY <1>2, <2>4, <2>8
  <2> QED
      BY <2>9, <2>10
<1>4. CASE Peek(i) \in Truths
  <2>1. i \in 1 .. Len(text) /\ text[i] \in Truths /\ Peek(i) # "("
    <3>1. i \in 1 .. Len(text) /\ Peek(i) = text[i]
        BY <1>4, PeekWithin DEF Truths
    <3> QED
        BY <1>4, <3>1 DEF Truths
  <2>2. Term(Parse, i) = Parsed(Peek(i), i + 1)
      BY <1>4, <2>1 DEF Term
  <2>3. Parse[At("Term", i)].next - 1 = i
      BY <1>1, <1>2, <2>2 DEF Parsed
  <2> QED
      BY <2>1, <2>3, OneToken
<1>5. CASE Peek(i) # "(" /\ Peek(i) \notin Truths
  <2>1. Term(Parse, i) = Parsed(Rejected, i)
      BY <1>5 DEF Term
  <2> QED
      BY <1>1, <2>1 DEF Parsed
<1> QED
    BY <1>3, <1>4, <1>5

LEMMA ReadsFrom ==
    ASSUME text \in Seq(Tokens), NEW i \in 1 .. Len(text) + 1, \A k \in i + 1 .. Len(text) + 1 : ReadFrom(k)
    PROVE  ReadFrom(i)
<1> DEFINE t == Parse[At("Term", i)]
           a == Parse[At("AndExpr", i)]
           o == Parse[At("OrExpr", i)]
<1>1. o = Parse[Call("OrRest", a)] /\ a = Parse[Call("AndRest", t)]
    BY ParserSteps
<1>2. t.value # Rejected => Whole(i, t.next - 1) /\ Outermost("or", i, t.next - 1) = {} /\ Outermost("and", i, t.next - 1) = {}
    BY TermIsWhole
<1>3. /\ t \in Readings /\ (t.value # Rejected => t.next > i)
      /\ a \in Readings /\ (a.value # Rejected => a.next > i)
    BY ParsesReadOn DEF Expressions
<1>4. \A left \in Readings : LoopsFrom(i, left)
    BY AllLoops
<1>5. t.value = Rejected => Parse[Call("AndRest", t)] = t
  <2> HIDE DEF t
  <2> QED
      BY <1>3, RestSteps
<1>6. a.value = Rejected => Parse[Call("OrRest", a)] = a
  <2> HIDE DEF a
  <2> QED
      BY <1>3, RestSteps
<1>7. a.value # Rejected => Whole(i, a.next - 1) /\ Outermost("or", i, a.next - 1) = {}
  <2> HIDE DEF t, a, o
  <2> QED
      BY <1>1, <1>2, <1>3, <1>4, <1>5 DEF LoopsFrom
<1>8. o.value # Rejected => Whole(i, o.next - 1)
  <2> HIDE DEF t, a, o
  <2> QED
      BY <1>1, <1>3, <1>4, <1>6, <1>7 DEF LoopsFrom
<1> QED
    BY <1>2, <1>7, <1>8 DEF ReadFrom

LEMMA AllReads ==
    ASSUME text \in Seq(Tokens)
    PROVE  \A i \in 1 .. Len(text) + 1 : ReadFrom(i)
<1> DEFINE n == Len(text)
           G == {d \in 0 .. n : \A i \in n + 1 - d .. n + 1 : ReadFrom(i)}
<1>1. n \in Nat
    OBVIOUS
<1>2. ASSUME NEW d \in 0 .. n, \A i \in n + 2 - d .. n + 1 : ReadFrom(i) PROVE d \in G
  <2> SUFFICES ASSUME NEW i \in n + 1 - d .. n + 1 PROVE ReadFrom(i)
      OBVIOUS
  <2>1. \A k \in i + 1 .. n + 1 : ReadFrom(k)
    <3> SUFFICES ASSUME NEW k \in i + 1 .. n + 1 PROVE ReadFrom(k)
        OBVIOUS
    <3>1. k \in n + 2 - d .. n + 1
        BY <1>1
    <3> QED
        BY <1>2, <3>1
  <2>2. i \in 1 .. n + 1
      BY <1>1
  <2> QED
      BY <2>1, <2>2, ReadsFrom
<1>3. 0 \in G
  <2> HIDE DEF G
  <2>1. \A i \in n + 2 - 0 .. n + 1 : ReadFrom(i)
      BY <1>1
  <2> QED
      BY <1>1, <1>2, <2>1
<1>4. ASSUME NEW d \in 1 .. n, d - 1 \in G PROVE d \in G
  <2>1. n + 1 - (d - 1) = n + 2 - d
      BY <1>1
  <2>2. \A i \in n + 2 - d .. n + 1 : ReadFrom(i)
      BY <1>4, <2>1
  <2> HIDE DEF G
  <2> QED
      BY <1>1, <1>2, <2>2
<1>5. n \in G
  <2> HIDE DEF G
  <2>1. \A d \in 0 .. n : d \in G
      BY <1>1, <1>3, <1>4, CountUp
  <2> QED
      BY <1>1, <2>1
<1> QED
    BY <1>1, <1>5

\* A condition is what its text means, whatever the text.
LEMMA ParsesWhatItMeans ==
    ASSUME text \in Seq(Tokens)
    PROVE  QueryMeansItsText
<1> DEFINE n == Len(text)
           all == Parse[At("OrExpr", 1)]
           v == Meaning[<< 1, n >>]
<1>1. n \in Nat /\ 1 \in 1 .. n + 1 /\ n \in 0 .. n
    OBVIOUS
<1>2. v \in Truths \cup {Rejected} /\ v = Read(Meaning, 1, n)
    BY <1>1, Meanings
<1>3. ParseQuery = IF all.next = n + 1 THEN all.value ELSE Rejected
    BY DEF ParseQuery
<1>4. ASSUME v # Rejected PROVE ParseQuery = v
  <2>1. n \in 1 .. n /\ 1 \in 1 .. n
    <3>1. ~(1 > n)
        BY <1>2, <1>4 DEF Read
    <3> QED
        BY <1>1, <3>1
  <2>2. Peek(n + 1) = "end"
      BY <1>1 DEF Peek
  <2>3. Understood(1, n)
      BY <2>1, AllUnderstood
  <2> DEFINE read == Parsed(v, n + 1)
  <2>4. all = Parse[Call("OrRest", read)]
      BY <1>4, <2>2, <2>3 DEF Understood
  <2>5. read \in Readings /\ read.value = v /\ read.next = n + 1
    <3> HIDE DEF v
    <3>1. n + 1 \in 1 .. n + 1
        BY <1>1
    <3> QED
        BY <1>2, <3>1, ParsedFields
  <2>6. Parse[Call("OrRest", read)] = read
    <3> HIDE DEF read
    <3> QED
        BY <2>2, <2>5, RestSteps
  <2> HIDE DEF read, all, v
  <2> QED
      BY <1>3, <2>4, <2>5, <2>6
<1>5. ASSUME v = Rejected PROVE ParseQuery = Rejected
  <2> SUFFICES ASSUME all.next = n + 1, all.value # Rejected PROVE FALSE
      BY <1>3
  <2>1. ReadFrom(1)
      BY <1>1, AllReads
  <2>2. Whole(1, n + 1 - 1)
      BY <2>1 DEF ReadFrom
  <2>3. n + 1 - 1 = n
      BY <1>1
  <2> QED
      BY <1>5, <2>2, <2>3 DEF Whole
<1> QED
    BY <1>4, <1>5 DEF QueryMeansItsText

\* QueryMeansItsText, of any condition and however long: parser.py and engine.py
\* make of it what its tokens mean from the outside in.
THEOREM QueryAlwaysMeansItsText == QuerySpec => []QueryMeansItsText
<1>1. QueryInit => text \in Seq(Tokens)
    BY DEF QueryInit
<1>2. text \in Seq(Tokens) /\ [QueryNext]_queryVars => (text \in Seq(Tokens))'
  <2> SUFFICES ASSUME text \in Seq(Tokens), [QueryNext]_queryVars PROVE text' \in Seq(Tokens)
      OBVIOUS
  <2>1. CASE QueryNext
    <3>1. PICK token \in Tokens : text' = Append(text, token)
        BY <2>1 DEF QueryNext, Type
    <3> QED
        BY <3>1
  <2>2. CASE UNCHANGED queryVars
      BY <2>2 DEF queryVars
  <2> QED
      BY <2>1, <2>2
<1>3. text \in Seq(Tokens) => QueryMeansItsText
    BY ParsesWhatItMeans
<1> QED
    BY <1>1, <1>2, <1>3, PTL DEF QuerySpec

=============================================================================
