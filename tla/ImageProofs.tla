---------------------------- MODULE ImageProofs ----------------------------
(***************************************************************************)
(* What is proved of container images, for all paths, packages, registries *)
(* and images of any length.                                               *)
(*                                                                         *)
(* LayerStack: the squash and every view of its past are the overlay of    *)
(* the layers.  SquashIsOverlay is inductive: one more layer extends the   *)
(* history that Owner looks at by one and leaves the rest alone            *)
(* (OwnerUnchanged).  The views of the past need that the log tells the    *)
(* same as `visible`, which is again a statement about the last layer only *)
(* (LogFollows).                                                           *)
(*                                                                         *)
(* PkgTimeline: the events are the history of the databases.  TimelineInv  *)
(* says what the comparison remembers between two snapshots (Cursor) and   *)
(* that it has told of all before (Told); that a version is told of once   *)
(* is a property of the events alone (TellsOnce).                          *)
(*                                                                         *)
(* ImagePull: a pull that succeeds is whole.  PullInv says what a pull has *)
(* found so far and that what it asks for is what it is about (Sound), in  *)
(* a cache whose entries nobody has looked at yet (CacheInv).              *)
(***************************************************************************)
EXTENDS LayerStack, PkgTimeline, ImagePull,
        FiniteSetTheorems, SequenceTheorems, WellFoundedInduction, TLAPS

-----------------------------------------------------------------------------
(* The layers *)

StackInv ==
    /\ TypeOK
    /\ SquashIsOverlay
    /\ TimeTravelIsOverlay
    /\ TransitionsAlternate
    /\ RemovalsNameTheirLayers

\* The last of a set of ordinals is the one no other exceeds.
LEMMA LatestUnique ==
    ASSUME NEW S \in SUBSET Int, NEW k \in S, \A j \in S : j <= k
    PROVE  Latest(S) = k
<1>1. \E m \in S : \A j \in S : j <= m
  OBVIOUS
<1>2. Latest(S) \in S /\ \A j \in S : j <= Latest(S)
  BY <1>1 DEF Latest
<1>3. Latest(S) <= k /\ k <= Latest(S) /\ Latest(S) \in Int /\ k \in Int
  BY <1>2
<1> QED BY <1>3

\* A nonempty set of ordinals up to b has a last one.
LEMMA LatestExists ==
    ASSUME NEW b \in Nat, NEW S \in SUBSET (0 .. b), S # {}
    PROVE  Latest(S) \in S /\ \A j \in S : j <= Latest(S)
<1> DEFINE T == {b - i : i \in S}
<1>1. T \subseteq Nat /\ T # {}
  <2>1. \A i \in S : b - i \in Nat
    OBVIOUS
  <2>2. PICK i \in S : TRUE
    OBVIOUS
  <2>3. b - i \in T
    BY <2>2
  <2> QED BY <2>1, <2>3
<1>2. PICK x \in T : \A y \in T : ~(<<y, x>> \in OpToRel(<, Nat))
  BY <1>1, NatLessThanWellFounded, WFMin, Zenon
<1>3. \A y \in T : ~(y < x)
  BY <1>1, <1>2 DEF OpToRel
<1>4. PICK m \in S : x = b - m
  OBVIOUS
<1>5. \A j \in S : b - j \in T
  OBVIOUS
<1> HIDE DEF T
<1>6. \A j \in S : j <= m
  BY <1>3, <1>4, <1>5
<1> QED BY <1>6 DEF Latest

\* What a step appends to the image and to the log, and what it leaves.
LEMMA Appended ==
    ASSUME TypeOK, NEW layer \in Layer, IndexLayer(layer)
    PROVE  /\ layers' \in Seq(Layer) /\ Len(layers') = Len(layers) + 1
           /\ Len(layers) \in Nat /\ Len(layers') <= MaxLayers
           /\ layers'[Len(layers) + 1] = layer
           /\ \A i \in 0 .. Len(layers) - 1 : layers'[i + 1] = layers[i + 1]
           /\ log' \in Seq(Transitions) /\ Len(log') = Len(log) + 1 /\ Len(log) = Len(layers)
           /\ \A i \in 0 .. Len(layers) - 1 : log'[i + 1] = log[i + 1]
<1> DEFINE k       == Len(layers)
           cleared == HiddenByOpaque(layer, Shown)
           gone    == HiddenByWhiteout(layer, Shown \ cleared)
           hidden  == cleared \cup gone
           left    == Shown \ hidden
           entry   == [cleared |-> cleared, gone |-> gone,
                       added |-> layer.regular \ left, modified |-> layer.regular \cap left]
<1>1. layers' = Append(layers, layer) /\ k < MaxLayers
  BY DEF IndexLayer
<1>2. log' = Append(log, entry)
  BY DEF IndexLayer
<1>3. layers \in Seq(Layer) /\ log \in Seq(Transitions) /\ Len(log) = k /\ k \in Nat
  BY DEF TypeOK
<1>4. entry \in Transitions
  <2>1. Shown \subseteq Paths
    BY DEF Shown
  <2>2. cleared \subseteq Paths /\ gone \subseteq Paths
    BY <2>1 DEF HiddenByOpaque, HiddenByWhiteout
  <2>3. layer.regular \subseteq Paths
    BY DEF Layer
  <2> QED BY <2>1, <2>2, <2>3 DEF Transitions
<1> HIDE DEF entry
<1>5. layers' \in Seq(Layer) /\ Len(layers') = k + 1 /\ layers'[k + 1] = layer
  BY <1>1, <1>3
<1>6. \A i \in 0 .. k - 1 : layers'[i + 1] = layers[i + 1]
  <2> SUFFICES ASSUME NEW i \in 0 .. k - 1 PROVE layers'[i + 1] = layers[i + 1]
    OBVIOUS
  <2>1. i + 1 \in 1 .. Len(layers)
    BY <1>3
  <2> QED BY <1>1, <1>3, <2>1
<1>7. log' \in Seq(Transitions) /\ Len(log') = Len(log) + 1
  BY <1>2, <1>3, <1>4
<1>8. \A i \in 0 .. k - 1 : log'[i + 1] = log[i + 1]
  <2> SUFFICES ASSUME NEW i \in 0 .. k - 1 PROVE log'[i + 1] = log[i + 1]
    OBVIOUS
  <2>1. i + 1 \in 1 .. Len(log)
    BY <1>3
  <2> QED BY <1>2, <1>3, <1>4, <2>1
<1>9. k + 1 <= MaxLayers
  BY <1>1, <1>3, LayerAssumption
<1> QED BY <1>3, <1>5, <1>6, <1>7, <1>8, <1>9

\* The entry a step appends to the log.
LEMMA LastEntry ==
    ASSUME TypeOK, NEW layer \in Layer, IndexLayer(layer)
    PROVE  /\ Written(log'[Len(layers) + 1]) = layer.regular
           /\ Hidden(log'[Len(layers) + 1]) = {p \in Shown : Hides(layer, p)}
<1> DEFINE k       == Len(layers)
           cleared == HiddenByOpaque(layer, Shown)
           gone    == HiddenByWhiteout(layer, Shown \ cleared)
           hidden  == cleared \cup gone
           left    == Shown \ hidden
           entry   == [cleared |-> cleared, gone |-> gone,
                       added |-> layer.regular \ left, modified |-> layer.regular \cap left]
<1>1. log' = Append(log, entry)
  BY DEF IndexLayer
<1>2. log \in Seq(Transitions) /\ Len(log) = k /\ k \in Nat
  BY DEF TypeOK
<1>3. Written(entry) = layer.regular
  BY DEF Written
<1>4. Hidden(entry) = {p \in Shown : Hides(layer, p)}
  BY DEF Hidden, HiddenByOpaque, HiddenByWhiteout, Hides
<1> HIDE DEF entry
<1>5. log'[k + 1] = entry
  BY <1>1, <1>2
<1> QED BY <1>3, <1>4, <1>5

\* One more layer on top does not change what the layers below show ...
LEMMA OwnerUnchanged ==
    ASSUME TypeOK, NEW layer \in Layer, IndexLayer(layer),
           NEW p \in Paths, NEW k \in Nowhere .. Len(layers) - 1
    PROVE  Owner(p, k)' = Owner(p, k)
<1> DEFINE holders == {i \in 0 .. k : /\ p \in layers[i + 1].regular
                                      /\ \A j \in i + 1 .. k : ~Hides(layers[j + 1], p)}
           after   == {i \in 0 .. k : /\ p \in layers'[i + 1].regular
                                      /\ \A j \in i + 1 .. k : ~Hides(layers'[j + 1], p)}
<1>1. Len(layers) \in Nat /\ \A i \in 0 .. k : layers'[i + 1] = layers[i + 1]
  <2>1. Len(layers) \in Nat /\ \A i \in 0 .. Len(layers) - 1 : layers'[i + 1] = layers[i + 1]
    BY Appended
  <2> QED BY <2>1 DEF Nowhere
<1>2. \A i \in 0 .. k : \A j \in i + 1 .. k : j \in 0 .. k
  BY <1>1 DEF Nowhere
<1>3. holders = after
  BY <1>1, <1>2
<1> QED BY <1>3 DEF Owner

\* ... and with it a path is read from the new layer if that holds it, from
\* nowhere if it hides it, and else from where it was.
LEMMA OwnerOnTop ==
    ASSUME TypeOK, NEW layer \in Layer, IndexLayer(layer), NEW p \in Paths,
           NEW n \in Nat, n = Len(layers)
    PROVE  Owner(p, n)' =
               IF p \in layer.regular THEN n
               ELSE IF Hides(layer, p) THEN Nowhere
               ELSE Owner(p, n - 1)
<1> DEFINE holders == {i \in 0 .. n - 1 : /\ p \in layers[i + 1].regular
                                          /\ \A j \in i + 1 .. n - 1 : ~Hides(layers[j + 1], p)}
           after   == {i \in 0 .. n : /\ p \in layers'[i + 1].regular
                                      /\ \A j \in i + 1 .. n : ~Hides(layers'[j + 1], p)}
<1>1. n \in Nat /\ layers'[n + 1] = layer
      /\ \A i \in 0 .. n - 1 : layers'[i + 1] = layers[i + 1]
  BY Appended
<1>2. layer.regular \subseteq Paths
  BY DEF Layer
<1>3. n \in after <=> p \in layer.regular
  BY <1>1
<1>4. \A i \in 0 .. n - 1 : i \in after <=> i \in holders /\ ~Hides(layer, p)
  <2> SUFFICES ASSUME NEW i \in 0 .. n - 1
               PROVE  i \in after <=> i \in holders /\ ~Hides(layer, p)
    OBVIOUS
  <2>1. i \in 0 .. n /\ n \in i + 1 .. n
    BY <1>1
  <2>2. \A j \in i + 1 .. n : j = n \/ j \in i + 1 .. n - 1
    BY <1>1
  <2>3. \A j \in i + 1 .. n - 1 : j \in 0 .. n - 1 /\ j \in i + 1 .. n
    BY <1>1
  <2>4. (\A j \in i + 1 .. n : ~Hides(layers'[j + 1], p))
           <=> (\A j \in i + 1 .. n - 1 : ~Hides(layers[j + 1], p)) /\ ~Hides(layer, p)
    BY <1>1, <2>1, <2>2, <2>3
  <2> QED BY <1>1, <2>1, <2>4
<1>5. Owner(p, n)' = IF after = {} THEN Nowhere ELSE Latest(after)
  BY <1>1 DEF Owner
<1>6. Owner(p, n - 1) = IF holders = {} THEN Nowhere ELSE Latest(holders)
  BY DEF Owner
<1>7. after \subseteq 0 .. n /\ holders \subseteq 0 .. n - 1
  OBVIOUS
<1>a. \A i \in after : i = n \/ i \in 0 .. n - 1
  BY <1>7
<1> HIDE DEF after, holders
<1>8. CASE p \in layer.regular
  <2>1. n \in after /\ after \in SUBSET Int /\ \A j \in after : j <= n
    BY <1>1, <1>3, <1>7, <1>8
  <2> QED BY <1>5, <1>8, <2>1, LatestUnique
<1>9. CASE p \notin layer.regular /\ Hides(layer, p)
  <2>1. after = {}
    BY <1>a, <1>3, <1>4, <1>9
  <2> QED BY <1>5, <1>9, <2>1
<1>10. CASE p \notin layer.regular /\ ~Hides(layer, p)
  <2>1. after = holders
    BY <1>a, <1>3, <1>4, <1>7, <1>10
  <2> QED BY <1>5, <1>6, <1>10, <2>1
<1> QED BY <1>8, <1>9, <1>10

-----------------------------------------------------------------------------
\* A step.

\* The squash with one more layer.
LEMMA SquashStep ==
    ASSUME TypeOK, SquashIsOverlay, NEW layer \in Layer, IndexLayer(layer),
           NEW p \in Paths, NEW n \in Nat, n = Len(layers)
    PROVE  /\ visible'[p] = IF p \in layer.regular THEN n
                            ELSE IF Hides(layer, p) THEN Nowhere ELSE visible[p]
           /\ visible'[p] = Owner(p, n)'
           /\ visible[p] = Owner(p, n - 1)
<1>1. visible[p] = Owner(p, n - 1)
  BY DEF SquashIsOverlay
<1>2. p \in HiddenByOpaque(layer, Shown) \cup
              HiddenByWhiteout(layer, Shown \ HiddenByOpaque(layer, Shown))
        <=> visible[p] # Nowhere /\ Hides(layer, p)
  BY DEF HiddenByOpaque, HiddenByWhiteout, Hides, Shown
<1>3. visible'[p] = IF p \in layer.regular THEN n
                   ELSE IF visible[p] # Nowhere /\ Hides(layer, p) THEN Nowhere ELSE visible[p]
  BY <1>2 DEF IndexLayer
<1> QED BY <1>1, <1>3, OwnerOnTop

\* Views of the past read the same from the longer log ...
LEMMA PastUnchanged ==
    ASSUME TypeOK, NEW layer \in Layer, IndexLayer(layer),
           NEW p \in Paths, NEW k \in 0 .. Len(layers) - 1
    PROVE  OwnersUpto(k)'[p] = OwnersUpto(k)[p]
<1> DEFINE before == {i \in 0 .. Len(log) - 1 :
                        i <= k /\ p \in Written(log[i + 1]) \cup Hidden(log[i + 1])}
           after  == {i \in 0 .. Len(log') - 1 :
                        i <= k /\ p \in Written(log'[i + 1]) \cup Hidden(log'[i + 1])}
<1>1. Len(layers) \in Nat /\ Len(log) = Len(layers) /\ Len(log') = Len(layers) + 1
      /\ \A i \in 0 .. Len(layers) - 1 : log'[i + 1] = log[i + 1]
  BY Appended
<1>2. \A i \in 0 .. k : i \in 0 .. Len(log) - 1 /\ i \in 0 .. Len(log') - 1 /\ log'[i + 1] = log[i + 1]
  <2> SUFFICES ASSUME NEW i \in 0 .. k
               PROVE  /\ i \in 0 .. Len(log) - 1 /\ i \in 0 .. Len(log') - 1
                      /\ log'[i + 1] = log[i + 1]
    OBVIOUS
  <2>1. i \in 0 .. Len(layers) - 1
    BY <1>1
  <2>2. i \in 0 .. Len(log') - 1
    BY <1>1
  <2> QED BY <1>1, <2>1, <2>2
<1>3. \A i \in before \cup after : i \in 0 .. k
  <2>1. k \in Nat
    BY <1>1
  <2> QED BY <1>1, <2>1
<1>4. before = after
  BY <1>2, <1>3
<1>5. before # {} => Latest(before) \in before
  <2> SUFFICES ASSUME before # {} PROVE Latest(before) \in before
    OBVIOUS
  <2>1. before \in SUBSET (0 .. k) /\ k \in Nat
    BY <1>1, <1>3
  <2> QED BY <2>1, LatestExists
<1>6. before # {} => log'[Latest(before) + 1] = log[Latest(before) + 1]
  BY <1>2, <1>3, <1>5
<1> HIDE DEF before, after
<1> QED BY <1>4, <1>6 DEF OwnersUpto, before, after

\* ... and the view up to the new layer shows what is visible now.
LEMMA LogFollows ==
    ASSUME StackInv, NEW layer \in Layer, IndexLayer(layer),
           NEW p \in Paths, NEW n \in Nat, n = Len(layers)
    PROVE  OwnersUpto(n)'[p] = visible'[p]
<1> DEFINE touched(k) == {i \in 0 .. Len(log') - 1 :
                            i <= k /\ p \in Written(log'[i + 1]) \cup Hidden(log'[i + 1])}
<1>1. Len(log') = n + 1
      /\ \A i \in 0 .. n - 1 : log'[i + 1] = log[i + 1]
  BY Appended DEF StackInv
<1>2. /\ Written(log'[n + 1]) = layer.regular
      /\ Hidden(log'[n + 1]) = {q \in Shown : Hides(layer, q)}
  BY LastEntry DEF StackInv
<1>3. /\ visible'[p] = IF p \in layer.regular THEN n
                      ELSE IF Hides(layer, p) THEN Nowhere ELSE visible[p]
      /\ visible[p] = Owner(p, n - 1)
  BY SquashStep DEF StackInv
<1>4. \A k \in Nowhere .. n : OwnersUpto(k)'[p] =
          IF touched(k) = {} THEN Nowhere
          ELSE IF p \in Written(log'[Latest(touched(k)) + 1]) THEN Latest(touched(k)) ELSE Nowhere
  BY DEF OwnersUpto
<1>5. n \in touched(n) <=> p \in layer.regular \/ (visible[p] # Nowhere /\ Hides(layer, p))
  BY <1>1, <1>2 DEF Shown
<1>6. n \in Nowhere .. n /\ n - 1 \in Nowhere .. n
  BY DEF Nowhere
<1>7. CASE n \in touched(n)
  <2>1. touched(n) \in SUBSET Int /\ \A j \in touched(n) : j <= n
    OBVIOUS
  <2>2. Latest(touched(n)) = n /\ touched(n) # {}
    BY <1>7, <2>1, LatestUnique
  <2> HIDE DEF touched
  <2>3. OwnersUpto(n)'[p] = IF p \in layer.regular THEN n ELSE Nowhere
    BY <1>2, <1>4, <1>6, <2>2
  <2> QED BY <1>3, <1>5, <1>7, <2>3
<1>8. CASE n \notin touched(n)
  <2>1. touched(n) = touched(n - 1)
    <3>1. \A i \in touched(n) : i \in 0 .. n /\ i # n
      BY <1>1, <1>8
    <3>2. \A i \in 0 .. n : i # n => i <= n - 1
      OBVIOUS
    <3>3. \A i \in Int : i <= n - 1 => i <= n
      OBVIOUS
    <3> QED BY <3>1, <3>2, <3>3
  <2>2. visible'[p] = visible[p]
    BY <1>3, <1>5, <1>8
  <2>3. OwnersUpto(n)'[p] = OwnersUpto(n - 1)'[p]
    <3> HIDE DEF touched
    <3> QED BY <1>4, <1>6, <2>1
  <2>4. CASE n = 0
    <3>1. touched(n - 1) = {}
      BY <2>4
    <3>2. Owner(p, n - 1) = Nowhere
      BY <2>4 DEF Owner
    <3> HIDE DEF touched
    <3> QED BY <1>3, <1>4, <1>6, <2>2, <2>3, <3>1, <3>2
  <2>5. CASE n # 0
    <3>1. n - 1 \in 0 .. Len(layers) - 1
      BY <2>5
    <3>2. OwnersUpto(n - 1)'[p] = OwnersUpto(n - 1)[p]
      BY <3>1, PastUnchanged DEF StackInv
    <3>3. OwnersUpto(n - 1)[p] = Owner(p, n - 1)
      BY <3>1 DEF StackInv, TimeTravelIsOverlay, SquashOwners
    <3> QED BY <1>3, <2>2, <2>3, <3>2, <3>3
  <2> QED BY <2>4, <2>5
<1> QED BY <1>7, <1>8

\* The last write of a path that is visible is the layer it is read from.
LEMMA LastWriteIsOwner ==
    ASSUME StackInv, NEW p \in Shown
    PROVE  LastWrite(p) = visible[p] /\ visible[p] \in 0 .. Len(layers) - 1
<1> DEFINE n == Len(layers)
           touched == {i \in 0 .. Len(log) - 1 :
                         i <= n - 1 /\ p \in Written(log[i + 1]) \cup Hidden(log[i + 1])}
<1>1. p \in Paths /\ visible[p] # Nowhere /\ visible[p] \in Nowhere .. n - 1 /\ n \in Nat
      /\ Len(log) = n
  BY DEF Shown, StackInv, TypeOK
<1>2. visible[p] \in 0 .. n - 1
  BY <1>1 DEF Nowhere
<1>3. n - 1 \in 0 .. n - 1
  BY <1>1, <1>2
<1>4. OwnersUpto(n - 1)[p] = visible[p]
  BY <1>1, <1>3 DEF StackInv, SquashIsOverlay, TimeTravelIsOverlay, SquashOwners
<1>5. touched # {} /\ p \in Written(log[Latest(touched) + 1]) /\ Latest(touched) = visible[p]
  BY <1>1, <1>4 DEF OwnersUpto
<1>6. n - 1 \in Nat /\ touched \in SUBSET (0 .. n - 1)
  BY <1>1, <1>3
<1>7. Latest(touched) \in touched /\ \A j \in touched : j <= Latest(touched)
  BY <1>5, <1>6, LatestExists
<1>8. VersionsOf(p) \subseteq touched /\ Latest(touched) \in VersionsOf(p)
  BY <1>1, <1>5, <1>7 DEF VersionsOf
<1> HIDE DEF touched, n
<1>9. VersionsOf(p) \in SUBSET Int /\ \A j \in VersionsOf(p) : j <= Latest(touched)
  <2>1. \A j \in VersionsOf(p) : j \in touched
    BY <1>8
  <2>2. \A j \in touched : j \in 0 .. n - 1
    BY <1>6
  <2>3. \A j \in 0 .. n - 1 : j \in Int
    OBVIOUS
  <2> QED BY <1>7, <2>1, <2>2, <2>3
<1> USE DEF n
<1>10. Latest(VersionsOf(p)) = Latest(touched)
  BY <1>8, <1>9, LatestUnique
<1> QED BY <1>2, <1>5, <1>8, <1>10 DEF LastWrite

-----------------------------------------------------------------------------
\* The inductive invariant.

\* Nothing is indexed: nothing is visible.
LEMMA InitEstablishesInv == Init => StackInv
<1> SUFFICES ASSUME Init PROVE StackInv
  OBVIOUS
<1>1. Len(layers) = 0 /\ Len(log) = 0
  BY DEF Init
<1>2. TypeOK
  BY <1>1, LayerAssumption DEF Init, TypeOK, Nowhere, Kept
<1>3. SquashIsOverlay
  BY <1>1 DEF Init, SquashIsOverlay, Owner
<1>4. TimeTravelIsOverlay /\ TransitionsAlternate
  BY <1>1 DEF TimeTravelIsOverlay, TransitionsAlternate
<1>5. RemovalsNameTheirLayers
  BY DEF Init, RemovalsNameTheirLayers
<1> QED BY <1>2, <1>3, <1>4, <1>5 DEF StackInv

\* Indexing a layer keeps the types.
LEMMA TypeStep ==
    ASSUME StackInv, NEW layer \in Layer, IndexLayer(layer)
    PROVE  TypeOK'
<1> DEFINE n == Len(layers)
<1>1. layers' \in Seq(Layer) /\ Len(layers') = n + 1 /\ n \in Nat /\ Len(layers') <= MaxLayers
      /\ log' \in Seq(Transitions) /\ Len(log') = n + 1
  BY Appended DEF StackInv
<1>2. visible' \in [Paths -> Nowhere .. n]
  <2>1. visible \in [Paths -> Nowhere .. n - 1]
    BY DEF StackInv, TypeOK
  <2>2. n \in Nowhere .. n /\ Nowhere \in Nowhere .. n
    BY <1>1 DEF Nowhere
  <2>3. \A p \in Paths : visible[p] \in Nowhere .. n
    BY <1>1, <2>1 DEF Nowhere
  <2> QED BY <2>2, <2>3 DEF IndexLayer
<1>3. removed' \in [Paths -> (Nowhere .. n) \X (Nowhere .. n)]
  <2>1. \A p \in Paths : removed[p] \in (Nowhere .. n) \X (Nowhere .. n)
    <3>1. removed \in [Paths -> (Nowhere .. n - 1) \X (Nowhere .. n - 1)]
      BY DEF StackInv, TypeOK
    <3>2. Nowhere .. n - 1 \subseteq Nowhere .. n
      BY <1>1 DEF Nowhere
    <3> QED BY <3>1, <3>2
  <2>2. \A p \in Shown : <<LastWrite(p), n>> \in (Nowhere .. n) \X (Nowhere .. n)
    BY <1>1, LastWriteIsOwner DEF Nowhere
  <2>3. HiddenByOpaque(layer, Shown) \subseteq Shown
        /\ HiddenByWhiteout(layer, Shown \ HiddenByOpaque(layer, Shown)) \subseteq Shown
    BY DEF HiddenByOpaque, HiddenByWhiteout
  <2> QED BY <2>1, <2>2, <2>3 DEF IndexLayer
<1> QED BY <1>1, <1>2, <1>3 DEF TypeOK

\* The squash stays the overlay.
LEMMA SquashInductive ==
    ASSUME StackInv, NEW layer \in Layer, IndexLayer(layer)
    PROVE  SquashIsOverlay'
<1> SUFFICES ASSUME NEW p \in Paths PROVE visible'[p] = Owner(p, Len(layers) - 1)'
  BY DEF SquashIsOverlay
<1>1. PICK n \in Nat : n = Len(layers) /\ Len(layers') - 1 = n
  BY Appended DEF StackInv
<1>2. visible'[p] = Owner(p, n)'
  BY <1>1, SquashStep DEF StackInv
<1>3. Owner(p, Len(layers) - 1)' = Owner(p, n)'
  BY <1>1 DEF Owner
<1> QED BY <1>2, <1>3

\* So does every view of the past, the newest one included.
LEMMA TimeTravelInductive ==
    ASSUME StackInv, NEW layer \in Layer, IndexLayer(layer)
    PROVE  TimeTravelIsOverlay'
<1>1. PICK n \in Nat : n = Len(layers) /\ Len(layers') - 1 = n
  BY Appended DEF StackInv
<1> SUFFICES ASSUME NEW k \in 0 .. n, NEW p \in Paths
             PROVE  OwnersUpto(k)'[p] = Owner(p, k)'
  BY <1>1 DEF TimeTravelIsOverlay, SquashOwners
<1>2. CASE k = n
  <2>1. OwnersUpto(n)'[p] = visible'[p]
    BY <1>1, LogFollows
  <2>2. visible'[p] = Owner(p, n)'
    BY <1>1, SquashStep DEF StackInv
  <2> QED BY <1>2, <2>1, <2>2
<1>3. CASE k # n
  <2>1. k \in 0 .. Len(layers) - 1
    BY <1>1, <1>3
  <2>2. k \in Nowhere .. Len(layers) - 1
    BY <2>1 DEF Nowhere
  <2>3. OwnersUpto(k)'[p] = OwnersUpto(k)[p]
    BY <2>1, PastUnchanged DEF StackInv
  <2>4. Owner(p, k)' = Owner(p, k)
    BY <2>2, OwnerUnchanged DEF StackInv
  <2> QED BY <2>1, <2>3, <2>4 DEF StackInv, TimeTravelIsOverlay, SquashOwners
<1> QED BY <1>2, <1>3

\* The new entry of the log alternates with what the layers below left.
LEMMA AlternationInductive ==
    ASSUME StackInv, NEW layer \in Layer, IndexLayer(layer)
    PROVE  TransitionsAlternate'
<1> DEFINE Fits(entry, p, before) ==
               /\ p \in entry.cleared => before # Nowhere /\ p \notin entry.gone
               /\ p \in entry.gone => before # Nowhere
               /\ p \in entry.added => before = Nowhere \/ p \in Hidden(entry)
               /\ p \in entry.modified => before # Nowhere /\ p \notin Hidden(entry)
<1>1. PICK n \in Nat :
         /\ n = Len(layers) /\ Len(layers') - 1 = n /\ Len(log) = n
         /\ \A i \in 0 .. n - 1 : log'[i + 1] = log[i + 1]
  BY Appended DEF StackInv
<1>2. \A k \in 0 .. n, p \in Paths : Owner(p, k - 1)' = Owner(p, k - 1)
  <2> SUFFICES ASSUME NEW k \in 0 .. n, NEW p \in Paths
               PROVE  Owner(p, k - 1)' = Owner(p, k - 1)
    OBVIOUS
  <2>1. k - 1 \in Nowhere .. Len(layers) - 1
    BY <1>1 DEF Nowhere
  <2> QED BY <2>1, OwnerUnchanged DEF StackInv
<1>3. \A k \in 0 .. n - 1, p \in Paths : Fits(log[k + 1], p, Owner(p, k - 1))
  BY <1>1 DEF StackInv, TransitionsAlternate
<1>4. \A p \in Paths : Fits(log'[n + 1], p, Owner(p, n - 1))
  <2> DEFINE cleared == HiddenByOpaque(layer, Shown)
             gone    == HiddenByWhiteout(layer, Shown \ cleared)
             hidden  == cleared \cup gone
             left    == Shown \ hidden
             entry   == [cleared |-> cleared, gone |-> gone,
                         added |-> layer.regular \ left, modified |-> layer.regular \cap left]
  <2>1. log'[n + 1] = entry
    <3>1. log' = Append(log, entry)
      BY DEF IndexLayer
    <3>2. log \in Seq(Transitions) /\ Len(log) = n
      BY <1>1 DEF StackInv, TypeOK
    <3> HIDE DEF entry
    <3> QED BY <1>1, <3>1, <3>2
  <2>2. cleared \subseteq Shown /\ gone \subseteq Shown \ cleared
    BY DEF HiddenByOpaque, HiddenByWhiteout
  <2>3. \A p \in Paths : p \in Shown <=> Owner(p, n - 1) # Nowhere
    BY <1>1 DEF Shown, StackInv, SquashIsOverlay
  <2> HIDE DEF cleared, gone
  <2>4. Hidden(entry) = cleared \cup gone
    BY DEF Hidden
  <2>5. /\ entry.cleared = cleared /\ entry.gone = gone
        /\ entry.added = layer.regular \ left /\ entry.modified = layer.regular \cap left
    OBVIOUS
  <2>6. left = Shown \ (cleared \cup gone)
    OBVIOUS
  <2> HIDE DEF entry, left
  <2> SUFFICES ASSUME NEW p \in Paths PROVE Fits(entry, p, Owner(p, n - 1))
    BY <2>1
  <2> QED BY <2>2, <2>3, <2>4, <2>5, <2>6
<1>5. \A k \in 0 .. n, p \in Paths : Fits(log'[k + 1], p, Owner(p, k - 1))
  <2> SUFFICES ASSUME NEW k \in 0 .. n, NEW p \in Paths
               PROVE  Fits(log'[k + 1], p, Owner(p, k - 1))
    OBVIOUS
  <2>1. k = n \/ k \in 0 .. n - 1
    BY <1>1
  <2> HIDE DEF Fits
  <2> QED BY <1>1, <1>3, <1>4, <2>1
<1>6. \A k \in 0 .. n, p \in Paths : Fits(log'[k + 1], p, Owner(p, k - 1)')
  <2> HIDE DEF Fits
  <2> QED BY <1>2, <1>5
<1> QED BY <1>1, <1>6 DEF TransitionsAlternate, Hidden

\* A removal is recorded against the layers as they are, and they stay.
LEMMA RemovalsInductive ==
    ASSUME StackInv, NEW layer \in Layer, IndexLayer(layer)
    PROVE  RemovalsNameTheirLayers'
<1>1. PICK n \in Nat :
         /\ n = Len(layers) /\ layers'[n + 1] = layer /\ Len(layers') - 1 = n
         /\ \A i \in 0 .. n - 1 : layers'[i + 1] = layers[i + 1]
  BY Appended DEF StackInv
<1>2. SUFFICES ASSUME NEW p \in Paths, removed'[p] # Kept,
                      NEW w \in Nowhere .. n, NEW r \in Nowhere .. n,
                      removed'[p] = <<w, r>>
               PROVE  w < r /\ Owner(p, r - 1)' = w /\ Hides(layers'[r + 1], p)
  <2>1. SUFFICES ASSUME NEW p \in Paths, removed'[p] # Kept
                 PROVE  LET w == removed[p][1]
                            r == removed[p][2]
                        IN  (w < r /\ Owner(p, r - 1) = w /\ Hides(layers[r + 1], p))'
    BY DEF RemovalsNameTheirLayers
  <2>2. removed'[p] \in (Nowhere .. n) \X (Nowhere .. n)
    BY <1>1, TypeStep DEF TypeOK
  <2>3. PICK w \in Nowhere .. n, r \in Nowhere .. n : removed'[p] = <<w, r>>
    BY <2>2
  <2>4. w < r /\ Owner(p, r - 1)' = w /\ Hides(layers'[r + 1], p)
    BY <2>1, <2>3, <1>2
  <2> QED BY <2>3, <2>4 DEF Owner
<1>3. HiddenByOpaque(layer, Shown) \cup
          HiddenByWhiteout(layer, Shown \ HiddenByOpaque(layer, Shown))
        = {q \in Shown : Hides(layer, q)}
  BY DEF HiddenByOpaque, HiddenByWhiteout, Hides
<1>4. removed'[p] = IF p \in Shown /\ Hides(layer, p) THEN <<LastWrite(p), n>> ELSE removed[p]
  BY <1>1, <1>3 DEF IndexLayer
<1>5. CASE p \in Shown /\ Hides(layer, p)
  <2>1. w = LastWrite(p) /\ r = n
    BY <1>2, <1>4, <1>5
  <2>2. LastWrite(p) = visible[p] /\ visible[p] \in 0 .. n - 1
    BY <1>1, <1>5, LastWriteIsOwner
  <2>3. visible[p] = Owner(p, n - 1)
    BY <1>1 DEF StackInv, SquashIsOverlay
  <2>4. n - 1 \in Nowhere .. Len(layers) - 1
    BY <1>1 DEF Nowhere
  <2>5. Owner(p, n - 1)' = Owner(p, n - 1)
    BY <2>4, OwnerUnchanged DEF StackInv
  <2> QED BY <1>1, <1>5, <2>1, <2>2, <2>3, <2>5
<1>6. CASE ~(p \in Shown /\ Hides(layer, p))
  <2>1. removed[p] # Kept /\ removed[p] = <<w, r>>
    BY <1>2, <1>4, <1>6
  <2>2. removed[p][1] = w /\ removed[p][2] = r
    BY <2>1
  <2>3. w < r /\ Owner(p, r - 1) = w /\ Hides(layers[r + 1], p)
    BY <2>1, <2>2 DEF StackInv, RemovalsNameTheirLayers
  <2>4. removed[p] \in (Nowhere .. n - 1) \X (Nowhere .. n - 1)
    BY <1>1 DEF StackInv, TypeOK
  <2>5. w \in Nowhere .. n - 1 /\ r \in Nowhere .. n - 1
    BY <2>2, <2>4
  <2>6. r \in 0 .. n - 1 /\ r - 1 \in Nowhere .. Len(layers) - 1
    BY <1>1, <2>3, <2>5 DEF Nowhere
  <2>7. Owner(p, r - 1)' = Owner(p, r - 1)
    BY <2>6, OwnerUnchanged DEF StackInv
  <2>8. Hides(layers'[r + 1], p)
    BY <1>1, <2>3, <2>6
  <2> QED BY <2>3, <2>7, <2>8
<1> QED BY <1>5, <1>6

\* Every step keeps the invariant.
LEMMA NextKeepsInv == StackInv /\ [Next]_vars => StackInv'
<1> SUFFICES ASSUME StackInv, [Next]_vars PROVE StackInv'
  OBVIOUS
<1>1. CASE Next
  <2>1. PICK layer \in Layer : IndexLayer(layer)
    BY <1>1 DEF Next
  <2> QED BY <2>1, TypeStep, SquashInductive, TimeTravelInductive, AlternationInductive,
             RemovalsInductive DEF StackInv
<1>2. CASE UNCHANGED vars
  <2>1. TypeOK' /\ SquashIsOverlay'
    BY <1>2 DEF vars, StackInv, TypeOK, SquashIsOverlay, Owner
  <2>2. TimeTravelIsOverlay'
    <3>1. \A k \in 0 .. Len(layers) - 1 : OwnersUpto(k)' = OwnersUpto(k)
      BY <1>2 DEF vars, OwnersUpto, VersionsOf, Written, Hidden
    <3>2. \A k \in 0 .. Len(layers) - 1, p \in Paths : Owner(p, k)' = Owner(p, k)
      BY <1>2 DEF vars, Owner
    <3>3. layers' = layers
      BY <1>2 DEF vars
    <3> QED BY <3>1, <3>2, <3>3 DEF StackInv, TimeTravelIsOverlay, SquashOwners
  <2>3. TransitionsAlternate'
    <3>1. \A k \in 0 .. Len(layers) - 1, p \in Paths : Owner(p, k - 1)' = Owner(p, k - 1)
      BY <1>2 DEF vars, Owner
    <3>2. layers' = layers /\ log' = log
      BY <1>2 DEF vars
    <3> QED BY <3>1, <3>2 DEF StackInv, TransitionsAlternate, Hidden
  <2>4. RemovalsNameTheirLayers'
    <3>1. \A p \in Paths : Owner(p, removed[p][2] - 1)' = Owner(p, removed[p][2] - 1)
      BY <1>2 DEF vars, Owner
    <3>2. layers' = layers /\ removed' = removed
      BY <1>2 DEF vars
    <3> QED BY <3>1, <3>2 DEF StackInv, RemovalsNameTheirLayers
  <2> QED BY <2>1, <2>2, <2>3, <2>4 DEF StackInv
<1> QED BY <1>1, <1>2

\* What is proved once for all that follows.
LEMMA InvAlways == Spec => []StackInv
BY InitEstablishesInv, NextKeepsInv, PTL DEF Spec

\* The state of LayerStack keeps the types its declarations give it.
THEOREM TypeCorrect == Spec => []TypeOK
<1>1. StackInv => TypeOK
  BY DEF StackInv
<1> QED BY <1>1, InvAlways, PTL

\* The squash that is scanned is the overlay of the layers, for an image of any
\* length (_compute).
THEOREM SquashAlwaysOverlay == Spec => []SquashIsOverlay
<1>1. StackInv => SquashIsOverlay
  BY DEF StackInv
<1> QED BY <1>1, InvAlways, PTL

\* A view of the past is the squash of the image cut off at that layer
\* (owners_upto, SquashView).
THEOREM PastAlwaysOverlay == Spec => []TimeTravelIsOverlay
<1>1. StackInv => TimeTravelIsOverlay
  BY DEF StackInv
<1> QED BY <1>1, InvAlways, PTL

\* The log never adds what is there nor modifies or removes what is not.
THEOREM LogAlwaysAlternates == Spec => []TransitionsAlternate
<1>1. StackInv => TransitionsAlternate
  BY DEF StackInv
<1> QED BY <1>1, InvAlways, PTL

\* A removal names the layer that wrote the file and the layer that hid it
\* (_record_gone).
THEOREM RemovalsAlwaysNamed == Spec => []RemovalsNameTheirLayers
<1>1. StackInv => RemovalsNameTheirLayers
  BY DEF StackInv
<1> QED BY <1>1, InvAlways, PTL

\* An image and every past view of it are the overlay of their layers, and a
\* removal names the layers it lies between.
THEOREM ViewsAlwaysOverlays == Spec => []ViewsAreOverlays
<1>1. SquashIsOverlay /\ TimeTravelIsOverlay /\ RemovalsNameTheirLayers => ViewsAreOverlays
  BY DEF ViewsAreOverlays
<1> QED BY <1>1, SquashAlwaysOverlay, PastAlwaysOverlay, RemovalsAlwaysNamed, PTL

-----------------------------------------------------------------------------
(* The history of the package databases *)

\* What an event says of the snapshots of its database.
Tells(e, s) ==
    /\ e.oldAt < e.newAt /\ {e.oldAt, e.newAt} \subseteq DOMAIN s
    /\ s[e.newAt][e.pkg] = e.new /\ e.new # e.old
    /\ \A k \in DOMAIN s : k \in e.oldAt .. e.newAt - 1 => s[k][e.pkg] = e.old
    /\ \A k \in DOMAIN s :
          (k < e.oldAt /\ \A j \in DOMAIN s : j < e.oldAt => j <= k) => s[k][e.pkg] # e.old

\* The snapshot before an ordinal, if there is one, does not have the version.
StartsAt(s, p, v, n) ==
    \A k \in DOMAIN s : (k < n /\ \A j \in DOMAIN s : j < n => j <= k) => s[k][p] # v

\* What diff_timeline remembers when it has compared the snapshots up to `at`.
Cursor(s, at, cur, write) ==
    /\ at = Never => cur = Nothing
    /\ at # Never =>
         /\ at \in DOMAIN s /\ cur = s[at]
         /\ \A p \in Packages : cur[p] # None =>
               /\ write[p] \in DOMAIN s /\ write[p] <= at /\ write[p] # Never
               /\ \A k \in DOMAIN s : k \in write[p] .. at => s[k][p] = cur[p]
               /\ StartsAt(s, p, cur[p], write[p])

\* What became of a version that a later snapshot, up to n, no longer has.
Told(d, s, n, known) ==
    \A k \in DOMAIN s : \A p \in Packages :
        (s[k][p] # None /\ \E j \in DOMAIN s : k < j /\ j <= n /\ s[j][p] # s[k][p])
            => \E e \in known : /\ e.db = d /\ e.pkg = p /\ e.old = s[k][p]
                                /\ e.oldAt <= k /\ k < e.newAt

Snapshots(s) == DOMAIN s \subseteq Nat /\ \A k \in DOMAIN s : s[k] \in Snapshot

TimelineInv ==
    /\ TimelineTypeOK
    /\ \A d \in DBs : Len(image[d]) <= MaxHistory
    /\ phase = "layers" => events = {} /\ prevAt = Never /\ db = 1
    /\ prevAt = Never => prev = Nothing
    /\ \A e \in events : e.db \in DBs /\ Tells(e, States(e.db))
    /\ db \in DBs => Cursor(States(db), prevAt, prev, prevWrite)
    /\ db \in DBs => Told(db, States(db), prevAt, events)
    /\ phase # "layers" => \A d \in DBs : d < db => \A n \in Nat : Told(d, States(d), n, events)
    /\ phase = "done" => db = NumDBs + 1

\* Of the snapshots before one there is a last.
LEMMA SnapshotBefore ==
    ASSUME NEW s, DOMAIN s \subseteq Nat, NEW n \in Nat, NEW k \in DOMAIN s, k < n
    PROVE  \E m \in DOMAIN s : k <= m /\ m < n /\ \A j \in DOMAIN s : j < n => j <= m
<1> DEFINE S == {j \in DOMAIN s : j < n}
<1>1. S \in SUBSET (0 .. n) /\ k \in S /\ S # {}
  OBVIOUS
<1>2. Latest(S) \in S /\ \A j \in S : j <= Latest(S)
  <2> HIDE DEF S
  <2> QED BY <1>1, LatestExists
<1> QED BY <1>1, <1>2

\* A version that an interval of snapshots has cannot have started within it.
LEMMA StartedBefore ==
    ASSUME NEW s, DOMAIN s \subseteq Nat, NEW p, NEW v, NEW n \in DOMAIN s, StartsAt(s, p, v, n),
           NEW k \in DOMAIN s, NEW last \in Nat, n <= last,
           \A j \in DOMAIN s : k <= j /\ j <= last => s[j][p] = v
    PROVE  n <= k
<1> SUFFICES ASSUME k < n PROVE FALSE
  OBVIOUS
<1>1. PICK m \in DOMAIN s : k <= m /\ m < n /\ \A j \in DOMAIN s : j < n => j <= m
  BY SnapshotBefore
<1>2. s[m][p] # v
  BY <1>1 DEF StartsAt
<1>3. m <= last
  BY <1>1
<1> QED BY <1>1, <1>2, <1>3

\* The comparison with the next snapshot keeps what is remembered.
LEMMA CursorMoves ==
    ASSUME NEW s, Snapshots(s), NEW at \in Nat \cup {Never}, NEW cur \in Snapshot, NEW write,
           Cursor(s, at, cur, write), NEW k \in DOMAIN s, k > at, \A j \in DOMAIN s : j > at => k <= j
    PROVE  Cursor(s, k, s[k], [p \in Packages |-> IF s[k][p] # None /\ cur[p] # s[k][p] THEN k ELSE write[p]])
<1>1. PICK w : w = [p \in Packages |-> IF s[k][p] # None /\ cur[p] # s[k][p] THEN k ELSE write[p]]
  OBVIOUS
<1>2. k \in Nat /\ k # Never /\ DOMAIN s \subseteq Nat
  BY DEF Snapshots, Never
<1>3. ASSUME NEW p \in Packages, s[k][p] # None
      PROVE  /\ w[p] \in DOMAIN s /\ w[p] <= k /\ w[p] # Never
             /\ \A j \in DOMAIN s : j \in w[p] .. k => s[j][p] = s[k][p]
             /\ StartsAt(s, p, s[k][p], w[p])
  <2>1. CASE cur[p] # s[k][p]
    <3>1. w[p] = k
      BY <1>1, <1>3, <2>1
    <3>2. ASSUME NEW i \in DOMAIN s, i < k, \A j \in DOMAIN s : j < k => j <= i
          PROVE  s[i][p] # s[k][p]
      <4>1. i <= at /\ at # Never
        BY <1>2, <3>2 DEF Never
      <4>2. at \in DOMAIN s /\ cur = s[at]
        BY <4>1 DEF Cursor
      <4>3. i = at
        BY <1>2, <3>2, <4>1, <4>2
      <4> QED BY <2>1, <4>2, <4>3
    <3> QED BY <1>2, <3>1, <3>2 DEF StartsAt
  <2>2. CASE cur[p] = s[k][p]
    <3>1. w[p] = write[p]
      BY <1>1, <2>2
    <3>2. at # Never
      BY <1>3, <2>2 DEF Cursor, Nothing
    <3>3. /\ write[p] \in DOMAIN s /\ write[p] <= at /\ write[p] # Never
          /\ \A j \in DOMAIN s : j \in write[p] .. at => s[j][p] = cur[p]
          /\ StartsAt(s, p, cur[p], write[p])
      BY <1>3, <2>2, <3>2 DEF Cursor
    <3>4. at \in Nat
      BY <3>2
    <3>5. ASSUME NEW j \in DOMAIN s, j \in write[p] .. k
          PROVE  s[j][p] = s[k][p]
      <4>1. j = k \/ j <= at
        BY <1>2, <3>4, <3>5
      <4>2. j <= at => j \in write[p] .. at
        BY <1>2, <3>3, <3>4, <3>5
      <4> QED BY <2>2, <3>3, <4>1, <4>2
    <3>6. write[p] <= k
      BY <1>2, <3>3, <3>4
    <3> QED BY <2>2, <3>1, <3>3, <3>5, <3>6
  <2> QED BY <2>1, <2>2
<1>4. Cursor(s, k, s[k], w)
  BY <1>2, <1>3 DEF Cursor
<1> QED BY <1>1, <1>4

\* An event of the comparison tells the truth ...
LEMMA ComparedTells ==
    ASSUME NEW s, Snapshots(s), NEW at \in Nat, NEW cur \in Snapshot, NEW write,
           Cursor(s, at, cur, write), NEW k \in DOMAIN s, k > at, \A j \in DOMAIN s : j > at => k <= j,
           NEW p \in Packages, cur[p] # None, s[k][p] # cur[p],
           NEW e, e.pkg = p, e.old = cur[p], e.oldAt = write[p], e.new = s[k][p], e.newAt = k
    PROVE  Tells(e, s)
<1>1. k \in Nat /\ DOMAIN s \subseteq Nat /\ at # Never
  BY DEF Snapshots, Never
<1>2. /\ write[p] \in DOMAIN s /\ write[p] <= at
      /\ \A j \in DOMAIN s : j \in write[p] .. at => s[j][p] = cur[p]
      /\ StartsAt(s, p, cur[p], write[p])
  BY <1>1 DEF Cursor
<1>3. write[p] < k
  BY <1>1, <1>2
<1>4. ASSUME NEW j \in DOMAIN s, j \in write[p] .. k - 1
      PROVE  s[j][p] = cur[p]
  <2>1. j \in write[p] .. at
    BY <1>1, <1>2, <1>4
  <2> QED BY <1>2, <2>1
<1> QED BY <1>2, <1>3, <1>4 DEF Tells, StartsAt

\* ... and leaves nothing untold.
LEMMA ComparedTold ==
    ASSUME NEW d, NEW s, Snapshots(s), NEW at \in Nat \cup {Never}, NEW cur \in Snapshot, NEW write,
           Cursor(s, at, cur, write), NEW k \in DOMAIN s, k > at, \A j \in DOMAIN s : j > at => k <= j,
           NEW known, NEW more, known \subseteq more, Told(d, s, at, known),
           \A p \in Packages : (at # Never /\ cur[p] # None /\ s[k][p] # cur[p]) =>
               \E e \in more : /\ e.db = d /\ e.pkg = p /\ e.old = cur[p]
                               /\ e.oldAt = write[p] /\ e.newAt = k
    PROVE  Told(d, s, k, more)
<1>1. k \in Nat /\ DOMAIN s \subseteq Nat /\ at \in Int
  BY DEF Snapshots, Never
<1> SUFFICES ASSUME NEW i \in DOMAIN s, NEW p \in Packages, s[i][p] # None,
                    NEW j \in DOMAIN s, i < j, j <= k, s[j][p] # s[i][p]
             PROVE  \E e \in more : /\ e.db = d /\ e.pkg = p /\ e.old = s[i][p]
                                    /\ e.oldAt <= i /\ i < e.newAt
  BY DEF Told
<1>2. CASE \E h \in DOMAIN s : i < h /\ h <= at /\ s[h][p] # s[i][p]
  BY <1>2 DEF Told
<1>3. CASE \A h \in DOMAIN s : i < h /\ h <= at => s[h][p] = s[i][p]
  <2>1. j = k /\ i <= at
    BY <1>1, <1>3
  <2>2. at # Never /\ at \in Nat
    BY <1>1, <2>1 DEF Never
  <2>3. at \in DOMAIN s /\ cur = s[at]
    BY <2>2 DEF Cursor
  <2>4. cur[p] = s[i][p]
    BY <1>1, <1>3, <2>1, <2>3
  <2>5. write[p] \in DOMAIN s /\ write[p] <= at /\ StartsAt(s, p, cur[p], write[p])
    BY <2>2, <2>4 DEF Cursor
  <2>6. \A h \in DOMAIN s : i <= h /\ h <= at => s[h][p] = cur[p]
    BY <1>1, <1>3, <2>4
  <2>7. write[p] <= i
    BY <1>1, <2>2, <2>5, <2>6, StartedBefore
  <2>8. PICK e \in more : e.db = d /\ e.pkg = p /\ e.old = cur[p] /\ e.oldAt = write[p] /\ e.newAt = k
    BY <2>1, <2>2, <2>4
  <2> QED BY <1>1, <2>1, <2>4, <2>7, <2>8
<1> QED BY <1>2, <1>3

\* Two events that tell of one version in one snapshot are one.
LEMMA TellsOnce ==
    ASSUME NEW s, DOMAIN s \subseteq Nat, NEW e \in Event, NEW f \in Event, Tells(e, s), Tells(f, s),
           e.db = f.db, e.pkg = f.pkg, e.old = f.old,
           NEW k \in DOMAIN s, e.oldAt <= k, k < e.newAt, f.oldAt <= k, k < f.newAt
    PROVE  e = f
<1>1. e.oldAt \in Nat /\ e.newAt \in Nat /\ f.oldAt \in Nat /\ f.newAt \in Nat /\ k \in Nat
  BY DEF Event
<1>2. ASSUME NEW a \in Event, NEW b \in Event, Tells(a, s), Tells(b, s), a.pkg = b.pkg, a.old = b.old,
             a.oldAt <= k, k < a.newAt, b.oldAt <= k, k < b.newAt
      PROVE  a.newAt <= b.newAt /\ b.oldAt <= a.oldAt
  <2>1. a.oldAt \in Nat /\ a.newAt \in Nat /\ b.oldAt \in Nat /\ b.newAt \in Nat
    BY DEF Event
  <2>2. a.newAt <= b.newAt
    <3> SUFFICES ASSUME b.newAt < a.newAt PROVE FALSE
      BY <2>1
    <3>1. b.newAt \in DOMAIN s /\ b.newAt \in a.oldAt .. a.newAt - 1
      BY <1>1, <1>2, <2>1 DEF Tells
    <3>2. s[b.newAt][a.pkg] = a.old
      BY <1>2, <3>1 DEF Tells
    <3> QED BY <1>2, <3>2 DEF Tells
  <2>3. b.oldAt <= a.oldAt
    <3>1. StartsAt(s, b.pkg, b.old, b.oldAt) /\ b.oldAt \in DOMAIN s /\ a.oldAt \in DOMAIN s
      BY <1>2 DEF Tells, StartsAt
    <3>2. \A j \in DOMAIN s : a.oldAt <= j /\ j <= k => s[j][b.pkg] = b.old
      <4> SUFFICES ASSUME NEW j \in DOMAIN s, a.oldAt <= j, j <= k PROVE s[j][a.pkg] = a.old
        BY <1>2
      <4>1. j \in a.oldAt .. a.newAt - 1
        BY <1>1, <1>2, <2>1
      <4> QED BY <1>2, <4>1 DEF Tells
    <3> QED BY <1>1, <1>2, <3>1, <3>2, StartedBefore
  <2> QED BY <2>2, <2>3
<1>3. e.newAt <= f.newAt /\ f.oldAt <= e.oldAt
  BY <1>2
<1>4. f.newAt <= e.newAt /\ e.oldAt <= f.oldAt
  BY <1>2
<1>5. e.newAt = f.newAt /\ e.oldAt = f.oldAt
  BY <1>1, <1>3, <1>4
<1>6. e.new = f.new
  BY <1>5 DEF Tells
<1> QED BY <1>5, <1>6 DEF Event

LEMMA StatesAreSnapshots ==
    ASSUME TimelineTypeOK, NEW d \in DBs
    PROVE  Snapshots(States(d)) /\ DOMAIN States(d) \subseteq 0 .. Len(image[d]) - 1
<1>1. image[d] \in Seq(Changes) /\ Len(image[d]) \in Nat
  BY DEF TimelineTypeOK
<1>2. Nothing \in Snapshot
  BY DEF Nothing, Snapshot
<1>3. ASSUME NEW k \in Ordinals(d) PROVE ChangeAt(d, k).holds \in Snapshot
  <2>1. ChangeAt(d, k) \in Changes
    <3>1. k + 1 \in 1 .. Len(image[d])
      BY <1>1 DEF Ordinals
    <3> QED BY <1>1, <3>1 DEF ChangeAt
  <2> QED BY <2>1 DEF Changes, Change
<1>4. Writes(d) \subseteq Ordinals(d) /\ Removals(d) \subseteq Ordinals(d) /\ Ordinals(d) \subseteq Nat
  BY <1>1 DEF Writes, Removals, Ordinals
<1>5. CASE ~HasHistory(d)
  BY <1>5 DEF States, Snapshots
<1>6. CASE HasHistory(d)
  <2> DEFINE read == {k \in Writes(d) : ChangeAt(d, k).readable}
             s == [k \in read \cup Removals(d) |-> IF k \in read THEN ChangeAt(d, k).holds ELSE Nothing]
  <2>1. States(d) = s
    BY <1>6 DEF States
  <2>2. DOMAIN s = read \cup Removals(d) /\ read \subseteq Writes(d)
    OBVIOUS
  <2>3. \A k \in read \cup Removals(d) : s[k] \in Snapshot
    BY <1>2, <1>3, <1>4
  <2> HIDE DEF s, read
  <2>4. DOMAIN s \subseteq Ordinals(d)
    BY <1>4, <2>2
  <2> QED BY <1>4, <2>1, <2>2, <2>3, <2>4 DEF Snapshots, Ordinals
<1> QED BY <1>5, <1>6

LEMMA TimelineStarts == TimelineInit => TimelineInv
<1> SUFFICES ASSUME TimelineInit PROVE TimelineInv
  OBVIOUS
<1>1. TimelineTypeOK
  <2>1. Nothing \in Snapshot
    BY DEF Nothing, Snapshot
  <2>2. image \in [DBs -> Seq(Changes)]
    BY DEF TimelineInit
  <2> QED BY <2>1, <2>2, TimelineAssumption DEF TimelineInit, TimelineTypeOK, Never
<1>2. \A d \in DBs : image[d] = <<>> /\ Len(image[d]) = 0 /\ Len(image[d]) <= MaxHistory
  BY TimelineAssumption DEF TimelineInit
<1>3. db \in DBs => Told(db, States(db), prevAt, events)
  BY <1>1, StatesAreSnapshots DEF TimelineInit, Told, Snapshots, Never
<1>4. db \in DBs => Cursor(States(db), prevAt, prev, prevWrite)
  BY DEF TimelineInit, Cursor
<1> QED BY <1>1, <1>2, <1>3, <1>4 DEF TimelineInit, TimelineInv

LEMMA BuildKeeps ==
    ASSUME TimelineInv, NEW change \in [DBs -> Changes], BuildLayer(change)
    PROVE  TimelineInv'
<1>1. TimelineTypeOK /\ phase = "layers" /\ UNCHANGED <<phase, db, prev, prevWrite, prevAt, events>>
      /\ image' = [d \in DBs |-> Append(image[d], change[d])]
  BY DEF TimelineInv, BuildLayer, scan
<1>2. TimelineTypeOK'
  BY <1>1 DEF TimelineTypeOK
<1>3. \A d \in DBs : Len(image'[d]) <= MaxHistory
  <2> SUFFICES ASSUME NEW d \in DBs PROVE Len(image'[d]) <= MaxHistory
    OBVIOUS
  <2>1. Len(image[d]) < MaxHistory /\ image[d] \in Seq(Changes) /\ change[d] \in Changes
    BY <1>1 DEF BuildLayer, TimelineTypeOK
  <2>2. Len(Append(image[d], change[d])) = Len(image[d]) + 1
    BY <2>1
  <2> QED BY <1>1, <2>1, <2>2, TimelineAssumption
<1>4. prevAt = Never /\ events = {} /\ prev = Nothing /\ db = 1
  BY <1>1 DEF TimelineInv
<1>5. db' \in DBs => Told(db, States(db), prevAt, events)'
  <2> SUFFICES ASSUME db' \in DBs PROVE Told(db', States(db)', Never, events')
    BY <1>1, <1>4
  <2>1. Len(image'[db']) \in Nat
    BY <1>2 DEF TimelineTypeOK
  <2>2. DOMAIN States(db)' \subseteq Nat
    <3>1. Ordinals(db)' \subseteq Nat
      BY <2>1 DEF Ordinals
    <3>2. Writes(db)' \subseteq Nat /\ Removals(db)' \subseteq Nat
      BY <3>1 DEF Writes, Removals
    <3> QED BY <3>2 DEF States
  <2> QED BY <2>2 DEF Told, Never
<1>6. Cursor(States(db), prevAt, prev, prevWrite)'
  BY <1>1, <1>4 DEF Cursor
<1> QED BY <1>1, <1>2, <1>3, <1>4, <1>5, <1>6 DEF TimelineInv

LEMMA TravelKeeps ==
    ASSUME TimelineInv, StartTravel
    PROVE  TimelineInv'
<1>1. phase = "layers" /\ phase' = "diff" /\ UNCHANGED <<image, db, prev, prevWrite, prevAt, events>>
  BY DEF StartTravel
<1>2. TimelineTypeOK' /\ db = 1
  BY <1>1 DEF TimelineInv, TimelineTypeOK
<1>3. \A d : States(d)' = States(d)
  BY <1>1 DEF States, HasHistory, Writes, Removals, Ordinals, ChangeAt
<1>4. \A d \in DBs : ~(d < db)
  BY <1>2 DEF DBs
<1> QED BY <1>1, <1>2, <1>3, <1>4 DEF TimelineInv

LEMMA CompareKeeps ==
    ASSUME TimelineInv, Compare
    PROVE  TimelineInv'
<1>1. /\ TimelineTypeOK /\ phase = "diff" /\ db \in DBs /\ UNCHANGED <<image, phase, db>>
      /\ Cursor(States(db), prevAt, prev, prevWrite) /\ Told(db, States(db), prevAt, events)
      /\ prevAt = Never => prev = Nothing
  BY DEF TimelineInv, Compare
<1>2. PICK s : s = States(db)
  OBVIOUS
<1>3. PICK k \in DOMAIN s :
          /\ k > prevAt
          /\ \A j \in DOMAIN s : j > prevAt => k <= j
          /\ events' = events \cup (IF prevAt = Never THEN {} ELSE EventsAt(k, s[k]))
          /\ prevWrite' = [p \in Packages |-> IF s[k][p] # None /\ prev[p] # s[k][p] THEN k ELSE prevWrite[p]]
          /\ prev' = s[k]
          /\ prevAt' = k
  BY <1>2 DEF Compare
<1>4. Snapshots(s) /\ DOMAIN s \subseteq 0 .. Len(image[db]) - 1 /\ Len(image[db]) \in Nat /\ Len(image[db]) <= MaxHistory
  BY <1>1, <1>2, StatesAreSnapshots DEF TimelineTypeOK, TimelineInv
<1>5. k \in Nat /\ k <= MaxHistory /\ k # Never /\ s[k] \in Snapshot /\ prev \in Snapshot /\ prevAt \in Nat \cup {Never}
  BY <1>1, <1>4, TimelineAssumption DEF Snapshots, TimelineTypeOK, Never
<1>6. Cursor(s, prevAt, prev, prevWrite) /\ Told(db, s, prevAt, events)
  BY <1>1, <1>2
<1>7. Cursor(s, k, s[k], prevWrite')
  BY <1>3, <1>4, <1>5, <1>6, CursorMoves
<1>8. ASSUME NEW e \in EventsAt(k, s[k]), prevAt # Never
      PROVE  e \in Event /\ e.db = db /\ Tells(e, s)
  <2>1. PICK p \in Packages :
            /\ prev[p] # None /\ s[k][p] # prev[p]
            /\ e = [db |-> db, pkg |-> p, old |-> prev[p],
                    oldAt |-> IF prevWrite[p] # Never THEN prevWrite[p] ELSE prevAt,
                    new |-> s[k][p], newAt |-> k]
    BY <1>8 DEF EventsAt
  <2>2. prevWrite[p] # Never /\ prevWrite[p] \in DOMAIN s
    BY <1>6, <1>8, <2>1 DEF Cursor
  <2>3. prevWrite[p] \in Nat /\ prev[p] \in Versions /\ s[k][p] \in Versions \cup {None}
    BY <1>4, <1>5, <2>1, <2>2 DEF Snapshots, Snapshot
  <2>4. e = [db |-> db, pkg |-> p, old |-> prev[p], oldAt |-> prevWrite[p], new |-> s[k][p], newAt |-> k]
    BY <2>1, <2>2
  <2>5. /\ e \in Event /\ e.db = db /\ e.pkg = p /\ e.old = prev[p] /\ e.oldAt = prevWrite[p]
        /\ e.new = s[k][p] /\ e.newAt = k
    BY <1>1, <1>5, <2>3, <2>4 DEF Event
  <2>6. Tells(e, s)
    BY <1>3, <1>4, <1>5, <1>6, <1>8, <2>1, <2>5, ComparedTells
  <2> QED BY <2>5, <2>6
<1>9. TimelineTypeOK'
  <2>1. events' \subseteq Event
    BY <1>1, <1>3, <1>8 DEF TimelineTypeOK
  <2>2. prevWrite' \in [Packages -> Never .. MaxHistory]
    BY <1>1, <1>3, <1>5 DEF TimelineTypeOK, Never
  <2> QED BY <1>1, <1>3, <1>5, <2>1, <2>2 DEF TimelineTypeOK, Never
<1>10. \A d : States(d)' = States(d)
  BY <1>1 DEF States, HasHistory, Writes, Removals, Ordinals, ChangeAt
<1>11. \A e \in events' : e.db \in DBs /\ Tells(e, States(e.db))
  <2> SUFFICES ASSUME NEW e \in events' PROVE e.db \in DBs /\ Tells(e, States(e.db))
    OBVIOUS
  <2>1. CASE e \in events
    BY <2>1 DEF TimelineInv
  <2>2. CASE e \notin events
    <3>1. e \in EventsAt(k, s[k]) /\ prevAt # Never
      BY <1>3, <2>2
    <3> QED BY <1>1, <1>2, <1>8, <3>1
  <2> QED BY <2>1, <2>2
<1>12. Told(db, s, k, events')
  <2>1. ASSUME NEW p \in Packages, prevAt # Never, prev[p] # None, s[k][p] # prev[p]
        PROVE  \E e \in events' : /\ e.db = db /\ e.pkg = p /\ e.old = prev[p]
                                   /\ e.oldAt = prevWrite[p] /\ e.newAt = k
    <3> DEFINE e == [db |-> db, pkg |-> p, old |-> prev[p],
                     oldAt |-> IF prevWrite[p] # Never THEN prevWrite[p] ELSE prevAt,
                     new |-> s[k][p], newAt |-> k]
    <3>1. e \in events'
      BY <1>3, <2>1 DEF EventsAt
    <3>2. prevWrite[p] # Never
      BY <1>6, <2>1 DEF Cursor
    <3>3. e.db = db /\ e.pkg = p /\ e.old = prev[p] /\ e.oldAt = prevWrite[p] /\ e.newAt = k
      BY <3>2
    <3> QED BY <3>1, <3>3
  <2>2. events \subseteq events'
    BY <1>3
  <2>3. \A p \in Packages : (prevAt # Never /\ prev[p] # None /\ s[k][p] # prev[p]) =>
            \E e \in events' : /\ e.db = db /\ e.pkg = p /\ e.old = prev[p]
                               /\ e.oldAt = prevWrite[p] /\ e.newAt = k
    BY <2>1
  <2>4. k > prevAt /\ \A j \in DOMAIN s : j > prevAt => k <= j
    BY <1>3
  <2> QED BY <1>4, <1>5, <1>6, <2>2, <2>3, <2>4, ComparedTold
<1>13. \A d \in DBs : d < db => \A n \in Nat : Told(d, States(d), n, events')
  <2>1. \A d \in DBs : d < db => \A n \in Nat : Told(d, States(d), n, events)
    BY <1>1 DEF TimelineInv
  <2>2. events \subseteq events'
    BY <1>3
  <2> QED BY <2>1, <2>2 DEF Told
<1>14. \A d \in DBs : Len(image[d]) <= MaxHistory
  BY DEF TimelineInv
<1> QED BY <1>1, <1>2, <1>3, <1>5, <1>7, <1>9, <1>10, <1>11, <1>12, <1>13, <1>14 DEF TimelineInv

LEMMA NextDBKeeps ==
    ASSUME TimelineInv, NextDB
    PROVE  TimelineInv'
<1>1. /\ TimelineTypeOK /\ phase = "diff" /\ db \in DBs /\ UNCHANGED <<image, events>> /\ db' = db + 1
      /\ Told(db, States(db), prevAt, events) /\ prevAt' = Never /\ prev' = Nothing
      /\ \A j \in DOMAIN States(db) : j <= prevAt
  BY DEF TimelineInv, NextDB
<1>2. TimelineTypeOK'
  <2>1. Nothing \in Snapshot
    BY DEF Nothing, Snapshot
  <2> QED BY <1>1, <2>1, TimelineAssumption DEF TimelineTypeOK, NextDB, DBs, Never
<1>3. \A d : States(d)' = States(d)
  BY <1>1 DEF States, HasHistory, Writes, Removals, Ordinals, ChangeAt
<1>4. \A n \in Nat : Told(db, States(db), n, events)
  BY <1>1 DEF Told
<1>5. \A d \in DBs : d < db' => \A n \in Nat : Told(d, States(d), n, events)
  <2>1. \A d \in DBs : d < db' => d < db \/ d = db
    BY <1>1 DEF DBs
  <2> QED BY <1>1, <1>4, <2>1 DEF TimelineInv
<1>6. db' \in DBs => Told(db', States(db'), Never, events)
  BY <1>1, StatesAreSnapshots DEF Told, Snapshots, Never
<1>7. Cursor(States(db'), Never, Nothing, prevWrite')
  BY DEF Cursor
<1>8. phase' # "layers" /\ (phase' = "done" => db' = NumDBs + 1)
  BY <1>1 DEF NextDB
<1> QED BY <1>1, <1>2, <1>3, <1>5, <1>6, <1>7, <1>8 DEF TimelineInv

LEMMA TimelineInductive == TimelineInv /\ [TimelineNext]_timelineVars => TimelineInv'
<1> SUFFICES ASSUME TimelineInv, [TimelineNext]_timelineVars PROVE TimelineInv'
  OBVIOUS
<1>1. CASE UNCHANGED timelineVars
  <2>1. UNCHANGED <<image, phase, db, prev, prevWrite, prevAt, events>>
    BY <1>1 DEF timelineVars, scan
  <2>2. \A d : States(d)' = States(d)
    BY <2>1 DEF States, HasHistory, Writes, Removals, Ordinals, ChangeAt
  <2> QED BY <2>1, <2>2 DEF TimelineInv, TimelineTypeOK
<1> QED BY <1>1, BuildKeeps, TravelKeeps, CompareKeeps, NextDBKeeps DEF TimelineNext

-----------------------------------------------------------------------------
\* What the invariant says of the events, when the scan is done and before.

LEMMA InvTellsHistory == TimelineInv => EventsTellHistory
BY DEF TimelineInv, EventsTellHistory, Tells

LEMMA InvForgetsNothing == TimelineInv => NothingForgotten
<1> SUFFICES ASSUME TimelineInv, phase = "done", NEW d \in DBs, NEW k \in DOMAIN States(d), NEW p \in Packages,
                    States(d)[k][p] # None
             PROVE  Cardinality({e \in events : /\ e.db = d /\ e.pkg = p /\ e.old = States(d)[k][p]
                                                /\ e.oldAt <= k /\ k < e.newAt})
                      = IF \A j \in {i \in DOMAIN States(d) : i > k} : States(d)[j][p] = States(d)[k][p] THEN 0 ELSE 1
  BY DEF NothingForgotten
<1> DEFINE s == States(d)
           telling == {e \in events : e.db = d /\ e.pkg = p /\ e.old = s[k][p] /\ e.oldAt <= k /\ k < e.newAt}
<1>1. Snapshots(s) /\ DOMAIN s \subseteq Nat /\ events \subseteq Event
  BY StatesAreSnapshots DEF TimelineInv, TimelineTypeOK, Snapshots
<1>2. \A e \in telling : e \in events /\ e \in Event /\ Tells(e, s) /\ e.db = d /\ e.pkg = p /\ e.old = s[k][p]
                         /\ e.oldAt <= k /\ k < e.newAt
  BY <1>1 DEF TimelineInv
<1>3. CASE \A j \in DOMAIN s : j > k => s[j][p] = s[k][p]
  <2>1. ASSUME NEW e \in telling PROVE FALSE
    <3>1. e.newAt \in DOMAIN s /\ s[e.newAt][p] # s[k][p]
      BY <1>2 DEF Tells
    <3> QED BY <1>1, <1>2, <1>3, <3>1 DEF Event
  <2>2. telling = {}
    BY <2>1
  <2>3. Cardinality({}) = 0
    BY FS_EmptySet
  <2> QED BY <1>3, <2>2, <2>3
<1>4. CASE \E j \in DOMAIN s : j > k /\ s[j][p] # s[k][p]
  <2>1. PICK j \in DOMAIN s : j > k /\ s[j][p] # s[k][p]
    BY <1>4
  <2>2. d < db /\ j \in Nat /\ k \in Nat
    BY <1>1, <2>1, TimelineAssumption DEF TimelineInv, DBs
  <2>3. Told(d, s, j, events)
    BY <2>2 DEF TimelineInv
  <2>4. PICK e \in events : e.db = d /\ e.pkg = p /\ e.old = s[k][p] /\ e.oldAt <= k /\ k < e.newAt
    BY <2>1, <2>2, <2>3 DEF Told
  <2>5. e \in telling
    BY <2>4
  <2>6. \A f \in telling : f = e
    BY <1>1, <1>2, <2>5, TellsOnce
  <2>7. telling = {e}
    <3> HIDE DEF telling
    <3> QED BY <2>5, <2>6
  <2>8. Cardinality({e}) = 1
    BY FS_Singleton
  <2> QED BY <1>4, <2>7, <2>8
<1> QED BY <1>3, <1>4

LEMMA FirstExists ==
    ASSUME NEW S \in SUBSET Nat, S # {}
    PROVE  First(S) \in S
<1>0. S \subseteq Nat
  OBVIOUS
<1>1. PICK x \in S : \A y \in S : ~(<<y, x>> \in OpToRel(<, Nat))
  BY <1>0, NatLessThanWellFounded, WFMin, Zenon
<1>2. \A y \in S : ~(y < x)
  BY <1>0, <1>1 DEF OpToRel
<1>3. \A y \in S : x <= y
  BY <1>0, <1>2
<1> QED BY <1>3 DEF First

LEMMA LastExists ==
    ASSUME NEW b \in Nat, NEW S \in SUBSET (0 .. b), S # {}
    PROVE  Last(S) \in S
<1>1. \E m \in S : \A j \in S : j <= m
  BY LatestExists
<1> QED BY <1>1 DEF Last

LEMMA InvWitnessesAttribution == TimelineInv => AttributionIsWitnessed
<1> SUFFICES ASSUME TimelineInv, NEW d \in DBs, NEW p \in Packages, Installed(d, p) # None
             PROVE  \E w \in DBs : \E k \in Writes(w) :
                        k = Introducing(d, p) /\ ChangeAt(w, k).holds[p] = Installed(d, p)
  BY DEF AttributionIsWitnessed
<1>0. TimelineTypeOK
  BY DEF TimelineInv
<1>1. CASE FirstSeen(p, Installed(d, p)) # Never
  <2> DEFINE seen == {k \in UNION {DOMAIN States(x) : x \in DBs} : Merged(k, p) = Installed(d, p)}
             k == Introducing(d, p)
  <2>1. k = First(seen) /\ seen # {}
    BY <1>1 DEF Introducing, FirstSeen
  <2>2. seen \subseteq Nat
    BY <1>0, StatesAreSnapshots DEF Snapshots
  <2>3. k \in seen
    <3> HIDE DEF seen, k
    <3> QED BY <2>1, <2>2, FirstExists
  <2>4. Merged(k, p) = Installed(d, p)
    BY <2>3
  <2> HIDE DEF seen, k
  <2> DEFINE holding == {x \in DBs : k \in DOMAIN States(x) /\ States(x)[k][p] # None}
  <2>5. holding # {} /\ Installed(d, p) = States(Last(holding))[k][p]
    BY <2>4 DEF Merged
  <2>6. holding \in SUBSET (0 .. NumDBs) /\ NumDBs \in Nat
    BY TimelineAssumption DEF DBs
  <2>7. Last(holding) \in holding
    <3> HIDE DEF holding
    <3> QED BY <2>5, <2>6, LastExists
  <2>8. PICK w \in DBs : k \in DOMAIN States(w) /\ States(w)[k][p] # None /\ Installed(d, p) = States(w)[k][p]
    BY <2>5, <2>7
  <2>9. k \in Writes(w) /\ States(w)[k] = ChangeAt(w, k).holds
    <3>1. HasHistory(w)
      BY <2>8 DEF States
    <3> DEFINE read == {i \in Writes(w) : ChangeAt(w, i).readable}
    <3>2. States(w) = [i \in read \cup Removals(w) |-> IF i \in read THEN ChangeAt(w, i).holds ELSE Nothing]
      BY <3>1 DEF States
    <3>3. k \in read \cup Removals(w) /\ States(w)[k] = IF k \in read THEN ChangeAt(w, k).holds ELSE Nothing
      BY <2>8, <3>2
    <3>4. k \in read
      BY <2>8, <3>3 DEF Nothing
    <3> QED BY <3>3, <3>4
  <2> QED BY <2>8, <2>9 DEF k
<1>2. CASE FirstSeen(p, Installed(d, p)) = Never
  <2>1. Introducing(d, p) = Last(Writes(d))
    BY <1>2 DEF Introducing
  <2>2. PresentAfter(d, Len(image[d]) - 1) /\ Installed(d, p) = ChangeAt(d, Last(Writes(d))).holds[p]
    BY DEF Installed
  <2>3. Writes(d) # {}
    BY <2>2 DEF PresentAfter, Writes, Ordinals
  <2>4. Writes(d) \in SUBSET (0 .. Len(image[d])) /\ Len(image[d]) \in Nat
    <3>1. Len(image[d]) \in Nat
      BY <1>0 DEF TimelineTypeOK
    <3> QED BY <3>1 DEF Writes, Ordinals
  <2>5. Last(Writes(d)) \in Writes(d)
    BY <2>3, <2>4, LastExists
  <2> QED BY <2>1, <2>2, <2>5
<1> QED BY <1>1, <1>2

\* Whatever the layers did to the databases, the events of the time travel are
\* true, tell every change of every version once, and each installed package is
\* put down to a layer that wrote it (diff_timeline, _apply_timeline).
THEOREM HistoryAlwaysTold == TimelineSpec => []HistoryIsTold
<1>1. TimelineInit => TimelineInv
  BY TimelineStarts
<1>2. TimelineInv /\ [TimelineNext]_timelineVars => TimelineInv'
  BY TimelineInductive
<1>3. TimelineInv => HistoryIsTold
  BY InvTellsHistory, InvForgetsNothing, InvWitnessesAttribution DEF HistoryIsTold
<1> QED BY <1>1, <1>2, <1>3, PTL DEF TimelineSpec

-----------------------------------------------------------------------------
(* The pull *)

\* What the registry and the cache hold, whatever a pull is doing.
CacheInv ==
    /\ tagged \in published \cup {Unknown}
    /\ \A m \in attached : AttestedBy[m] \in Manifests
    /\ manifests[Tag] \in published \cup {Junk, Unknown}
    /\ \A m \in Manifests : manifests[FallbackTag(m)] \in AttestationOf(m) \cup {Junk, Unknown}
    /\ \A m \in Manifests : referrers[m] = Unknown \/ referrers[m] \subseteq AttestationOf(m)

\* What a pull can find: the part of the state its outcome depends on.
World == [manifests |-> manifests, cached |-> cached, published |-> published, attached |-> attached]
NamesIn(w, ref) == IF ref = Tag THEN w.published ELSE {ref}
AttestedIn(w, m) == IF m \in w.attached THEN {AttestedBy[m]} ELSE {}

\* The reference of p leads, in the manifest cache of w, to the manifest of p.
Resolved(p, w) ==
    /\ p.manifest \in Manifests
    /\ \E d \in NamesIn(w, p.ref) : p.manifest = ManifestOf(d) /\ w.manifests[p.ref] = d
    /\ w.manifests[p.manifest] = p.manifest

Furnished(p, w) == p.config = ConfigOf[p.manifest] /\ p.config \in w.cached

Attested(p, w) == p.attestation # Unknown => p.attestation \in AttestedIn(w, p.manifest)

\* What is there, what is asked for and what is yet to ask for make up all.
AddUp(have, asked, todo, all) ==
    /\ Len(all) = Len(have) + asked + Len(todo)
    /\ \A i \in 1 .. Len(have) : have[i] = all[i]
    /\ \A i \in 1 .. Len(todo) : todo[i] = all[Len(have) + asked + i]

InCache(have, w) == \A i \in 1 .. Len(have) : have[i] \in w.cached

\* What is asked for now is what the part is about.
AsksRight(p, w) ==
    /\ p.part = "image" =>
         /\ p.want \in References
         /\ p.want = p.ref \/ \E i \in Indexes : i \in NamesIn(w, p.ref) /\ w.manifests[p.ref] = i /\ ChildOf[i] = p.want
    /\ p.part \in {"config", "envelopes", "layers"} => p.want \in Blobs
    /\ p.part = "config" => p.want = ConfigOf[p.manifest]
    /\ p.part = "fallback" => p.want = FallbackTag(p.manifest)
    /\ p.part = "attestation" => p.want \in AttestedIn(w, p.manifest)
    /\ p.part = "layers" =>
         /\ AddUp(p.layers, 1, p.todo, LayersOf[p.manifest])
         /\ p.want = LayersOf[p.manifest][Len(p.layers) + 1]
         /\ InCache(p.layers, w)

AnswerRight(p, w) ==
    /\ p.part \in {"image", "fallback", "attestation"} => p.reply = w.manifests[p.want]
    /\ p.part = "referrers" => p.reply = Junk \/ p.reply \subseteq AttestedIn(w, p.manifest)

Sound(p, w) ==
    /\ p.at \in {"lookup", "request", "check"} =>
         /\ p.ref \in References
         /\ p.part = "image" => p.attestation = Unknown
         /\ p.part # "image" => Resolved(p, w)
         /\ p.part \notin {"image", "config"} => Furnished(p, w)
         /\ p.part # "layers" => p.layers = <<>>
         /\ Attested(p, w)
         /\ AsksRight(p, w)
    /\ p.at = "check" => AnswerRight(p, w)
    /\ p.at = "done" =>
         /\ p.ref \in References /\ Resolved(p, w) /\ Furnished(p, w) /\ Attested(p, w)
         /\ p.todo = <<>> /\ AddUp(p.layers, 0, p.todo, LayersOf[p.manifest]) /\ InCache(p.layers, w)

PullInv == PullTypeOK /\ CacheInv /\ Sound(pull, World)

LEMMA FieldTypes == 0 \in Attempts /\ Unknown \in Wanted /\ Unknown \in Answers /\ Blobs \subseteq Wanted
BY PullAssumption DEF Attempts, Wanted, Answers

LEMMA PullStarts == PullInit => PullInv
<1> SUFFICES ASSUME PullInit PROVE PullInv
    OBVIOUS
<1> USE PullAssumption
<1>1. NoPull \in Pull
    BY FieldTypes DEF NoPull, Pull
<1>2. PullTypeOK
    BY <1>1 DEF PullInit, PullTypeOK
<1>3. Tag \in Named /\ \A m \in Manifests : FallbackTag(m) \in Named
    BY DEF Named, References, FallbackTags
<1>4. CacheInv
    BY <1>3 DEF PullInit, CacheInv
<1>5. Sound(pull, World)
    BY DEF PullInit, NoPull, Sound
<1> QED BY <1>2, <1>4, <1>5 DEF PullInv

-----------------------------------------------------------------------------
\* The next thing a pull asks for.

Asks(p, part, want, q) ==
    /\ q \in Pull /\ q.at = "lookup" /\ q.part = part /\ q.want = want
    /\ q.ref = p.ref /\ q.manifest = p.manifest /\ q.config = p.config
    /\ q.attestation = p.attestation /\ q.todo = p.todo /\ q.layers = p.layers

LEMMA AskTypes ==
    ASSUME NEW p \in Pull,
           NEW part \in {"image", "config", "referrers", "fallback", "attestation", "envelopes", "layers"},
           NEW want \in Wanted
    PROVE  Asks(p, part, want, Ask(p, part, want))
<1>1. Ask(p, part, want) \in Pull
    BY FieldTypes DEF Ask, Pull
<1>2. Ask(p, part, want).at = "lookup" /\ Ask(p, part, want).part = part /\ Ask(p, part, want).want = want
    BY DEF Ask, Pull
<1>3. Ask(p, part, want).ref = p.ref /\ Ask(p, part, want).manifest = p.manifest
    BY DEF Ask, Pull
<1>4. Ask(p, part, want).config = p.config /\ Ask(p, part, want).attestation = p.attestation
    BY DEF Ask, Pull
<1>5. Ask(p, part, want).todo = p.todo /\ Ask(p, part, want).layers = p.layers
    BY DEF Ask, Pull
<1> QED BY <1>1, <1>2, <1>3, <1>4, <1>5 DEF Asks

LEMMA StopTypes ==
    ASSUME NEW p \in Pull, NEW at \in {"done", "failed"}
    PROVE  /\ Stop(p, at) \in Pull
           /\ Stop(p, at).at = at
           /\ Stop(p, at).ref = p.ref /\ Stop(p, at).manifest = p.manifest
           /\ Stop(p, at).config = p.config /\ Stop(p, at).attestation = p.attestation
           /\ Stop(p, at).todo = p.todo /\ Stop(p, at).layers = p.layers
<1>1. Stop(p, at) \in Pull
    BY FieldTypes DEF Stop, Pull
<1>2. Stop(p, at).at = at
    BY DEF Stop, Pull
<1>3. Stop(p, at).ref = p.ref /\ Stop(p, at).manifest = p.manifest
    BY DEF Stop, Pull
<1>4. Stop(p, at).config = p.config /\ Stop(p, at).attestation = p.attestation
    BY DEF Stop, Pull
<1>5. Stop(p, at).todo = p.todo /\ Stop(p, at).layers = p.layers
    BY DEF Stop, Pull
<1> QED BY <1>1, <1>2, <1>3, <1>4, <1>5

\* The first of what is left is asked for.
AsksNext(p, part, q) ==
    /\ Head(p.todo) \in Blobs
    /\ q \in Pull /\ q.at = "lookup" /\ q.part = part /\ q.want = Head(p.todo)
    /\ q.ref = p.ref /\ q.manifest = p.manifest /\ q.config = p.config
    /\ q.attestation = p.attestation /\ q.todo = Tail(p.todo) /\ q.layers = p.layers

LEMMA AskNext ==
    ASSUME NEW p \in Pull, NEW part \in {"envelopes", "layers"}, p.todo # <<>>,
           NEW q, q = [Ask(p, part, Head(p.todo)) EXCEPT !.todo = Tail(@)]
    PROVE  AsksNext(p, part, q)
<1>0. Head(p.todo) \in Blobs /\ Head(p.todo) \in Wanted /\ Tail(p.todo) \in Seq(Blobs)
    BY FieldTypes DEF Pull
<1>1. q \in Pull
    <2>1. PICK a : a = Ask(p, part, Head(p.todo))
        OBVIOUS
    <2>2. a \in Pull
        BY <1>0, <2>1, FieldTypes DEF Ask, Pull
    <2>3. [a EXCEPT !.todo = Tail(@)] = [a EXCEPT !.todo = Tail(p.todo)]
        BY <2>1 DEF Ask, Pull
    <2> QED BY <1>0, <2>1, <2>2, <2>3 DEF Pull
<1>2. q.at = "lookup" /\ q.part = part /\ q.want = Head(p.todo)
    BY <1>0 DEF Ask, Pull
<1>3. q.ref = p.ref /\ q.manifest = p.manifest /\ q.config = p.config /\ q.attestation = p.attestation
    BY <1>0 DEF Ask, Pull
<1>4. q.todo = Tail(p.todo) /\ q.layers = p.layers
    BY <1>0 DEF Ask, Pull
<1> QED BY <1>0, <1>1, <1>2, <1>3, <1>4 DEF AsksNext

LEMMA AddUpNext ==
    ASSUME NEW S, NEW have \in Seq(S), NEW todo \in Seq(S), NEW all, todo # <<>>, AddUp(have, 0, todo, all)
    PROVE  AddUp(have, 1, Tail(todo), all) /\ Head(todo) = all[Len(have) + 1]
<1> DEFINE n == Len(have)
           m == Len(todo)
<1>1. n \in Nat /\ m \in Nat \ {0} /\ Len(Tail(todo)) = m - 1 /\ Head(todo) = todo[1]
    OBVIOUS
<1>2. \A i \in 1 .. m - 1 : Tail(todo)[i] = todo[i + 1]
    OBVIOUS
<1>3. /\ Len(all) = n + m
      /\ \A i \in 1 .. n : have[i] = all[i]
      /\ \A i \in 1 .. m : todo[i] = all[n + i]
    BY <1>1 DEF AddUp
<1> HIDE DEF n, m
<1>4. Len(all) = n + 1 + (m - 1)
    BY <1>1, <1>3
<1>5. \A i \in 1 .. m - 1 : Tail(todo)[i] = all[n + 1 + i]
    <2> SUFFICES ASSUME NEW i \in 1 .. m - 1 PROVE Tail(todo)[i] = all[n + 1 + i]
        OBVIOUS
    <2>1. i + 1 \in 1 .. m /\ n + (i + 1) = n + 1 + i
        BY <1>1
    <2>2. todo[i + 1] = all[n + (i + 1)]
        BY <1>3, <2>1
    <2> QED BY <1>2, <2>1, <2>2
<1>6. todo[1] = all[n + 1]
    <2>1. 1 \in 1 .. m
        BY <1>1
    <2> QED BY <1>3, <2>1
<1> QED BY <1>1, <1>3, <1>4, <1>5, <1>6 DEF AddUp, n, m

\* With the layers so far right, so is the pull that asks for the next or ends.
LEMMA AskLayerSound ==
    ASSUME NEW p \in Pull, NEW w, p.ref \in References,
           Resolved(p, w), Furnished(p, w), Attested(p, w),
           AddUp(p.layers, 0, p.todo, LayersOf[p.manifest]), InCache(p.layers, w)
    PROVE  AskLayer(p) \in Pull /\ Sound(AskLayer(p), w)
<1>1. CASE p.todo = <<>>
    <2>1. PICK q : q = Stop(p, "done")
        OBVIOUS
    <2>2. /\ q \in Pull /\ q.at = "done" /\ q.ref = p.ref /\ q.manifest = p.manifest
          /\ q.config = p.config /\ q.attestation = p.attestation /\ q.todo = p.todo /\ q.layers = p.layers
        BY <2>1, StopTypes
    <2>3. Resolved(q, w) /\ Furnished(q, w) /\ Attested(q, w)
        BY <2>2 DEF Resolved, Furnished, Attested
    <2>4. AddUp(q.layers, 0, q.todo, LayersOf[q.manifest]) /\ InCache(q.layers, w)
        BY <2>2
    <2>5. Sound(q, w)
        BY <1>1, <2>2, <2>3, <2>4 DEF Sound
    <2> QED BY <1>1, <2>1, <2>2, <2>5 DEF AskLayer
<1>2. CASE p.todo # <<>>
    <2>1. PICK q : q = [Ask(p, "layers", Head(p.todo)) EXCEPT !.todo = Tail(@)]
        OBVIOUS
    <2>0. AsksNext(p, "layers", q)
        BY <1>2, <2>1, AskNext
    <2>2. /\ Head(p.todo) \in Blobs
          /\ q \in Pull /\ q.at = "lookup" /\ q.part = "layers" /\ q.want = Head(p.todo)
          /\ q.ref = p.ref /\ q.manifest = p.manifest /\ q.config = p.config
          /\ q.attestation = p.attestation /\ q.todo = Tail(p.todo) /\ q.layers = p.layers
        BY <2>0 DEF AsksNext
    <2>3. Resolved(q, w) /\ Furnished(q, w) /\ Attested(q, w)
        BY <2>2 DEF Resolved, Furnished, Attested
    <2>4. p.layers \in Seq(Blobs) /\ p.todo \in Seq(Blobs)
        BY DEF Pull
    <2>5. /\ AddUp(p.layers, 1, Tail(p.todo), LayersOf[p.manifest])
          /\ Head(p.todo) = LayersOf[p.manifest][Len(p.layers) + 1]
        BY <1>2, <2>4, AddUpNext
    <2>6. AsksRight(q, w)
        BY <2>2, <2>5 DEF AsksRight
    <2>7. Sound(q, w)
        BY <2>2, <2>3, <2>6 DEF Sound
    <2> QED BY <1>2, <2>1, <2>2, <2>7 DEF AskLayer
<1> QED BY <1>1, <1>2

\* With the manifest and the config right, so are the layers asked for.
LEMMA LayersSound ==
    ASSUME NEW p \in Pull, NEW w, p.ref \in References,
           Resolved(p, w), Furnished(p, w), Attested(p, w), p.layers = <<>>
    PROVE  Layers(p) \in Pull /\ Sound(Layers(p), w)
<1>1. PICK q : q = [p EXCEPT !.todo = LayersOf[p.manifest]]
    OBVIOUS
<1>2. LayersOf[p.manifest] \in Seq(Blobs)
    BY PullAssumption DEF Resolved
<1>3. /\ q \in Pull /\ q.ref = p.ref /\ q.manifest = p.manifest /\ q.config = p.config
      /\ q.attestation = p.attestation /\ q.todo = LayersOf[p.manifest] /\ q.layers = <<>>
    BY <1>1, <1>2 DEF Pull
<1>4. Resolved(q, w) /\ Furnished(q, w) /\ Attested(q, w)
    BY <1>3 DEF Resolved, Furnished, Attested
<1>5. AddUp(<<>>, 0, LayersOf[p.manifest], LayersOf[p.manifest]) /\ InCache(<<>>, w)
    BY <1>2 DEF AddUp, InCache
<1>6. AddUp(q.layers, 0, q.todo, LayersOf[q.manifest]) /\ InCache(q.layers, w)
    BY <1>3, <1>5
<1>7. AskLayer(q) \in Pull /\ Sound(AskLayer(q), w)
    BY <1>3, <1>4, <1>6, AskLayerSound
<1> QED BY <1>1, <1>7 DEF Layers

LEMMA AskEnvelopeSound ==
    ASSUME NEW p \in Pull, NEW w, p.ref \in References,
           Resolved(p, w), Furnished(p, w), Attested(p, w), p.layers = <<>>
    PROVE  AskEnvelope(p) \in Pull /\ Sound(AskEnvelope(p), w)
<1>1. CASE p.todo = <<>>
    BY <1>1, LayersSound DEF AskEnvelope
<1>2. CASE p.todo # <<>>
    <2>1. PICK q : q = [Ask(p, "envelopes", Head(p.todo)) EXCEPT !.todo = Tail(@)]
        OBVIOUS
    <2>0. AsksNext(p, "envelopes", q)
        BY <1>2, <2>1, AskNext
    <2>2. /\ Head(p.todo) \in Blobs
          /\ q \in Pull /\ q.at = "lookup" /\ q.part = "envelopes" /\ q.want = Head(p.todo)
          /\ q.ref = p.ref /\ q.manifest = p.manifest /\ q.config = p.config
          /\ q.attestation = p.attestation /\ q.todo = Tail(p.todo) /\ q.layers = p.layers
        BY <2>0 DEF AsksNext
    <2>3. Resolved(q, w) /\ Furnished(q, w) /\ Attested(q, w)
        BY <2>2 DEF Resolved, Furnished, Attested
    <2>4. Sound(q, w)
        BY <2>2, <2>3 DEF Sound, AsksRight
    <2> QED BY <1>2, <2>1, <2>2, <2>4 DEF AskEnvelope
<1> QED BY <1>1, <1>2

LEMMA AskSound ==
    ASSUME NEW p \in Pull, NEW w, NEW part \in {"config", "referrers", "fallback", "attestation"},
           NEW want \in Wanted, p.ref \in References,
           Resolved(p, w), part # "config" => Furnished(p, w), Attested(p, w), p.layers = <<>>,
           part = "config" => want = ConfigOf[p.manifest],
           part = "fallback" => want = FallbackTag(p.manifest),
           part = "attestation" => want \in AttestedIn(w, p.manifest)
    PROVE  Ask(p, part, want) \in Pull /\ Sound(Ask(p, part, want), w)
<1>1. PICK q : q = Ask(p, part, want)
    OBVIOUS
<1>2. /\ q \in Pull /\ q.at = "lookup" /\ q.part = part /\ q.want = want
      /\ q.ref = p.ref /\ q.manifest = p.manifest /\ q.config = p.config
      /\ q.attestation = p.attestation /\ q.layers = p.layers
    <2>1. Asks(p, part, want, q)
        BY <1>1, AskTypes
    <2> QED BY <2>1 DEF Asks
<1>3. Resolved(q, w) /\ Attested(q, w) /\ (Furnished(p, w) => Furnished(q, w))
    BY <1>2 DEF Resolved, Attested, Furnished
<1>4. part = "config" => want \in Blobs
    BY PullAssumption DEF Resolved
<1>5. AsksRight(q, w)
    BY <1>2, <1>4 DEF AsksRight
<1>6. Sound(q, w)
    BY <1>2, <1>3, <1>5 DEF Sound
<1> QED BY <1>1, <1>2, <1>6

LEMMA FallbacksWanted ==
    ASSUME NEW m \in Manifests
    PROVE  /\ FallbackTag(m) \in Wanted /\ FallbackTag(m) \in Named /\ FallbackTag(m) \notin References
           /\ ListOf(m) \in Wanted
BY PullAssumption DEF Wanted, Named, FallbackTags, Lists

\* What fails ends the pull, or is passed over.
LEMMA FailSound ==
    ASSUME pull \in Pull, NEW w, Sound(pull, w), Pulling
    PROVE  FailPart \in Pull /\ Sound(FailPart, w)
<1>1. pull.at \in {"lookup", "request", "check"}
    BY DEF Pulling
<1>2. CASE pull.part \in {"image", "config", "layers"}
    <2>1. FailPart = Stop(pull, "failed")
        BY <1>2 DEF FailPart
    <2>2. Stop(pull, "failed") \in Pull /\ Stop(pull, "failed").at = "failed"
        BY StopTypes
    <2> QED BY <2>1, <2>2 DEF Sound
<1>3. CASE pull.part \in {"referrers", "fallback", "attestation", "envelopes"}
    <2>1. /\ pull.ref \in References /\ Resolved(pull, w) /\ Furnished(pull, w) /\ Attested(pull, w)
          /\ pull.layers = <<>> /\ pull.manifest \in Manifests
        BY <1>1, <1>3 DEF Sound, Resolved
    <2>2. CASE pull.part = "referrers"
        <3>1. FailPart = Ask(pull, "fallback", FallbackTag(pull.manifest))
            BY <2>2 DEF FailPart
        <3> QED BY <2>1, <3>1, AskSound, FallbacksWanted
    <2>3. CASE pull.part \in {"fallback", "attestation", "envelopes"}
        <3>1. FailPart = Layers(pull)
            BY <2>3 DEF FailPart
        <3> QED BY <2>1, <3>1, LayersSound
    <2> QED BY <1>3, <2>2, <2>3
<1>4. pull.part \in {"image", "config", "referrers", "fallback", "attestation", "envelopes", "layers"}
    BY DEF Pull
<1> QED BY <1>2, <1>3, <1>4

\* What a pull has found stays found when the world around it grows.
LEMMA SoundGrows ==
    ASSUME NEW p, NEW w, NEW v, Sound(p, w), v.manifests = w.manifests, w.cached \subseteq v.cached,
           w.published \subseteq v.published, w.attached \subseteq v.attached
    PROVE  Sound(p, v)
<1>1. \A ref : NamesIn(w, ref) \subseteq NamesIn(v, ref)
    BY DEF NamesIn
<1>2. \A m : AttestedIn(w, m) \subseteq AttestedIn(v, m)
    BY DEF AttestedIn
<1>3. Resolved(p, w) => Resolved(p, v)
    BY <1>1 DEF Resolved
<1>4. Furnished(p, w) => Furnished(p, v)
    BY DEF Furnished
<1>5. Attested(p, w) => Attested(p, v)
    BY <1>2 DEF Attested
<1>6. InCache(p.layers, w) => InCache(p.layers, v)
    BY DEF InCache
<1>7. AsksRight(p, w) => AsksRight(p, v)
    BY <1>1, <1>2, <1>6 DEF AsksRight
<1>8. AnswerRight(p, w) => AnswerRight(p, v)
    BY <1>2 DEF AnswerRight
<1> QED BY <1>3, <1>4, <1>5, <1>6, <1>7, <1>8 DEF Sound

-----------------------------------------------------------------------------
\* The steps.

LEMMA AroundPull ==
    ASSUME PullInv, PushTag \/ AttachAttestation \/ TokenExpires
    PROVE  PullInv'
<1>1. PullTypeOK /\ CacheInv /\ Sound(pull, World)
    BY DEF PullInv
<1>2. /\ UNCHANGED <<manifests, referrers, cached, pull>>
      /\ published \subseteq published' /\ attached \subseteq attached'
    BY <1>1 DEF PushTag, AttachAttestation, TokenExpires, registryVars
<1>3. Sound(pull', World')
    BY <1>1, <1>2, SoundGrows DEF World
<1>4. PullTypeOK' /\ CacheInv'
    <2>1. CASE PushTag
        BY <1>1, <2>1, PullAssumption DEF PushTag, PullTypeOK, CacheInv, AttestationOf
    <2>2. CASE AttachAttestation
        BY <1>1, <2>2, PullAssumption DEF AttachAttestation, PullTypeOK, CacheInv, AttestationOf
    <2>3. CASE TokenExpires
        BY <1>1, <2>3 DEF TokenExpires, PullTypeOK, CacheInv, AttestationOf, registryVars
    <2> QED BY <2>1, <2>2, <2>3
<1> QED BY <1>3, <1>4 DEF PullInv

LEMMA EvictSound ==
    ASSUME PullInv, EvictImage
    PROVE  PullInv'
<1>1. PullTypeOK /\ CacheInv
    BY DEF PullInv
<1>2. UNCHANGED <<tagged, published, attached, token>> /\ pull' = NoPull
    BY DEF EvictImage, registryVars
<1>3. NoPull \in Pull
    BY FieldTypes DEF NoPull, Pull
<1>4. Sound(pull', World')
    BY <1>2 DEF NoPull, Sound
<1>5. PullTypeOK' /\ CacheInv'
    <2>1. ASSUME NEW r \in Named, manifests' = [manifests EXCEPT ![r] = Unknown], UNCHANGED <<referrers, cached>>
          PROVE  PullTypeOK' /\ CacheInv'
        <3>1. Tag \in Named /\ \A m \in Manifests : FallbackTag(m) \in Named
            BY FallbacksWanted DEF Named, References
        <3>2. \A x \in Named : manifests'[x] = manifests[x] \/ manifests'[x] = Unknown
            BY <1>1, <2>1 DEF PullTypeOK
        <3>3. PullTypeOK'
            BY <1>1, <1>2, <1>3, <2>1 DEF PullTypeOK
        <3> QED BY <1>1, <1>2, <2>1, <3>1, <3>2, <3>3 DEF CacheInv, AttestationOf
    <2>2. ASSUME NEW m \in Manifests, referrers' = [referrers EXCEPT ![m] = Unknown], UNCHANGED <<manifests, cached>>
          PROVE  PullTypeOK' /\ CacheInv'
        <3>1. PullTypeOK'
            BY <1>1, <1>2, <1>3, <2>2 DEF PullTypeOK
        <3>2. \A x \in Manifests : referrers'[x] = referrers[x] \/ referrers'[x] = Unknown
            BY <1>1, <2>2 DEF PullTypeOK
        <3> QED BY <1>1, <1>2, <2>2, <3>1, <3>2 DEF CacheInv, AttestationOf
    <2>3. ASSUME NEW b \in Blobs, cached' = cached \ {b}, UNCHANGED <<manifests, referrers>>
          PROVE  PullTypeOK' /\ CacheInv'
        BY <1>1, <1>2, <1>3, <2>3 DEF PullTypeOK, CacheInv, AttestationOf
    <2> QED BY <2>1, <2>2, <2>3 DEF EvictImage
<1> QED BY <1>4, <1>5 DEF PullInv

\* A step of the pull that leaves the caches and the registry alone.
LEMMA PullMoves ==
    ASSUME PullInv, UNCHANGED <<registryVars, manifests, referrers, cached>>, token' \in BOOLEAN,
           pull' \in Pull, Sound(pull', World)
    PROVE  PullInv'
<1>1. PullTypeOK' /\ CacheInv'
    BY DEF PullInv, PullTypeOK, CacheInv, AttestationOf, registryVars
<1>2. World' = World
    BY DEF World, registryVars
<1> QED BY <1>1, <1>2 DEF PullInv

LEMMA StartSound ==
    ASSUME PullInv, NEW ref \in Pulled, NEW offline \in BOOLEAN, StartPull(ref, offline)
    PROVE  PullInv'
<1>1. NoPull \in Pull
    BY FieldTypes DEF NoPull, Pull
<1>2. ref \in References /\ ref \in Wanted
    BY PullAssumption DEF Wanted, Named
<1>3. /\ pull' \in Pull /\ pull'.at = "lookup" /\ pull'.part = "image" /\ pull'.ref = ref /\ pull'.want = ref
      /\ pull'.attestation = Unknown /\ pull'.layers = <<>>
    BY <1>1, <1>2 DEF StartPull, NoPull, Pull
<1>4. Sound(pull', World)
    BY <1>2, <1>3 DEF Sound, AsksRight, Attested
<1> QED BY <1>3, <1>4, PullMoves DEF StartPull

\* What an answer or another attempt changes of a pull says nothing of what it found.
LEMMA AttemptSound ==
    ASSUME pull \in Pull, NEW w, Sound(pull, w), Pulling, pull.at # "check", NEW n \in Attempts,
           NEW q, q = [pull EXCEPT !.attempt = n]
    PROVE  q \in Pull /\ Sound(q, w)
<1>1. /\ q \in Pull /\ q.at = pull.at /\ q.part = pull.part /\ q.want = pull.want /\ q.ref = pull.ref
      /\ q.manifest = pull.manifest /\ q.config = pull.config /\ q.attestation = pull.attestation
      /\ q.todo = pull.todo /\ q.layers = pull.layers
    BY DEF Pull
<1>2. /\ Resolved(pull, w) => Resolved(q, w)
      /\ Furnished(pull, w) => Furnished(q, w)
      /\ Attested(pull, w) => Attested(q, w)
      /\ AsksRight(pull, w) => AsksRight(q, w)
    BY <1>1 DEF Resolved, Furnished, Attested, AsksRight
<1>3. q.at \in {"lookup", "request"}
    BY <1>1 DEF Pulling
<1> QED BY <1>1, <1>2, <1>3 DEF Sound

LEMMA RequestSound ==
    ASSUME PullInv, CacheMiss \/ Unauthorized \/ TryAgain \/ RequestRefused \/ CheckFails
    PROVE  PullInv'
<1>1. pull \in Pull /\ Sound(pull, World) /\ Pulling /\ token \in BOOLEAN
    BY DEF PullInv, PullTypeOK, CacheMiss, Unauthorized, TryAgain, RequestRefused, CheckFails, PullAt, Pulling
<1>2. UNCHANGED <<registryVars, manifests, referrers, cached>> /\ token' \in BOOLEAN
    BY <1>1 DEF CacheMiss, Unauthorized, TryAgain, RequestRefused, CheckFails
<1>3. CASE pull' = FailPart
    BY <1>1, <1>2, <1>3, FailSound, PullMoves
<1>4. ASSUME PullAt("lookup"), pull' = [pull EXCEPT !.at = "request"]
      PROVE  PullInv'
    <2>1. /\ pull' \in Pull /\ pull'.at = "request" /\ pull'.part = pull.part /\ pull'.want = pull.want
          /\ pull'.ref = pull.ref /\ pull'.manifest = pull.manifest /\ pull'.config = pull.config
          /\ pull'.attestation = pull.attestation /\ pull'.todo = pull.todo /\ pull'.layers = pull.layers
        BY <1>1, <1>4 DEF Pull
    <2>2. /\ Resolved(pull, World) => Resolved(pull', World)
          /\ Furnished(pull, World) => Furnished(pull', World)
          /\ Attested(pull, World) => Attested(pull', World)
          /\ AsksRight(pull, World) => AsksRight(pull', World)
        BY <2>1 DEF Resolved, Furnished, Attested, AsksRight
    <2>3. Sound(pull', World)
        BY <1>1, <1>4, <2>1, <2>2 DEF Sound, PullAt
    <2> QED BY <1>2, <2>1, <2>3, PullMoves
<1>5. ASSUME PullAt("request"), NEW n \in Attempts, pull' = [pull EXCEPT !.attempt = n]
      PROVE  PullInv'
    <2>1. pull' \in Pull /\ Sound(pull', World)
        BY <1>1, <1>5, AttemptSound DEF PullAt
    <2> QED BY <1>2, <2>1, PullMoves
<1>6. CASE CacheMiss
    BY <1>3, <1>4, <1>6 DEF CacheMiss
<1>7. CASE Unauthorized
    <2>1. /\ PullAt("request")
          /\ pull' = FailPart \/ (Retries > 0 /\ pull' = [pull EXCEPT !.attempt = 1])
        BY <1>7 DEF Unauthorized
    <2>2. Retries > 0 => 1 \in Attempts
        BY PullAssumption DEF Attempts
    <2> QED BY <1>3, <1>5, <2>1, <2>2
<1>8. CASE TryAgain
    <2>1. pull.attempt \in Attempts
        BY <1>1 DEF Pull
    <2>2. pull.attempt < Retries => pull.attempt + 1 \in Attempts
        BY <2>1, PullAssumption DEF Attempts
    <2>3. /\ PullAt("request")
          /\ pull' = FailPart \/ (pull.attempt < Retries /\ pull' = [pull EXCEPT !.attempt = pull.attempt + 1])
        BY <1>8 DEF TryAgain
    <2> QED BY <1>3, <1>5, <2>2, <2>3
<1>9. CASE RequestRefused \/ CheckFails
    BY <1>3, <1>9 DEF RequestRefused, CheckFails
<1> QED BY <1>6, <1>7, <1>8, <1>9

\* An answer of the cache or of the registry, looked at in the world v.
LEMMA ReplySound ==
    ASSUME pull \in Pull, NEW w, NEW v, Sound(pull, w), Pulling, NEW body \in Answers,
           pull.part # "image" /\ Resolved(pull, w) => Resolved(pull, v),
           AsksRight(pull, w) => AsksRight(pull, v),
           v.cached = w.cached, v.attached = w.attached,
           pull.part \in {"image", "fallback", "attestation"} => body = v.manifests[pull.want],
           pull.part = "referrers" => body = Junk \/ body \subseteq AttestedIn(w, pull.manifest),
           NEW q, \/ q = [pull EXCEPT !.at = "check", !.reply = body, !.hit = TRUE]
                  \/ q = [pull EXCEPT !.at = "check", !.reply = body]
    PROVE  q \in Pull /\ Sound(q, v)
<1>1. /\ q \in Pull /\ q.at = "check" /\ q.part = pull.part /\ q.want = pull.want /\ q.ref = pull.ref
      /\ q.manifest = pull.manifest /\ q.config = pull.config /\ q.attestation = pull.attestation
      /\ q.todo = pull.todo /\ q.layers = pull.layers /\ q.reply = body
    BY DEF Pull
<1>2. \A m : AttestedIn(v, m) = AttestedIn(w, m)
    BY DEF AttestedIn
<1>3. /\ Resolved(pull, v) => Resolved(q, v)
      /\ Furnished(pull, w) => Furnished(q, v)
      /\ Attested(pull, w) => Attested(q, v)
      /\ AsksRight(pull, v) => AsksRight(q, v)
    BY <1>1, <1>2 DEF Resolved, Furnished, Attested, AsksRight
<1>4. AnswerRight(q, v)
    BY <1>1, <1>2 DEF AnswerRight
<1> QED BY <1>1, <1>3, <1>4 DEF Sound, Pulling

\* An answer looked at in the world it was given in.
LEMMA ReplyHere ==
    ASSUME pull \in Pull, Sound(pull, World), Pulling, NEW body \in Answers,
           pull.part \in {"image", "fallback", "attestation"} => body = World.manifests[pull.want],
           pull.part = "referrers" => body = Junk \/ body \subseteq AttestedIn(World, pull.manifest),
           NEW q, q = [pull EXCEPT !.at = "check", !.reply = body]
    PROVE  q \in Pull /\ Sound(q, World)
<1>1. pull.part # "image" /\ Resolved(pull, World) => Resolved(pull, World)
    OBVIOUS
<1>2. AsksRight(pull, World) => AsksRight(pull, World)
    OBVIOUS
<1>3. World.cached = World.cached /\ World.attached = World.attached
    OBVIOUS
<1>4. q = [pull EXCEPT !.at = "check", !.reply = body, !.hit = TRUE] \/ q = [pull EXCEPT !.at = "check", !.reply = body]
    OBVIOUS
<1> QED BY <1>1, <1>2, <1>3, <1>4, ReplySound

\* What is wanted is a document or a name of the cache, or else a blob.
LEMMA WantsKnown ==
    ASSUME PullInv, Pulling
    PROVE  /\ WantsDocument => /\ pull.part \in {"image", "fallback", "attestation"}
                               /\ pull.want \in Named
           /\ pull.part \in {"image", "fallback", "attestation"} => WantsDocument
           /\ WantsList => pull.part = "referrers" /\ pull.manifest \in Manifests
           /\ pull.part \in {"fallback", "attestation"} =>
                 /\ pull.manifest \in Manifests
                 /\ pull.want # pull.manifest /\ pull.want # Tag /\ pull.want # pull.ref
<1>1. pull \in Pull /\ Sound(pull, World) /\ pull.at \in {"lookup", "request", "check"} /\ CacheInv
    BY DEF PullInv, PullTypeOK, Pulling
<1>2. pull.part \in {"image", "config", "referrers", "fallback", "attestation", "envelopes", "layers"}
    BY <1>1 DEF Pull
<1>3. /\ WantsDocument <=> pull.part \in {"image", "fallback", "attestation"}
      /\ WantsList <=> pull.part = "referrers"
    BY <1>2 DEF WantsDocument, WantsList, WantsBlob
<1>4. pull.part # "image" => Resolved(pull, World) /\ pull.manifest \in Manifests
    BY <1>1 DEF Sound, Resolved
<1>5. CASE pull.part = "image"
    BY <1>1, <1>3, <1>5 DEF Sound, AsksRight, Named, WantsList
<1>6. CASE pull.part = "fallback"
    <2>1. pull.want = FallbackTag(pull.manifest) /\ pull.ref \in References /\ Manifests \subseteq References
          /\ Tag \in References
        BY <1>1, <1>6 DEF Sound, AsksRight, References, Documents
    <2> QED BY <1>3, <1>4, <1>6, <2>1, FallbacksWanted
<1>7. CASE pull.part = "attestation"
    <2>1. /\ pull.want \in AttestedIn(World, pull.manifest) /\ pull.ref \in References
          /\ Resolved(pull, World)
        BY <1>1, <1>7 DEF Sound, AsksRight
    <2>2. pull.want = AttestedBy[pull.manifest] /\ pull.manifest \in attached
        BY <2>1 DEF AttestedIn, World
    <2>3. pull.want \in Manifests
        BY <1>1, <2>2 DEF CacheInv
    <2>4. pull.want # pull.manifest /\ pull.want # Tag
        BY <1>4, <1>7, <2>2, <2>3, PullAssumption DEF Documents
    <2>5. pull.want # pull.ref
        <3>1. CASE pull.ref = Tag
            BY <2>4, <3>1
        <3>2. CASE pull.ref # Tag
            <4>1. pull.manifest = ManifestOf(pull.ref)
                BY <2>1, <3>2 DEF Resolved, NamesIn
            <4>2. pull.ref \notin Indexes => pull.manifest = pull.ref
                BY <4>1 DEF ManifestOf
            <4> QED BY <2>3, <2>4, <4>2, PullAssumption
        <3> QED BY <3>1, <3>2
    <2> QED BY <1>3, <1>4, <1>7, <2>3, <2>4, <2>5 DEF Named, References, Documents
<1> QED BY <1>2, <1>3, <1>4, <1>5, <1>6, <1>7

LEMMA CacheHitSound ==
    ASSUME PullInv, CacheHit
    PROVE  PullInv'
<1>1. pull \in Pull /\ Sound(pull, World) /\ Pulling /\ CacheInv /\ PullTypeOK
    BY DEF PullInv, PullTypeOK, CacheHit, PullAt, Pulling
<1>2. PICK body : body = CacheEntry
    OBVIOUS
<1>3. /\ body \in Answers
      /\ pull.part \in {"image", "fallback", "attestation"} => body = manifests[pull.want]
      /\ pull.part = "referrers" => body \subseteq AttestedIn(World, pull.manifest)
    <2>1. CASE WantsBlob
        <3>1. body \in cached \cup {Unknown}
            BY <1>2, <2>1 DEF CacheEntry, WantsBlob, WantsList, WantsDocument
        <3>2. pull.part \in {"config", "envelopes", "layers"}
            BY <2>1 DEF WantsBlob
        <3> QED BY <1>1, <3>1, <3>2 DEF PullTypeOK, Answers
    <2>2. CASE WantsList
        <3>1. body = referrers[pull.manifest] /\ body # Unknown /\ pull.manifest \in Manifests
            BY <1>1, <1>2, <2>2, WantsKnown DEF CacheEntry, CacheHit, WantsList, WantsBlob, WantsDocument
        <3>2. body \in SUBSET Manifests /\ body \subseteq AttestationOf(pull.manifest)
            BY <1>1, <3>1 DEF CacheInv, PullTypeOK
        <3> QED BY <2>2, <3>2 DEF Answers, WantsList, AttestationOf, AttestedIn, World
    <2>3. CASE WantsDocument
        <3>1. body = manifests[pull.want] /\ pull.want \in Named
            BY <1>1, <1>2, <2>3, WantsKnown DEF CacheEntry, WantsList, WantsBlob, WantsDocument
        <3> QED BY <1>1, <2>3, <3>1, WantsKnown DEF PullTypeOK, Answers, WantsDocument, WantsList
    <2> QED BY <2>1, <2>2, <2>3 DEF WantsDocument
<1>4. pull' = [pull EXCEPT !.at = "check", !.reply = body, !.hit = TRUE]
    BY <1>2 DEF CacheHit
<1>5. pull.part \in {"image", "fallback", "attestation"} => body = World.manifests[pull.want]
    BY <1>3 DEF World
<1>6. pull' \in Pull /\ Sound(pull', World)
    BY <1>1, <1>3, <1>4, <1>5, ReplySound
<1> QED BY <1>1, <1>6, PullMoves DEF CacheHit, PullTypeOK

LEMMA CheckListSound ==
    ASSUME PullInv, CheckList
    PROVE  PullInv'
<1>1. /\ pull \in Pull /\ Sound(pull, World) /\ CacheInv /\ PullTypeOK
      /\ pull.at = "check" /\ pull.part = "referrers" /\ pull.reply # Junk
    BY DEF PullInv, PullTypeOK, CheckList, PullAt, WantsList
<1>2. /\ pull.ref \in References /\ Resolved(pull, World) /\ Furnished(pull, World)
      /\ Attested(pull, World) /\ pull.layers = <<>> /\ pull.manifest \in Manifests
      /\ pull.reply \subseteq AttestedIn(World, pull.manifest)
    BY <1>1 DEF Sound, AnswerRight, Resolved
<1>3. CASE pull.reply # {}
    <2>1. PICK a : a = CHOOSE x \in pull.reply : TRUE
        OBVIOUS
    <2>2. a \in AttestedIn(World, pull.manifest)
        BY <1>2, <1>3, <2>1
    <2>3. a \in Manifests
        BY <1>1, <2>2 DEF AttestedIn, World, CacheInv
    <2>4. a \in Wanted
        BY <2>3 DEF Wanted, Named, References, Documents
    <2>5. pull' = Ask(pull, "attestation", a)
        BY <1>3, <2>1 DEF CheckList
    <2>6. pull' \in Pull /\ Sound(pull', World)
        BY <1>1, <1>2, <2>2, <2>4, <2>5, AskSound
    <2> QED BY <1>1, <2>6, PullMoves DEF CheckList, PullTypeOK
<1>4. CASE pull.reply = {}
    <2>1. pull' = Layers(pull) \/ pull' = Ask(pull, "fallback", FallbackTag(pull.manifest))
        BY <1>4 DEF CheckList
    <2>2. pull' \in Pull /\ Sound(pull', World)
        BY <1>1, <1>2, <2>1, LayersSound, AskSound, FallbacksWanted
    <2> QED BY <1>1, <2>2, PullMoves DEF CheckList, PullTypeOK
<1> QED BY <1>3, <1>4

\* A document that the registry sends is on record under the reference asked
\* for before anyone has looked at it: what led here is under others.
LEMMA AnsweredSound ==
    ASSUME PullInv, Answered
    PROVE  PullInv'
<1>1. pull \in Pull /\ Sound(pull, World) /\ Pulling /\ CacheInv /\ PullTypeOK /\ pull.at = "request"
    BY DEF PullInv, PullTypeOK, Answered, PullAt, Pulling
<1>2. PICK body \in Bodies :
          /\ pull' = [pull EXCEPT !.at = "check", !.reply = body]
          /\ manifests' = IF WantsDocument THEN [manifests EXCEPT ![pull.want] = body] ELSE manifests
          /\ referrers' = IF WantsList /\ body # Junk THEN [referrers EXCEPT ![pull.manifest] = body]
                          ELSE referrers
    BY DEF Answered
<1>3. UNCHANGED <<tagged, published, attached, cached, token>>
    BY DEF Answered, registryVars
<1>4. pull.part \in {"image", "config", "referrers", "fallback", "attestation", "envelopes", "layers"}
    BY <1>1 DEF Pull
<1>5. \A m \in Manifests : AttestationOf(m) \subseteq Manifests /\ AttestationOf(m) = AttestedIn(World, m)
    BY <1>1 DEF CacheInv, AttestationOf, AttestedIn, World
<1>6. World' = [World EXCEPT !.manifests = manifests']
    BY <1>3 DEF World
<1>7. /\ World'.cached = World.cached /\ World'.attached = World.attached
      /\ World'.published = World.published /\ World'.manifests = manifests' /\ World.manifests = manifests
    BY <1>3 DEF World
\* A blob.
<1>8. CASE WantsBlob
    <2>1. ~WantsDocument /\ ~WantsList /\ pull.part \in {"config", "envelopes", "layers"}
        BY <1>8 DEF WantsDocument, WantsBlob, WantsList
    <2>2. manifests' = manifests /\ referrers' = referrers
        BY <1>2, <2>1, Zenon
    <2>3. Bodies = {pull.want, Junk}
        BY <1>8, <2>1 DEF Bodies, WantsList
    <2>4. pull.want \in Blobs
        BY <1>1, <2>1 DEF Sound, AsksRight
    <2>5. body \in Answers
        BY <1>2, <2>3, <2>4 DEF Answers
    <2>6. World' = World
        BY <1>3, <2>2 DEF World
    <2>7. pull' = [pull EXCEPT !.at = "check", !.reply = body]
        BY <1>2
    <2>8. pull' \in Pull /\ Sound(pull', World)
        <3>1. /\ pull.part \in {"image", "fallback", "attestation"} => body = World.manifests[pull.want]
              /\ pull.part = "referrers" => body = Junk \/ body \subseteq AttestedIn(World, pull.manifest)
            BY <2>1
        <3> QED BY <1>1, <2>5, <2>7, <3>1, ReplyHere
    <2> QED BY <1>1, <1>3, <2>2, <2>8, PullMoves DEF registryVars, PullTypeOK
\* A list of referrers.
<1>9. CASE WantsList
    <2>1. ~WantsDocument /\ ~WantsBlob /\ pull.part = "referrers" /\ pull.manifest \in Manifests
        BY <1>1, <1>9, WantsKnown DEF WantsDocument, WantsBlob, WantsList
    <2>2. manifests' = manifests
        BY <1>2, <2>1, Zenon
    <2>3. Bodies = {AttestationOf(pull.manifest), {}, Junk}
        BY <1>9, <2>1 DEF Bodies
    <2>4. body \in Answers /\ (body = Junk \/ (body \subseteq AttestationOf(pull.manifest) /\ body \in SUBSET Manifests))
        BY <1>2, <1>5, <2>1, <2>3 DEF Answers
    <2>5. World' = World
        BY <1>3, <2>2 DEF World
    <2>6. pull' = [pull EXCEPT !.at = "check", !.reply = body]
        BY <1>2
    <2>7. body = Junk \/ body \subseteq AttestedIn(World, pull.manifest)
        BY <1>5, <2>1, <2>4
    <2>8. pull' \in Pull /\ Sound(pull', World')
        <3>1. /\ pull.part \in {"image", "fallback", "attestation"} => body = World.manifests[pull.want]
              /\ pull.part = "referrers" => body = Junk \/ body \subseteq AttestedIn(World, pull.manifest)
            BY <2>1, <2>7
        <3>2. pull' \in Pull /\ Sound(pull', World)
            BY <1>1, <2>4, <2>6, <3>1, ReplyHere
        <3> QED BY <2>5, <3>2
    <2>9. referrers' = referrers \/ (body # Junk /\ referrers' = [referrers EXCEPT ![pull.manifest] = body])
        BY <1>2, Zenon
    <2>10. PullTypeOK'
        BY <1>1, <1>3, <2>1, <2>2, <2>4, <2>8, <2>9 DEF PullTypeOK
    <2>11. \A m \in Manifests : AttestationOf(m)' = AttestationOf(m)
        BY <1>3 DEF AttestationOf
    <2>12. \A m \in Manifests : referrers'[m] = referrers[m] \/ referrers'[m] \subseteq AttestationOf(m)
        BY <1>1, <2>1, <2>4, <2>9 DEF PullTypeOK
    <2>13. CacheInv'
        BY <1>1, <1>3, <2>2, <2>11, <2>12 DEF CacheInv
    <2> QED BY <2>8, <2>10, <2>13 DEF PullInv
\* A document.
<1>10. CASE WantsDocument
    <2>1. ~WantsList /\ ~WantsBlob /\ pull.part \in {"image", "fallback", "attestation"} /\ pull.want \in Named
        BY <1>1, <1>10, WantsKnown DEF WantsDocument
    <2>2. manifests' = [manifests EXCEPT ![pull.want] = body] /\ referrers' = referrers
        BY <1>2, <1>10, <2>1, Zenon
    <2>3. /\ body \in Documents \cup {Junk}
          /\ pull.part = "fallback" => body \in AttestationOf(pull.manifest) \cup {Junk}
          /\ pull.want = Tag => body \in published \cup {Junk}
        <3>1. CASE pull.part = "fallback"
            <4>1. Bodies = AttestationOf(pull.manifest) \cup {Junk}
                BY <2>1, <3>1 DEF Bodies
            <4>2. pull.manifest \in Manifests /\ pull.want # Tag
                BY <1>1, <3>1, WantsKnown
            <4> QED BY <1>2, <1>5, <4>1, <4>2 DEF Documents
        <3>2. CASE pull.part \in {"image", "attestation"}
            <4>1. Bodies = IF pull.want = Tag THEN {tagged, Junk} \ {Unknown} ELSE {pull.want} \cup Releases
                BY <2>1, <3>2 DEF Bodies
            <4>2. pull.want \in References
                <5>1. pull.part = "image" => pull.want \in References
                    BY <1>1 DEF Sound, AsksRight
                <5>2. pull.part = "attestation" => pull.want \in AttestedIn(World, pull.manifest)
                    BY <1>1 DEF Sound, AsksRight
                <5>3. pull.part = "attestation" => pull.manifest \in Manifests
                    BY <1>1, WantsKnown
                <5> QED BY <1>5, <3>2, <5>1, <5>2, <5>3 DEF References, Documents
            <4>3. pull.want # Tag => pull.want \in Documents
                BY <4>2 DEF References
            <4>4. CASE pull.want = Tag
                BY <1>1, <1>2, <3>2, <4>1, <4>4 DEF CacheInv, PullTypeOK
            <4>5. CASE pull.want # Tag
                BY <1>2, <3>2, <4>1, <4>3, <4>5, PullAssumption
            <4> QED BY <4>4, <4>5
        <3> QED BY <2>1, <3>1, <3>2
    <2>4. body \in Answers /\ World'.manifests[pull.want] = body
        BY <1>1, <1>7, <2>1, <2>2, <2>3 DEF Answers, PullTypeOK
    <2>5. \A r \in Named : r # pull.want => manifests'[r] = manifests[r]
        BY <1>1, <2>2 DEF PullTypeOK
    <2>6. \A ref : NamesIn(World', ref) = NamesIn(World, ref)
        BY <1>7 DEF NamesIn
    <2>7. Resolved(pull, World) /\ pull.part # "image" => Resolved(pull, World')
        <3> SUFFICES ASSUME Resolved(pull, World), pull.part # "image"
                     PROVE  Resolved(pull, World')
            OBVIOUS
        <3>1. pull.want # pull.manifest /\ pull.want # pull.ref /\ pull.manifest \in Named /\ pull.ref \in Named
            BY <1>1, <2>1, WantsKnown DEF Sound, Named, References, Documents, Pulling
        <3>2. World'.manifests[pull.manifest] = World.manifests[pull.manifest]
              /\ World'.manifests[pull.ref] = World.manifests[pull.ref]
            BY <1>7, <2>5, <3>1
        <3> QED BY <2>6, <3>2 DEF Resolved
    <2>8. AsksRight(pull, World) => AsksRight(pull, World')
        <3>1. AttestedIn(World', pull.manifest) = AttestedIn(World, pull.manifest)
            BY <1>7 DEF AttestedIn
        <3>2. ASSUME AsksRight(pull, World), pull.part = "image", pull.want # pull.ref
              PROVE  \E i \in Indexes : i \in NamesIn(World', pull.ref) /\ World'.manifests[pull.ref] = i
                                        /\ ChildOf[i] = pull.want
            <4>1. PICK i \in Indexes : i \in NamesIn(World, pull.ref) /\ World.manifests[pull.ref] = i
                                       /\ ChildOf[i] = pull.want
                BY <3>2 DEF AsksRight
            <4>2. pull.ref \in Named
                BY <1>1 DEF Sound, Pulling, Named
            <4>3. World'.manifests[pull.ref] = i
                BY <1>7, <2>5, <3>2, <4>1, <4>2
            <4> QED BY <2>6, <4>1, <4>3
        <3> QED BY <2>1, <3>1, <3>2 DEF AsksRight
    <2>9. pull' \in Pull /\ Sound(pull', World')
        <3>1. /\ pull.part \in {"image", "fallback", "attestation"} => body = World'.manifests[pull.want]
              /\ pull.part = "referrers" => body = Junk \/ body \subseteq AttestedIn(World, pull.manifest)
            BY <2>1, <2>4
        <3>2. pull' = [pull EXCEPT !.at = "check", !.reply = body]
            BY <1>2
        <3> QED BY <1>1, <1>7, <2>4, <2>7, <2>8, <3>1, <3>2, ReplySound
    <2>10. PullTypeOK'
        BY <1>1, <1>3, <2>1, <2>2, <2>3, <2>9 DEF PullTypeOK
    <2>11. CacheInv'
        <3>1. \A m \in Manifests : AttestationOf(m)' = AttestationOf(m)
            BY <1>3 DEF AttestationOf
        <3>2. manifests'[Tag] \in published \cup {Junk, Unknown}
            BY <1>1, <2>1, <2>2, <2>3 DEF CacheInv, PullTypeOK
        <3>3. ASSUME NEW m \in Manifests
              PROVE  manifests'[FallbackTag(m)] \in AttestationOf(m) \cup {Junk, Unknown}
            <4>1. CASE FallbackTag(m) # pull.want
                BY <1>1, <2>5, <4>1, FallbacksWanted DEF CacheInv
            <4>2. CASE FallbackTag(m) = pull.want
                <5>1. pull.part = "fallback"
                    <6>1. pull.want \notin References
                        BY <4>2, FallbacksWanted
                    <6>2. pull.part = "image" => pull.want \in References
                        BY <1>1 DEF Sound, AsksRight, Pulling
                    <6>3. pull.part = "attestation" => pull.want \in References
                        BY <1>1, <1>5, WantsKnown DEF Sound, AsksRight, Pulling, References, Documents
                    <6> QED BY <2>1, <6>1, <6>2, <6>3
                <5>2. pull.want = FallbackTag(pull.manifest)
                    BY <1>1, <5>1 DEF Sound, AsksRight, Pulling
                <5>3. pull.manifest = m
                    BY <4>2, <5>2 DEF FallbackTag
                <5> QED BY <1>1, <2>1, <2>2, <2>3, <4>2, <5>1, <5>3 DEF PullTypeOK
            <4> QED BY <4>1, <4>2
        <3> QED BY <1>1, <1>3, <2>2, <3>1, <3>2, <3>3 DEF CacheInv
    <2> QED BY <2>9, <2>10, <2>11 DEF PullInv
<1> QED BY <1>8, <1>9, <1>10 DEF WantsDocument

\* A document on record under its own digest leads where it led before.
LEMMA SettleSound ==
    ASSUME PullInv, Pulling, NEW d \in Documents, manifests' = [manifests EXCEPT ![d] = d],
           UNCHANGED <<registryVars, referrers, cached, token>>, pull' \in Pull, Sound(pull', World')
    PROVE  PullInv'
<1>1. PullTypeOK /\ CacheInv
    BY DEF PullInv
<1>2. d \in Named /\ d # Tag /\ \A m \in Manifests : d # FallbackTag(m)
    BY PullAssumption, FallbacksWanted DEF Named, References
<1>3. Tag \in Named /\ \A m \in Manifests : FallbackTag(m) \in Named
    BY FallbacksWanted DEF Named, References
<1>4. PullTypeOK'
    BY <1>1, <1>2 DEF PullTypeOK, registryVars
<1>5. manifests'[Tag] = manifests[Tag] /\ \A m \in Manifests : manifests'[FallbackTag(m)] = manifests[FallbackTag(m)]
    BY <1>1, <1>2, <1>3 DEF PullTypeOK
<1>6. CacheInv'
    BY <1>1, <1>5 DEF CacheInv, AttestationOf, registryVars
<1> QED BY <1>4, <1>6 DEF PullInv

LEMMA CheckDocumentSound ==
    ASSUME PullInv, CheckDocument
    PROVE  PullInv'
<1>1. /\ pull \in Pull /\ Sound(pull, World) /\ Pulling /\ CacheInv /\ PullTypeOK /\ pull.at = "check"
      /\ WantsDocument
    BY DEF PullInv, PullTypeOK, CheckDocument, PullAt, Pulling
<1>2. PICK d : d = pull.reply
    OBVIOUS
<1>3. d \in Documents /\ (pull.want \in Documents => d = pull.want)
    BY <1>2 DEF CheckDocument, Acceptable
<1>4. manifests' = [manifests EXCEPT ![d] = d] /\ UNCHANGED <<registryVars, referrers, cached, token>>
    BY <1>2 DEF CheckDocument
<1>5. /\ World'.cached = World.cached /\ World'.attached = World.attached
      /\ World'.published = World.published /\ World'.manifests = manifests' /\ World.manifests = manifests
    BY <1>4 DEF World, registryVars
<1>6. /\ pull.part \in {"image", "fallback", "attestation"} /\ pull.want \in Named /\ pull.ref \in References
      /\ d = manifests[pull.want] /\ Attested(pull, World) /\ AsksRight(pull, World) /\ pull.layers = <<>>
    BY <1>1, <1>2, <1>5, WantsKnown DEF Sound, AnswerRight
<1>7. manifests'[d] = d /\ \A r \in Named : r # d => manifests'[r] = manifests[r]
    BY <1>1, <1>3, <1>4 DEF PullTypeOK, Named, References
<1>8. \A ref : NamesIn(World', ref) = NamesIn(World, ref)
    BY <1>5 DEF NamesIn
<1>9. \A m : AttestedIn(World', m) = AttestedIn(World, m)
    BY <1>5 DEF AttestedIn
<1>10. Tag \notin Documents /\ pull.ref \in Named /\ Manifests \cap Indexes = {} /\ Documents = Manifests \cup Indexes
    BY <1>6, PullAssumption DEF Named, Documents
\* The attestation.
<1>11. CASE pull.part # "image"
    <2>1. /\ Resolved(pull, World) /\ Furnished(pull, World) /\ pull.manifest \in Manifests
        <3>1. Resolved(pull, World) /\ Furnished(pull, World)
            BY <1>1, <1>6, <1>11 DEF Sound
        <3> QED BY <3>1 DEF Resolved
    <2>2. d \in AttestedIn(World, pull.manifest)
        <3>1. CASE pull.part = "fallback"
            <4>1. d = manifests[FallbackTag(pull.manifest)]
                BY <1>6, <3>1 DEF AsksRight
            <4>2. d \in AttestationOf(pull.manifest) \cup {Junk, Unknown}
                BY <1>1, <2>1, <4>1 DEF CacheInv
            <4>3. d # Junk /\ d # Unknown
                BY <1>3, PullAssumption DEF References
            <4> QED BY <4>2, <4>3 DEF AttestationOf, AttestedIn, World
        <3>2. CASE pull.part = "attestation"
            <4>1. pull.want \in AttestedIn(World, pull.manifest)
                BY <1>6, <3>2 DEF AsksRight
            <4>2. pull.want \in Documents
                BY <1>1, <4>1 DEF AttestedIn, World, CacheInv, Documents
            <4> QED BY <1>3, <4>1, <4>2
        <3> QED BY <1>6, <1>11, <3>1, <3>2
    <2>3. d \in Manifests
        BY <1>1, <2>2 DEF AttestedIn, World, CacheInv
    <2>4. Resolved(pull, World')
        <3>1. PICK e \in NamesIn(World, pull.ref) : pull.manifest = ManifestOf(e) /\ manifests[pull.ref] = e
            BY <1>5, <2>1 DEF Resolved
        <3>2. manifests'[pull.ref] = e
            <4>1. CASE pull.ref = d
                BY <1>3, <1>7, <1>10, <3>1, <4>1 DEF NamesIn
            <4>2. CASE pull.ref # d
                BY <1>7, <1>10, <3>1, <4>2
            <4> QED BY <4>1, <4>2
        <3>3. manifests'[pull.manifest] = pull.manifest
            BY <1>5, <1>7, <2>1 DEF Resolved, Named, References, Documents
        <3> QED BY <1>5, <1>8, <2>1, <3>1, <3>2, <3>3 DEF Resolved
    <2>5. Furnished(pull, World')
        BY <1>5, <2>1 DEF Furnished
    <2>6. PICK q : q = [pull EXCEPT !.todo = LayersOf[d], !.attestation = d]
        OBVIOUS
    <2>7. /\ q \in Pull /\ q.ref = pull.ref /\ q.manifest = pull.manifest /\ q.config = pull.config
          /\ q.layers = <<>> /\ q.attestation = d
        BY <1>1, <1>6, <2>3, <2>6, PullAssumption DEF Pull
    <2>8. Resolved(q, World') /\ Furnished(q, World')
        BY <2>4, <2>5, <2>7 DEF Resolved, Furnished
    <2>9. Attested(q, World')
        BY <1>9, <2>2, <2>7 DEF Attested
    <2>10. AskEnvelope(q) \in Pull /\ Sound(AskEnvelope(q), World')
        BY <1>6, <2>7, <2>8, <2>9, AskEnvelopeSound
    <2>11. pull' = AskEnvelope(q)
        <3>1. pull.reply \notin Indexes
            BY <1>2, <1>10, <2>3
        <3> QED BY <1>2, <1>11, <2>6, <3>1 DEF CheckDocument
    <2> QED BY <1>1, <1>3, <1>4, <2>10, <2>11, SettleSound
\* The manifest.
<1>12. CASE pull.part = "image" /\ d \in Manifests
    <2>1. \E e \in NamesIn(World', pull.ref) : d = ManifestOf(e) /\ manifests'[pull.ref] = e
        <3>1. CASE pull.want = pull.ref /\ pull.ref = Tag
            <4>1. d \in published
                BY <1>1, <1>3, <1>6, <3>1, PullAssumption DEF CacheInv, References
            <4>2. manifests'[Tag] = d
                BY <1>3, <1>6, <1>7, <1>10, <3>1
            <4> QED BY <1>5, <1>10, <1>12, <3>1, <4>1, <4>2 DEF NamesIn, World, ManifestOf
        <3>2. CASE pull.want = pull.ref /\ pull.ref # Tag
            <4>1. pull.ref = d
                BY <1>3, <1>6, <3>2 DEF References
            <4> QED BY <1>7, <1>10, <1>12, <3>2, <4>1 DEF NamesIn, ManifestOf
        <3>3. CASE pull.want # pull.ref
            <4>1. PICK i \in Indexes : i \in NamesIn(World, pull.ref) /\ manifests[pull.ref] = i /\ ChildOf[i] = pull.want
                BY <1>5, <1>6, <1>12, <3>3 DEF AsksRight
            <4>2. pull.want = d
                <5>1. pull.want \in References /\ pull.want # Tag
                    BY <1>6, <1>10, <1>12, <4>1, PullAssumption DEF AsksRight, References, Documents
                <5> QED BY <1>3, <5>1 DEF References
            <4>3. pull.ref # d
                BY <1>3, <1>10, <1>12, <4>1 DEF NamesIn
            <4>4. manifests'[pull.ref] = i
                BY <1>7, <1>10, <4>1, <4>3
            <4> QED BY <1>8, <4>1, <4>2, <4>4 DEF ManifestOf
        <3> QED BY <3>1, <3>2, <3>3
    <2>2. PICK a : a = Ask(pull, "config", ConfigOf[d])
        OBVIOUS
    <2>3. ConfigOf[d] \in Blobs /\ ConfigOf[d] \in Wanted
        BY <1>12, FieldTypes, PullAssumption
    <2>4. Asks(pull, "config", ConfigOf[d], a)
        BY <1>1, <2>2, <2>3, AskTypes
    <2>5. PICK q : q = [a EXCEPT !.manifest = d]
        OBVIOUS
    <2>6. /\ q \in Pull /\ q.at = "lookup" /\ q.part = "config" /\ q.want = ConfigOf[d] /\ q.ref = pull.ref
          /\ q.manifest = d /\ q.attestation = pull.attestation /\ q.layers = <<>>
        BY <1>6, <1>12, <2>4, <2>5 DEF Asks, Pull
    <2>7. Resolved(q, World')
        BY <1>5, <1>7, <1>12, <2>1, <2>6 DEF Resolved
    <2>8. Attested(q, World')
        BY <1>1, <1>12, <2>6 DEF Sound, Attested
    <2>9. AsksRight(q, World')
        BY <2>3, <2>6 DEF AsksRight
    <2>10. Sound(q, World')
        BY <1>6, <2>6, <2>7, <2>8, <2>9 DEF Sound
    <2>11. pull' = q
        <3>1. pull.part = "image" /\ pull.reply \in Manifests /\ pull.reply \notin Indexes
            BY <1>2, <1>10, <1>12
        <3>2. pull' = [Ask(pull, "config", ConfigOf[pull.reply]) EXCEPT !.manifest = pull.reply]
            BY <3>1 DEF CheckDocument
        <3> QED BY <1>2, <2>2, <2>5, <3>2
    <2> QED BY <1>1, <1>3, <1>4, <2>6, <2>10, <2>11, SettleSound
\* An index.
<1>13. CASE pull.part = "image" /\ d \in Indexes
    <2>1. d \in NamesIn(World', pull.ref) /\ manifests'[pull.ref] = d
        <3>1. CASE pull.want = pull.ref /\ pull.ref = Tag
            <4>1. d \in published
                BY <1>1, <1>3, <1>6, <3>1, PullAssumption DEF CacheInv, References
            <4>2. manifests'[Tag] = d
                BY <1>3, <1>6, <1>7, <1>10, <3>1
            <4> QED BY <1>8, <3>1, <4>1, <4>2 DEF NamesIn, World
        <3>2. CASE pull.want = pull.ref /\ pull.ref # Tag
            <4>1. pull.ref = d
                BY <1>3, <1>6, <3>2 DEF References
            <4> QED BY <1>7, <3>2, <4>1 DEF NamesIn
        <3>3. CASE pull.want # pull.ref
            <4>1. PICK i \in Indexes : ChildOf[i] = pull.want
                BY <1>6, <1>13, <3>3 DEF AsksRight
            <4>2. pull.want \in Manifests
                BY <1>6, <1>13, <4>1, PullAssumption DEF AsksRight, References, Documents
            <4> QED BY <1>3, <1>10, <1>13, <4>2
        <3> QED BY <3>1, <3>2, <3>3
    <2>2. CASE ChildOf[d] = Unknown
        <3>1. pull' = Stop(pull, "failed")
            BY <1>2, <1>10, <1>13, <2>2 DEF CheckDocument, FailPart
        <3>2. pull' \in Pull /\ pull'.at = "failed"
            BY <1>1, <3>1, StopTypes
        <3>3. Sound(pull', World')
            BY <3>2 DEF Sound
        <3> QED BY <1>1, <1>3, <1>4, <3>2, <3>3, SettleSound
    <2>3. CASE ChildOf[d] # Unknown
        <3>1. PICK q : q = Ask(pull, "image", ChildOf[d])
            OBVIOUS
        <3>2. ChildOf[d] \in Manifests /\ ChildOf[d] \in References /\ ChildOf[d] \in Wanted
            BY <1>13, <2>3, PullAssumption DEF Wanted, Named, References, Documents
        <3>3. Asks(pull, "image", ChildOf[d], q)
            BY <1>1, <3>1, <3>2, AskTypes
        <3>4. /\ q \in Pull /\ q.at = "lookup" /\ q.part = "image" /\ q.want = ChildOf[d] /\ q.ref = pull.ref
              /\ q.attestation = pull.attestation /\ q.layers = <<>> /\ q.manifest = pull.manifest
            BY <1>6, <3>3 DEF Asks
        <3>5. AsksRight(q, World')
            BY <1>5, <1>13, <2>1, <3>2, <3>4 DEF AsksRight
        <3>6. q.attestation = Unknown
            BY <1>1, <1>13, <3>4 DEF Sound
        <3>7. Sound(q, World')
            BY <1>6, <3>4, <3>5, <3>6 DEF Sound, Attested
        <3>8. pull' = q
            BY <1>2, <1>10, <1>13, <2>3, <3>1 DEF CheckDocument
        <3> QED BY <1>1, <1>3, <1>4, <3>4, <3>7, <3>8, SettleSound
    <2> QED BY <2>2, <2>3
<1> QED BY <1>3, <1>11, <1>12, <1>13 DEF Documents

LEMMA AddUpMore ==
    ASSUME NEW S, NEW have \in Seq(S), NEW todo \in Seq(S), NEW all, NEW next \in S,
           AddUp(have, 1, todo, all), next = all[Len(have) + 1]
    PROVE  AddUp(Append(have, next), 0, todo, all)
<1> DEFINE n == Len(have)
           m == Len(todo)
           more == Append(have, next)
<1>1. n \in Nat /\ m \in Nat /\ Len(more) = n + 1 /\ more[n + 1] = next
    OBVIOUS
<1>2. \A i \in 1 .. n : more[i] = have[i]
    OBVIOUS
<1>3. /\ Len(all) = n + 1 + m
      /\ \A i \in 1 .. n : have[i] = all[i]
      /\ \A i \in 1 .. m : todo[i] = all[n + 1 + i]
    BY DEF AddUp
<1> HIDE DEF n, m, more
<1>4. \A i \in 1 .. n + 1 : i \in 1 .. n \/ i = n + 1
    BY <1>1
<1>5. \A i \in 1 .. n + 1 : more[i] = all[i]
    BY <1>1, <1>2, <1>3, <1>4 DEF n
<1>6. \A i \in 1 .. m : todo[i] = all[n + 1 + 0 + i]
    <2>1. n + 1 = n + 1 + 0
        BY <1>1
    <2> QED BY <1>3, <2>1
<1>7. Len(all) = n + 1 + 0 + m
    BY <1>1, <1>3
<1>8. AddUp(more, 0, todo, all)
    BY <1>1, <1>5, <1>6, <1>7 DEF AddUp, m
<1> QED BY <1>8 DEF more

LEMMA CheckBlobSound ==
    ASSUME PullInv, CheckBlob
    PROVE  PullInv'
<1>1. /\ pull \in Pull /\ Sound(pull, World) /\ Pulling /\ CacheInv /\ PullTypeOK /\ pull.at = "check"
      /\ pull.part \in {"config", "envelopes", "layers"} /\ pull.reply = pull.want
    BY DEF PullInv, PullTypeOK, CheckBlob, PullAt, Pulling, WantsBlob
<1>2. UNCHANGED <<registryVars, manifests, referrers, token>> /\ cached' = cached \cup {pull.want} /\ pull' = AfterBlob
    BY DEF CheckBlob
<1>3. PICK w : w = World'
    OBVIOUS
<1>4. /\ w.manifests = World.manifests /\ World.cached \subseteq w.cached /\ World.published \subseteq w.published
      /\ World.attached \subseteq w.attached /\ pull.want \in w.cached
    BY <1>2, <1>3 DEF World, registryVars
<1>5. Sound(pull, w)
    BY <1>1, <1>4, SoundGrows
<1>6. pull.want \in Blobs /\ AsksRight(pull, w) /\ Resolved(pull, w) /\ Attested(pull, w) /\ pull.ref \in References
    BY <1>1, <1>5 DEF Sound, AsksRight
<1>7. pull.manifest \in Manifests
    BY <1>6 DEF Resolved
<1>8. AfterBlob \in Pull /\ Sound(AfterBlob, w)
    <2>1. CASE pull.part = "config"
        <3>1. PICK p : p = [pull EXCEPT !.config = pull.want]
            OBVIOUS
        <3>2. /\ p \in Pull /\ p.ref = pull.ref /\ p.manifest = pull.manifest /\ p.config = pull.want
              /\ p.attestation = pull.attestation /\ p.layers = <<>>
            BY <1>1, <1>5, <1>6, <2>1, <3>1 DEF Pull, Sound
        <3>3. Resolved(p, w) /\ Attested(p, w)
            BY <1>6, <3>2 DEF Resolved, Attested
        <3>4. Furnished(p, w)
            BY <1>4, <1>6, <2>1, <3>2 DEF Furnished, AsksRight
        <3>5. p.ref \in References /\ ListOf(p.manifest) \in Wanted
            BY <1>6, <1>7, <3>2, FallbacksWanted
        <3>6. Layers(p) \in Pull /\ Sound(Layers(p), w)
            BY <3>2, <3>3, <3>4, <3>5, LayersSound
        <3>7. Ask(p, "referrers", ListOf(p.manifest)) \in Pull /\ Sound(Ask(p, "referrers", ListOf(p.manifest)), w)
            BY <3>2, <3>3, <3>4, <3>5, AskSound
        <3>8. AfterBlob = Layers(p) \/ AfterBlob = Ask(p, "referrers", ListOf(p.manifest))
            BY <1>1, <2>1, <3>1 DEF AfterBlob
        <3> QED BY <3>6, <3>7, <3>8
    <2>2. CASE pull.part = "envelopes"
        <3>1. Furnished(pull, w) /\ pull.layers = <<>>
            BY <1>1, <1>5, <2>2 DEF Sound
        <3> QED BY <1>1, <1>6, <2>2, <3>1, AskEnvelopeSound DEF AfterBlob
    <2>3. CASE pull.part = "layers"
        <3>1. PICK p : p = [pull EXCEPT !.layers = Append(@, pull.reply)]
            OBVIOUS
        <3>2. pull.layers \in Seq(Blobs) /\ pull.todo \in Seq(Blobs)
            BY <1>1 DEF Pull
        <3>3. Append(pull.layers, pull.want) \in Seq(Blobs)
            BY <1>6, <3>2
        <3>4. /\ p \in Pull /\ p.ref = pull.ref /\ p.manifest = pull.manifest /\ p.config = pull.config
              /\ p.attestation = pull.attestation /\ p.layers = Append(pull.layers, pull.want) /\ p.todo = pull.todo
            BY <1>1, <3>1, <3>3 DEF Pull
        <3>5. Resolved(p, w) /\ Attested(p, w)
            BY <1>6, <3>4 DEF Resolved, Attested
        <3>6. Furnished(p, w)
            BY <1>1, <1>5, <2>3, <3>4 DEF Sound, Furnished
        <3>7. /\ AddUp(pull.layers, 1, pull.todo, LayersOf[pull.manifest])
              /\ pull.want = LayersOf[pull.manifest][Len(pull.layers) + 1]
              /\ InCache(pull.layers, w)
            BY <1>6, <2>3 DEF AsksRight
        <3>8. AddUp(Append(pull.layers, pull.want), 0, pull.todo, LayersOf[pull.manifest])
            BY <1>6, <3>2, <3>7, AddUpMore
        <3>9. InCache(Append(pull.layers, pull.want), w)
            BY <1>4, <1>6, <3>2, <3>7 DEF InCache
        <3>10. AddUp(p.layers, 0, p.todo, LayersOf[p.manifest]) /\ InCache(p.layers, w)
            BY <3>4, <3>8, <3>9
        <3>11. AskLayer(p) \in Pull /\ Sound(AskLayer(p), w)
            BY <1>6, <3>4, <3>5, <3>6, <3>10, AskLayerSound
        <3>12. AfterBlob = AskLayer(p)
            BY <2>3, <3>1 DEF AfterBlob
        <3> QED BY <3>11, <3>12
    <2> QED BY <1>1, <2>1, <2>2, <2>3
<1>9. PullTypeOK'
    BY <1>1, <1>2, <1>6, <1>8 DEF PullTypeOK, registryVars
<1>10. CacheInv'
    BY <1>1, <1>2 DEF CacheInv, AttestationOf, registryVars
<1> QED BY <1>2, <1>3, <1>8, <1>9, <1>10 DEF PullInv

-----------------------------------------------------------------------------
\* A pull that is done is whole.

LEMMA AddUpAll ==
    ASSUME NEW S, NEW have \in Seq(S), NEW all \in Seq(S), AddUp(have, 0, <<>>, all)
    PROVE  have = all
<1>1. Len(have) = Len(all) /\ \A i \in 1 .. Len(have) : have[i] = all[i]
    BY DEF AddUp
<1> QED BY <1>1, SeqEqual

LEMMA DoneIsWhole == PullInv => PulledIsWhole
<1> SUFFICES ASSUME PullInv, PullAt("done") PROVE PulledIsPublished /\ PulledWorksOffline
    BY DEF PulledIsWhole, PulledIsPublished, PulledWorksOffline
<1>1. pull \in Pull /\ Sound(pull, World) /\ CacheInv /\ PullTypeOK
    BY DEF PullInv, PullTypeOK
<1>2. /\ pull.ref \in References /\ Resolved(pull, World) /\ Furnished(pull, World) /\ Attested(pull, World)
      /\ pull.todo = <<>> /\ AddUp(pull.layers, 0, pull.todo, LayersOf[pull.manifest]) /\ InCache(pull.layers, World)
    BY <1>1 DEF Sound, PullAt
<1>3. pull.manifest \in Manifests /\ manifests[pull.manifest] = pull.manifest
    BY <1>2 DEF Resolved, World
<1>4. PICK d \in NamedBy(pull.ref) : pull.manifest = ManifestOf(d) /\ manifests[pull.ref] = d
    BY <1>2 DEF Resolved, NamesIn, NamedBy, World
<1>5. pull.config = ConfigOf[pull.manifest] /\ pull.config \in cached
    BY <1>2 DEF Furnished, World
<1>6. pull.layers = LayersOf[pull.manifest]
    <2>1. LayersOf[pull.manifest] \in Seq(Blobs) /\ pull.layers \in Seq(Blobs)
        BY <1>1, <1>3, PullAssumption DEF Pull
    <2> QED BY <1>2, <2>1, AddUpAll
<1>7. pull.attestation # Unknown => {pull.attestation} = AttestationOf(pull.manifest)
    BY <1>2 DEF Attested, AttestedIn, AttestationOf, World
<1>8. PulledIsPublished
    BY <1>4, <1>5, <1>6, <1>7 DEF PulledIsPublished
<1>9. CachedManifest(pull.ref) = pull.manifest
    BY <1>3, <1>4 DEF CachedManifest, ManifestOf
<1>10. PulledWorksOffline
    BY <1>2, <1>3, <1>5, <1>9 DEF PulledWorksOffline, InCache, World
<1> QED BY <1>8, <1>10

LEMMA PullInductive == PullInv /\ [PullNext]_pullVars => PullInv'
<1> SUFFICES ASSUME PullInv, [PullNext]_pullVars PROVE PullInv'
    OBVIOUS
<1>1. CASE PushTag \/ AttachAttestation \/ TokenExpires
    BY <1>1, AroundPull
<1>2. CASE EvictImage
    BY <1>2, EvictSound
<1>3. CASE \E ref \in Pulled, offline \in BOOLEAN : StartPull(ref, offline)
    BY <1>3, StartSound
<1>4. CASE CacheHit
    BY <1>4, CacheHitSound
<1>5. CASE CacheMiss \/ Unauthorized \/ TryAgain \/ RequestRefused \/ CheckFails
    BY <1>5, RequestSound
<1>6. CASE Answered
    BY <1>6, AnsweredSound
<1>7. CASE CheckDocument
    BY <1>7, CheckDocumentSound
<1>8. CASE CheckList
    BY <1>8, CheckListSound
<1>9. CASE CheckBlob
    BY <1>9, CheckBlobSound
<1>10. CASE UNCHANGED pullVars
    BY <1>10 DEF pullVars, registryVars, PullInv, PullTypeOK, CacheInv, AttestationOf, World
<1> QED BY <1>1, <1>2, <1>3, <1>4, <1>5, <1>6, <1>7, <1>8, <1>9, <1>10 DEF PullNext, PullStep

\* A pull that succeeds has one image whole, a manifest its reference named with
\* that manifest's config, layers and attestation, and leaves all of it in the
\* cache, whatever the registry answered and the cache held
\* (RegistryClient.resolve, acquire_image).
THEOREM PullsAlwaysWhole == PullSpec => []PulledIsWhole
<1>1. PullInit => PullInv
    BY PullStarts
<1>2. PullInv /\ [PullNext]_pullVars => PullInv'
    BY PullInductive
<1>3. PullInv => PulledIsWhole
    BY DoneIsWhole
<1> QED BY <1>1, <1>2, <1>3, PTL DEF PullSpec
=============================================================================
