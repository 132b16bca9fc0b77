-------------------------- MODULE EventStreamProofs --------------------------
(***************************************************************************)
(* The safety properties of EventStream, proved for every set of scan      *)
(* threads and connections and every capacity of the ring.                 *)
(*                                                                         *)
(* The properties speak of the events a connection was sent and those in   *)
(* its queue.  Neither the order of the queue nor what the ring still      *)
(* holds is in them, but both are needed: a queue that holds the right     *)
(* events in the wrong order breaks ConnectionInOrder one step later.  The *)
(* inductive invariant StreamInv says that the history, the events sent    *)
(* and the events queued are runs of consecutive numbers that join.        *)
(***************************************************************************)
EXTENDS EventStream, TLAPS

\* A run of consecutive event numbers, and its last one (0 if there is none).
Consecutive(s) == \A i \in 1 .. Len(s) : s[i] = s[1] + (i - 1) /\ s[1] >= 1
LastOf(s) == IF s = <<>> THEN 0 ELSE s[Len(s)]

\* Leaving the sentinels out, q holds the events after lo up to hi in order.
Holds(q, lo, hi) ==
    /\ lo <= hi
    /\ \A i, j \in 1 .. Len(q) : i < j /\ q[i] # 0 /\ q[j] # 0 => q[i] < q[j]
    /\ \A i \in 1 .. Len(q) : q[i] # 0 => lo < q[i] /\ q[i] <= hi
    /\ \A n \in Nat : lo < n /\ n <= hi => \E i \in 1 .. Len(q) : q[i] = n

HistoryJoins == Consecutive(history) /\ LastOf(history) = delivered

ConnectionJoins(c) ==
    /\ Holds(queue[c], LastOf(out[c]), delivered)
    /\ out[c] # <<>> => history # <<>> /\ out[c][1] <= history[1]

\* Who has not subscribed has been queued nothing.
UnusedQueuesEmpty == \A c \in Connections : conn[c] = "unused" => queue[c] = <<>>

StreamInv ==
    /\ TypeOK
    /\ UnusedQueuesEmpty
    /\ HistoryJoins
    /\ \A c \in Connections : Consecutive(out[c])
    /\ \A c \in subscribers : ConnectionJoins(c)

-----------------------------------------------------------------------------
\* Sequences.

\* The empty queue holds no events.
LEMMA HoldsNothing == ASSUME NEW n \in Nat PROVE Holds(<<>>, n, n)
BY DEF Holds

\* One more delivered event goes to the end of the queue.
LEMMA HoldsEvent ==
    ASSUME NEW q \in Seq(Nat), NEW lo \in Nat, NEW hi \in Nat, Holds(q, lo, hi)
    PROVE  Holds(Append(q, hi + 1), lo, hi + 1)
<1> DEFINE r == Append(q, hi + 1)
<1>1. /\ Len(r) = Len(q) + 1
      /\ \A i \in 1 .. Len(q) : r[i] = q[i]
      /\ r[Len(q) + 1] = hi + 1
  OBVIOUS
<1>2. Len(q) \in Nat /\ \A i \in 1 .. Len(q) : q[i] \in Nat
  OBVIOUS
<1> HIDE DEF r
<1>3. lo <= hi + 1
  BY DEF Holds
<1>4. \A i, j \in 1 .. Len(r) : i < j /\ r[i] # 0 /\ r[j] # 0 => r[i] < r[j]
  <2> SUFFICES ASSUME NEW i \in 1 .. Len(r), NEW j \in 1 .. Len(r),
                      i < j, r[i] # 0, r[j] # 0
               PROVE  r[i] < r[j]
    OBVIOUS
  <2>1. i \in 1 .. Len(q)
    BY <1>1, <1>2
  <2>2. CASE j = Len(q) + 1
    BY <1>1, <1>2, <2>1, <2>2 DEF Holds
  <2>3. CASE j # Len(q) + 1
    <3>1. j \in 1 .. Len(q)
      BY <1>1, <1>2, <2>3
    <3> QED BY <1>1, <2>1, <3>1 DEF Holds
  <2> QED BY <2>2, <2>3
<1>5. \A i \in 1 .. Len(r) : r[i] # 0 => lo < r[i] /\ r[i] <= hi + 1
  <2> SUFFICES ASSUME NEW i \in 1 .. Len(r), r[i] # 0
               PROVE  lo < r[i] /\ r[i] <= hi + 1
    OBVIOUS
  <2>1. CASE i = Len(q) + 1
    BY <1>1, <1>2, <2>1 DEF Holds
  <2>2. CASE i # Len(q) + 1
    <3>1. i \in 1 .. Len(q)
      BY <1>1, <1>2, <2>2
    <3> QED BY <1>1, <1>2, <3>1 DEF Holds
  <2> QED BY <2>1, <2>2
<1>6. \A n \in Nat : lo < n /\ n <= hi + 1 => \E i \in 1 .. Len(r) : r[i] = n
  <2> SUFFICES ASSUME NEW n \in Nat, lo < n, n <= hi + 1
               PROVE  \E i \in 1 .. Len(r) : r[i] = n
    OBVIOUS
  <2>1. CASE n = hi + 1
    BY <1>1, <1>2, <2>1
  <2>2. CASE n # hi + 1
    <3>1. PICK i \in 1 .. Len(q) : q[i] = n
      BY <2>2 DEF Holds
    <3> QED BY <1>1, <1>2, <3>1
  <2> QED BY <2>1, <2>2
<1> QED BY <1>3, <1>4, <1>5, <1>6 DEF Holds, r

\* A sentinel at the end changes nothing.
LEMMA HoldsDone ==
    ASSUME NEW q \in Seq(Nat), NEW lo \in Nat, NEW hi \in Nat, Holds(q, lo, hi)
    PROVE  Holds(Append(q, 0), lo, hi)
<1> DEFINE r == Append(q, 0)
<1>1. /\ Len(r) = Len(q) + 1
      /\ \A i \in 1 .. Len(q) : r[i] = q[i]
      /\ r[Len(q) + 1] = 0
  OBVIOUS
<1>2. Len(q) \in Nat
  OBVIOUS
<1> HIDE DEF r
<1>3. \A i \in 1 .. Len(r) : r[i] # 0 => i \in 1 .. Len(q)
  BY <1>1, <1>2
<1>4. \A i, j \in 1 .. Len(r) : i < j /\ r[i] # 0 /\ r[j] # 0 => r[i] < r[j]
  BY <1>1, <1>3 DEF Holds
<1>5. \A i \in 1 .. Len(r) : r[i] # 0 => lo < r[i] /\ r[i] <= hi
  BY <1>1, <1>3 DEF Holds
<1>6. \A n \in Nat : lo < n /\ n <= hi => \E i \in 1 .. Len(r) : r[i] = n
  <2> SUFFICES ASSUME NEW n \in Nat, lo < n, n <= hi
               PROVE  \E i \in 1 .. Len(r) : r[i] = n
    OBVIOUS
  <2>1. PICK i \in 1 .. Len(q) : q[i] = n
    BY DEF Holds
  <2> QED BY <1>1, <1>2, <2>1
<1> QED BY <1>4, <1>5, <1>6 DEF Holds, r

\* What is taken from the queue is the event after the last one sent.
LEMMA HoldsTail ==
    ASSUME NEW q \in Seq(Nat), NEW lo \in Nat, NEW hi \in Nat, Holds(q, lo, hi),
           q # <<>>, Head(q) # 0
    PROVE  Head(q) = lo + 1 /\ Holds(Tail(q), lo + 1, hi)
<1> DEFINE r == Tail(q)
<1>1. /\ Len(r) = Len(q) - 1
      /\ \A i \in 1 .. Len(q) - 1 : r[i] = q[i + 1]
      /\ Head(q) = q[1]
  OBVIOUS
<1>2. Len(q) \in Nat /\ Len(q) >= 1 /\ \A i \in 1 .. Len(q) : q[i] \in Nat
  OBVIOUS
<1> HIDE DEF r
<1>3. q[1] # 0 /\ lo < q[1] /\ q[1] <= hi
  BY <1>1, <1>2 DEF Holds
<1>4. q[1] = lo + 1
  <2>1. PICK j \in 1 .. Len(q) : q[j] = lo + 1
    BY <1>2, <1>3 DEF Holds
  <2>2. CASE j = 1
    BY <2>1, <2>2
  <2>3. CASE j # 1
    <3>1. 1 < j /\ 1 \in 1 .. Len(q) /\ q[j] # 0
      BY <1>2, <2>1, <2>3
    <3>2. q[1] < q[j]
      BY <1>3, <3>1 DEF Holds
    <3> QED BY <1>2, <1>3, <2>1, <3>2
  <2> QED BY <2>2, <2>3
<1>5. \A i, j \in 1 .. Len(r) : i < j /\ r[i] # 0 /\ r[j] # 0 => r[i] < r[j]
  <2> SUFFICES ASSUME NEW i \in 1 .. Len(r), NEW j \in 1 .. Len(r),
                      i < j, r[i] # 0, r[j] # 0
               PROVE  r[i] < r[j]
    OBVIOUS
  <2>1. r[i] = q[i + 1] /\ r[j] = q[j + 1]
    BY <1>1, <1>2
  <2>2. i + 1 \in 1 .. Len(q) /\ j + 1 \in 1 .. Len(q) /\ i + 1 < j + 1
    BY <1>1, <1>2
  <2> QED BY <2>1, <2>2 DEF Holds
<1>6. \A i \in 1 .. Len(r) : r[i] # 0 => lo + 1 < r[i] /\ r[i] <= hi
  <2> SUFFICES ASSUME NEW i \in 1 .. Len(r), r[i] # 0
               PROVE  lo + 1 < r[i] /\ r[i] <= hi
    OBVIOUS
  <2>1. r[i] = q[i + 1] /\ i + 1 \in 1 .. Len(q) /\ 1 \in 1 .. Len(q) /\ 1 < i + 1
    BY <1>1, <1>2
  <2>2. q[1] < q[i + 1]
    BY <1>3, <2>1 DEF Holds
  <2> QED BY <1>4, <2>1, <2>2 DEF Holds
<1>7. \A n \in Nat : lo + 1 < n /\ n <= hi => \E i \in 1 .. Len(r) : r[i] = n
  <2> SUFFICES ASSUME NEW n \in Nat, lo + 1 < n, n <= hi
               PROVE  \E i \in 1 .. Len(r) : r[i] = n
    OBVIOUS
  <2>1. PICK j \in 1 .. Len(q) : q[j] = n
    BY DEF Holds
  <2>2. j # 1
    BY <1>4, <2>1
  <2>3. j - 1 \in 1 .. Len(r) /\ j - 1 \in 1 .. Len(q) - 1
    BY <1>1, <1>2, <2>2
  <2>4. r[j - 1] = q[(j - 1) + 1]
    BY <1>1, <2>3
  <2> QED BY <2>1, <2>3, <2>4
<1>8. lo + 1 <= hi
  BY <1>3, <1>4
<1> QED BY <1>1, <1>4, <1>5, <1>6, <1>7, <1>8 DEF Holds, r

\* A run of consecutive numbers is continued by the next one.
LEMMA ConsecutiveAppend ==
    ASSUME NEW s \in Seq(Nat), Consecutive(s), NEW n \in Nat, n = LastOf(s) + 1
    PROVE  Consecutive(Append(s, n)) /\ LastOf(Append(s, n)) = n
<1> DEFINE r == Append(s, n)
<1>1. /\ Len(r) = Len(s) + 1
      /\ \A i \in 1 .. Len(s) : r[i] = s[i]
      /\ r[Len(s) + 1] = n
      /\ r # <<>>
  OBVIOUS
<1>2. Len(s) \in Nat /\ (s = <<>> <=> Len(s) = 0)
  OBVIOUS
<1>3. \A i \in 1 .. Len(s) : s[i] \in Nat
  OBVIOUS
<1> HIDE DEF r
<1>4. CASE s = <<>>
  <2>1. n = 1 /\ Len(r) = 1 /\ r[1] = 1
    BY <1>1, <1>2, <1>4 DEF LastOf
  <2> QED BY <1>1, <2>1 DEF Consecutive, LastOf, r
<1>5. CASE s # <<>>
  <2>1. 1 \in 1 .. Len(s) /\ Len(s) \in 1 .. Len(s) /\ r[1] = s[1] /\ s[1] \in Nat
    BY <1>1, <1>2, <1>3, <1>5
  <2>2. n = s[1] + Len(s) /\ s[1] >= 1
    <3>1. s[Len(s)] = s[1] + (Len(s) - 1) /\ s[1] >= 1
      BY <2>1 DEF Consecutive
    <3>2. n = s[Len(s)] + 1
      BY <1>5 DEF LastOf
    <3> QED BY <1>2, <2>1, <3>1, <3>2
  <2>3. \A i \in 1 .. Len(r) : r[i] = r[1] + (i - 1)
    <3> SUFFICES ASSUME NEW i \in 1 .. Len(r) PROVE r[i] = r[1] + (i - 1)
      OBVIOUS
    <3>1. CASE i = Len(s) + 1
      BY <1>1, <1>2, <2>1, <2>2, <3>1
    <3>2. CASE i # Len(s) + 1
      <4>1. i \in 1 .. Len(s)
        BY <1>1, <1>2, <3>2
      <4> QED BY <1>1, <2>1, <4>1 DEF Consecutive
    <3> QED BY <3>1, <3>2
  <2>4. LastOf(r) = n
    BY <1>1 DEF LastOf
  <2> QED BY <2>1, <2>2, <2>3, <2>4 DEF Consecutive, r
<1> QED BY <1>4, <1>5

\* ... and stays one without its first number.
LEMMA ConsecutiveTail ==
    ASSUME NEW s \in Seq(Nat), Consecutive(s), s # <<>>, Tail(s) # <<>>
    PROVE  /\ Consecutive(Tail(s)) /\ LastOf(Tail(s)) = LastOf(s)
           /\ Tail(s)[1] = s[1] + 1
<1> DEFINE r == Tail(s)
<1>1. /\ Len(r) = Len(s) - 1
      /\ \A i \in 1 .. Len(s) - 1 : r[i] = s[i + 1]
      /\ Len(r) >= 1 /\ r # <<>>
  OBVIOUS
<1>2. Len(s) \in Nat /\ \A i \in 1 .. Len(s) : s[i] \in Nat
  OBVIOUS
<1> HIDE DEF r
<1>3. s[1] \in Nat /\ s[1] >= 1
  BY <1>1, <1>2 DEF Consecutive
<1>4. \A i \in 1 .. Len(r) : r[i] = s[1] + i
  <2> SUFFICES ASSUME NEW i \in 1 .. Len(r) PROVE r[i] = s[1] + i
    OBVIOUS
  <2>1. r[i] = s[i + 1] /\ i + 1 \in 1 .. Len(s)
    BY <1>1, <1>2
  <2>2. s[i + 1] = s[1] + ((i + 1) - 1)
    BY <2>1 DEF Consecutive
  <2> QED BY <1>3, <2>1, <2>2
<1>5. r[1] = s[1] + 1
  BY <1>1, <1>2, <1>4
<1>6. \A i \in 1 .. Len(r) : r[i] = r[1] + (i - 1) /\ r[1] >= 1
  <2> SUFFICES ASSUME NEW i \in 1 .. Len(r)
               PROVE  r[i] = r[1] + (i - 1) /\ r[1] >= 1
    OBVIOUS
  <2>1. i \in Nat /\ r[i] = s[1] + i
    BY <1>1, <1>2, <1>4
  <2>2. (s[1] + 1) + (i - 1) = s[1] + i
    BY <1>3, <2>1
  <2>3. r[1] + (i - 1) = s[1] + i
    BY <1>5, <2>2
  <2>4. r[1] >= 1
    BY <1>3, <1>5
  <2> QED BY <2>1, <2>3, <2>4
<1>7. LastOf(r) = LastOf(s)
  <2>1. r[Len(r)] = s[1] + Len(r)
    BY <1>1, <1>2, <1>4
  <2>2. s[Len(s)] = s[1] + (Len(s) - 1)
    BY <1>1, <1>2 DEF Consecutive
  <2> QED BY <1>1, <1>2, <1>3, <2>1, <2>2 DEF LastOf
<1> QED BY <1>5, <1>6, <1>7 DEF Consecutive, r

\* The ring after one more event: still consecutive, ending with that event, and
\* not reaching further back than before.
LEMMA RingJoins ==
    ASSUME NEW h \in Seq(Nat), Consecutive(h), Len(h) <= Replay,
           NEW n \in Nat, n = LastOf(h) + 1
    PROVE  /\ RingAppend(h, n) \in Seq(Nat) /\ Len(RingAppend(h, n)) <= Replay
           /\ RingAppend(h, n) # <<>>
           /\ Consecutive(RingAppend(h, n)) /\ LastOf(RingAppend(h, n)) = n
           /\ h # <<>> => h[1] <= RingAppend(h, n)[1]
<1> DEFINE r == RingAppend(h, n)
<1>1. Len(h) \in Nat /\ Replay \in Nat /\ Replay > 0 /\ (h = <<>> <=> Len(h) = 0)
  BY StreamAssumption
<1>2. ASSUME NEW t \in Seq(Nat)
      PROVE  /\ Append(t, n) \in Seq(Nat) /\ Append(t, n) # <<>>
             /\ Len(Append(t, n)) = Len(t) + 1
             /\ t # <<>> => Append(t, n)[1] = t[1]
             /\ t = <<>> => Append(t, n)[1] = n
  <2>1. Append(t, n) \in Seq(Nat) /\ Append(t, n) # <<>> /\ Len(Append(t, n)) = Len(t) + 1
    <3> DEFINE u == Append(t, n)
    <3>1. u \in Seq(Nat) /\ Len(u) = Len(t) + 1
      OBVIOUS
    <3>2. Len(t) \in Nat
      OBVIOUS
    <3> HIDE DEF u
    <3>3. u # <<>>
      BY <3>1, <3>2
    <3> QED BY <3>1, <3>3 DEF u
  <2>2. ASSUME t # <<>> PROVE Append(t, n)[1] = t[1]
    <3>1. 1 \in 1 .. Len(t)
      BY <2>2
    <3> QED BY <3>1
  <2>3. ASSUME t = <<>> PROVE Append(t, n)[1] = n
    <3>1. Append(t, n)[Len(t) + 1] = n
      OBVIOUS
    <3>2. Len(t) = 0
      BY <2>3
    <3> QED BY <3>1, <3>2
  <2> QED BY <2>1, <2>2, <2>3
<1>3. CASE Len(h) < Replay
  <2>1. r = Append(h, n)
    BY <1>3 DEF RingAppend
  <2>2. h # <<>> => h[1] \in Nat
    OBVIOUS
  <2>3. Consecutive(r) /\ LastOf(r) = n
    BY <2>1, ConsecutiveAppend
  <2> QED BY <1>1, <1>2, <1>3, <2>1, <2>2, <2>3
<1>4. CASE Len(h) >= Replay
  <2>1. r = Append(Tail(h), n)
    BY <1>1, <1>4 DEF RingAppend
  <2>2. h # <<>> /\ Tail(h) \in Seq(Nat) /\ Len(Tail(h)) = Len(h) - 1 /\ h[1] \in Nat
    BY <1>1, <1>4
  <2>3. CASE Tail(h) = <<>>
    <3>1. Consecutive(<<>>) /\ LastOf(<<>>) = 0
      BY DEF Consecutive, LastOf
    <3>2. Len(h) = 1
      <4> DEFINE t == Tail(h)
      <4>1. t \in Seq(Nat) /\ t = <<>> /\ Len(t) = Len(h) - 1
        BY <2>2, <2>3
      <4> HIDE DEF t
      <4>2. Len(t) = 0
        BY <4>1
      <4> QED BY <1>1, <4>1, <4>2
    <3>3. LastOf(h) = h[1]
      BY <2>2, <3>2 DEF LastOf
    <3>4. r[1] = n /\ Len(r) = 1 /\ r # <<>> /\ r \in Seq(Nat)
      <4> DEFINE t == Tail(h)
      <4>1. r = Append(t, n) /\ t \in Seq(Nat) /\ t = <<>> /\ Len(t) = 0
        BY <2>1, <2>2, <2>3, <3>2
      <4> HIDE DEF t, r
      <4> QED BY <1>2, <4>1
    <3>5. \A i \in 1 .. Len(r) : r[i] = r[1] + (i - 1) /\ r[1] >= 1
      BY <2>2, <3>3, <3>4
    <3>6. LastOf(r) = n
      BY <3>4 DEF LastOf
    <3>7. h[1] <= r[1]
      BY <2>2, <3>3, <3>4
    <3> QED BY <1>1, <1>4, <3>4, <3>5, <3>6, <3>7 DEF Consecutive
  <2>4. CASE Tail(h) # <<>>
    <3>1. Consecutive(Tail(h)) /\ LastOf(Tail(h)) = LastOf(h) /\ Tail(h)[1] = h[1] + 1
      BY <2>2, <2>4, ConsecutiveTail
    <3>2. Consecutive(r) /\ LastOf(r) = n
      BY <2>1, <2>2, <3>1, ConsecutiveAppend
    <3>3. r[1] = h[1] + 1
      BY <1>2, <2>1, <2>2, <2>4, <3>1
    <3>4. r \in Seq(Nat) /\ r # <<>> /\ Len(r) = Len(h)
      <4> DEFINE t == Tail(h)
      <4>1. r = Append(t, n) /\ t \in Seq(Nat) /\ Len(t) = Len(h) - 1
        BY <2>1, <2>2
      <4> HIDE DEF t, r
      <4> QED BY <1>1, <1>2, <4>1
    <3> QED BY <2>2, <3>2, <3>3, <3>4
  <2> QED BY <2>3, <2>4
<1> QED BY <1>1, <1>3, <1>4

\* LastOf of a run of consecutive numbers is where it ends.
LEMMA LastOfConsecutive ==
    ASSUME NEW s \in Seq(Nat), Consecutive(s)
    PROVE  /\ LastOf(s) \in Nat
           /\ s # <<>> => s[1] \in Nat /\ s[1] >= 1 /\ LastOf(s) = s[1] + (Len(s) - 1)
<1>1. Len(s) \in Nat /\ (s # <<>> => Len(s) \in 1 .. Len(s) /\ 1 \in 1 .. Len(s))
  OBVIOUS
<1>2. \A i \in 1 .. Len(s) : s[i] \in Nat
  OBVIOUS
<1> QED BY <1>1, <1>2 DEF Consecutive, LastOf

-----------------------------------------------------------------------------
\* Types.

\* A step keeps every variable in its type: the ring within its capacity, and
\* the subscribers the connections that are open.
LEMMA TypeInvariant == TypeOK /\ [Next]_vars => TypeOK'
<1> USE StreamAssumption
<1> SUFFICES ASSUME TypeOK, [Next]_vars PROVE TypeOK'
  OBVIOUS
<1>1. ASSUME NEW p \in Producers, EmitEvent(p) PROVE TypeOK'
  <2>1. callbacks' \in Seq({Deliver} \cup {PutDone(c) : c \in Connections})
    BY <1>1 DEF TypeOK, EmitEvent, Emit
  <2>2. emitted' \in Nat
    BY <1>1 DEF TypeOK, EmitEvent, Emit
  <2> QED BY <1>1, <2>1, <2>2 DEF TypeOK, EmitEvent
<1>2. ASSUME NEW p \in Producers, BeginClose(p) PROVE TypeOK'
  <2>1. closing' \in [Producers -> {NoIteration} \cup
           [on : {TRUE}, members : SUBSET Connections, visited : SUBSET Connections]]
    BY <1>2 DEF TypeOK, BeginClose, Iteration
  <2>2. closes' \in [Producers -> Nat]
    BY <1>2 DEF TypeOK, BeginClose
  <2> QED BY <1>2, <2>1, <2>2 DEF TypeOK, BeginClose
<1>3. ASSUME NEW p \in Producers, CloseNext(p) PROVE TypeOK'
  <2>1. PICK c \in subscribers \ closing[p].visited :
           /\ callbacks' = Append(callbacks, PutDone(c))
           /\ closing' = [closing EXCEPT ![p].visited = @ \cup {c}]
    BY <1>3 DEF CloseNext
  <2>2. c \in Connections
    BY <2>1 DEF TypeOK
  <2>3. callbacks' \in Seq({Deliver} \cup {PutDone(d) : d \in Connections})
    BY <2>1, <2>2 DEF TypeOK
  <2>4. closing[p] \in [on : {TRUE}, members : SUBSET Connections, visited : SUBSET Connections]
    <3>1. NoIteration.on = FALSE
      BY DEF NoIteration
    <3>2. closing[p].on
      BY <1>3 DEF CloseNext
    <3> QED BY <3>1, <3>2 DEF TypeOK
  <2>5. [closing[p] EXCEPT !.visited = @ \cup {c}]
           \in [on : {TRUE}, members : SUBSET Connections, visited : SUBSET Connections]
    BY <2>2, <2>4
  <2>6. closing' = [closing EXCEPT ![p] = [closing[p] EXCEPT !.visited = @ \cup {c}]]
    BY <2>1
  <2>7. closing' \in [Producers -> {NoIteration} \cup
           [on : {TRUE}, members : SUBSET Connections, visited : SUBSET Connections]]
    BY <2>5, <2>6 DEF TypeOK
  <2> QED BY <1>3, <2>3, <2>7 DEF TypeOK, CloseNext
<1>4. ASSUME NEW p \in Producers, CloseEnd(p) PROVE TypeOK'
  BY <1>4 DEF TypeOK, CloseEnd
<1>5. ASSUME NEW p \in Producers, CloseRaises(p) PROVE TypeOK'
  BY <1>5 DEF TypeOK, CloseRaises
<1>6. ASSUME DeliverEvent PROVE TypeOK'
  <2>1. callbacks' \in Seq({Deliver} \cup {PutDone(c) : c \in Connections})
    BY <1>6 DEF TypeOK, DeliverEvent
  <2>2. history' \in Seq(Nat) /\ Len(history') <= Replay
    <3>1. delivered + 1 \in Nat /\ Len(history) \in Nat
      BY DEF TypeOK
    <3>2. CASE Len(history) < Replay
      BY <1>6, <3>1, <3>2 DEF TypeOK, DeliverEvent, RingAppend
    <3>3. CASE ~(Len(history) < Replay)
      <4>1. history # <<>>
        BY <3>1, <3>3
      <4>2. Tail(history) \in Seq(Nat) /\ Len(Tail(history)) = Len(history) - 1
        BY <4>1 DEF TypeOK
      <4> QED BY <1>6, <3>1, <3>3, <4>2 DEF TypeOK, DeliverEvent, RingAppend
    <3> QED BY <3>2, <3>3
  <2>3. queue' \in [Connections -> Seq(Nat)]
    BY <1>6 DEF TypeOK, DeliverEvent
  <2>4. delivered' \in Nat
    BY <1>6 DEF TypeOK, DeliverEvent
  <2>5. UNCHANGED <<subscribers, conn, out, closing, emitted, closes>>
    BY <1>6 DEF DeliverEvent
  <2> QED BY <2>1, <2>2, <2>3, <2>4, <2>5 DEF TypeOK
<1>7. ASSUME DeliverDone PROVE TypeOK'
  <2>1. callbacks' \in Seq({Deliver} \cup {PutDone(c) : c \in Connections})
    BY <1>7 DEF TypeOK, DeliverDone
  <2>2. queue' \in [Connections -> Seq(Nat)]
    BY <1>7 DEF TypeOK, DeliverDone, Done
  <2> QED BY <1>7, <2>1, <2>2 DEF TypeOK, DeliverDone
<1>8. ASSUME NEW c \in Connections, Subscribe(c) PROVE TypeOK'
  <2>1. subscribers' = {d \in Connections : conn'[d] = "open"}
    BY <1>8 DEF TypeOK, Subscribe
  <2>2. out' \in [Connections -> Seq(Nat)]
    BY <1>8 DEF TypeOK, Subscribe
  <2>3. conn' \in [Connections -> {"unused", "open", "ended", "dropped"}]
    BY <1>8 DEF TypeOK, Subscribe
  <2> QED BY <1>8, <2>1, <2>2, <2>3 DEF TypeOK, Subscribe
<1>9. ASSUME NEW c \in Connections, Yield(c) PROVE TypeOK'
  <2>1. Head(queue[c]) \in Nat /\ Tail(queue[c]) \in Seq(Nat)
    BY <1>9 DEF TypeOK, Yield
  <2>2. queue' \in [Connections -> Seq(Nat)] /\ out' \in [Connections -> Seq(Nat)]
    BY <1>9, <2>1 DEF TypeOK, Yield
  <2> QED BY <1>9, <2>2 DEF TypeOK, Yield
<1>10. ASSUME NEW c \in Connections, YieldDone(c) PROVE TypeOK'
  <2>1. subscribers' = {d \in Connections : conn'[d] = "open"}
    BY <1>10 DEF TypeOK, YieldDone
  <2>2. queue' \in [Connections -> Seq(Nat)]
    BY <1>10 DEF TypeOK, YieldDone
  <2>3. conn' \in [Connections -> {"unused", "open", "ended", "dropped"}]
    BY <1>10 DEF TypeOK, YieldDone
  <2> QED BY <1>10, <2>1, <2>2, <2>3 DEF TypeOK, YieldDone
<1>11. ASSUME NEW c \in Connections, Disconnect(c) PROVE TypeOK'
  <2>1. subscribers' = {d \in Connections : conn'[d] = "open"}
    BY <1>11 DEF TypeOK, Disconnect
  <2>2. queue' \in [Connections -> Seq(Nat)]
    BY <1>11 DEF TypeOK, Disconnect
  <2>3. conn' \in [Connections -> {"unused", "open", "ended", "dropped"}]
    BY <1>11 DEF TypeOK, Disconnect
  <2> QED BY <1>11, <2>1, <2>2, <2>3 DEF TypeOK, Disconnect
<1>12. CASE UNCHANGED vars
  BY <1>12 DEF TypeOK, vars
<1> QED
  BY <1>1, <1>2, <1>3, <1>4, <1>5, <1>6, <1>7, <1>8, <1>9, <1>10, <1>11, <1>12
  DEF Next, LoopStep

-----------------------------------------------------------------------------
\* The inductive invariant.

\* Nothing a scan thread does touches the events: threads only schedule
\* callbacks and iterate the subscribers.
LEMMA ThreadsKeepInv ==
    StreamInv /\ TypeOK'
    /\ UNCHANGED <<delivered, history, subscribers, conn, queue, out>> => StreamInv'
BY DEF StreamInv, UnusedQueuesEmpty, HistoryJoins, ConnectionJoins

\* Nothing has happened: everything is empty.
LEMMA InitEstablishesInv == Init => StreamInv
<1> SUFFICES ASSUME Init PROVE StreamInv
  OBVIOUS
<1> USE StreamAssumption
<1>1. TypeOK
  BY DEF Init, TypeOK
<1>2. HistoryJoins /\ \A c \in Connections : Consecutive(out[c])
  BY DEF Init, HistoryJoins, Consecutive, LastOf
<1>3. \A c \in subscribers : ConnectionJoins(c)
  BY DEF Init
<1>4. UnusedQueuesEmpty
  BY DEF Init, UnusedQueuesEmpty
<1> QED BY <1>1, <1>2, <1>3, <1>4 DEF StreamInv

\* An event is delivered: the ring, and the queue of every subscriber, go one
\* further.
LEMMA DeliverEventKeepsInv == StreamInv /\ TypeOK' /\ DeliverEvent => StreamInv'
<1> SUFFICES ASSUME StreamInv, TypeOK', DeliverEvent PROVE StreamInv'
  OBVIOUS
<1>1. history \in Seq(Nat) /\ Len(history) <= Replay /\ delivered \in Nat
      /\ Consecutive(history) /\ LastOf(history) = delivered
  BY DEF StreamInv, TypeOK, HistoryJoins
<1>2. history' = RingAppend(history, delivered + 1) /\ delivered' = delivered + 1
      /\ out' = out /\ subscribers' = subscribers
  BY DEF DeliverEvent
<1>3. delivered + 1 \in Nat /\ delivered + 1 = LastOf(history) + 1
  BY <1>1
<1>4. /\ Consecutive(history') /\ LastOf(history') = delivered'
      /\ history' # <<>> /\ history' \in Seq(Nat)
      /\ history # <<>> => history[1] <= history'[1]
  BY <1>1, <1>2, <1>3, RingJoins
<1>5. ASSUME NEW c \in subscribers PROVE ConnectionJoins(c)'
  <2>1. c \in Connections /\ queue[c] \in Seq(Nat) /\ out[c] \in Seq(Nat)
        /\ Consecutive(out[c]) /\ ConnectionJoins(c)
    BY <1>5 DEF StreamInv, TypeOK
  <2>2. queue'[c] = Append(queue[c], delivered + 1)
    BY <2>1 DEF DeliverEvent
  <2>3. LastOf(out[c]) \in Nat
    BY <2>1, LastOfConsecutive
  <2>4. Holds(queue'[c], LastOf(out'[c]), delivered')
    BY <1>1, <1>2, <2>1, <2>2, <2>3, HoldsEvent DEF ConnectionJoins
  <2>5. ASSUME out'[c] # <<>> PROVE history' # <<>> /\ out'[c][1] <= history'[1]
    <3>1. history # <<>> /\ out[c][1] <= history[1]
      BY <1>2, <2>1, <2>5 DEF ConnectionJoins
    <3>2. history[1] \in Nat /\ history'[1] \in Nat /\ out[c][1] \in Nat
      BY <1>1, <1>2, <1>4, <2>1, <2>5, <3>1, LastOfConsecutive
    <3> QED BY <1>2, <1>4, <3>1, <3>2
  <2> QED BY <2>4, <2>5 DEF ConnectionJoins
<1>6. HistoryJoins'
  BY <1>4 DEF HistoryJoins
<1>7. \A c \in Connections : Consecutive(out'[c])
  BY <1>2 DEF StreamInv
<1>8. UnusedQueuesEmpty'
  BY DEF StreamInv, UnusedQueuesEmpty, TypeOK, DeliverEvent
<1> QED BY <1>2, <1>5, <1>6, <1>7, <1>8 DEF StreamInv

\* A sentinel goes to the end of one queue.
LEMMA DeliverDoneKeepsInv == StreamInv /\ TypeOK' /\ DeliverDone => StreamInv'
<1> SUFFICES ASSUME StreamInv, TypeOK', DeliverDone PROVE StreamInv'
  OBVIOUS
<1>1. UNCHANGED <<delivered, history, subscribers, out>>
  BY DEF DeliverDone
<1>2. ASSUME NEW c \in subscribers PROVE ConnectionJoins(c)'
  <2>1. c \in Connections /\ queue[c] \in Seq(Nat) /\ out[c] \in Seq(Nat)
        /\ Consecutive(out[c]) /\ ConnectionJoins(c) /\ delivered \in Nat
    BY <1>2 DEF StreamInv, TypeOK
  <2>2. queue'[c] = queue[c] \/ queue'[c] = Append(queue[c], 0)
    BY <2>1 DEF DeliverDone, Done, StreamInv, TypeOK
  <2>3. LastOf(out[c]) \in Nat
    BY <2>1, LastOfConsecutive
  <2>4. Holds(queue'[c], LastOf(out[c]), delivered)
    BY <2>1, <2>2, <2>3, HoldsDone DEF ConnectionJoins
  <2> QED BY <1>1, <2>1, <2>4 DEF ConnectionJoins
<1>3. UnusedQueuesEmpty'
  BY DEF StreamInv, UnusedQueuesEmpty, TypeOK, DeliverDone
<1> QED BY <1>1, <1>2, <1>3 DEF StreamInv, HistoryJoins

\* A new connection starts with what the ring holds and an empty queue.
LEMMA SubscribeKeepsInv ==
    ASSUME NEW c \in Connections, StreamInv, TypeOK', Subscribe(c)
    PROVE  StreamInv'
<1>1. /\ UNCHANGED <<delivered, history>>
      /\ out' = [out EXCEPT ![c] = history]
      /\ queue' = queue
      /\ subscribers' = subscribers \cup {c}
  BY DEF Subscribe
<1>2. history \in Seq(Nat) /\ delivered \in Nat /\ Consecutive(history)
      /\ LastOf(history) = delivered
  BY DEF StreamInv, TypeOK, HistoryJoins
<1>3. out'[c] = history /\ \A d \in Connections : d # c => out'[d] = out[d]
  BY <1>1 DEF StreamInv, TypeOK
<1>4. queue[c] = <<>>
  BY DEF Subscribe, StreamInv, UnusedQueuesEmpty
<1>5. ConnectionJoins(c)'
  <2>1. Holds(queue'[c], LastOf(out'[c]), delivered')
    BY <1>1, <1>2, <1>3, <1>4, HoldsNothing
  <2>2. history # <<>> => history[1] \in Nat
    BY <1>2, LastOfConsecutive
  <2> QED BY <1>1, <1>3, <2>1, <2>2 DEF ConnectionJoins
<1>6. ASSUME NEW d \in subscribers, d # c PROVE ConnectionJoins(d)'
  <2>1. d \in Connections /\ ConnectionJoins(d)
    BY <1>6 DEF StreamInv, TypeOK
  <2> QED BY <1>1, <1>3, <1>6, <2>1 DEF ConnectionJoins
<1>7. \A d \in Connections : Consecutive(out'[d])
  BY <1>2, <1>3 DEF StreamInv
<1>8. UnusedQueuesEmpty'
  BY DEF StreamInv, UnusedQueuesEmpty, TypeOK, Subscribe
<1> QED BY <1>1, <1>5, <1>6, <1>7, <1>8 DEF StreamInv, HistoryJoins

\* The next event in the queue is the one after the last sent.
LEMMA YieldKeepsInv ==
    ASSUME NEW c \in Connections, StreamInv, TypeOK', Yield(c)
    PROVE  StreamInv'
<1>1. /\ UNCHANGED <<delivered, history, subscribers, conn>>
      /\ out' = [out EXCEPT ![c] = Append(@, Head(queue[c]))]
      /\ queue' = [queue EXCEPT ![c] = Tail(@)]
      /\ queue[c] # <<>> /\ Head(queue[c]) # 0 /\ conn[c] = "open"
  BY DEF Yield, Done
<1>2. c \in subscribers /\ queue[c] \in Seq(Nat) /\ out[c] \in Seq(Nat)
      /\ delivered \in Nat /\ history \in Seq(Nat)
      /\ Consecutive(out[c]) /\ ConnectionJoins(c) /\ HistoryJoins
  BY <1>1 DEF StreamInv, TypeOK
<1>3. LastOf(out[c]) \in Nat
  BY <1>2, LastOfConsecutive
<1>4. Head(queue[c]) = LastOf(out[c]) + 1
      /\ Holds(Tail(queue[c]), LastOf(out[c]) + 1, delivered)
  BY <1>1, <1>2, <1>3, HoldsTail DEF ConnectionJoins
<1>5. out'[c] = Append(out[c], Head(queue[c])) /\ queue'[c] = Tail(queue[c])
      /\ \A d \in Connections : d # c => out'[d] = out[d] /\ queue'[d] = queue[d]
  BY <1>1 DEF StreamInv, TypeOK
<1>6. Head(queue[c]) \in Nat
  BY <1>3, <1>4
<1>7. Consecutive(out'[c]) /\ LastOf(out'[c]) = LastOf(out[c]) + 1
  BY <1>2, <1>4, <1>5, <1>6, ConsecutiveAppend
<1>8. history # <<>> /\ out'[c][1] <= history[1]
  <2>1. LastOf(history) >= LastOf(out[c]) + 1
    BY <1>2, <1>3, <1>4 DEF HistoryJoins, Holds
  <2>2. history # <<>>
    BY <1>3, <2>1 DEF LastOf
  <2>3. history[1] \in Nat /\ history[1] >= 1
    BY <1>2, <2>2, LastOfConsecutive DEF HistoryJoins
  <2>4. CASE out[c] = <<>>
    <3>1. out'[c][1] = LastOf(out[c]) + 1
      <4> DEFINE t == out[c]
      <4>1. t \in Seq(Nat) /\ Len(t) = 0 /\ out'[c] = Append(t, Head(queue[c]))
        BY <1>2, <1>5, <2>4
      <4> HIDE DEF t
      <4>2. Append(t, Head(queue[c]))[Len(t) + 1] = Head(queue[c])
        BY <4>1, <1>6
      <4> QED BY <1>4, <4>1, <4>2
    <3>2. LastOf(out[c]) = 0
      BY <2>4 DEF LastOf
    <3> QED BY <2>2, <2>3, <3>1, <3>2
  <2>5. CASE out[c] # <<>>
    <3>1. 1 \in 1 .. Len(out[c])
      BY <1>2, <2>5
    <3>2. out'[c][1] = out[c][1]
      BY <1>2, <1>5, <1>6, <3>1
    <3> QED BY <1>2, <2>2, <2>5, <3>2 DEF ConnectionJoins
  <2> QED BY <2>4, <2>5
<1>9. ConnectionJoins(c)'
  BY <1>1, <1>4, <1>5, <1>7, <1>8 DEF ConnectionJoins
<1>10. ASSUME NEW d \in subscribers, d # c PROVE ConnectionJoins(d)'
  <2>1. d \in Connections /\ ConnectionJoins(d)
    BY <1>10 DEF StreamInv, TypeOK
  <2> QED BY <1>1, <1>5, <1>10, <2>1 DEF ConnectionJoins
<1>11. \A d \in Connections : Consecutive(out'[d])
  BY <1>5, <1>7 DEF StreamInv
<1>12. UnusedQueuesEmpty'
  BY <1>1, <1>5 DEF StreamInv, UnusedQueuesEmpty
<1> QED BY <1>1, <1>2, <1>9, <1>10, <1>11, <1>12 DEF StreamInv, HistoryJoins

\* A connection that ends leaves the subscribers; the others keep what is theirs.
LEMMA LeaveKeepsInv ==
    ASSUME NEW c \in Connections, StreamInv, TypeOK', YieldDone(c) \/ Disconnect(c)
    PROVE  StreamInv'
<1>1. /\ UNCHANGED <<delivered, history, out>>
      /\ subscribers' = subscribers \ {c}
      /\ queue' = [queue EXCEPT ![c] = <<>>]
      /\ \A d \in Connections : conn'[d] = "unused" => conn[d] = "unused"
  BY DEF YieldDone, Disconnect, StreamInv, TypeOK
<1>2. ASSUME NEW d \in subscribers' PROVE ConnectionJoins(d)'
  <2>1. d \in Connections /\ ConnectionJoins(d) /\ d # c
    BY <1>1, <1>2 DEF StreamInv, TypeOK
  <2>2. queue'[d] = queue[d]
    BY <1>1, <2>1 DEF StreamInv, TypeOK
  <2> QED BY <1>1, <2>1, <2>2 DEF ConnectionJoins
<1>3. UnusedQueuesEmpty'
  BY <1>1 DEF StreamInv, UnusedQueuesEmpty, TypeOK
<1> QED BY <1>1, <1>2, <1>3 DEF StreamInv, HistoryJoins

\* Every step keeps the invariant.
LEMMA NextKeepsInv == StreamInv /\ [Next]_vars => StreamInv'
<1> SUFFICES ASSUME StreamInv, [Next]_vars PROVE StreamInv'
  OBVIOUS
<1>t. TypeOK'
  BY TypeInvariant DEF StreamInv
<1>1. ASSUME NEW p \in Producers,
             EmitEvent(p) \/ BeginClose(p) \/ CloseNext(p) \/ CloseEnd(p) \/ CloseRaises(p)
      PROVE  StreamInv'
  <2>1. UNCHANGED <<delivered, history, subscribers, conn, queue, out>>
    BY <1>1 DEF EmitEvent, BeginClose, CloseNext, CloseEnd, CloseRaises
  <2> QED BY <1>t, <2>1, ThreadsKeepInv
<1>2. CASE LoopStep
  BY <1>2, <1>t, DeliverEventKeepsInv, DeliverDoneKeepsInv DEF LoopStep
<1>3. ASSUME NEW c \in Connections, Subscribe(c) \/ Yield(c) \/ YieldDone(c) \/ Disconnect(c)
      PROVE  StreamInv'
  BY <1>3, <1>t, SubscribeKeepsInv, YieldKeepsInv, LeaveKeepsInv
<1>4. CASE UNCHANGED vars
  BY <1>4, <1>t, ThreadsKeepInv DEF vars
<1> QED BY <1>1, <1>2, <1>3, <1>4 DEF Next

\* History, sent and queued events join in every reachable state.
THEOREM StreamAlwaysJoins == Spec => []StreamInv
<1> QED BY InitEstablishesInv, NextKeepsInv, PTL DEF Spec

-----------------------------------------------------------------------------
\* The properties.

\* What an open connection was sent and still will be sent is everything from
\* its first event to the last one delivered.
LEMMA KnownEvents ==
    ASSUME StreamInv, NEW c \in subscribers
    PROVE  \A n \in Nat :
              /\ n \in Sent(c) \cup Pending(c) => 1 <= n /\ n <= delivered
              /\ out[c] = <<>> =>
                    (n \in Sent(c) \cup Pending(c) <=> 1 <= n /\ n <= delivered)
              /\ out[c] # <<>> =>
                    (n \in Sent(c) \cup Pending(c) <=> out[c][1] <= n /\ n <= delivered)
<1> DEFINE o == out[c]
           q == queue[c]
<1>1. o \in Seq(Nat) /\ q \in Seq(Nat) /\ delivered \in Nat /\ Consecutive(o)
      /\ Holds(q, LastOf(o), delivered)
  BY DEF StreamInv, TypeOK, ConnectionJoins
<1>2. LastOf(o) \in Nat /\ Len(o) \in Nat
      /\ (o # <<>> => o[1] \in Nat /\ o[1] >= 1 /\ LastOf(o) = o[1] + (Len(o) - 1))
  BY <1>1, LastOfConsecutive
<1>3. Sent(c) = {o[i] : i \in 1 .. Len(o)} /\ Pending(c) = {q[i] : i \in 1 .. Len(q)} \ {0}
  BY <1>1 DEF Sent, Pending, Done
<1> HIDE DEF o, q
<1>4. ASSUME NEW n \in Nat
      PROVE  n \in Pending(c) <=> LastOf(o) < n /\ n <= delivered
  <2>1. ASSUME n \in Pending(c) PROVE LastOf(o) < n /\ n <= delivered
    <3>1. PICK i \in 1 .. Len(q) : n = q[i] /\ q[i] # 0
      BY <1>3, <2>1
    <3> QED BY <1>1, <3>1 DEF Holds
  <2>2. ASSUME LastOf(o) < n, n <= delivered PROVE n \in Pending(c)
    <3>1. PICK i \in 1 .. Len(q) : q[i] = n
      BY <1>1, <2>2 DEF Holds
    <3>2. n # 0
      BY <1>2, <2>2
    <3> QED BY <1>3, <3>1, <3>2
  <2> QED BY <2>1, <2>2
<1>5. ASSUME NEW n \in Nat
      PROVE  n \in Sent(c) <=> o # <<>> /\ o[1] <= n /\ n <= LastOf(o)
  <2>1. ASSUME n \in Sent(c) PROVE o # <<>> /\ o[1] <= n /\ n <= LastOf(o)
    <3>1. PICK i \in 1 .. Len(o) : n = o[i]
      BY <1>3, <2>1
    <3>2. o # <<>> /\ n = o[1] + (i - 1)
      BY <1>1, <1>2, <3>1 DEF Consecutive
    <3> QED BY <1>2, <3>1, <3>2
  <2>2. ASSUME o # <<>>, o[1] <= n, n <= LastOf(o) PROVE n \in Sent(c)
    <3>1. PICK k \in 1 .. Len(o) : k = (n - o[1]) + 1
      BY <1>2, <2>2
    <3>2. o[k] = o[1] + (k - 1)
      BY <1>1, <3>1 DEF Consecutive
    <3>3. o[k] = n
      BY <1>2, <2>2, <3>1, <3>2
    <3> QED BY <1>3, <3>1, <3>3
  <2> QED BY <2>1, <2>2
<1>6. o = <<>> => LastOf(o) = 0
  BY DEF LastOf
<1>7. LastOf(o) <= delivered
  BY <1>1 DEF Holds
<1>8. o # <<>> => o[1] <= LastOf(o)
  <2> SUFFICES ASSUME o # <<>> PROVE o[1] <= LastOf(o)
    OBVIOUS
  <2>1. Len(o) >= 1
    BY <1>1
  <2> QED BY <1>2, <2>1
<1>9. TAKE n \in Nat
<1>10. n \in Sent(c) \cup Pending(c) => 1 <= n /\ n <= delivered
  BY <1>1, <1>2, <1>4, <1>5, <1>7
<1>11. o = <<>> => (n \in Sent(c) \cup Pending(c) <=> 1 <= n /\ n <= delivered)
  BY <1>1, <1>4, <1>5, <1>6
<1>12. o # <<>> => (n \in Sent(c) \cup Pending(c) <=> o[1] <= n /\ n <= delivered)
  BY <1>1, <1>2, <1>4, <1>5, <1>7, <1>8
<1> QED BY <1>10, <1>11, <1>12 DEF o

\* The events sent are consecutive.
LEMMA InvImpliesOrder == StreamInv => ConnectionInOrder
<1> SUFFICES ASSUME StreamInv, NEW c \in Connections, NEW i \in DOMAIN out[c], i > 1
             PROVE  out[c][i] = out[c][i - 1] + 1
  BY DEF ConnectionInOrder
<1> DEFINE o == out[c]
<1>1. o \in Seq(Nat) /\ Consecutive(o)
  BY DEF StreamInv, TypeOK
<1>2. i \in 1 .. Len(o) /\ Len(o) \in Nat
  BY <1>1
<1> HIDE DEF o
<1>3. i - 1 \in 1 .. Len(o) /\ 1 \in 1 .. Len(o)
  BY <1>2
<1>4. o[i] = o[1] + (i - 1)
  BY <1>1, <1>2 DEF Consecutive
<1>8. o[1] \in Nat
  BY <1>1, <1>3
<1>5. PICK k \in 1 .. Len(o) : k = i - 1
  BY <1>3
<1>6. o[k] = o[1] + (k - 1)
  BY <1>1, <1>5 DEF Consecutive
<1>7. o[i] = o[k] + 1
  BY <1>2, <1>4, <1>5, <1>6, <1>8
<1> QED BY <1>5, <1>7 DEF o

\* What is known reaches to the last event delivered.
LEMMA InvImpliesNoEventMissed == StreamInv => NoEventMissed
<1> SUFFICES ASSUME StreamInv, NEW c \in subscribers, NEW n \in Sent(c) \cup Pending(c),
                    NEW k \in n .. delivered
             PROVE  k \in Sent(c) \cup Pending(c)
  BY DEF NoEventMissed
<1>1. n \in Nat /\ delivered \in Nat /\ out[c] \in Seq(Nat)
  BY DEF StreamInv, TypeOK, Sent, Pending
<1>2. k \in Nat /\ n <= k /\ k <= delivered
  BY <1>1
<1>3. out[c] # <<>> => out[c][1] \in Nat
  BY <1>1
<1> QED BY <1>1, <1>2, <1>3, KnownEvents

\* What the ring holds is known.
LEMMA InvImpliesCatchUp == StreamInv => LateSubscriberCatchesUp
<1> SUFFICES ASSUME StreamInv, NEW c \in subscribers, NEW i \in DOMAIN history
             PROVE  history[i] \in Sent(c) \cup Pending(c)
  BY DEF LateSubscriberCatchesUp
<1>1. history \in Seq(Nat) /\ Consecutive(history) /\ LastOf(history) = delivered
      /\ out[c] \in Seq(Nat)
  BY DEF StreamInv, TypeOK, HistoryJoins
<1>2. i \in 1 .. Len(history) /\ history # <<>> /\ Len(history) \in Nat
  BY <1>1
<1>3. history[1] \in Nat /\ history[1] >= 1 /\ delivered = history[1] + (Len(history) - 1)
  BY <1>1, <1>2, LastOfConsecutive
<1>4. history[i] = history[1] + (i - 1)
  BY <1>1, <1>2 DEF Consecutive
<1>5. history[i] \in Nat /\ history[1] <= history[i] /\ history[i] <= delivered
  BY <1>2, <1>3, <1>4
<1>6. out[c] # <<>> => out[c][1] \in Nat /\ out[c][1] <= history[1]
  BY <1>1 DEF StreamInv, ConnectionJoins
<1> QED BY <1>3, <1>5, <1>6, KnownEvents

\* The stream's state is well typed: the ring never exceeds its capacity and
\* the subscribers are the open connections.
THEOREM TypeCorrect == Spec => []TypeOK
<1>1. StreamInv => TypeOK
  BY DEF StreamInv
<1> QED BY <1>1, StreamAlwaysJoins, PTL

\* Every connection gets the events in order, without gap or repetition.
THEOREM ConnectionsAlwaysInOrder == Spec => []ConnectionInOrder
<1> QED BY StreamAlwaysJoins, InvImpliesOrder, PTL

\* No open connection misses an event after its first one.
THEOREM NoEventEverMissed == Spec => []NoEventMissed
<1> QED BY StreamAlwaysJoins, InvImpliesNoEventMissed, PTL

\* A late subscriber catches up from the oldest event in the ring.
THEOREM LateSubscribersAlwaysCatchUp == Spec => []LateSubscriberCatchesUp
<1> QED BY StreamAlwaysJoins, InvImpliesCatchUp, PTL

\* A connection gets the ring and then every later event, without a seam.
THEOREM StreamAlwaysSeamless == Spec => []StreamIsSeamless
<1>1. ConnectionInOrder /\ LateSubscriberCatchesUp => StreamIsSeamless
  BY DEF StreamIsSeamless
<1> QED BY <1>1, ConnectionsAlwaysInOrder, LateSubscribersAlwaysCatchUp, PTL
=============================================================================
