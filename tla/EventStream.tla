----------------------------- MODULE EventStream -----------------------------
(***************************************************************************)
(* ui/sse.py and the ProgressBus of core/events.py: the seam between the   *)
(* scan threads, which emit events, and the event loop, on which the SSE   *)
(* connections live.                                                       *)
(*                                                                         *)
(* A scan thread never touches a connection's queue: it schedules a        *)
(* callback, and the loop runs callbacks in order.  The one exception is   *)
(* close, which iterates the set of subscribers on the scan thread while   *)
(* the loop adds and removes members; CPython makes the iteration raise    *)
(* when it notices that the set changed size.                              *)
(*                                                                         *)
(* An event is represented by its number in the order of delivery: what it *)
(* says is not the stream's business.                                      *)
(***************************************************************************)
EXTENDS Naturals, Sequences, FiniteSets

CONSTANTS
    Producers,   \* scan threads
    Connections, \* calls of subscribe, one per HTTP connection
    Replay,      \* capacity of the history ring
    MaxEvents,   \* bound: events emitted
    MaxCloses    \* bound: calls of close per producer

ASSUME StreamAssumption ==
    /\ Replay \in Nat \ {0}
    /\ MaxEvents \in Nat
    /\ MaxCloses \in Nat

VARIABLES
    callbacks,   \* callbacks scheduled on the loop with call_soon_threadsafe
    delivered,   \* number of events delivered so far
    history,     \* _history: the last events delivered
    subscribers, \* _subscribers
    conn,        \* conn[c]: life of the connection
    queue,       \* queue[c]: the connection's asyncio.Queue
    out,         \* out[c]: the events the connection was sent
    closing,     \* closing[p]: the iteration of close, if p is in it
    emitted,     \* events emitted so far
    closes       \* closes[p]: calls of close by p so far

vars == <<callbacks, delivered, history, subscribers, conn, queue, out, closing,
          emitted, closes>>

\* The sentinel None that ends a connection; 0 is no event's number.
Done == 0

Deliver == [call |-> "deliver"]
PutDone(c) == [call |-> "put", to |-> c]

\* Where a thread stands in `for q in self._subscribers`: the members when the
\* iterator was made and those visited.
NoIteration == [on |-> FALSE]
Iteration(members) == [on |-> TRUE, members |-> members, visited |-> {}]

TypeOK ==
    /\ callbacks \in Seq({Deliver} \cup {PutDone(c) : c \in Connections})
    /\ delivered \in Nat
    /\ history \in Seq(Nat) /\ Len(history) <= Replay
    /\ subscribers = {c \in Connections : conn[c] = "open"}
    /\ conn \in [Connections -> {"unused", "open", "ended", "dropped"}]
    /\ queue \in [Connections -> Seq(Nat)]
    /\ out \in [Connections -> Seq(Nat)]
    /\ closing \in [Producers -> {NoIteration} \cup
           [on : {TRUE}, members : SUBSET Connections, visited : SUBSET Connections]]
    /\ emitted \in Nat
    /\ closes \in [Producers -> Nat]

Init ==
    /\ callbacks = <<>>
    /\ delivered = 0
    /\ history = <<>>
    /\ subscribers = {}
    /\ conn = [c \in Connections |-> "unused"]
    /\ queue = [c \in Connections |-> <<>>]
    /\ out = [c \in Connections |-> <<>>]
    /\ closing = [p \in Producers |-> NoIteration]
    /\ emitted = 0
    /\ closes = [p \in Producers |-> 0]

-----------------------------------------------------------------------------

\* deque(maxlen=Replay): the oldest event makes room.
RingAppend(ring, e) ==
    IF Len(ring) < Replay THEN Append(ring, e) ELSE Append(Tail(ring), e)

\* bus.emit on a scan thread: the stream's sink schedules the delivery.
Emit ==
    /\ emitted < MaxEvents
    /\ emitted' = emitted + 1
    /\ callbacks' = Append(callbacks, Deliver)

EmitEvent(p) ==
    /\ ~closing[p].on
    /\ Emit
    /\ UNCHANGED <<delivered, history, subscribers, conn, queue, out, closing, closes>>

\* _deliver on the loop.
DeliverEvent ==
    /\ callbacks # <<>> /\ Head(callbacks) = Deliver
    /\ callbacks' = Tail(callbacks)
    /\ delivered' = delivered + 1
    /\ history' = RingAppend(history, delivered + 1)
    /\ queue' = [c \in Connections |->
                    IF c \in subscribers THEN Append(queue[c], delivered + 1) ELSE queue[c]]
    /\ UNCHANGED <<subscribers, conn, out, closing, emitted, closes>>

\* The put_nowait(None) close scheduled.  A queue whose connection is gone is
\* filled for nobody.
DeliverDone ==
    /\ callbacks # <<>> /\ Head(callbacks) # Deliver
    /\ callbacks' = Tail(callbacks)
    /\ LET c == Head(callbacks).to IN
       queue' = IF c \in subscribers THEN [queue EXCEPT ![c] = Append(@, Done)] ELSE queue
    /\ UNCHANGED <<delivered, history, subscribers, conn, out, closing, emitted, closes>>

\* Mutant: the history is not replayed.
SubscribeLive(c) ==
    /\ conn[c] = "unused"
    /\ conn' = [conn EXCEPT ![c] = "open"]
    /\ subscribers' = subscribers \cup {c}
    /\ UNCHANGED <<callbacks, delivered, history, queue, out, closing, emitted, closes>>

\* subscribe up to its first await: the queue is registered and the history
\* copied in one go on the loop, so no delivery comes in between.
Subscribe(c) ==
    /\ conn[c] = "unused"
    /\ conn' = [conn EXCEPT ![c] = "open"]
    /\ subscribers' = subscribers \cup {c}
    /\ out' = [out EXCEPT ![c] = history]
    /\ UNCHANGED <<callbacks, delivered, history, queue, closing, emitted, closes>>

\* One event is taken from the queue and sent.
Yield(c) ==
    /\ conn[c] = "open" /\ queue[c] # <<>> /\ Head(queue[c]) # Done
    /\ out' = [out EXCEPT ![c] = Append(@, Head(queue[c]))]
    /\ queue' = [queue EXCEPT ![c] = Tail(@)]
    /\ UNCHANGED <<callbacks, delivered, history, subscribers, conn, closing, emitted, closes>>

\* The sentinel is taken: `event: done` is sent, the generator returns and its
\* finally clause discards the queue.
YieldDone(c) ==
    /\ conn[c] = "open" /\ queue[c] # <<>> /\ Head(queue[c]) = Done
    /\ conn' = [conn EXCEPT ![c] = "ended"]
    /\ subscribers' = subscribers \ {c}
    /\ queue' = [queue EXCEPT ![c] = <<>>]
    /\ UNCHANGED <<callbacks, delivered, history, out, closing, emitted, closes>>

\* The client goes away: the generator is closed, with the same finally.
Disconnect(c) ==
    /\ conn[c] = "open"
    /\ conn' = [conn EXCEPT ![c] = "dropped"]
    /\ subscribers' = subscribers \ {c}
    /\ queue' = [queue EXCEPT ![c] = <<>>]
    /\ UNCHANGED <<callbacks, delivered, history, out, closing, emitted, closes>>

\* close, on the scan thread: the iterator over the subscribers is made ...
BeginClose(p) ==
    /\ ~closing[p].on
    /\ closes[p] < MaxCloses
    /\ closes' = [closes EXCEPT ![p] = @ + 1]
    /\ closing' = [closing EXCEPT ![p] = Iteration(subscribers)]
    /\ UNCHANGED <<callbacks, delivered, history, subscribers, conn, queue, out, emitted>>

SizeUnchanged(p) == Cardinality(closing[p].members) = Cardinality(subscribers)

\* ... each turn schedules the sentinel of one more member ...
CloseNext(p) ==
    /\ closing[p].on /\ SizeUnchanged(p)
    /\ \E c \in subscribers \ closing[p].visited :
          /\ callbacks' = Append(callbacks, PutDone(c))
          /\ closing' = [closing EXCEPT ![p].visited = @ \cup {c}]
    /\ UNCHANGED <<delivered, history, subscribers, conn, queue, out, emitted, closes>>

\* ... until there is none: a member that replaced another may be passed over,
\* one that was there when the iteration began is not.
CloseEnd(p) ==
    /\ closing[p].on /\ SizeUnchanged(p)
    /\ closing[p].members \cap subscribers \subseteq closing[p].visited
    /\ closing' = [closing EXCEPT ![p] = NoIteration]
    /\ UNCHANGED <<callbacks, delivered, history, subscribers, conn, queue, out, emitted, closes>>

\* RuntimeError: Set changed size during iteration.
CloseRaises(p) ==
    /\ closing[p].on /\ ~SizeUnchanged(p)
    /\ closing' = [closing EXCEPT ![p] = NoIteration]
    /\ UNCHANGED <<callbacks, delivered, history, subscribers, conn, queue, out, emitted, closes>>

LoopStep == DeliverEvent \/ DeliverDone

Next ==
    \/ \E p \in Producers : EmitEvent(p) \/ BeginClose(p) \/ CloseNext(p)
                              \/ CloseEnd(p) \/ CloseRaises(p)
    \/ LoopStep
    \/ \E c \in Connections : Subscribe(c) \/ Yield(c) \/ YieldDone(c) \/ Disconnect(c)

\* The loop runs its callbacks, a connection is written to, and a thread in
\* close goes on.  Nobody has to emit, subscribe, disconnect or call close.
Fairness ==
    /\ WF_vars(LoopStep)
    /\ \A c \in Connections : WF_vars(Yield(c) \/ YieldDone(c))
    /\ \A p \in Producers : WF_vars(CloseNext(p) \/ CloseEnd(p) \/ CloseRaises(p))

Spec == Init /\ [][Next]_vars /\ Fairness

-----------------------------------------------------------------------------

\* What an open connection was sent or still will be.
Sent(c)    == {out[c][i] : i \in DOMAIN out[c]}
Pending(c) == {queue[c][i] : i \in DOMAIN queue[c]} \ {Done}

\* A connection sees every event once and in the order of delivery, the replay
\* and the live events joined without a seam, whoever emits meanwhile.
ConnectionInOrder ==
    \A c \in Connections : \A i \in DOMAIN out[c] :
        i > 1 => out[c][i] = out[c][i - 1] + 1

\* From the first event a connection is sent on, it misses none.
NoEventMissed ==
    \A c \in subscribers : \A n \in Sent(c) \cup Pending(c) :
        n .. delivered \subseteq Sent(c) \cup Pending(c)

\* A connection opened in the middle of a scan catches up: whatever the ring
\* still holds it was sent or will be.
LateSubscriberCatchesUp ==
    \A c \in subscribers :
        {history[i] : i \in DOMAIN history} \subseteq Sent(c) \cup Pending(c)

\* A connection gets the ring and then every later event, without a seam.
StreamIsSeamless == ConnectionInOrder /\ LateSubscriberCatchesUp

=============================================================================
