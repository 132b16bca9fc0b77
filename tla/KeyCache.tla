------------------------------ MODULE KeyCache ------------------------------
(***************************************************************************)
(* What the callers of Cas rely on: a cache that may forget anything at    *)
(* any time, and whose answer is otherwise what was last put under the key.*)
(***************************************************************************)
CONSTANTS
    Key,
    Data,
    Nil      \* no entry; a miss

VARIABLES
    kept,    \* kept[k]: what was last put under k, unless it was evicted
    answer   \* of the last get

vars == <<kept, answer>>

Init ==
    /\ kept = [k \in Key |-> Nil]
    /\ answer = Nil

Put(k, d) ==
    /\ kept' = [kept EXCEPT ![k] = d]
    /\ UNCHANGED answer

Get(k) ==
    /\ answer' \in {Nil, kept[k]}
    /\ UNCHANGED kept

Evict(evicted) ==
    /\ kept' = [k \in Key |-> IF k \in evicted THEN Nil ELSE kept[k]]
    /\ UNCHANGED answer

Next ==
    \/ \E k \in Key, d \in Data : Put(k, d)
    \/ \E k \in Key : Get(k)
    \/ \E evicted \in SUBSET Key : Evict(evicted)

Spec == Init /\ [][Next]_vars
=============================================================================
