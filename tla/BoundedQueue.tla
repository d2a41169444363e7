---------------------------- MODULE BoundedQueue ----------------------------
(***************************************************************************)
(* What TSQueue of the pthreads pipeline (MP5) promises: a first-in        *)
(* first-out queue of at most Capacity items, on which every call takes    *)
(* effect at one instant between its start and its return.                 *)
(***************************************************************************)
EXTENDS Naturals, Sequences

CONSTANTS Thread, Item, None, Capacity

VARIABLES
    queue,    \* the items enqueued and not yet dequeued
    call,     \* the call a thread is in
    item      \* its argument while it enqueues, and what it last dequeued

vars == <<queue, call, item>>

Init ==
    /\ queue = <<>>
    /\ call = [t \in Thread |-> "none"]
    /\ item = [t \in Thread |-> None]

CallEnqueue(t, x) ==
    /\ call[t] = "none"
    /\ call' = [call EXCEPT ![t] = "enqueue"]
    /\ item' = [item EXCEPT ![t] = x]
    /\ UNCHANGED queue

CallDequeue(t) ==
    /\ call[t] = "none"
    /\ call' = [call EXCEPT ![t] = "dequeue"]
    /\ UNCHANGED <<queue, item>>

Enqueue(t) ==
    /\ call[t] = "enqueue"
    /\ Len(queue) < Capacity
    /\ queue' = Append(queue, item[t])
    /\ call' = [call EXCEPT ![t] = "none"]
    /\ UNCHANGED item

Dequeue(t) ==
    /\ call[t] = "dequeue"
    /\ queue # <<>>
    /\ item' = [item EXCEPT ![t] = Head(queue)]
    /\ queue' = Tail(queue)
    /\ call' = [call EXCEPT ![t] = "none"]

Next ==
    \E t \in Thread :
        \/ \E x \in Item : CallEnqueue(t, x)
        \/ CallDequeue(t)
        \/ Enqueue(t)
        \/ Dequeue(t)

Spec == Init /\ [][Next]_vars
=============================================================================
