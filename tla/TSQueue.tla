------------------------------ MODULE TSQueue -------------------------------
(***************************************************************************)
(* The thread-safe queue of the pthreads pipeline (MP5): a ring buffer     *)
(* behind a mutex and two condition variables.                             *)
(*                                                                         *)
(* A thread inside enqueue or dequeue holds the mutex, waits on a          *)
(* condition variable, or contends for the mutex, at the start of the call *)
(* or once pthread_cond_wait has been woken.  The code between lock and    *)
(* unlock is one step: nothing else touches the fields without the mutex   *)
(* but get_size, which reads size alone.                                   *)
(***************************************************************************)
EXTENDS Integers, FiniteSets

CONSTANTS
    Thread,
    Item,
    None,
    BufferSize     \* buffer_size

ASSUME TSQueueAssumption ==
    /\ IsFiniteSet(Thread)
    /\ None \notin Thread
    /\ None \notin Item
    /\ BufferSize \in Nat \ {0}

VARIABLES
    buffer, size, head, tail,
    mutex,                        \* the thread that holds it, or None
    cond_enqueue, cond_dequeue,   \* the threads that wait on them
    call,                         \* "none", "enqueue" or "dequeue"
    item                          \* an argument of enqueue or a result of dequeue

ring == <<buffer, size, head, tail>>
conds == <<cond_enqueue, cond_dequeue>>
vars == <<ring, mutex, conds, call, item>>

Waiting == cond_enqueue \cup cond_dequeue

\* Mutant: the ring is used to its last place.
FullAtBufferSize == size > BufferSize - 1

\* enqueue stops at buffer_size - 1 items.
Full == size >= BufferSize - 1
Empty == size <= 0

Init ==
    /\ buffer = [i \in 0..(BufferSize - 1) |-> None]
    /\ size = 0
    /\ head = 0
    /\ tail = 0
    /\ mutex = None
    /\ cond_enqueue = {}
    /\ cond_dequeue = {}
    /\ call = [t \in Thread |-> "none"]
    /\ item = [t \in Thread |-> None]

CallEnqueue(t, x) ==
    /\ call[t] = "none"
    /\ call' = [call EXCEPT ![t] = "enqueue"]
    /\ item' = [item EXCEPT ![t] = x]
    /\ UNCHANGED <<ring, mutex, conds>>

CallDequeue(t) ==
    /\ call[t] = "none"
    /\ call' = [call EXCEPT ![t] = "dequeue"]
    /\ UNCHANGED <<ring, mutex, conds, item>>

\* pthread_mutex_lock, in the call or in the pthread_cond_wait it returns from.
Lock(t) ==
    /\ call[t] # "none"
    /\ t \notin Waiting
    /\ mutex = None
    /\ mutex' = t
    /\ UNCHANGED <<ring, conds, call, item>>

\* pthread_cond_wait: the mutex is released and the thread waits.
EnqueueWaits(t) ==
    /\ mutex = t
    /\ call[t] = "enqueue"
    /\ Full
    /\ cond_enqueue' = cond_enqueue \cup {t}
    /\ mutex' = None
    /\ UNCHANGED <<ring, cond_dequeue, call, item>>

DequeueWaits(t) ==
    /\ mutex = t
    /\ call[t] = "dequeue"
    /\ Empty
    /\ cond_dequeue' = cond_dequeue \cup {t}
    /\ mutex' = None
    /\ UNCHANGED <<ring, cond_enqueue, call, item>>

\* Mutants: no signal, and a signal only when the ring was empty.
Unsignalled(cond) == {cond}
SignalledIfEmpty(cond) == IF cond = {} \/ size > 0 THEN {cond} ELSE { cond \ {t} : t \in cond }

\* pthread_cond_signal: what is left of the waiting threads.  It wakes one, if
\* there is one; WakeUp covers those it may wake besides.
Signalled(cond) == IF cond = {} THEN {{}} ELSE { cond \ {t} : t \in cond }

\* Mutant: no return to the start of the buffer.
AfterUnwrapped(i) == i + 1

\* The index behind i in the ring.
After(i) == (i + 1) % BufferSize

\* enqueue from a test of the loop that fails to its return.
Enqueue(t) ==
    /\ mutex = t
    /\ call[t] = "enqueue"
    /\ ~Full
    /\ buffer' = [buffer EXCEPT ![tail] = item[t]]
    /\ tail' = After(tail)
    /\ size' = size + 1
    /\ cond_dequeue' \in Signalled(cond_dequeue)
    /\ mutex' = None
    /\ call' = [call EXCEPT ![t] = "none"]
    /\ UNCHANGED <<head, cond_enqueue, item>>

\* Mutant: tail taken for the index of the last item, as its declaration says,
\* and that item returned.
ItemBeforeTail == buffer[(tail - 1) % BufferSize]

FirstItem == buffer[head]

\* dequeue, likewise.
Dequeue(t) ==
    /\ mutex = t
    /\ call[t] = "dequeue"
    /\ ~Empty
    /\ item' = [item EXCEPT ![t] = FirstItem]
    /\ head' = After(head)
    /\ size' = size - 1
    /\ cond_enqueue' \in Signalled(cond_enqueue)
    /\ mutex' = None
    /\ call' = [call EXCEPT ![t] = "none"]
    /\ UNCHANGED <<buffer, tail, cond_dequeue>>

\* A wakeup without a signal, which POSIX allows pthread_cond_wait.
WakeUp(t) ==
    /\ t \in Waiting
    /\ cond_enqueue' = cond_enqueue \ {t}
    /\ cond_dequeue' = cond_dequeue \ {t}
    /\ UNCHANGED <<ring, mutex, call, item>>

\* What a thread does inside a call, and at the start of one.
Step(t) == EnqueueWaits(t) \/ DequeueWaits(t) \/ Enqueue(t) \/ Dequeue(t)
Call(t) == (\E x \in Item : CallEnqueue(t, x)) \/ CallDequeue(t)

Next == \E t \in Thread : Call(t) \/ Lock(t) \/ Step(t) \/ WakeUp(t)

Spec == Init /\ [][Next]_vars

-----------------------------------------------------------------------------
(* Properties                                                              *)

TypeOK ==
    /\ buffer \in [0..(BufferSize - 1) -> Item \cup {None}]
    /\ size \in Nat
    /\ head \in 0..(BufferSize - 1)
    /\ tail \in 0..(BufferSize - 1)
    /\ mutex \in Thread \cup {None}
    /\ cond_enqueue \in SUBSET Thread
    /\ cond_dequeue \in SUBSET Thread
    /\ call \in [Thread -> {"none", "enqueue", "dequeue"}]
    /\ item \in [Thread -> Item \cup {None}]

\* The ring buffer is consistent: it never holds more than buffer_size - 1
\* items, and tail is as far ahead of head as there are items.
RingConsistent ==
    /\ size <= BufferSize - 1
    /\ tail = (head + size) % BufferSize

\* A thread waits on the condition variable of the call it is in, without the
\* mutex.
WaitersConsistent ==
    /\ \A t \in cond_enqueue : call[t] = "enqueue" /\ mutex # t
    /\ \A t \in cond_dequeue : call[t] = "dequeue" /\ mutex # t
    /\ mutex # None => call[mutex] # "none"

\* Threads in a call that do not wait: they have the mutex or are after it.
Awake(c) == { t \in Thread : call[t] = c /\ t \notin Waiting }

\* No wakeup is lost: while a thread waits for an item, every item in the ring
\* is matched by a dequeue already on its way, and the same for the free
\* places and the threads that wait for one.  One signal per call is enough.
NoLostWakeup ==
    /\ cond_dequeue # {} => size <= Cardinality(Awake("dequeue"))
    /\ cond_enqueue # {} => BufferSize - 1 - size <= Cardinality(Awake("enqueue"))

\* The items in the ring, first to last.
Contents == [i \in 1..size |-> buffer[(head + i - 1) % BufferSize]]

\* TSQueue is a first-in first-out queue of capacity buffer_size - 1.
Abstract == INSTANCE BoundedQueue WITH queue <- Contents, Capacity <- BufferSize - 1
Linearizable == Abstract!Spec
=============================================================================
