-------------------------------- MODULE Synch ---------------------------------
(***************************************************************************)
(* Semaphores of NachOS, as operators on a record: the value and the queue *)
(* of the threads asleep in P.  Interrupts are off inside P and V, so each *)
(* is one step; a thread that V wakes tests the value again when it runs,  *)
(* and may find that another thread took it.                               *)
(***************************************************************************)
EXTENDS Naturals, Sequences

NewSemaphore(n) == [value |-> n, queue |-> <<>>]

Semaphores(T) == [value : Nat, queue : Seq(T)]

Elements(queue) == { queue[i] : i \in DOMAIN queue }

\* The threads asleep in P.
Asleep(s) == Elements(s.queue)

\* P finds the value above zero, or puts the thread to sleep.
Available(s) == s.value > 0

\* Mutant: the value counts those who wait.
PCountsWaiters(s, t) ==
    [value |-> s.value - 1,
     queue |-> IF Available(s) THEN s.queue ELSE Append(s.queue, t)]

\* One pass of P's loop by thread t.
P(s, t) ==
    IF Available(s) THEN [s EXCEPT !.value = @ - 1]
                    ELSE [s EXCEPT !.queue = Append(@, t)]

\* Mutant: nobody is woken.
VWakesNobody(s) == [s EXCEPT !.value = @ + 1]

\* V wakes the first waiter, if there is one, and raises the value.
V(s) ==
    [value |-> s.value + 1,
     queue |-> IF s.queue = <<>> THEN <<>> ELSE Tail(s.queue)]
=============================================================================
