------------------------------ MODULE SynchList -------------------------------
(***************************************************************************)
(* Synchronised lists of NachOS: a list behind a Lock, with a Condition    *)
(* for threads that find it empty.  Lock is a semaphore of one, Condition  *)
(* a queue of semaphores, one for each waiting thread.                     *)
(*                                                                         *)
(* The kernel switches threads only where P or V turns interrupts on again *)
(* or a thread sleeps.  A step goes from one such point to the next, so    *)
(* what a thread does between two of them, the list itself included, is    *)
(* one step.                                                               *)
(***************************************************************************)
EXTENDS Synch, FiniteSets

CONSTANTS
    Thread,
    Lists,
    Item,
    None

ASSUME SynchListAssumption ==
    /\ IsFiniteSet(Thread)
    /\ None \notin Thread
    /\ None \notin Item

VARIABLES
    lock, lockHolder,   \* of each list: the lock's semaphore and its holder
    waitQueue,          \* of each list: the threads whose semaphores are on it
    list,               \* of each list: its items
    waiter,             \* of each thread: the semaphore it waits on in Wait
    at, call, on,       \* of each thread: where it is, in which call, on which list
    item                \* of each thread: what it appends or has removed

lists == <<lock, lockHolder, waitQueue, list>>
listVars == <<lists, waiter, at, call, on, item>>

Init ==
    /\ lock = [l \in Lists |-> NewSemaphore(1)]
    /\ lockHolder = [l \in Lists |-> None]
    /\ waitQueue = [l \in Lists |-> <<>>]
    /\ list = [l \in Lists |-> <<>>]
    /\ waiter = [t \in Thread |-> NewSemaphore(0)]
    /\ at = [t \in Thread |-> "out"]
    /\ call = [t \in Thread |-> "append"]
    /\ on \in [Thread -> Lists]
    /\ item = [t \in Thread |-> None]

Move(t, place) == at' = [at EXCEPT ![t] = place]

Call(t, c, l) ==
    /\ at[t] = "out"
    /\ Move(t, "acquiring")
    /\ call' = [call EXCEPT ![t] = c]
    /\ on' = [on EXCEPT ![t] = l]
    /\ UNCHANGED <<lists, waiter>>

CallAppend(t, l, x) == Call(t, "append", l) /\ item' = [item EXCEPT ![t] = x]
CallRemoveFront(t, l) == Call(t, "remove", l) /\ item' = [item EXCEPT ![t] = None]
CallApply(t, l) == Call(t, "apply", l) /\ UNCHANGED item

\* Acquire: one pass of P.  The thread sleeps on the lock, or has it.
Acquire(t) ==
    LET l == on[t] IN
    /\ at[t] = "acquiring"
    /\ t \notin Asleep(lock[l])
    /\ lock' = [lock EXCEPT ![l] = P(@, t)]
    /\ Move(t, IF Available(lock[l]) THEN "inside" ELSE "acquiring")
    /\ UNCHANGED <<lockHolder, waitQueue, list, waiter, call, on, item>>

\* Release, for a thread that holds the lock.
Releases(t) ==
    /\ lockHolder' = [lockHolder EXCEPT ![on[t]] = None]
    /\ lock' = [lock EXCEPT ![on[t]] = V(@)]

\* What a thread does once P has given it the lock, up to the next V.
Inside(t, c) == at[t] = "inside" /\ call[t] = c

\* Mutant: Signal is called only for the first item of the list.
UnseenButFirst(l) == waitQueue[l] = <<>> \/ list[l] # <<>>

\* Nobody waits on the condition.
Unseen(l) == waitQueue[l] = <<>>

\* Append with nobody waiting: Signal does nothing.
AppendUnseen(t) ==
    LET l == on[t] IN
    /\ Inside(t, "append")
    /\ Unseen(l)
    /\ list' = [list EXCEPT ![l] = Append(@, item[t])]
    /\ Releases(t)
    /\ Move(t, "out")
    /\ UNCHANGED <<waitQueue, waiter, call, on, item>>

\* Mutant: the waiter is taken off the queue and its semaphore not raised.
AppendForgetsV(t) ==
    LET l == on[t] IN
    /\ Inside(t, "append")
    /\ ~Unseen(l)
    /\ list' = [list EXCEPT ![l] = Append(@, item[t])]
    /\ lockHolder' = [lockHolder EXCEPT ![l] = t]
    /\ waitQueue' = [waitQueue EXCEPT ![l] = Tail(@)]
    /\ Move(t, "releasing")
    /\ UNCHANGED <<lock, waiter, call, on, item>>

\* Append with somebody waiting: Signal's V is a place to be preempted, with
\* the lock held.
AppendSignals(t) ==
    LET l == on[t] IN
    /\ Inside(t, "append")
    /\ ~Unseen(l)
    /\ list' = [list EXCEPT ![l] = Append(@, item[t])]
    /\ lockHolder' = [lockHolder EXCEPT ![l] = t]
    /\ waitQueue' = [waitQueue EXCEPT ![l] = Tail(@)]
    /\ waiter' = [waiter EXCEPT ![Head(waitQueue[l])] = V(@)]
    /\ Move(t, "releasing")
    /\ UNCHANGED <<lock, call, on, item>>

\* Release after Signal, with its assertion.
Release(t) ==
    /\ at[t] = "releasing"
    /\ lockHolder[on[t]] = t
    /\ Releases(t)
    /\ Move(t, "out")
    /\ UNCHANGED <<waitQueue, list, waiter, call, on, item>>

\* RemoveFront on an empty list: Wait, up to the release of the lock.
Wait(t) ==
    LET l == on[t] IN
    /\ Inside(t, "remove")
    /\ list[l] = <<>>
    /\ waiter' = [waiter EXCEPT ![t] = NewSemaphore(0)]
    /\ waitQueue' = [waitQueue EXCEPT ![l] = Append(@, t)]
    /\ Releases(t)
    /\ Move(t, "waiting")
    /\ UNCHANGED <<list, call, on, item>>

\* Mutant: Wait returns without the lock.
AwaitSignalUnlocked(t) ==
    /\ at[t] = "waiting"
    /\ t \notin Asleep(waiter[t])
    /\ waiter' = [waiter EXCEPT ![t] = P(@, t)]
    /\ Move(t, IF Available(waiter[t]) THEN "inside" ELSE "waiting")
    /\ UNCHANGED <<lists, call, on, item>>

\* One pass of P on the waiter's semaphore.  Behind it the lock has to be
\* acquired again.
AwaitSignal(t) ==
    /\ at[t] = "waiting"
    /\ t \notin Asleep(waiter[t])
    /\ waiter' = [waiter EXCEPT ![t] = P(@, t)]
    /\ Move(t, IF Available(waiter[t]) THEN "acquiring" ELSE "waiting")
    /\ UNCHANGED <<lists, call, on, item>>

\* RemoveFront on a list with an item, to its return.
TakeFront(t) ==
    LET l == on[t] IN
    /\ Inside(t, "remove")
    /\ list[l] # <<>>
    /\ item' = [item EXCEPT ![t] = Head(list[l])]
    /\ list' = [list EXCEPT ![l] = Tail(@)]
    /\ Releases(t)
    /\ Move(t, "out")
    /\ UNCHANGED <<waitQueue, waiter, call, on>>

\* Apply, which leaves the list as it is.
Apply(t) ==
    /\ Inside(t, "apply")
    /\ Releases(t)
    /\ Move(t, "out")
    /\ UNCHANGED <<waitQueue, list, waiter, call, on, item>>

\* Inside Append and RemoveFront, but for the end of RemoveFront.
Step(t) ==
    \/ Acquire(t) \/ AppendUnseen(t) \/ AppendSignals(t) \/ Release(t)
    \/ Wait(t) \/ AwaitSignal(t)

Next == \E t \in Thread :
    \/ \E l \in Lists :
        \/ \E x \in Item : CallAppend(t, l, x)
        \/ CallRemoveFront(t, l)
        \/ CallApply(t, l)
    \/ Step(t) \/ TakeFront(t) \/ Apply(t)

Spec == Init /\ [][Next]_listVars

-----------------------------------------------------------------------------
(* Properties                                                              *)

TypeOK ==
    /\ lock \in [Lists -> Semaphores(Thread)]
    /\ lockHolder \in [Lists -> Thread \cup {None}]
    /\ waitQueue \in [Lists -> Seq(Thread)]
    /\ list \in [Lists -> Seq(Item)]
    /\ waiter \in [Thread -> Semaphores(Thread)]
    /\ at \in [Thread -> {"out", "acquiring", "inside", "releasing", "waiting"}]
    /\ call \in [Thread -> {"append", "remove", "apply"}]
    /\ on \in [Thread -> Lists]
    /\ item \in [Thread -> Item \cup {None}]

\* The threads that have list l's lock.
Owners(l) == { t \in Thread : on[t] = l /\ at[t] \in {"inside", "releasing"} }

\* The lock of a list is free, or one thread has it; Release's assertion that
\* this thread is the recorded holder never fails.
MutualExclusion ==
    \A l \in Lists :
        /\ lock[l].value = IF Owners(l) = {} THEN 1 ELSE 0
        /\ \A t, u \in Owners(l) : t = u
        /\ \A t \in Owners(l) : at[t] = "releasing" => lockHolder[l] = t

\* The threads on their way to list l's lock.
Contenders(l) ==
    { t \in Thread : on[t] = l /\ at[t] = "acquiring" /\ t \notin Asleep(lock[l]) }

\* A thread in Wait whose semaphore has been raised: P will let it pass.
Signalled(t) == waiter[t].value > 0 /\ t \notin Asleep(waiter[t])

\* Threads that will look at list l before they wait again: they are in
\* RemoveFront, and neither wait for a signal nor are done.
Coming(l) ==
    { t \in Thread : /\ on[t] = l
                     /\ call[t] = "remove"
                     /\ at[t] \in {"acquiring", "inside", "waiting"}
                     /\ at[t] = "waiting" => Signalled(t) }

\* No wakeup is lost.  While threads sleep on a lock that is free, another one
\* is on its way to take it; and while threads wait for an item, every item on
\* the list is matched by a thread that comes for one, although a woken thread
\* may find the lock or the item taken by a third.
NoLostWakeup ==
    \A l \in Lists :
        /\ lock[l].value > 0 /\ lock[l].queue # <<>> => Contenders(l) # {}
        /\ waitQueue[l] # <<>> => Len(list[l]) <= Cardinality(Coming(l))
=============================================================================
