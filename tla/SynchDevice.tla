----------------------------- MODULE SynchDevice ------------------------------
(***************************************************************************)
(* A device that takes one request at a time, and the lock and the         *)
(* semaphore that make it a blocking call: SynchDisk, SynchConsoleOutput   *)
(* and PostOfficeOutput are built this way.                                *)
(*                                                                         *)
(* A call makes one request or, for SynchConsoleOutput::PutInt, one for    *)
(* each character, and waits for the device's interrupt behind each.  As   *)
(* in SynchList, a step ends where interrupts are turned on again.         *)
(***************************************************************************)
EXTENDS Synch, FiniteSets

CONSTANTS
    Thread,
    None

VARIABLES
    lock, lockHolder,   \* the lock's semaphore and its holder
    semaphore,          \* waitFor, messageSent: raised by the interrupt
    active,             \* putBusy: a request is under way
    pending,            \* the device's interrupts that have not happened yet
    at,                 \* where each thread is
    left                \* the requests its call has still to make

deviceVars == <<lock, lockHolder, semaphore, active, pending, at, left>>

Init ==
    /\ lock = NewSemaphore(1)
    /\ lockHolder = None
    /\ semaphore = NewSemaphore(0)
    /\ active = FALSE
    /\ pending = 0
    /\ at = [t \in Thread |-> "out"]
    /\ left = [t \in Thread |-> 0]

Move(t, place) == at' = [at EXCEPT ![t] = place]

Call(t, requests) ==
    /\ at[t] = "out"
    /\ left' = [left EXCEPT ![t] = requests]
    /\ Move(t, "acquiring")
    /\ UNCHANGED <<lock, lockHolder, semaphore, active, pending>>

\* One pass of P on the lock.
Acquire(t) ==
    /\ at[t] = "acquiring"
    /\ t \notin Asleep(lock)
    /\ lock' = P(lock, t)
    /\ Move(t, IF Available(lock) THEN "inside" ELSE "acquiring")
    /\ UNCHANGED <<lockHolder, semaphore, active, pending, left>>

\* Mutant: the thread does not wait for the interrupt.
RequestUnawaited(t) ==
    /\ at[t] = "inside"
    /\ left[t] > 0
    /\ ~active
    /\ lockHolder' = t
    /\ active' = TRUE
    /\ pending' = pending + 1
    /\ left' = [left EXCEPT ![t] = @ - 1]
    /\ UNCHANGED <<lock, semaphore, at>>

\* A request, with the device's assertion that it is not busy, up to the first
\* pass of P on the semaphore.
Request(t) ==
    /\ at[t] = "inside"
    /\ left[t] > 0
    /\ ~active
    /\ lockHolder' = t
    /\ active' = TRUE
    /\ pending' = pending + 1
    /\ left' = [left EXCEPT ![t] = @ - 1]
    /\ semaphore' = P(semaphore, t)
    /\ Move(t, IF Available(semaphore) THEN "inside" ELSE "waiting")
    /\ UNCHANGED lock

\* Another pass of P on the semaphore, once the thread is awake.
Await(t) ==
    /\ at[t] = "waiting"
    /\ t \notin Asleep(semaphore)
    /\ semaphore' = P(semaphore, t)
    /\ Move(t, IF Available(semaphore) THEN "inside" ELSE "waiting")
    /\ UNCHANGED <<lock, lockHolder, active, pending, left>>

\* Release behind the last request, with its assertion.
Release(t) ==
    /\ at[t] = "inside"
    /\ left[t] = 0
    /\ lockHolder = t
    /\ lockHolder' = None
    /\ lock' = V(lock)
    /\ Move(t, "out")
    /\ UNCHANGED <<semaphore, active, pending, left>>

\* The interrupt: the device is free and the waiting thread is woken.
CallBack ==
    /\ pending > 0
    /\ pending' = pending - 1
    /\ active' = FALSE
    /\ semaphore' = V(semaphore)
    /\ UNCHANGED <<lock, lockHolder, at, left>>

Step(t) == Acquire(t) \/ Request(t) \/ Await(t) \/ Release(t)

Next == CallBack \/ \E t \in Thread : Step(t) \/ \E n \in Nat \ {0} : Call(t, n)

Spec == Init /\ [][Next]_deviceVars

-----------------------------------------------------------------------------
(* Properties                                                              *)

TypeOK ==
    /\ lock \in Semaphores(Thread)
    /\ lockHolder \in Thread \cup {None}
    /\ semaphore \in Semaphores(Thread)
    /\ active \in BOOLEAN
    /\ pending \in Nat
    /\ at \in [Thread -> {"out", "acquiring", "inside", "waiting"}]
    /\ left \in [Thread -> Nat]

\* The threads that have the lock.
Owners == { t \in Thread : at[t] \in {"inside", "waiting"} }

\* The assertions of the device and of Release never fail: one thread at a
\* time works with the device, it finds the device free when it makes its
\* next request, and it is the recorded holder when it releases the lock.
OneAtATime ==
    /\ \A t, u \in Owners : t = u
    /\ \A t \in Owners : at[t] = "inside" =>
        IF left[t] > 0 THEN ~active ELSE lockHolder = t

\* No thread is left asleep: one that waits for the device has an interrupt to
\* come, and threads asleep on a lock that is free have another one on its way
\* to take it.
NobodyForgotten ==
    /\ Asleep(semaphore) # {} => pending > 0
    /\ lock.value > 0 /\ lock.queue # <<>> =>
        \E t \in Thread : at[t] = "acquiring" /\ t \notin Asleep(lock)
=============================================================================
