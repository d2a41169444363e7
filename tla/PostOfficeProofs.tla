--------------------------- MODULE PostOfficeProofs ---------------------------
(***************************************************************************)
(* Proofs about SynchList and about the post office, which uses SynchList  *)
(* and SynchDevice the way their specifications allow.                     *)
(*                                                                         *)
(* First SynchList, for all threads, lists and items: the lock of a list   *)
(* excludes, and no wakeup is lost.  What is proved of SynchList and       *)
(* SynchDevice then holds of the post office; what it has to keep for that *)
(* is the worker's half: it reads the network's buffer only when there is  *)
(* a packet in it.                                                         *)
(***************************************************************************)
EXTENDS PostOffice, SynchProofs, FiniteSetTheorems, WellFoundedInduction

\* The lock of a list is free, or taken by one thread; who sleeps on it comes
\* for it.
LockInv(l) ==
    /\ Distinct(lock[l].queue)
    /\ lock[l].value = IF Owners(l) = {} THEN 1 ELSE 0
    /\ \A t, u \in Owners(l) : t = u
    /\ \A t \in Asleep(lock[l]) : on[t] = l /\ at[t] = "acquiring"
    /\ lock[l].value > 0 /\ lock[l].queue # <<>> => Contenders(l) # {}

\* Release's assertion.
HolderInv == \A t \in Thread : at[t] = "releasing" => lockHolder[on[t]] = t

\* Who is on a list's condition waits, and has not been signalled.
QueueInv(l) ==
    /\ Distinct(waitQueue[l])
    /\ \A t \in Elements(waitQueue[l]) :
        /\ on[t] = l
        /\ at[t] = "waiting"
        /\ waiter[t].value = 0

\* A waiter's semaphore is its own; who waits removes, and who has still to
\* append has an item.
ThreadInv(t) ==
    /\ Distinct(waiter[t].queue)
    /\ Asleep(waiter[t]) \subseteq {t}
    /\ at[t] = "waiting" => call[t] = "remove"
    /\ call[t] = "append" /\ at[t] \in {"acquiring", "inside"} => item[t] \in Item

ListInv ==
    /\ TypeOK
    /\ HolderInv
    /\ \A l \in Lists : LockInv(l)
    /\ \A l \in Lists : QueueInv(l)
    /\ \A t \in Thread : ThreadInv(t)

-----------------------------------------------------------------------------
(* Locks                                                                   *)

\* Who sleeps on a lock is a thread.
LEMMA AsleepThreads ==
    ASSUME TypeOK
    PROVE  /\ \A l \in Lists : /\ lock[l] \in Semaphores(Thread)
                               /\ lock[l].value \in Nat
                               /\ Asleep(lock[l]) \subseteq Thread
           /\ \A t \in Thread : on[t] \in Lists
<1>1. \A l \in Lists : lock[l] \in Semaphores(Thread)
    BY DEF TypeOK
<1> QED BY <1>1, NobodyAsleep DEF TypeOK, Semaphores

\* A step that leaves a list's lock, its owners and those who come for it.
LEMMA LockUntouched ==
    ASSUME TypeOK, NEW l \in Lists, LockInv(l),
           lock'[l] = lock[l], Owners(l)' = Owners(l),
           \A t \in Thread : on[t] = l /\ at[t] = "acquiring" => on'[t] = l /\ at'[t] = "acquiring"
    PROVE  LockInv(l)'
<1>1. Asleep(lock[l]) \subseteq Thread
    BY AsleepThreads
<1>2. Contenders(l) \subseteq Contenders(l)'
    BY DEF Contenders
<1>3. \A t \in Asleep(lock'[l]) : on'[t] = l /\ at'[t] = "acquiring"
    BY <1>1 DEF LockInv
<1> QED BY <1>2, <1>3 DEF LockInv

\* Release by the thread that has the lock.
LEMMA LockReleased ==
    ASSUME ListInv, NEW t \in Thread, at[t] \in {"inside", "releasing"}, Releases(t),
           on' = on, NEW p \in {"out", "waiting"}, at' = [at EXCEPT ![t] = p]
    PROVE  /\ lock' \in [Lists -> Semaphores(Thread)]
           /\ lockHolder' \in [Lists -> Thread \cup {None}]
           /\ HolderInv'
           /\ \A l \in Lists : LockInv(l)'
<1> DEFINE k == on[t]
<1>0. TypeOK /\ k \in Lists /\ lock[k] \in Semaphores(Thread) /\ lock[k].value \in Nat
    BY AsleepThreads DEF ListInv
<1>1. /\ lock' = [lock EXCEPT ![k] = V(lock[k])]
      /\ lockHolder' = [lockHolder EXCEPT ![k] = None]
    BY DEF Releases
<1>2. Owners(k) = {t} /\ lock[k].value = 0
    BY <1>0 DEF ListInv, LockInv, Owners
<1>3. /\ V(lock[k]) \in Semaphores(Thread) /\ V(lock[k]).value = 1
      /\ Distinct(V(lock[k]).queue) /\ Asleep(V(lock[k])) \subseteq Asleep(lock[k])
      /\ lock[k].queue = <<>> => V(lock[k]).queue = <<>>
      /\ lock[k].queue # <<>> =>
            /\ Head(lock[k].queue) \in Asleep(lock[k])
            /\ Head(lock[k].queue) \in Thread
            /\ Head(lock[k].queue) \notin Asleep(V(lock[k]))
    BY <1>0, <1>2, VWakes DEF ListInv, LockInv
<1>4. lock' \in [Lists -> Semaphores(Thread)] /\ lockHolder' \in [Lists -> Thread \cup {None}]
    BY <1>0, <1>1, <1>3 DEF TypeOK
<1>5. HolderInv'
    <2> SUFFICES ASSUME NEW u \in Thread, at'[u] = "releasing" PROVE lockHolder'[on[u]] = u
        BY DEF HolderInv
    <2>1. u # t /\ at[u] = "releasing"
        BY <1>0 DEF TypeOK
    <2>2. on[u] # k
        BY <1>2, <2>1 DEF Owners
    <2>3. lockHolder[on[u]] = u /\ on[u] \in Lists
        BY <1>0, <2>1 DEF ListInv, HolderInv, TypeOK
    <2> QED BY <1>0, <1>1, <2>2, <2>3 DEF TypeOK
<1>6. LockInv(k)'
    <2>1. lock'[k] = V(lock[k])
        BY <1>0, <1>1 DEF TypeOK
    <2>2. Owners(k)' = {}
        BY <1>0, <1>2 DEF Owners, TypeOK
    <2>3. \A u \in Asleep(lock[k]) : on'[u] = k /\ at'[u] = "acquiring"
        BY <1>0, AsleepThreads DEF ListInv, LockInv, TypeOK
    <2>4. lock[k].queue # <<>> => Head(lock[k].queue) \in Contenders(k)'
        BY <1>3, <2>1, <2>3 DEF Contenders
    <2> QED BY <1>3, <2>1, <2>2, <2>3, <2>4 DEF LockInv
<1>7. ASSUME NEW l \in Lists, l # k PROVE LockInv(l)'
    <2>1. lock'[l] = lock[l]
        BY <1>0, <1>1, <1>7 DEF TypeOK
    <2>2. Owners(l)' = Owners(l)
        BY <1>0, <1>7 DEF Owners, TypeOK
    <2>3. \A u \in Thread : on[u] = l /\ at[u] = "acquiring" => on'[u] = l /\ at'[u] = "acquiring"
        BY <1>0, <1>7 DEF TypeOK
    <2> QED BY <1>0, <2>1, <2>2, <2>3, LockUntouched DEF ListInv
<1> QED BY <1>4, <1>5, <1>6, <1>7

\* A step that leaves all locks, and takes no thread to or from one.
LEMMA LocksUntouched ==
    ASSUME ListInv, lock' = lock,
           \A l \in Lists : Owners(l)' = Owners(l),
           \A t \in Thread : at[t] = "acquiring" => on'[t] = on[t] /\ at'[t] = "acquiring"
    PROVE  \A l \in Lists : LockInv(l)'
    BY LockUntouched DEF ListInv

-----------------------------------------------------------------------------
(* The invariant                                                           *)

LEMMA InitListInv == Init => ListInv
<1> SUFFICES ASSUME Init PROVE ListInv
    OBVIOUS
<1> USE DEF Init
<1>0. NewSemaphore(0) \in Semaphores(Thread) /\ NewSemaphore(1) \in Semaphores(Thread)
    BY NewSemaphoreIs
<1>1. TypeOK
    BY <1>0 DEF TypeOK
<1>2. \A l \in Lists : LockInv(l)
    <2> SUFFICES ASSUME NEW l \in Lists PROVE LockInv(l)
        OBVIOUS
    <2>1. Owners(l) = {}
        BY DEF Owners
    <2>2. lock[l] = NewSemaphore(1)
        OBVIOUS
    <2>3. /\ lock[l].value = 1 /\ lock[l].queue = <<>> /\ Distinct(lock[l].queue)
          /\ Asleep(lock[l]) = {}
        <3> HIDE DEF Init
        <3> QED BY <2>2, NewSemaphoreIs
    <2> HIDE DEF Init
    <2> QED BY <2>1, <2>3 DEF LockInv
<1>3. \A l \in Lists : QueueInv(l)
    BY DEF QueueInv, Distinct, Elements
<1>4. \A t \in Thread : ThreadInv(t)
    <2> SUFFICES ASSUME NEW t \in Thread PROVE ThreadInv(t)
        OBVIOUS
    <2>1. waiter[t] = NewSemaphore(0)
        OBVIOUS
    <2> QED BY <2>1, NewSemaphoreIs DEF ThreadInv
<1>5. HolderInv
    BY DEF HolderInv
<1> QED BY <1>1, <1>2, <1>3, <1>4, <1>5 DEF ListInv

\* The parts a step cannot disturb that leaves the condition, its waiters and
\* their semaphores.
LEMMA QueuesUntouched ==
    ASSUME ListInv, waitQueue' = waitQueue, waiter' = waiter,
           \A t \in Thread : at[t] = "waiting" => at'[t] = "waiting" /\ on'[t] = on[t]
    PROVE  \A l \in Lists : QueueInv(l)'
<1> SUFFICES ASSUME NEW l \in Lists PROVE QueueInv(l)'
    OBVIOUS
<1>1. Elements(waitQueue[l]) \subseteq Thread
    BY DEF ListInv, TypeOK, Elements
<1> QED BY <1>1 DEF ListInv, QueueInv

LEMMA CallKeeps ==
    ASSUME ListInv, NEW t \in Thread, NEW c \in {"append", "remove", "apply"},
           NEW l \in Lists, Call(t, c, l),
           item' \in [Thread -> Item \cup {None}],
           c = "append" => item'[t] \in Item,
           \A u \in Thread : u # t => item'[u] = item[u]
    PROVE  ListInv'
<1> USE DEF Call, Move, lists
<1>0. TypeOK /\ at' = [at EXCEPT ![t] = "acquiring"]
    BY DEF ListInv
<1>1. TypeOK'
    BY <1>0 DEF TypeOK
<1>2. \A k \in Lists : LockInv(k)'
    <2>1. \A k \in Lists : Owners(k)' = Owners(k)
        BY <1>0 DEF Owners, TypeOK
    <2>2. \A u \in Thread : at[u] = "acquiring" => on'[u] = on[u] /\ at'[u] = "acquiring"
        BY <1>0 DEF TypeOK
    <2> QED BY <2>1, <2>2, LocksUntouched
<1>3. \A k \in Lists : QueueInv(k)'
    <2>1. \A u \in Thread : at[u] = "waiting" => at'[u] = "waiting" /\ on'[u] = on[u]
        BY <1>0 DEF TypeOK
    <2> QED BY <2>1, QueuesUntouched
<1>4. \A u \in Thread : ThreadInv(u)'
    BY <1>0 DEF TypeOK, ListInv, ThreadInv
<1>5. HolderInv'
    BY <1>0 DEF TypeOK, ListInv, HolderInv
<1> QED BY <1>1, <1>2, <1>3, <1>4, <1>5 DEF ListInv

LEMMA AcquireKeeps ==
    ASSUME ListInv, NEW t \in Thread, Acquire(t)
    PROVE  ListInv'
<1> USE DEF Acquire, Move
<1> DEFINE k == on[t]
<1>0. /\ TypeOK /\ k \in Lists
      /\ lock[k] \in Semaphores(Thread) /\ lock[k].value \in Nat
      /\ Asleep(lock[k]) \subseteq Thread
      /\ lock' = [lock EXCEPT ![k] = P(lock[k], t)] /\ lock'[k] = P(lock[k], t)
    BY AsleepThreads DEF ListInv, TypeOK
<1>1. P(lock[k], t) \in Semaphores(Thread)
    BY <1>0, PTakes, PSleeps
<1>2. \A u \in Thread : at'[u] = at[u] \/ (u = t /\ at[t] = "acquiring" /\ at'[t] = "inside")
    BY <1>0 DEF TypeOK
<1>3. TypeOK'
    BY <1>0, <1>1 DEF TypeOK
<1>4. ASSUME NEW l \in Lists, l # k PROVE LockInv(l)'
    <2>1. lock'[l] = lock[l]
        BY <1>0, <1>4 DEF TypeOK
    <2>2. Owners(l)' = Owners(l)
        BY <1>2, <1>4 DEF Owners
    <2>3. \A u \in Thread : on[u] = l /\ at[u] = "acquiring" => on'[u] = l /\ at'[u] = "acquiring"
        BY <1>2, <1>4
    <2> QED BY <1>0, <2>1, <2>2, <2>3, LockUntouched DEF ListInv
<1>5. LockInv(k)'
    <2>1. CASE Available(lock[k])
        <3>1. /\ lock'[k].value = lock[k].value - 1
              /\ lock'[k].queue = lock[k].queue /\ Asleep(lock'[k]) = Asleep(lock[k])
            BY <1>0, <2>1, PTakes
        <3>2. lock[k].value = 1 /\ Owners(k) = {}
            BY <1>0, <2>1 DEF ListInv, LockInv, Available
        <3>3. lock'[k].value = 0
            BY <3>1, <3>2
        <3>4. at' = [at EXCEPT ![t] = "inside"]
            BY <2>1
        <3>5. Owners(k)' = {t}
            BY <1>0, <3>2, <3>4 DEF Owners, TypeOK
        <3>6. \A u \in Asleep(lock[k]) : on'[u] = k /\ at'[u] = "acquiring"
            BY <1>0, <3>4 DEF ListInv, LockInv, TypeOK
        <3>7. Distinct(lock[k].queue)
            BY <1>0 DEF ListInv, LockInv
        <3> QED BY <3>1, <3>3, <3>5, <3>6, <3>7 DEF LockInv
    <2>2. CASE ~Available(lock[k])
        <3>0. Distinct(lock[k].queue)
            BY <1>0 DEF ListInv, LockInv
        <3>1. /\ lock'[k].value = 0 /\ lock[k].value = 0 /\ Distinct(lock'[k].queue)
              /\ Asleep(lock'[k]) = Asleep(lock[k]) \cup {t}
            BY <1>0, <2>2, <3>0, PSleeps
        <3>2. at' = at
            BY <1>0, <2>2 DEF TypeOK
        <3>3. Owners(k)' = Owners(k)
            BY <3>2 DEF Owners
        <3> QED BY <1>0, <3>1, <3>2, <3>3 DEF ListInv, LockInv
    <2> QED BY <2>1, <2>2
<1>6. \A l \in Lists : QueueInv(l)'
    <2>1. \A u \in Thread : at[u] = "waiting" => at'[u] = "waiting" /\ on'[u] = on[u]
        BY <1>2
    <2> QED BY <2>1, QueuesUntouched
<1>7. \A u \in Thread : ThreadInv(u)'
    <2> SUFFICES ASSUME NEW u \in Thread PROVE ThreadInv(u)'
        OBVIOUS
    <2>1. ThreadInv(u) /\ (at'[u] = "waiting" => at[u] = "waiting")
        BY <1>2 DEF ListInv
    <2>2. at'[u] \in {"acquiring", "inside"} => at[u] \in {"acquiring", "inside"}
        BY <1>2
    <2> QED BY <2>1, <2>2 DEF ThreadInv
<1>8. HolderInv'
    BY <1>2 DEF ListInv, HolderInv
<1> QED BY <1>3, <1>4, <1>5, <1>6, <1>7, <1>8 DEF ListInv

\* The steps that return with a Release and leave the waiters alone.
LEMMA ReturnKeeps ==
    ASSUME ListInv, NEW t \in Thread, at[t] \in {"inside", "releasing"}, Releases(t), Move(t, "out"),
           list' \in [Lists -> Seq(Item)], item' \in [Thread -> Item \cup {None}],
           \A u \in Thread : u # t => item'[u] = item[u],
           UNCHANGED <<waitQueue, waiter, call, on>>
    PROVE  ListInv'
<1>0. TypeOK /\ at' = [at EXCEPT ![t] = "out"]
    BY DEF ListInv, Move
<1>1. /\ lock' \in [Lists -> Semaphores(Thread)] /\ lockHolder' \in [Lists -> Thread \cup {None}]
      /\ HolderInv' /\ \A l \in Lists : LockInv(l)'
    BY <1>0, LockReleased
<1>2. TypeOK'
    BY <1>0, <1>1 DEF TypeOK
<1>3. \A l \in Lists : QueueInv(l)'
    <2>1. \A u \in Thread : at[u] = "waiting" => at'[u] = "waiting" /\ on'[u] = on[u]
        BY <1>0 DEF TypeOK
    <2> QED BY <2>1, QueuesUntouched
<1>4. \A u \in Thread : ThreadInv(u)'
    BY <1>0 DEF ListInv, ThreadInv, TypeOK
<1> QED BY <1>1, <1>2, <1>3, <1>4 DEF ListInv

LEMMA ReturnsKeep ==
    ASSUME ListInv, NEW t \in Thread, AppendUnseen(t) \/ Release(t) \/ TakeFront(t) \/ Apply(t)
    PROVE  ListInv'
<1> USE DEF Inside
<1>0. TypeOK /\ on[t] \in Lists /\ list[on[t]] \in Seq(Item)
    BY DEF ListInv, TypeOK
<1>1. CASE AppendUnseen(t)
    <2>1. item[t] \in Item
        BY <1>1 DEF AppendUnseen, ListInv, ThreadInv
    <2>2. Append(list[on[t]], item[t]) \in Seq(Item)
        BY <1>0, <2>1
    <2>3. list' \in [Lists -> Seq(Item)] /\ item' = item
        BY <1>0, <1>1, <2>2 DEF AppendUnseen, TypeOK
    <2> QED BY <1>0, <1>1, <2>3, ReturnKeeps DEF AppendUnseen, TypeOK
<1>2. CASE Release(t)
    BY <1>0, <1>2, ReturnKeeps DEF Release, TypeOK
<1>3. CASE TakeFront(t)
    <2>1. Head(list[on[t]]) \in Item /\ Tail(list[on[t]]) \in Seq(Item)
        BY <1>0, <1>3 DEF TakeFront
    <2>2. /\ list' \in [Lists -> Seq(Item)] /\ item' \in [Thread -> Item \cup {None}]
          /\ \A u \in Thread : u # t => item'[u] = item[u]
        BY <1>0, <1>3, <2>1 DEF TakeFront, TypeOK
    <2> QED BY <1>3, <2>2, ReturnKeeps DEF TakeFront
<1>4. CASE Apply(t)
    BY <1>0, <1>4, ReturnKeeps DEF Apply, TypeOK
<1> QED BY <1>1, <1>2, <1>3, <1>4

\* Signal takes the first waiter off the queue, who has not been signalled
\* before, and raises its semaphore.
LEMMA SignalWakes ==
    ASSUME ListInv, NEW t \in Thread, AppendSignals(t)
    PROVE  LET w == Head(waitQueue[on[t]])
               s == V(waiter[w])
           IN  /\ w \in Thread /\ w \in Elements(waitQueue[on[t]])
               /\ w # t /\ on[w] = on[t] /\ call[w] = "remove" /\ at[w] = "waiting"
               /\ waiter[w].value = 0
               /\ s \in Semaphores(Thread) /\ s.value = 1 /\ Asleep(s) = {}
               /\ Distinct(s.queue)
               /\ waiter' = [waiter EXCEPT ![w] = s]
               /\ Distinct(Tail(waitQueue[on[t]]))
               /\ Tail(waitQueue[on[t]]) \in Seq(Thread)
               /\ Elements(Tail(waitQueue[on[t]])) = Elements(waitQueue[on[t]]) \ {w}
<1> DEFINE k == on[t]
<1> DEFINE w == Head(waitQueue[k])
<1> DEFINE s == V(waiter[w])
<1>0. TypeOK /\ k \in Lists /\ waitQueue[k] \in Seq(Thread) /\ waitQueue[k] # <<>> /\ QueueInv(k)
    BY DEF ListInv, TypeOK, AppendSignals, Unseen
<1>1. /\ w \in Thread /\ w \in Elements(waitQueue[k]) /\ Distinct(Tail(waitQueue[k]))
      /\ Tail(waitQueue[k]) \in Seq(Thread)
      /\ Elements(Tail(waitQueue[k])) = Elements(waitQueue[k]) \ {w}
    BY <1>0, ElementsOfTail DEF QueueInv
<1>2. on[w] = k /\ at[w] = "waiting" /\ waiter[w].value = 0
    BY <1>0, <1>1 DEF QueueInv
<1>3. call[w] = "remove" /\ w # t
    BY <1>1, <1>2 DEF ListInv, ThreadInv, AppendSignals, Inside
<1>4. waiter[w] \in Semaphores(Thread) /\ Distinct(waiter[w].queue) /\ Asleep(waiter[w]) \subseteq {w}
    BY <1>0, <1>1 DEF ListInv, TypeOK, ThreadInv
<1>5. s \in Semaphores(Thread) /\ s.value = 1 /\ Distinct(s.queue)
    BY <1>2, <1>4, VWakes
<1>6. Asleep(s) = {}
    <2>1. CASE waiter[w].queue = <<>>
        BY <1>4, <2>1, VWakes
    <2>2. CASE waiter[w].queue # <<>>
        <3>1. Head(waiter[w].queue) \in Asleep(waiter[w]) /\ Asleep(s) = Asleep(waiter[w]) \ {Head(waiter[w].queue)}
            <4> HIDE DEF w
            <4> QED BY <1>4, <2>2, VWakes
        <3> QED BY <1>4, <3>1
    <2> QED BY <2>1, <2>2
<1>7. waiter' = [waiter EXCEPT ![w] = s]
    BY DEF AppendSignals
<1> QED BY <1>1, <1>2, <1>3, <1>5, <1>6, <1>7

LEMMA AppendSignalsKeeps ==
    ASSUME ListInv, NEW t \in Thread, AppendSignals(t)
    PROVE  ListInv'
<1> DEFINE k == on[t]
<1> DEFINE w == Head(waitQueue[k])
<1> DEFINE s == V(waiter[w])
<1>0. /\ TypeOK /\ k \in Lists /\ at[t] = "inside" /\ call[t] = "append"
      /\ lock' = lock /\ call' = call /\ on' = on /\ item' = item
      /\ at' = [at EXCEPT ![t] = "releasing"]
      /\ lockHolder' = [lockHolder EXCEPT ![k] = t]
      /\ waitQueue' = [waitQueue EXCEPT ![k] = Tail(waitQueue[k])]
      /\ list' = [list EXCEPT ![k] = Append(list[k], item[t])]
    BY DEF ListInv, TypeOK, AppendSignals, Inside, Move
<1>1. /\ w \in Thread /\ w \in Elements(waitQueue[k])
      /\ w # t /\ on[w] = k /\ call[w] = "remove" /\ at[w] = "waiting"
      /\ s \in Semaphores(Thread) /\ s.value = 1 /\ Asleep(s) = {} /\ Distinct(s.queue)
      /\ waiter' = [waiter EXCEPT ![w] = s]
      /\ Distinct(Tail(waitQueue[k])) /\ Tail(waitQueue[k]) \in Seq(Thread)
      /\ Elements(Tail(waitQueue[k])) = Elements(waitQueue[k]) \ {w}
    BY SignalWakes
<1> HIDE DEF w, s
<1>2. TypeOK'
    <2>1. item[t] \in Item /\ list[k] \in Seq(Item)
        BY <1>0 DEF ListInv, ThreadInv, TypeOK
    <2>2. Append(list[k], item[t]) \in Seq(Item)
        BY <2>1
    <2>3. list' \in [Lists -> Seq(Item)] /\ waitQueue' \in [Lists -> Seq(Thread)]
        BY <1>0, <1>1, <2>2 DEF TypeOK
    <2>4. waiter' \in [Thread -> Semaphores(Thread)]
        BY <1>0, <1>1 DEF TypeOK
    <2> QED BY <1>0, <2>3, <2>4 DEF TypeOK
<1>3. \A l \in Lists : LockInv(l)'
    <2>1. \A l \in Lists : Owners(l)' = Owners(l)
        BY <1>0 DEF Owners, TypeOK
    <2>2. \A u \in Thread : at[u] = "acquiring" => on'[u] = on[u] /\ at'[u] = "acquiring"
        BY <1>0 DEF TypeOK
    <2> QED BY <1>0, <2>1, <2>2, LocksUntouched
<1>4. HolderInv'
    <2> SUFFICES ASSUME NEW u \in Thread, at'[u] = "releasing" PROVE lockHolder'[on[u]] = u
        BY <1>0 DEF HolderInv
    <2>1. CASE u = t
        BY <1>0, <2>1 DEF TypeOK
    <2>2. CASE u # t
        <3>1. at[u] = "releasing"
            BY <1>0, <2>2 DEF TypeOK
        <3>2. on[u] # k
            BY <1>0, <2>2, <3>1 DEF ListInv, LockInv, Owners
        <3>3. lockHolder[on[u]] = u /\ on[u] \in Lists
            BY <1>0, <3>1 DEF ListInv, HolderInv, TypeOK
        <3> QED BY <1>0, <3>2, <3>3 DEF TypeOK
    <2> QED BY <2>1, <2>2
<1>5. \A l \in Lists : QueueInv(l)'
    <2> SUFFICES ASSUME NEW l \in Lists PROVE QueueInv(l)'
        OBVIOUS
    <2>0. QueueInv(l) /\ Elements(waitQueue[l]) \subseteq Thread
        BY DEF ListInv, TypeOK, Elements
    <2>1. \A u \in Thread : u # w => waiter'[u] = waiter[u]
        BY <1>0, <1>1 DEF TypeOK
    <2>2. \A u \in Thread : at[u] = "waiting" => at'[u] = "waiting"
        BY <1>0 DEF TypeOK
    <2>3. CASE l = k
        <3>1. waitQueue'[l] = Tail(waitQueue[k])
            BY <1>0, <2>3 DEF TypeOK
        <3>2. ASSUME NEW u \in Elements(waitQueue'[l])
              PROVE  on'[u] = l /\ at'[u] = "waiting" /\ waiter'[u].value = 0
            <4>1. u \in Elements(waitQueue[l]) /\ u # w
                BY <1>1, <2>3, <3>1
            <4> QED BY <1>0, <2>0, <2>1, <2>2, <4>1 DEF QueueInv
        <3>3. Distinct(waitQueue'[l])
            BY <1>1, <3>1
        <3> QED BY <3>2, <3>3 DEF QueueInv
    <2>4. CASE l # k
        <3>1. waitQueue'[l] = waitQueue[l]
            BY <1>0, <2>4 DEF TypeOK
        <3>2. w \notin Elements(waitQueue[l])
            BY <1>1, <2>0, <2>4 DEF QueueInv
        <3> QED BY <1>0, <2>0, <2>1, <2>2, <3>1, <3>2 DEF QueueInv
    <2> QED BY <2>3, <2>4
<1>6. \A u \in Thread : ThreadInv(u)'
    <2> SUFFICES ASSUME NEW u \in Thread PROVE ThreadInv(u)'
        OBVIOUS
    <2>0. ThreadInv(u)
        BY DEF ListInv
    <2>1. Distinct(waiter'[u].queue) /\ Asleep(waiter'[u]) \subseteq {u}
        <3>1. CASE u = w
            BY <1>0, <1>1, <3>1 DEF TypeOK
        <3>2. CASE u # w
            <4>1. waiter'[u] = waiter[u]
                BY <1>0, <1>1, <3>2 DEF TypeOK
            <4> QED BY <2>0, <4>1 DEF ThreadInv
        <3> QED BY <3>1, <3>2
    <2>2. /\ at'[u] = "waiting" => at[u] = "waiting"
          /\ at'[u] \in {"acquiring", "inside"} => at'[u] = at[u]
        BY <1>0 DEF TypeOK
    <2> QED BY <1>0, <2>0, <2>1, <2>2 DEF ThreadInv
<1> QED BY <1>2, <1>3, <1>4, <1>5, <1>6 DEF ListInv

LEMMA WaitKeeps ==
    ASSUME ListInv, NEW t \in Thread, Wait(t)
    PROVE  ListInv'
<1> DEFINE k == on[t]
<1>0. /\ TypeOK /\ k \in Lists /\ at[t] = "inside" /\ call[t] = "remove"
      /\ list' = list /\ call' = call /\ on' = on /\ item' = item
      /\ at' = [at EXCEPT ![t] = "waiting"]
      /\ waiter' = [waiter EXCEPT ![t] = NewSemaphore(0)]
      /\ waitQueue' = [waitQueue EXCEPT ![k] = Append(waitQueue[k], t)]
    BY DEF ListInv, TypeOK, Wait, Inside, Move
<1>1. /\ lock' \in [Lists -> Semaphores(Thread)] /\ lockHolder' \in [Lists -> Thread \cup {None}]
      /\ HolderInv' /\ \A l \in Lists : LockInv(l)'
    BY <1>0, LockReleased DEF Wait
<1>2. ASSUME NEW l \in Lists PROVE QueueInv(l) /\ Elements(waitQueue[l]) \subseteq Thread /\ t \notin Elements(waitQueue[l])
    <2>1. QueueInv(l) /\ waitQueue[l] \in Seq(Thread)
        BY DEF ListInv, TypeOK
    <2>2. Elements(waitQueue[l]) \subseteq Thread
        BY <2>1 DEF Elements
    <2>3. t \notin Elements(waitQueue[l])
        BY <1>0, <2>1 DEF QueueInv
    <2> QED BY <2>1, <2>2, <2>3
<1>3. /\ Append(waitQueue[k], t) \in Seq(Thread) /\ Distinct(Append(waitQueue[k], t))
      /\ Elements(Append(waitQueue[k], t)) = Elements(waitQueue[k]) \cup {t}
    BY <1>0, <1>2, ElementsOfAppend DEF TypeOK, QueueInv
<1>4. TypeOK'
    <2>1. waitQueue' \in [Lists -> Seq(Thread)]
        BY <1>0, <1>3 DEF TypeOK
    <2>2. waiter' \in [Thread -> Semaphores(Thread)]
        BY <1>0, NewSemaphoreIs DEF TypeOK
    <2> QED BY <1>0, <1>1, <2>1, <2>2 DEF TypeOK
<1>5. \A l \in Lists : QueueInv(l)'
    <2> SUFFICES ASSUME NEW l \in Lists PROVE QueueInv(l)'
        OBVIOUS
    <2>1. \A u \in Thread : u # t => waiter'[u] = waiter[u] /\ at'[u] = at[u]
        BY <1>0 DEF TypeOK
    <2>2. waiter'[t].value = 0 /\ at'[t] = "waiting"
        BY <1>0, NewSemaphoreIs DEF TypeOK
    <2>3. CASE l = k
        <3>1. waitQueue'[l] = Append(waitQueue[k], t)
            BY <1>0, <2>3 DEF TypeOK
        <3>2. ASSUME NEW u \in Elements(waitQueue'[l])
              PROVE  on'[u] = l /\ at'[u] = "waiting" /\ waiter'[u].value = 0
            <4>1. CASE u = t
                BY <1>0, <2>2, <2>3, <4>1
            <4>2. CASE u # t
                <5>1. u \in Elements(waitQueue[l])
                    BY <1>3, <2>3, <3>1, <3>2, <4>2
                <5>2. on[u] = l /\ at[u] = "waiting" /\ waiter[u].value = 0 /\ u \in Thread
                    BY <1>2, <5>1 DEF QueueInv
                <5> QED BY <1>0, <2>1, <4>2, <5>2
            <4> QED BY <4>1, <4>2
        <3> QED BY <1>3, <3>1, <3>2 DEF QueueInv
    <2>4. CASE l # k
        <3>1. waitQueue'[l] = waitQueue[l]
            BY <1>0, <2>4 DEF TypeOK
        <3> QED BY <1>0, <1>2, <2>1, <3>1 DEF QueueInv
    <2> QED BY <2>3, <2>4
<1>6. \A u \in Thread : ThreadInv(u)'
    <2> SUFFICES ASSUME NEW u \in Thread PROVE ThreadInv(u)'
        OBVIOUS
    <2>1. CASE u = t
        <3>1. waiter'[u] = NewSemaphore(0) /\ at'[u] = "waiting" /\ call'[u] = "remove"
            BY <1>0, <2>1 DEF TypeOK
        <3> QED BY <3>1, NewSemaphoreIs DEF ThreadInv
    <2>2. CASE u # t
        <3>1. waiter'[u] = waiter[u] /\ at'[u] = at[u]
            BY <1>0, <2>2 DEF TypeOK
        <3> QED BY <1>0, <3>1 DEF ListInv, ThreadInv
    <2> QED BY <2>1, <2>2
<1> QED BY <1>1, <1>4, <1>5, <1>6 DEF ListInv

LEMMA AwaitSignalKeeps ==
    ASSUME ListInv, NEW t \in Thread, AwaitSignal(t)
    PROVE  ListInv'
<1> DEFINE s == P(waiter[t], t)
<1>0. /\ TypeOK /\ at[t] = "waiting" /\ call[t] = "remove" /\ waiter[t] \in Semaphores(Thread)
      /\ lock' = lock /\ lockHolder' = lockHolder /\ waitQueue' = waitQueue /\ list' = list
      /\ call' = call /\ on' = on /\ item' = item
      /\ waiter' = [waiter EXCEPT ![t] = s]
      /\ Distinct(waiter[t].queue) /\ Asleep(waiter[t]) \subseteq {t} /\ t \notin Asleep(waiter[t])
    BY DEF ListInv, TypeOK, ThreadInv, AwaitSignal, lists
<1>1. /\ s \in Semaphores(Thread) /\ Distinct(s.queue) /\ Asleep(s) \subseteq {t}
      /\ waiter[t].value = 0 => s.value = 0
    <2>1. CASE Available(waiter[t])
        BY <1>0, <2>1, PTakes DEF Available
    <2>2. CASE ~Available(waiter[t])
        BY <1>0, <2>2, PSleeps
    <2> QED BY <2>1, <2>2
<1>2. \/ at' = at
      \/ waiter[t].value > 0 /\ at' = [at EXCEPT ![t] = "acquiring"]
    BY <1>0 DEF AwaitSignal, Move, Available, TypeOK
<1> HIDE DEF s
<1>3. TypeOK'
    <2>1. waiter' \in [Thread -> Semaphores(Thread)]
        BY <1>0, <1>1 DEF TypeOK
    <2> QED BY <1>0, <1>2, <2>1 DEF TypeOK
<1>4. \A l \in Lists : LockInv(l)'
    <2>1. \A l \in Lists : Owners(l)' = Owners(l)
        BY <1>0, <1>2 DEF Owners, TypeOK
    <2>2. \A u \in Thread : at[u] = "acquiring" => on'[u] = on[u] /\ at'[u] = "acquiring"
        BY <1>0, <1>2 DEF TypeOK
    <2> QED BY <1>0, <2>1, <2>2, LocksUntouched
<1>5. HolderInv'
    BY <1>0, <1>2 DEF ListInv, HolderInv, TypeOK
<1>6. \A l \in Lists : QueueInv(l)'
    <2> SUFFICES ASSUME NEW l \in Lists PROVE QueueInv(l)'
        OBVIOUS
    <2>0. QueueInv(l) /\ Elements(waitQueue[l]) \subseteq Thread
        BY DEF ListInv, TypeOK, Elements
    <2>1. ASSUME NEW u \in Elements(waitQueue[l]) PROVE at'[u] = "waiting" /\ waiter'[u].value = 0
        <3>1. at[u] = "waiting" /\ waiter[u].value = 0 /\ u \in Thread
            BY <2>0 DEF QueueInv
        <3>2. CASE u # t
            BY <1>0, <1>2, <3>1, <3>2 DEF TypeOK
        <3>3. CASE u = t
            <4>1. at' = at
                BY <1>2, <3>1, <3>3
            <4>2. waiter'[u] = s
                BY <1>0, <3>3 DEF TypeOK
            <4> QED BY <1>1, <3>1, <3>3, <4>1, <4>2
        <3> QED BY <3>2, <3>3
    <2> QED BY <1>0, <2>0, <2>1 DEF QueueInv
<1>7. \A u \in Thread : ThreadInv(u)'
    <2> SUFFICES ASSUME NEW u \in Thread PROVE ThreadInv(u)'
        OBVIOUS
    <2>1. CASE u = t
        <3>1. waiter'[u] = s /\ call'[u] = "remove"
            BY <1>0, <2>1 DEF TypeOK
        <3> QED BY <1>1, <2>1, <3>1 DEF ThreadInv
    <2>2. CASE u # t
        <3>1. waiter'[u] = waiter[u] /\ at'[u] = at[u]
            BY <1>0, <1>2, <2>2 DEF TypeOK
        <3> QED BY <1>0, <3>1 DEF ListInv, ThreadInv
    <2> QED BY <2>1, <2>2
<1> QED BY <1>3, <1>4, <1>5, <1>6, <1>7 DEF ListInv

LEMMA NextListInv == ListInv /\ [Next]_listVars => ListInv'
<1> SUFFICES ASSUME ListInv, [Next]_listVars PROVE ListInv'
    OBVIOUS
<1>0. TypeOK
    BY DEF ListInv
<1>1. ASSUME NEW t \in Thread, NEW l \in Lists, NEW x \in Item, CallAppend(t, l, x) PROVE ListInv'
    <2>1. /\ item' \in [Thread -> Item \cup {None}] /\ item'[t] \in Item
          /\ \A u \in Thread : u # t => item'[u] = item[u]
        BY <1>0, <1>1 DEF CallAppend, TypeOK
    <2> QED BY <1>1, <2>1, CallKeeps DEF CallAppend
<1>2. ASSUME NEW t \in Thread, NEW l \in Lists, CallRemoveFront(t, l) PROVE ListInv'
    <2>1. /\ item' \in [Thread -> Item \cup {None}]
          /\ \A u \in Thread : u # t => item'[u] = item[u]
        BY <1>0, <1>2 DEF CallRemoveFront, TypeOK
    <2> QED BY <1>2, <2>1, CallKeeps DEF CallRemoveFront
<1>3. ASSUME NEW t \in Thread, NEW l \in Lists, CallApply(t, l) PROVE ListInv'
    <2>1. item' = item
        BY <1>3 DEF CallApply
    <2> QED BY <1>0, <1>3, <2>1, CallKeeps DEF CallApply, TypeOK
<1>4. ASSUME NEW t \in Thread, Step(t) PROVE ListInv'
    BY <1>4, AcquireKeeps, ReturnsKeep, AppendSignalsKeeps, WaitKeeps, AwaitSignalKeeps DEF Step
<1>5. ASSUME NEW t \in Thread, TakeFront(t) \/ Apply(t) PROVE ListInv'
    BY <1>5, ReturnsKeep
<1>6. CASE UNCHANGED listVars
    BY <1>6 DEF listVars, lists, ListInv, TypeOK, HolderInv, LockInv, QueueInv, ThreadInv, Owners, Contenders
<1> QED BY <1>1, <1>2, <1>3, <1>4, <1>5, <1>6 DEF Next

LEMMA ListInvariant == Spec => []ListInv
    BY InitListInv, NextListInv, PTL DEF Spec

\* The variables keep their types, whatever threads, lists and items there are.
THEOREM TypeCorrect == Spec => []TypeOK
<1>1. ListInv => TypeOK
    BY DEF ListInv
<1> QED BY <1>1, ListInvariant, PTL

\* A list's lock lets one thread in, and Release's assertion holds.
THEOREM LockExcludes == Spec => []MutualExclusion
<1>1. ListInv => MutualExclusion
    BY DEF ListInv, LockInv, HolderInv, MutualExclusion, Owners
<1> QED BY <1>1, ListInvariant, PTL

-----------------------------------------------------------------------------
(* Wakeups                                                                 *)

\* Items of a list that somebody waits for have threads that come for them.
Served(l) == waitQueue[l] # <<>> => Len(list[l]) <= Cardinality(Coming(l))

AllServed == \A l \in Lists : Served(l)

LEMMA ComingFinite ==
    ASSUME NEW l
    PROVE  /\ IsFiniteSet(Coming(l)) /\ Cardinality(Coming(l)) \in Nat
           /\ IsFiniteSet(Coming(l)') /\ Cardinality(Coming(l)') \in Nat
<1>1. Coming(l) \in SUBSET Thread /\ Coming(l)' \in SUBSET Thread
    BY DEF Coming
<1> QED BY <1>1, SynchListAssumption, FS_Subset, FS_CardinalityType

LEMMA ComingGrows ==
    ASSUME NEW l, NEW t, Coming(l)' = Coming(l) \cup {t}
    PROVE  /\ Cardinality(Coming(l)') >= Cardinality(Coming(l))
           /\ t \notin Coming(l) => Cardinality(Coming(l)') = Cardinality(Coming(l)) + 1
<1>1. CASE t \in Coming(l)
    <2>1. Coming(l)' = Coming(l)
        BY <1>1
    <2> QED BY <1>1, <2>1, ComingFinite
<1>2. CASE t \notin Coming(l)
    <2> DEFINE C == Coming(l)
    <2>1. IsFiniteSet(C) /\ Cardinality(C) \in Nat /\ t \notin C
        BY <1>2, ComingFinite
    <2> HIDE DEF C
    <2>2. Cardinality(C \cup {t}) = Cardinality(C) + 1
        BY <2>1, FS_AddElement
    <2>3. Cardinality(Coming(l)') = Cardinality(Coming(l)) + 1
        BY <2>2 DEF C
    <2> QED BY <2>1, <2>3 DEF C
<1> QED BY <1>1, <1>2

LEMMA ComingShrinks ==
    ASSUME NEW l, NEW t, t \in Coming(l), Coming(l)' = Coming(l) \ {t}
    PROVE  Cardinality(Coming(l)') = Cardinality(Coming(l)) - 1
    BY ComingFinite, FS_RemoveElement

\* A step by which no item is added, no thread starts to wait, and none stops
\* coming.
LEMMA ServedStays ==
    ASSUME TypeOK, NEW l \in Lists, Served(l), list'[l] = list[l], waitQueue'[l] = waitQueue[l],
           Coming(l)' = Coming(l) \/ \E t : Coming(l)' = Coming(l) \cup {t}
    PROVE  Served(l)'
<1>1. Len(list[l]) \in Nat
    BY DEF TypeOK
<1>2. Cardinality(Coming(l)') >= Cardinality(Coming(l))
    BY ComingGrows, ComingFinite
<1> QED BY <1>1, <1>2, ComingFinite DEF Served

LEMMA NextServed == ListInv /\ AllServed /\ [Next]_listVars => AllServed'
<1> SUFFICES ASSUME ListInv, AllServed, [Next]_listVars, NEW l \in Lists
             PROVE  Served(l)'
    BY DEF AllServed
<1>0. TypeOK /\ Served(l)
    BY DEF ListInv, AllServed
<1>1. ASSUME NEW t \in Thread, NEW k \in Lists, NEW c \in {"append", "remove", "apply"}, Call(t, c, k)
      PROVE  Served(l)'
    <2>1. /\ at[t] = "out" /\ at' = [at EXCEPT ![t] = "acquiring"] /\ call' = [call EXCEPT ![t] = c]
          /\ on' = [on EXCEPT ![t] = k] /\ UNCHANGED <<list, waitQueue, waiter>>
        BY <1>1 DEF Call, Move, lists
    <2>2. Coming(l)' = Coming(l) \/ Coming(l)' = Coming(l) \cup {t}
        <3>1. \A u \in Thread \ {t} : u \in Coming(l)' <=> u \in Coming(l)
            BY <1>0, <2>1 DEF Coming, Signalled, TypeOK
        <3>2. t \notin Coming(l)
            BY <2>1 DEF Coming
        <3>3. Coming(l) \subseteq Thread /\ Coming(l)' \subseteq Thread
            BY DEF Coming
        <3> QED BY <3>1, <3>2, <3>3
    <2> QED BY <1>0, <2>1, <2>2, ServedStays
<1>2. ASSUME NEW t \in Thread, Acquire(t) PROVE Served(l)'
    <2>1. Coming(l)' = Coming(l)
        BY <1>0, <1>2 DEF Acquire, Move, Coming, Signalled, TypeOK
    <2> QED BY <1>0, <1>2, <2>1, ServedStays DEF Acquire
<1>3. ASSUME NEW t \in Thread, AppendUnseen(t) PROVE Served(l)'
    <2>1. Coming(l)' = Coming(l)
        BY <1>0, <1>3 DEF AppendUnseen, Inside, Move, Coming, Signalled, TypeOK
    <2>2. CASE l = on[t]
        BY <1>0, <1>3, <2>2 DEF AppendUnseen, Unseen, Served, TypeOK
    <2>3. CASE l # on[t]
        <3>1. list'[l] = list[l] /\ waitQueue' = waitQueue
            BY <1>0, <1>3, <2>3 DEF AppendUnseen, TypeOK
        <3> QED BY <1>0, <2>1, <3>1, ServedStays
    <2> QED BY <2>2, <2>3
<1>4. ASSUME NEW t \in Thread, AppendSignals(t) PROVE Served(l)'
    <2> DEFINE k == on[t]
    <2> DEFINE w == Head(waitQueue[k])
    <2> DEFINE s == V(waiter[w])
    <2>0. /\ at[t] = "inside" /\ call[t] = "append" /\ k \in Lists /\ waitQueue[k] # <<>>
          /\ call' = call /\ on' = on
          /\ at' = [at EXCEPT ![t] = "releasing"]
          /\ waitQueue' = [waitQueue EXCEPT ![k] = Tail(waitQueue[k])]
          /\ list' = [list EXCEPT ![k] = Append(list[k], item[t])]
        BY <1>0, <1>4 DEF AppendSignals, Inside, Unseen, Move, TypeOK
    <2>1. /\ w \in Thread /\ w # t /\ on[w] = k /\ call[w] = "remove" /\ at[w] = "waiting"
          /\ waiter[w].value = 0 /\ s.value = 1 /\ Asleep(s) = {}
          /\ waiter' = [waiter EXCEPT ![w] = s]
        BY <1>4, SignalWakes
    <2> HIDE DEF w, s
    <2>2. w \notin Coming(l)
        BY <2>1 DEF Coming, Signalled
    <2>3. \A u \in Thread \ {w} : u \in Coming(l)' <=> u \in Coming(l)
        BY <1>0, <2>0, <2>1 DEF Coming, Signalled, TypeOK
    <2>4. Coming(l) \subseteq Thread /\ Coming(l)' \subseteq Thread
        BY DEF Coming
    <2>5. CASE l = k
        <3>1. waiter'[w] = s /\ at'[w] = "waiting"
            BY <1>0, <2>0, <2>1 DEF TypeOK
        <3>2. w \in Coming(l)'
            BY <2>0, <2>1, <2>5, <3>1 DEF Coming, Signalled
        <3>3. Cardinality(Coming(l)') = Cardinality(Coming(l)) + 1
            <4>1. Coming(l)' = Coming(l) \cup {w}
                BY <2>1, <2>3, <2>4, <3>2
            <4> QED BY <2>2, <4>1, ComingGrows
        <3>4. item[t] \in Item /\ list[l] \in Seq(Item)
            BY <1>0, <2>0 DEF ListInv, ThreadInv, TypeOK
        <3>5. list'[l] = Append(list[l], item[t])
            BY <1>0, <2>0, <2>5 DEF TypeOK
        <3>6. Len(list'[l]) = Len(list[l]) + 1 /\ Len(list[l]) \in Nat
            BY <3>4, <3>5
        <3>7. Len(list[l]) <= Cardinality(Coming(l))
            BY <1>0, <2>0, <2>5 DEF Served
        <3> QED BY <3>3, <3>6, <3>7, ComingFinite DEF Served
    <2>6. CASE l # k
        <3>1. w \notin Coming(l)'
            BY <2>0, <2>1, <2>6 DEF Coming
        <3>2. Coming(l)' = Coming(l)
            BY <2>2, <2>3, <2>4, <3>1
        <3>3. list'[l] = list[l] /\ waitQueue'[l] = waitQueue[l]
            BY <1>0, <2>0, <2>6 DEF TypeOK
        <3> QED BY <1>0, <3>2, <3>3, ServedStays
    <2> QED BY <2>5, <2>6
<1>5. ASSUME NEW t \in Thread, Release(t) PROVE Served(l)'
    <2>1. Coming(l)' = Coming(l)
        BY <1>0, <1>5 DEF Release, Move, Coming, Signalled, TypeOK
    <2> QED BY <1>0, <1>5, <2>1, ServedStays DEF Release
<1>6. ASSUME NEW t \in Thread, Wait(t) PROVE Served(l)'
    <2>0. /\ at[t] = "inside" /\ call' = call /\ on' = on /\ list' = list /\ list[on[t]] = <<>>
          /\ at' = [at EXCEPT ![t] = "waiting"]
          /\ waiter' = [waiter EXCEPT ![t] = NewSemaphore(0)]
          /\ waitQueue' = [waitQueue EXCEPT ![on[t]] = Append(@, t)]
        BY <1>6 DEF Wait, Inside, Move
    <2>1. CASE l = on[t]
        <3>1. Len(list'[l]) = 0
            BY <2>0, <2>1
        <3> QED BY <3>1, ComingFinite DEF Served
    <2>2. CASE l # on[t]
        <3>1. Coming(l)' = Coming(l)
            BY <1>0, <2>0, <2>2 DEF Coming, Signalled, TypeOK
        <3>2. waitQueue'[l] = waitQueue[l]
            BY <1>0, <2>0, <2>2 DEF TypeOK
        <3> QED BY <1>0, <2>0, <3>1, <3>2, ServedStays
    <2> QED BY <2>1, <2>2
<1>7. ASSUME NEW t \in Thread, AwaitSignal(t) PROVE Served(l)'
    <2>0. /\ at[t] = "waiting" /\ t \notin Asleep(waiter[t]) /\ waiter[t].value \in Nat
          /\ waiter[t] \in Semaphores(Thread)
          /\ call' = call /\ on' = on /\ list' = list /\ waitQueue' = waitQueue
          /\ waiter' = [waiter EXCEPT ![t] = P(@, t)]
          /\ at' = [at EXCEPT ![t] = IF Available(waiter[t]) THEN "acquiring" ELSE "waiting"]
        BY <1>0, <1>7 DEF AwaitSignal, Move, lists, TypeOK, Semaphores
    <2>1. \A u \in Thread \ {t} : u \in Coming(l)' <=> u \in Coming(l)
        BY <1>0, <2>0 DEF Coming, Signalled, TypeOK
    <2>2. t \in Coming(l) => t \in Coming(l)'
        <3> SUFFICES ASSUME t \in Coming(l) PROVE t \in Coming(l)'
            OBVIOUS
        <3>1. Available(waiter[t]) /\ on[t] = l /\ call[t] = "remove"
            BY <2>0 DEF Coming, Signalled, Available
        <3>2. at'[t] = "acquiring"
            BY <1>0, <2>0, <3>1 DEF TypeOK
        <3> QED BY <2>0, <3>1, <3>2 DEF Coming
    <2>3. Coming(l) \subseteq Thread /\ Coming(l)' \subseteq Thread
        BY DEF Coming
    <2>4. Coming(l)' = Coming(l) \/ Coming(l)' = Coming(l) \cup {t}
        BY <2>1, <2>2, <2>3
    <2> QED BY <1>0, <2>0, <2>4, ServedStays
<1>8. ASSUME NEW t \in Thread, TakeFront(t) PROVE Served(l)'
    <2>0. /\ at[t] = "inside" /\ call[t] = "remove" /\ on[t] \in Lists
          /\ list[on[t]] # <<>> /\ list[on[t]] \in Seq(Item)
          /\ call' = call /\ on' = on /\ waitQueue' = waitQueue /\ waiter' = waiter
          /\ at' = [at EXCEPT ![t] = "out"]
          /\ list' = [list EXCEPT ![on[t]] = Tail(@)]
        BY <1>0, <1>8 DEF TakeFront, Inside, Move, TypeOK
    <2>1. CASE l = on[t]
        <3>1. t \in Coming(l)
            BY <2>0, <2>1 DEF Coming
        <3>2. Coming(l)' = Coming(l) \ {t}
            BY <1>0, <2>0 DEF Coming, Signalled, TypeOK
        <3>3. Cardinality(Coming(l)') = Cardinality(Coming(l)) - 1
            BY <3>1, <3>2, ComingShrinks
        <3>4. list'[l] = Tail(list[l])
            BY <1>0, <2>0, <2>1 DEF TypeOK
        <3>5. Len(list'[l]) = Len(list[l]) - 1 /\ Len(list[l]) \in Nat
            <4> DEFINE q == list[l]
            <4>1. q \in Seq(Item) /\ q # <<>>
                BY <2>0, <2>1
            <4> HIDE DEF q
            <4>2. Len(Tail(q)) = Len(q) - 1 /\ Len(q) \in Nat
                BY <4>1
            <4> QED BY <3>4, <4>2 DEF q
        <3> QED BY <1>0, <2>0, <3>3, <3>5, ComingFinite DEF Served
    <2>2. CASE l # on[t]
        <3>1. Coming(l)' = Coming(l)
            BY <1>0, <2>0, <2>2 DEF Coming, Signalled, TypeOK
        <3>2. list'[l] = list[l]
            BY <1>0, <2>0, <2>2 DEF TypeOK
        <3> QED BY <1>0, <2>0, <3>1, <3>2, ServedStays
    <2> QED BY <2>1, <2>2
<1>9. ASSUME NEW t \in Thread, Apply(t) PROVE Served(l)'
    <2>1. Coming(l)' = Coming(l)
        BY <1>0, <1>9 DEF Apply, Inside, Move, Coming, Signalled, TypeOK
    <2> QED BY <1>0, <1>9, <2>1, ServedStays DEF Apply
<1>10. CASE UNCHANGED listVars
    BY <1>10, <1>0 DEF listVars, lists, Served, Coming, Signalled
<1> QED BY <1>1, <1>2, <1>3, <1>4, <1>5, <1>6, <1>7, <1>8, <1>9, <1>10
        DEF Next, Step, CallAppend, CallRemoveFront, CallApply

\* No wakeup is lost: threads asleep on a free lock have another one on its
\* way, and items on a list that threads wait for have threads that come.
THEOREM WakeupsReachWaiters == Spec => []NoLostWakeup
<1>1. ListInv /\ AllServed => NoLostWakeup
    BY DEF ListInv, LockInv, AllServed, Served, NoLostWakeup
<1>2. Init => AllServed
    BY DEF Init, AllServed, Served
<1> QED BY <1>1, <1>2, ListInvariant, NextServed, PTL DEF Spec

-----------------------------------------------------------------------------
(* The post office                                                         *)

OutP == INSTANCE SynchDeviceProofs WITH
    Thread <- Sender, lock <- sendLock, lockHolder <- sendHolder,
    semaphore <- messageSent, active <- busy, pending <- sendInts,
    at <- sending

\* Packets are letters, and the worker follows the buffer.
MailInv ==
    /\ letter \in [Sender -> Letter \cup {None}]
    /\ \A s \in Sender : sending[s] # "out" => letter[s] \in Letter
    /\ unsent \subseteq Letter
    /\ socket \in Seq(Letter)
    /\ inbox \in Letter \cup {None}
    /\ messageAvailable \in Semaphores({Worker})
    /\ Distinct(messageAvailable.queue)
    /\ worker \in {"loop", "woken"}
    /\ received \subseteq Letter
    /\ WorkerFollowsBuffer

PostInv == ListInv /\ OutP!DeviceInv /\ MailInv

\* A worker that is woken finds a packet.
LEMMA WokenFindsPacket == MailInv /\ worker = "woken" => inbox \in Letter
<1> SUFFICES ASSUME MailInv, worker = "woken" PROVE inbox \in Letter
    OBVIOUS
<1>1. messageAvailable.value \in Nat
    BY DEF MailInv, Semaphores
<1>2. messageAvailable.value + 1 = IF inbox = None THEN 0 ELSE 1
    BY DEF MailInv, WorkerFollowsBuffer
<1>3. inbox # None
    BY <1>1, <1>2
<1> QED BY <1>3 DEF MailInv

\* Every step of the post office is a step of the mailboxes, or leaves them.
LEMMA StepsOfBoxes == MailInv /\ [PostNext]_postVars => [Next]_listVars
<1> SUFFICES ASSUME MailInv, [PostNext]_postVars PROVE [Next]_listVars
    OBVIOUS
<1>1. CASE UNCHANGED postVars
    BY <1>1 DEF postVars
<1>2. ASSUME NEW s \in Sender, NetworkSend(s) \/ (\E m \in Letter : CallSend(s, m))
      PROVE  UNCHANGED listVars
    BY <1>2 DEF NetworkSend, CallSend
<1>3. CASE SendStep \/ Poll \/ WorkerWaits
    BY <1>3 DEF SendStep, Poll, WorkerWaits
<1>4. CASE WorkerReceives
    <2>1. inbox \in Letter /\ To[inbox] \in Lists /\ Worker \in Thread
        BY <1>4, WokenFindsPacket, PostOfficeAssumption DEF WorkerReceives, Box
    <2>2. CallAppend(Worker, To[inbox], inbox)
        BY <1>4 DEF WorkerReceives
    <2> QED BY <2>1, <2>2 DEF Next, Letter
<1>5. ASSUME NEW r \in Receiver, Get(r) \/ GetReturns(r) PROVE Next
    <2>1. r \in Thread /\ Reads[r] \in Lists
        BY PostOfficeAssumption DEF Box
    <2>2. CallRemoveFront(r, Reads[r]) \/ TakeFront(r)
        BY <1>5 DEF Get, GetReturns
    <2> QED BY <2>1, <2>2 DEF Next
<1>6. ASSUME NEW t \in Thread, BoxStep(t) PROVE Next
    BY <1>6 DEF BoxStep, Next
<1> QED BY <1>1, <1>2, <1>3, <1>4, <1>5, <1>6 DEF PostNext

\* And a step of the network output, or leaves it.
LEMMA StepsOfOutput == [PostNext]_postVars => [OutP!Next]_(OutP!deviceVars)
<1> SUFFICES ASSUME [PostNext]_postVars PROVE [OutP!Next]_(OutP!deviceVars)
    OBVIOUS
<1>1. CASE UNCHANGED postVars
    BY <1>1 DEF postVars, out, OutP!deviceVars
<1>2. ASSUME NEW s \in Sender, NEW m \in Letter, CallSend(s, m) PROVE OutP!Next
    <2>1. OutP!Call(s, 1)
        BY <1>2 DEF CallSend, Out!Call, OutP!Call, Out!Move, OutP!Move
    <2> QED BY <2>1 DEF OutP!Next
<1>3. ASSUME NEW s \in Sender, NetworkSend(s) PROVE OutP!Next
    <2>1. OutP!Request(s)
        BY <1>3 DEF NetworkSend, Out!Request, OutP!Request, Out!Move, OutP!Move,
                    Out!P, OutP!P, Out!Available, OutP!Available
    <2> QED BY <2>1 DEF OutP!Next, OutP!Step
<1>4. CASE SendStep
    <2>1. OutP!CallBack \/ \E s \in Sender : OutP!Acquire(s) \/ OutP!Await(s) \/ OutP!Release(s)
        <3>1. Out!CallBack => OutP!CallBack
            BY DEF Out!CallBack, OutP!CallBack, Out!V, OutP!V
        <3>2. ASSUME NEW s \in Sender PROVE Out!Acquire(s) => OutP!Acquire(s)
            BY DEF Out!Acquire, OutP!Acquire, Out!Move, OutP!Move, Out!P, OutP!P,
                   Out!Available, OutP!Available, Out!Asleep, OutP!Asleep, Out!Elements, OutP!Elements
        <3>3. ASSUME NEW s \in Sender PROVE Out!Await(s) => OutP!Await(s)
            BY DEF Out!Await, OutP!Await, Out!Move, OutP!Move, Out!P, OutP!P,
                   Out!Available, OutP!Available, Out!Asleep, OutP!Asleep, Out!Elements, OutP!Elements
        <3>4. ASSUME NEW s \in Sender PROVE Out!Release(s) => OutP!Release(s)
            BY DEF Out!Release, OutP!Release, Out!Move, OutP!Move, Out!V, OutP!V
        <3> QED BY <1>4, <3>1, <3>2, <3>3, <3>4 DEF SendStep
    <2> QED BY <2>1 DEF OutP!Next, OutP!Step
<1>5. CASE Poll \/ WorkerWaits \/ WorkerReceives
    BY <1>5 DEF Poll, WorkerWaits, WorkerReceives, out, OutP!deviceVars
<1>6. ASSUME NEW r \in Receiver, Get(r) \/ GetReturns(r) PROVE UNCHANGED OutP!deviceVars
    BY <1>6 DEF Get, GetReturns, out, OutP!deviceVars
<1>7. ASSUME NEW t \in Thread, BoxStep(t) PROVE UNCHANGED OutP!deviceVars
    BY <1>7 DEF BoxStep, out, OutP!deviceVars
<1> QED BY <1>1, <1>2, <1>3, <1>4, <1>5, <1>6, <1>7 DEF PostNext

LEMMA InitPostInv == PostInit => PostInv
<1> SUFFICES ASSUME PostInit PROVE PostInv
    OBVIOUS
<1>1. ListInv
    BY InitListInv DEF PostInit
<1>2. OutP!Init
    BY DEF PostInit, Out!Init, OutP!Init, Out!NewSemaphore, OutP!NewSemaphore
<1>3. OutP!DeviceInv
    BY <1>2, OutP!InitDeviceInv
<1>4. MailInv
    <2>1. /\ messageAvailable \in Semaphores({Worker}) /\ messageAvailable.value = 0
          /\ Distinct(messageAvailable.queue)
        BY NewSemaphoreIs DEF PostInit
    <2>2. \A s \in Sender : sending[s] = "out"
        BY DEF PostInit, Out!Init
    <2> QED BY <2>1, <2>2 DEF PostInit, MailInv, WorkerFollowsBuffer
<1> QED BY <1>1, <1>3, <1>4 DEF PostInv

\* Nobody starts to send but by CallSend.
LEMMA NobodyStarts ==
    ASSUME OutP!TypeOK, SendStep \/ \E s \in Sender : NetworkSend(s)
    PROVE  \A s \in Sender : sending'[s] # "out" => sending[s] # "out"
<1>1. \/ sending' = sending
      \/ \E u \in Sender, p \in {"out", "acquiring", "inside", "waiting"} :
            sending[u] # "out" /\ sending' = [sending EXCEPT ![u] = p]
    <2>1. CASE Out!CallBack
        BY <2>1 DEF Out!CallBack
    <2>2. ASSUME NEW s \in Sender, Out!Acquire(s) \/ Out!Await(s) \/ Out!Release(s) \/ Out!Request(s)
          PROVE  \E p \in {"out", "acquiring", "inside", "waiting"} :
                    sending[s] # "out" /\ sending' = [sending EXCEPT ![s] = p]
        <3>1. CASE Out!Acquire(s)
            BY <3>1 DEF Out!Acquire, Out!Move
        <3>2. CASE Out!Await(s)
            BY <3>2 DEF Out!Await, Out!Move
        <3>3. CASE Out!Release(s)
            BY <3>3 DEF Out!Release, Out!Move
        <3>4. CASE Out!Request(s)
            BY <3>4 DEF Out!Request, Out!Move
        <3> QED BY <2>2, <3>1, <3>2, <3>3, <3>4
    <2> QED BY <2>1, <2>2 DEF SendStep, NetworkSend
<1> QED BY <1>1 DEF OutP!TypeOK

LEMMA NextMailInv ==
    ASSUME TypeOK, OutP!TypeOK, MailInv, [PostNext]_postVars
    PROVE  MailInv'
<1>0. messageAvailable.value \in Nat
    BY DEF MailInv, Semaphores
<1>1. CASE UNCHANGED postVars
    BY <1>1 DEF postVars, out, in, mail, MailInv, WorkerFollowsBuffer
<1>2. ASSUME NEW s \in Sender, NEW m \in Letter, CallSend(s, m) PROVE MailInv'
    <2>1. /\ letter' = [letter EXCEPT ![s] = m] /\ unsent' = unsent \ {m}
          /\ sending' = [sending EXCEPT ![s] = "acquiring"]
          /\ UNCHANGED <<in, socket, received>>
        BY <1>2 DEF CallSend, Out!Call, Out!Move
    <2>2. /\ letter' \in [Sender -> Letter \cup {None}]
          /\ \A u \in Sender : sending'[u] # "out" => letter'[u] \in Letter
        BY <2>1 DEF MailInv, OutP!TypeOK
    <2> QED BY <2>1, <2>2 DEF MailInv, WorkerFollowsBuffer, in
<1>3. ASSUME NEW s \in Sender, NetworkSend(s) PROVE MailInv'
    <2>1. letter[s] \in Letter
        BY <1>3 DEF NetworkSend, Out!Request, MailInv
    <2>2. \A u \in Sender : sending'[u] # "out" => letter[u] \in Letter
        BY <1>3, NobodyStarts DEF MailInv
    <2>3. socket' \in Seq(Letter)
        BY <1>3, <2>1 DEF NetworkSend, MailInv
    <2>4. UNCHANGED <<in, mail>>
        BY <1>3 DEF NetworkSend
    <2> QED BY <2>2, <2>3, <2>4 DEF MailInv, WorkerFollowsBuffer, in, mail
<1>4. CASE SendStep
    <2>1. \A u \in Sender : sending'[u] # "out" => letter[u] \in Letter
        BY <1>4, NobodyStarts DEF MailInv
    <2>2. UNCHANGED <<in, mail, socket>>
        BY <1>4 DEF SendStep
    <2> QED BY <2>1, <2>2 DEF MailInv, WorkerFollowsBuffer, in, mail
<1>5. CASE Poll
    <2>1. /\ inbox = None /\ socket # <<>> /\ inbox' = Head(socket) /\ socket' = Tail(socket)
          /\ messageAvailable' = V(messageAvailable) /\ UNCHANGED <<out, mail, worker>>
        BY <1>5 DEF Poll
    <2>2. inbox' \in Letter /\ socket' \in Seq(Letter)
        BY <2>1 DEF MailInv
    <2>3. inbox' # None
        BY <2>2, SynchListAssumption DEF Letter
    <2>4. /\ messageAvailable' \in Semaphores({Worker}) /\ Distinct(messageAvailable'.queue)
          /\ messageAvailable'.value = messageAvailable.value + 1
        BY <2>1, VWakes DEF MailInv
    <2>5. WorkerFollowsBuffer'
        <3>1. messageAvailable.value + (IF worker = "woken" THEN 1 ELSE 0) = 0
            BY <2>1 DEF MailInv, WorkerFollowsBuffer
        <3>2. messageAvailable.value = 0 /\ worker # "woken"
            BY <1>0, <3>1
        <3> QED BY <2>1, <2>3, <2>4, <3>2 DEF WorkerFollowsBuffer
    <2> QED BY <2>1, <2>2, <2>4, <2>5 DEF MailInv, out, mail
<1>6. CASE WorkerWaits
    <2>1. /\ worker = "loop" /\ Worker \notin Asleep(messageAvailable)
          /\ messageAvailable' = P(messageAvailable, Worker)
          /\ worker' = IF Available(messageAvailable) THEN "woken" ELSE "loop"
          /\ UNCHANGED <<out, mail, inbox, socket>>
        BY <1>6 DEF WorkerWaits
    <2>2. /\ messageAvailable' \in Semaphores({Worker}) /\ Distinct(messageAvailable'.queue)
          /\ messageAvailable'.value + (IF worker' = "woken" THEN 1 ELSE 0) = messageAvailable.value
        <3>1. CASE Available(messageAvailable)
            <4>1. /\ messageAvailable' \in Semaphores({Worker})
                  /\ messageAvailable'.value = messageAvailable.value - 1
                  /\ messageAvailable'.queue = messageAvailable.queue
                BY <2>1, <3>1, PTakes DEF MailInv
            <4>2. worker' = "woken"
                BY <2>1, <3>1
            <4> QED BY <1>0, <4>1, <4>2 DEF MailInv
        <3>2. CASE ~Available(messageAvailable)
            <4>1. /\ messageAvailable' \in Semaphores({Worker}) /\ Distinct(messageAvailable'.queue)
                  /\ messageAvailable'.value = 0 /\ messageAvailable.value = 0
                BY <2>1, <3>2, PSleeps DEF MailInv
            <4>2. worker' = "loop"
                BY <2>1, <3>2
            <4> QED BY <4>1, <4>2
        <3> QED BY <3>1, <3>2
    <2>3. messageAvailable.value = IF inbox = None THEN 0 ELSE 1
        BY <1>0, <2>1 DEF MailInv, WorkerFollowsBuffer
    <2>4. WorkerFollowsBuffer' /\ worker' \in {"loop", "woken"}
        BY <2>1, <2>2, <2>3 DEF WorkerFollowsBuffer
    <2> QED BY <2>1, <2>2, <2>4 DEF MailInv, out, mail
<1>7. CASE WorkerReceives
    <2>1. /\ worker = "woken" /\ inbox' = None /\ worker' = "loop"
          /\ UNCHANGED <<out, mail, messageAvailable, socket>>
        BY <1>7 DEF WorkerReceives
    <2>2. messageAvailable.value + 1 = IF inbox = None THEN 0 ELSE 1
        BY <2>1 DEF MailInv, WorkerFollowsBuffer
    <2>3. messageAvailable.value = 0
        BY <1>0, <2>2
    <2> QED BY <2>1, <2>3 DEF MailInv, WorkerFollowsBuffer, out, mail
<1>8. ASSUME NEW r \in Receiver, Get(r) PROVE MailInv'
    BY <1>8 DEF Get, MailInv, WorkerFollowsBuffer, out, in, mail
<1>9. ASSUME NEW r \in Receiver, GetReturns(r) PROVE MailInv'
    <2>1. /\ r \in Thread /\ on[r] \in Lists /\ list[on[r]] # <<>>
          /\ item' = [item EXCEPT ![r] = Head(list[on[r]])]
          /\ received' = received \cup {item'[r]} /\ UNCHANGED <<out, in, letter, unsent, socket>>
        BY <1>9, PostOfficeAssumption DEF GetReturns, TakeFront, TypeOK
    <2>2. item'[r] \in Letter
        BY <2>1 DEF TypeOK, Letter
    <2> QED BY <2>1, <2>2 DEF MailInv, WorkerFollowsBuffer, out, in
<1>10. ASSUME NEW t \in Thread, BoxStep(t) PROVE MailInv'
    BY <1>10 DEF BoxStep, MailInv, WorkerFollowsBuffer, out, in, mail
<1> QED BY <1>1, <1>2, <1>3, <1>4, <1>5, <1>6, <1>7, <1>8, <1>9, <1>10 DEF PostNext

LEMMA PostInvariant == PostSpec => []PostInv
<1>1. PostInv /\ [PostNext]_postVars => PostInv'
    <2> SUFFICES ASSUME PostInv, [PostNext]_postVars PROVE PostInv'
        OBVIOUS
    <2>1. ListInv'
        BY StepsOfBoxes, NextListInv DEF PostInv
    <2>2. OutP!DeviceInv'
        BY StepsOfOutput, OutP!NextDeviceInv DEF PostInv
    <2>3. MailInv'
        BY NextMailInv DEF PostInv, ListInv, OutP!DeviceInv
    <2> QED BY <2>1, <2>2, <2>3 DEF PostInv
<1> QED BY <1>1, InitPostInv, PTL DEF PostSpec

\* All the post office's variables keep their types.
THEOREM PostTypeCorrect == PostSpec => []PostTypeOK
<1>1. PostInv => PostTypeOK
    <2>1. OutP!TypeOK => Out!TypeOK
        BY DEF OutP!TypeOK, Out!TypeOK, OutP!Semaphores, Out!Semaphores
    <2> QED BY <2>1 DEF PostInv, ListInv, OutP!DeviceInv, MailInv, PostTypeOK
<1> QED BY <1>1, PostInvariant, PTL

\* The worker reads the network's buffer only when there is a packet in it.
THEOREM WorkerReadsPackets == PostSpec => []WorkerFollowsBuffer
<1>1. PostInv => WorkerFollowsBuffer
    BY DEF PostInv, MailInv
<1> QED BY <1>1, PostInvariant, PTL

\* The mailboxes of the post office are synchronised lists.
THEOREM PostOfficeUsesLists == PostSpec => Spec
<1>1. PostInit => Init
    BY DEF PostInit
<1>2. PostInv /\ [PostNext]_postVars => [Next]_listVars
    BY StepsOfBoxes DEF PostInv
<1> QED BY <1>1, <1>2, PostInvariant, PTL DEF PostSpec, Spec

\* So their locks exclude, and no wakeup is lost.
THEOREM MailboxesAreSafe == PostSpec => [](MutualExclusion /\ NoLostWakeup)
    BY PostOfficeUsesLists, LockExcludes, WakeupsReachWaiters, PTL

\* And the network output is used as SynchDevice describes: no assertion of it
\* fails and no sender is left asleep.
THEOREM OutputIsSafe == PostSpec => []OutputOK
<1>1. PostInit => OutP!Init
    BY DEF PostInit, Out!Init, OutP!Init, Out!NewSemaphore, OutP!NewSemaphore
<1>2. PostSpec => OutP!Spec
    BY <1>1, StepsOfOutput, PTL DEF PostSpec, OutP!Spec
<1>3. OutP!OneAtATime => Out!OneAtATime
    BY DEF OutP!OneAtATime, Out!OneAtATime, OutP!Owners, Out!Owners
<1>4. OutP!NobodyForgotten => Out!NobodyForgotten
    BY DEF OutP!NobodyForgotten, Out!NobodyForgotten, OutP!Asleep, Out!Asleep, OutP!Elements, Out!Elements
<1>5. OutP!OneAtATime /\ OutP!NobodyForgotten => OutputOK
    BY <1>3, <1>4 DEF OutputOK
<1> QED BY <1>2, <1>5, OutP!AssertionsHold, OutP!NobodyIsForgotten, PTL

-----------------------------------------------------------------------------
(* The letters of a box among those of a sequence                          *)

\* Induction on the numbers, by a least counterexample.
LEMMA LeastNumber ==
    ASSUME NEW T, T \subseteq Nat, T # {}
    PROVE  \E n \in T : \A m \in T : n <= m
<1>1. PICK n \in T : \A m \in T : <<m, n>> \notin OpToRel(<, Nat)
    BY NatLessThanWellFounded, WFMin
<1>2. \A m \in T : ~(m < n)
    BY <1>1 DEF OpToRel
<1> QED BY <1>2

\* g holds, for each prefix of s up to the n-th, the letters of it for box b.
Picks(b, s, n, g) ==
    /\ DOMAIN g = 0..n
    /\ g[0] = <<>>
    /\ \A i \in 1..n : g[i] = IF To[s[i]] = b THEN Append(g[i - 1], s[i]) ELSE g[i - 1]

LEMMA PicksExist ==
    ASSUME NEW b, NEW s \in Seq(Letter), NEW k \in 0..Len(s)
    PROVE  \E g : Picks(b, s, k, g)
<1> DEFINE T == { n \in 0..Len(s) : ~\E g : Picks(b, s, n, g) }
<1> SUFFICES ASSUME T # {} PROVE FALSE
    OBVIOUS
<1>0. Len(s) \in Nat
    OBVIOUS
<1>1. PICK n \in T : \A m \in T : n <= m
    <2>1. T \subseteq Nat
        BY <1>0
    <2> HIDE DEF T
    <2> QED BY <2>1, LeastNumber
<1>2. n \in 0..Len(s) /\ n \in Nat
    BY <1>0
<1>3. n # 0
    <2>1. Picks(b, s, 0, [i \in 0..0 |-> <<>>])
        BY DEF Picks
    <2> QED BY <2>1
<1>4. n - 1 \in 0..Len(s) /\ n - 1 \notin T
    BY <1>0, <1>1, <1>2, <1>3
<1>5. PICK g : Picks(b, s, n - 1, g)
    BY <1>4
<1> DEFINE h == [i \in 0..n |->
        IF i = n THEN IF To[s[n]] = b THEN Append(g[n - 1], s[n]) ELSE g[n - 1] ELSE g[i]]
<1>6. Picks(b, s, n, h)
    BY <1>2, <1>3, <1>5 DEF Picks
<1> QED BY <1>6

LEMMA AppendToConcat ==
    ASSUME NEW s \in Seq(Letter), NEW t \in Seq(Letter), NEW x \in Letter
    PROVE  Append(s \o t, x) = s \o Append(t, x)
<1>1. /\ Append(s \o t, x) \in Seq(Letter) /\ s \o Append(t, x) \in Seq(Letter)
      /\ Len(Append(s \o t, x)) = Len(s \o Append(t, x))
    BY ConcatProperties
<1>2. ASSUME NEW i \in 1..Len(Append(s \o t, x))
      PROVE  Append(s \o t, x)[i] = (s \o Append(t, x))[i]
    OBVIOUS
<1> QED BY <1>1, <1>2, SeqEqual

\* The first n letters of s are those of t behind the k-th.
Behind(k, n, l, s, t) == l = k + n /\ \A i \in 1..n, j \in 1..l : j = k + i => t[j] = s[i]

\* r is p and, behind it, q.
Joins(p, q, r) == q \in Seq(Letter) /\ r = p \o q

\* A sequence and the same behind others.
LEMMA PicksBehind ==
    ASSUME NEW b, NEW s \in Seq(Letter), NEW t \in Seq(Letter), NEW k \in Nat, NEW n \in 0..Len(s),
           NEW l \in 0..Len(t), Behind(k, n, l, s, t),
           NEW g, Picks(b, s, n, g), NEW h, Picks(b, t, l, h), h[k] \in Seq(Letter)
    PROVE  \A i \in 0..n, j \in 0..l : j = k + i => Joins(h[k], g[i], h[j])
<1> USE DEF Behind, Joins
<1> DEFINE T == { i \in 0..n : ~(g[i] \in Seq(Letter) /\ h[k + i] = h[k] \o g[i]) }
<1> SUFFICES ASSUME T # {} PROVE FALSE
    OBVIOUS
<1>0. n \in Nat /\ Len(s) \in Nat /\ Len(t) \in Nat /\ n <= Len(s)
    OBVIOUS
<1>1. PICK i \in T : \A j \in T : i <= j
    <2>1. T \subseteq Nat
        <3>1. 0..n \subseteq Nat
            BY <1>0
        <3> QED BY <3>1, Zenon
    <2> HIDE DEF T
    <2> QED BY <2>1, LeastNumber
<1>2. i \in 0..n /\ i \in Nat
    BY <1>0
<1>3. i # 0
    <2>1. g[0] = <<>> /\ <<>> \in Seq(Letter) /\ h[k + 0] = h[k]
        BY DEF Picks
    <2>2. h[k + 0] = h[k] \o g[0]
        BY <2>1, ConcatEmptySeq
    <2> QED BY <1>1, <2>1, <2>2
<1>4. i - 1 \in 0..n /\ i - 1 \notin T
    <2>1. i - 1 \in 0..n /\ ~(i <= i - 1)
        BY <1>0, <1>2, <1>3
    <2> HIDE DEF T
    <2> QED BY <1>1, <2>1
<1>5. g[i - 1] \in Seq(Letter) /\ h[k + (i - 1)] = h[k] \o g[i - 1]
    BY <1>4
<1>6. i \in 1..n /\ k + i \in 1..l /\ k + (i - 1) = (k + i) - 1
    BY <1>0, <1>2, <1>3
<1>7. s[i] \in Letter /\ t[k + i] = s[i]
    BY <1>0, <1>6
<1>8. g[i] = IF To[s[i]] = b THEN Append(g[i - 1], s[i]) ELSE g[i - 1]
    BY <1>6 DEF Picks
<1>9. h[k + i] = IF To[s[i]] = b THEN Append(h[k] \o g[i - 1], s[i]) ELSE h[k] \o g[i - 1]
    <2>1. h[k + i] = IF To[t[k + i]] = b THEN Append(h[(k + i) - 1], t[k + i]) ELSE h[(k + i) - 1]
        BY <1>6 DEF Picks
    <2>2. h[(k + i) - 1] = h[k] \o g[i - 1]
        BY <1>5, <1>6
    <2> QED BY <1>7, <2>1, <2>2
<1>10. Append(h[k] \o g[i - 1], s[i]) = h[k] \o Append(g[i - 1], s[i])
    <2>1. g[i - 1] \in Seq(Letter) /\ s[i] \in Letter
        BY <1>5, <1>7
    <2> QED BY <2>1, AppendToConcat
<1>11. Append(g[i - 1], s[i]) \in Seq(Letter)
    BY <1>5, <1>7
<1>12. g[i] \in Seq(Letter) /\ h[k + i] = h[k] \o g[i]
    BY <1>5, <1>8, <1>9, <1>10, <1>11
<1> QED BY <1>1, <1>12

LEMMA PicksOfForBox ==
    ASSUME NEW b, NEW s \in Seq(Letter)
    PROVE  \E g : Picks(b, s, Len(s), g) /\ ForBox(b, s) = g[Len(s)]
<1> DEFINE Is(g) == g = [i \in 0..Len(s) |->
            IF i = 0 THEN <<>>
            ELSE IF To[s[i]] = b THEN Append(g[i - 1], s[i])
            ELSE g[i - 1]]
<1>0. Len(s) \in Nat
    OBVIOUS
<1>1. PICK f : Picks(b, s, Len(s), f)
    <2>1. Len(s) \in 0..Len(s)
        BY <1>0
    <2> QED BY <2>1, PicksExist
<1> DEFINE e == [i \in 0..Len(s) |-> f[i]]
<1>2. Is(e)
    <2>1. ASSUME NEW i \in 0..Len(s)
          PROVE  e[i] = IF i = 0 THEN <<>>
                        ELSE IF To[s[i]] = b THEN Append(e[i - 1], s[i]) ELSE e[i - 1]
        <3>1. i = 0 \/ (i \in 1..Len(s) /\ i - 1 \in 0..Len(s))
            BY <1>0
        <3> QED BY <1>1, <3>1 DEF Picks
    <2> QED BY <2>1
<1>3. Is(CHOOSE g : Is(g))
    BY <1>2
<1>4. ForBox(b, s) = (CHOOSE g : Is(g))[Len(s)]
    BY DEF ForBox
<1> DEFINE c == CHOOSE g : Is(g)
<1> HIDE DEF c
<1>5. Picks(b, s, Len(s), c)
    <2>1. c = [i \in 0..Len(s) |->
            IF i = 0 THEN <<>>
            ELSE IF To[s[i]] = b THEN Append(c[i - 1], s[i])
            ELSE c[i - 1]]
        BY <1>3 DEF c
    <2>2. DOMAIN c = 0..Len(s)
        BY <2>1
    <2>3. ASSUME NEW i \in 0..Len(s)
          PROVE  c[i] = IF i = 0 THEN <<>>
                        ELSE IF To[s[i]] = b THEN Append(c[i - 1], s[i]) ELSE c[i - 1]
        BY <2>1
    <2>4. c[0] = <<>>
        BY <1>0, <2>3
    <2>5. \A i \in 1..Len(s) : c[i] = IF To[s[i]] = b THEN Append(c[i - 1], s[i]) ELSE c[i - 1]
        BY <1>0, <2>3
    <2> QED BY <2>2, <2>4, <2>5 DEF Picks
<1> QED BY <1>4, <1>5 DEF c

\* The letters for a box among none, and among others and one more.
LEMMA ForBoxEmpty ==
    ASSUME NEW b
    PROVE  ForBox(b, <<>>) = <<>>
<1>1. <<>> \in Seq(Letter) /\ Len(<<>>) = 0
    OBVIOUS
<1>2. PICK g : Picks(b, <<>>, 0, g) /\ ForBox(b, <<>>) = g[0]
    BY <1>1, PicksOfForBox
<1> QED BY <1>2 DEF Picks

LEMMA ForBoxType ==
    ASSUME NEW b, NEW s \in Seq(Letter)
    PROVE  ForBox(b, s) \in Seq(Letter)
<1>1. PICK g : Picks(b, s, Len(s), g) /\ ForBox(b, s) = g[Len(s)]
    BY PicksOfForBox
<1>2. /\ 0 \in Nat /\ Len(s) \in 0..Len(s) /\ 0 + Len(s) = Len(s) /\ Len(s) <= Len(s)
      /\ \A i \in 1..Len(s) : 0 + i = i
    OBVIOUS
<1>3. g[0] \in Seq(Letter)
    BY <1>1 DEF Picks
<1>4. \A i \in 0..Len(s) : g[i] \in Seq(Letter)
    <2> DEFINE n == Len(s)
    <2>1. n \in 0..Len(s) /\ Picks(b, s, n, g) /\ 0 \in Nat /\ n = 0 + n
        BY <1>1, <1>2
    <2>2. Behind(0, n, n, s, s)
        BY <1>2 DEF Behind
    <2> HIDE DEF n
    <2>3. \A i \in 0..n, j \in 0..n : j = 0 + i => Joins(g[0], g[i], g[j])
        BY <1>3, <2>1, <2>2, PicksBehind
    <2>4. \A p, q, r : Joins(p, q, r) => q \in Seq(Letter)
        BY DEF Joins
    <2> QED BY <1>2, <2>3, <2>4 DEF n
<1> QED BY <1>1, <1>2, <1>4

LEMMA ForBoxAppend ==
    ASSUME NEW b, NEW s \in Seq(Letter), NEW m \in Letter
    PROVE  ForBox(b, Append(s, m)) = IF To[m] = b THEN Append(ForBox(b, s), m) ELSE ForBox(b, s)
<1> DEFINE t == Append(s, m)
           n == Len(s)
<1>1. /\ t \in Seq(Letter) /\ n \in Nat /\ Len(t) = n + 1 /\ t[n + 1] = m
      /\ \A i \in 1..n : t[0 + i] = s[i]
    OBVIOUS
<1> HIDE DEF t
<1>2. PICK g : Picks(b, s, n, g) /\ ForBox(b, s) = g[n]
    BY PicksOfForBox
<1>3. PICK h : Picks(b, t, n + 1, h) /\ ForBox(b, t) = h[n + 1]
    BY <1>1, PicksOfForBox
<1> DEFINE f == [i \in 0..n |-> h[i]]
<1>4. Picks(b, t, n, f)
    BY <1>1, <1>3 DEF Picks
<1>5. f[0] = <<>> /\ f[0] \in Seq(Letter)
    <2> HIDE DEF f
    <2> QED BY <1>4 DEF Picks
<1>6. f[n] = f[0] \o g[n] /\ g[n] \in Seq(Letter)
    <2>1. n \in 0..Len(s) /\ n \in 0..Len(t) /\ 0 \in Nat /\ n = 0 + n
        BY <1>1
    <2>2. Behind(0, n, n, s, t)
        BY <1>1 DEF Behind
    <2> HIDE DEF f, n
    <2>3. \A i \in 0..n, j \in 0..n : j = 0 + i => Joins(f[0], g[i], f[j])
        BY <1>1, <1>2, <1>4, <1>5, <2>1, <2>2, PicksBehind
    <2>4. n \in 0..n
        BY <1>1
    <2> QED BY <2>1, <2>3, <2>4 DEF Joins
<1>7. f[n] = g[n]
    BY <1>5, <1>6, ConcatEmptySeq
<1>8. h[n] = g[n] /\ n + 1 \in 1..(n + 1) /\ (n + 1) - 1 = n
    BY <1>1, <1>7 DEF f
<1> QED BY <1>1, <1>2, <1>3, <1>8 DEF Picks, t

\* And among one and others.
LEMMA ForBoxFirst ==
    ASSUME NEW b, NEW s \in Seq(Letter), NEW m \in Letter
    PROVE  ForBox(b, <<m>> \o s) = (IF To[m] = b THEN <<m>> ELSE <<>>) \o ForBox(b, s)
<1> DEFINE t == <<m>> \o s
           n == Len(s)
<1>1. /\ t \in Seq(Letter) /\ n \in Nat /\ Len(t) = 1 + n /\ t[1] = m
      /\ \A i \in 1..n : t[1 + i] = s[i]
    OBVIOUS
<1> HIDE DEF t
<1>2. PICK g : Picks(b, s, n, g) /\ ForBox(b, s) = g[n]
    BY PicksOfForBox
<1>3. PICK h : Picks(b, t, 1 + n, h) /\ ForBox(b, t) = h[1 + n]
    BY <1>1, PicksOfForBox
<1>4. h[1] = IF To[m] = b THEN <<m>> ELSE <<>>
    <2>1. 1 \in 1..(1 + n)
        BY <1>1
    <2>2. h[0] = <<>> /\ h[1] = IF To[t[1]] = b THEN Append(h[1 - 1], t[1]) ELSE h[1 - 1]
        BY <1>3, <2>1 DEF Picks
    <2>3. 1 - 1 = 0 /\ Append(<<>>, m) = <<m>>
        OBVIOUS
    <2>4. h[1 - 1] = <<>>
        BY <2>2, <2>3
    <2> QED BY <1>1, <2>2, <2>3, <2>4
<1>5. h[1] \in Seq(Letter) /\ n \in 0..n
    BY <1>1, <1>4
<1>6. h[1 + n] = h[1] \o g[n]
    <2> DEFINE l == 1 + n
    <2>1. n \in 0..Len(s) /\ l \in 0..Len(t) /\ 1 \in Nat /\ l = 1 + n
        BY <1>1
    <2>2. Behind(1, n, l, s, t)
        BY <1>1 DEF Behind
    <2>3. Picks(b, t, l, h)
        BY <1>3
    <2> HIDE DEF l, n
    <2>4. \A i \in 0..n, j \in 0..l : j = 1 + i => Joins(h[1], g[i], h[j])
        <3>1. PICK k \in Nat : k = 1
            OBVIOUS
        <3>2. t \in Seq(Letter) /\ Behind(k, n, l, s, t) /\ h[k] \in Seq(Letter)
            BY <1>1, <1>5, <2>2, <3>1
        <3>3. \A i \in 0..n, j \in 0..l : j = k + i => Joins(h[k], g[i], h[j])
            BY <1>2, <2>1, <2>3, <3>2, PicksBehind
        <3> QED BY <3>1, <3>3
    <2>5. n \in 0..n /\ l \in 0..l
        BY <1>1, <2>1
    <2> QED BY <2>1, <2>4, <2>5 DEF Joins
<1> QED BY <1>2, <1>3, <1>4, <1>6 DEF t

-----------------------------------------------------------------------------
(* Who does what                                                           *)

\* A sender has a letter of its own, that nobody else sends, and one packet
\* to send until it has sent it.
SendersInv ==
    \A s \in Sender :
        /\ sending[s] # "out" => /\ letter[s] \in Letter \ unsent
                                 /\ From[letter[s]] = s
        /\ sending[s] = "acquiring" => left[s] = 1
        /\ sending[s] = "waiting" => left[s] = 0
        /\ left[s] <= 1

\* The worker appends and the receivers remove.
RolesInv ==
    /\ call[Worker] = "append"
    /\ \A r \in Receiver : at[r] # "out" => call[r] = "remove"

HasToSend(s) == sending[s] = "acquiring" \/ (sending[s] = "inside" /\ left[s] = 1)

\* A sender has one letter to send at a time.
LEMMA CallSendKeeps ==
    ASSUME OutP!TypeOK, MailInv, SendersInv, NEW s \in Sender, NEW m \in Letter, CallSend(s, m)
    PROVE  SendersInv' /\ NotSent' = NotSent
<1>1. /\ m \in unsent /\ From[m] = s /\ sending[s] = "out"
      /\ letter' = [letter EXCEPT ![s] = m] /\ unsent' = unsent \ {m}
      /\ sending' = [sending EXCEPT ![s] = "acquiring"]
      /\ left' = [left EXCEPT ![s] = 1]
    BY DEF CallSend, Out!Call, Out!Move
<1>2. /\ letter \in [Sender -> Letter \cup {None}] /\ left \in [Sender -> Nat]
      /\ sending \in [Sender -> {"out", "acquiring", "inside", "waiting"}]
    BY DEF MailInv, OutP!TypeOK
<1>3. SendersInv'
    <2> SUFFICES ASSUME NEW u \in Sender
                 PROVE  /\ sending'[u] # "out" => /\ letter'[u] \in Letter \ unsent'
                                                  /\ From[letter'[u]] = u
                        /\ sending'[u] = "acquiring" => left'[u] = 1
                        /\ sending'[u] = "waiting" => left'[u] = 0
                        /\ left'[u] <= 1
        BY DEF SendersInv
    <2>1. CASE u = s
        BY <1>1, <1>2, <2>1
    <2>2. CASE u # s
        BY <1>1, <1>2, <2>2 DEF SendersInv
    <2> QED BY <2>1, <2>2
<1>4. \A u \in Sender : HasToSend(u)' <=> HasToSend(u) \/ u = s
    BY <1>1, <1>2 DEF HasToSend
<1>5. ~HasToSend(s)
    BY <1>1 DEF HasToSend
<1>6. ASSUME NEW x PROVE x \in NotSent' <=> x \in NotSent
    <2>1. x \in NotSent <=> x \in unsent \/ \E u \in Sender : HasToSend(u) /\ letter[u] = x
        BY DEF NotSent, HasToSend
    <2>2. x \in NotSent' <=> x \in unsent' \/ \E u \in Sender : HasToSend(u)' /\ letter'[u] = x
        BY DEF NotSent, HasToSend
    <2>3. (\E u \in Sender : HasToSend(u)' /\ letter'[u] = x)
            <=> x = m \/ \E u \in Sender : HasToSend(u) /\ letter[u] = x
        BY <1>1, <1>2, <1>4, <1>5
    <2> QED BY <1>1, <2>1, <2>2, <2>3
<1> QED BY <1>3, <1>6

\* The network's Send sends the sender's letter, which is no more to be sent.
LEMMA NetworkSendSends ==
    ASSUME OutP!TypeOK, MailInv, SendersInv, NEW s \in Sender, NetworkSend(s)
    PROVE  /\ SendersInv'
           /\ letter[s] \in Letter /\ letter[s] \in NotSent
           /\ NotSent' = NotSent \ {letter[s]}
<1>1. /\ sending[s] = "inside" /\ left[s] > 0
      /\ left' = [left EXCEPT ![s] = left[s] - 1]
      /\ UNCHANGED <<letter, unsent>>
    BY DEF NetworkSend, Out!Request, mail
<1>2. PICK p \in {"inside", "waiting"} : sending' = [sending EXCEPT ![s] = p]
    BY DEF NetworkSend, Out!Request, Out!Move
<1>3. /\ left \in [Sender -> Nat]
      /\ sending \in [Sender -> {"out", "acquiring", "inside", "waiting"}]
    BY DEF OutP!TypeOK
<1>4. left[s] = 1 /\ left'[s] = 0 /\ \A u \in Sender : u # s => left'[u] = left[u]
    BY <1>1, <1>3 DEF SendersInv
<1>5. sending'[s] = p /\ \A u \in Sender : u # s => sending'[u] = sending[u]
    BY <1>2, <1>3
<1>6. SendersInv'
    BY <1>1, <1>2, <1>4, <1>5 DEF SendersInv
<1>7. HasToSend(s) /\ \A u \in Sender : HasToSend(u)' <=> HasToSend(u) /\ u # s
    BY <1>1, <1>2, <1>4, <1>5 DEF HasToSend
<1>8. /\ letter[s] \in Letter \ unsent
      /\ \A u \in Sender : HasToSend(u) /\ letter[u] = letter[s] => u = s
    BY <1>1 DEF SendersInv, HasToSend
<1>9. ASSUME NEW x PROVE x \in NotSent' <=> x \in NotSent /\ x # letter[s]
    <2>1. x \in NotSent <=> x \in unsent \/ \E u \in Sender : HasToSend(u) /\ letter[u] = x
        BY DEF NotSent, HasToSend
    <2>2. x \in NotSent' <=> x \in unsent' \/ \E u \in Sender : HasToSend(u)' /\ letter'[u] = x
        BY DEF NotSent, HasToSend
    <2> QED BY <1>1, <1>7, <1>8, <2>1, <2>2
<1>10. letter[s] \in NotSent
    BY <1>7 DEF NotSent, HasToSend
<1> QED BY <1>6, <1>8, <1>9, <1>10

\* The rest of Send neither takes a letter nor gives one back.
LEMMA SendStepKeeps ==
    ASSUME OutP!TypeOK, SendersInv, SendStep
    PROVE  SendersInv' /\ NotSent' = NotSent
<1>0. /\ left \in [Sender -> Nat]
      /\ sending \in [Sender -> {"out", "acquiring", "inside", "waiting"}]
    BY DEF OutP!TypeOK
<1>1. left' = left /\ UNCHANGED <<letter, unsent>>
    BY DEF SendStep, Out!CallBack, Out!Acquire, Out!Await, Out!Release, mail
<1>2. \A u \in Sender :
        \/ sending'[u] = sending[u]
        \/ sending[u] = "acquiring" /\ sending'[u] = "inside"
        \/ sending[u] = "waiting" /\ sending'[u] = "inside"
        \/ sending[u] = "inside" /\ left[u] = 0 /\ sending'[u] = "out"
    <2>1. CASE Out!CallBack
        BY <2>1 DEF Out!CallBack
    <2>2. ASSUME NEW s \in Sender, Out!Acquire(s) PROVE <1>2
        BY <1>0, <2>2 DEF Out!Acquire, Out!Move
    <2>3. ASSUME NEW s \in Sender, Out!Await(s) PROVE <1>2
        BY <1>0, <2>3 DEF Out!Await, Out!Move
    <2>4. ASSUME NEW s \in Sender, Out!Release(s) PROVE <1>2
        BY <1>0, <2>4 DEF Out!Release, Out!Move
    <2> QED BY <2>1, <2>2, <2>3, <2>4 DEF SendStep
<1>3. SendersInv'
    BY <1>1, <1>2 DEF SendersInv
<1>4. \A u \in Sender : HasToSend(u)' <=> HasToSend(u)
    BY <1>1, <1>2 DEF HasToSend, SendersInv
<1>5. NotSent' = NotSent
    <2>1. NotSent = unsent \cup { letter[s] : s \in { u \in Sender : HasToSend(u) } }
        BY DEF NotSent, HasToSend
    <2>2. NotSent' = unsent' \cup { letter'[s] : s \in { u \in Sender : HasToSend(u)' } }
        BY DEF NotSent, HasToSend
    <2>3. { u \in Sender : HasToSend(u)' } = { u \in Sender : HasToSend(u) }
        BY <1>4
    <2> QED BY <1>1, <2>1, <2>2, <2>3
<1> QED BY <1>3, <1>5

LEMMA SendersRest ==
    ASSUME UNCHANGED <<sending, left, letter, unsent>>
    PROVE  /\ SendersInv => SendersInv'
           /\ NotSent' = NotSent
    BY DEF SendersInv, NotSent

-----------------------------------------------------------------------------
(* Letters on the way                                                      *)

\* What a step of a mailbox's list does with who is where, and in which call.
LEMMA NextRolesInv ==
    ASSUME TypeOK, MailInv, RolesInv, [PostNext]_postVars
    PROVE  RolesInv'
<1>0. /\ call \in [Thread -> {"append", "remove", "apply"}]
      /\ at \in [Thread -> {"out", "acquiring", "inside", "releasing", "waiting"}]
      /\ Receiver \subseteq Thread /\ Worker \in Thread /\ Worker \notin Receiver
    BY PostOfficeAssumption DEF TypeOK
<1>1. CASE UNCHANGED <<at, call>>
    BY <1>1 DEF RolesInv
<1>2. CASE WorkerReceives
    BY <1>0, <1>2 DEF WorkerReceives, CallAppend, Call, Move, RolesInv
<1>3. ASSUME NEW r \in Receiver, Get(r) PROVE RolesInv'
    BY <1>0, <1>3 DEF Get, CallRemoveFront, Call, Move, RolesInv
<1>4. ASSUME NEW r \in Receiver, GetReturns(r) PROVE RolesInv'
    BY <1>0, <1>4 DEF GetReturns, TakeFront, Move, RolesInv
<1>5. ASSUME NEW t \in Thread, BoxStep(t) PROVE RolesInv'
    <2>1. call' = call /\ at[t] # "out" /\ \E p : at' = [at EXCEPT ![t] = p]
        BY <1>5 DEF BoxStep, Step, Acquire, AppendUnseen, AppendSignals, Release, Wait,
                    AwaitSignal, Inside, Move
    <2> QED BY <1>0, <2>1 DEF RolesInv
<1>6. CASE UNCHANGED listVars
    BY <1>1, <1>6 DEF listVars
<1>7. SendStep \/ Poll \/ WorkerWaits => UNCHANGED listVars
    BY DEF SendStep, Poll, WorkerWaits
<1>8. (\E s \in Sender : NetworkSend(s) \/ \E m \in Letter : CallSend(s, m)) => UNCHANGED listVars
    BY DEF NetworkSend, CallSend
<1>9. UNCHANGED postVars => UNCHANGED listVars
    BY DEF postVars
<1> QED BY <1>2, <1>3, <1>4, <1>5, <1>6, <1>7, <1>8, <1>9 DEF PostNext

\* Letters behind a box's list are letters.
LEMMA TransitIs ==
    ASSUME ListInv, MailInv, NEW b \in Box
    PROVE  /\ list[b] \in Seq(Letter) /\ Carried(b) \in Seq(Letter)
           /\ Buffered \in Seq(Letter) /\ Buffered \o socket \in Seq(Letter)
           /\ ForBox(b, Buffered \o socket) \in Seq(Letter)
           /\ Transit[b] = list[b] \o Carried(b) \o ForBox(b, Buffered \o socket)
<1>1. list[b] \in Seq(Letter)
    BY DEF ListInv, TypeOK, Box, Letter
<1>2. Carried(b) \in Seq(Letter)
    <2>1. call[Worker] = "append" /\ at[Worker] \in {"acquiring", "inside"} => item[Worker] \in Letter
        BY PostOfficeAssumption DEF ListInv, ThreadInv, Letter
    <2> QED BY <2>1 DEF Carried
<1>3. Buffered \in Seq(Letter) /\ socket \in Seq(Letter)
    BY DEF Buffered, MailInv
<1>4. Buffered \o socket \in Seq(Letter)
    BY <1>3, ConcatProperties
<1>5. ForBox(b, Buffered \o socket) \in Seq(Letter)
    BY <1>4, ForBoxType
<1> QED BY <1>1, <1>2, <1>3, <1>4, <1>5 DEF Transit

\* A step that keeps each part of the way.
LEMMA TransitKept ==
    ASSUME list' = list, \A b \in Box : Carried(b)' = Carried(b),
           (Buffered \o socket)' = Buffered \o socket
    PROVE  Transit' = Transit
<1>1. ASSUME NEW b \in Box
      PROVE  ForBox(b, Buffered \o socket)' = ForBox(b, Buffered \o socket)
    OBVIOUS
<1> QED BY <1>1 DEF Transit

\* What the worker carries stays with it while others work.
LEMMA CarriedKept ==
    ASSUME call'[Worker] = call[Worker], on'[Worker] = on[Worker], item'[Worker] = item[Worker],
           at'[Worker] \in {"acquiring", "inside"} <=> at[Worker] \in {"acquiring", "inside"}
    PROVE  \A b \in Box : Carried(b)' = Carried(b)
    BY DEF Carried

\* The network's buffer takes the first packet of the socket.
LEMMA PollKeepsTransit ==
    ASSUME MailInv, Poll
    PROVE  Transit' = Transit
<1>1. /\ inbox = None /\ socket # <<>> /\ inbox' = Head(socket) /\ socket' = Tail(socket)
      /\ UNCHANGED listVars
    BY DEF Poll
<1>2. inbox' \in Letter /\ socket \in Seq(Letter) /\ inbox' # None
    BY <1>1, SynchListAssumption DEF MailInv, Letter
<1>3. Buffered = <<>> /\ Buffered' = <<Head(socket)>>
    BY <1>1, <1>2 DEF Buffered
<1>4. <<Head(socket)>> \o Tail(socket) = socket /\ <<>> \o socket = socket
    BY <1>1, <1>2
<1>5. (Buffered \o socket)' = Buffered \o socket
    BY <1>1, <1>3, <1>4
<1>6. \A b \in Box : Carried(b)' = Carried(b)
    BY <1>1, CarriedKept DEF listVars
<1> QED BY <1>1, <1>5, <1>6, TransitKept DEF listVars, lists

\* The worker takes the packet out of the buffer, for its box.
LEMMA WorkerReceivesKeepsTransit ==
    ASSUME ListInv, MailInv, WorkerReceives
    PROVE  Transit' = Transit
<1> DEFINE m == inbox
<1>1. m \in Letter /\ To[m] \in Box
    BY WokenFindsPacket, PostOfficeAssumption DEF WorkerReceives
<1>2. /\ at[Worker] = "out" /\ at'[Worker] = "acquiring"
      /\ call'[Worker] = "append" /\ on'[Worker] = To[m] /\ item'[Worker] = m
      /\ list' = list /\ socket' = socket /\ inbox' = None
    BY PostOfficeAssumption DEF WorkerReceives, CallAppend, Call, Move, ListInv, TypeOK, lists
<1>3. m # None
    BY <1>1, SynchListAssumption DEF Letter
<1>4. socket \in Seq(Letter)
    BY DEF MailInv
<1>5. Buffered \o socket = <<m>> \o socket /\ (Buffered \o socket)' = socket
    <2>1. Buffered = <<m>> /\ Buffered' = <<>>
        BY <1>2, <1>3 DEF Buffered
    <2>2. <<>> \o socket = socket
        BY <1>4
    <2> QED BY <1>2, <2>1, <2>2
<1>6. ASSUME NEW b \in Box
      PROVE  list[b] \o Carried(b) \o ForBox(b, Buffered \o socket)
                = (list[b] \o Carried(b) \o ForBox(b, Buffered \o socket))'
    <2> DEFINE c == IF To[m] = b THEN <<m>> ELSE <<>>
               f == ForBox(b, socket)
               l == list[b]
    <2>1. l \in Seq(Letter) /\ c \in Seq(Letter) /\ f \in Seq(Letter)
        BY <1>1, <1>4, TransitIs, ForBoxType
    <2>2. Carried(b) = <<>> /\ Carried(b)' = c
        BY <1>2 DEF Carried
    <2>3. ForBox(b, Buffered \o socket) = c \o f
        <3>1. ForBox(b, <<m>> \o socket) = c \o f
            BY <1>1, <1>4, ForBoxFirst
        <3> QED BY <1>5, <3>1
    <2>4. ForBox(b, Buffered \o socket)' = f
        BY <1>5
    <2> HIDE DEF c, f, l
    <2>5. l \o <<>> = l
        BY <2>1, ConcatEmptySeq
    <2>6. (l \o c) \o f = l \o (c \o f)
        BY <2>1, ConcatAssociative
    <2> USE DEF l
    <2> QED BY <1>2, <2>2, <2>3, <2>4, <2>5, <2>6
<1> QED BY <1>6 DEF Transit

\* The network takes a letter: it is the last on the way to its box.
LEMMA NetworkSendAppends ==
    ASSUME ListInv, MailInv, NEW s \in Sender, NetworkSend(s), letter[s] \in Letter,
           socket' = Append(socket, letter[s])
    PROVE  Transit' = [Transit EXCEPT ![To[letter[s]]] = Append(@, letter[s])]
<1> DEFINE m == letter[s]
           q == Buffered \o socket
<1>1. UNCHANGED <<listVars, inbox>>
    BY DEF NetworkSend, in
<1>2. Buffered \in Seq(Letter) /\ socket \in Seq(Letter) /\ q \in Seq(Letter)
    <2>1. Buffered \in Seq(Letter) /\ socket \in Seq(Letter)
        BY DEF Buffered, MailInv
    <2> QED BY <2>1, ConcatProperties
<1>3. q' = Append(q, m)
    <2>1. Append(Buffered \o socket, m) = Buffered \o Append(socket, m)
        BY <1>2, AppendToConcat
    <2>2. Buffered' = Buffered
        BY <1>1 DEF Buffered
    <2> QED BY <2>1, <2>2
<1>4. To[m] \in Box
    BY PostOfficeAssumption
<1>5. ASSUME NEW b \in Box
      PROVE  Transit'[b] = IF b = To[m] THEN Append(Transit[b], m) ELSE Transit[b]
    <2> DEFINE c == list[b] \o Carried(b)
               f == ForBox(b, q)
    <2>1. c \in Seq(Letter) /\ f \in Seq(Letter) /\ Transit[b] = c \o f
        BY TransitIs, ConcatProperties
    <2>2. ForBox(b, q)' = ForBox(b, Append(q, m))
        BY <1>3
    <2>3. Transit'[b] = c \o ForBox(b, q)'
        <3>1. Transit'[b] = (list[b] \o Carried(b) \o ForBox(b, q))'
            BY DEF Transit
        <3>2. list'[b] = list[b] /\ Carried(b)' = Carried(b)
            BY <1>1, CarriedKept DEF listVars, lists
        <3> QED BY <3>1, <3>2
    <2>4. ForBox(b, Append(q, m)) = IF To[m] = b THEN Append(f, m) ELSE f
        BY <1>2, ForBoxAppend
    <2> HIDE DEF c, f
    <2>5. c \o Append(f, m) = Append(c \o f, m)
        BY <2>1, AppendToConcat
    <2> QED BY <2>1, <2>2, <2>3, <2>4, <2>5
<1>6. DOMAIN Transit = Box /\ DOMAIN Transit' = Box /\ Transit' = [b \in Box |-> Transit'[b]]
    BY DEF Transit
<1> QED BY <1>4, <1>5, <1>6

LEMMA HeadTailConcat ==
    ASSUME NEW s \in Seq(Letter), NEW t \in Seq(Letter), s # <<>>
    PROVE  /\ s \o t \in Seq(Letter) /\ s \o t # <<>>
           /\ Head(s \o t) = Head(s)
           /\ Tail(s \o t) = Tail(s) \o t
<1> DEFINE u == s \o t
<1>1. /\ Len(s) \in Nat /\ Len(s) > 0 /\ Len(t) \in Nat
      /\ Tail(s) \in Seq(Letter) /\ Len(Tail(s)) = Len(s) - 1
    OBVIOUS
<1>2. /\ u \in Seq(Letter) /\ Len(u) = Len(s) + Len(t)
      /\ \A i \in 1..Len(s) + Len(t) : u[i] = IF i <= Len(s) THEN s[i] ELSE t[i - Len(s)]
    BY ConcatProperties
<1>3. u # <<>> /\ Head(u) = Head(s)
    BY <1>1, <1>2
<1>4. /\ Tail(u) \in Seq(Letter) /\ Tail(s) \o t \in Seq(Letter)
      /\ Len(Tail(u)) = Len(Tail(s) \o t)
    OBVIOUS
<1>5. ASSUME NEW i \in 1..Len(Tail(u)) PROVE Tail(u)[i] = (Tail(s) \o t)[i]
    OBVIOUS
<1> QED BY <1>2, <1>3, <1>4, <1>5, SeqEqual

\* The worker puts its letter behind the letters of the box.
LEMMA AppendKeepsTransit ==
    ASSUME ListInv, MailInv, RolesInv, NEW t \in Thread, AppendUnseen(t) \/ AppendSignals(t),
           UNCHANGED <<inbox, socket>>
    PROVE  Transit' = Transit
<1>1. t = Worker
    BY PostOfficeAssumption DEF AppendUnseen, AppendSignals, Inside, RolesInv
<1> DEFINE k == on[Worker]
           m == item[Worker]
<1>2. /\ at[Worker] = "inside" /\ call[Worker] = "append"
      /\ list' = [list EXCEPT ![k] = Append(list[k], m)]
      /\ at'[Worker] \in {"out", "releasing"}
    BY <1>1 DEF AppendUnseen, AppendSignals, Inside, Move, ListInv, TypeOK
<1>3. k \in Box /\ m \in Letter
    BY <1>1, <1>2 DEF ListInv, TypeOK, ThreadInv, Box, Letter
<1>4. ASSUME NEW b \in Box
      PROVE  list'[b] \o Carried(b)' = list[b] \o Carried(b)
    <2>1. Carried(b) = (IF b = k THEN <<m>> ELSE <<>>) /\ Carried(b)' = <<>>
        BY <1>2 DEF Carried
    <2>2. list'[b] = IF b = k THEN Append(list[b], m) ELSE list[b]
        BY <1>2 DEF ListInv, TypeOK, Box
    <2> DEFINE l == list[b]
    <2>3. l \in Seq(Letter)
        BY TransitIs
    <2> HIDE DEF l, m
    <2>4. Append(l, m) \o <<>> = l \o <<m>> /\ l \o <<>> = l
        BY <1>3, <2>3
    <2> QED BY <2>1, <2>2, <2>4 DEF l
<1>5. (Buffered \o socket)' = Buffered \o socket
    BY DEF Buffered
<1>6. ASSUME NEW b \in Box
      PROVE  Transit[b] = (list[b] \o Carried(b) \o ForBox(b, Buffered \o socket))'
    <2>1. ForBox(b, Buffered \o socket)' = ForBox(b, Buffered \o socket)
        BY <1>5
    <2> QED BY <1>4, <2>1 DEF Transit
<1> QED BY <1>6 DEF Transit

\* The other steps inside Put and Get leave the letters where they are.
LEMMA BoxStepKeepsTransit ==
    ASSUME ListInv, MailInv, RolesInv, NEW t \in Thread, BoxStep(t)
    PROVE  Transit' = Transit
<1>0. UNCHANGED <<inbox, socket>> /\ Step(t)
    BY DEF BoxStep, in
<1>1. CASE AppendUnseen(t) \/ AppendSignals(t)
    BY <1>0, <1>1, AppendKeepsTransit
<1>2. CASE Acquire(t) \/ Release(t) \/ Wait(t) \/ AwaitSignal(t)
    <2>0. Worker \in Thread /\ at \in [Thread -> {"out", "acquiring", "inside", "releasing", "waiting"}]
        BY PostOfficeAssumption DEF ListInv, TypeOK
    <2>1. UNCHANGED <<list, call, on, item>>
        BY <1>2 DEF Acquire, Release, Wait, AwaitSignal, lists
    <2>2. at'[Worker] \in {"acquiring", "inside"} <=> at[Worker] \in {"acquiring", "inside"}
        <3>1. CASE Acquire(t)
            BY <2>0, <3>1 DEF Acquire, Move
        <3>2. CASE Release(t)
            BY <2>0, <3>2 DEF Release, Move
        <3>3. CASE Wait(t)
            <4>1. t # Worker
                BY <3>3 DEF Wait, Inside, RolesInv
            <4> QED BY <2>0, <3>3, <4>1 DEF Wait, Move
        <3>4. CASE AwaitSignal(t)
            <4>1. t # Worker
                BY <3>4 DEF AwaitSignal, RolesInv, ListInv, ThreadInv
            <4> QED BY <2>0, <3>4, <4>1 DEF AwaitSignal, Move
        <3> QED BY <1>2, <3>1, <3>2, <3>3, <3>4
    <2>3. \A b \in Box : Carried(b)' = Carried(b)
        BY <2>1, <2>2, CarriedKept
    <2>4. (Buffered \o socket)' = Buffered \o socket
        BY <1>0 DEF Buffered
    <2> QED BY <2>1, <2>3, <2>4, TransitKept
<1> QED BY <1>0, <1>1, <1>2 DEF Step

LEMMA GetKeepsTransit ==
    ASSUME ListInv, RolesInv, NEW r \in Receiver, Get(r)
    PROVE  Transit' = Transit
<1>0. r # Worker /\ r \in Thread /\ Worker \in Thread
    BY PostOfficeAssumption
<1>1. UNCHANGED <<list, inbox, socket>>
    BY DEF Get, CallRemoveFront, Call, lists, in
<1>2. /\ call'[Worker] = call[Worker] /\ on'[Worker] = on[Worker]
      /\ item'[Worker] = item[Worker] /\ at'[Worker] = at[Worker]
    BY <1>0 DEF Get, CallRemoveFront, Call, Move, ListInv, TypeOK
<1>3. \A b \in Box : Carried(b)' = Carried(b)
    BY <1>2, CarriedKept
<1>4. (Buffered \o socket)' = Buffered \o socket
    BY <1>1 DEF Buffered
<1> QED BY <1>1, <1>3, <1>4, TransitKept

\* A receiver gets the first letter on the way to its box.
LEMMA GetReturnsReceives ==
    ASSUME ListInv, MailInv, RolesInv, NEW r \in Receiver, GetReturns(r)
    PROVE  /\ on[r] \in Box /\ Transit[on[r]] # <<>>
           /\ received' = received \cup {Head(Transit[on[r]])}
           /\ Transit' = [Transit EXCEPT ![on[r]] = Tail(@)]
<1> DEFINE k == on[r]
<1>0. r # Worker /\ r \in Thread /\ Worker \in Thread /\ k \in Box
    BY PostOfficeAssumption DEF ListInv, TypeOK, Box
<1>1. /\ list[k] # <<>> /\ list' = [list EXCEPT ![k] = Tail(list[k])]
      /\ received' = received \cup {Head(list[k])}
      /\ UNCHANGED <<inbox, socket>>
    BY <1>0 DEF GetReturns, TakeFront, ListInv, TypeOK, in
<1>2. /\ call'[Worker] = call[Worker] /\ on'[Worker] = on[Worker]
      /\ item'[Worker] = item[Worker] /\ at'[Worker] = at[Worker]
    BY <1>0 DEF GetReturns, TakeFront, Move, ListInv, TypeOK
<1>3. \A b \in Box : Carried(b)' = Carried(b)
    BY <1>2, CarriedKept
<1>4. (Buffered \o socket)' = Buffered \o socket
    BY <1>1 DEF Buffered
<1>5. ASSUME NEW b \in Box
      PROVE  Transit'[b] = list'[b] \o Carried(b) \o ForBox(b, Buffered \o socket)
    <2>1. Transit'[b] = (list[b] \o Carried(b) \o ForBox(b, Buffered \o socket))'
        BY DEF Transit
    <2>2. ForBox(b, Buffered \o socket)' = ForBox(b, Buffered \o socket)
        BY <1>4
    <2> QED BY <1>3, <2>1, <2>2
<1>6. /\ Transit[k] # <<>> /\ Head(Transit[k]) = Head(list[k])
      /\ Transit'[k] = Tail(Transit[k])
    <2> DEFINE l == list[k]
               c == Carried(k)
               f == ForBox(k, Buffered \o socket)
    <2>1. /\ l \in Seq(Letter) /\ c \in Seq(Letter) /\ f \in Seq(Letter)
          /\ Transit[k] = l \o c \o f
        BY <1>0, TransitIs
    <2>2. l # <<>> /\ Transit'[k] = Tail(l) \o c \o f
        <3>1. list'[k] = Tail(l)
            BY <1>0, <1>1 DEF ListInv, TypeOK, Box
        <3> QED BY <1>0, <1>1, <1>5, <3>1
    <2> HIDE DEF l, c, f
    <2>3. /\ l \o c # <<>> /\ l \o c \in Seq(Letter)
          /\ Head(l \o c) = Head(l) /\ Tail(l \o c) = Tail(l) \o c
        BY <2>1, <2>2, HeadTailConcat
    <2> DEFINE d == l \o c
    <2> HIDE DEF d
    <2>4. d # <<>> /\ d \in Seq(Letter) /\ Head(d) = Head(l) /\ Tail(d) = Tail(l) \o c
        BY <2>3 DEF d
    <2>5. d \o f # <<>> /\ Head(d \o f) = Head(d) /\ Tail(d \o f) = Tail(d) \o f
        BY <2>1, <2>4, HeadTailConcat
    <2>6. Transit[k] = d \o f /\ Transit'[k] = Tail(d) \o f
        BY <2>1, <2>2, <2>4 DEF d
    <2>7. Head(l) = Head(list[k])
        BY DEF l
    <2> QED BY <2>4, <2>5, <2>6, <2>7
<1>7. ASSUME NEW b \in Box, b # k PROVE Transit'[b] = Transit[b]
    <2>1. list'[b] = list[b]
        BY <1>0, <1>1, <1>7 DEF ListInv, TypeOK, Box
    <2> QED BY <1>5, <2>1 DEF Transit
<1>8. DOMAIN Transit = Box /\ DOMAIN Transit' = Box /\ Transit' = [b \in Box |-> Transit'[b]]
    BY DEF Transit
<1> QED BY <1>0, <1>1, <1>6, <1>7, <1>8

\* A letter that is sent goes on the way to its box or is lost in the network,
\* and what is on the way to a box arrives there in order and is given to one
\* receiver: the post office implements LossyMail.
THEOREM LettersArriveInOrder == PostSpec => ImplementsMail
<1> DEFINE Inv == PostInv /\ SendersInv /\ RolesInv
<1>1. PostInit => Inv
    <2>1. PostInit => SendersInv
        BY DEF PostInit, Out!Init, SendersInv
    <2>2. PostInit => RolesInv
        BY PostOfficeAssumption DEF PostInit, Init, RolesInv
    <2> QED BY <2>1, <2>2, InitPostInv
<1>2. ASSUME Inv, PostInv', [PostNext]_postVars
      PROVE  Inv' /\ [Channel!Next]_<<NotSent, Transit, received>>
    <2>0. ListInv /\ TypeOK /\ OutP!TypeOK /\ MailInv /\ SendersInv /\ RolesInv
        BY <1>2 DEF PostInv, ListInv, OutP!DeviceInv
    <2>1. RolesInv'
        BY <1>2, <2>0, NextRolesInv
    <2> SUFFICES SendersInv' /\ [Channel!Next]_<<NotSent, Transit, received>>
        BY <1>2, <2>1
    <2>2. UNCHANGED out /\ UNCHANGED <<letter, unsent>> => SendersInv' /\ NotSent' = NotSent
        BY <2>0, SendersRest DEF out
    <2>3. UNCHANGED <<listVars, inbox, socket>> => Transit' = Transit
        <3> SUFFICES ASSUME UNCHANGED <<listVars, inbox, socket>> PROVE Transit' = Transit
            OBVIOUS
        <3>1. \A b \in Box : Carried(b)' = Carried(b)
            BY CarriedKept DEF listVars
        <3>2. (Buffered \o socket)' = Buffered \o socket
            BY DEF Buffered
        <3> QED BY <3>1, <3>2, TransitKept DEF listVars, lists
    <2>4. CASE UNCHANGED postVars
        BY <2>2, <2>3, <2>4 DEF postVars, mail, in
    <2>5. ASSUME NEW s \in Sender, NEW m \in Letter, CallSend(s, m)
          PROVE  SendersInv' /\ UNCHANGED <<NotSent, Transit, received>>
        <3>1. SendersInv' /\ NotSent' = NotSent
            BY <2>0, <2>5, CallSendKeeps
        <3> QED BY <2>3, <2>5, <3>1 DEF CallSend, in
    <2>6. ASSUME NEW s \in Sender, NetworkSend(s)
          PROVE  SendersInv' /\ \E m \in Letter : Channel!Send(m) \/ Channel!Lose(m)
        <3> DEFINE m == letter[s]
        <3>1. SendersInv' /\ m \in Letter /\ m \in NotSent /\ NotSent' = NotSent \ {m}
            BY <2>0, <2>6, NetworkSendSends
        <3>2. received' = received
            BY <2>6 DEF NetworkSend, mail
        <3>3. CASE socket' = Append(socket, letter[s])
            <4>1. Transit' = [Transit EXCEPT ![To[m]] = Append(@, m)]
                BY <2>0, <2>6, <3>1, <3>3, NetworkSendAppends
            <4>2. Channel!Send(m)
                BY <3>1, <3>2, <4>1 DEF Channel!Send
            <4> QED BY <3>1, <4>2
        <3>4. CASE UNCHANGED socket
            <4>1. Transit' = Transit
                BY <2>3, <2>6, <3>4 DEF NetworkSend, in
            <4>2. Channel!Lose(m)
                BY <3>1, <3>2, <4>1 DEF Channel!Lose
            <4> QED BY <3>1, <4>2
        <3> QED BY <2>6, <3>3, <3>4 DEF NetworkSend
    <2>7. CASE SendStep
        <3>1. SendersInv' /\ NotSent' = NotSent
            BY <2>0, <2>7, SendStepKeeps
        <3> QED BY <2>3, <2>7, <3>1 DEF SendStep, in, mail
    <2>8. CASE Poll
        <3>1. Transit' = Transit
            BY <2>0, <2>8, PollKeepsTransit
        <3> QED BY <2>2, <2>8, <3>1 DEF Poll, mail
    <2>9. CASE WorkerWaits
        BY <2>2, <2>3, <2>9 DEF WorkerWaits, mail
    <2>10. CASE WorkerReceives
        <3>1. Transit' = Transit
            BY <2>0, <2>10, WorkerReceivesKeepsTransit
        <3> QED BY <2>2, <2>10, <3>1 DEF WorkerReceives, mail
    <2>11. ASSUME NEW r \in Receiver, Get(r)
           PROVE  SendersInv' /\ UNCHANGED <<NotSent, Transit, received>>
        <3>1. Transit' = Transit
            BY <2>0, <2>11, GetKeepsTransit
        <3> QED BY <2>2, <2>11, <3>1 DEF Get, mail
    <2>12. ASSUME NEW r \in Receiver, GetReturns(r)
           PROVE  SendersInv' /\ \E b \in Box : Channel!Receive(b)
        <3>1. /\ on[r] \in Box /\ Transit[on[r]] # <<>>
              /\ received' = received \cup {Head(Transit[on[r]])}
              /\ Transit' = [Transit EXCEPT ![on[r]] = Tail(@)]
            BY <2>0, <2>12, GetReturnsReceives
        <3>2. SendersInv' /\ NotSent' = NotSent
            BY <2>2, <2>12 DEF GetReturns
        <3>3. Channel!Receive(on[r])
            BY <3>1, <3>2 DEF Channel!Receive
        <3> QED BY <3>1, <3>2, <3>3
    <2>13. ASSUME NEW t \in Thread, BoxStep(t)
           PROVE  SendersInv' /\ UNCHANGED <<NotSent, Transit, received>>
        <3>1. Transit' = Transit
            BY <2>0, <2>13, BoxStepKeepsTransit
        <3> QED BY <2>2, <2>13, <3>1 DEF BoxStep, mail
    <2> QED BY <1>2, <2>4, <2>5, <2>6, <2>7, <2>8, <2>9, <2>10, <2>11, <2>12, <2>13
            DEF PostNext, Channel!Next
<1>3. PostInit => Channel!Init
    <2> SUFFICES ASSUME PostInit PROVE Channel!Init
        OBVIOUS
    <2>1. NotSent = Letter
        BY DEF PostInit, Out!Init, NotSent
    <2>2. ASSUME NEW b \in Box PROVE Transit[b] = <<>>
        <3>1. list[b] = <<>> /\ Carried(b) = <<>>
            BY PostOfficeAssumption DEF PostInit, Init, Carried, Box
        <3>2. Buffered \o socket = <<>>
            BY DEF PostInit, Buffered
        <3> QED BY <3>1, <3>2, ForBoxEmpty DEF Transit
    <2>3. Transit = [b \in Box |-> <<>>]
        BY <2>2 DEF Transit
    <2> QED BY <2>1, <2>3 DEF Channel!Init, PostInit
<1> HIDE DEF Inv
<1>4. PostSpec => [][Channel!Next]_<<NotSent, Transit, received>>
    BY <1>1, <1>2, PostInvariant, PTL DEF PostSpec
<1>5. PostSpec => Channel!Init
    BY <1>3, PTL DEF PostSpec
<1> QED BY <1>4, <1>5, PTL DEF ImplementsMail, Channel!Spec
=============================================================================
