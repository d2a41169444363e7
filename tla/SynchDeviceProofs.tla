-------------------------- MODULE SynchDeviceProofs ---------------------------
(***************************************************************************)
(* Proofs about SynchDevice, for every number of threads and requests: no  *)
(* assertion of the device or of the lock fails, and no thread is left     *)
(* asleep.                                                                 *)
(***************************************************************************)
EXTENDS SynchDevice, SynchProofs

\* The lock is free, or taken by one thread; who sleeps on it acquires it.
LockInv ==
    /\ Distinct(lock.queue)
    /\ lock.value = IF Owners = {} THEN 1 ELSE 0
    /\ \A t, u \in Owners : t = u
    /\ \A t \in Asleep(lock) : at[t] = "acquiring"
    /\ lock.value > 0 /\ lock.queue # <<>> =>
        \E t \in Thread : at[t] = "acquiring" /\ t \notin Asleep(lock)

\* One request is under way for each thread that waits: its interrupt is to
\* come, or has come and raised the semaphore.
RequestInv ==
    /\ Distinct(semaphore.queue)
    /\ active <=> pending = 1
    /\ pending + semaphore.value = IF \E t \in Thread : at[t] = "waiting" THEN 1 ELSE 0
    /\ \A t \in Asleep(semaphore) : at[t] = "waiting" /\ pending = 1
    /\ \A t \in Thread :
        /\ at[t] = "acquiring" => left[t] > 0
        /\ at[t] = "waiting" \/ (at[t] = "inside" /\ left[t] = 0) => lockHolder = t

DeviceInv == TypeOK /\ LockInv /\ RequestInv

LEMMA InitDeviceInv == Init => DeviceInv
<1> SUFFICES ASSUME Init PROVE DeviceInv
    OBVIOUS
<1> USE DEF Init
<1>1. TypeOK
    BY NewSemaphoreIs DEF TypeOK
<1>2. Owners = {}
    BY DEF Owners
<1>3. LockInv
    BY <1>2, NewSemaphoreIs DEF LockInv
<1>4. RequestInv
    BY NewSemaphoreIs DEF RequestInv
<1> QED BY <1>1, <1>3, <1>4 DEF DeviceInv

LEMMA CallKeeps ==
    ASSUME DeviceInv, NEW t \in Thread, NEW n \in Nat \ {0}, Call(t, n)
    PROVE  DeviceInv'
<1> USE DEF DeviceInv, Call, Move
<1>1. TypeOK'
    BY DEF TypeOK
<1>2. Owners' = Owners
    BY DEF Owners, TypeOK
<1>3. Asleep(lock) \subseteq Thread
    BY NobodyAsleep DEF TypeOK
<1>4. \A u \in Thread : at[u] = "acquiring" => at'[u] = "acquiring"
    BY DEF TypeOK
<1>5. LockInv'
    BY <1>2, <1>3, <1>4 DEF LockInv
<1>6. \A u \in Thread : at'[u] = "waiting" <=> at[u] = "waiting"
    BY DEF TypeOK
<1>7. Asleep(semaphore) \subseteq Thread
    BY NobodyAsleep DEF TypeOK
<1>8. \A u \in Thread :
        /\ at'[u] = "acquiring" => left'[u] > 0
        /\ at'[u] = "waiting" \/ (at'[u] = "inside" /\ left'[u] = 0) => lockHolder' = u
    BY DEF TypeOK, RequestInv
<1>9. RequestInv'
    BY <1>6, <1>7, <1>8 DEF RequestInv
<1> QED BY <1>1, <1>5, <1>9

LEMMA AcquireKeeps ==
    ASSUME DeviceInv, NEW t \in Thread, Acquire(t)
    PROVE  DeviceInv'
<1> USE DEF DeviceInv, Acquire, Move
<1>0. lock \in Semaphores(Thread) /\ lock.value \in Nat /\ Asleep(lock) \subseteq Thread
    BY NobodyAsleep DEF TypeOK, Semaphores
<1>1. Asleep(semaphore) \subseteq Thread
    BY NobodyAsleep DEF TypeOK
<1>2. CASE Available(lock)
    <2>1. /\ lock' \in Semaphores(Thread) /\ lock'.value = lock.value - 1
          /\ lock'.queue = lock.queue /\ Asleep(lock') = Asleep(lock)
        BY <1>0, <1>2, PTakes
    <2>2. TypeOK'
        BY <1>2, <2>1 DEF TypeOK
    <2>3. Owners = {} /\ lock.value = 1
        BY <1>0, <1>2 DEF LockInv, Available
    <2>4. Owners' = {t}
        BY <1>2, <2>3 DEF Owners, TypeOK
    <2>5. LockInv'
        BY <1>0, <1>2, <2>1, <2>3, <2>4 DEF LockInv, TypeOK
    <2>6. \A u \in Thread : at'[u] = "waiting" <=> at[u] = "waiting"
        BY <1>2 DEF TypeOK
    <2>7. \A u \in Thread :
            /\ at'[u] = "acquiring" => left'[u] > 0
            /\ at'[u] = "waiting" \/ (at'[u] = "inside" /\ left'[u] = 0) => lockHolder' = u
        BY <1>2 DEF TypeOK, RequestInv
    <2>8. RequestInv'
        BY <1>1, <2>6, <2>7 DEF RequestInv
    <2> QED BY <2>2, <2>5, <2>8
<1>3. CASE ~Available(lock)
    <2>1. /\ lock' \in Semaphores(Thread) /\ lock'.value = 0 /\ lock.value = 0
          /\ Asleep(lock') = Asleep(lock) \cup {t} /\ Distinct(lock'.queue)
        BY <1>0, <1>3, PSleeps DEF LockInv
    <2>2. at' = at
        BY <1>3 DEF TypeOK
    <2>3. TypeOK'
        BY <2>1, <2>2 DEF TypeOK
    <2>4. Owners' = Owners
        BY <2>2 DEF Owners
    <2>5. LockInv'
        BY <2>1, <2>2, <2>4 DEF LockInv
    <2>6. RequestInv'
        BY <2>2 DEF RequestInv
    <2> QED BY <2>3, <2>5, <2>6
<1> QED BY <1>2, <1>3

LEMMA RequestKeeps ==
    ASSUME DeviceInv, NEW t \in Thread, Request(t)
    PROVE  DeviceInv'
<1> USE DEF DeviceInv, Request, Move
<1>0. /\ semaphore \in Semaphores(Thread) /\ semaphore.value \in Nat
      /\ pending \in Nat /\ Asleep(semaphore) \subseteq Thread
      /\ Asleep(lock) \subseteq Thread
    BY NobodyAsleep DEF TypeOK, Semaphores
<1>1. \A u \in Thread : at[u] # "waiting"
    BY DEF LockInv, Owners
<1>2. pending = 0 /\ semaphore.value = 0 /\ ~Available(semaphore) /\ Asleep(semaphore) = {}
    <2>1. pending + semaphore.value = 0
        BY <1>1 DEF RequestInv
    <2>2. pending = 0 /\ semaphore.value = 0
        BY <1>0, <2>1
    <2>3. ~Available(semaphore)
        BY <2>2 DEF Available
    <2>4. Asleep(semaphore) = {}
        BY <1>0, <1>1 DEF RequestInv
    <2> QED BY <2>2, <2>3, <2>4
<1>3. /\ semaphore' \in Semaphores(Thread) /\ semaphore'.value = 0
      /\ Asleep(semaphore') = {t} /\ Distinct(semaphore'.queue)
    BY <1>0, <1>2, PSleeps DEF RequestInv
<1>4. at' = [at EXCEPT ![t] = "waiting"]
    BY <1>2
<1>5. TypeOK'
    BY <1>2, <1>3, <1>4 DEF TypeOK
<1>6. Owners' = Owners
    BY <1>4 DEF Owners, TypeOK
<1>7. LockInv'
    BY <1>0, <1>4, <1>6 DEF LockInv, TypeOK
<1>8. \A u \in Thread :
        /\ at'[u] = "acquiring" => left'[u] > 0
        /\ at'[u] = "waiting" \/ (at'[u] = "inside" /\ left'[u] = 0) => lockHolder' = u
    <2> SUFFICES ASSUME NEW u \in Thread, u # t
                 PROVE  /\ at'[u] = "acquiring" => left'[u] > 0
                        /\ at'[u] # "waiting" /\ at'[u] # "inside"
        BY <1>4 DEF TypeOK
    <2>1. at'[u] = at[u] /\ left'[u] = left[u]
        BY <1>4 DEF TypeOK
    <2>2. u \notin Owners
        BY DEF LockInv, Owners
    <2> QED BY <2>1, <2>2 DEF RequestInv, Owners
<1>9. at'[t] = "waiting"
    BY <1>4 DEF TypeOK
<1>10. RequestInv'
    BY <1>2, <1>3, <1>8, <1>9 DEF RequestInv
<1> QED BY <1>5, <1>7, <1>10

LEMMA AwaitKeeps ==
    ASSUME DeviceInv, NEW t \in Thread, Await(t)
    PROVE  DeviceInv'
<1> USE DEF DeviceInv, Await, Move
<1>0. /\ semaphore \in Semaphores(Thread) /\ semaphore.value \in Nat
      /\ pending \in Nat /\ Asleep(semaphore) \subseteq Thread
      /\ Asleep(lock) \subseteq Thread
    BY NobodyAsleep DEF TypeOK, Semaphores
<1>1. pending + semaphore.value = 1 /\ t \in Owners /\ lockHolder = t
    BY DEF RequestInv, Owners
<1>2. \A u \in Thread : u # t => at[u] \notin {"waiting", "inside"}
    BY <1>1 DEF LockInv, Owners
<1>3. CASE Available(semaphore)
    <2>1. /\ semaphore' \in Semaphores(Thread) /\ semaphore'.value = semaphore.value - 1
          /\ semaphore'.queue = semaphore.queue /\ Asleep(semaphore') = Asleep(semaphore)
        BY <1>0, <1>3, PTakes
    <2>2. pending = 0 /\ semaphore'.value = 0 /\ Asleep(semaphore) = {}
        BY <1>0, <1>1, <1>3, <2>1 DEF Available, RequestInv
    <2>3. at' = [at EXCEPT ![t] = "inside"]
        BY <1>3
    <2>4. TypeOK'
        BY <2>1, <2>3 DEF TypeOK
    <2>5. Owners' = Owners
        BY <2>3 DEF Owners, TypeOK
    <2>6. LockInv'
        BY <1>0, <2>3, <2>5 DEF LockInv, TypeOK
    <2>7. \A u \in Thread :
            /\ at'[u] = "acquiring" => left'[u] > 0
            /\ at'[u] # "waiting"
            /\ at'[u] = "inside" /\ left'[u] = 0 => lockHolder' = u
        BY <1>1, <1>2, <2>3 DEF RequestInv, TypeOK
    <2>8. RequestInv'
        BY <2>1, <2>2, <2>7 DEF RequestInv
    <2> QED BY <2>4, <2>6, <2>8
<1>4. CASE ~Available(semaphore)
    <2>1. /\ semaphore' \in Semaphores(Thread) /\ semaphore'.value = 0 /\ semaphore.value = 0
          /\ Asleep(semaphore') = Asleep(semaphore) \cup {t} /\ Distinct(semaphore'.queue)
        BY <1>0, <1>4, PSleeps DEF RequestInv
    <2>2. at' = at
        BY <1>4 DEF TypeOK
    <2>3. TypeOK'
        BY <2>1, <2>2 DEF TypeOK
    <2>4. LockInv'
        BY <2>2 DEF LockInv, Owners
    <2>5. RequestInv'
        BY <1>0, <1>1, <2>1, <2>2 DEF RequestInv
    <2> QED BY <2>3, <2>4, <2>5
<1> QED BY <1>3, <1>4

LEMMA ReleaseKeeps ==
    ASSUME DeviceInv, NEW t \in Thread, Release(t)
    PROVE  DeviceInv'
<1> USE DEF DeviceInv, Release, Move
<1>0. /\ lock \in Semaphores(Thread) /\ lock.value \in Nat
      /\ Asleep(lock) \subseteq Thread /\ Asleep(semaphore) \subseteq Thread
    BY NobodyAsleep DEF TypeOK, Semaphores
<1>1. Owners = {t} /\ lock.value = 0
    BY DEF LockInv, Owners
<1>2. /\ lock' \in Semaphores(Thread) /\ lock'.value = 1 /\ Distinct(lock'.queue)
      /\ Asleep(lock') \subseteq Asleep(lock)
      /\ lock.queue = <<>> => lock'.queue = <<>>
      /\ lock.queue # <<>> => /\ Head(lock.queue) \in Asleep(lock)
                              /\ Head(lock.queue) \notin Asleep(lock')
    BY <1>0, <1>1, VWakes DEF LockInv
<1>3. at' = [at EXCEPT ![t] = "out"]
    OBVIOUS
<1>4. TypeOK'
    BY <1>2 DEF TypeOK
<1>5. Owners' = {}
    BY <1>1 DEF Owners, TypeOK
<1>6. \A u \in Thread : at[u] = "acquiring" => at'[u] = "acquiring"
    BY DEF TypeOK
<1>7. LockInv'
    BY <1>0, <1>2, <1>5, <1>6 DEF LockInv
<1>8. \A u \in Thread : at'[u] = "waiting" <=> at[u] = "waiting"
    BY DEF TypeOK
<1>9. \A u \in Thread :
        /\ at'[u] = "acquiring" => left'[u] > 0
        /\ at'[u] # "waiting" /\ at'[u] # "inside"
    BY <1>5 DEF TypeOK, RequestInv, Owners
<1>10. RequestInv'
    BY <1>0, <1>8, <1>9 DEF RequestInv
<1> QED BY <1>4, <1>7, <1>10

LEMMA CallBackKeeps ==
    ASSUME DeviceInv, CallBack
    PROVE  DeviceInv'
<1> USE DEF DeviceInv, CallBack
<1>0. /\ semaphore \in Semaphores(Thread) /\ semaphore.value \in Nat /\ pending \in Nat
      /\ Asleep(semaphore) \subseteq Thread
    BY NobodyAsleep DEF TypeOK, Semaphores
<1>1. pending = 1 /\ semaphore.value = 0
    BY <1>0 DEF RequestInv
<1>2. /\ semaphore' \in Semaphores(Thread) /\ semaphore'.value = 1
      /\ Distinct(semaphore'.queue)
    BY <1>0, <1>1, VWakes DEF RequestInv
<1>3. Asleep(semaphore') = {}
    <2>1. CASE semaphore.queue = <<>>
        BY <1>0, <2>1, VWakes DEF RequestInv
    <2>2. CASE semaphore.queue # <<>>
        <3>1. /\ Head(semaphore.queue) \in Asleep(semaphore)
              /\ Asleep(semaphore') = Asleep(semaphore) \ {Head(semaphore.queue)}
            BY <1>0, <2>2, VWakes DEF RequestInv
        <3>2. \A u \in Asleep(semaphore) : u \in Owners
            BY <1>0 DEF RequestInv, Owners
        <3> QED BY <3>1, <3>2 DEF LockInv
    <2> QED BY <2>1, <2>2
<1>4. TypeOK'
    <2>1. pending' = pending - 1
        OBVIOUS
    <2>2. pending' \in Nat
        <3> HIDE DEF DeviceInv, CallBack
        <3> QED BY <1>1, <2>1
    <2>3. active' = FALSE
        OBVIOUS
    <2>4. active' \in BOOLEAN
        <3> HIDE DEF DeviceInv, CallBack
        <3> QED BY <2>3
    <2> QED BY <1>2, <2>2, <2>4 DEF TypeOK
<1>5. LockInv'
    BY DEF LockInv, Owners
<1>6. RequestInv'
    BY <1>1, <1>2, <1>3 DEF RequestInv
<1> QED BY <1>4, <1>5, <1>6

LEMMA NextDeviceInv == DeviceInv /\ [Next]_deviceVars => DeviceInv'
<1> SUFFICES ASSUME DeviceInv, [Next]_deviceVars PROVE DeviceInv'
    OBVIOUS
<1>1. CASE CallBack
    BY <1>1, CallBackKeeps
<1>2. ASSUME NEW t \in Thread, NEW n \in Nat \ {0}, Call(t, n) PROVE DeviceInv'
    BY <1>2, CallKeeps
<1>3. ASSUME NEW t \in Thread, Step(t) PROVE DeviceInv'
    BY <1>3, AcquireKeeps, RequestKeeps, AwaitKeeps, ReleaseKeeps DEF Step
<1>4. CASE UNCHANGED deviceVars
    BY <1>4 DEF deviceVars, DeviceInv, TypeOK, LockInv, RequestInv, Owners
<1> QED BY <1>1, <1>2, <1>3, <1>4 DEF Next

\* The variables keep their types.
THEOREM TypeCorrect == Spec => []TypeOK
<1>1. DeviceInv => TypeOK
    BY DEF DeviceInv
<1> QED BY <1>1, InitDeviceInv, NextDeviceInv, PTL DEF Spec

\* No assertion of the device or of Lock::Release fails.
THEOREM AssertionsHold == Spec => []OneAtATime
<1>1. DeviceInv => OneAtATime
    <2> SUFFICES ASSUME DeviceInv PROVE OneAtATime
        OBVIOUS
    <2>1. ASSUME NEW t \in Owners, at[t] = "inside" PROVE IF left[t] > 0 THEN ~active ELSE lockHolder = t
        <3>1. \A u \in Thread : at[u] # "waiting"
            BY <2>1 DEF DeviceInv, LockInv, Owners
        <3>2. semaphore.value \in Nat /\ pending \in Nat /\ left[t] \in Nat /\ t \in Thread
            BY DEF DeviceInv, TypeOK, Semaphores, Owners
        <3>3. pending + semaphore.value = 0
            BY <3>1 DEF DeviceInv, RequestInv
        <3>4. pending # 1
            BY <3>2, <3>3
        <3>5. ~active
            BY <3>4 DEF DeviceInv, RequestInv
        <3>6. CASE left[t] > 0
            BY <3>5, <3>6
        <3>7. CASE ~(left[t] > 0)
            <4>1. left[t] = 0
                BY <3>2, <3>7
            <4>2. lockHolder = t
                BY <2>1, <3>2, <4>1 DEF DeviceInv, RequestInv
            <4> QED BY <3>7, <4>2
        <3> QED BY <3>6, <3>7
    <2> QED BY <2>1 DEF DeviceInv, LockInv, OneAtATime
<1> QED BY <1>1, InitDeviceInv, NextDeviceInv, PTL DEF Spec

\* Nobody sleeps on the semaphore without an interrupt to come, nor on the
\* lock while it is free and nobody comes for it.
THEOREM NobodyIsForgotten == Spec => []NobodyForgotten
<1>1. DeviceInv => NobodyForgotten
    BY DEF DeviceInv, LockInv, RequestInv, NobodyForgotten
<1> QED BY <1>1, InitDeviceInv, NextDeviceInv, PTL DEF Spec
=============================================================================
