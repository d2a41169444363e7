--------------------------- MODULE TSQueueProofs ----------------------------
(***************************************************************************)
(* Proofs about TSQueue, for every number of threads and every buffer      *)
(* size: the ring buffer is consistent, no wakeup is lost, and the queue   *)
(* implements BoundedQueue.                                                *)
(***************************************************************************)
EXTENDS TSQueue, FiniteSetTheorems, SequenceTheorems, TLAPS

-----------------------------------------------------------------------------
(* Indices                                                                 *)

LEMMA ModSum ==
    ASSUME NEW b \in Nat \ {0}, NEW h \in 0..(b - 1), NEW k \in 0..b
    PROVE  (h + k) % b = IF h + k < b THEN h + k ELSE h + k - b
<1>1. CASE h + k < b
    <2>1. \A n \in 0..(b - 1) : n % b = n
        OBVIOUS
    <2> QED BY <1>1, <2>1
<1>2. CASE h + k >= b
    <2>1. \A n \in b..(2 * b - 1) : n % b = n - b
        OBVIOUS
    <2>2. h + k \in b..(2 * b - 1)
        BY <1>2
    <2> QED BY <1>2, <2>1, <2>2
<1> QED BY <1>1, <1>2

\* The index of the k-th item behind head.
Slot(k) == IF head + k < BufferSize THEN head + k ELSE head + k - BufferSize

LEMMA SlotIsMod ==
    ASSUME TypeOK, NEW k \in 0..BufferSize
    PROVE  (head + k) % BufferSize = Slot(k)
    BY ModSum, TSQueueAssumption DEF TypeOK, Slot

LEMMA AfterIs ==
    ASSUME NEW i \in 0..(BufferSize - 1)
    PROVE  After(i) = IF i + 1 < BufferSize THEN i + 1 ELSE 0
<1>1. BufferSize \in Nat \ {0} /\ 1 \in 0..BufferSize
    BY TSQueueAssumption
<1>2. (i + 1) % BufferSize = IF i + 1 < BufferSize THEN i + 1 ELSE i + 1 - BufferSize
    BY <1>1, ModSum
<1> QED BY <1>1, <1>2 DEF After

-----------------------------------------------------------------------------
(* Types and the ring                                                      *)

LEMMA SignalledSet ==
    ASSUME NEW c \in SUBSET Thread, NEW d \in Signalled(c)
    PROVE  /\ d \in SUBSET Thread
           /\ (c = {} /\ d = {}) \/ \E t \in c : d = c \ {t}
    BY DEF Signalled

\* The inductive invariant but for the counting.
RingInv == TypeOK /\ RingConsistent /\ WaitersConsistent

LEMMA InitRingInv == Init => RingInv
<1> SUFFICES ASSUME Init PROVE RingInv
    OBVIOUS
<1> USE TSQueueAssumption DEF Init
<1>1. TypeOK
    BY DEF TypeOK
<1>2. (head + 0) % BufferSize = 0
    BY <1>1, SlotIsMod DEF Slot
<1>3. RingConsistent
    BY <1>2 DEF RingConsistent
<1>4. WaitersConsistent
    BY DEF WaitersConsistent
<1> QED BY <1>1, <1>3, <1>4 DEF RingInv

LEMMA NextRingInv == RingInv /\ [Next]_vars => RingInv'
<1> SUFFICES ASSUME RingInv, [Next]_vars PROVE RingInv'
    OBVIOUS
<1> USE TSQueueAssumption DEF RingInv
<1>0. tail = Slot(size) /\ size \in 0..(BufferSize - 1)
    <2>1. size \in 0..BufferSize
        BY DEF TypeOK, RingConsistent
    <2> QED BY <2>1, SlotIsMod DEF TypeOK, RingConsistent
<1>1. ASSUME NEW t \in Thread, NEW x \in Item, CallEnqueue(t, x) PROVE RingInv'
    BY <1>1 DEF CallEnqueue, TypeOK, RingConsistent, WaitersConsistent, ring, conds
<1>2. ASSUME NEW t \in Thread, CallDequeue(t) PROVE RingInv'
    BY <1>2 DEF CallDequeue, TypeOK, RingConsistent, WaitersConsistent, ring, conds
<1>3. ASSUME NEW t \in Thread, Lock(t) PROVE RingInv'
    BY <1>3 DEF Lock, TypeOK, RingConsistent, WaitersConsistent, ring, conds, Waiting
<1>4. ASSUME NEW t \in Thread, EnqueueWaits(t) PROVE RingInv'
    BY <1>4 DEF EnqueueWaits, TypeOK, RingConsistent, WaitersConsistent, ring
<1>5. ASSUME NEW t \in Thread, DequeueWaits(t) PROVE RingInv'
    BY <1>5 DEF DequeueWaits, TypeOK, RingConsistent, WaitersConsistent, ring
<1>6. ASSUME NEW t \in Thread, Enqueue(t) PROVE RingInv'
    <2>1. size' = size + 1 /\ head' = head /\ size + 1 \in 0..(BufferSize - 1)
        BY <1>0, <1>6 DEF Enqueue, Full, TypeOK
    <2>2. tail' = Slot(size + 1)
        BY <1>0, <1>6, <2>1, AfterIs DEF Enqueue, Slot, TypeOK
    <2>3. tail' = (head' + size') % BufferSize
        BY <2>1, <2>2, SlotIsMod
    <2>4. cond_dequeue' \in SUBSET Thread /\ cond_dequeue' \subseteq cond_dequeue
        BY <1>6, SignalledSet DEF Enqueue, TypeOK
    <2>5. tail' \in 0..(BufferSize - 1)
        BY <2>1, <2>2 DEF Slot, TypeOK
    <2>6. buffer' \in [0..(BufferSize - 1) -> Item \cup {None}]
        BY <1>6 DEF Enqueue, TypeOK
    <2>7. TypeOK'
        BY <1>6, <2>1, <2>4, <2>5, <2>6 DEF Enqueue, TypeOK
    <2>8. RingConsistent'
        BY <2>1, <2>3 DEF RingConsistent
    <2>9. WaitersConsistent'
        BY <1>6, <2>4 DEF Enqueue, TypeOK, WaitersConsistent
    <2> QED BY <2>7, <2>8, <2>9
<1>7. ASSUME NEW t \in Thread, Dequeue(t) PROVE RingInv'
    <2>1. /\ size' = size - 1 /\ tail' = tail /\ head' = After(head)
          /\ size - 1 \in 0..(BufferSize - 1) /\ size > 0
        BY <1>0, <1>7 DEF Dequeue, Empty, TypeOK
    <2>2. head' = IF head + 1 < BufferSize THEN head + 1 ELSE 0
        BY <2>1, AfterIs DEF TypeOK
    <2>3. head' \in 0..(BufferSize - 1)
        BY <2>2 DEF TypeOK
    <2>4. (head' + size') % BufferSize
            = IF head' + size' < BufferSize THEN head' + size' ELSE head' + size' - BufferSize
        <3>1. PICK h \in 0..(BufferSize - 1), k \in 0..BufferSize : h = head' /\ k = size'
            BY <2>1, <2>3
        <3>2. (h + k) % BufferSize = IF h + k < BufferSize THEN h + k ELSE h + k - BufferSize
            BY ModSum
        <3> QED BY <3>1, <3>2
    <2>5. tail' = (head' + size') % BufferSize
        BY <1>0, <2>1, <2>2, <2>4 DEF Slot, TypeOK
    <2>6. cond_enqueue' \in SUBSET Thread /\ cond_enqueue' \subseteq cond_enqueue
        BY <1>7, SignalledSet DEF Dequeue, TypeOK
    <2>7. item' \in [Thread -> Item \cup {None}]
        BY <1>7 DEF Dequeue, FirstItem, TypeOK
    <2>8. TypeOK'
        BY <1>7, <2>1, <2>3, <2>6, <2>7 DEF Dequeue, TypeOK
    <2>9. RingConsistent'
        BY <1>0, <2>1, <2>5 DEF RingConsistent
    <2>10. WaitersConsistent'
        BY <1>7, <2>6 DEF Dequeue, TypeOK, WaitersConsistent
    <2> QED BY <2>8, <2>9, <2>10
<1>8. ASSUME NEW t \in Thread, WakeUp(t) PROVE RingInv'
    BY <1>8 DEF WakeUp, TypeOK, RingConsistent, WaitersConsistent, ring
<1>9. CASE UNCHANGED vars
    BY <1>9 DEF vars, ring, conds, TypeOK, RingConsistent, WaitersConsistent
<1> QED BY <1>1, <1>2, <1>3, <1>4, <1>5, <1>6, <1>7, <1>8, <1>9 DEF Next, Call, Step

LEMMA RingInvariant == Spec => []RingInv
    BY InitRingInv, NextRingInv, PTL DEF Spec

\* The variables keep their types.
THEOREM TypeCorrect == Spec => []TypeOK
    BY RingInvariant, PTL DEF RingInv

\* The ring never overflows, and head and tail bound its items.
THEOREM RingCorrect == Spec => []RingConsistent
    BY RingInvariant, PTL DEF RingInv

-----------------------------------------------------------------------------
(* Wakeups                                                                 *)

LEMMA AwakeFinite ==
    ASSUME NEW c
    PROVE  IsFiniteSet(Awake(c)) /\ Cardinality(Awake(c)) \in Nat
<1>1. Awake(c) \in SUBSET Thread
    BY DEF Awake
<1> QED BY <1>1, TSQueueAssumption, FS_Subset, FS_CardinalityType

\* One more thread awake, or one fewer.
LEMMA AwakeGrows ==
    ASSUME NEW c, NEW t, t \notin Awake(c), Awake(c)' = Awake(c) \cup {t}
    PROVE  Cardinality(Awake(c)') = Cardinality(Awake(c)) + 1
    BY AwakeFinite, FS_AddElement

LEMMA AwakeShrinks ==
    ASSUME NEW c, NEW t, t \in Awake(c), Awake(c)' = Awake(c) \ {t}
    PROVE  Cardinality(Awake(c)') = Cardinality(Awake(c)) - 1
    BY AwakeFinite, FS_RemoveElement

LEMMA AwakeStays ==
    ASSUME NEW c, NEW t, Awake(c)' = Awake(c) \/ Awake(c)' = Awake(c) \cup {t}
    PROVE  Cardinality(Awake(c)') >= Cardinality(Awake(c))
<1>1. CASE t \in Awake(c)
    <2>1. Awake(c)' = Awake(c)
        BY <1>1
    <2> QED BY <2>1, AwakeFinite
<1>2. CASE t \notin Awake(c)
    BY <1>2, AwakeFinite, AwakeGrows
<1> QED BY <1>1, <1>2

\* The two halves of NoLostWakeup: as many awake threads as there is work.
Served(c, waiters, work) == waiters # {} => work <= Cardinality(Awake(c))

LEMMA NoLostWakeupIs ==
    NoLostWakeup <=> /\ Served("dequeue", cond_dequeue, size)
                     /\ Served("enqueue", cond_enqueue, BufferSize - 1 - size)
    BY DEF NoLostWakeup, Served

LEMMA NextNoLostWakeup == RingInv /\ NoLostWakeup /\ [Next]_vars => NoLostWakeup'
<1> SUFFICES ASSUME RingInv, NoLostWakeup, [Next]_vars PROVE NoLostWakeup'
    OBVIOUS
<1> USE TSQueueAssumption
<1>a. TypeOK /\ WaitersConsistent /\ size \in Nat /\ BufferSize \in Nat
    BY DEF RingInv, TypeOK
<1>b. /\ Cardinality(Awake("dequeue")) \in Nat /\ Cardinality(Awake("enqueue")) \in Nat
      /\ Cardinality(Awake("dequeue")') \in Nat /\ Cardinality(Awake("enqueue")') \in Nat
    <2>1. \A c : Cardinality(Awake(c)) \in Nat
        BY AwakeFinite
    <2>2. \A c : Awake(c)' \in SUBSET Thread
        BY DEF Awake
    <2>3. \A S \in SUBSET Thread : Cardinality(S) \in Nat
        BY FS_Subset, FS_CardinalityType
    <2> QED BY <2>1, <2>2, <2>3
<1>1. ASSUME NEW t \in Thread, NEW x \in Item, CallEnqueue(t, x) PROVE NoLostWakeup'
    <2>1. Awake("dequeue")' = Awake("dequeue")
        BY <1>1, <1>a DEF CallEnqueue, Awake, Waiting, TypeOK, conds
    <2>2. Awake("enqueue")' = Awake("enqueue") \cup {t}
        BY <1>1, <1>a DEF CallEnqueue, Awake, Waiting, TypeOK, WaitersConsistent, conds
    <2>3. Cardinality(Awake("enqueue")') >= Cardinality(Awake("enqueue"))
        BY <2>2, AwakeStays
    <2> QED BY <1>1, <1>a, <1>b, <2>1, <2>3 DEF CallEnqueue, NoLostWakeup, ring, conds
<1>2. ASSUME NEW t \in Thread, CallDequeue(t) PROVE NoLostWakeup'
    <2>1. Awake("enqueue")' = Awake("enqueue")
        BY <1>2, <1>a DEF CallDequeue, Awake, Waiting, TypeOK, conds
    <2>2. Awake("dequeue")' = Awake("dequeue") \cup {t}
        BY <1>2, <1>a DEF CallDequeue, Awake, Waiting, TypeOK, WaitersConsistent, conds
    <2>3. Cardinality(Awake("dequeue")') >= Cardinality(Awake("dequeue"))
        BY <2>2, AwakeStays
    <2> QED BY <1>2, <1>a, <1>b, <2>1, <2>3 DEF CallDequeue, NoLostWakeup, ring, conds
<1>3. ASSUME NEW t \in Thread, Lock(t) PROVE NoLostWakeup'
    BY <1>3 DEF Lock, NoLostWakeup, Awake, Waiting, ring, conds
<1>4. ASSUME NEW t \in Thread, EnqueueWaits(t) PROVE NoLostWakeup'
    <2>1. Awake("dequeue")' = Awake("dequeue")
        BY <1>4, <1>a DEF EnqueueWaits, Awake, Waiting, TypeOK
    <2>2. BufferSize - 1 - size' <= 0 /\ size' = size
        BY <1>4, <1>a DEF EnqueueWaits, Full, ring
    <2> QED BY <1>4, <1>a, <1>b, <2>1, <2>2 DEF EnqueueWaits, NoLostWakeup
<1>5. ASSUME NEW t \in Thread, DequeueWaits(t) PROVE NoLostWakeup'
    <2>1. Awake("enqueue")' = Awake("enqueue")
        BY <1>5, <1>a DEF DequeueWaits, Awake, Waiting, TypeOK
    <2>2. size' <= 0 /\ size' = size
        BY <1>5, <1>a DEF DequeueWaits, Empty, ring
    <2> QED BY <1>5, <1>a, <1>b, <2>1, <2>2 DEF DequeueWaits, NoLostWakeup
<1>6. ASSUME NEW t \in Thread, Enqueue(t) PROVE NoLostWakeup'
    <2>1. /\ call[t] = "enqueue" /\ t \notin Waiting
          /\ size' = size + 1 /\ cond_enqueue' = cond_enqueue
          /\ call' = [call EXCEPT ![t] = "none"]
        BY <1>6, <1>a DEF Enqueue, Waiting, WaitersConsistent
    <2>2. t \in Awake("enqueue")
        BY <2>1 DEF Awake
    <2>3. (cond_dequeue = {} /\ cond_dequeue' = {})
            \/ \E u \in cond_dequeue : cond_dequeue' = cond_dequeue \ {u}
        BY <1>6, <1>a, SignalledSet DEF Enqueue, TypeOK
    <2>4. Awake("enqueue")' = Awake("enqueue") \ {t}
        BY <1>a, <2>1, <2>3 DEF Awake, Waiting, TypeOK, WaitersConsistent
    <2>5. Cardinality(Awake("enqueue")') = Cardinality(Awake("enqueue")) - 1
        BY <2>2, <2>4, AwakeShrinks
    <2>6. cond_enqueue' # {} => BufferSize - 1 - size' <= Cardinality(Awake("enqueue")')
        BY <1>a, <1>b, <2>1, <2>5 DEF NoLostWakeup
    <2>7. cond_dequeue' # {} => size' <= Cardinality(Awake("dequeue")')
        <3>1. SUFFICES ASSUME NEW u \in cond_dequeue, cond_dequeue' = cond_dequeue \ {u}
                       PROVE  size' <= Cardinality(Awake("dequeue")')
            BY <2>3
        <3>2. u \in Thread /\ call[u] = "dequeue" /\ u \notin cond_enqueue /\ u # t
            BY <1>a, <2>1 DEF TypeOK, WaitersConsistent
        <3>3. u \notin Awake("dequeue")
            BY DEF Awake, Waiting
        <3>4. Awake("dequeue")' = Awake("dequeue") \cup {u}
            BY <1>a, <2>1, <3>1, <3>2 DEF Awake, Waiting, TypeOK
        <3>5. Cardinality(Awake("dequeue")') = Cardinality(Awake("dequeue")) + 1
            BY <3>3, <3>4, AwakeGrows
        <3>6. size <= Cardinality(Awake("dequeue"))
            BY DEF NoLostWakeup
        <3> QED BY <1>a, <1>b, <2>1, <3>5, <3>6
    <2> QED BY <2>6, <2>7 DEF NoLostWakeup
<1>7. ASSUME NEW t \in Thread, Dequeue(t) PROVE NoLostWakeup'
    <2>1. /\ call[t] = "dequeue" /\ t \notin Waiting
          /\ size' = size - 1 /\ cond_dequeue' = cond_dequeue
          /\ call' = [call EXCEPT ![t] = "none"]
        BY <1>7, <1>a DEF Dequeue, Waiting, WaitersConsistent
    <2>2. t \in Awake("dequeue")
        BY <2>1 DEF Awake
    <2>3. (cond_enqueue = {} /\ cond_enqueue' = {})
            \/ \E u \in cond_enqueue : cond_enqueue' = cond_enqueue \ {u}
        BY <1>7, <1>a, SignalledSet DEF Dequeue, TypeOK
    <2>4. Awake("dequeue")' = Awake("dequeue") \ {t}
        BY <1>a, <2>1, <2>3 DEF Awake, Waiting, TypeOK, WaitersConsistent
    <2>5. Cardinality(Awake("dequeue")') = Cardinality(Awake("dequeue")) - 1
        BY <2>2, <2>4, AwakeShrinks
    <2>6. cond_dequeue' # {} => size' <= Cardinality(Awake("dequeue")')
        BY <1>a, <1>b, <2>1, <2>5 DEF NoLostWakeup
    <2>7. cond_enqueue' # {} => BufferSize - 1 - size' <= Cardinality(Awake("enqueue")')
        <3>1. SUFFICES ASSUME NEW u \in cond_enqueue, cond_enqueue' = cond_enqueue \ {u}
                       PROVE  BufferSize - 1 - size' <= Cardinality(Awake("enqueue")')
            BY <2>3
        <3>2. u \in Thread /\ call[u] = "enqueue" /\ u \notin cond_dequeue /\ u # t
            BY <1>a, <2>1 DEF TypeOK, WaitersConsistent
        <3>3. u \notin Awake("enqueue")
            BY DEF Awake, Waiting
        <3>4. Awake("enqueue")' = Awake("enqueue") \cup {u}
            BY <1>a, <2>1, <3>1, <3>2 DEF Awake, Waiting, TypeOK
        <3>5. Cardinality(Awake("enqueue")') = Cardinality(Awake("enqueue")) + 1
            BY <3>3, <3>4, AwakeGrows
        <3>6. BufferSize - 1 - size <= Cardinality(Awake("enqueue"))
            BY DEF NoLostWakeup
        <3> QED BY <1>a, <1>b, <2>1, <3>5, <3>6
    <2> QED BY <2>6, <2>7 DEF NoLostWakeup
<1>8. ASSUME NEW t \in Thread, WakeUp(t) PROVE NoLostWakeup'
    <2>1. \A c \in {"enqueue", "dequeue"} :
            Awake(c)' = Awake(c) \/ Awake(c)' = Awake(c) \cup {t}
        BY <1>8, <1>a DEF WakeUp, Awake, Waiting, TypeOK, WaitersConsistent
    <2>2. \A c \in {"enqueue", "dequeue"} : Cardinality(Awake(c)') >= Cardinality(Awake(c))
        BY <2>1, AwakeStays
    <2>3. /\ cond_enqueue' # {} => cond_enqueue # {}
          /\ cond_dequeue' # {} => cond_dequeue # {}
          /\ size' = size
        BY <1>8 DEF WakeUp, ring
    <2> QED BY <1>a, <1>b, <2>2, <2>3 DEF NoLostWakeup
<1>9. CASE UNCHANGED vars
    BY <1>9 DEF vars, ring, conds, NoLostWakeup, Awake, Waiting
<1> QED BY <1>1, <1>2, <1>3, <1>4, <1>5, <1>6, <1>7, <1>8, <1>9 DEF Next, Call, Step

\* No wakeup is lost, whatever the threads, the calls and the buffer size.
THEOREM WakeupsReachWaiters == Spec => []NoLostWakeup
<1>1. Init => NoLostWakeup
    BY DEF Init, NoLostWakeup
<1> QED BY <1>1, RingInvariant, NextNoLostWakeup, PTL DEF Spec
-----------------------------------------------------------------------------
(* Refinement                                                              *)

\* Contents read without the modulus.
Read == [i \in 1..size |-> buffer[Slot(i - 1)]]

ReadRight == Contents = Read /\ Read \in [1..size -> Item \cup {None}]

LEMMA ContentsIs == RingInv => ReadRight
<1> SUFFICES ASSUME RingInv PROVE ReadRight
    OBVIOUS
<1>1. size \in 0..(BufferSize - 1) /\ BufferSize \in Nat /\ head \in 0..(BufferSize - 1)
    BY TSQueueAssumption DEF RingInv, TypeOK, RingConsistent
<1>2. ASSUME NEW i \in 1..size
      PROVE  (head + i - 1) % BufferSize = Slot(i - 1) /\ buffer[Slot(i - 1)] \in Item \cup {None}
    <2>1. i - 1 \in 0..BufferSize /\ head + i - 1 = head + (i - 1)
        BY <1>1
    <2>2. (head + (i - 1)) % BufferSize = Slot(i - 1)
        BY <2>1, SlotIsMod DEF RingInv
    <2>3. Slot(i - 1) \in 0..(BufferSize - 1)
        BY <1>1, <2>1 DEF Slot
    <2> QED BY <2>1, <2>2, <2>3 DEF RingInv, TypeOK
<1>3. Contents = Read
    BY <1>2 DEF Contents, Read
<1>4. Read \in [1..size -> Item \cup {None}]
    BY <1>2 DEF Read
<1> QED BY <1>3, <1>4 DEF ReadRight

LEMMA ContentsNext == RingInv' => ReadRight'
    BY ContentsIs, PTL

\* What a call does to the items, as the abstract queue does it.
LEMMA EnqueueAppends ==
    ASSUME RingInv, RingInv', NEW t \in Thread, Enqueue(t)
    PROVE  Contents' = Append(Contents, item[t]) /\ Len(Contents) < BufferSize - 1
<1> USE TSQueueAssumption
<1>1. /\ size \in 0..(BufferSize - 1) /\ size < BufferSize - 1 /\ head \in 0..(BufferSize - 1)
      /\ size' = size + 1 /\ head' = head /\ item[t] \in Item \cup {None}
      /\ buffer \in [0..(BufferSize - 1) -> Item \cup {None}]
    BY DEF RingInv, TypeOK, RingConsistent, Enqueue, Full
<1>2. tail = Slot(size) /\ Slot(size) \in 0..(BufferSize - 1)
    BY <1>1, SlotIsMod DEF RingInv, RingConsistent, Slot
<1>3. Contents \in Seq(Item \cup {None}) /\ Len(Contents) = size
    BY <1>1, ContentsIs DEF ReadRight
<1>4. Append(Contents, item[t])
        = [i \in 1..(size + 1) |-> IF i = size + 1 THEN item[t] ELSE Contents[i]]
    BY <1>1, <1>3
<1>5. ASSUME NEW i \in 1..(size + 1)
      PROVE  Read'[i] = IF i = size + 1 THEN item[t] ELSE Contents[i]
    <2>1. Read'[i] = buffer'[Slot(i - 1)]
        BY <1>1, <1>5 DEF Read, Slot
    <2>2. CASE i = size + 1
        BY <1>1, <1>2, <2>1, <2>2 DEF Enqueue
    <2>3. CASE i \in 1..size
        <3>1. Slot(i - 1) # Slot(size)
            BY <1>1, <2>3 DEF Slot
        <3>2. Slot(i - 1) \in 0..(BufferSize - 1)
            BY <1>1, <2>3 DEF Slot
        <3>3. buffer'[Slot(i - 1)] = buffer[Slot(i - 1)]
            BY <1>1, <1>2, <3>1, <3>2 DEF Enqueue
        <3>4. Contents[i] = buffer[Slot(i - 1)] /\ i # size + 1
            BY <1>1, <2>3, ContentsIs DEF ReadRight, Read
        <3> QED BY <2>1, <3>3, <3>4
    <2> QED BY <1>1, <2>2, <2>3
<1>6. Read' = [i \in 1..(size + 1) |-> Read'[i]]
    BY <1>1 DEF Read
<1>7. Read' = Append(Contents, item[t])
    BY <1>4, <1>5, <1>6
<1> QED BY <1>1, <1>3, <1>7, ContentsNext DEF ReadRight

LEMMA DequeueTakesHead ==
    ASSUME RingInv, RingInv', NEW t \in Thread, Dequeue(t)
    PROVE  /\ Contents # <<>>
           /\ Contents' = Tail(Contents)
           /\ item' = [item EXCEPT ![t] = Head(Contents)]
<1> USE TSQueueAssumption
<1>1. /\ size \in 1..(BufferSize - 1) /\ head \in 0..(BufferSize - 1)
      /\ size' = size - 1 /\ head' = After(head) /\ buffer' = buffer
    BY DEF RingInv, TypeOK, RingConsistent, Dequeue, Empty
<1>2. head' = IF head + 1 < BufferSize THEN head + 1 ELSE 0
    BY <1>1, AfterIs
<1>3. Contents \in Seq(Item \cup {None}) /\ Len(Contents) = size
    BY <1>1, ContentsIs DEF ReadRight
<1>4. Contents # <<>> /\ Tail(Contents) = [i \in 1..(size - 1) |-> Contents[i + 1]]
    <2>1. Contents # <<>>
        BY <1>1, <1>3
    <2>2. /\ Tail(Contents) \in Seq(Item \cup {None}) /\ Len(Tail(Contents)) = size - 1
          /\ \A i \in 1..(size - 1) : Tail(Contents)[i] = Contents[i + 1]
        BY <1>3, <2>1, HeadTailProperties
    <2>3. Tail(Contents) = [i \in 1..(size - 1) |-> Tail(Contents)[i]]
        <3>1. \A s \in Seq(Item \cup {None}) : s = [i \in 1..Len(s) |-> s[i]]
            OBVIOUS
        <3> QED BY <2>2, <3>1, Zenon
    <2> QED BY <2>1, <2>2, <2>3
<1>5. Head(Contents) = buffer[head]
    BY <1>1, <1>3, ContentsIs DEF ReadRight, Read, Slot
<1>6. ASSUME NEW i \in 1..(size - 1)
      PROVE  Read'[i] = Contents[i + 1]
    <2>1. Read'[i] = buffer[Slot(i - 1)'] /\ Contents[i + 1] = buffer[Slot(i)]
        BY <1>1, ContentsIs DEF ReadRight, Read
    <2>2. Slot(i - 1)' = Slot(i)
        BY <1>1, <1>2 DEF Slot
    <2> QED BY <2>1, <2>2
<1>7. Read' = [i \in 1..(size - 1) |-> Read'[i]]
    BY <1>1 DEF Read
<1>8. Read' = Tail(Contents)
    BY <1>4, <1>6, <1>7
<1> QED BY <1>4, <1>5, <1>8, ContentsNext DEF Dequeue, FirstItem, ReadRight

LEMMA InitRefines == Init => Abstract!Init
<1> SUFFICES ASSUME Init PROVE Contents = <<>>
    BY DEF Init, Abstract!Init
<1> QED BY DEF Init, Contents

LEMMA NextRefines == RingInv /\ RingInv' /\ [Next]_vars => [Abstract!Next]_(Abstract!vars)
<1> SUFFICES ASSUME RingInv, RingInv', [Next]_vars PROVE [Abstract!Next]_(Abstract!vars)
    OBVIOUS
<1>a. ring' = ring => Contents' = Contents
    BY DEF ring, Contents
<1>1. ASSUME NEW t \in Thread, NEW x \in Item, CallEnqueue(t, x) PROVE Abstract!CallEnqueue(t, x)
    BY <1>1, <1>a DEF CallEnqueue, Abstract!CallEnqueue
<1>2. ASSUME NEW t \in Thread, CallDequeue(t) PROVE Abstract!CallDequeue(t)
    BY <1>2, <1>a DEF CallDequeue, Abstract!CallDequeue
<1>3. ASSUME NEW t \in Thread, Enqueue(t) PROVE Abstract!Enqueue(t)
    BY <1>3, EnqueueAppends DEF Enqueue, Abstract!Enqueue
<1>4. ASSUME NEW t \in Thread, Dequeue(t) PROVE Abstract!Dequeue(t)
    BY <1>4, DequeueTakesHead DEF Dequeue, Abstract!Dequeue
<1>5. ASSUME NEW t \in Thread, Lock(t) \/ EnqueueWaits(t) \/ DequeueWaits(t) \/ WakeUp(t)
      PROVE  UNCHANGED Abstract!vars
    BY <1>5, <1>a DEF Lock, EnqueueWaits, DequeueWaits, WakeUp, Abstract!vars
<1>6. CASE UNCHANGED vars
    BY <1>6, <1>a DEF vars, Abstract!vars
<1> QED BY <1>1, <1>2, <1>3, <1>4, <1>5, <1>6 DEF Next, Call, Step, Abstract!Next

\* The ring buffer with its mutex and its condition variables implements the
\* first-in first-out queue: every enqueue and dequeue takes effect at once.
THEOREM ImplementsQueue == Spec => Linearizable
    BY InitRefines, NextRefines, RingInvariant, PTL DEF Spec, Linearizable, Abstract!Spec

\* Every thread that waits is in the call its condition variable is for.
THEOREM WaitersCorrect == Spec => []WaitersConsistent
    BY RingInvariant, PTL DEF RingInv
=============================================================================
