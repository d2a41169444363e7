---------------------------- MODULE PipelineProofs ----------------------------
(***************************************************************************)
(* Proofs about Pipeline, for any number of producers and consumers, lines *)
(* and places in the queues: no line is lost or doubled, the controller's  *)
(* vector is right, and few lines are never written.                       *)
(***************************************************************************)
EXTENDS Pipeline, SynchProofs, FiniteSetTheorems

\* The items read so far.
Met == { x \in Item : x <= n - reading }

\* No item is twice in the queues.
Apart(r) ==
    /\ \A k \in Queues : Distinct(r[k])
    /\ \A k, l \in Queues : k # l => Elements(r[k]) \cap Elements(r[l]) = {}

\* A worker's item is its own, and in no queue.
HeldInv ==
    /\ \A v, w \in Workers : held[v] # None /\ held[v] = held[w] => v = w
    /\ \A w \in Workers : \A k \in Queues : held[w] \notin Elements(queue[k])

\* A written item is written once, and is nowhere else.
WrittenInv ==
    /\ Distinct(written)
    /\ \A k \in Queues : Elements(written) \cap Elements(queue[k]) = {}
    /\ \A w \in Workers : held[w] \notin Elements(written)

\* The items read are somewhere, and no others.
MetInv ==
    \A x \in Item : x \in Met <=>
        \/ \E k \in Queues : x \in Elements(queue[k])
        \/ \E w \in Workers : held[w] = x
        \/ x \in Elements(written)

ItemsInv == Apart(queue) /\ HeldInv /\ WrittenInv /\ MetInv

\* A worker that waits has nothing.
WaitInv == \A w \in waiting : held[w] = None

PipeInv == TypeOK /\ ItemsInv /\ WaitInv /\ PoolConsistent

-----------------------------------------------------------------------------
(* Types                                                                   *)

LEMMA ItemIsNat == ASSUME n \in Nat PROVE None \notin Item /\ Item \subseteq Nat
    BY PipelineAssumption DEF Item

\* What a call leaves in its queue and in the others.
LEMMA EnqueuedQueue ==
    ASSUME queue \in [Queues -> Seq(Item)], NEW q \in Queues, NEW x \in Item
    PROVE  /\ Enqueued(q, x) \in [Queues -> Seq(Item)]
           /\ Enqueued(q, x)[q] = Append(queue[q], x)
           /\ \A k \in Queues : k # q => Enqueued(q, x)[k] = queue[k]
<1>1. queue[q] \in Seq(Item)
    OBVIOUS
<1>2. Append(queue[q], x) \in Seq(Item)
    BY <1>1
<1> QED BY <1>2 DEF Enqueued

LEMMA DequeuedQueue ==
    ASSUME queue \in [Queues -> Seq(Item)], NEW q \in Queues, queue[q] # <<>>
    PROVE  /\ Dequeued(q) \in [Queues -> Seq(Item)]
           /\ Dequeued(q)[q] = Tail(queue[q])
           /\ Head(queue[q]) \in Item
           /\ \A k \in Queues : k # q => Dequeued(q)[k] = queue[k]
<1>1. queue[q] \in Seq(Item)
    OBVIOUS
<1>2. Tail(queue[q]) \in Seq(Item) /\ Head(queue[q]) \in Item
    BY <1>1
<1> QED BY <1>2 DEF Dequeued

LEMMA InitTypeOK == Init => TypeOK
<1> SUFFICES ASSUME Init PROVE TypeOK
    OBVIOUS
<1>1. n \in Nat
    BY PipelineAssumption DEF Init
<1>2. 0 \in 0..n /\ n \in 0..n
    BY <1>1
<1> QED BY <1>1, <1>2 DEF Init, TypeOK

LEMMA NextTypeOK == TypeOK /\ [Next]_vars => TypeOK'
<1> SUFFICES ASSUME TypeOK, [Next]_vars PROVE TypeOK'
    OBVIOUS
<1> USE DEF TypeOK
<1>0. /\ Item' = 1..n' /\ Item = 1..n
      /\ \A q \in Queues : Len(queue[q]) \in Nat /\ queue[q] \in Seq(Item)
    BY DEF Item
<1>1. ASSUME Read PROVE TypeOK'
    <2>1. n' = n /\ Item' = Item /\ n - reading + 1 \in Item
        BY <1>1, <1>0 DEF Read
    <2>2. queue' \in [Queues -> Seq(Item)]
        <3>1. "input" \in Queues
            BY DEF Queues
        <3> QED BY <1>1, <2>1, <3>1, EnqueuedQueue DEF Read
    <2>3. reading' \in 0..n
        BY <1>1 DEF Read
    <2> QED BY <1>1, <2>1, <2>2, <2>3 DEF Read, pool
<1>2. ASSUME Write PROVE TypeOK'
    <2>1. n' = n /\ Item' = Item /\ "output" \in Queues /\ queue["output"] # <<>>
        BY <1>2, <1>0 DEF Write, CanDequeue, Queues
    <2>2. Head(queue["output"]) \in Item /\ Dequeued("output") \in [Queues -> Seq(Item)]
        BY <2>1, DequeuedQueue
    <2>3. queue' \in [Queues -> Seq(Item)] /\ written' \in Seq(Item)
        BY <1>2, <2>1, <2>2 DEF Write
    <2>4. writing' \in 0..n
        BY <1>2 DEF Write
    <2> QED BY <1>2, <2>1, <2>3, <2>4 DEF Write, pool
<1>3. ASSUME NEW w \in Workers, Work(w) PROVE TypeOK'
    <2>0. Source(w) \in Queues /\ Target(w) \in Queues
        BY DEF Source, Target, Queues
    <2>1. CASE Wait(w)
        BY <2>1, <1>0 DEF Wait, files, pool
    <2>2. CASE Take(w)
        <3>1. n' = n /\ Item' = Item /\ queue[Source(w)] # <<>>
            BY <2>2, <2>0, <1>0 DEF Take, CanDequeue, files
        <3>2. Head(queue[Source(w)]) \in Item /\ Dequeued(Source(w)) \in [Queues -> Seq(Item)]
            BY <2>0, <3>1, DequeuedQueue
        <3>3. queue' \in [Queues -> Seq(Item)] /\ held' \in [Workers -> Item \cup {None}]
            BY <2>2, <3>1, <3>2 DEF Take
        <3> QED BY <2>2, <3>1, <3>3 DEF Take, pool, files
    <2>3. CASE Give(w)
        <3>1. n' = n /\ Item' = Item /\ held[w] \in Item
            BY <2>3, <2>0, <1>0 DEF Give, files
        <3>2. Enqueued(Target(w), held[w]) \in [Queues -> Seq(Item)]
            BY <2>0, <3>1, EnqueuedQueue
        <3>4. queue' \in [Queues -> Seq(Item)] /\ held' \in [Workers -> Item \cup {None}]
            BY <2>3, <3>1, <3>2 DEF Give
        <3>3. state' \in [Consumers -> {"free", "loop", "body"}]
            BY <2>3 DEF Give
        <3> QED BY <2>3, <3>1, <3>4, <3>3 DEF Give, files
    <2>4. CASE w \in Consumers /\ Loop(w)
        BY <2>4, <1>0 DEF Loop, files
    <2> QED BY <1>3, <2>1, <2>2, <2>3, <2>4 DEF Work
<1>4. ASSUME Controller PROVE TypeOK'
    <2>1. CASE Sample
        <3>1. sampled' \in Nat
            BY <2>1, <1>0 DEF Sample, Queues
        <3> QED BY <2>1, <3>1, <1>0 DEF Sample, files
    <2>2. CASE ScaleUp
        <3>1. PICK c \in Consumers : state' = [state EXCEPT ![c] = "loop"] /\ is_cancel' = [is_cancel EXCEPT ![c] = FALSE] /\ consumers' = Append(consumers, c)
            BY <2>2 DEF ScaleUp
        <3>2. state' \in [Consumers -> {"free", "loop", "body"}] /\ is_cancel' \in [Consumers -> BOOLEAN] /\ consumers' \in Seq(Consumers)
            BY <3>1
        <3> QED BY <2>2, <3>2, <1>0 DEF ScaleUp, files
    <2>3. CASE ScaleDown
        <3>1. is_cancel' \in [Consumers -> BOOLEAN] /\ consumers' \in Seq(Consumers)
            BY <2>3 DEF ScaleDown, MayScaleDown
        <3> QED BY <2>3, <3>1, <1>0 DEF ScaleDown, files
    <2>4. CASE KeepScale
        BY <2>4, <1>0 DEF KeepScale, files
    <2> QED BY <1>4, <2>1, <2>2, <2>3, <2>4 DEF Controller
<1>5. ASSUME Main PROVE TypeOK'
    BY <1>5, <1>0 DEF Main, JoinReader, JoinWriter, DeleteQueue, Return, files, pool
<1>6. ASSUME UNCHANGED vars PROVE TypeOK'
    BY <1>6, <1>0 DEF vars, files, pool
<1> QED BY <1>1, <1>2, <1>3, <1>4, <1>5, <1>6 DEF Next, Exited
-----------------------------------------------------------------------------
(* The pool                                                                *)

LEMMA InitPool == Init => WaitInv /\ PoolConsistent
    BY DEF Init, WaitInv, PoolConsistent, Workers

LEMMA NextWaitInv == TypeOK /\ WaitInv /\ [Next]_vars => WaitInv'
<1> SUFFICES ASSUME TypeOK, WaitInv, [Next]_vars PROVE WaitInv'
    OBVIOUS
<1>0. waiting \subseteq Workers /\ held \in [Workers -> Item \cup {None}]
    BY DEF TypeOK
<1>1. ASSUME NEW w \in Workers, Work(w) PROVE WaitInv'
    <2>1. CASE Wait(w)
        BY <2>1, <1>0 DEF Wait, WaitInv
    <2>2. CASE Take(w)
        BY <2>2, <1>0 DEF Take, WaitInv
    <2>3. CASE Give(w)
        BY <2>3, <1>0 DEF Give, WaitInv
    <2>4. CASE w \in Consumers /\ Loop(w)
        BY <2>4 DEF Loop, WaitInv
    <2> QED BY <1>1, <2>1, <2>2, <2>3, <2>4 DEF Work
<1>2. ASSUME UNCHANGED <<held, waiting>> PROVE WaitInv'
    BY <1>2 DEF WaitInv
<1>3. Read \/ Write \/ Controller \/ Main \/ UNCHANGED vars => UNCHANGED <<held, waiting>>
    BY DEF Read, Write, Controller, Sample, ScaleUp, ScaleDown, KeepScale, Main, JoinReader,
           JoinWriter, DeleteQueue, Return, vars
<1> QED BY <1>1, <1>2, <1>3 DEF Next, Exited

LEMMA NextPool == TypeOK /\ WaitInv /\ PoolConsistent /\ [Next]_vars => PoolConsistent'
<1> SUFFICES ASSUME TypeOK, WaitInv, PoolConsistent, [Next]_vars PROVE PoolConsistent'
    OBVIOUS
<1>0. /\ waiting \subseteq Workers /\ held \in [Workers -> Item \cup {None}]
      /\ state \in [Consumers -> {"free", "loop", "body"}]
      /\ is_cancel \in [Consumers -> BOOLEAN]
      /\ consumers \in Seq(Consumers) /\ Consumers \subseteq Workers
      /\ Len(consumers) \in Nat /\ DOMAIN consumers = 1..Len(consumers)
      /\ \A i \in 1..Len(consumers) : consumers[i] \in Consumers
    BY DEF TypeOK, Workers
<1>1. ASSUME UNCHANGED <<held, waiting, state, is_cancel, consumers>> PROVE PoolConsistent'
    BY <1>1 DEF PoolConsistent
<1>2. Read \/ Write \/ Sample \/ KeepScale \/ Main \/ UNCHANGED vars
        => UNCHANGED <<held, waiting, state, is_cancel, consumers>>
    BY DEF Read, Write, Sample, KeepScale, Main, JoinReader, JoinWriter, DeleteQueue, Return,
           vars, pool
<1>3. ASSUME NEW w \in Workers, Work(w) PROVE PoolConsistent'
    <2>1. CASE Wait(w)
        <3>1. w \in Consumers => state[w] = "body"
            BY <2>1 DEF Wait, InBody
        <3> QED BY <2>1, <3>1, <1>0 DEF Wait, pool, PoolConsistent
    <2>2. CASE Take(w)
        <3>1. w \in Consumers => state[w] = "body"
            BY <2>2 DEF Take, InBody
        <3>2. /\ \A v \in Workers : v # w => held'[v] = held[v]
              /\ waiting' \subseteq waiting
              /\ UNCHANGED <<state, is_cancel, consumers>>
            BY <2>2, <1>0 DEF Take, pool
        <3> QED BY <3>1, <3>2, <1>0 DEF PoolConsistent
    <2>3. CASE Give(w)
        <3>1. /\ \A v \in Workers : held'[v] = IF v = w THEN None ELSE held[v]
              /\ \A c \in Consumers : state'[c] = IF c = w THEN "loop" ELSE state[c]
              /\ UNCHANGED <<waiting, is_cancel, consumers>>
            BY <2>3, <1>0 DEF Give
        <3>2. w \notin waiting
            BY <2>3 DEF Give, WaitInv
        <3>3. w \in Consumers => state[w] = "body"
            BY <2>3 DEF Give, InBody
        <3> QED BY <3>1, <3>2, <3>3, <1>0 DEF PoolConsistent
    <2>4. CASE w \in Consumers /\ Loop(w)
        <3>1. /\ state[w] = "loop"
              /\ \A c \in Consumers : state'[c] =
                    IF c = w THEN (IF is_cancel[w] THEN "free" ELSE "body") ELSE state[c]
              /\ UNCHANGED <<held, waiting, is_cancel, consumers>>
            BY <2>4, <1>0 DEF Loop
        <3> QED BY <2>4, <3>1, <1>0 DEF PoolConsistent
    <2> QED BY <1>3, <2>1, <2>2, <2>3, <2>4 DEF Work
<1>4. ASSUME ScaleUp PROVE PoolConsistent'
    <2>1. PICK c \in Consumers :
            /\ state[c] = "free"
            /\ state' = [state EXCEPT ![c] = "loop"]
            /\ is_cancel' = [is_cancel EXCEPT ![c] = FALSE]
            /\ consumers' = Append(consumers, c)
        BY <1>4 DEF ScaleUp
    <2>2. UNCHANGED <<held, waiting>>
        BY <1>4 DEF ScaleUp
    <2>3. /\ DOMAIN consumers' = 1..(Len(consumers) + 1)
          /\ \A i \in 1..Len(consumers) : consumers'[i] = consumers[i]
          /\ consumers'[Len(consumers) + 1] = c
        BY <2>1, <1>0
    <2>4. \A i \in DOMAIN consumers : consumers[i] # c
        BY <2>1 DEF PoolConsistent
    <2>5. \A i, j \in DOMAIN consumers' : consumers'[i] = consumers'[j] => i = j
        BY <2>3, <2>4, <1>0 DEF PoolConsistent
    <2>6. ASSUME NEW d \in Consumers
          PROVE  (\E i \in DOMAIN consumers' : consumers'[i] = d)
                    <=> d = c \/ \E i \in DOMAIN consumers : consumers[i] = d
        <3>1. Len(consumers) + 1 \in DOMAIN consumers' /\ DOMAIN consumers \subseteq DOMAIN consumers'
            BY <2>3, <1>0
        <3> QED BY <2>3, <3>1, <1>0
    <2>7. \A d \in Consumers : /\ state'[d] = IF d = c THEN "loop" ELSE state[d]
                               /\ is_cancel'[d] = IF d = c THEN FALSE ELSE is_cancel[d]
        BY <2>1, <1>0
    <2> QED BY <2>1, <2>2, <2>5, <2>6, <2>7, <1>0 DEF PoolConsistent
<1>5. ASSUME ScaleDown PROVE PoolConsistent'
    <2> DEFINE m == Len(consumers)
               c == consumers[m]
    <2>1. m > 1 /\ m \in Nat /\ c \in Consumers
        BY <1>5, <1>0 DEF ScaleDown, MayScaleDown
    <2>2. /\ is_cancel' = [is_cancel EXCEPT ![c] = TRUE]
          /\ UNCHANGED <<held, waiting, state>>
          /\ consumers' = SubSeq(consumers, 1, m - 1)
        BY <1>5 DEF ScaleDown
    <2>3. DOMAIN consumers' = 1..(m - 1) /\ \A i \in 1..(m - 1) : consumers'[i] = consumers[i]
        BY <2>1, <2>2, <1>0
    <2>4. \A d \in Consumers : is_cancel'[d] = IF d = c THEN TRUE ELSE is_cancel[d]
        BY <2>1, <2>2, <1>0
    <2>5. m \in DOMAIN consumers /\ DOMAIN consumers = 1..m
        BY <2>1, <1>0
    <2> HIDE DEF m, c
    <2>6. 1..(m - 1) \subseteq 1..m /\ \A i \in 1..m : i # m => i \in 1..(m - 1)
        BY <2>1
    <2>7. \A i, j \in DOMAIN consumers' : consumers'[i] = consumers'[j] => i = j
        BY <2>3, <2>5, <2>6 DEF PoolConsistent
    <2>8. consumers[m] = c
        BY DEF m, c
    <2>9. ASSUME NEW d \in Consumers
          PROVE  (\E i \in DOMAIN consumers' : consumers'[i] = d)
                    <=> d # c /\ \E i \in DOMAIN consumers : consumers[i] = d
        <3>1. \A i \in 1..(m - 1) : consumers[i] # c
            <4> SUFFICES ASSUME NEW i \in 1..(m - 1), consumers[i] = c PROVE FALSE
                OBVIOUS
            <4>1. i = m
                BY <2>5, <2>6, <2>8 DEF PoolConsistent
            <4> QED BY <2>1, <4>1
        <3> QED BY <2>3, <2>5, <2>6, <2>8, <3>1
    <2> QED BY <2>2, <2>4, <2>7, <2>9, <1>0 DEF PoolConsistent
<1> QED BY <1>1, <1>2, <1>3, <1>4, <1>5 DEF Next, Exited, Controller
-----------------------------------------------------------------------------
(* The items                                                               *)

\* An item that is in no queue goes into one.
LEMMA EnqueuedApart ==
    ASSUME queue \in [Queues -> Seq(Item)], Apart(queue), NEW q \in Queues, NEW x \in Item,
           \A k \in Queues : x \notin Elements(queue[k])
    PROVE  /\ Apart(Enqueued(q, x))
           /\ \A k \in Queues : Elements(Enqueued(q, x)[k]) =
                    IF k = q THEN Elements(queue[k]) \cup {x} ELSE Elements(queue[k])
<1> DEFINE r == Enqueued(q, x)
<1>1. r[q] = Append(queue[q], x) /\ \A k \in Queues : k # q => r[k] = queue[k]
    BY EnqueuedQueue
<1>2. queue[q] \in Seq(Item) /\ x \notin Elements(queue[q]) /\ Distinct(queue[q])
    BY DEF Apart
<1>3. Elements(r[q]) = Elements(queue[q]) \cup {x} /\ Distinct(r[q])
    BY <1>1, <1>2, ElementsOfAppend
<1> HIDE DEF r
<1>4. \A k \in Queues : Elements(r[k]) =
            IF k = q THEN Elements(queue[k]) \cup {x} ELSE Elements(queue[k])
    BY <1>1, <1>3
<1>5. Apart(r)
    BY <1>1, <1>3, <1>4 DEF Apart
<1> QED BY <1>4, <1>5 DEF r

\* The first item of a queue is taken out.
LEMMA DequeuedApart ==
    ASSUME queue \in [Queues -> Seq(Item)], Apart(queue), NEW q \in Queues, queue[q] # <<>>
    PROVE  /\ Apart(Dequeued(q))
           /\ Head(queue[q]) \in Elements(queue[q])
           /\ \A k \in Queues : Elements(Dequeued(q)[k]) = Elements(queue[k]) \ {Head(queue[q])}
<1> DEFINE r == Dequeued(q)
           x == Head(queue[q])
<1>1. r[q] = Tail(queue[q]) /\ \A k \in Queues : k # q => r[k] = queue[k]
    BY DequeuedQueue
<1>2. queue[q] \in Seq(Item) /\ Distinct(queue[q])
    BY DEF Apart
<1>3. /\ Elements(r[q]) = Elements(queue[q]) \ {x}
      /\ Distinct(r[q])
      /\ x \in Elements(queue[q])
    BY <1>1, <1>2, ElementsOfTail
<1> HIDE DEF r, x
<1>4. \A k \in Queues : Elements(r[k]) = Elements(queue[k]) \ {x}
    BY <1>1, <1>3 DEF Apart
<1>5. Apart(r)
    BY <1>1, <1>3, <1>4 DEF Apart
<1> QED BY <1>3, <1>4, <1>5 DEF r, x

LEMMA InitItems == Init => ItemsInv
<1> SUFFICES ASSUME Init PROVE ItemsInv
    OBVIOUS
<1>1. Elements(<<>>) = {} /\ Distinct(<<>>)
    BY DEF Elements, Distinct
<1>2. n \in Nat /\ Met = {}
    BY PipelineAssumption DEF Init, Met, Item
<1>3. \A k \in Queues : queue[k] = <<>>
    BY DEF Init
<1>4. \A w \in Workers : held[w] = None
    BY DEF Init
<1>5. None \notin Item
    BY <1>2, ItemIsNat
<1> QED BY <1>1, <1>2, <1>3, <1>4, <1>5 DEF Init, ItemsInv, Apart, HeldInv, WrittenInv, MetInv

LEMMA ReadKeepsItems == TypeOK /\ ItemsInv /\ Read => ItemsInv'
<1> SUFFICES ASSUME TypeOK, ItemsInv, Read PROVE ItemsInv'
    OBVIOUS
<1> DEFINE x == n - reading + 1
<1>1. /\ n \in Nat /\ reading \in 1..n /\ queue \in [Queues -> Seq(Item)] /\ "input" \in Queues
      /\ n' = n /\ reading' = reading - 1
      /\ Item' = Item
    BY DEF TypeOK, Read, Queues, Item
<1>2. x \in Item /\ x \notin Met /\ Met' = Met \cup {x}
    BY <1>1 DEF Met, Item
<1>3. queue' = Enqueued("input", x) /\ UNCHANGED <<held, written>>
    BY DEF Read
<1> HIDE DEF x
<1>4. /\ \A k \in Queues : x \notin Elements(queue[k])
      /\ \A w \in Workers : held[w] # x
      /\ x \notin Elements(written)
    BY <1>2 DEF ItemsInv, MetInv
<1>5. /\ Apart(queue')
      /\ \A k \in Queues : Elements(queue'[k]) =
            IF k = "input" THEN Elements(queue[k]) \cup {x} ELSE Elements(queue[k])
    <2>1. Apart(queue)
        BY DEF ItemsInv
    <2>2. /\ Apart(Enqueued("input", x))
          /\ \A k \in Queues : Elements(Enqueued("input", x)[k]) =
                IF k = "input" THEN Elements(queue[k]) \cup {x} ELSE Elements(queue[k])
        BY <1>1, <1>2, <1>4, <2>1, EnqueuedApart
    <2>3. queue' = Enqueued("input", x)
        BY <1>3
    <2> QED BY <2>2, <2>3
<1>6. HeldInv'
    BY <1>3, <1>4, <1>5 DEF ItemsInv, HeldInv
<1>7. WrittenInv'
    BY <1>3, <1>4, <1>5 DEF ItemsInv, WrittenInv
<1>8. MetInv'
    BY <1>1, <1>2, <1>3, <1>5 DEF ItemsInv, MetInv
<1> QED BY <1>5, <1>6, <1>7, <1>8 DEF ItemsInv

LEMMA WriteKeepsItems == TypeOK /\ ItemsInv /\ Write => ItemsInv'
<1> SUFFICES ASSUME TypeOK, ItemsInv, Write PROVE ItemsInv'
    OBVIOUS
<1> DEFINE x == Head(queue["output"])
<1>1. /\ queue \in [Queues -> Seq(Item)] /\ "output" \in Queues /\ queue["output"] # <<>>
      /\ written \in Seq(Item)
    BY DEF TypeOK, Write, CanDequeue, Queues
<1>2. queue' = Dequeued("output") /\ written' = Append(written, x) /\ UNCHANGED <<n, reading, held>>
    BY DEF Write
<1>3. x \in Item
    BY <1>1, DequeuedQueue
<1>4. /\ Apart(queue')
      /\ x \in Elements(queue["output"])
      /\ \A k \in Queues : Elements(queue'[k]) = Elements(queue[k]) \ {x}
    BY <1>1, <1>2, DequeuedApart DEF ItemsInv
<1>5. x \notin Elements(written) /\ \A w \in Workers : held[w] # x
    BY <1>1, <1>4 DEF ItemsInv, WrittenInv, HeldInv
<1> HIDE DEF x
<1>6. Elements(written') = Elements(written) \cup {x} /\ Distinct(written')
    BY <1>1, <1>2, <1>3, <1>5, ElementsOfAppend DEF ItemsInv, WrittenInv
<1>7. Met' = Met /\ Item' = Item
    BY <1>2 DEF Met, Item
<1>8. HeldInv'
    BY <1>2, <1>4 DEF ItemsInv, HeldInv
<1>9. WrittenInv'
    BY <1>2, <1>4, <1>5, <1>6 DEF ItemsInv, WrittenInv
<1>10. MetInv'
    BY <1>1, <1>2, <1>4, <1>6, <1>7 DEF ItemsInv, MetInv
<1> QED BY <1>4, <1>8, <1>9, <1>10 DEF ItemsInv

LEMMA TakeKeepsItems == ASSUME NEW w \in Workers PROVE TypeOK /\ ItemsInv /\ Take(w) => ItemsInv'
<1> SUFFICES ASSUME TypeOK, ItemsInv, Take(w) PROVE ItemsInv'
    OBVIOUS
<1> DEFINE s == Source(w)
           x == Head(queue[s])
<1>1. /\ queue \in [Queues -> Seq(Item)] /\ s \in Queues /\ queue[s] # <<>>
      /\ held \in [Workers -> Item \cup {None}] /\ held[w] = None
    BY DEF TypeOK, Take, CanDequeue, Queues, Source
<1>2. /\ queue' = Dequeued(s) /\ UNCHANGED <<n, reading, written>>
      /\ \A v \in Workers : held'[v] = IF v = w THEN x ELSE held[v]
    BY <1>1 DEF Take, files
<1>3. x \in Item
    BY <1>1, DequeuedQueue
<1>4. /\ Apart(queue')
      /\ x \in Elements(queue[s])
      /\ \A k \in Queues : Elements(queue'[k]) = Elements(queue[k]) \ {x}
    BY <1>1, <1>2, DequeuedApart DEF ItemsInv
<1> HIDE DEF x, s
<1>5. x \notin Elements(written) /\ \A v \in Workers : held[v] # x
    BY <1>1, <1>4 DEF ItemsInv, WrittenInv, HeldInv
<1>6. Met' = Met /\ Item' = Item
    BY <1>2 DEF Met, Item
<1>7. None \notin Item
    BY ItemIsNat DEF TypeOK
<1>8. HeldInv'
    BY <1>2, <1>4, <1>5 DEF ItemsInv, HeldInv
<1>9. WrittenInv'
    BY <1>2, <1>4, <1>5 DEF ItemsInv, WrittenInv
<1>10. MetInv'
    BY <1>1, <1>2, <1>3, <1>4, <1>6, <1>7 DEF ItemsInv, MetInv
<1> QED BY <1>4, <1>8, <1>9, <1>10 DEF ItemsInv

LEMMA GiveKeepsItems == ASSUME NEW w \in Workers PROVE TypeOK /\ ItemsInv /\ Give(w) => ItemsInv'
<1> SUFFICES ASSUME TypeOK, ItemsInv, Give(w) PROVE ItemsInv'
    OBVIOUS
<1> DEFINE s == Target(w)
           x == held[w]
<1>1. /\ queue \in [Queues -> Seq(Item)] /\ s \in Queues
      /\ held \in [Workers -> Item \cup {None}] /\ x \in Item /\ x # None
    BY DEF TypeOK, Give, Queues, Target
<1>2. /\ queue' = Enqueued(s, x) /\ UNCHANGED <<n, reading, written>>
      /\ \A v \in Workers : held'[v] = IF v = w THEN None ELSE held[v]
    BY <1>1 DEF Give, files
<1>3. /\ \A k \in Queues : x \notin Elements(queue[k])
      /\ \A v \in Workers : v # w => held[v] # x
      /\ x \notin Elements(written)
    BY <1>1 DEF ItemsInv, HeldInv, WrittenInv
<1>4. held[w] = x
    OBVIOUS
<1> HIDE DEF x, s
<1>5. /\ Apart(queue')
      /\ \A k \in Queues : Elements(queue'[k]) =
            IF k = s THEN Elements(queue[k]) \cup {x} ELSE Elements(queue[k])
    <2>1. Apart(queue)
        BY DEF ItemsInv
    <2>2. /\ Apart(Enqueued(s, x))
          /\ \A k \in Queues : Elements(Enqueued(s, x)[k]) =
                IF k = s THEN Elements(queue[k]) \cup {x} ELSE Elements(queue[k])
        BY <1>1, <1>3, <2>1, EnqueuedApart
    <2>3. queue' = Enqueued(s, x)
        BY <1>2
    <2> QED BY <2>2, <2>3
<1>6. Met' = Met /\ Item' = Item
    BY <1>2 DEF Met, Item
<1>7. None \notin Item
    BY ItemIsNat DEF TypeOK
<1>8. /\ \A k \in Queues : Elements(queue'[k]) \subseteq Item
      /\ Elements(written) \subseteq Item
    <2>1. \A k \in Queues : queue[k] \in Seq(Item)
        BY <1>1
    <2>2. \A q \in Seq(Item) : Elements(q) \subseteq Item
        BY DEF Elements
    <2>3. written \in Seq(Item)
        BY DEF TypeOK
    <2> QED BY <1>1, <1>5, <2>1, <2>2, <2>3
<1>9. HeldInv'
    <2>1. \A u, v \in Workers : held'[v] # None /\ held'[v] = held'[u] => u = v
        BY <1>2 DEF ItemsInv, HeldInv
    <2>2. \A v \in Workers, k \in Queues : held'[v] \notin Elements(queue'[k])
        BY <1>2, <1>3, <1>5, <1>7, <1>8 DEF ItemsInv, HeldInv
    <2> QED BY <2>1, <2>2 DEF HeldInv
<1>10. WrittenInv'
    BY <1>2, <1>3, <1>5, <1>7, <1>8 DEF ItemsInv, WrittenInv
<1>11. MetInv'
    <2> SUFFICES ASSUME NEW y \in Item
                 PROVE  y \in Met <=> \/ \E k \in Queues : y \in Elements(queue'[k])
                                     \/ \E v \in Workers : held'[v] = y
                                     \/ y \in Elements(written)
        BY <1>2, <1>6 DEF MetInv
    <2>1. y \in Met <=> \/ \E k \in Queues : y \in Elements(queue[k])
                        \/ \E v \in Workers : held[v] = y
                        \/ y \in Elements(written)
        BY DEF ItemsInv, MetInv
    <2>2. (\E k \in Queues : y \in Elements(queue'[k]))
            <=> y = x \/ \E k \in Queues : y \in Elements(queue[k])
        BY <1>1, <1>5
    <2>3. (\E v \in Workers : held'[v] = y) \/ y = x <=> \E v \in Workers : held[v] = y
        BY <1>2, <1>4, <1>7
    <2> QED BY <2>1, <2>2, <2>3
<1> QED BY <1>5, <1>9, <1>10, <1>11 DEF ItemsInv

LEMMA NextItems == TypeOK /\ ItemsInv /\ [Next]_vars => ItemsInv'
<1> SUFFICES ASSUME TypeOK, ItemsInv, [Next]_vars PROVE ItemsInv'
    OBVIOUS
<1>1. ASSUME UNCHANGED <<n, reading, queue, held, written>> PROVE ItemsInv'
    BY <1>1 DEF ItemsInv, Apart, HeldInv, WrittenInv, MetInv, Met, Item
<1>2. Controller \/ Main \/ UNCHANGED vars => UNCHANGED <<n, reading, queue, held, written>>
    BY DEF Controller, Sample, ScaleUp, ScaleDown, KeepScale, Main, JoinReader, JoinWriter,
           DeleteQueue, Return, vars, files
<1>3. ASSUME NEW w \in Workers, Work(w) PROVE ItemsInv'
    <2>1. Wait(w) \/ (w \in Consumers /\ Loop(w)) => UNCHANGED <<n, reading, queue, held, written>>
        BY DEF Wait, Loop, files
    <2> QED BY <1>1, <1>3, <2>1, TakeKeepsItems, GiveKeepsItems DEF Work
<1> QED BY <1>1, <1>2, <1>3, ReadKeepsItems, WriteKeepsItems DEF Next, Exited
-----------------------------------------------------------------------------
(* The theorems about every state                                          *)

LEMMA PipeInvariant == Spec => []PipeInv
<1>1. Init => PipeInv
    BY InitTypeOK, InitPool, InitItems DEF PipeInv
<1>2. PipeInv /\ [Next]_vars => PipeInv'
    BY NextTypeOK, NextWaitInv, NextPool, NextItems DEF PipeInv
<1> QED BY <1>1, <1>2, PTL DEF Spec

\* The variables keep their types: in particular the countdowns of reader and
\* writer stay between 0 and n, and what goes through the queues are lines read.
THEOREM TypeCorrect == Spec => []TypeOK
<1>1. PipeInv => TypeOK
    BY DEF PipeInv
<1> QED BY <1>1, PipeInvariant, PTL

\* Whatever the controller does and whenever a consumer notices that it is
\* cancelled, the vector holds the consumers that live and are not cancelled, and
\* a consumer that deletes itself holds no item and waits nowhere.
THEOREM PoolIsConsistent == Spec => []PoolConsistent
<1>1. PipeInv => PoolConsistent
    BY DEF PipeInv
<1> QED BY <1>1, PipeInvariant, PTL

-----------------------------------------------------------------------------
(* Each item has one place                                                 *)

\* A sequence of different items is no longer than there are items.
LEMMA DistinctIsShort ==
    ASSUME n \in Nat, NEW q \in Seq(Item), Distinct(q)
    PROVE  Len(q) <= n
<1>1. Len(q) \in Nat /\ q \in [1..Len(q) -> 1..n]
    BY DEF Item
<1>2. q \in Injection(1..Len(q), 1..n)
    BY <1>1 DEF Distinct, Injection, IsInjective
<1>3. \A m \in Nat : IsFiniteSet(1..m) /\ Cardinality(1..m) = m
    BY FS_Interval
<1>4. Cardinality(1..Len(q)) <= Cardinality(1..n)
    BY <1>2, <1>3, FS_Injection
<1> QED BY <1>1, <1>3, <1>4

LEMMA ItemsHaveOnePlace == PipeInv => OnePlace
<1> SUFFICES ASSUME PipeInv, NEW x \in Item
             PROVE  Cardinality(Places(x)) = IF x <= n - reading THEN 1 ELSE 0
    BY DEF OnePlace
<1>1. /\ n \in Nat /\ queue \in [Queues -> Seq(Item)] /\ written \in Seq(Item)
      /\ Apart(queue) /\ HeldInv /\ WrittenInv
    BY DEF PipeInv, TypeOK, ItemsInv
<1> DEFINE inQueue(q) == { <<q, i>> : i \in { j \in DOMAIN queue[q] : queue[q][j] = x } }
           inQueues == UNION { inQueue(q) : q \in Queues }
           inWritten == { <<"written", i>> : i \in { j \in DOMAIN written : written[j] = x } }
           inHands == { <<"held", w>> : w \in { v \in Workers : held[v] = x } }
<1>2. Places(x) = inQueues \cup inWritten \cup inHands
    BY DEF Places
<1>3. (\A k \in Queues : x \notin Elements(queue[k])) => inQueues = {}
    BY DEF Elements
<1>4. x \notin Elements(written) => inWritten = {}
    BY DEF Elements
<1>5. (\A w \in Workers : held[w] # x) => inHands = {}
    OBVIOUS
<1>6. x <= n - reading <=> x \in Met
    BY DEF Met
<1>7. CASE x \notin Met
    <2>1. inQueues = {} /\ inWritten = {} /\ inHands = {}
        BY <1>3, <1>4, <1>5, <1>7 DEF PipeInv, ItemsInv, MetInv
    <2> QED BY <1>2, <1>6, <1>7, <2>1, FS_EmptySet
<1>8. CASE \E k \in Queues : x \in Elements(queue[k])
    <2>1. PICK k \in Queues : x \in Elements(queue[k])
        BY <1>8
    <2>2. PICK i \in DOMAIN queue[k] : queue[k][i] = x
        BY <2>1 DEF Elements
    <2>3. queue[k] \in Seq(Item) /\ Distinct(queue[k])
        BY <1>1 DEF Apart
    <2>5. inWritten = {} /\ inHands = {}
        BY <1>1, <1>4, <1>5, <2>1 DEF HeldInv, WrittenInv
    <2>6. inQueue(k) = {<<k, i>>}
        BY <2>2, <2>3 DEF Distinct
    <2>7. \A q \in Queues : q # k => inQueue(q) = {}
        BY <1>1, <2>1 DEF Apart, Elements
    <2>8. Places(x) = {<<k, i>>}
        BY <1>2, <2>5, <2>6, <2>7
    <2>9. x \in Met
        BY <2>1 DEF PipeInv, ItemsInv, MetInv
    <2> QED BY <1>6, <2>8, <2>9, FS_Singleton
<1>9. CASE x \in Elements(written)
    <2>1. PICK i \in DOMAIN written : written[i] = x
        BY <1>9 DEF Elements
    <2>2. inQueues = {} /\ inHands = {}
        BY <1>1, <1>3, <1>5, <1>9 DEF WrittenInv
    <2>3. \A j \in DOMAIN written : written[j] = x => j = i
        BY <1>1, <2>1 DEF WrittenInv, Distinct
    <2>4. Places(x) = {<<"written", i>>}
        BY <1>2, <2>1, <2>2, <2>3
    <2>5. x \in Met
        BY <1>9 DEF PipeInv, ItemsInv, MetInv
    <2> QED BY <1>6, <2>4, <2>5, FS_Singleton
<1>10. CASE \E w \in Workers : held[w] = x
    <2>1. PICK w \in Workers : held[w] = x
        BY <1>10
    <2>2. x # None
        BY <1>1, ItemIsNat
    <2>3. inQueues = {} /\ inWritten = {}
        BY <1>1, <1>3, <1>4, <2>1 DEF HeldInv, WrittenInv
    <2>4. \A v \in Workers : held[v] = x => v = w
        BY <1>1, <2>1, <2>2 DEF HeldInv
    <2>5. Places(x) = {<<"held", w>>}
        BY <1>2, <2>1, <2>3, <2>4
    <2>6. x \in Met
        BY <2>1 DEF PipeInv, ItemsInv, MetInv
    <2> QED BY <1>6, <2>5, <2>6, FS_Singleton
<1> QED BY <1>7, <1>8, <1>9, <1>10 DEF PipeInv, ItemsInv, MetInv

\* Every line read is in exactly one queue, or with exactly one worker, or written
\* once, and no line is anywhere before it is read: with any number of producers
\* and consumers, and any resizing of the pool, none is lost and none is doubled.
THEOREM ItemsInOnePlace == Spec => []OnePlace
    BY PipeInvariant, ItemsHaveOnePlace, PTL

-----------------------------------------------------------------------------
(* Few lines                                                               *)

\* No consumer is ever there to fill the output queue, so the writer waits: the
\* worker queue never holds more than the lines there are.
FewInv ==
    n \in 1..HighThreshold =>
        /\ consumers = <<>>
        /\ \A c \in Consumers : state[c] = "free"
        /\ queue["output"] = <<>>
        /\ written = <<>>
        /\ writing = n
        /\ main \in {"reader", "writer"}
        /\ sampled # None => sampled <= HighThreshold

LEMMA InitFewInv == Init => FewInv
    BY DEF Init, FewInv, Queues

LEMMA NextFewInv == PipeInv /\ FewInv /\ [Next]_vars => FewInv'
<1> SUFFICES ASSUME PipeInv, FewInv, [Next]_vars, n' \in 1..HighThreshold PROVE FewInv'
    BY DEF FewInv
<1>0. n' = n
    BY DEF Next, Exited, Read, Write, Work, Wait, Take, Give, Loop, Controller, Sample, ScaleUp,
           ScaleDown, KeepScale, Main, JoinReader, JoinWriter, DeleteQueue, Return, vars, files
<1>1. /\ n \in 1..HighThreshold /\ n \in Nat /\ HighThreshold \in Nat
      /\ consumers = <<>>
      /\ \A c \in Consumers : state[c] = "free"
      /\ queue["output"] = <<>> /\ written = <<>> /\ writing = n
      /\ main \in {"reader", "writer"}
      /\ sampled # None => sampled <= HighThreshold
    BY <1>0, PipelineAssumption DEF FewInv, PipeInv, TypeOK
<1>2. queue \in [Queues -> Seq(Item)] /\ Queues = {"input", "worker", "output"}
    BY DEF PipeInv, TypeOK, Queues
<1>3. CASE Read
    <2>1. n - reading + 1 \in Item
        BY <1>3, <1>1 DEF Read, PipeInv, TypeOK, Item
    <2>2. queue'["output"] = queue["output"]
        BY <1>2, <1>3, <2>1, EnqueuedQueue DEF Read
    <2> QED BY <1>1, <1>3, <2>2 DEF Read, pool, FewInv
<1>4. ~Write
    BY <1>1 DEF Write, CanDequeue
<1>5. ASSUME NEW w \in Workers, Work(w) PROVE FewInv'
    <2>1. w \in Producers /\ w \notin Consumers
        <3>1. ASSUME w \in Consumers PROVE FALSE
            <4>1. ~InBody(w) /\ ~Loop(w)
                BY <1>1, <3>1 DEF InBody, Loop
            <4> QED BY <1>5, <4>1 DEF Work, Wait, Take, Give
        <3> QED BY <3>1 DEF Workers
    <2>2. UNCHANGED <<files, pool, main>> /\ queue'["output"] = queue["output"]
        <3>1. CASE Wait(w)
            BY <3>1 DEF Wait
        <3>2. CASE Take(w)
            <4>1. Source(w) = "input" /\ queue["input"] # <<>>
                BY <2>1, <3>2 DEF Source, Take, CanDequeue
            <4> QED BY <1>2, <3>2, <4>1, DequeuedQueue DEF Take
        <3>3. CASE Give(w)
            <4>1. Target(w) = "worker" /\ held[w] \in Item
                BY <2>1, <3>3 DEF Target, Give, PipeInv, TypeOK
            <4>2. queue'["output"] = queue["output"]
                BY <1>2, <3>3, <4>1, EnqueuedQueue DEF Give
            <4> QED BY <2>1, <3>3, <4>2 DEF Give, pool
        <3> QED BY <1>5, <2>1, <3>1, <3>2, <3>3 DEF Work
    <2> QED BY <1>1, <2>2 DEF files, pool, FewInv
<1>6. CASE Controller
    <2>1. CASE Sample
        <3>1. Len(queue["worker"]) <= n
            BY <1>1, <1>2, DistinctIsShort DEF PipeInv, ItemsInv, Apart
        <3>2. Len(queue["worker"]) <= HighThreshold
            <4>1. Len(queue["worker"]) \in Nat
                BY <1>2
            <4> QED BY <1>1, <3>1, <4>1
        <3> QED BY <1>1, <2>1, <3>2 DEF Sample, files, FewInv
    <2>2. ~ScaleUp
        BY <1>1 DEF ScaleUp, PipeInv, TypeOK
    <2>3. ~ScaleDown
        <3>1. Len(consumers) = 0
            BY <1>1
        <3> QED BY <3>1 DEF ScaleDown, MayScaleDown
    <2>4. CASE KeepScale
        BY <1>1, <2>4 DEF KeepScale, files, FewInv
    <2> QED BY <1>6, <2>1, <2>2, <2>3, <2>4 DEF Controller
<1>7. CASE Main
    <2>1. CASE JoinReader
        BY <1>1, <2>1 DEF JoinReader, files, pool, FewInv
    <2>2. ~JoinWriter
        BY <1>1 DEF JoinWriter
    <2>3. \A q \in Queues : ~DeleteQueue(q)
        BY <1>1 DEF DeleteQueue
    <2>4. ~Return
        BY <1>1 DEF Return
    <2> QED BY <1>7, <2>1, <2>2, <2>3, <2>4 DEF Main
<1>8. CASE UNCHANGED vars
    BY <1>1, <1>8 DEF vars, files, pool, FewInv
<1> QED BY <1>3, <1>4, <1>5, <1>6, <1>7, <1>8 DEF Next, Exited

\* For every high threshold and every number of producers: a file with no more
\* lines than the threshold never makes the controller create a consumer, so that
\* nothing is written and main never returns from writer->join().
THEOREM FewLinesNeverWritten == Spec => []FewLinesStall
<1>1. PipeInv /\ FewInv => FewLinesStall
    BY DEF FewInv, FewLinesStall
<1> QED BY <1>1, InitFewInv, NextFewInv, PipeInvariant, PTL DEF Spec
=============================================================================
