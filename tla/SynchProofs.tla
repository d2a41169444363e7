----------------------------- MODULE SynchProofs ------------------------------
(***************************************************************************)
(* What P and V do to the value of a semaphore and to the threads asleep   *)
(* on it.                                                                  *)
(***************************************************************************)
EXTENDS Synch, SequenceTheorems, TLAPS

\* No thread is twice in a queue.
Distinct(queue) == \A i, j \in DOMAIN queue : queue[i] = queue[j] => i = j

LEMMA NewSemaphoreIs ==
    ASSUME NEW T, NEW n \in Nat
    PROVE  /\ NewSemaphore(n) \in Semaphores(T)
           /\ NewSemaphore(n).value = n
           /\ NewSemaphore(n).queue = <<>>
           /\ Distinct(NewSemaphore(n).queue)
           /\ Asleep(NewSemaphore(n)) = {}
    BY DEF NewSemaphore, Semaphores, Distinct, Asleep, Elements

LEMMA ElementsOfAppend ==
    ASSUME NEW T, NEW q \in Seq(T), NEW t \in T
    PROVE  /\ Append(q, t) \in Seq(T)
           /\ Elements(Append(q, t)) = Elements(q) \cup {t}
           /\ Append(q, t) # <<>>
           /\ Distinct(q) /\ t \notin Elements(q) => Distinct(Append(q, t))
<1> DEFINE r == Append(q, t)
<1>1. /\ r \in Seq(T) /\ Len(r) = Len(q) + 1 /\ DOMAIN r = 1..(Len(q) + 1)
      /\ \A i \in 1..Len(q) : r[i] = q[i]
      /\ r[Len(q) + 1] = t
    OBVIOUS
<1>2. DOMAIN q = 1..Len(q) /\ Len(q) \in Nat
    OBVIOUS
<1> HIDE DEF r
<1>3. Elements(r) = Elements(q) \cup {t}
    <2>1. ASSUME NEW x \in Elements(r) PROVE x \in Elements(q) \cup {t}
        BY <1>1, <1>2 DEF Elements
    <2>2. ASSUME NEW x \in Elements(q) PROVE x \in Elements(r)
        <3>1. PICK i \in 1..Len(q) : x = q[i]
            BY <1>2 DEF Elements
        <3>2. i \in DOMAIN r /\ r[i] = x
            BY <1>1, <1>2, <3>1
        <3> QED BY <3>2 DEF Elements
    <2>3. t \in Elements(r)
        <3>1. Len(q) + 1 \in DOMAIN r
            BY <1>1, <1>2
        <3> QED BY <1>1, <3>1 DEF Elements
    <2> QED BY <2>1, <2>2, <2>3
<1>4. ASSUME Distinct(q), t \notin Elements(q) PROVE Distinct(r)
    <2> SUFFICES ASSUME NEW i \in DOMAIN r, NEW j \in DOMAIN r, r[i] = r[j] PROVE i = j
        BY DEF Distinct
    <2>1. CASE i \in 1..Len(q) /\ j \in 1..Len(q)
        BY <1>1, <1>2, <1>4, <2>1 DEF Distinct
    <2>2. \A k \in 1..Len(q) : r[k] # t
        BY <1>1, <1>2, <1>4 DEF Elements
    <2> QED BY <1>1, <1>2, <2>1, <2>2
<1>5. r # <<>>
    BY <1>1, <1>2
<1> QED BY <1>1, <1>3, <1>4, <1>5 DEF r

LEMMA ElementsOfTail ==
    ASSUME NEW T, NEW q \in Seq(T), q # <<>>, Distinct(q)
    PROVE  /\ Tail(q) \in Seq(T)
           /\ Head(q) \in T
           /\ Head(q) \in Elements(q)
           /\ Elements(Tail(q)) = Elements(q) \ {Head(q)}
           /\ Distinct(Tail(q))
<1> DEFINE r == Tail(q)
<1>1. /\ Len(q) \in Nat /\ Len(q) > 0 /\ DOMAIN q = 1..Len(q)
      /\ Head(q) = q[1] /\ Head(q) \in T
    OBVIOUS
<1>2. /\ r \in Seq(T) /\ Len(r) = Len(q) - 1 /\ DOMAIN r = 1..(Len(q) - 1)
      /\ \A i \in 1..(Len(q) - 1) : r[i] = q[i + 1]
    OBVIOUS
<1> HIDE DEF r
<1>3. Head(q) \in Elements(q)
    BY <1>1 DEF Elements
<1>4. ASSUME NEW x \in Elements(r) PROVE x \in Elements(q) \ {Head(q)}
    <2>1. PICK i \in 1..(Len(q) - 1) : x = q[i + 1]
        BY <1>2 DEF Elements
    <2>2. i + 1 \in DOMAIN q /\ 1 \in DOMAIN q /\ i + 1 # 1
        BY <1>1, <2>1
    <2> QED BY <1>1, <2>1, <2>2 DEF Elements, Distinct
<1>5. ASSUME NEW x \in Elements(q), x # Head(q) PROVE x \in Elements(r)
    <2>1. PICK i \in 1..Len(q) : x = q[i]
        BY <1>1 DEF Elements
    <2>2. i # 1
        BY <1>1, <1>5, <2>1
    <2>3. i - 1 \in 1..(Len(q) - 1) /\ (i - 1) + 1 = i
        BY <1>1, <2>1, <2>2
    <2>4. i - 1 \in DOMAIN r /\ r[i - 1] = x
        BY <1>2, <2>1, <2>3
    <2> QED BY <2>4 DEF Elements
<1>6. Distinct(r)
    <2> SUFFICES ASSUME NEW i \in DOMAIN r, NEW j \in DOMAIN r, r[i] = r[j] PROVE i = j
        BY DEF Distinct
    <2>1. i + 1 \in DOMAIN q /\ j + 1 \in DOMAIN q /\ q[i + 1] = q[j + 1]
        BY <1>1, <1>2
    <2>2. i + 1 = j + 1
        BY <2>1 DEF Distinct
    <2> QED BY <1>1, <1>2, <2>2
<1> QED BY <1>1, <1>2, <1>3, <1>4, <1>5, <1>6 DEF r

\* P on a semaphore above zero takes one from it and nobody sleeps.
LEMMA PTakes ==
    ASSUME NEW T, NEW s \in Semaphores(T), NEW t, Available(s)
    PROVE  /\ P(s, t) \in Semaphores(T)
           /\ P(s, t).value = s.value - 1
           /\ P(s, t).queue = s.queue
           /\ Asleep(P(s, t)) = Asleep(s)
<1>1. s.value \in Nat /\ s.value > 0
    BY DEF Semaphores, Available
<1>2. P(s, t) = [s EXCEPT !.value = @ - 1]
    BY DEF P
<1> QED BY <1>1, <1>2 DEF Semaphores, Asleep

\* P on a semaphore of zero puts the thread behind those asleep.
LEMMA PSleeps ==
    ASSUME NEW T, NEW s \in Semaphores(T), NEW t \in T, ~Available(s)
    PROVE  /\ P(s, t) \in Semaphores(T)
           /\ P(s, t).value = 0 /\ s.value = 0
           /\ P(s, t).queue = Append(s.queue, t)
           /\ P(s, t).queue # <<>>
           /\ Asleep(P(s, t)) = Asleep(s) \cup {t}
           /\ Distinct(s.queue) /\ t \notin Asleep(s) => Distinct(P(s, t).queue)
<1>1. s.value = 0 /\ s.queue \in Seq(T)
    BY DEF Semaphores, Available
<1>2. P(s, t) = [s EXCEPT !.queue = Append(@, t)]
    BY DEF P
<1>3. P(s, t).value = 0 /\ P(s, t).queue = Append(s.queue, t)
    BY <1>1, <1>2 DEF Semaphores
<1>4. P(s, t) \in Semaphores(T)
    <2>1. Append(s.queue, t) \in Seq(T) /\ s.value \in Nat
        BY <1>1, ElementsOfAppend
    <2> QED BY <1>2, <2>1 DEF Semaphores
<1> QED BY <1>1, <1>3, <1>4, ElementsOfAppend DEF Asleep

\* V raises the value, and wakes the first thread if any sleeps.
LEMMA VWakes ==
    ASSUME NEW T, NEW s \in Semaphores(T), Distinct(s.queue)
    PROVE  /\ V(s) \in Semaphores(T)
           /\ V(s).value = s.value + 1
           /\ Distinct(V(s).queue)
           /\ Asleep(V(s)) \subseteq Asleep(s)
           /\ s.queue = <<>> => V(s).queue = <<>> /\ Asleep(V(s)) = {}
           /\ s.queue # <<>> => /\ Head(s.queue) \in Asleep(s)
                                /\ Head(s.queue) \in T
                                /\ Asleep(V(s)) = Asleep(s) \ {Head(s.queue)}
<1>1. s.value \in Nat /\ s.queue \in Seq(T)
    BY DEF Semaphores
<1>2. V(s).value = s.value + 1
    BY DEF V
<1>3. CASE s.queue = <<>>
    <2>1. V(s).queue = <<>>
        BY <1>3 DEF V
    <2>2. Elements(<<>>) = {}
        BY DEF Elements
    <2>3. V(s) \in Semaphores(T)
        BY <1>1, <1>3 DEF V, Semaphores
    <2> QED BY <1>2, <1>3, <2>1, <2>2, <2>3 DEF Asleep, Distinct
<1>4. CASE s.queue # <<>>
    <2>1. V(s).queue = Tail(s.queue)
        BY <1>4 DEF V
    <2>2. V(s) \in Semaphores(T)
        BY <1>1, <1>4, ElementsOfTail DEF V, Semaphores
    <2> QED BY <1>1, <1>2, <1>4, <2>1, <2>2, ElementsOfTail DEF Asleep
<1> QED BY <1>3, <1>4

\* A semaphore on which nobody sleeps has an empty queue.
LEMMA NobodyAsleep ==
    ASSUME NEW T, NEW s \in Semaphores(T)
    PROVE  /\ s.queue = <<>> <=> Asleep(s) = {}
           /\ Asleep(s) \subseteq T
<1>1. s.queue \in Seq(T)
    BY DEF Semaphores
<1>2. CASE s.queue = <<>>
    BY <1>2 DEF Asleep, Elements
<1>3. CASE s.queue # <<>>
    <2>1. 1 \in DOMAIN s.queue
        BY <1>1, <1>3
    <2>2. s.queue[1] \in Asleep(s)
        BY <2>1 DEF Asleep, Elements
    <2>3. \A i \in DOMAIN s.queue : s.queue[i] \in T
        BY <1>1
    <2>4. Asleep(s) \subseteq T
        BY <2>3 DEF Asleep, Elements
    <2> QED BY <1>3, <2>2, <2>4
<1> QED BY <1>2, <1>3
=============================================================================
