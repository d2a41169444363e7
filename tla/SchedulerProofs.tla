--------------------------- MODULE SchedulerProofs ---------------------------
(***************************************************************************)
(* Proofs about Scheduler: its variables keep their types, threads are     *)
(* neither duplicated nor lost, the carcass of a finished thread is gone   *)
(* before anything else runs, no thread is queued above its priority, and  *)
(* the only way to a failed assertion is the reuse of a freed list element;*)
(* aging, preemption and time slices keep to their bounds, the lists stay  *)
(* sorted, the best thread is dispatched and scheduling leaves every       *)
(* thread on the list of its band.                                         *)
(***************************************************************************)
EXTENDS Scheduler, TLAPS

-----------------------------------------------------------------------------
(* What the list operations of NachosList return: lists of the same items, *)
(* one more or one fewer, and none of them twice.                          *)

Distinct(s) == \A i, j \in DOMAIN s : s[i] = s[j] => i = j

\* InsertAt, element by element.
LEMMA InsertAtElements ==
    ASSUME NEW T, NEW s \in Seq(T), NEW t \in T, NEW k \in 1..(Len(s) + 1)
    PROVE  /\ InsertAt(s, k, t) \in Seq(T)
           /\ Len(InsertAt(s, k, t)) = Len(s) + 1
           /\ \A i \in 1..(Len(s) + 1) :
                InsertAt(s, k, t)[i] = IF i < k THEN s[i] ELSE IF i = k THEN t ELSE s[i - 1]
<1> DEFINE a == SubSeq(s, 1, k - 1)
           b == SubSeq(s, k, Len(s))
           c == a \o <<t>>
<1>0. Len(s) \in Nat /\ k \in Nat
    OBVIOUS
<1>1. /\ a \in Seq(T) /\ Len(a) = k - 1
      /\ \A i \in 1..(k - 1) : a[i] = s[i]
    OBVIOUS
<1>2. /\ b \in Seq(T) /\ Len(b) = Len(s) - k + 1
      /\ \A i \in 1..(Len(s) - k + 1) : b[i] = s[k + i - 1]
    OBVIOUS
<1>3. /\ c \in Seq(T) /\ Len(c) = k
      /\ \A i \in 1..k : c[i] = IF i < k THEN s[i] ELSE t
    <2> HIDE DEF a
    <2> QED BY <1>1
<1>4. InsertAt(s, k, t) = c \o b
    BY DEF InsertAt
<1> HIDE DEF a, b, c
<1>5. c \o b \in Seq(T)
    BY <1>2, <1>3
<1>6. Len(c \o b) = Len(s) + 1
    <2> c \in Seq(T) /\ b \in Seq(T)
        BY <1>2, <1>3
    <2>1. Len(c \o b) = Len(c) + Len(b)
        OBVIOUS
    <2> QED BY <2>1, <1>0, <1>2, <1>3
<1>7. ASSUME NEW i \in 1..(Len(s) + 1)
      PROVE  (c \o b)[i] = IF i < k THEN s[i] ELSE IF i = k THEN t ELSE s[i - 1]
    <2>1. (c \o b)[i] = IF i <= Len(c) THEN c[i] ELSE b[i - Len(c)]
        BY <1>0, <1>2, <1>3
    <2>2. CASE i <= k
        BY <2>1, <2>2, <1>0, <1>3
    <2>3. CASE i > k
        <3>1. i - k \in 1..(Len(s) - k + 1) /\ k + (i - k) - 1 = i - 1
            BY <2>3, <1>0
        <3>2. (c \o b)[i] = b[i - k]
            BY <2>1, <2>3, <1>0, <1>3
        <3>3. b[i - k] = s[i - 1]
            BY <3>1, <1>2
        <3> QED BY <3>2, <3>3, <2>3, <1>0
    <2>4. i <= k \/ i > k
        BY <1>0
    <2> QED BY <2>2, <2>3, <2>4
<1> QED
    BY <1>4, <1>5, <1>6, <1>7

\* RemoveAt, element by element.
LEMMA RemoveAtElements ==
    ASSUME NEW T, NEW s \in Seq(T), NEW k \in 1..Len(s)
    PROVE  /\ RemoveAt(s, k) \in Seq(T)
           /\ Len(RemoveAt(s, k)) = Len(s) - 1
           /\ \A i \in 1..(Len(s) - 1) : RemoveAt(s, k)[i] = IF i < k THEN s[i] ELSE s[i + 1]
<1> DEFINE a == SubSeq(s, 1, k - 1)
           b == SubSeq(s, k + 1, Len(s))
<1>0. Len(s) \in Nat /\ k \in Nat
    OBVIOUS
<1>1. /\ a \in Seq(T) /\ Len(a) = k - 1
      /\ \A i \in 1..(k - 1) : a[i] = s[i]
    OBVIOUS
<1>2. /\ b \in Seq(T) /\ Len(b) = Len(s) - k
      /\ \A i \in 1..(Len(s) - k) : b[i] = s[k + i]
    OBVIOUS
<1>3. RemoveAt(s, k) = a \o b
    BY DEF RemoveAt
<1> HIDE DEF a, b
<1>4. a \o b \in Seq(T)
    BY <1>1, <1>2
<1>5. Len(a \o b) = Len(s) - 1
    <2> a \in Seq(T) /\ b \in Seq(T)
        BY <1>1, <1>2
    <2>1. Len(a \o b) = Len(a) + Len(b)
        OBVIOUS
    <2> QED BY <2>1, <1>0, <1>1, <1>2
<1>6. ASSUME NEW i \in 1..(Len(s) - 1)
      PROVE  (a \o b)[i] = IF i < k THEN s[i] ELSE s[i + 1]
    <2>1. (a \o b)[i] = IF i <= Len(a) THEN a[i] ELSE b[i - Len(a)]
        BY <1>0, <1>1, <1>2
    <2>2. CASE i < k
        BY <2>1, <2>2, <1>0, <1>1
    <2>3. CASE i >= k
        <3>1. i - (k - 1) \in 1..(Len(s) - k) /\ k + (i - (k - 1)) = i + 1
            BY <2>3, <1>0
        <3>2. (a \o b)[i] = b[i - (k - 1)]
            BY <2>1, <2>3, <1>0, <1>1
        <3>3. b[i - (k - 1)] = s[i + 1]
            BY <3>1, <1>2
        <3> QED BY <3>2, <3>3, <2>3, <1>0
    <2>4. i < k \/ i >= k
        BY <1>0
    <2> QED BY <2>2, <2>3, <2>4
<1> QED
    BY <1>3, <1>4, <1>5, <1>6

\* SortedList::Insert adds its item, and only that.
LEMMA InsertedList ==
    ASSUME NEW T, NEW s \in Seq(T), NEW t \in T, NEW key, NEW r \in Inserted(s, t, key)
    PROVE  /\ r \in Seq(T)
           /\ Range(r) = Range(s) \cup {t}
           /\ Distinct(s) /\ t \notin Range(s) => Distinct(r)
<1>1. PICK k \in 1..(Len(s) + 1) : r = InsertAt(s, k, t)
    BY DEF Inserted
<1>2. /\ r \in Seq(T) /\ Len(r) = Len(s) + 1 /\ Len(s) \in Nat /\ k \in Nat
      /\ \A i \in 1..(Len(s) + 1) : r[i] = IF i < k THEN s[i] ELSE IF i = k THEN t ELSE s[i - 1]
    <2> DEFINE R == InsertAt(s, k, t)
    <2>1. /\ R \in Seq(T) /\ Len(R) = Len(s) + 1
          /\ \A i \in 1..(Len(s) + 1) : R[i] = IF i < k THEN s[i] ELSE IF i = k THEN t ELSE s[i - 1]
        BY InsertAtElements
    <2>2. Len(s) \in Nat /\ k \in Nat
        OBVIOUS
    <2> QED BY <2>1, <2>2, <1>1
<1>3. ASSUME NEW x \in Range(s) \cup {t} PROVE x \in Range(r)
    <2>1. CASE x = t
        BY <2>1, <1>2 DEF Range
    <2>2. CASE x # t
        <3>1. PICK i \in 1..Len(s) : s[i] = x
            BY <2>2 DEF Range
        <3>2. \E j \in 1..(Len(s) + 1) : r[j] = x
            <4>1. CASE i < k
                BY <3>1, <4>1, <1>2
            <4>2. CASE i >= k
                <5>1. i + 1 \in 1..(Len(s) + 1) /\ r[i + 1] = x
                    BY <3>1, <4>2, <1>2
                <5> QED BY <5>1
            <4> QED BY <4>1, <4>2, <1>2
        <3>3. PICK j \in 1..(Len(s) + 1) : r[j] = x
            BY <3>2
        <3>4. j \in DOMAIN r
            BY <1>2
        <3> QED BY <3>3, <3>4 DEF Range
    <2> QED BY <2>1, <2>2
<1>4. ASSUME NEW x \in Range(r) PROVE x \in Range(s) \cup {t}
    <2>1. PICK i \in 1..(Len(s) + 1) : r[i] = x
        BY <1>2 DEF Range
    <2>2. x = t \/ \E j \in 1..Len(s) : s[j] = x
        BY <2>1, <1>2
    <2> QED BY <2>2 DEF Range
<1>5. ASSUME Distinct(s), t \notin Range(s) PROVE Distinct(r)
    <2>1. \A j \in 1..Len(s) : s[j] # t
        BY <1>5 DEF Range
    <2>2. \A i, j \in 1..Len(s) : s[i] = s[j] => i = j
        BY <1>5 DEF Distinct
    <2>3. ASSUME NEW i \in 1..(Len(s) + 1), NEW j \in 1..(Len(s) + 1), r[i] = r[j], i # j
          PROVE FALSE
        <3> DEFINE m(n) == IF n < k THEN n ELSE n - 1
        <3>1. \A n \in 1..(Len(s) + 1) : n # k => m(n) \in 1..Len(s) /\ r[n] = s[m(n)]
            BY <1>2
        <3>2. r[k] = t
            BY <1>2
        <3>3. i # k /\ j # k
            BY <2>1, <2>3, <3>1, <3>2
        <3>4. m(i) = m(j)
            BY <2>2, <2>3, <3>1, <3>3
        <3> QED BY <2>3, <3>3, <3>4, <1>2
    <2> QED BY <2>3, <1>2 DEF Distinct
<1> QED BY <1>2, <1>3, <1>4, <1>5

\* List::Remove takes its item out, and nothing else.
LEMMA RemovedList ==
    ASSUME NEW T, NEW s \in Seq(T), NEW t, NEW r \in Removed(s, t), Distinct(s)
    PROVE  r \in Seq(T) /\ Range(r) = Range(s) \ {t} /\ Distinct(r)
<1>1. PICK k \in 1..Len(s) : s[k] = t /\ r = RemoveAt(s, k)
    BY DEF Removed
<1>2. /\ r \in Seq(T) /\ Len(r) = Len(s) - 1 /\ Len(s) \in Nat /\ k \in Nat
      /\ \A i \in 1..(Len(s) - 1) : r[i] = IF i < k THEN s[i] ELSE s[i + 1]
    <2> DEFINE R == RemoveAt(s, k)
    <2>1. /\ R \in Seq(T) /\ Len(R) = Len(s) - 1
          /\ \A i \in 1..(Len(s) - 1) : R[i] = IF i < k THEN s[i] ELSE s[i + 1]
        BY RemoveAtElements
    <2>2. Len(s) \in Nat /\ k \in Nat
        OBVIOUS
    <2> QED BY <2>1, <2>2, <1>1
<1>3. \A i, j \in 1..Len(s) : s[i] = s[j] => i = j
    BY DEF Distinct
<1>4. ASSUME NEW x \in Range(s) \ {t} PROVE x \in Range(r)
    <2>1. PICK i \in 1..Len(s) : s[i] = x
        BY DEF Range
    <2>2. \E j \in 1..(Len(s) - 1) : r[j] = x
        <3>1. CASE i < k
            BY <2>1, <3>1, <1>2
        <3>2. CASE i > k
            <4>1. i - 1 \in 1..(Len(s) - 1) /\ r[i - 1] = x
                BY <2>1, <3>2, <1>2
            <4> QED BY <4>1
        <3> QED BY <2>1, <3>1, <3>2, <1>1
    <2> QED BY <2>2, <1>2 DEF Range
<1>5. ASSUME NEW x \in Range(r) PROVE x \in Range(s) \ {t}
    <2>1. PICK i \in 1..(Len(s) - 1) : r[i] = x
        BY <1>2 DEF Range
    <2>2. \E j \in 1..Len(s) : s[j] = x /\ j # k
        <3>1. CASE i < k
            BY <2>1, <3>1, <1>2
        <3>2. CASE i >= k
            <4>1. i + 1 \in 1..Len(s) /\ s[i + 1] = x /\ i + 1 # k
                BY <2>1, <3>2, <1>2
            <4> QED BY <4>1
        <3> QED BY <3>1, <3>2, <1>2
    <2> QED BY <2>2, <1>1, <1>3 DEF Range
<1>6. ASSUME NEW i \in 1..(Len(s) - 1), NEW j \in 1..(Len(s) - 1), r[i] = r[j]
      PROVE  i = j
    <2> DEFINE m(n) == IF n < k THEN n ELSE n + 1
    <2>1. \A n \in 1..(Len(s) - 1) : m(n) \in 1..Len(s) /\ r[n] = s[m(n)]
        BY <1>2
    <2>2. m(i) = m(j)
        BY <2>1, <1>3, <1>6
    <2> QED BY <2>2, <1>2
<1> QED BY <1>2, <1>4, <1>5, <1>6 DEF Distinct

\* Re_Sort_List keeps the items of a list.
LEMMA SortedListItems ==
    ASSUME NEW T, NEW s \in Seq(T), NEW key, NEW r \in StableSorts(s, key)
    PROVE  /\ r \in Seq(T)
           /\ Range(r) = Range(s)
           /\ Distinct(s) => Distinct(r)
<1>1. PICK p \in Bijection(DOMAIN s, DOMAIN s) : r = Rearranged(s, p)
    BY DEF StableSorts
<1>2. /\ p \in [1..Len(s) -> 1..Len(s)]
      /\ \A i, j \in 1..Len(s) : p[i] = p[j] => i = j
      /\ \A j \in 1..Len(s) : \E i \in 1..Len(s) : p[i] = j
    <2>1. DOMAIN s = 1..Len(s)
        OBVIOUS
    <2>2. p \in Bijection(1..Len(s), 1..Len(s))
        BY <2>1, <1>1
    <2>3. p \in [1..Len(s) -> 1..Len(s)] /\ IsInjective(p)
        BY <2>2 DEF Bijection, Injection
    <2>4. \A j \in 1..Len(s) : \E i \in 1..Len(s) : p[i] = j
        BY <2>2 DEF Bijection, Surjection
    <2>5. \A i, j \in 1..Len(s) : p[i] = p[j] => i = j
        BY <2>3 DEF IsInjective
    <2> QED BY <2>3, <2>4, <2>5
<1>3. r = [i \in 1..Len(s) |-> s[p[i]]]
    BY <1>1 DEF Rearranged
<1>4. /\ r \in Seq(T) /\ Len(r) = Len(s)
      /\ \A i \in 1..Len(s) : r[i] = s[p[i]]
    <2>1. [i \in 1..Len(s) |-> s[p[i]]] \in [1..Len(s) -> T]
        BY <1>2
    <2>2. r \in [1..Len(s) -> T]
        BY <2>1, <1>3
    <2> QED BY <2>2, <1>3
<1>5. Range(r) = Range(s)
    <2>1. ASSUME NEW x \in Range(s) PROVE x \in Range(r)
        <3>1. PICK j \in 1..Len(s) : s[j] = x
            BY DEF Range
        <3>2. PICK i \in 1..Len(s) : p[i] = j
            BY <1>2
        <3> QED BY <3>1, <3>2, <1>4 DEF Range
    <2>2. ASSUME NEW x \in Range(r) PROVE x \in Range(s)
        <3>1. PICK i \in 1..Len(s) : r[i] = x
            BY <1>4 DEF Range
        <3>2. p[i] \in 1..Len(s) /\ s[p[i]] = x
            BY <3>1, <1>2, <1>4
        <3> QED BY <3>2 DEF Range
    <2> QED BY <2>1, <2>2
<1>6. ASSUME Distinct(s) PROVE Distinct(r)
    <2>1. \A i, j \in 1..Len(s) : s[i] = s[j] => i = j
        BY <1>6 DEF Distinct
    <2>2. \A i \in 1..Len(s) : p[i] \in 1..Len(s)
        BY <1>2
    <2>3. ASSUME NEW i \in 1..Len(s), NEW j \in 1..Len(s), r[i] = r[j]
          PROVE  i = j
        <3>1. s[p[i]] = s[p[j]]
            BY <1>4, <2>3
        <3>2. p[i] = p[j]
            BY <3>1, <2>1, <2>2
        <3> QED BY <3>2, <1>2
    <2> QED BY <2>3, <1>4 DEF Distinct
<1> QED BY <1>4, <1>5, <1>6

\* List::RemoveFront of a list with an item.
LEMMA TailList ==
    ASSUME NEW T, NEW s \in Seq(T), s # <<>>
    PROVE  /\ Head(s) \in Range(s)
           /\ Tail(s) \in Seq(T)
           /\ Distinct(s) => Distinct(Tail(s)) /\ Range(Tail(s)) = Range(s) \ {Head(s)}
<1>1. /\ Tail(s) \in Seq(T) /\ Len(Tail(s)) = Len(s) - 1 /\ Head(s) = s[1]
      /\ Len(s) >= 1
      /\ \A i \in 1..(Len(s) - 1) : Tail(s)[i] = s[i + 1]
    OBVIOUS
<1>2. Head(s) \in Range(s)
    BY <1>1 DEF Range
<1>3. ASSUME Distinct(s) PROVE Distinct(Tail(s)) /\ Range(Tail(s)) = Range(s) \ {Head(s)}
    <2>1. \A i, j \in 1..Len(s) : s[i] = s[j] => i = j
        BY <1>3 DEF Distinct
    <2>2. Distinct(Tail(s))
        BY <1>1, <2>1 DEF Distinct
    <2>3. ASSUME NEW x \in Range(s) \ {Head(s)} PROVE x \in Range(Tail(s))
        <3>1. PICK i \in 1..Len(s) : s[i] = x
            BY DEF Range
        <3>2. i - 1 \in 1..(Len(s) - 1) /\ Tail(s)[i - 1] = x
            BY <3>1, <1>1
        <3>3. i - 1 \in DOMAIN Tail(s)
            BY <3>2, <1>1
        <3> QED BY <3>2, <3>3 DEF Range
    <2>4. ASSUME NEW x \in Range(Tail(s)) PROVE x \in Range(s) \ {Head(s)}
        <3>1. PICK i \in 1..(Len(s) - 1) : Tail(s)[i] = x
            BY <1>1 DEF Range
        <3>2. i + 1 \in 1..Len(s) /\ s[i + 1] = x /\ x # s[1]
            BY <3>1, <1>1, <2>1
        <3> QED BY <3>2, <1>1 DEF Range
    <2> QED BY <2>2, <2>3, <2>4
<1> QED BY <1>1, <1>2, <1>3

\* List::Append of an item.
LEMMA AppendList ==
    ASSUME NEW T, NEW s \in Seq(T), NEW t \in T
    PROVE  /\ Append(s, t) \in Seq(T)
           /\ Range(Append(s, t)) = Range(s) \cup {t}
           /\ Distinct(s) /\ t \notin Range(s) => Distinct(Append(s, t))
<1>1. /\ Append(s, t) \in Seq(T) /\ Len(Append(s, t)) = Len(s) + 1
      /\ \A i \in 1..Len(s) : Append(s, t)[i] = s[i]
      /\ Append(s, t)[Len(s) + 1] = t
    OBVIOUS
<1>2. Range(Append(s, t)) = Range(s) \cup {t}
    <2>1. ASSUME NEW x \in Range(s) \cup {t} PROVE x \in Range(Append(s, t))
        <3>1. \E i \in 1..(Len(s) + 1) : Append(s, t)[i] = x
            BY <1>1 DEF Range
        <3> QED BY <3>1, <1>1 DEF Range
    <2>2. ASSUME NEW x \in Range(Append(s, t)) PROVE x \in Range(s) \cup {t}
        <3>1. PICK i \in 1..(Len(s) + 1) : Append(s, t)[i] = x
            BY <1>1 DEF Range
        <3>2. x = t \/ \E j \in 1..Len(s) : s[j] = x
            BY <3>1, <1>1
        <3> QED BY <3>2 DEF Range
    <2> QED BY <2>1, <2>2
<1>3. ASSUME Distinct(s), t \notin Range(s) PROVE Distinct(Append(s, t))
    BY <1>3 DEF Range, Distinct
<1> QED BY <1>1, <1>2, <1>3

-----------------------------------------------------------------------------
(* The three ready lists                                                   *)

Lists == [1..3 -> Seq(Thread)]

\* Once, one list at a time and then for every two of them.
Apart(q) ==
    /\ \A k \in 1..3 : Distinct(q[k])
    /\ \A j, k \in 1..3 : \A t \in Thread : t \in Range(q[j]) /\ t \in Range(q[k]) => j = k

LEMMA RangeOfList ==
    ASSUME NEW s \in Seq(Thread)
    PROVE  /\ Range(s) \subseteq Thread
           /\ \A i \in DOMAIN s : s[i] \in Range(s)
           /\ \A t \in Range(s) : \E i \in DOMAIN s : s[i] = t
    BY DEF Range

LEMMA OnceIsApart ==
    ASSUME NEW q \in Lists
    PROVE  Once(q) <=> Apart(q)
<1>0. \A k \in 1..3 : q[k] \in Seq(Thread)
    BY DEF Lists
<1>1. ASSUME Once(q) PROVE Apart(q)
    <2>1. ASSUME NEW k \in 1..3 PROVE Distinct(q[k])
        BY <1>1 DEF Once, Distinct
    <2>2. ASSUME NEW j \in 1..3, NEW k \in 1..3, NEW t \in Thread,
                 t \in Range(q[j]), t \in Range(q[k])
          PROVE  j = k
        <3>1. PICK i \in DOMAIN q[j] : q[j][i] = t
            BY <2>2 DEF Range
        <3>2. PICK n \in DOMAIN q[k] : q[k][n] = t
            BY <2>2 DEF Range
        <3> QED BY <1>1, <3>1, <3>2 DEF Once
    <2> QED BY <2>1, <2>2 DEF Apart
<1>2. ASSUME Apart(q) PROVE Once(q)
    <2> SUFFICES ASSUME NEW j \in 1..3, NEW k \in 1..3,
                        NEW i \in DOMAIN q[j], NEW n \in DOMAIN q[k], q[j][i] = q[k][n]
                 PROVE  j = k /\ i = n
        BY DEF Once
    <2>1. q[j][i] \in Range(q[j]) /\ q[k][n] \in Range(q[k])
        BY DEF Range
    <2>2. q[j][i] \in Thread
        BY <1>0
    <2>3. j = k
        BY <1>2, <2>1, <2>2 DEF Apart
    <2> QED BY <1>2, <2>3 DEF Apart, Distinct
<1> QED BY <1>1, <1>2

LEMMA QueuedThreads ==
    ASSUME NEW q
    PROVE  \A t : t \in Queued(q) <=> \E k \in 1..3 : t \in Range(q[k])
    BY DEF Queued

\* Lists with the items of other lists.
LEMMA SameItems ==
    ASSUME NEW q \in Lists, NEW r \in Lists,
           \A k \in 1..3 : Range(r[k]) = Range(q[k]) /\ (Distinct(q[k]) => Distinct(r[k]))
    PROVE  Queued(r) = Queued(q) /\ (Once(q) => Once(r))
<1>1. Queued(r) = Queued(q)
    BY DEF Queued
<1>2. Apart(q) => Apart(r)
    BY DEF Apart
<1> QED BY <1>1, <1>2, OnceIsApart

\* Re_Sort_List.
LEMMA ReSorted ==
    ASSUME NEW q \in Lists, NEW key, NEW r \in ReSortList(q, key)
    PROVE  /\ r \in Lists
           /\ \A k \in 1..3 : Range(r[k]) = Range(q[k])
           /\ Queued(r) = Queued(q)
           /\ Once(q) => Once(r)
<1>0. \A k \in 1..3 : q[k] \in Seq(Thread)
    BY DEF Lists
<1>1. PICK s1 \in StableSorts(q[1], key[1]), s2 \in StableSorts(q[2], key[2]) :
        r = <<s1, s2, q[3]>>
    BY DEF ReSortList
<1>2. s1 \in Seq(Thread) /\ Range(s1) = Range(q[1]) /\ (Distinct(q[1]) => Distinct(s1))
    BY <1>0, SortedListItems
<1>3. s2 \in Seq(Thread) /\ Range(s2) = Range(q[2]) /\ (Distinct(q[2]) => Distinct(s2))
    BY <1>0, SortedListItems
<1>4. r[1] = s1 /\ r[2] = s2 /\ r[3] = q[3]
    BY <1>1
<1>5. r \in Lists
    BY <1>0, <1>1, <1>2, <1>3 DEF Lists
<1>6. \A k \in 1..3 : Range(r[k]) = Range(q[k]) /\ (Distinct(q[k]) => Distinct(r[k]))
    BY <1>2, <1>3, <1>4
<1> QED BY <1>5, <1>6, SameItems

\* ReadyToRun on a list of one's choice.
LEMMA EnqueuedLists ==
    ASSUME NEW q \in Lists, NEW k \in 1..3, NEW t \in Thread, NEW key,
           NEW r \in Enqueued(q, k, t, key)
    PROVE  /\ r \in Lists
           /\ Range(r[k]) = Range(q[k]) \cup {t}
           /\ \A j \in 1..3 \ {k} : r[j] = q[j]
           /\ Queued(r) = Queued(q) \cup {t}
           /\ Once(q) /\ t \notin Queued(q) => Once(r)
<1>0. \A j \in 1..3 : q[j] \in Seq(Thread)
    BY DEF Lists
<1>1. PICK s \in IF k = 3 THEN {Append(q[3], t)} ELSE Inserted(q[k], t, key[k]) :
        r = [q EXCEPT ![k] = s]
    BY DEF Enqueued
<1>2. /\ s \in Seq(Thread) /\ Range(s) = Range(q[k]) \cup {t}
      /\ Distinct(q[k]) /\ t \notin Range(q[k]) => Distinct(s)
    <2>1. CASE k = 3
        <3>1. q[3] \in Seq(Thread) /\ s = Append(q[3], t)
            BY <1>0, <2>1
        <3>2. /\ Append(q[3], t) \in Seq(Thread)
              /\ Range(Append(q[3], t)) = Range(q[3]) \cup {t}
              /\ Distinct(q[3]) /\ t \notin Range(q[3]) => Distinct(Append(q[3], t))
            BY <3>1, AppendList
        <3> QED BY <3>1, <3>2, <2>1
    <2>2. CASE k # 3
        BY <1>0, <1>1, <2>2, InsertedList
    <2> QED BY <2>1, <2>2
<1>3. r \in Lists /\ r[k] = s /\ \A j \in 1..3 : j # k => r[j] = q[j]
    BY <1>0, <1>1, <1>2 DEF Lists
<1>4. \A j \in 1..3 : Range(r[j]) = IF j = k THEN Range(q[k]) \cup {t} ELSE Range(q[j])
    BY <1>2, <1>3
<1>5. Queued(r) = Queued(q) \cup {t}
    BY <1>4 DEF Queued
<1>6. ASSUME Once(q), t \notin Queued(q) PROVE Once(r)
    <2>1. Apart(q)
        BY <1>6, OnceIsApart
    <2>2. \A j \in 1..3 : t \notin Range(q[j])
        BY <1>6 DEF Queued
    <2>3. ASSUME NEW j \in 1..3 PROVE Distinct(r[j])
        BY <1>2, <1>3, <2>1, <2>2 DEF Apart
    <2>4. Apart(r)
        BY <1>4, <2>1, <2>2, <2>3 DEF Apart
    <2> QED BY <1>3, <2>4, OnceIsApart
<1> QED BY <1>3, <1>4, <1>5, <1>6

\* List::Remove from one of the lists.
LEMMA RemovedLists ==
    ASSUME NEW q \in Lists, Once(q), NEW k \in 1..3, NEW t, NEW s \in Removed(q[k], t)
    PROVE  /\ [q EXCEPT ![k] = s] \in Lists
           /\ Once([q EXCEPT ![k] = s])
           /\ t \notin Queued([q EXCEPT ![k] = s])
           /\ Queued(q) = Queued([q EXCEPT ![k] = s]) \cup {t}
           /\ \A j \in 1..3 : Range([q EXCEPT ![k] = s][j]) \subseteq Range(q[j])
<1> DEFINE r == [q EXCEPT ![k] = s]
<1>0. Apart(q) /\ \A j \in 1..3 : q[j] \in Seq(Thread)
    BY OnceIsApart DEF Lists
<1>1. s \in Seq(Thread) /\ Range(s) = Range(q[k]) \ {t} /\ Distinct(s)
    BY <1>0, RemovedList DEF Apart
<1>2. r \in Lists /\ r[k] = s /\ \A j \in 1..3 : j # k => r[j] = q[j]
    BY <1>1 DEF Lists
<1>3. t \in Range(q[k]) /\ t \in Thread
    <2>1. PICK i \in 1..Len(q[k]) : q[k][i] = t
        BY DEF Removed
    <2> QED BY <1>0, <2>1 DEF Range
<1> HIDE DEF r
<1>4. \A j \in 1..3 : Range(r[j]) = IF j = k THEN Range(q[k]) \ {t} ELSE Range(q[j])
    BY <1>1, <1>2
<1>5. \A j \in 1..3 : Distinct(r[j])
    BY <1>0, <1>1, <1>2 DEF Apart
<1>6. Apart(r)
    BY <1>0, <1>4, <1>5 DEF Apart
<1>7. t \notin Queued(r)
    BY <1>0, <1>3, <1>4 DEF Queued, Apart
<1>8. Queued(q) = Queued(r) \cup {t}
    BY <1>3, <1>4 DEF Queued
<1>9. Once(r)
    BY <1>2, <1>6, OnceIsApart
<1> QED BY <1>2, <1>4, <1>7, <1>8, <1>9 DEF r

\* FindNextToRun.
LEMMA FoundNext ==
    ASSUME NEW q \in Lists, NEW key, NEW f \in FindNextToRun(q, key)
    PROVE  /\ f.lists \in Lists
           /\ f.next \in Queued(q)
           /\ f.next \in Thread
           /\ Once(q) => /\ Once(f.lists)
                        /\ Queued(f.lists) = Queued(q) \ {f.next}
                        /\ \A j \in 1..3 : Range(f.lists[j]) \subseteq Range(q[j])
<1>1. PICK r \in ReSortList(q, key), k \in TopLevel(q) :
        f = [next |-> Head(r[k]), lists |-> [r EXCEPT ![k] = Tail(r[k])]]
    BY DEF FindNextToRun
<1>2. /\ r \in Lists
      /\ \A j \in 1..3 : Range(r[j]) = Range(q[j])
      /\ Queued(r) = Queued(q)
      /\ Once(q) => Once(r)
    BY ReSorted
<1>3. k \in 1..3 /\ q[k] # <<>>
    BY DEF TopLevel
<1>4. \A j \in 1..3 : q[j] \in Seq(Thread) /\ r[j] \in Seq(Thread)
    BY <1>2 DEF Lists
<1>5. r[k] # <<>>
    <2>1. q[k][1] \in Range(q[k])
        BY <1>3, <1>4 DEF Range
    <2>2. Range(r[k]) # {}
        BY <1>2, <1>3, <2>1
    <2> QED BY <2>2 DEF Range
<1>6. /\ Head(r[k]) \in Range(r[k])
      /\ Tail(r[k]) \in Seq(Thread)
      /\ Distinct(r[k]) => /\ Distinct(Tail(r[k]))
                          /\ Range(Tail(r[k])) = Range(r[k]) \ {Head(r[k])}
    BY <1>3, <1>4, <1>5, TailList
<1>7. f.next = Head(r[k]) /\ f.lists = [r EXCEPT ![k] = Tail(r[k])]
    BY <1>1
<1>8. f.lists \in Lists /\ f.lists[k] = Tail(r[k]) /\ \A j \in 1..3 : j # k => f.lists[j] = r[j]
    BY <1>2, <1>3, <1>6, <1>7 DEF Lists
<1>9. f.next \in Queued(q) /\ f.next \in Thread
    BY <1>2, <1>3, <1>4, <1>6, <1>7, RangeOfList DEF Queued
<1>10. ASSUME Once(q)
       PROVE  /\ Once(f.lists)
              /\ Queued(f.lists) = Queued(q) \ {f.next}
              /\ \A j \in 1..3 : Range(f.lists[j]) \subseteq Range(q[j])
    <2>1. Apart(r)
        BY <1>2, <1>10, OnceIsApart
    <2>2. \A j \in 1..3 : Range(f.lists[j]) = IF j = k THEN Range(r[k]) \ {f.next} ELSE Range(r[j])
        BY <1>3, <1>6, <1>7, <1>8, <2>1 DEF Apart
    <2>3. \A j \in 1..3 : Distinct(f.lists[j])
        BY <1>3, <1>6, <1>8, <2>1 DEF Apart
    <2>4. Apart(f.lists)
        BY <2>1, <2>2, <2>3 DEF Apart
    <2>5. \A j \in 1..3 : f.next \in Range(r[j]) => j = k
        BY <1>3, <1>6, <1>7, <1>9, <2>1 DEF Apart
    <2>6. Queued(f.lists) = Queued(r) \ {f.next}
        BY <2>2, <2>5 DEF Queued
    <2>7. Once(f.lists)
        BY <1>8, <2>4, OnceIsApart
    <2>8. \A j \in 1..3 : Range(f.lists[j]) \subseteq Range(q[j])
        BY <1>2, <2>2
    <2> QED BY <1>2, <2>6, <2>7, <2>8
<1> QED BY <1>8, <1>9, <1>10

-----------------------------------------------------------------------------
(* Types                                                                   *)

\* Thread::aging keeps what is left of a waiting time a natural number and does
\* not lower a priority.
LEMMA AgingTypes ==
    ASSUME NEW w \in Nat
    PROVE  /\ AgedWait(w) \in Nat
           /\ \A p \in 0..MaxPriority :
                AgedPriority(p, w) \in 0..MaxPriority /\ p <= AgedPriority(p, w)
<1> USE SchedulerAssumption
<1>1. Agings(w) \in Nat /\ AgingWait * Agings(w) <= w
    <2>1. CASE w > AgingWait
        <3> DEFINE n == (w - 1) \div AgingWait
        <3>1. n \in Nat /\ AgingWait * n <= w - 1
            BY <2>1
        <3>2. Agings(w) = n
            BY <2>1 DEF Agings
        <3> HIDE DEF n
        <3>3. AgingWait * n \in Nat
            BY <3>1
        <3> QED BY <3>1, <3>2, <3>3
    <2>2. CASE ~(w > AgingWait)
        BY <2>2 DEF Agings
    <2> QED BY <2>1, <2>2
<1>2. AgedWait(w) \in Nat
    <2>1. AgingWait * Agings(w) \in Nat
        BY <1>1
    <2> QED BY <1>1, <2>1 DEF AgedWait
<1>3. AgingStep * Agings(w) \in Nat
    BY <1>1
<1>4. \A p \in 0..MaxPriority :
        AgedPriority(p, w) \in 0..MaxPriority /\ p <= AgedPriority(p, w)
    BY <1>3 DEF AgedPriority, MaxPriority
<1> QED BY <1>2, <1>4

LEMMA SaturateType ==
    ASSUME NEW n \in Nat
    PROVE  Saturate(n) \in Nat
    BY SchedulerAssumption DEF Saturate

LEMMA LevelType ==
    ASSUME NEW p
    PROVE  Level(p) \in 1..3
    BY DEF Level

LEMMA ElapseType ==
    ASSUME TypeOK, NEW d \in Nat, Elapse(d)
    PROVE  /\ waited' \in [Thread -> Nat]
           /\ ran' \in Nat
           /\ timer' \in Int
<1>1. waited \in [Thread -> Nat] /\ ran \in Nat /\ timer \in Int
    BY DEF TypeOK
<1>2. \A t \in Thread : waited[t] + d \in Nat
    BY <1>1
<1>3. waited' \in [Thread -> Nat]
    BY <1>2 DEF Elapse
<1>4. ran + d \in Nat /\ timer - d \in Int
    BY <1>1
<1>5. Saturate(ran + d) \in Nat
    BY <1>4, SaturateType
<1> QED BY <1>3, <1>4, <1>5 DEF Elapse

LEMMA MakeReadyType ==
    ASSUME TypeOK, NEW t \in Thread, NEW priority, MakeReady(t, priority)
    PROVE  /\ ready' \in Lists
           /\ waited' \in [Thread -> Nat]
<1>1. ready \in Lists
    BY DEF TypeOK, Lists
<1>2. ready' \in Lists
    BY <1>1, LevelType, EnqueuedLists DEF MakeReady, ReadyToRun
<1>3. waited' \in [Thread -> Nat]
    BY DEF MakeReady, TypeOK
<1> QED BY <1>2, <1>3

LEMMA SuccessorType ==
    ASSUME NEW s \in Seq(Thread), NEW t, NEW u \in Successor(s, t, None)
    PROVE  u \in Thread \cup {None}
    BY DEF Successor

LEMMA FirstType ==
    ASSUME NEW s \in Seq(Thread)
    PROVE  First(s, None) \in Thread \cup {None}
    BY DEF First

LEMMA DestroyedType ==
    ASSUME NEW S, NEW f \in [Thread -> S], NEW gone \in S
    PROVE  Destroyed(f, gone) \in [Thread -> S]
    BY DEF Destroyed

LEMMA RunTimeType ==
    ASSUME TypeOK
    PROVE  /\ burst_time[currentThread] \in Nat
           /\ Saturate(accumulated_time[currentThread] + ran) \in Nat
<1>1. accumulated_time[currentThread] \in Nat /\ burst_time[currentThread] \in Nat
    BY DEF TypeOK
<1>2. ran \in Nat
    BY DEF TypeOK
<1>3. accumulated_time[currentThread] + ran \in Nat
    BY <1>1, <1>2
<1> QED BY <1>1, <1>3, SaturateType

LEMMA InitTypeOK == Init => TypeOK
<1> SUFFICES ASSUME Init PROVE TypeOK
    OBVIOUS
<1> USE SchedulerAssumption DEF Init
<1>1. ready \in Lists
    BY DEF Lists
<1>2. status \in [Thread -> Statuses]
    BY DEF Statuses
<1>3. exec_priority \in [Thread -> 0..MaxPriority]
    BY DEF MaxPriority
<1>4. /\ burst_time \in [Thread -> Nat]
      /\ accumulated_time \in [Thread -> Nat]
      /\ waited \in [Thread -> Nat]
    OBVIOUS
<1>5. timer \in Int
    OBVIOUS
<1> QED BY <1>1, <1>2, <1>3, <1>4, <1>5 DEF TypeOK, Lists, Phases

LEMMA NextTypeOK == TypeOK /\ [Next]_vars => TypeOK'
<1> SUFFICES ASSUME TypeOK, [Next]_vars PROVE TypeOK'
    OBVIOUS
<1> USE SchedulerAssumption
<1>0. ready \in Lists /\ \A k \in 1..3 : ready[k] \in Seq(Thread)
    BY DEF TypeOK, Lists
<1>1. ASSUME NEW t \in Thread, NEW p \in Priorities, Exec(t, p) PROVE TypeOK'
    <2>1. p \in 0..MaxPriority
        BY DEF MaxPriority
    <2>2. ready' \in Lists /\ waited' \in [Thread -> Nat]
        BY <1>1, MakeReadyType DEF Exec
    <2>3. status' \in [Thread -> Statuses] /\ exec_priority' \in [Thread -> 0..MaxPriority]
        BY <1>1, <2>1 DEF Exec, TypeOK, Statuses
    <2> QED BY <1>1, <2>2, <2>3 DEF Exec, TypeOK, Lists, Phases, interruptVars, iterVars
<1>2. ASSUME NEW t \in Thread, Wakeup(t) PROVE TypeOK'
    <2>1. ready' \in Lists /\ waited' \in [Thread -> Nat]
        BY <1>2, MakeReadyType DEF Wakeup
    <2> QED BY <1>2, <2>1
            DEF Wakeup, TypeOK, Lists, Phases, threadVars, interruptVars, iterVars
<1>3. ASSUME NEW fin \in BOOLEAN, Sleep(fin) PROVE TypeOK'
    <2> DEFINE acc == Saturate(accumulated_time[currentThread] + ran)
               b == (burst_time[currentThread] + BurstUnit * acc) \div 2
    <2>1. acc \in Nat
        BY RunTimeType
    <2>2. BurstUnit * acc \in Nat
        <3> HIDE DEF acc
        <3> QED BY <2>1
    <2>3. b \in Nat
        <3> HIDE DEF acc
        <3> QED BY <2>2, RunTimeType
    <2>4. burst_time' = [burst_time EXCEPT ![currentThread] = b]
        BY <1>3 DEF Sleep
    <2> HIDE DEF b
    <2>5. burst_time' \in [Thread -> Nat]
        BY <2>3, <2>4 DEF TypeOK
    <2>6. status' \in [Thread -> Statuses] /\ accumulated_time' \in [Thread -> Nat]
        BY <1>3 DEF Sleep, TypeOK, Statuses
    <2>7. asleep' \in SUBSET Thread
        BY <1>3 DEF Sleep, TypeOK
    <2> QED BY <1>3, <2>5, <2>6, <2>7
            DEF Sleep, TypeOK, Phases, timeVars, interruptVars, iterVars
<1>4. ASSUME Dispatch PROVE TypeOK'
    <2>1. PICK f \in FindNextToRun(ready, CurrentKey) :
            IF finishing /\ toBeDestroyed # None
            THEN phase' = "aborted" /\ UNCHANGED <<ready, currentThread, toBeDestroyed,
                                                    status, waited, ran>>
            ELSE /\ Run(f.next, f.lists, status, waited)
                 /\ toBeDestroyed' = IF finishing THEN currentThread ELSE toBeDestroyed
                 /\ phase' = "resume"
        BY <1>4 DEF Dispatch
    <2>2. f.lists \in Lists /\ f.next \in Thread
        BY <1>0, FoundNext
    <2>3. /\ UNCHANGED <<exec_priority, burst_time, accumulated_time, timer, asleep,
                         yieldOnReturn, idle, iter, level>>
          /\ finishing' = FALSE
        BY <1>4 DEF Dispatch, interruptVars, iterVars
    <2>4. CASE finishing /\ toBeDestroyed # None
        BY <2>1, <2>3, <2>4 DEF TypeOK, Phases
    <2>5. CASE ~(finishing /\ toBeDestroyed # None)
        <3>1. Run(f.next, f.lists, status, waited) /\ phase' = "resume"
            BY <2>1, <2>5
        <3>2. toBeDestroyed' \in Thread \cup {None}
            BY <2>1, <2>5 DEF TypeOK
        <3>3. status' \in [Thread -> Statuses] /\ waited' \in [Thread -> Nat]
            BY <2>2, <3>1 DEF Run, TypeOK, Statuses
        <3> QED BY <2>2, <2>3, <3>1, <3>2, <3>3 DEF Run, TypeOK, Lists, Phases
    <2> QED BY <2>4, <2>5
<1>5. ASSUME NEW d \in 1..timer, Idle(d) PROVE TypeOK'
    <2>1. waited' \in [Thread -> Nat] /\ ran' \in Nat /\ timer' \in Int
        <3>1. d \in Nat
            BY DEF TypeOK
        <3> QED BY <1>5, <3>1, ElapseType DEF Idle
    <2> QED BY <1>5, <2>1 DEF Idle, TypeOK, Phases, threadVars, iterVars
<1>6. ASSUME Resume PROVE TypeOK'
    <2>1. CASE toBeDestroyed = currentThread
        BY <1>6, <2>1 DEF Resume, TypeOK, Phases, threadVars, interruptVars, iterVars
    <2>2. CASE toBeDestroyed # currentThread
        <3>1. /\ status' \in [Thread -> Statuses]
              /\ exec_priority' \in [Thread -> 0..MaxPriority]
              /\ burst_time' \in [Thread -> Nat]
              /\ accumulated_time' \in [Thread -> Nat]
            <4>1. "DELETED" \in Statuses /\ 0 \in 0..MaxPriority /\ 0 \in Nat
                BY DEF Statuses, MaxPriority
            <4>2. /\ status' = Destroyed(status, "DELETED")
                  /\ exec_priority' = Destroyed(exec_priority, 0)
                  /\ burst_time' = Destroyed(burst_time, 0)
                  /\ accumulated_time' = Destroyed(accumulated_time, 0)
                BY <1>6, <2>2 DEF Resume
            <4>3. /\ status \in [Thread -> Statuses]
                  /\ exec_priority \in [Thread -> 0..MaxPriority]
                  /\ burst_time \in [Thread -> Nat]
                  /\ accumulated_time \in [Thread -> Nat]
                BY DEF TypeOK
            <4> QED BY <4>1, <4>2, <4>3, DestroyedType
        <3> QED BY <1>6, <2>2, <3>1 DEF Resume, TypeOK, Phases, interruptVars, iterVars
    <2> QED BY <2>1, <2>2
<1>7. ASSUME NEW d \in Ticks, OneTick(d) PROVE TypeOK'
    <2>1. waited' \in [Thread -> Nat] /\ ran' \in Nat /\ timer' \in Int
        BY <1>7, ElapseType DEF OneTick
    <2> QED BY <1>7, <2>1 DEF OneTick, TypeOK, Phases, threadVars, interruptVars, iterVars
<1>8. ASSUME NEW t \in Thread, DeviceInterrupt(t) PROVE TypeOK'
    <2>1. ready' \in Lists /\ waited' \in [Thread -> Nat]
        BY <1>8, MakeReadyType DEF DeviceInterrupt
    <2> QED BY <1>8, <2>1
            DEF DeviceInterrupt, TypeOK, Lists, threadVars, interruptVars, iterVars
<1>9. ASSUME NEW d \in TimerDelays, IdleTimerInterrupt(d) PROVE TypeOK'
    BY <1>9 DEF IdleTimerInterrupt, TypeOK, threadVars, interruptVars, iterVars
<1>10. ASSUME UpdatePriority PROVE TypeOK'
    <2>1. \A t \in Thread : waited[t] \in Nat /\ exec_priority[t] \in 0..MaxPriority
        BY DEF TypeOK
    <2>2. exec_priority' \in [Thread -> 0..MaxPriority]
        BY <1>10, <2>1, AgingTypes DEF UpdatePriority
    <2>3. waited' \in [Thread -> Nat]
        BY <1>10, <2>1, AgingTypes DEF UpdatePriority
    <2>4. iter' \in Thread \cup {None}
        BY <1>0, <1>10, FirstType DEF UpdatePriority
    <2> QED BY <1>10, <2>2, <2>3, <2>4 DEF UpdatePriority, TypeOK, Phases, interruptVars
<1>11. ASSUME Pass PROVE TypeOK'
    <2>1. iter' \in Thread \cup {None}
        BY <1>0, <1>11, SuccessorType DEF Pass
    <2> QED BY <1>11, <2>1 DEF Pass, TypeOK, threadVars, timeVars, interruptVars
<1>12. ASSUME Promote PROVE TypeOK'
    <2>1. level \in 1..3 /\ level - 1 \in 1..3 /\ iter \in Thread
        BY <1>12 DEF Promote, TypeOK
    <2>2. PICK s \in Removed(ready[level], iter) :
            ready' \in Enqueued([ready EXCEPT ![level] = s], level - 1, iter, CurrentKey)
        BY <1>12 DEF Promote
    <2>3. s \in Seq(Thread)
        <3>1. PICK i \in 1..Len(ready[level]) : s = RemoveAt(ready[level], i)
            BY <2>2 DEF Removed
        <3> QED BY <1>0, <2>1, <3>1, RemoveAtElements
    <2>4. [ready EXCEPT ![level] = s] \in Lists
        BY <1>0, <2>1, <2>3 DEF Lists
    <2>5. ready' \in Lists
        BY <2>1, <2>2, <2>4, EnqueuedLists
    <2>6. \A k \in 1..3 : ready'[k] \in Seq(Thread)
        BY <2>5 DEF Lists
    <2>7. iter' \in Thread \cup {None}
        BY <1>0, <1>12, <2>1, <2>6, SuccessorType DEF Promote
    <2> QED BY <1>12, <2>5, <2>7 DEF Promote, TypeOK, Lists, threadVars, timeVars, interruptVars
<1>13. ASSUME PromoteAborts PROVE TypeOK'
    BY <1>13 DEF PromoteAborts, TypeOK, Phases, threadVars, timeVars, interruptVars, iterVars
<1>14. ASSUME PromoteDone PROVE TypeOK'
    <2>1. iter' \in Thread \cup {None}
        BY <1>0, <1>14, FirstType DEF PromoteDone, TypeOK
    <2> QED BY <1>14, <2>1
            DEF PromoteDone, TypeOK, Phases, threadVars, timeVars, interruptVars
<1>15. ASSUME NEW d \in TimerDelays, Preempt(d) PROVE TypeOK'
    <2>1. ready' \in Lists
        BY <1>0, <1>15, ReSorted DEF Preempt
    <2>2. yieldOnReturn' \in BOOLEAN
        <3>1. yieldOnReturn' = (yieldOnReturn \/ WantsYield(ready'))
            BY <1>15 DEF Preempt
        <3> QED BY <3>1
    <2>3. timer' \in Int /\ phase' \in Phases
        BY <1>15 DEF Preempt, Phases
    <2> QED BY <1>15, <2>1, <2>2, <2>3 DEF Preempt, TypeOK, Lists, threadVars, iterVars
<1>16. ASSUME HandlerReturn PROVE TypeOK'
    BY <1>16 DEF HandlerReturn, TypeOK, Phases, threadVars, timeVars, iterVars
<1>17. ASSUME Yield PROVE TypeOK'
    <2> DEFINE key == Key(exec_priority, burst_time, accumulated_time')
    <2>1. PICK f \in FindNextToRun(ready, CurrentKey) :
          \E q \in ReadyToRun(f.lists, currentThread, exec_priority, key) :
            Run(f.next, q, status, [waited EXCEPT ![currentThread] = 0])
        BY <1>17 DEF Yield
    <2>2. PICK q \in ReadyToRun(f.lists, currentThread, exec_priority, key) :
            Run(f.next, q, status, [waited EXCEPT ![currentThread] = 0])
        BY <2>1
    <2>3. f.lists \in Lists /\ f.next \in Thread
        BY <1>0, FoundNext
    <2>4. currentThread \in Thread
        BY DEF TypeOK
    <2>5. q \in Lists
        BY <2>2, <2>3, <2>4, LevelType, EnqueuedLists DEF ReadyToRun
    <2>6. accumulated_time' \in [Thread -> Nat]
        <3>1. Saturate(accumulated_time[currentThread] + ran) \in Nat
            BY RunTimeType
        <3> QED BY <1>17, <3>1 DEF Yield, TypeOK
    <2>7. /\ ready' \in Lists /\ currentThread' \in Thread
          /\ status' \in [Thread -> Statuses]
          /\ waited' \in [Thread -> Nat] /\ ran' \in Nat
        BY <2>2, <2>3, <2>5 DEF Run, TypeOK, Statuses
    <2> QED BY <1>17, <2>6, <2>7 DEF Yield, TypeOK, Lists, Phases, iterVars
<1>18. CASE UNCHANGED vars
    BY <1>18 DEF vars, TypeOK, threadVars, timeVars, interruptVars, iterVars
<1> QED
    BY <1>1, <1>2, <1>3, <1>4, <1>5, <1>6, <1>7, <1>8, <1>9, <1>10, <1>11, <1>12,
       <1>13, <1>14, <1>15, <1>16, <1>17, <1>18
    DEF Next, CurrentThreadStep, InterruptStep, Aborted

\* The variables keep their types.
THEOREM TypeCorrect == Spec => []TypeOK
    BY InitTypeOK, NextTypeOK, PTL DEF Spec

-----------------------------------------------------------------------------
(* Threads are neither duplicated nor lost                                 *)

\* The machine idles inside Thread::Sleep only as long as Interrupt::Idle fires
\* interrupts.
IdleInHandler == idle => phase = "handler"

\* The inductive invariant: where a thread is decides what may happen to it.
ThreadInv ==
    /\ TypeOK
    /\ QueuedOnce
    /\ QueuedExclusive
    /\ NoThreadLost
    /\ CarcassCleared
    /\ IdleInHandler

LEMMA InitThreadInv == Init => ThreadInv
<1> SUFFICES ASSUME Init PROVE ThreadInv
    OBVIOUS
<1> USE SchedulerAssumption DEF Init
<1>1. TypeOK
    BY InitTypeOK
<1>2. Queued(ready) = {}
    BY DEF Queued, Range
<1>3. QueuedOnce
    BY DEF QueuedOnce, Once
<1>4. QueuedExclusive
    BY <1>2 DEF QueuedExclusive
<1>5. NoThreadLost
    BY <1>2 DEF NoThreadLost, Live, Sleeping
<1>6. CarcassCleared /\ IdleInHandler
    BY DEF CarcassCleared, IdleInHandler
<1> QED BY <1>1, <1>3, <1>4, <1>5, <1>6 DEF ThreadInv

\* A step that moves no thread between the lists, the semaphores and the CPU.
LEMMA QuietStep ==
    ASSUME ThreadInv, TypeOK', Once(ready'), Queued(ready') = Queued(ready),
           UNCHANGED <<asleep, currentThread, toBeDestroyed, finishing, status>>,
           phase # "resume",
           (phase' = "sleep" \/ idle') <=> (phase = "sleep" \/ idle),
           idle' => phase' = "handler"
    PROVE  ThreadInv'
<1>1. QueuedOnce'
    BY DEF QueuedOnce
<1>2. QueuedExclusive'
    BY DEF ThreadInv, QueuedExclusive, Sleeping
<1>3. NoThreadLost'
    BY DEF ThreadInv, NoThreadLost, Sleeping, Live
<1>4. CarcassCleared' /\ IdleInHandler'
    BY DEF ThreadInv, CarcassCleared, IdleInHandler
<1> QED BY <1>1, <1>2, <1>3, <1>4 DEF ThreadInv

\* What ReadyToRun adds to the lists.
LEMMA MadeReady ==
    ASSUME TypeOK, NEW t \in Thread, NEW priority, MakeReady(t, priority)
    PROVE  /\ Queued(ready') = Queued(ready) \cup {t}
           /\ Once(ready) /\ t \notin Queued(ready) => Once(ready')
<1>1. ready \in Lists
    BY DEF TypeOK, Lists
<1>2. Level(priority[t]) \in 1..3
    BY LevelType
<1>3. PICK key : ready' \in Enqueued(ready, Level(priority[t]), t, key)
    BY DEF MakeReady, ReadyToRun
<1> QED BY <1>1, <1>2, <1>3, EnqueuedLists

\* A thread that was asleep is made ready.
LEMMA WokenStep ==
    ASSUME ThreadInv, TypeOK', NEW t \in asleep, MakeReady(t, exec_priority),
           asleep' = asleep \ {t},
           UNCHANGED <<currentThread, toBeDestroyed, finishing, status, idle>>,
           phase \in {"run", "handler"},
           phase' = IF phase = "run" THEN "enable" ELSE "handler"
    PROVE  ThreadInv'
<1>0. t \in Thread /\ t \notin Queued(ready) /\ TypeOK
    BY DEF ThreadInv, TypeOK, QueuedExclusive
<1>1. Queued(ready') = Queued(ready) \cup {t} /\ Once(ready')
    BY <1>0, MadeReady DEF ThreadInv, QueuedOnce
<1>2. Sleeping' <=> Sleeping
    BY DEF ThreadInv, IdleInHandler, Sleeping
<1>3. QueuedExclusive'
    BY <1>1, <1>2 DEF ThreadInv, QueuedExclusive
<1>4. NoThreadLost'
    <2>1. Live' = Live
        BY DEF Live
    <2>2. Queued(ready') \cup asleep' = Queued(ready) \cup asleep
        BY <1>1
    <2> QED BY <1>2, <2>1, <2>2 DEF ThreadInv, NoThreadLost
<1>5. CarcassCleared' /\ IdleInHandler' /\ QueuedOnce'
    BY <1>1 DEF ThreadInv, CarcassCleared, IdleInHandler, QueuedOnce
<1> QED BY <1>3, <1>4, <1>5 DEF ThreadInv

LEMMA ExecThreadInv ==
    ASSUME ThreadInv, TypeOK', NEW t \in Thread, NEW p, Exec(t, p)
    PROVE  ThreadInv'
<1>0. t \notin Live /\ TypeOK
    BY DEF ThreadInv, Live, Exec
<1>1. t \notin Queued(ready) \cup asleep \cup {currentThread, toBeDestroyed}
    BY <1>0, SchedulerAssumption DEF ThreadInv, NoThreadLost
<1>2. Queued(ready') = Queued(ready) \cup {t} /\ Once(ready')
    BY <1>0, <1>1, MadeReady DEF ThreadInv, QueuedOnce, Exec
<1>3. /\ UNCHANGED <<asleep, currentThread, toBeDestroyed, finishing, idle>>
      /\ phase = "run" /\ phase' = "enable"
      /\ status' = [status EXCEPT ![t] = "JUST_CREATED"]
    BY DEF Exec, interruptVars
<1>4. ~Sleeping /\ ~Sleeping'
    BY <1>3 DEF ThreadInv, IdleInHandler, Sleeping
<1>5. QueuedExclusive'
    BY <1>1, <1>2, <1>3, <1>4 DEF ThreadInv, QueuedExclusive
<1>6. Live' = Live \cup {t}
    BY <1>0, <1>3 DEF Live, TypeOK
<1>7. NoThreadLost'
    BY <1>2, <1>3, <1>4, <1>6 DEF ThreadInv, NoThreadLost
<1>8. CarcassCleared' /\ IdleInHandler' /\ QueuedOnce'
    BY <1>2, <1>3 DEF ThreadInv, CarcassCleared, IdleInHandler, QueuedOnce
<1> QED BY <1>5, <1>7, <1>8 DEF ThreadInv

LEMMA SleepThreadInv ==
    ASSUME ThreadInv, TypeOK', NEW fin \in BOOLEAN, Sleep(fin)
    PROVE  ThreadInv'
<1>1. /\ UNCHANGED <<ready, currentThread, toBeDestroyed, idle>>
      /\ finishing' = fin
      /\ asleep' = IF fin THEN asleep ELSE asleep \cup {currentThread}
      /\ status' = [status EXCEPT ![currentThread] = "BLOCKED"]
      /\ phase \in {"run", "enable"} /\ phase' = "sleep"
    BY DEF Sleep, interruptVars
<1>2. ~Sleeping /\ ~idle
    BY <1>1 DEF ThreadInv, IdleInHandler, Sleeping
<1>3. Sleeping'
    BY <1>1 DEF Sleeping
<1>4. toBeDestroyed = None /\ None # currentThread
    BY <1>1, SchedulerAssumption DEF ThreadInv, CarcassCleared, TypeOK
<1>5. currentThread \notin Queued(ready) \cup asleep
    BY <1>2 DEF ThreadInv, QueuedExclusive
<1>6. QueuedExclusive'
    BY <1>1, <1>3, <1>4, <1>5 DEF ThreadInv, QueuedExclusive
<1>7. Live' = Live
    BY <1>1 DEF ThreadInv, TypeOK, NoThreadLost, Live
<1>8. NoThreadLost'
    <2>1. Queued(ready') \cup asleep' \cup {currentThread'}
            = Queued(ready) \cup asleep \cup {currentThread}
        BY <1>1
    <2>2. finishing' <=> currentThread' \notin Queued(ready') \cup asleep'
        BY <1>1, <1>5
    <2> QED BY <1>1, <1>7, <2>1, <2>2 DEF ThreadInv, NoThreadLost
<1>9. CarcassCleared' /\ IdleInHandler' /\ QueuedOnce'
    BY <1>1, <1>2, <1>4 DEF ThreadInv, CarcassCleared, IdleInHandler, QueuedOnce
<1> QED BY <1>6, <1>8, <1>9 DEF ThreadInv

LEMMA DispatchThreadInv ==
    ASSUME ThreadInv, TypeOK', Dispatch
    PROVE  ThreadInv'
<1>0. ready \in Lists /\ Once(ready) /\ TypeOK
    BY DEF ThreadInv, QueuedOnce, TypeOK, Lists
<1>1. phase = "sleep" /\ Sleeping /\ ~idle /\ toBeDestroyed = None
    BY DEF Dispatch, ThreadInv, IdleInHandler, CarcassCleared, Sleeping
<1>2. PICK f \in FindNextToRun(ready, CurrentKey) :
        /\ Run(f.next, f.lists, status, waited)
        /\ toBeDestroyed' = IF finishing THEN currentThread ELSE toBeDestroyed
        /\ phase' = "resume"
    BY <1>1 DEF Dispatch
<1>3. /\ f.next \in Thread /\ f.next \in Queued(ready)
      /\ Once(f.lists) /\ Queued(f.lists) = Queued(ready) \ {f.next}
    BY <1>0, FoundNext
<1>4. /\ UNCHANGED <<asleep, idle>>
      /\ ready' = f.lists /\ currentThread' = f.next
      /\ status' = [status EXCEPT ![f.next] = "RUNNING"]
    BY <1>2 DEF Dispatch, Run, interruptVars
<1>5. ~Sleeping'
    BY <1>1, <1>2, <1>4 DEF Sleeping
<1>6. finishing <=> currentThread \notin Queued(ready) \cup asleep
    BY <1>1 DEF ThreadInv, NoThreadLost
<1>7. None \notin Queued(ready) \cup asleep /\ currentThread \in Thread
    BY <1>1, SchedulerAssumption DEF ThreadInv, QueuedExclusive, TypeOK
<1>8. QueuedExclusive'
    BY <1>1, <1>2, <1>3, <1>4, <1>6, <1>7 DEF ThreadInv, QueuedExclusive
<1>9. Live' = Live
    BY <1>0, <1>3, <1>4 DEF ThreadInv, NoThreadLost, Live, TypeOK
<1>10. NoThreadLost'
    <2>1. Live = Queued(ready) \cup asleep \cup {currentThread}
        BY <1>1 DEF ThreadInv, NoThreadLost
    <2>2. CASE finishing
        <3>1. toBeDestroyed' = currentThread /\ currentThread # None
            BY <1>2, <1>7, <2>2, SchedulerAssumption
        <3> QED BY <1>3, <1>4, <1>5, <1>9, <2>1, <3>1 DEF NoThreadLost
    <2>3. CASE ~finishing
        <3>1. toBeDestroyed' = None /\ currentThread \in Queued(ready) \cup asleep
            BY <1>1, <1>2, <1>6, <2>3
        <3> QED BY <1>3, <1>4, <1>5, <1>9, <2>1, <3>1 DEF NoThreadLost
    <2> QED BY <2>2, <2>3
<1>11. CarcassCleared'
    <2>1. finishing => currentThread # f.next
        BY <1>3, <1>6
    <2> QED BY <1>1, <1>2, <1>4, <2>1 DEF CarcassCleared
<1>12. IdleInHandler' /\ QueuedOnce'
    BY <1>1, <1>3, <1>4 DEF IdleInHandler, QueuedOnce
<1> QED BY <1>8, <1>10, <1>11, <1>12 DEF ThreadInv

LEMMA YieldThreadInv ==
    ASSUME ThreadInv, TypeOK', Yield
    PROVE  ThreadInv'
<1> DEFINE key == Key(exec_priority, burst_time, accumulated_time')
<1>0. ready \in Lists /\ Once(ready) /\ TypeOK /\ currentThread \in Thread
    BY DEF ThreadInv, QueuedOnce, TypeOK, Lists
<1>1. phase = "handler" /\ ~idle /\ ~Sleeping /\ toBeDestroyed = None
    BY DEF Yield, ThreadInv, IdleInHandler, CarcassCleared, Sleeping
<1>2a. PICK f \in FindNextToRun(ready, CurrentKey) :
         \E q \in ReadyToRun(f.lists, currentThread, exec_priority, key) :
            Run(f.next, q, status, [waited EXCEPT ![currentThread] = 0])
    BY DEF Yield
<1>2. PICK q \in ReadyToRun(f.lists, currentThread, exec_priority, key) :
        Run(f.next, q, status, [waited EXCEPT ![currentThread] = 0])
    BY <1>2a
<1>3. /\ f.lists \in Lists
      /\ f.next \in Thread /\ f.next \in Queued(ready)
      /\ Once(f.lists) /\ Queued(f.lists) = Queued(ready) \ {f.next}
    BY <1>0, FoundNext
<1>4. currentThread \notin Queued(ready) \cup asleep
    BY <1>1 DEF ThreadInv, QueuedExclusive
<1>5. Level(exec_priority[currentThread]) \in 1..3
    BY LevelType
<1>6. q \in Enqueued(f.lists, Level(exec_priority[currentThread]), currentThread, key)
    BY <1>2 DEF ReadyToRun
<1> HIDE DEF key
<1>7. Once(q) /\ Queued(q) = (Queued(ready) \ {f.next}) \cup {currentThread}
    BY <1>0, <1>3, <1>4, <1>5, <1>6, EnqueuedLists
<1>8. /\ UNCHANGED <<asleep, idle, toBeDestroyed>>
      /\ ready' = q /\ currentThread' = f.next
      /\ status' = [status EXCEPT ![f.next] = "RUNNING"]
      /\ phase' = "resume"
    BY <1>2 DEF Yield, Run
<1>9. ~Sleeping'
    BY <1>1, <1>8 DEF Sleeping
<1>10. None \notin Queued(ready) \cup asleep \cup {currentThread}
    BY <1>1 DEF ThreadInv, QueuedExclusive
<1>11. QueuedExclusive'
    BY <1>1, <1>3, <1>4, <1>7, <1>8, <1>10 DEF ThreadInv, QueuedExclusive
<1>12. Live' = Live
    BY <1>0, <1>3, <1>8 DEF ThreadInv, NoThreadLost, Live, TypeOK
<1>13. NoThreadLost'
    BY <1>1, <1>3, <1>7, <1>8, <1>9, <1>12 DEF ThreadInv, NoThreadLost
<1>14. CarcassCleared' /\ IdleInHandler' /\ QueuedOnce'
    BY <1>1, <1>7, <1>8 DEF CarcassCleared, IdleInHandler, QueuedOnce
<1> QED BY <1>11, <1>13, <1>14 DEF ThreadInv

LEMMA ResumeThreadInv ==
    ASSUME ThreadInv, TypeOK', Resume
    PROVE  ThreadInv'
<1>0. TypeOK
    BY DEF ThreadInv
<1>1. phase = "resume" /\ ~idle /\ ~Sleeping /\ toBeDestroyed # currentThread
    <2>1. phase = "resume"
        BY DEF Resume
    <2>2. toBeDestroyed # currentThread
        BY <1>0, SchedulerAssumption DEF ThreadInv, CarcassCleared, TypeOK
    <2> QED BY <2>1, <2>2 DEF ThreadInv, IdleInHandler, Sleeping
<1>2. /\ UNCHANGED <<ready, currentThread, asleep, idle>>
      /\ toBeDestroyed' = None /\ phase' = "enable"
      /\ status' = Destroyed(status, "DELETED")
    BY <1>1 DEF Resume, interruptVars
<1>3. ~Sleeping'
    BY <1>1, <1>2 DEF Sleeping
<1>4. None \notin Queued(ready) \cup asleep \cup {currentThread}
    <2>1. Queued(ready) \subseteq Thread
        BY <1>0, RangeOfList DEF TypeOK, Queued
    <2> QED BY <1>0, <2>1, SchedulerAssumption DEF TypeOK
<1>5. QueuedExclusive'
    BY <1>1, <1>2, <1>4 DEF ThreadInv, QueuedExclusive
<1>6. Live' = Live \ {toBeDestroyed}
    BY <1>0, <1>2, SchedulerAssumption DEF Destroyed, Live, TypeOK
<1>7. NoThreadLost'
    BY <1>1, <1>2, <1>3, <1>6 DEF ThreadInv, NoThreadLost, QueuedExclusive
<1>8. CarcassCleared' /\ IdleInHandler' /\ QueuedOnce'
    BY <1>1, <1>2 DEF ThreadInv, CarcassCleared, IdleInHandler, QueuedOnce
<1> QED BY <1>5, <1>7, <1>8 DEF ThreadInv

\* What Promote does to the lists.
LEMMA Promoted ==
    ASSUME TypeOK, Once(ready), Promote
    PROVE  /\ ready' \in Lists /\ Once(ready')
           /\ Queued(ready') = Queued(ready)
           /\ \A k \in 1..3 : Range(ready'[k]) \subseteq
                Range(ready[k]) \cup (IF k = level - 1 THEN {iter} ELSE {})
<1>1. ready \in Lists /\ level \in 1..3 /\ level - 1 \in 1..3 /\ iter \in Thread
    BY DEF Promote, TypeOK, Lists
<1>2. PICK s \in Removed(ready[level], iter) :
        ready' \in Enqueued([ready EXCEPT ![level] = s], level - 1, iter, CurrentKey)
    BY DEF Promote
<1>3. PICK r : r = [ready EXCEPT ![level] = s]
    OBVIOUS
<1>4. /\ r \in Lists /\ Once(r)
      /\ iter \notin Queued(r) /\ Queued(ready) = Queued(r) \cup {iter}
      /\ \A j \in 1..3 : Range(r[j]) \subseteq Range(ready[j])
    <2>1. /\ [ready EXCEPT ![level] = s] \in Lists
          /\ Once([ready EXCEPT ![level] = s])
          /\ iter \notin Queued([ready EXCEPT ![level] = s])
          /\ Queued(ready) = Queued([ready EXCEPT ![level] = s]) \cup {iter}
          /\ \A j \in 1..3 : Range([ready EXCEPT ![level] = s][j]) \subseteq Range(ready[j])
        BY <1>1, RemovedLists
    <2> QED BY <1>3, <2>1
<1>5. PICK key : ready' \in Enqueued(r, level - 1, iter, key)
    BY <1>2, <1>3
<1>6. PICK k \in 1..3 : k = level - 1
    BY <1>1
<1>7. /\ ready' \in Lists
      /\ Range(ready'[k]) = Range(r[k]) \cup {iter}
      /\ \A j \in 1..3 \ {k} : ready'[j] = r[j]
      /\ Queued(ready') = Queued(r) \cup {iter}
      /\ Once(r) /\ iter \notin Queued(r) => Once(ready')
    <2>1. PICK q : q = ready'
        OBVIOUS
    <2>2. r \in Lists /\ iter \in Thread /\ q \in Enqueued(r, k, iter, key)
        BY <1>1, <1>4, <1>5, <1>6, <2>1
    <2>3. Range(q[k]) = Range(r[k]) \cup {iter} /\ \A j \in 1..3 \ {k} : q[j] = r[j]
        BY <2>2, EnqueuedLists
    <2>4. q \in Lists /\ Queued(q) = Queued(r) \cup {iter}
        BY <2>2, EnqueuedLists
    <2>5. Once(r) /\ iter \notin Queued(r) => Once(q)
        BY <2>2, EnqueuedLists
    <2> QED BY <2>1, <2>3, <2>4, <2>5
<1> QED BY <1>4, <1>6, <1>7

LEMMA NextThreadInv == ThreadInv /\ [Next]_vars => ThreadInv'
<1> SUFFICES ASSUME ThreadInv, [Next]_vars PROVE ThreadInv'
    OBVIOUS
<1>a. TypeOK /\ TypeOK' /\ Once(ready) /\ (idle => phase = "handler")
    BY NextTypeOK DEF ThreadInv, QueuedOnce, IdleInHandler
<1>b. ready \in Lists
    BY <1>a DEF TypeOK, Lists
<1>1. ASSUME NEW t \in Thread, NEW p \in Priorities, Exec(t, p) PROVE ThreadInv'
    BY <1>a, <1>1, ExecThreadInv
<1>2. ASSUME NEW t \in Thread, Wakeup(t) PROVE ThreadInv'
    BY <1>a, <1>2, WokenStep DEF Wakeup, threadVars, interruptVars
<1>3. ASSUME NEW fin \in BOOLEAN, Sleep(fin) PROVE ThreadInv'
    BY <1>a, <1>3, SleepThreadInv
<1>4. ASSUME Dispatch PROVE ThreadInv'
    BY <1>a, <1>4, DispatchThreadInv
<1>5. ASSUME NEW d \in 1..timer, Idle(d) PROVE ThreadInv'
    BY <1>a, <1>5, QuietStep DEF Idle, threadVars
<1>6. ASSUME Resume PROVE ThreadInv'
    BY <1>a, <1>6, ResumeThreadInv
<1>7. ASSUME NEW d \in Ticks, OneTick(d) PROVE ThreadInv'
    BY <1>a, <1>7, QuietStep DEF OneTick, threadVars, interruptVars
<1>8. ASSUME NEW t \in Thread, DeviceInterrupt(t) PROVE ThreadInv'
    BY <1>a, <1>8, WokenStep DEF DeviceInterrupt, threadVars, interruptVars
<1>9. ASSUME NEW d \in TimerDelays, IdleTimerInterrupt(d) PROVE ThreadInv'
    BY <1>a, <1>9, QuietStep DEF IdleTimerInterrupt, threadVars, interruptVars
<1>10. ASSUME UpdatePriority PROVE ThreadInv'
    BY <1>a, <1>10, QuietStep DEF UpdatePriority, interruptVars
<1>11. ASSUME Pass PROVE ThreadInv'
    BY <1>a, <1>11, QuietStep DEF Pass, threadVars, interruptVars
<1>12. ASSUME Promote PROVE ThreadInv'
    <2>1. Once(ready') /\ Queued(ready') = Queued(ready)
        BY <1>a, <1>12, Promoted
    <2> QED BY <1>a, <1>12, <2>1, QuietStep DEF Promote, threadVars, interruptVars
<1>13. ASSUME PromoteAborts PROVE ThreadInv'
    BY <1>a, <1>13, QuietStep DEF PromoteAborts, threadVars, interruptVars
<1>14. ASSUME PromoteDone PROVE ThreadInv'
    BY <1>a, <1>14, QuietStep DEF PromoteDone, threadVars, interruptVars
<1>15. ASSUME NEW d \in TimerDelays, Preempt(d) PROVE ThreadInv'
    <2>1. Once(ready') /\ Queued(ready') = Queued(ready)
        BY <1>a, <1>b, <1>15, ReSorted DEF Preempt
    <2> QED BY <1>a, <1>15, <2>1, QuietStep DEF Preempt, threadVars
<1>16. ASSUME HandlerReturn PROVE ThreadInv'
    BY <1>a, <1>16, QuietStep DEF HandlerReturn, threadVars
<1>17. ASSUME Yield PROVE ThreadInv'
    BY <1>a, <1>17, YieldThreadInv
<1>18. CASE UNCHANGED vars
    <2>1. UNCHANGED <<ready, asleep, currentThread, toBeDestroyed, finishing, status, phase, idle>>
        BY <1>18 DEF vars, threadVars, interruptVars
    <2> QED BY <1>a, <2>1
            DEF ThreadInv, QueuedOnce, QueuedExclusive, NoThreadLost, CarcassCleared,
                IdleInHandler, Sleeping, Live
<1> QED
    BY <1>1, <1>2, <1>3, <1>4, <1>5, <1>6, <1>7, <1>8, <1>9, <1>10, <1>11, <1>12,
       <1>13, <1>14, <1>15, <1>16, <1>17, <1>18
    DEF Next, CurrentThreadStep, InterruptStep, Aborted

LEMMA ThreadInvariant == Spec => []ThreadInv
    BY InitThreadInv, NextThreadInv, PTL DEF Spec

\* No thread is twice on the ready lists.
THEOREM ThreadsQueuedOnce == Spec => []QueuedOnce
    BY ThreadInvariant, PTL DEF ThreadInv

\* A ready thread is not asleep, not a carcass and not running.
THEOREM ThreadsExclusive == Spec => []QueuedExclusive
    BY ThreadInvariant, PTL DEF ThreadInv

\* The living threads are the ready ones, the sleeping ones, the current one and
\* the carcass.
THEOREM NoThreadIsLost == Spec => []NoThreadLost
    BY ThreadInvariant, PTL DEF ThreadInv

\* A finished thread is deleted by the next one that runs.
THEOREM CarcassIsCleared == Spec => []CarcassCleared
    BY ThreadInvariant, PTL DEF ThreadInv

-----------------------------------------------------------------------------
(* Priorities and lists                                                    *)

LEMMA LevelFalls ==
    ASSUME NEW p \in Nat, NEW q \in Nat, p <= q
    PROVE  Level(q) <= Level(p)
    BY DEF Level

\* Lists that gain at most a thread on the list of its priority.
LEMMA BandStep ==
    ASSUME NoneAboveBand, NEW t,
           \A k \in 1..3 : \A u \in Range(ready'[k]) :
                u \in Range(ready[k]) \/ (u = t /\ Level(exec_priority'[u]) <= k),
           \A k \in 1..3 : \A u \in Range(ready[k]) :
                u # t => Level(exec_priority'[u]) <= Level(exec_priority[u]),
           \A k \in 1..3 : t \in Range(ready[k]) =>
                Level(exec_priority'[t]) <= Level(exec_priority[t])
    PROVE  NoneAboveBand'
<1> SUFFICES ASSUME NEW k \in 1..3, NEW u \in Range(ready'[k])
             PROVE  Level(exec_priority'[u]) <= k
    BY DEF NoneAboveBand
<1>1. CASE u \in Range(ready[k])
    <2>1. Level(exec_priority[u]) <= k
        BY <1>1 DEF NoneAboveBand
    <2>2. Level(exec_priority'[u]) <= Level(exec_priority[u])
        BY <1>1
    <2>3. Level(exec_priority'[u]) \in 1..3 /\ Level(exec_priority[u]) \in 1..3
        BY LevelType
    <2> QED BY <2>1, <2>2, <2>3
<1>2. CASE u \notin Range(ready[k])
    BY <1>2
<1> QED BY <1>1, <1>2

\* Where ReadyToRun puts a thread.
LEMMA MadeReadyRange ==
    ASSUME TypeOK, NEW t \in Thread, NEW priority, MakeReady(t, priority)
    PROVE  \A k \in 1..3 : \A u \in Range(ready'[k]) :
                u \in Range(ready[k]) \/ (u = t /\ k = Level(priority[t]))
<1>1. ready \in Lists
    BY DEF TypeOK, Lists
<1>2. PICK j \in 1..3 : j = Level(priority[t])
    BY LevelType
<1>3. PICK key : ready' \in Enqueued(ready, j, t, key)
    BY <1>2 DEF MakeReady, ReadyToRun
<1>4. Range(ready'[j]) = Range(ready[j]) \cup {t} /\ \A k \in 1..3 \ {j} : ready'[k] = ready[k]
    BY <1>1, <1>3, EnqueuedLists
<1> QED BY <1>2, <1>4

LEMMA NextNoneAboveBand == ThreadInv /\ NoneAboveBand /\ [Next]_vars => NoneAboveBand'
<1> SUFFICES ASSUME ThreadInv, NoneAboveBand, [Next]_vars PROVE NoneAboveBand'
    OBVIOUS
<1>a. TypeOK /\ Once(ready) /\ ready \in Lists
    BY DEF ThreadInv, QueuedOnce, TypeOK, Lists
<1>b. \A t : Level(exec_priority[t]) \in 1..3 /\ Level(exec_priority[t]) <= Level(exec_priority[t])
    BY LevelType
<1>c. \A k \in 1..3 : Range(ready[k]) \subseteq Queued(ready)
    BY DEF Queued
<1>1. ASSUME NEW t \in Thread, NEW p \in Priorities, Exec(t, p) PROVE NoneAboveBand'
    <2>1. t \notin Queued(ready)
        BY <1>1 DEF ThreadInv, NoThreadLost, Live, Exec
    <2>2. \A u \in Thread : u # t => exec_priority'[u] = exec_priority[u]
        BY <1>1, <1>a DEF Exec, TypeOK
    <2>3. \A k \in 1..3 : Range(ready[k]) \subseteq Thread
        BY <1>a, RangeOfList DEF Lists
    <2>4. \A k \in 1..3 : \A u \in Range(ready'[k]) :
                u \in Range(ready[k]) \/ (u = t /\ k = Level(exec_priority'[t]))
        BY <1>1, <1>a, MadeReadyRange DEF Exec
    <2> QED BY <1>b, <1>c, <2>1, <2>2, <2>3, <2>4, BandStep
<1>2. ASSUME NEW t \in Thread, MakeReady(t, exec_priority), exec_priority' = exec_priority
      PROVE  NoneAboveBand'
    <2>1. \A k \in 1..3 : \A u \in Range(ready'[k]) :
                u \in Range(ready[k]) \/ (u = t /\ k = Level(exec_priority[t]))
        BY <1>2, <1>a, MadeReadyRange
    <2> QED BY <1>2, <1>b, <2>1, BandStep
<1>3. ASSUME Dispatch PROVE NoneAboveBand'
    <2>1. toBeDestroyed = None /\ exec_priority' = exec_priority
        BY <1>3 DEF Dispatch, ThreadInv, CarcassCleared
    <2>2. PICK f \in FindNextToRun(ready, CurrentKey) : ready' = f.lists
        BY <1>3, <2>1 DEF Dispatch, Run
    <2>3. \A k \in 1..3 : Range(ready'[k]) \subseteq Range(ready[k])
        BY <1>a, <2>2, FoundNext
    <2> QED BY <2>1, <2>3 DEF NoneAboveBand
<1>4. ASSUME Yield PROVE NoneAboveBand'
    <2>1. exec_priority' = exec_priority /\ currentThread \in Thread
        BY <1>4, <1>a DEF Yield, TypeOK
    <2> DEFINE key == Key(exec_priority, burst_time, accumulated_time')
    <2>2. PICK f \in FindNextToRun(ready, CurrentKey) :
            ready' \in ReadyToRun(f.lists, currentThread, exec_priority, key)
        BY <1>4 DEF Yield, Run
    <2>3. f.lists \in Lists /\ \A k \in 1..3 : Range(f.lists[k]) \subseteq Range(ready[k])
        BY <1>a, FoundNext
    <2>4. PICK j \in 1..3 : j = Level(exec_priority[currentThread])
        BY <1>b
    <2>5. ready' \in Enqueued(f.lists, j, currentThread, key)
        BY <2>2, <2>4 DEF ReadyToRun
    <2> HIDE DEF key
    <2>6. /\ Range(ready'[j]) = Range(f.lists[j]) \cup {currentThread}
          /\ \A k \in 1..3 \ {j} : ready'[k] = f.lists[k]
        <3>1. PICK q, r : q = f.lists /\ r = ready'
            OBVIOUS
        <3>2. PICK c : r \in Enqueued(q, j, currentThread, c)
            BY <2>5, <3>1
        <3>3. q \in Lists /\ currentThread \in Thread
            BY <2>1, <2>3, <3>1
        <3>4. Range(r[j]) = Range(q[j]) \cup {currentThread}
            BY <3>2, <3>3, EnqueuedLists
        <3>5. \A k \in 1..3 \ {j} : r[k] = q[k]
            BY <3>2, <3>3, EnqueuedLists
        <3> QED BY <3>1, <3>4, <3>5
    <2>7. \A k \in 1..3 : \A u \in Range(ready'[k]) :
                u \in Range(ready[k]) \/ (u = currentThread /\ Level(exec_priority'[u]) <= k)
        BY <1>b, <2>1, <2>3, <2>4, <2>6
    <2> QED BY <1>b, <2>1, <2>7, BandStep
<1>5. ASSUME Resume PROVE NoneAboveBand'
    <2>1. ready' = ready /\ toBeDestroyed \notin Queued(ready)
        BY <1>5 DEF Resume, ThreadInv, QueuedExclusive
    <2>2. \A u \in Thread : u # toBeDestroyed => exec_priority'[u] = exec_priority[u]
        BY <1>5, <1>a DEF Resume, Destroyed, threadVars, TypeOK
    <2>3. \A k \in 1..3 : Range(ready[k]) \subseteq Thread
        BY <1>a, RangeOfList DEF Lists
    <2> QED BY <1>c, <2>1, <2>2, <2>3 DEF NoneAboveBand
<1>6. ASSUME UpdatePriority PROVE NoneAboveBand'
    <2>1. \A k \in 1..3 : Range(ready[k]) \subseteq Thread
        BY <1>a, RangeOfList DEF Lists
    <2>2. ASSUME NEW u \in Thread
          PROVE  Level(exec_priority'[u]) <= Level(exec_priority[u])
        <3>1. exec_priority[u] \in 0..MaxPriority /\ waited[u] \in Nat
            BY <1>a DEF TypeOK
        <3>2. /\ AgedPriority(exec_priority[u], waited[u]) \in 0..MaxPriority
              /\ exec_priority[u] <= AgedPriority(exec_priority[u], waited[u])
            BY <3>1, AgingTypes
        <3>3. exec_priority'[u] \in {exec_priority[u], AgedPriority(exec_priority[u], waited[u])}
            BY <1>6 DEF UpdatePriority
        <3>4. exec_priority'[u] \in Nat /\ exec_priority[u] \in Nat
              /\ exec_priority[u] <= exec_priority'[u]
            BY <3>1, <3>2, <3>3 DEF MaxPriority
        <3> QED BY <3>4, LevelFalls
    <2>3. ready' = ready
        BY <1>6 DEF UpdatePriority
    <2>4. \A k \in 1..3 : \A u \in Range(ready[k]) :
            Level(exec_priority'[u]) <= Level(exec_priority[u])
        BY <2>1, <2>2
    <2> QED BY <2>3, <2>4, BandStep
<1>7. ASSUME Promote PROVE NoneAboveBand'
    <2>1. exec_priority' = exec_priority
        BY <1>7 DEF Promote, threadVars
    <2>2. level \in {2, 3} /\ iter \in Thread /\ exec_priority[iter] \in 0..MaxPriority
        BY <1>7, <1>a DEF Promote, TypeOK
    <2>3. Level(exec_priority[iter]) <= level - 1
        BY <1>7, <2>2 DEF Promote, Outgrown, Level, MaxPriority
    <2>4. \A k \in 1..3 : \A u \in Range(ready'[k]) :
                u \in Range(ready[k]) \/ (u = iter /\ k = level - 1)
        BY <1>7, <1>a, Promoted
    <2> QED BY <1>b, <2>1, <2>3, <2>4, BandStep
<1>8. ASSUME NEW d \in TimerDelays, Preempt(d) PROVE NoneAboveBand'
    <2>1. \A k \in 1..3 : Range(ready'[k]) = Range(ready[k])
        BY <1>8, <1>a, ReSorted DEF Preempt
    <2> QED BY <1>8, <2>1 DEF Preempt, threadVars, NoneAboveBand
<1>9. CASE UNCHANGED <<ready, exec_priority>>
    BY <1>9 DEF NoneAboveBand
<1> QED
    BY <1>1, <1>2, <1>3, <1>4, <1>5, <1>6, <1>7, <1>8, <1>9
    DEF Next, CurrentThreadStep, InterruptStep, Aborted, vars, threadVars, Wakeup,
        DeviceInterrupt, Sleep, Idle, OneTick, IdleTimerInterrupt, Pass, PromoteAborts,
        PromoteDone, HandlerReturn

\* A thread is never on a list above its priority.
THEOREM ThreadsNotAboveBand == Spec => []NoneAboveBand
<1>1. Init => NoneAboveBand
    BY DEF Init, NoneAboveBand, Range
<1> QED BY <1>1, ThreadInvariant, NextNoneAboveBand, PTL DEF Spec

-----------------------------------------------------------------------------
(* The iterator of Scheduler::scheduling                                   *)

\* The iterator stands on an element of the list it walks.
IteratorInList == phase = "promote" => iter = None \/ IsInList(ready[level], iter)

LEMMA SuccessorInList ==
    ASSUME NEW s, NEW t, NEW u \in Successor(s, t, None)
    PROVE  u = None \/ \E i \in 1..Len(s) : i < Len(s) /\ s[i] = t /\ u = s[i + 1]
    BY DEF Successor

\* A thread other than the promoted one stays on its list.
LEMMA PromoteKeeps ==
    ASSUME TypeOK, Once(ready), Promote, NEW u \in Range(ready[level]), u # iter
    PROVE  u \in Range(ready'[level])
<1>1. ready \in Lists /\ level \in 1..3 /\ level - 1 \in 1..3 /\ iter \in Thread
    BY DEF Promote, TypeOK, Lists
<1>2. PICK s \in Removed(ready[level], iter) :
        ready' \in Enqueued([ready EXCEPT ![level] = s], level - 1, iter, CurrentKey)
    BY DEF Promote
<1>3. PICK r : r = [ready EXCEPT ![level] = s]
    OBVIOUS
<1>4. ready[level] \in Seq(Thread) /\ Distinct(ready[level])
    BY <1>1, OnceIsApart DEF Lists, Apart
<1>5. s \in Seq(Thread) /\ Range(s) = Range(ready[level]) \ {iter}
    BY <1>2, <1>4, RemovedList
<1>6. r \in Lists /\ r[level] = s
    BY <1>1, <1>3, <1>5 DEF Lists
<1>7. PICK k, q, key : k \in 1..3 /\ k = level - 1 /\ q = ready' /\ q \in Enqueued(r, k, iter, key)
    BY <1>1, <1>2, <1>3
<1>8. \A j \in 1..3 \ {k} : q[j] = r[j]
    BY <1>1, <1>6, <1>7, EnqueuedLists
<1>9. level \in 1..3 \ {k}
    BY <1>1, <1>7
<1> QED BY <1>5, <1>6, <1>7, <1>8, <1>9

LEMMA NextIteratorInList ==
    ASSUME ThreadInv, IteratorInList, phase # "aborted", [Next]_vars, "reused" \notin FreedChunk
    PROVE  IteratorInList' /\ phase' # "aborted"
<1>a. TypeOK /\ Once(ready) /\ ready \in Lists /\ \A k \in 1..3 : ready[k] \in Seq(Thread)
    BY DEF ThreadInv, QueuedOnce, TypeOK, Lists
<1>b. \A s \in Seq(Thread) : First(s, None) = None \/ IsInList(s, First(s, None))
    BY DEF First, IsInList
<1>1. ASSUME UpdatePriority PROVE IteratorInList' /\ phase' # "aborted"
    BY <1>1, <1>a, <1>b DEF UpdatePriority, IteratorInList
<1>2. ASSUME PromoteDone PROVE IteratorInList' /\ phase' # "aborted"
    BY <1>2, <1>a, <1>b DEF PromoteDone, IteratorInList
<1>3. ASSUME PromoteAborts PROVE FALSE
    BY <1>3 DEF PromoteAborts, IteratorInList
<1>4. ASSUME Pass PROVE IteratorInList' /\ phase' # "aborted"
    <2>1. PICK k \in 1..3 : iter' \in Successor(ready[k], iter, None)
        BY <1>4 DEF Pass
    <2>2. level \in 1..3 /\ iter # None /\ UNCHANGED <<ready, level, phase>> /\ phase = "promote"
        BY <1>4, <1>a DEF Pass, TypeOK
    <2>3. PICK n \in DOMAIN ready[level] : ready[level][n] = iter
        BY <2>2 DEF IteratorInList, IsInList
    <2>4. CASE iter' # None
        <3>1. PICK i \in 1..Len(ready[k]) :
                i < Len(ready[k]) /\ ready[k][i] = iter /\ iter' = ready[k][i + 1]
            BY <2>1, <2>4, SuccessorInList
        <3>2. i \in DOMAIN ready[k] /\ i + 1 \in DOMAIN ready[k]
            BY <1>a, <3>1
        <3>3. k = level
            BY <1>a, <2>2, <2>3, <3>1, <3>2 DEF Once
        <3> QED BY <2>2, <3>1, <3>2, <3>3 DEF IteratorInList, IsInList
    <2> QED BY <2>2, <2>4 DEF IteratorInList
<1>5. ASSUME Promote PROVE IteratorInList' /\ phase' # "aborted"
    <2>1. /\ level \in {2, 3} /\ iter \in Thread /\ UNCHANGED <<level, phase>> /\ phase = "promote"
          /\ iter' \in Successor(ready[level], iter, None)
        BY <1>5, <1>a DEF Promote, TypeOK
    <2>2. CASE iter' # None
        <3>1. PICK i \in 1..Len(ready[level]) :
                i < Len(ready[level]) /\ ready[level][i] = iter /\ iter' = ready[level][i + 1]
            BY <2>1, <2>2, SuccessorInList
        <3>2. i \in DOMAIN ready[level] /\ i + 1 \in DOMAIN ready[level] /\ i + 1 # i
            BY <1>a, <2>1, <3>1
        <3>3. iter' # iter
            BY <1>a, <2>1, <3>1, <3>2 DEF Once
        <3>4. iter' \in Range(ready[level])
            BY <3>1, <3>2 DEF Range
        <3>5. iter' \in Range(ready'[level])
            BY <1>5, <1>a, <2>1, <3>3, <3>4, PromoteKeeps
        <3> QED BY <2>1, <3>5 DEF IteratorInList, IsInList, Range
    <2> QED BY <2>1, <2>2 DEF IteratorInList
<1>6. ASSUME Dispatch PROVE IteratorInList' /\ phase' # "aborted"
    <2>1. toBeDestroyed = None
        BY <1>6 DEF Dispatch, ThreadInv, CarcassCleared
    <2> QED BY <1>6, <2>1 DEF Dispatch, IteratorInList
<1>7. ASSUME Resume PROVE IteratorInList' /\ phase' # "aborted"
    <2>1. toBeDestroyed # currentThread
        BY <1>a, SchedulerAssumption DEF ThreadInv, CarcassCleared, TypeOK
    <2> QED BY <1>7, <2>1 DEF Resume, IteratorInList
<1>8. CASE phase' \notin {"promote", "aborted"}
    BY <1>8 DEF IteratorInList
<1>9. CASE UNCHANGED vars
    BY <1>9 DEF vars, iterVars, IteratorInList
<1> QED
    BY <1>1, <1>2, <1>3, <1>4, <1>5, <1>6, <1>7, <1>8, <1>9
    DEF Next, CurrentThreadStep, InterruptStep, Exec, Wakeup, Sleep, Idle, OneTick,
        DeviceInterrupt, IdleTimerInterrupt, Preempt, HandlerReturn, Yield, Aborted

\* Every assertion holds if a freed list element keeps its next field: the reuse
\* of the element that scheduling removes is the only way to a failed one.
THEOREM IntactNeverAborts ==
    ASSUME "reused" \notin FreedChunk
    PROVE  Spec => []NoAssertionFails
<1>1. Init => IteratorInList /\ phase # "aborted"
    BY DEF Init, IteratorInList
<1>2. ThreadInv /\ IteratorInList /\ phase # "aborted" /\ [Next]_vars
        => (IteratorInList /\ phase # "aborted")'
    BY NextIteratorInList
<1>3. Spec => [](IteratorInList /\ phase # "aborted")
    BY <1>1, <1>2, ThreadInvariant, PTL DEF Spec
<1>4. IteratorInList /\ phase # "aborted" => NoAssertionFails
    BY DEF NoAssertionFails
<1> QED BY <1>3, <1>4, PTL

-----------------------------------------------------------------------------
(* Time: aging, preemption and time slices                                 *)

\* The timer interrupt is pending while a thread may run, no further away than
\* the longest delay, and on a busy machine it is overdue by less than one tick.
TimerInv ==
    /\ \E d \in TimerDelays : timer <= d
    /\ phase \in {"run", "enable", "resume", "sleep"} => timer > 0
    /\ timer > 0 \/ idle \/ \E d \in Ticks : timer + d > 0

LEMMA InitTimerInv == Init => TimerInv
    BY SchedulerAssumption DEF Init, TimerInv

LEMMA NextTimerInv == TypeOK /\ TimerInv /\ [Next]_vars => TimerInv'
<1> SUFFICES ASSUME TypeOK, TimerInv, [Next]_vars PROVE TimerInv'
    OBVIOUS
<1> USE SchedulerAssumption
<1>a. timer \in Int /\ \A d \in TimerDelays \cup Ticks : d \in Nat /\ d > 0
    <2>1. timer \in Int
        BY DEF TypeOK
    <2>2. \A d \in TimerDelays \cup Ticks : d \in Nat \ {0}
        OBVIOUS
    <2> QED BY <2>1, <2>2
<1>1. ASSUME NEW d \in Ticks, OneTick(d) PROVE TimerInv'
    <2>1. timer > 0 /\ timer' = timer - d /\ phase' = "handler"
        BY <1>1 DEF OneTick, Elapse, TimerInv
    <2>2. PICK e \in TimerDelays : timer <= e
        BY DEF TimerInv
    <2>3. timer' <= e /\ timer' + d > 0
        BY <1>a, <2>1, <2>2
    <2> QED BY <2>1, <2>2, <2>3 DEF TimerInv
<1>2. ASSUME NEW d \in 1..timer, Idle(d) PROVE TimerInv'
    <2>1. timer' = timer - d /\ phase' = "handler" /\ idle'
        BY <1>2 DEF Idle, Elapse
    <2>2. PICK e \in TimerDelays : timer <= e
        BY DEF TimerInv
    <2>3. timer' <= e
        BY <1>a, <2>1, <2>2
    <2> QED BY <2>1, <2>3 DEF TimerInv
<1>3. ASSUME NEW d \in TimerDelays, timer' = d PROVE TimerInv'
    BY <1>3, <1>a DEF TimerInv
<1>4. CASE /\ timer' = timer
           /\ timer > 0 \/ idle' = idle
           /\ timer > 0 \/ phase' \notin {"run", "enable", "resume", "sleep"}
    BY <1>4 DEF TimerInv
<1>5. CASE UNCHANGED vars
    BY <1>5 DEF vars, timeVars, interruptVars, TimerInv
<1> QED
    BY <1>1, <1>2, <1>3, <1>4, <1>5
    DEF Next, CurrentThreadStep, InterruptStep, Aborted, timeVars, interruptVars, TimerInv,
        Exec, Wakeup,
        Sleep, Dispatch, Resume, DeviceInterrupt, IdleTimerInterrupt, UpdatePriority, Pass,
        Promote, PromoteAborts, PromoteDone, Preempt, HandlerReturn, Yield

\* Thread::aging leaves at most AgingWait of a waiting time.
LEMMA AgedWaitBound ==
    ASSUME NEW w \in Nat
    PROVE  AgedWait(w) <= AgingWait
<1> USE SchedulerAssumption
<1>1. CASE w > AgingWait
    <2> DEFINE n == (w - 1) \div AgingWait
    <2>1. n \in Nat /\ AgingWait * n <= w - 1 /\ w - 1 < AgingWait * (n + 1)
        BY <1>1
    <2>2. Agings(w) = n
        BY <1>1 DEF Agings
    <2> HIDE DEF n
    <2>3. AgingWait * (n + 1) = AgingWait * n + AgingWait /\ AgingWait * n \in Nat
        BY <2>1
    <2>4. AgedWait(w) = w - AgingWait * n
        BY <2>2 DEF AgedWait
    <2> QED BY <2>1, <2>3, <2>4
<1>2. CASE w <= AgingWait
    BY <1>2 DEF Agings, AgedWait
<1> QED BY <1>1, <1>2

\* What Thread::aging has left of the waiting times: nothing above AgingWait
\* while Alarm::CallBack looks at them, and less than a timer period more at any
\* other time.  Nobody waits while the machine idles.
AgingInv ==
    /\ idle => \A t \in Queued(ready) : waited[t] = 0
    /\ phase \in {"promote", "preempt"} => \A t \in Queued(ready) : waited[t] <= AgingWait
    /\ phase \notin {"promote", "preempt", "aborted"} =>
        \A t \in Queued(ready) : \E d \in TimerDelays : waited[t] + timer <= AgingWait + d

LEMMA QueuedTyped ==
    ASSUME TypeOK
    PROVE  /\ ready \in Lists
           /\ Queued(ready) \subseteq Thread
           /\ \A t \in Thread : waited[t] \in Nat /\ exec_priority[t] \in 0..MaxPriority
<1>1. ready \in Lists
    BY DEF TypeOK, Lists
<1>2. Queued(ready) \subseteq Thread
    BY <1>1, RangeOfList DEF Lists, Queued
<1> QED BY <1>1, <1>2 DEF TypeOK

\* A step that leaves the timer alone, after which every queued thread has just
\* been queued or has waited as long as before.
LEMMA WaitKept ==
    ASSUME TypeOK, TimerInv, AgingInv, timer' = timer, idle' => idle,
           phase \notin {"promote", "preempt", "aborted"},
           phase' \notin {"promote", "preempt"},
           \A t \in Queued(ready') :
                waited'[t] = 0 \/ (t \in Queued(ready) /\ waited'[t] = waited[t])
    PROVE  AgingInv'
<1> USE SchedulerAssumption
<1>1. PICK e \in TimerDelays : timer <= e
    BY DEF TimerInv
<1>2. e \in Nat /\ timer \in Int /\ 0 + timer <= AgingWait + e
    BY <1>1 DEF TypeOK
<1>3. ASSUME NEW t \in Queued(ready')
      PROVE  \E d \in TimerDelays : waited'[t] + timer' <= AgingWait + d
    <2>1. CASE waited'[t] = 0
        BY <1>2, <2>1
    <2>2. CASE t \in Queued(ready) /\ waited'[t] = waited[t]
        BY <2>2 DEF AgingInv
    <2> QED BY <2>1, <2>2
<1>4. idle' => \A t \in Queued(ready') : waited'[t] = 0
    BY DEF AgingInv
<1> QED BY <1>3, <1>4 DEF AgingInv

LEMMA DispatchedQueue ==
    ASSUME ThreadInv, Dispatch, phase' # "aborted"
    PROVE  /\ \E f \in FindNextToRun(ready, CurrentKey) :
                ready' = f.lists /\ currentThread' = f.next
           /\ currentThread' \in Thread
           /\ Queued(ready') = Queued(ready) \ {currentThread'}
           /\ waited' = [waited EXCEPT ![currentThread'] = 0]
           /\ ran' = 0 /\ phase' = "resume"
<1>1. ready \in Lists /\ Once(ready)
    BY QueuedTyped DEF ThreadInv, QueuedOnce
<1>2. PICK f \in FindNextToRun(ready, CurrentKey) :
        Run(f.next, f.lists, status, waited) /\ phase' = "resume"
    BY DEF Dispatch
<1>3. f.next \in Thread /\ Queued(f.lists) = Queued(ready) \ {f.next}
    BY <1>1, FoundNext
<1> QED BY <1>2, <1>3 DEF Run

LEMMA YieldedQueue ==
    ASSUME ThreadInv, Yield
    PROVE  /\ \E f \in FindNextToRun(ready, CurrentKey), k \in 1..3 :
                /\ currentThread' = f.next
                /\ k = Level(exec_priority[currentThread])
                /\ ready' \in Enqueued(f.lists, k, currentThread,
                                Key(exec_priority, burst_time, accumulated_time'))
           /\ currentThread' \in Thread
           /\ Queued(ready') = (Queued(ready) \ {currentThread'}) \cup {currentThread}
           /\ waited' = [waited EXCEPT ![currentThread] = 0, ![currentThread'] = 0]
           /\ ran' = 0 /\ phase' = "resume"
<1> DEFINE key == Key(exec_priority, burst_time, accumulated_time')
<1>1. ready \in Lists /\ Once(ready) /\ currentThread \in Thread
    BY QueuedTyped DEF ThreadInv, QueuedOnce, TypeOK
<1>2. PICK f \in FindNextToRun(ready, CurrentKey) :
        /\ ready' \in ReadyToRun(f.lists, currentThread, exec_priority, key)
        /\ Run(f.next, ready', status, [waited EXCEPT ![currentThread] = 0])
    BY DEF Yield, Run
<1>3. f.lists \in Lists /\ f.next \in Thread /\ Queued(f.lists) = Queued(ready) \ {f.next}
    BY <1>1, FoundNext
<1>4. PICK k \in 1..3 : k = Level(exec_priority[currentThread])
    BY LevelType
<1>5. ready' \in Enqueued(f.lists, k, currentThread, key)
    BY <1>2, <1>4 DEF ReadyToRun
<1>6. PICK q, c : q = ready' /\ q \in Enqueued(f.lists, k, currentThread, c)
    BY <1>5
<1>7. Queued(q) = Queued(f.lists) \cup {currentThread}
    BY <1>1, <1>3, <1>6, EnqueuedLists
<1>8. Queued(ready') = (Queued(ready) \ {f.next}) \cup {currentThread}
    BY <1>3, <1>6, <1>7
<1>9. currentThread' = f.next /\ ran' = 0 /\ phase' = "resume"
      /\ waited' = [[waited EXCEPT ![currentThread] = 0] EXCEPT ![currentThread'] = 0]
    BY <1>2 DEF Run, Yield
<1> QED BY <1>3, <1>4, <1>5, <1>8, <1>9

LEMMA NextAgingInv == ThreadInv /\ TimerInv /\ AgingInv /\ [Next]_vars => AgingInv'
<1> SUFFICES ASSUME ThreadInv, TimerInv, AgingInv, [Next]_vars PROVE AgingInv'
    OBVIOUS
<1> USE SchedulerAssumption
<1>a. /\ TypeOK /\ timer \in Int /\ (idle => phase = "handler")
      /\ Queued(ready) \subseteq Thread
      /\ \A t \in Thread : waited[t] \in Nat
      /\ waited \in [Thread -> Nat]
    BY QueuedTyped DEF ThreadInv, IdleInHandler, TypeOK
<1>1. ASSUME NEW d \in Ticks, OneTick(d) PROVE AgingInv'
    <2>1. /\ ready' = ready /\ ~idle' /\ phase' = "handler" /\ phase \in {"run", "enable"}
          /\ timer' = timer - d
          /\ \A t \in Queued(ready) : waited'[t] = waited[t] + d
        BY <1>1, <1>a DEF OneTick, Elapse, interruptVars
    <2>2. ASSUME NEW t \in Queued(ready')
          PROVE  \E e \in TimerDelays : waited'[t] + timer' <= AgingWait + e
        <3>1. PICK e \in TimerDelays : waited[t] + timer <= AgingWait + e
            BY <2>1 DEF AgingInv
        <3>2. waited'[t] + timer' = waited[t] + timer
            BY <2>1, <1>a
        <3> QED BY <3>1, <3>2
    <2> QED BY <2>1, <2>2 DEF AgingInv
<1>2. ASSUME NEW d \in 1..timer, Idle(d) PROVE AgingInv'
    <2>1. Queued(ready') = {}
        BY <1>2 DEF Idle, NothingReady, Queued, Range
    <2> QED BY <2>1 DEF AgingInv
<1>3. ASSUME NEW t \in Thread, NEW p, MakeReady(t, p),
             UNCHANGED <<timer, idle>>, phase \in {"run", "handler"},
             phase' \in {"enable", "handler"}
      PROVE  AgingInv'
    <2>1. Queued(ready') = Queued(ready) \cup {t}
        BY <1>3, <1>a, MadeReady
    <2>2. waited' = [waited EXCEPT ![t] = 0]
        BY <1>3 DEF MakeReady
    <2>3. \A u \in Queued(ready') :
            waited'[u] = 0 \/ (u \in Queued(ready) /\ waited'[u] = waited[u])
        BY <2>1, <2>2, <1>a
    <2> QED BY <1>3, <1>a, <2>3, WaitKept
<1>4. ASSUME Dispatch PROVE AgingInv'
    <2>1. toBeDestroyed = None
        BY <1>4 DEF Dispatch, ThreadInv, CarcassCleared
    <2>2. UNCHANGED <<timer, idle>> /\ phase = "sleep" /\ phase' # "aborted"
        BY <1>4, <2>1 DEF Dispatch, interruptVars
    <2>3. /\ Queued(ready') = Queued(ready) \ {currentThread'}
          /\ waited' = [waited EXCEPT ![currentThread'] = 0]
          /\ phase' = "resume"
        BY <1>4, <2>2, DispatchedQueue
    <2>4. \A u \in Queued(ready') : u \in Queued(ready) /\ waited'[u] = waited[u]
        BY <2>3, <1>a
    <2> QED BY <1>a, <2>2, <2>3, <2>4, WaitKept
<1>5. ASSUME Yield PROVE AgingInv'
    <2>1. UNCHANGED <<timer, idle>> /\ phase = "handler"
        BY <1>5 DEF Yield
    <2>2. /\ currentThread' \in Thread
          /\ Queued(ready') = (Queued(ready) \ {currentThread'}) \cup {currentThread}
          /\ waited' = [waited EXCEPT ![currentThread] = 0, ![currentThread'] = 0]
          /\ phase' = "resume"
        BY <1>5, YieldedQueue
    <2>3. currentThread \in Thread
        BY <1>a DEF TypeOK
    <2>4. \A u \in Thread :
            waited'[u] = IF u \in {currentThread, currentThread'} THEN 0 ELSE waited[u]
        BY <2>2, <2>3, <1>a
    <2>5. \A u \in Queued(ready') :
            waited'[u] = 0 \/ (u \in Queued(ready) /\ waited'[u] = waited[u])
        BY <2>2, <2>3, <2>4, <1>a
    <2> QED BY <1>a, <2>1, <2>2, <2>5, WaitKept
<1>6. ASSUME UpdatePriority PROVE AgingInv'
    <2>1. ready' = ready /\ ~idle' /\ phase' = "promote"
          /\ waited' = [t \in Thread |-> AgedWait(waited[t])]
        BY <1>6 DEF UpdatePriority, interruptVars
    <2>2. \A t \in Queued(ready') : waited'[t] <= AgingWait
        BY <2>1, <1>a, AgedWaitBound
    <2> QED BY <2>1, <2>2 DEF AgingInv
<1>7. ASSUME NEW d \in TimerDelays, Preempt(d) PROVE AgingInv'
    <2>1. Queued(ready') = Queued(ready)
        BY <1>7, ReSorted, QueuedTyped, <1>a DEF Preempt
    <2>2. phase = "preempt" /\ phase' = "handler" /\ ~idle' /\ timer' = d /\ waited' = waited
        BY <1>7, <1>a DEF Preempt
    <2>3. ASSUME NEW t \in Queued(ready') PROVE waited'[t] + timer' <= AgingWait + d
        <3>1. waited[t] \in Nat /\ waited[t] <= AgingWait /\ d \in Nat
            BY <2>1, <2>2, <1>a DEF AgingInv
        <3> QED BY <3>1, <2>2
    <2> QED BY <2>2, <2>3 DEF AgingInv
<1>8. ASSUME NEW d \in TimerDelays, IdleTimerInterrupt(d) PROVE AgingInv'
    <2>1. /\ UNCHANGED <<ready, waited, idle>> /\ idle /\ phase = "handler" /\ phase' = "handler"
          /\ timer' = d
        BY <1>8 DEF IdleTimerInterrupt, interruptVars
    <2>2. \A t \in Queued(ready') : waited'[t] = 0
        BY <2>1 DEF AgingInv
    <2>3. 0 + d <= AgingWait + d
        OBVIOUS
    <2>4. \A t \in Queued(ready') : waited'[t] + timer' <= AgingWait + d
        BY <2>1, <2>2, <2>3
    <2> QED BY <2>1, <2>2, <2>4 DEF AgingInv
<1>9. CASE /\ waited' = waited /\ idle' = idle
           /\ Queued(ready') = Queued(ready)
           /\ phase = "promote"
           /\ phase' \in {"promote", "preempt", "aborted"}
    BY <1>9 DEF AgingInv
<1>10. CASE UNCHANGED <<ready, waited, timer>> /\ (idle' => idle)
            /\ phase \notin {"promote", "preempt", "aborted"}
            /\ phase' \notin {"promote", "preempt"}
    BY <1>10, <1>a, WaitKept
<1>11. CASE UNCHANGED vars
    BY <1>11 DEF vars, timeVars, interruptVars, AgingInv
<1>12. ASSUME Promote PROVE AgingInv'
    <2>1. Queued(ready') = Queued(ready)
        BY <1>12, <1>a, Promoted DEF ThreadInv, QueuedOnce
    <2> QED BY <1>9, <1>12, <2>1 DEF Promote, timeVars, interruptVars
<1>13. CASE Pass \/ PromoteAborts \/ PromoteDone
    BY <1>9, <1>13 DEF Pass, PromoteAborts, PromoteDone, timeVars, interruptVars
<1>14. CASE (\E t \in Thread, p \in Priorities : Exec(t, p))
            \/ \E t \in Thread : Wakeup(t) \/ DeviceInterrupt(t)
    BY <1>3, <1>14 DEF Exec, Wakeup, DeviceInterrupt, interruptVars
<1>15. CASE (\E fin \in BOOLEAN : Sleep(fin)) \/ Resume \/ HandlerReturn
    BY <1>10, <1>15 DEF Sleep, Resume, HandlerReturn, timeVars, interruptVars
<1> QED
    BY <1>1, <1>2, <1>4, <1>5, <1>6, <1>7, <1>8, <1>11, <1>12, <1>13, <1>14, <1>15
    DEF Next, CurrentThreadStep, InterruptStep, Aborted

LEMMA TimeInvariant == Spec => [](ThreadInv /\ TimerInv /\ AgingInv)
<1>1. Init => AgingInv
    BY DEF Init, AgingInv, Queued, Range
<1>2. ThreadInv => TypeOK
    BY DEF ThreadInv
<1> QED BY <1>1, <1>2, InitTimerInv, NextTimerInv, NextAgingInv, ThreadInvariant, PTL DEF Spec

\* Aging keeps up with the waiting threads, for any number of them and any timer.
THEOREM AgingKeepsUp == Spec => []AgingBound
<1>1. ThreadInv /\ TimerInv /\ AgingInv => AgingBound
    <2> SUFFICES ASSUME ThreadInv, TimerInv, AgingInv, phase = "run", NEW t \in Queued(ready)
                 PROVE  \E d \in TimerDelays : waited[t] < AgingWait + d
        BY DEF AgingBound
    <2>1. PICK d \in TimerDelays : waited[t] + timer <= AgingWait + d
        BY DEF AgingInv
    <2>2. timer > 0 /\ timer \in Int /\ waited[t] \in Nat
        BY QueuedTyped DEF TimerInv, ThreadInv, TypeOK
    <2>3. d \in Nat /\ AgingWait \in Nat
        BY SchedulerAssumption
    <2>4. waited[t] < AgingWait + d
        BY <2>1, <2>2, <2>3
    <2> QED BY <2>4
<1> QED BY <1>1, TimeInvariant, PTL

-----------------------------------------------------------------------------
(* Sorted lists                                                            *)

Sorted(s, key) == \A i, j \in DOMAIN s : i < j => key[s[i]] <= key[s[j]]

\* The two comparison functions are defined on every thread.
LEMMA KeyType ==
    ASSUME NEW burst \in [Thread -> Nat], NEW acc \in [Thread -> Nat],
           NEW priority \in [Thread -> 0..MaxPriority]
    PROVE  \A k \in 1..2 : Key(priority, burst, acc)[k] \in [Thread -> Int]
<1> USE SchedulerAssumption
<1>1. Remaining(burst, acc) \in [Thread -> Int]
    <2>1. ASSUME NEW t \in Thread PROVE burst[t] - BurstUnit * acc[t] \in Int
        <3>1. burst[t] \in Int /\ acc[t] \in Int /\ BurstUnit \in Int
            OBVIOUS
        <3>2. BurstUnit * acc[t] \in Int
            BY <3>1
        <3> QED BY <3>1, <3>2
    <2> QED BY <2>1 DEF Remaining
<1>2. [t \in Thread |-> -priority[t]] \in [Thread -> Int]
    <2>1. ASSUME NEW t \in Thread PROVE -priority[t] \in Int
        <3>1. priority[t] \in 0..149
            BY DEF MaxPriority
        <3>2. \A n \in 0..149 : -n \in Int
            OBVIOUS
        <3> QED BY <3>1, <3>2
    <2> QED BY <2>1
<1>3. /\ Key(priority, burst, acc)[1] = Remaining(burst, acc)
      /\ Key(priority, burst, acc)[2] = [t \in Thread |-> -priority[t]]
    BY DEF Key
<1> QED BY <1>1, <1>2, <1>3

\* Re_Sort_List sorts.
LEMMA StableSortsSorted ==
    ASSUME NEW s \in Seq(Thread), NEW key \in [Thread -> Int], NEW r \in StableSorts(s, key)
    PROVE  Sorted(r, key)
<1>1. PICK p \in Bijection(DOMAIN s, DOMAIN s) :
        /\ \A i, j \in DOMAIN s :
                i < j => \/ key[s[p[i]]] < key[s[p[j]]]
                         \/ key[s[p[i]]] = key[s[p[j]]] /\ p[i] < p[j]
        /\ r = Rearranged(s, p)
    BY DEF StableSorts
<1>2. p \in [DOMAIN s -> DOMAIN s]
    BY DEF Bijection, Injection
<1>3. r = [i \in DOMAIN s |-> s[p[i]]]
    BY <1>1 DEF Rearranged
<1>4. DOMAIN r = DOMAIN s
    BY <1>3
<1>5. \A i \in DOMAIN s : r[i] = s[p[i]] /\ r[i] \in Thread
    BY <1>2, <1>3
<1> SUFFICES ASSUME NEW i \in DOMAIN s, NEW j \in DOMAIN s, i < j
             PROVE  key[r[i]] <= key[r[j]]
    BY <1>4 DEF Sorted
<1>6. key[r[i]] \in Int /\ key[r[j]] \in Int
    BY <1>5
<1>7. key[r[i]] < key[r[j]] \/ key[r[i]] = key[r[j]]
    BY <1>1, <1>5
<1> QED BY <1>6, <1>7

\* SortedList::Insert, element by element.
LEMMA InsertedElements ==
    ASSUME NEW T, NEW s \in Seq(T), NEW t \in T, NEW key, NEW r \in Inserted(s, t, key)
    PROVE  /\ r \in Seq(T) /\ Len(r) = Len(s) + 1
           /\ \E k \in 1..(Len(s) + 1) :
                /\ \A j \in 1..(k - 1) : key[s[j]] <= key[t]
                /\ k <= Len(s) => key[t] < key[s[k]]
                /\ \A i \in 1..(Len(s) + 1) :
                        r[i] = IF i < k THEN s[i] ELSE IF i = k THEN t ELSE s[i - 1]
<1>1. PICK k \in 1..(Len(s) + 1) :
        /\ r = InsertAt(s, k, t)
        /\ \A j \in 1..(k - 1) : key[s[j]] <= key[t]
        /\ k <= Len(s) => key[t] < key[s[k]]
    BY DEF Inserted
<1> DEFINE R == InsertAt(s, k, t)
<1>2. /\ R \in Seq(T) /\ Len(R) = Len(s) + 1
      /\ \A i \in 1..(Len(s) + 1) : R[i] = IF i < k THEN s[i] ELSE IF i = k THEN t ELSE s[i - 1]
    BY InsertAtElements
<1> QED BY <1>1, <1>2

\* SortedList::Insert keeps a sorted list sorted.
LEMMA InsertedSorted ==
    ASSUME NEW s \in Seq(Thread), NEW t \in Thread, NEW key,
           \A u \in Thread : key[u] \in Int, Sorted(s, key), NEW r \in Inserted(s, t, key)
    PROVE  Sorted(r, key)
<1>2. r \in Seq(Thread) /\ Len(r) = Len(s) + 1
    BY InsertedElements
<1>1. PICK k \in 1..(Len(s) + 1) :
        /\ \A j \in 1..(k - 1) : key[s[j]] <= key[t]
        /\ k <= Len(s) => key[t] < key[s[k]]
        /\ \A i \in 1..(Len(s) + 1) :
                r[i] = IF i < k THEN s[i] ELSE IF i = k THEN t ELSE s[i - 1]
    BY InsertedElements
<1>3. Len(s) \in Nat /\ k \in Nat /\ \A u \in Thread : key[u] \in Int
    OBVIOUS
<1>4. \A i \in 1..Len(s) : s[i] \in Thread
    OBVIOUS
<1>5. \A i, j \in 1..Len(s) : i < j => key[s[i]] <= key[s[j]]
    BY DEF Sorted
<1>6. \A j \in k..Len(s) : key[t] <= key[s[j]]
    <2> SUFFICES ASSUME NEW j \in k..Len(s) PROVE key[t] <= key[s[j]]
        OBVIOUS
    <2>1. k \in 1..Len(s) /\ j \in 1..Len(s) /\ key[t] < key[s[k]]
        BY <1>1, <1>3
    <2>2. key[s[k]] <= key[s[j]]
        <3>1. CASE k = j
            BY <3>1, <2>1, <1>3, <1>4
        <3>2. CASE k < j
            BY <3>2, <2>1, <1>5
        <3> QED BY <3>1, <3>2, <1>3
    <2>3. key[t] \in Int /\ key[s[k]] \in Int /\ key[s[j]] \in Int
        BY <2>1, <1>3, <1>4
    <2> QED BY <2>1, <2>2, <2>3
<1> SUFFICES ASSUME NEW i \in 1..(Len(s) + 1), NEW j \in 1..(Len(s) + 1), i < j
             PROVE  key[r[i]] <= key[r[j]]
    BY <1>2 DEF Sorted
<1>7. CASE j < k
    <2>1. r[i] = s[i] /\ r[j] = s[j] /\ i \in 1..Len(s) /\ j \in 1..Len(s)
        BY <1>1, <1>3, <1>7
    <2> QED BY <2>1, <1>5
<1>8. CASE j = k
    <2>1. r[i] = s[i] /\ r[j] = t /\ i \in 1..(k - 1)
        BY <1>1, <1>3, <1>8
    <2> QED BY <2>1, <1>1
<1>9. CASE i = k
    <2>1. r[i] = t /\ r[j] = s[j - 1] /\ j - 1 \in k..Len(s)
        BY <1>1, <1>3, <1>9
    <2> QED BY <2>1, <1>6
<1>10. CASE i < k /\ k < j
    <2>1. r[i] = s[i] /\ r[j] = s[j - 1] /\ i \in 1..Len(s) /\ j - 1 \in 1..Len(s)
        BY <1>1, <1>3, <1>10
    <2>2. i < j - 1
        BY <1>3, <1>10
    <2> QED BY <2>1, <2>2, <1>5
<1>11. CASE k < i
    <2>1. /\ r[i] = s[i - 1] /\ r[j] = s[j - 1]
          /\ i - 1 \in 1..Len(s) /\ j - 1 \in 1..Len(s) /\ i - 1 < j - 1
        BY <1>1, <1>3, <1>11
    <2> QED BY <2>1, <1>5
<1> QED BY <1>3, <1>7, <1>8, <1>9, <1>10, <1>11

\* List::RemoveFront keeps a sorted list sorted.
LEMMA TailSorted ==
    ASSUME NEW s \in Seq(Thread), s # <<>>, NEW key, Sorted(s, key)
    PROVE  Sorted(Tail(s), key)
<1>1. /\ Tail(s) \in Seq(Thread) /\ Len(Tail(s)) = Len(s) - 1 /\ Len(s) \in Nat
      /\ \A i \in 1..(Len(s) - 1) : Tail(s)[i] = s[i + 1]
    OBVIOUS
<1> SUFFICES ASSUME NEW i \in 1..(Len(s) - 1), NEW j \in 1..(Len(s) - 1), i < j
             PROVE  key[Tail(s)[i]] <= key[Tail(s)[j]]
    BY <1>1 DEF Sorted
<1>2. i + 1 \in DOMAIN s /\ j + 1 \in DOMAIN s /\ i + 1 < j + 1
    BY <1>1
<1> QED BY <1>1, <1>2 DEF Sorted

\* The first element of a sorted list has the least key.
LEMMA SortedHead ==
    ASSUME NEW s \in Seq(Thread), s # <<>>, NEW key \in [Thread -> Int], Sorted(s, key)
    PROVE  \A u \in Range(s) : key[Head(s)] <= key[u]
<1> SUFFICES ASSUME NEW u \in Range(s) PROVE key[Head(s)] <= key[u]
    OBVIOUS
<1>1. PICK i \in 1..Len(s) : s[i] = u
    BY DEF Range
<1>2. Head(s) = s[1] /\ 1 \in 1..Len(s) /\ Len(s) \in Nat /\ key[u] \in Int
    BY <1>1
<1>3. CASE i = 1
    BY <1>1, <1>2, <1>3
<1>4. CASE i # 1
    BY <1>1, <1>2, <1>4 DEF Sorted
<1> QED BY <1>3, <1>4

\* The keys of other threads do not matter.
LEMMA SortedBySameKey ==
    ASSUME NEW s \in Seq(Thread), NEW key, NEW other, Sorted(s, key),
           \A t \in Range(s) : other[t] = key[t]
    PROVE  Sorted(s, other)
<1>1. \A i \in DOMAIN s : other[s[i]] = key[s[i]]
    BY DEF Range
<1> QED BY <1>1 DEF Sorted

LEMMA FoundIn ==
    ASSUME NEW q, NEW key, NEW f \in FindNextToRun(q, key)
    PROVE  \E r \in ReSortList(q, key), k \in TopLevel(q) :
                f = [next |-> Head(r[k]), lists |-> [r EXCEPT ![k] = Tail(r[k])]]
    BY DEF FindNextToRun

\* FindNextToRun returns the first thread of the first list that has one, as the
\* lists are sorted at that moment.
LEMMA FoundBest ==
    ASSUME NEW q \in Lists, NEW key, \A k \in 1..2 : key[k] \in [Thread -> Int],
           NEW f \in FindNextToRun(q, key)
    PROVE  /\ \A k \in 1..2 : Sorted(f.lists[k], key[k])
           /\ \E k \in 1..3 :
                /\ f.next \in Range(q[k])
                /\ \A j \in 1..(k - 1) : q[j] = <<>> /\ f.lists[j] = <<>>
                /\ k = 3 => f.next = Head(q[3])
                /\ k < 3 => \A u \in Range(q[k]) : key[k][f.next] <= key[k][u]
<1>1. PICK r \in ReSortList(q, key), k \in TopLevel(q) :
        f = [next |-> Head(r[k]), lists |-> [r EXCEPT ![k] = Tail(r[k])]]
    BY FoundIn
<1>2. PICK s1 \in StableSorts(q[1], key[1]), s2 \in StableSorts(q[2], key[2]) :
        r = <<s1, s2, q[3]>>
    BY DEF ReSortList
<1>3. r \in Lists /\ \A j \in 1..3 : Range(r[j]) = Range(q[j])
    BY ReSorted
<1>4. k \in 1..3 /\ q[k] # <<>> /\ \A j \in 1..(k - 1) : j \in 1..3 /\ j # k /\ q[j] = <<>>
    BY DEF TopLevel
<1>5. \A j \in 1..3 : q[j] \in Seq(Thread) /\ r[j] \in Seq(Thread)
    BY <1>3 DEF Lists
<1>6. \A j \in 1..3 : r[j] = <<>> <=> q[j] = <<>>
    <2> SUFFICES ASSUME NEW j \in 1..3 PROVE r[j] = <<>> <=> q[j] = <<>>
        OBVIOUS
    <2>1. \A s \in Seq(Thread) : s = <<>> <=> Range(s) = {}
        <3> SUFFICES ASSUME NEW s \in Seq(Thread), s # <<>> PROVE Range(s) # {}
            BY DEF Range
        <3>1. s[1] \in Range(s)
            BY DEF Range
        <3> QED BY <3>1
    <2> QED BY <1>3, <1>5, <2>1
<1>7. \A j \in 1..2 : Sorted(r[j], key[j])
    <2>1. Sorted(s1, key[1])
        <3>1. q[1] \in Seq(Thread) /\ key[1] \in [Thread -> Int]
            BY <1>5
        <3> QED BY <3>1, StableSortsSorted
    <2>2. Sorted(s2, key[2])
        <3>1. q[2] \in Seq(Thread) /\ key[2] \in [Thread -> Int]
            BY <1>5
        <3> QED BY <3>1, StableSortsSorted
    <2> QED BY <1>2, <2>1, <2>2
<1>8. /\ f.next = Head(r[k]) /\ f.lists[k] = Tail(r[k])
      /\ \A j \in 1..3 : j # k => f.lists[j] = r[j]
    BY <1>1, <1>3, <1>4 DEF Lists
<1>9. \A j \in 1..2 : Sorted(f.lists[j], key[j])
    <2> SUFFICES ASSUME NEW j \in 1..2 PROVE Sorted(f.lists[j], key[j])
        OBVIOUS
    <2>1. CASE j = k
        BY <2>1, <1>4, <1>5, <1>6, <1>7, <1>8, TailSorted
    <2>2. CASE j # k
        BY <2>2, <1>7, <1>8
    <2> QED BY <2>1, <2>2
<1>10. f.next \in Range(q[k])
    <2>1. PICK s : s = r[k]
        OBVIOUS
    <2>2. s \in Seq(Thread) /\ s # <<>> /\ Range(s) = Range(q[k])
        BY <1>3, <1>4, <1>5, <1>6, <2>1
    <2>3. Head(s) \in Range(s)
        BY <2>2, TailList
    <2> QED BY <2>1, <2>2, <2>3, <1>8
<1>11. \A j \in 1..(k - 1) : q[j] = <<>> /\ f.lists[j] = <<>>
    BY <1>4, <1>6, <1>8
<1>12. k = 3 => f.next = Head(q[3])
    BY <1>2, <1>8
<1>13. ASSUME k < 3, NEW u \in Range(q[k]) PROVE key[k][f.next] <= key[k][u]
    <2>1. r[k] \in Seq(Thread) /\ r[k] # <<>> /\ u \in Range(r[k])
        BY <1>3, <1>4, <1>5, <1>6, <1>13
    <2>3. k \in 1..2
        BY <1>4, <1>13
    <2>2. key[k][Head(r[k])] <= key[k][u]
        BY <2>1, <2>3, <1>7, SortedHead
    <2> QED BY <2>2, <1>8
<1> QED BY <1>4, <1>9, <1>10, <1>11, <1>12, <1>13

LEMMA CurrentKeyType ==
    ASSUME TypeOK
    PROVE  \A k \in 1..2 : CurrentKey[k] \in [Thread -> Int]
    BY KeyType DEF TypeOK, CurrentKey

-----------------------------------------------------------------------------
(* The choice of the next thread                                           *)

LEMMA BestNext ==
    ASSUME TypeOK, NEW f \in FindNextToRun(ready, CurrentKey)
    PROVE  BestChoice(f.next)
<1>1. ready \in Lists /\ \A k \in 1..2 : CurrentKey[k] \in [Thread -> Int]
    BY QueuedTyped, CurrentKeyType
<1>2. PICK k \in 1..3 :
        /\ f.next \in Range(ready[k])
        /\ \A j \in 1..(k - 1) : ready[j] = <<>> /\ f.lists[j] = <<>>
        /\ k = 3 => f.next = Head(ready[3])
        /\ k < 3 => \A u \in Range(ready[k]) : CurrentKey[k][f.next] <= CurrentKey[k][u]
    BY <1>1, FoundBest
<1> QED BY <1>2 DEF BestChoice

LEMMA NextDispatchesBest ==
    ASSUME ThreadInv, [Next]_vars, phase' = "resume", phase # "resume"
    PROVE  BestChoice(currentThread')
<1>1. TypeOK
    BY DEF ThreadInv
<1>2. ASSUME Dispatch PROVE BestChoice(currentThread')
    <2>1. PICK f \in FindNextToRun(ready, CurrentKey) : currentThread' = f.next
        BY <1>2 DEF Dispatch, Run
    <2> QED BY <1>1, <2>1, BestNext
<1>3. ASSUME Yield PROVE BestChoice(currentThread')
    <2>1. PICK f \in FindNextToRun(ready, CurrentKey) : currentThread' = f.next
        BY <1>3 DEF Yield, Run
    <2> QED BY <1>1, <2>1, BestNext
<1>4. Dispatch \/ Yield
    BY DEF Next, CurrentThreadStep, InterruptStep, Aborted, vars, Exec, Wakeup, Sleep, Idle,
        Resume, OneTick, DeviceInterrupt, IdleTimerInterrupt, UpdatePriority, Pass, Promote,
        PromoteAborts, PromoteDone, Preempt, HandlerReturn
<1> QED BY <1>2, <1>3, <1>4

\* Whoever is switched in was the best choice of the three lists, although aging
\* and the running time change the keys while threads are queued.
THEOREM BestIsDispatched == Spec => DispatchesBest
<1>1. ThreadInv /\ [Next]_vars =>
        [phase' = "resume" /\ phase # "resume" => BestChoice(currentThread')]_vars
    BY NextDispatchesBest
<1> QED BY <1>1, ThreadInvariant, PTL DEF Spec, DispatchesBest

-----------------------------------------------------------------------------
(* Preemption and time slices                                              *)

\* A thread has the CPU, or is about to have it back from a handler.
Awake == phase \in {"run", "enable", "resume"} \/ (phase = "handler" /\ ~idle)

\* The handler has asked for a Thread::Yield.
YieldDue == phase = "handler" /\ yieldOnReturn

\* Until it asks for one, a thread of L2 or L3 has kept a thread of L1 from the CPU
\* for no more than the time the timer has run.
PreemptionInv ==
    Awake /\ ~YieldDue /\ exec_priority[currentThread] < 100 =>
        \A t \in Range(ready[1]) : \E d \in TimerDelays : waited[t] + timer <= d

\* The same for a thread of L3 and any other: the other one has waited, or the thread
\* has run, no longer than the timer.
TimeSliceInv ==
    Awake /\ ~YieldDue /\ exec_priority[currentThread] < 50 =>
        \A t \in Queued(ready) : \E d \in TimerDelays :
            waited[t] + timer <= d \/ ran + timer <= d

SliceInv == PreemptionInv /\ TimeSliceInv

\* A step that leaves the timer and the current thread alone, after which every queued
\* thread has just been queued or has waited as long as before.
LEMMA SliceKept ==
    ASSUME TypeOK, TimerInv, SliceInv, timer' = timer, currentThread' = currentThread,
           exec_priority'[currentThread] = exec_priority[currentThread],
           Awake' /\ ~YieldDue' => Awake /\ ~YieldDue,
           ran' = ran \/ ran' = 0,
           NEW t, waited'[t] = 0,
           \A k \in 1..3 : \A u \in Range(ready'[k]) :
                u = t \/ (u \in Range(ready[k]) /\ waited'[u] = waited[u])
    PROVE  SliceInv'
<1> USE SchedulerAssumption
<1>1. PICK e \in TimerDelays : timer <= e
    BY DEF TimerInv
<1>2. timer \in Int /\ 0 + timer <= e
    BY <1>1 DEF TypeOK
<1>3. ASSUME PreemptionInv PROVE PreemptionInv'
    BY <1>2, <1>3 DEF PreemptionInv
<1>4. ASSUME TimeSliceInv PROVE TimeSliceInv'
    <2> SUFFICES ASSUME (Awake /\ ~YieldDue)', exec_priority'[currentThread'] < 50,
                        NEW u \in Queued(ready')
                 PROVE  \E d \in TimerDelays :
                            waited'[u] + timer' <= d \/ ran' + timer' <= d
        BY DEF TimeSliceInv
    <2>1. CASE u = t
        BY <1>2, <2>1
    <2>2. CASE u # t
        <3>1. u \in Queued(ready) /\ waited'[u] = waited[u]
            BY <2>2 DEF Queued
        <3>2. PICK d \in TimerDelays : waited[u] + timer <= d \/ ran + timer <= d
            BY <1>4, <3>1 DEF TimeSliceInv
        <3> QED BY <1>2, <3>1, <3>2
    <2> QED BY <2>1, <2>2
<1> QED BY <1>3, <1>4 DEF SliceInv

\* A thread of L2 or L3 is switched in only when L1 is empty.
LEMMA NextAboveEmpty ==
    ASSUME ThreadInv, NoneAboveBand, NEW f \in FindNextToRun(ready, CurrentKey),
           exec_priority[f.next] < 100
    PROVE  f.lists[1] = <<>>
<1>1. /\ TypeOK /\ ready \in Lists /\ \A k \in 1..2 : CurrentKey[k] \in [Thread -> Int]
      /\ Queued(ready) \subseteq Thread
      /\ \A t \in Thread : exec_priority[t] \in 0..MaxPriority
    BY QueuedTyped, CurrentKeyType DEF ThreadInv
<1>2. PICK k \in 1..3 :
        /\ f.next \in Range(ready[k])
        /\ \A j \in 1..(k - 1) : ready[j] = <<>> /\ f.lists[j] = <<>>
    BY <1>1, FoundBest
<1>3. Level(exec_priority[f.next]) <= k
    BY <1>2 DEF NoneAboveBand
<1>4. exec_priority[f.next] \in Int
    <2>1. f.next \in Thread
        BY <1>1, FoundNext
    <2> QED BY <1>1, <2>1 DEF MaxPriority
<1>5. k # 1
    BY <1>3, <1>4 DEF Level
<1> QED BY <1>2, <1>5

\* What a thread of L2 or L3 lets Alarm::CallBack decide.
LEMMA YieldWanted ==
    ASSUME TypeOK, NEW q, ~WantsYield(q)
    PROVE  /\ exec_priority[currentThread] < 100 => q[1] = <<>>
           /\ exec_priority[currentThread] < 50 => \A k \in 1..3 : q[k] = <<>>
<1>1. exec_priority[currentThread] \in 0..149
    BY DEF TypeOK, MaxPriority
<1>2. ASSUME ~(exec_priority[currentThread] > 99), exec_priority[currentThread] \in 50..99
      PROVE  q[1] = <<>>
    BY <1>2, Zenon DEF WantsYield
<1>3. ASSUME ~(exec_priority[currentThread] > 99), exec_priority[currentThread] \notin 50..99
      PROVE  \A k \in 1..3 : q[k] = <<>>
    BY <1>3, Zenon DEF WantsYield
<1>4. CASE exec_priority[currentThread] > 99
    <2>1. ~(exec_priority[currentThread] < 100) /\ ~(exec_priority[currentThread] < 50)
        BY <1>1, <1>4
    <2> QED BY <2>1, Zenon
<1>5. CASE ~(exec_priority[currentThread] > 99) /\ exec_priority[currentThread] \in 50..99
    <2>1. ~(exec_priority[currentThread] < 50)
        BY <1>1, <1>5
    <2> QED BY <1>2, <1>5, <2>1, Zenon
<1>6. CASE ~(exec_priority[currentThread] > 99) /\ exec_priority[currentThread] \notin 50..99
    <2>1. \A k \in 1..3 : q[k] = <<>>
        BY <1>3, <1>6
    <2> QED BY <2>1
<1> QED BY <1>4, <1>5, <1>6

LEMMA NextSliceInv ==
    ASSUME ThreadInv, NoneAboveBand, TimerInv, SliceInv, [Next]_vars
    PROVE  SliceInv'
<1> USE SchedulerAssumption
<1>a. /\ TypeOK /\ timer \in Int /\ ran \in Nat /\ (idle => phase = "handler")
      /\ ready \in Lists
      /\ Queued(ready) \subseteq Thread
      /\ \A t \in Thread : waited[t] \in Nat
      /\ waited \in [Thread -> Nat]
      /\ currentThread \in Thread
      /\ \A k \in 1..3 : Range(ready[k]) \subseteq Queued(ready)
    <2>1. TypeOK /\ (idle => phase = "handler")
        BY DEF ThreadInv, IdleInHandler
    <2>2. timer \in Int /\ ran \in Nat /\ waited \in [Thread -> Nat] /\ currentThread \in Thread
        BY <2>1 DEF TypeOK
    <2>3. \A k \in 1..3 : Range(ready[k]) \subseteq Queued(ready)
        BY DEF Queued
    <2> QED BY <2>1, <2>2, <2>3, QueuedTyped
<1>b. PICK e \in TimerDelays : timer <= e
    BY DEF TimerInv
<1>1. ASSUME NEW d \in Ticks, OneTick(d) PROVE SliceInv'
    <2>1. /\ UNCHANGED <<ready, currentThread, exec_priority, yieldOnReturn, idle>>
          /\ phase' = "handler" /\ phase \in {"run", "enable"}
          /\ timer' = timer - d /\ ran' = Saturate(ran + d)
          /\ \A t \in Queued(ready) : waited'[t] = waited[t] + d
        BY <1>1, <1>a DEF OneTick, Elapse, interruptVars, threadVars
    <2>2. Awake /\ ~YieldDue
        BY <2>1 DEF Awake, YieldDue
    <2>3. ran' <= ran + d /\ ran' \in Nat
        <3>1. ran + d \in Nat /\ MaxRun \in Nat
            BY <1>a
        <3> QED BY <2>1, <3>1 DEF Saturate
    <2>4. \A t \in Queued(ready) : waited'[t] + timer' = waited[t] + timer
        BY <2>1, <1>a
    <2>5. ran' + timer' <= ran + timer
        BY <2>1, <2>3, <1>a
    <2>6. PreemptionInv'
        BY <2>1, <2>2, <2>4, <1>a DEF SliceInv, PreemptionInv
    <2>7. TimeSliceInv'
        <3> SUFFICES ASSUME exec_priority[currentThread] < 50, NEW u \in Queued(ready)
                     PROVE  \E c \in TimerDelays :
                                waited'[u] + timer' <= c \/ ran' + timer' <= c
            BY <2>1 DEF TimeSliceInv
        <3>1. PICK c \in TimerDelays : waited[u] + timer <= c \/ ran + timer <= c
            BY <2>2 DEF SliceInv, TimeSliceInv
        <3>2. ran' + timer' \in Int /\ ran + timer \in Int /\ c \in Int
            BY <2>1, <2>3, <1>a
        <3>3. waited'[u] + timer' <= c \/ ran' + timer' <= c
            BY <2>4, <2>5, <3>1, <3>2
        <3> QED BY <3>3
    <2> QED BY <2>6, <2>7 DEF SliceInv
<1>2. ASSUME NEW t \in Thread, NEW p, MakeReady(t, p),
             UNCHANGED <<timer, idle, yieldOnReturn, currentThread, ran>>,
             exec_priority'[currentThread] = exec_priority[currentThread],
             \/ phase = "run" /\ phase' = "enable"
             \/ phase = "handler" /\ phase' = "handler"
      PROVE  SliceInv'
    <2>1. \A k \in 1..3 : \A u \in Range(ready'[k]) : u = t \/ u \in Range(ready[k])
        BY <1>2, <1>a, MadeReadyRange
    <2>2. waited' = [waited EXCEPT ![t] = 0]
        BY <1>2 DEF MakeReady
    <2>3. \A k \in 1..3 : \A u \in Range(ready'[k]) :
            u = t \/ (u \in Range(ready[k]) /\ waited'[u] = waited[u])
        BY <2>1, <2>2, <1>a
    <2>4. waited'[t] = 0
        BY <2>2, <1>a
    <2>5. Awake' /\ ~YieldDue' => Awake /\ ~YieldDue
        BY <1>2 DEF Awake, YieldDue
    <2> QED BY <1>2, <1>a, <2>3, <2>4, <2>5, SliceKept
<1>3. ASSUME ran' = 0, timer' = timer, ~YieldDue',
             exec_priority'[currentThread'] < 100 =>
                \A u \in Range(ready'[1]) : waited'[u] = 0
      PROVE  SliceInv'
    <2>1. 0 + timer <= e
        BY <1>a, <1>b
    <2>2. PreemptionInv'
        BY <1>3, <2>1 DEF PreemptionInv
    <2>3. TimeSliceInv'
        BY <1>3, <2>1 DEF TimeSliceInv
    <2> QED BY <2>2, <2>3 DEF SliceInv
<1>4. ASSUME Dispatch PROVE SliceInv'
    <2>1. toBeDestroyed = None
        BY <1>4 DEF Dispatch, ThreadInv, CarcassCleared
    <2>2. phase' # "aborted" /\ UNCHANGED <<timer, exec_priority>>
        BY <1>4, <2>1 DEF Dispatch
    <2>3. /\ \E f \in FindNextToRun(ready, CurrentKey) :
                ready' = f.lists /\ currentThread' = f.next
          /\ ran' = 0 /\ phase' = "resume"
        BY <1>4, <2>2, DispatchedQueue
    <2>4. ASSUME exec_priority'[currentThread'] < 100 PROVE Range(ready'[1]) = {}
        <3>1. ready'[1] = <<>>
            BY <2>2, <2>3, <2>4, NextAboveEmpty
        <3> QED BY <3>1 DEF Range
    <2> QED BY <1>3, <2>2, <2>3, <2>4 DEF YieldDue
<1>5. ASSUME Yield PROVE SliceInv'
    <2>1. timer' = timer /\ exec_priority' = exec_priority
        BY <1>5 DEF Yield
    <2>2. /\ \E f \in FindNextToRun(ready, CurrentKey), k \in 1..3 :
                /\ currentThread' = f.next
                /\ k = Level(exec_priority[currentThread])
                /\ ready' \in Enqueued(f.lists, k, currentThread,
                                Key(exec_priority, burst_time, accumulated_time'))
          /\ currentThread' \in Thread
          /\ waited' = [waited EXCEPT ![currentThread] = 0, ![currentThread'] = 0]
          /\ ran' = 0 /\ phase' = "resume"
        BY <1>5, YieldedQueue
    <2>3. PICK f \in FindNextToRun(ready, CurrentKey), k \in 1..3 :
            /\ currentThread' = f.next
            /\ ready' \in Enqueued(f.lists, k, currentThread,
                                Key(exec_priority, burst_time, accumulated_time'))
        BY <2>2
    <2>4. PICK q, key : q = ready' /\ q \in Enqueued(f.lists, k, currentThread, key)
        BY <2>3
    <2>5. f.lists \in Lists
        BY <1>a, FoundNext
    <2>6. Range(q[k]) = Range(f.lists[k]) \cup {currentThread}
          /\ \A j \in 1..3 \ {k} : q[j] = f.lists[j]
        <3>1. PICK r : r = f.lists
            OBVIOUS
        <3>2. r \in Lists /\ currentThread \in Thread /\ q \in Enqueued(r, k, currentThread, key)
            BY <1>a, <2>4, <2>5, <3>1
        <3>3. Range(q[k]) = Range(r[k]) \cup {currentThread}
            BY <3>2, EnqueuedLists
        <3>4. \A j \in 1..3 \ {k} : q[j] = r[j]
            BY <3>2, EnqueuedLists
        <3> QED BY <3>1, <3>3, <3>4
    <2>7. Range(q[1]) \subseteq Range(f.lists[1]) \cup {currentThread}
        BY <2>6
    <2>8. waited'[currentThread] = 0
        BY <2>2, <1>a
    <2>9. ASSUME exec_priority'[currentThread'] < 100
          PROVE  \A u \in Range(ready'[1]) : waited'[u] = 0
        <3>1. f.lists[1] = <<>>
            BY <2>1, <2>3, <2>9, NextAboveEmpty
        <3>2. Range(f.lists[1]) = {}
            BY <3>1 DEF Range
        <3> QED BY <2>4, <2>7, <2>8, <3>2
    <2> QED BY <1>3, <2>1, <2>2, <2>9 DEF YieldDue
<1>6. ASSUME NEW d \in TimerDelays, Preempt(d) PROVE SliceInv'
    <2>1. /\ phase' = "handler" /\ yieldOnReturn' = (yieldOnReturn \/ WantsYield(ready'))
          /\ UNCHANGED <<currentThread, exec_priority>>
          /\ ready' \in ReSortList(ready, CurrentKey)
        BY <1>6 DEF Preempt, threadVars
    <2>2. ready' \in Lists
        BY <1>a, <2>1, ReSorted
    <2>4. PreemptionInv'
        <3> SUFFICES ASSUME ~YieldDue', exec_priority[currentThread] < 100 PROVE Range(ready'[1]) = {}
            BY <2>1 DEF PreemptionInv
        <3>1. ~WantsYield(ready')
            BY <2>1 DEF YieldDue
        <3>2. ready'[1] = <<>>
            BY <1>a, <3>1, YieldWanted
        <3> QED BY <3>2 DEF Range
    <2>5. TimeSliceInv'
        <3> SUFFICES ASSUME ~YieldDue', exec_priority[currentThread] < 50 PROVE Queued(ready') = {}
            BY <2>1 DEF TimeSliceInv
        <3>1. ~WantsYield(ready')
            BY <2>1 DEF YieldDue
        <3>2. \A k \in 1..3 : ready'[k] = <<>>
            BY <1>a, <3>1, YieldWanted
        <3>3. \A k \in 1..3 : Range(ready'[k]) = {}
            BY <3>2 DEF Range
        <3> QED BY <3>3 DEF Queued
    <2> QED BY <2>4, <2>5 DEF SliceInv
<1>7. ASSUME Resume PROVE SliceInv'
    <2>1. toBeDestroyed # currentThread
        BY <1>a DEF ThreadInv, CarcassCleared
    <2>2. /\ UNCHANGED <<ready, currentThread, waited, timer, yieldOnReturn, idle>>
          /\ ran' = 0 /\ phase = "resume" /\ phase' = "enable"
          /\ exec_priority' = Destroyed(exec_priority, 0)
        BY <1>7, <2>1 DEF Resume, interruptVars
    <2>3. exec_priority'[currentThread] = exec_priority[currentThread]
        BY <2>1, <2>2, <1>a DEF Destroyed, TypeOK
    <2>4. PreemptionInv'
        BY <2>2, <2>3 DEF SliceInv, PreemptionInv, Awake, YieldDue
    <2>5. TimeSliceInv'
        <3>1. 0 + timer <= e
            BY <1>a, <1>b
        <3> QED BY <2>2, <3>1 DEF TimeSliceInv
    <2> QED BY <2>4, <2>5 DEF SliceInv
<1>8. ASSUME HandlerReturn PROVE SliceInv'
    <2>1. /\ UNCHANGED <<ready, currentThread, waited, timer, ran, exec_priority>>
          /\ phase = "handler"
          /\ idle \/ ~yieldOnReturn \/ NothingReady
          /\ phase' = IF idle THEN "sleep" ELSE IF yieldOnReturn THEN "enable" ELSE "run"
          /\ ~idle'
        BY <1>8 DEF HandlerReturn, timeVars, threadVars
    <2>2. CASE idle
        BY <2>1, <2>2 DEF SliceInv, PreemptionInv, TimeSliceInv, Awake
    <2>3. CASE ~idle /\ ~yieldOnReturn
        BY <2>1, <2>3 DEF SliceInv, PreemptionInv, TimeSliceInv, Awake, YieldDue
    <2>4. CASE NothingReady
        <3>1. \A k \in 1..3 : Range(ready'[k]) = {}
            BY <2>1, <2>4 DEF NothingReady, Range
        <3> QED BY <3>1 DEF SliceInv, PreemptionInv, TimeSliceInv, Queued
    <2> QED BY <2>1, <2>2, <2>3, <2>4
<1>9. CASE ~Awake'
    BY <1>9 DEF SliceInv, PreemptionInv, TimeSliceInv
<1>10. CASE UNCHANGED vars
    BY <1>10 DEF vars, timeVars, interruptVars, threadVars, SliceInv, PreemptionInv,
        TimeSliceInv, Awake, YieldDue
<1>11. ASSUME NEW t \in Thread, NEW p \in Priorities, Exec(t, p) PROVE SliceInv'
    <2>1. t # currentThread
        BY <1>11 DEF ThreadInv, NoThreadLost, Live, Exec
    <2>2. exec_priority'[currentThread] = exec_priority[currentThread]
        BY <1>11, <2>1, <1>a DEF Exec, TypeOK
    <2> QED BY <1>2, <1>11, <2>2 DEF Exec, interruptVars
<1>12. ASSUME NEW t \in Thread, Wakeup(t) \/ DeviceInterrupt(t) PROVE SliceInv'
    BY <1>2, <1>12 DEF Wakeup, DeviceInterrupt, threadVars, interruptVars
<1>13. CASE \/ \E fin \in BOOLEAN : Sleep(fin)
            \/ \E d \in 1..timer : Idle(d)
            \/ \E d \in TimerDelays : IdleTimerInterrupt(d)
            \/ UpdatePriority \/ Pass \/ Promote \/ PromoteAborts \/ PromoteDone
    BY <1>9, <1>13 DEF Sleep, Idle, IdleTimerInterrupt, UpdatePriority, Pass, Promote,
        PromoteAborts, PromoteDone, Awake, interruptVars
<1> QED
    BY <1>1, <1>4, <1>5, <1>6, <1>7, <1>8, <1>10, <1>11, <1>12, <1>13
    DEF Next, CurrentThreadStep, InterruptStep, Aborted

LEMMA SliceInvariant == Spec => [](ThreadInv /\ TimerInv /\ SliceInv)
<1>1. Init => SliceInv
    BY DEF Init, SliceInv, PreemptionInv, TimeSliceInv, Queued, Range
<1>2. ThreadInv /\ NoneAboveBand /\ TimerInv /\ SliceInv /\ [Next]_vars => SliceInv'
    BY NextSliceInv
<1> QED BY <1>1, <1>2, TimeInvariant, ThreadsNotAboveBand, PTL DEF Spec

\* L1 preempts the other lists within a timer period.
THEOREM PreemptionIsTimely == Spec => []PreemptionBound
<1>1. ThreadInv /\ TimerInv /\ SliceInv => PreemptionBound
    <2> SUFFICES ASSUME ThreadInv, TimerInv, SliceInv, phase = "run",
                        exec_priority[currentThread] < 100, NEW t \in Range(ready[1])
                 PROVE  \E d \in TimerDelays : waited[t] < d
        BY DEF PreemptionBound
    <2>1. PICK d \in TimerDelays : waited[t] + timer <= d
        BY DEF SliceInv, PreemptionInv, Awake, YieldDue
    <2>2. TypeOK /\ t \in Queued(ready) /\ timer > 0
        BY DEF TimerInv, ThreadInv, Queued
    <2>4. timer \in Int /\ waited[t] \in Nat /\ d \in Nat
        BY <2>2, QueuedTyped, SchedulerAssumption DEF TypeOK
    <2>3. waited[t] < d
        BY <2>1, <2>2, <2>4
    <2> QED BY <2>3
<1> QED BY <1>1, SliceInvariant, PTL

\* A thread of L3 gives way to any ready thread after a time slice.
THEOREM TimeSlicesAreTimely == Spec => []TimeSliceBound
<1>1. ThreadInv /\ TimerInv /\ SliceInv => TimeSliceBound
    <2> SUFFICES ASSUME ThreadInv, TimerInv, SliceInv, phase = "run",
                        exec_priority[currentThread] < 50, NEW t \in Queued(ready)
                 PROVE  \E d \in TimerDelays : waited[t] < d \/ ran < d
        BY DEF TimeSliceBound
    <2>1. PICK d \in TimerDelays : waited[t] + timer <= d \/ ran + timer <= d
        BY DEF SliceInv, TimeSliceInv, Awake, YieldDue
    <2>2. timer > 0 /\ timer \in Int /\ waited[t] \in Nat /\ ran \in Nat /\ d \in Nat
        BY QueuedTyped, SchedulerAssumption DEF TimerInv, ThreadInv, TypeOK
    <2>3. waited[t] < d \/ ran < d
        BY <2>1, <2>2
    <2> QED BY <2>3
<1> QED BY <1>1, SliceInvariant, PTL

-----------------------------------------------------------------------------
(* L1_list and L2_list stay sorted                                         *)

\* The lists are sorted by the keys the threads have now, except while
\* Alarm::CallBack is changing them.
SortedInv ==
    phase \notin {"promote", "preempt", "aborted"} =>
        \A k \in 1..2 : Sorted(ready[k], CurrentKey[k])

\* The keys of the threads whose fields stay the same.
LEMMA KeyOfOthers ==
    ASSUME NEW t,
           \A u \in Thread \ {t} : /\ exec_priority'[u] = exec_priority[u]
                                   /\ burst_time'[u] = burst_time[u]
                                   /\ accumulated_time'[u] = accumulated_time[u]
    PROVE  \A k \in 1..2 : \A u \in Thread \ {t} : CurrentKey'[k][u] = CurrentKey[k][u]
<1>1. /\ CurrentKey[1] = [u \in Thread |-> burst_time[u] - BurstUnit * accumulated_time[u]]
      /\ CurrentKey'[1] = [u \in Thread |-> burst_time'[u] - BurstUnit * accumulated_time'[u]]
      /\ CurrentKey[2] = [u \in Thread |-> -exec_priority[u]]
      /\ CurrentKey'[2] = [u \in Thread |-> -exec_priority'[u]]
    BY DEF CurrentKey, Key, Remaining
<1>2. \A u \in Thread \ {t} : CurrentKey'[1][u] = CurrentKey[1][u]
    BY <1>1
<1>3. \A u \in Thread \ {t} : CurrentKey'[2][u] = CurrentKey[2][u]
    BY <1>1
<1> QED BY <1>2, <1>3

\* ReadyToRun keeps the lists sorted.
LEMMA EnqueuedSorted ==
    ASSUME NEW q \in Lists, NEW k \in 1..3, NEW t \in Thread, NEW key,
           NEW r \in Enqueued(q, k, t, key),
           \A j \in 1..2 : Sorted(q[j], key[j]) /\ \A u \in Thread : key[j][u] \in Int
    PROVE  \A j \in 1..2 : Sorted(r[j], key[j])
<1>0. \A j \in 1..3 : q[j] \in Seq(Thread)
    BY DEF Lists
<1>1. PICK s \in IF k = 3 THEN {Append(q[3], t)} ELSE Inserted(q[k], t, key[k]) :
        r = [q EXCEPT ![k] = s]
    BY DEF Enqueued
<1> SUFFICES ASSUME NEW j \in 1..2 PROVE Sorted(r[j], key[j])
    OBVIOUS
<1>2. CASE j # k
    <2>1. r[j] = q[j]
        BY <1>1, <1>2
    <2> QED BY <2>1
<1>3. CASE j = k
    <2>1. r[j] = s /\ s \in Inserted(q[j], t, key[j])
        BY <1>1, <1>3 DEF Lists
    <2>2. q[j] \in Seq(Thread)
        BY <1>0
    <2>3. Sorted(s, key[j])
        BY <2>1, <2>2, InsertedSorted
    <2> QED BY <2>1, <2>3
<1> QED BY <1>2, <1>3

\* A step that changes the fields of a thread off the lists, and leaves them alone.
LEMMA SortedKept ==
    ASSUME TypeOK, SortedInv, ready' = ready, NEW t, t \notin Queued(ready),
           \A u \in Thread \ {t} : /\ exec_priority'[u] = exec_priority[u]
                                   /\ burst_time'[u] = burst_time[u]
                                   /\ accumulated_time'[u] = accumulated_time[u],
           phase \notin {"promote", "preempt", "aborted"}
    PROVE  \A k \in 1..2 : Sorted(ready'[k], CurrentKey'[k])
<1> SUFFICES ASSUME NEW k \in 1..2 PROVE Sorted(ready[k], CurrentKey'[k])
    OBVIOUS
<1>1. Range(ready[k]) \subseteq Thread \ {t} /\ ready[k] \in Seq(Thread)
    BY QueuedTyped DEF Queued, Lists
<1>2. \A u \in Range(ready[k]) : CurrentKey'[k][u] = CurrentKey[k][u]
    BY <1>1, KeyOfOthers
<1>3. Sorted(ready[k], CurrentKey[k])
    BY DEF SortedInv
<1> QED BY <1>1, <1>2, <1>3, SortedBySameKey

LEMMA NextSortedInv ==
    ASSUME ThreadInv, SortedInv, [Next]_vars
    PROVE  SortedInv'
<1>a. /\ TypeOK /\ ready \in Lists /\ Queued(ready) \subseteq Thread
      /\ \A k \in 1..3 : Range(ready[k]) \subseteq Queued(ready)
    BY QueuedTyped DEF ThreadInv, Queued
<1>b. /\ currentThread \in Thread /\ (idle => phase = "handler")
      /\ exec_priority \in [Thread -> 0..MaxPriority]
      /\ burst_time \in [Thread -> Nat] /\ accumulated_time \in [Thread -> Nat]
    BY <1>a DEF TypeOK, ThreadInv, IdleInHandler
<1>c. TypeOK'
    BY <1>a, NextTypeOK
<1>d. \A k \in 1..2 : \A u \in Thread : CurrentKey[k][u] \in Int
    BY <1>a, CurrentKeyType
<1>e. \A k \in 1..2 : \A u \in Thread : CurrentKey'[k][u] \in Int
    <2>1. Key(exec_priority', burst_time', accumulated_time') = CurrentKey'
        BY DEF CurrentKey
    <2>2. /\ exec_priority' \in [Thread -> 0..MaxPriority]
          /\ burst_time' \in [Thread -> Nat] /\ accumulated_time' \in [Thread -> Nat]
        BY <1>c DEF TypeOK
    <2>3. \A k \in 1..2 : Key(exec_priority', burst_time', accumulated_time')[k] \in [Thread -> Int]
        BY <2>2, KeyType
    <2> QED BY <2>1, <2>3
<1>1. ASSUME NEW t \in Thread, t \notin Queued(ready),
             phase \notin {"promote", "preempt", "aborted"},
             UNCHANGED <<burst_time, accumulated_time>>,
             \A u \in Thread \ {t} : exec_priority'[u] = exec_priority[u],
             NEW k \in 1..3, ready' \in Enqueued(ready, k, t, CurrentKey')
      PROVE  SortedInv'
    <2>1. \A j \in 1..2 : Sorted(ready[j], CurrentKey'[j])
        <3> SUFFICES ASSUME NEW j \in 1..2 PROVE Sorted(ready[j], CurrentKey'[j])
            OBVIOUS
        <3>1. Range(ready[j]) \subseteq Thread \ {t} /\ ready[j] \in Seq(Thread)
            BY <1>a, <1>1 DEF Lists
        <3>2. \A u \in Range(ready[j]) : CurrentKey'[j][u] = CurrentKey[j][u]
            BY <1>1, <3>1, KeyOfOthers
        <3>3. Sorted(ready[j], CurrentKey[j])
            BY <1>1 DEF SortedInv
        <3> QED BY <3>1, <3>2, <3>3, SortedBySameKey
    <2>2. PICK q, c : q = ready' /\ c = CurrentKey' /\ q \in Enqueued(ready, k, t, c)
        BY <1>1
    <2>3. \A j \in 1..2 : Sorted(ready[j], c[j]) /\ \A u \in Thread : c[j][u] \in Int
        BY <1>e, <2>1, <2>2
    <2>4. \A j \in 1..2 : Sorted(q[j], c[j])
        BY <1>a, <2>2, <2>3, EnqueuedSorted
    <2> QED BY <2>2, <2>4 DEF SortedInv
<1>2. ASSUME NEW t \in Thread, NEW p \in Priorities, Exec(t, p) PROVE SortedInv'
    <2>1. t \notin Queued(ready)
        BY <1>2 DEF ThreadInv, NoThreadLost, Live, Exec
    <2>2. /\ UNCHANGED <<burst_time, accumulated_time>> /\ phase = "run"
          /\ exec_priority' = [exec_priority EXCEPT ![t] = p]
          /\ ready' \in ReadyToRun(ready, t, exec_priority',
                            Key(exec_priority', burst_time, accumulated_time))
        BY <1>2 DEF Exec, MakeReady
    <2>3. PICK k \in 1..3 : k = Level(exec_priority'[t])
        BY LevelType
    <2>4. ready' \in Enqueued(ready, k, t, CurrentKey')
        BY <2>2, <2>3 DEF ReadyToRun, CurrentKey
    <2>5. \A u \in Thread \ {t} : exec_priority'[u] = exec_priority[u]
        BY <2>2, <1>b
    <2> QED BY <1>1, <2>1, <2>2, <2>4, <2>5
<1>3. ASSUME NEW t \in Thread, Wakeup(t) \/ DeviceInterrupt(t) PROVE SortedInv'
    <2>1. t \notin Queued(ready)
        BY <1>3 DEF ThreadInv, QueuedExclusive, Wakeup, DeviceInterrupt
    <2>2. /\ UNCHANGED <<exec_priority, burst_time, accumulated_time>>
          /\ phase \in {"run", "handler"}
          /\ ready' \in ReadyToRun(ready, t, exec_priority,
                            Key(exec_priority, burst_time, accumulated_time))
        BY <1>3 DEF Wakeup, DeviceInterrupt, MakeReady, threadVars
    <2>3. PICK k \in 1..3 : k = Level(exec_priority[t])
        BY LevelType
    <2>4. ready' \in Enqueued(ready, k, t, CurrentKey')
        BY <2>2, <2>3 DEF ReadyToRun, CurrentKey
    <2> QED BY <1>1, <2>1, <2>2, <2>4
<1>4. ASSUME NEW fin \in BOOLEAN, Sleep(fin) PROVE SortedInv'
    <2>1. /\ ready' = ready /\ phase \in {"run", "enable"} /\ exec_priority' = exec_priority
          /\ \A u \in Thread \ {currentThread} :
                burst_time'[u] = burst_time[u] /\ accumulated_time'[u] = accumulated_time[u]
        BY <1>4, <1>b DEF Sleep
    <2>2. currentThread \notin Queued(ready)
        BY <1>b, <2>1 DEF ThreadInv, QueuedExclusive, Sleeping
    <2>3. \A k \in 1..2 : Sorted(ready'[k], CurrentKey'[k])
        BY <1>a, <2>1, <2>2, SortedKept
    <2> QED BY <2>3 DEF SortedInv
<1>5. ASSUME Dispatch PROVE SortedInv'
    <2>1. toBeDestroyed = None
        BY <1>5 DEF Dispatch, ThreadInv, CarcassCleared
    <2>2. /\ \E f \in FindNextToRun(ready, CurrentKey) : ready' = f.lists
          /\ UNCHANGED <<exec_priority, burst_time, accumulated_time>>
        BY <1>5, <2>1 DEF Dispatch, Run
    <2>3. \A k \in 1..2 : CurrentKey[k] \in [Thread -> Int]
        BY <1>a, CurrentKeyType
    <2>4. \A k \in 1..2 : Sorted(ready'[k], CurrentKey[k])
        BY <1>a, <2>2, <2>3, FoundBest
    <2>5. CurrentKey' = CurrentKey
        BY <2>2 DEF CurrentKey
    <2> QED BY <2>4, <2>5 DEF SortedInv
<1>6. ASSUME Yield PROVE SortedInv'
    <2>1. PICK f \in FindNextToRun(ready, CurrentKey), k \in 1..3 :
            ready' \in Enqueued(f.lists, k, currentThread,
                                Key(exec_priority, burst_time, accumulated_time'))
        BY <1>6, YieldedQueue
    <2>2. /\ UNCHANGED <<exec_priority, burst_time>>
          /\ \A u \in Thread \ {currentThread} : accumulated_time'[u] = accumulated_time[u]
          /\ currentThread \notin Queued(ready)
        BY <1>6, <1>b DEF Yield, ThreadInv, QueuedExclusive, Sleeping
    <2>3. PICK c : c = CurrentKey' /\ ready' \in Enqueued(f.lists, k, currentThread, c)
        BY <2>1, <2>2 DEF CurrentKey
    <2>4. /\ f.lists \in Lists
          /\ \A j \in 1..3 : Range(f.lists[j]) \subseteq Range(ready[j])
        BY <1>a, FoundNext DEF ThreadInv, QueuedOnce
    <2>5. \A j \in 1..2 : Sorted(f.lists[j], CurrentKey[j])
        <3>1. \A j \in 1..2 : CurrentKey[j] \in [Thread -> Int]
            BY <1>a, CurrentKeyType
        <3> QED BY <1>a, <3>1, FoundBest
    <2>6. ASSUME NEW j \in 1..2 PROVE Sorted(f.lists[j], c[j])
        <3>1. f.lists[j] \in Seq(Thread) /\ Range(f.lists[j]) \subseteq Thread \ {currentThread}
            BY <1>a, <2>2, <2>4 DEF Lists
        <3>2. \A u \in Range(f.lists[j]) : CurrentKey'[j][u] = CurrentKey[j][u]
            BY <2>2, <3>1, KeyOfOthers
        <3>3. PICK s : s = f.lists[j] /\ s \in Seq(Thread)
            BY <3>1
        <3>4. Sorted(s, CurrentKey[j]) /\ \A u \in Range(s) : CurrentKey'[j][u] = CurrentKey[j][u]
            BY <2>5, <3>2, <3>3
        <3>5. Sorted(s, CurrentKey'[j])
            BY <3>3, <3>4, SortedBySameKey
        <3> QED BY <2>3, <3>3, <3>5
    <2>7. PICK q, p : q = ready' /\ p = f.lists /\ q \in Enqueued(p, k, currentThread, c)
        BY <2>3
    <2>8. \A j \in 1..2 : Sorted(p[j], c[j]) /\ \A u \in Thread : c[j][u] \in Int
        BY <1>e, <2>3, <2>6, <2>7
    <2>9. p \in Lists /\ currentThread \in Thread
        BY <1>b, <2>4, <2>7
    <2>10. \A j \in 1..2 : Sorted(q[j], c[j])
        BY <2>7, <2>8, <2>9, EnqueuedSorted
    <2> QED BY <2>3, <2>7, <2>10 DEF SortedInv
<1>7. ASSUME Resume PROVE SortedInv'
    <2>1. phase = "resume" /\ ready' = ready /\ toBeDestroyed \notin Queued(ready)
        BY <1>7 DEF Resume, ThreadInv, QueuedExclusive
    <2>2. \A u \in Thread \ {toBeDestroyed} : /\ exec_priority'[u] = exec_priority[u]
                                              /\ burst_time'[u] = burst_time[u]
                                              /\ accumulated_time'[u] = accumulated_time[u]
        BY <1>7, <1>b DEF Resume, Destroyed, threadVars
    <2>3. \A k \in 1..2 : Sorted(ready'[k], CurrentKey'[k])
        BY <1>a, <2>1, <2>2, SortedKept
    <2> QED BY <2>3 DEF SortedInv
<1>8. ASSUME NEW d \in TimerDelays, Preempt(d) PROVE SortedInv'
    <2>1. /\ ready' \in ReSortList(ready, CurrentKey)
          /\ UNCHANGED <<exec_priority, burst_time, accumulated_time>>
        BY <1>8 DEF Preempt, threadVars
    <2>2. PICK s1 \in StableSorts(ready[1], CurrentKey[1]),
               s2 \in StableSorts(ready[2], CurrentKey[2]) : ready' = <<s1, s2, ready[3]>>
        BY <2>1 DEF ReSortList
    <2>3. /\ ready[1] \in Seq(Thread) /\ ready[2] \in Seq(Thread)
          /\ CurrentKey[1] \in [Thread -> Int] /\ CurrentKey[2] \in [Thread -> Int]
        BY <1>a, CurrentKeyType DEF Lists
    <2>4. Sorted(s1, CurrentKey[1])
        BY <2>3, StableSortsSorted
    <2>5. Sorted(s2, CurrentKey[2])
        BY <2>3, StableSortsSorted
    <2>6. CurrentKey' = CurrentKey
        BY <2>1 DEF CurrentKey
    <2>7. \A k \in 1..2 : Sorted(ready'[k], CurrentKey[k])
        BY <2>2, <2>4, <2>5
    <2> QED BY <2>6, <2>7 DEF SortedInv
<1>9. CASE UNCHANGED <<ready, exec_priority, burst_time, accumulated_time>>
            /\ (phase' \notin {"promote", "preempt", "aborted"}
                    => phase \notin {"promote", "preempt", "aborted"})
    BY <1>9 DEF SortedInv, CurrentKey
<1>10. CASE phase' \in {"promote", "preempt", "aborted"}
    BY <1>10 DEF SortedInv
<1>11. CASE UNCHANGED vars
    BY <1>9, <1>11 DEF vars, threadVars
<1>12. CASE (\E d \in 1..timer : Idle(d)) \/ (\E d \in Ticks : OneTick(d))
            \/ (\E d \in TimerDelays : IdleTimerInterrupt(d)) \/ HandlerReturn
    BY <1>9, <1>12 DEF Idle, OneTick, IdleTimerInterrupt, HandlerReturn, threadVars
<1>13. CASE UpdatePriority \/ Pass \/ Promote \/ PromoteAborts \/ PromoteDone
    BY <1>10, <1>13 DEF UpdatePriority, Pass, Promote, PromoteAborts, PromoteDone
<1> QED
    BY <1>2, <1>3, <1>4, <1>5, <1>6, <1>7, <1>8, <1>11, <1>12, <1>13
    DEF Next, CurrentThreadStep, InterruptStep, Aborted

\* The lists are sorted whenever a thread runs.
THEOREM ListsStaySorted == Spec => []ListsSorted
<1>1. Init => SortedInv
    BY DEF Init, SortedInv, Sorted
<1>2. ThreadInv /\ SortedInv /\ [Next]_vars => SortedInv'
    BY NextSortedInv
<1>3. SortedInv => ListsSorted
    BY DEF SortedInv, ListsSorted, Sorted
<1> QED BY <1>1, <1>2, <1>3, ThreadInvariant, PTL DEF Spec

-----------------------------------------------------------------------------
(* Scheduler::scheduling puts every thread on the list of its band         *)

\* A thread ages by one step at a time if the timer comes often enough.
LEMMA AgesOnce ==
    ASSUME NEW w \in Nat, w <= 2 * AgingWait
    PROVE  \A p \in 0..MaxPriority : AgedPriority(p, w) <= p + AgingStep
<1> USE SchedulerAssumption
<1>1. Agings(w) \in {0, 1}
    <2>1. CASE w > AgingWait
        <3> DEFINE n == (w - 1) \div AgingWait
        <3>1. n \in Nat /\ AgingWait * n <= w - 1 /\ w - 1 < AgingWait * (n + 1)
            BY <2>1
        <3>2. Agings(w) = n
            BY <2>1 DEF Agings
        <3> HIDE DEF n
        <3>3. n < 2
            <4> SUFFICES ASSUME n >= 2 PROVE FALSE
                BY <3>1
            <4>1. AgingWait * n >= AgingWait * 2
                BY <3>1
            <4> QED BY <3>1, <4>1
        <3> QED BY <3>1, <3>2, <3>3
    <2>2. CASE w <= AgingWait
        BY <2>2 DEF Agings
    <2> QED BY <2>1, <2>2
<1>2. AgingStep * Agings(w) \in {0, AgingStep}
    BY <1>1
<1>3. PICK n \in {0, AgingStep} : n = AgingStep * Agings(w)
    BY <1>2
<1> SUFFICES ASSUME NEW p \in 0..149 PROVE AgedPriority(p, w) <= p + AgingStep
    BY DEF MaxPriority
<1>4. AgedPriority(p, w) = IF p + n > 149 THEN 149 ELSE p + n
    BY <1>3 DEF AgedPriority, MaxPriority
<1> QED BY <1>4

LEMMA LevelOf ==
    ASSUME NEW p \in 0..149
    PROVE  /\ Level(p) = 1 <=> p > 99
           /\ Level(p) = 2 <=> p \in 50..99
           /\ Level(p) = 3 <=> p < 50
    BY DEF Level

Fits(t, k) == Level(exec_priority[t]) = k

\* The part of a list an iterator has behind it.
Walked(s, it) ==
    { s[i] : i \in { i \in DOMAIN s :
                        it # None => \E j \in DOMAIN s : s[j] = it /\ i < j } }

\* A thread is on the list of its band, except that scheduling has still to look at
\* the threads ahead of its iterator, and those of L3 have not outgrown L2.
BandInv ==
    /\ phase \notin {"promote", "aborted"} =>
        \A k \in 1..3 : \A t \in Range(ready[k]) : Fits(t, k)
    /\ phase = "promote" =>
        /\ \A k \in 1..(level - 1) : \A t \in Range(ready[k]) : Fits(t, k)
        /\ \A t \in Walked(ready[level], iter) : Fits(t, level)
        /\ \A t \in Range(ready[3]) : exec_priority[t] < 100

\* A step outside scheduling that queues a thread at most where it fits.
LEMMA FitStep ==
    ASSUME BandInv, phase \notin {"promote", "aborted"}, phase' \notin {"promote"},
           \A k \in 1..3 : \A u \in Range(ready'[k]) :
                \/ u \in Range(ready[k]) /\ exec_priority'[u] = exec_priority[u]
                \/ Level(exec_priority'[u]) = k
    PROVE  BandInv'
    BY DEF BandInv, Fits

\* The list that scheduling walks loses the promoted thread, and only that.
LEMMA PromotedFrom ==
    ASSUME TypeOK, Once(ready), Promote
    PROVE  \E n \in 1..Len(ready[level]) :
                ready[level][n] = iter /\ ready'[level] = RemoveAt(ready[level], n)
<1>1. ready \in Lists /\ level \in 1..3 /\ level - 1 \in 1..3 /\ iter \in Thread
    BY DEF Promote, TypeOK, Lists
<1>2. PICK s \in Removed(ready[level], iter) :
        ready' \in Enqueued([ready EXCEPT ![level] = s], level - 1, iter, CurrentKey)
    BY DEF Promote
<1>3. PICK r : r = [ready EXCEPT ![level] = s]
    OBVIOUS
<1>4. ready[level] \in Seq(Thread) /\ Distinct(ready[level])
    BY <1>1, OnceIsApart DEF Lists, Apart
<1>5. s \in Seq(Thread)
    BY <1>2, <1>4, RemovedList
<1>6. r \in Lists /\ r[level] = s
    BY <1>1, <1>3, <1>5 DEF Lists
<1>7. PICK k, q, key : k \in 1..3 /\ k = level - 1 /\ q = ready' /\ q \in Enqueued(r, k, iter, key)
    BY <1>1, <1>2, <1>3
<1>8. \A j \in 1..3 \ {k} : q[j] = r[j]
    BY <1>1, <1>6, <1>7, EnqueuedLists
<1>9. level \in 1..3 \ {k}
    BY <1>1, <1>7
<1>10. ready'[level] = s
    BY <1>6, <1>7, <1>8, <1>9
<1> QED BY <1>2, <1>10 DEF Removed

\* Nothing is behind an iterator on the first element.
LEMMA WalkedFromFirst ==
    ASSUME NEW s \in Seq(Thread), Distinct(s), NEW it, it = First(s, None)
    PROVE  Walked(s, it) = {}
<1>1. CASE s = <<>>
    BY <1>1 DEF Walked
<1>2. CASE s # <<>>
    <2>1. it = s[1] /\ 1 \in DOMAIN s /\ it # None
        BY <1>2, SchedulerAssumption DEF First
    <2>2. \A j \in DOMAIN s : s[j] = it => j = 1
        BY <2>1 DEF Distinct
    <2>3. \A i \in DOMAIN s : i >= 1
        OBVIOUS
    <2>4. ~ \E i, j \in DOMAIN s : s[j] = it /\ i < j
        BY <2>2, <2>3
    <2> QED BY <2>1, <2>4 DEF Walked
<1> QED BY <1>1, <1>2

\* Everything is behind an iterator at the end.
LEMMA WalkedToEnd ==
    ASSUME NEW s
    PROVE  Walked(s, None) = Range(s)
    BY DEF Walked, Range

\* What the timer allows: the threads wait for less than two steps of aging before
\* the next one, and one step does not carry a thread of L3 beyond L2.
AgingIsSlow ==
    /\ AgingStep <= 50
    /\ \A d \in TimerDelays, k \in Ticks : d + k <= AgingWait + 1

LEMMA UpdateBandInv ==
    ASSUME ThreadInv, NoneAboveBand, TimerInv, AgingInv, BandInv, AgingIsSlow, UpdatePriority
    PROVE  BandInv'
<1> USE SchedulerAssumption
<1>1. /\ TypeOK /\ ready \in Lists /\ Queued(ready) \subseteq Thread
      /\ \A t \in Thread : waited[t] \in Nat /\ exec_priority[t] \in 0..MaxPriority
      /\ \A k \in 1..3 : Range(ready[k]) \subseteq Queued(ready)
      /\ timer \in Int
    <2>1. TypeOK
        BY DEF ThreadInv
    <2>2. timer \in Int
        BY <2>1 DEF TypeOK
    <2>3. \A k \in 1..3 : Range(ready[k]) \subseteq Queued(ready)
        BY DEF Queued
    <2> QED BY <2>1, <2>2, <2>3, QueuedTyped
<1>2. /\ phase = "handler" /\ timer <= 0 /\ ~idle
      /\ phase' = "promote" /\ level' = 2 /\ iter' = First(ready[2], None) /\ ready' = ready
      /\ \A t \in Queued(ready) : exec_priority'[t] = AgedPriority(exec_priority[t], waited[t])
    BY <1>1 DEF UpdatePriority
<1>3. PICK k \in Ticks : timer + k > 0
    BY <1>1, <1>2 DEF TimerInv
<1>4. ASSUME NEW t \in Queued(ready)
      PROVE  /\ exec_priority'[t] \in Nat
             /\ exec_priority[t] <= exec_priority'[t]
             /\ exec_priority'[t] <= exec_priority[t] + 50
    <2>1. PICK d \in TimerDelays : waited[t] + timer <= AgingWait + d
        BY <1>2 DEF AgingInv
    <2>2. d + k <= AgingWait + 1
        BY DEF AgingIsSlow
    <2>3. t \in Thread /\ waited[t] \in Nat /\ exec_priority[t] \in 0..MaxPriority
        BY <1>1
    <2>4. waited[t] <= 2 * AgingWait
        <3>1. waited[t] \in Int /\ timer \in Int
            BY <1>1, <2>3
        <3>2. k \in Int /\ d \in Int /\ AgingWait \in Int
            OBVIOUS
        <3> QED BY <1>3, <2>1, <2>2, <3>1, <3>2
    <2>5. /\ AgedPriority(exec_priority[t], waited[t]) \in 0..MaxPriority
          /\ exec_priority[t] <= AgedPriority(exec_priority[t], waited[t])
        BY <2>3, AgingTypes
    <2>6. AgedPriority(exec_priority[t], waited[t]) <= exec_priority[t] + AgingStep
        BY <2>3, <2>4, AgesOnce
    <2>7. AgingStep <= 50
        BY DEF AgingIsSlow
    <2>8. PICK n : n = AgedPriority(exec_priority[t], waited[t])
        OBVIOUS
    <2>9. n \in 0..MaxPriority /\ exec_priority[t] <= n /\ n <= exec_priority[t] + 50
        <3>1. n \in 0..149 /\ exec_priority[t] \in 0..149 /\ AgingStep \in Nat
            BY <2>3, <2>5, <2>8 DEF MaxPriority
        <3>2. exec_priority[t] <= n /\ n <= exec_priority[t] + AgingStep
            BY <2>5, <2>6, <2>8
        <3>3. n <= exec_priority[t] + 50
            BY <2>7, <3>1, <3>2
        <3> QED BY <3>1, <3>2, <3>3 DEF MaxPriority
    <2> QED BY <1>2, <2>8, <2>9 DEF MaxPriority
<1>5. \A j \in 1..3 : \A t \in Range(ready[j]) :
        /\ t \in Queued(ready) /\ exec_priority[t] \in 0..149
        /\ Level(exec_priority[t]) = j
    BY <1>1, <1>2 DEF BandInv, Fits, MaxPriority
<1>6. ASSUME NEW t \in Range(ready[1]) PROVE Level(exec_priority'[t]) = 1
    <2>1. exec_priority[t] >= 100
        BY <1>5 DEF Level
    <2> QED BY <1>4, <1>5, <2>1 DEF Level
<1>7. ASSUME NEW t \in Range(ready[3]) PROVE exec_priority'[t] < 100
    <2>1. exec_priority[t] < 50
        BY <1>5 DEF Level
    <2> QED BY <1>4, <1>5, <2>1
<1>8. Walked(ready'[2], iter') = {}
    <2>1. ready'[2] \in Seq(Thread) /\ Distinct(ready'[2])
        BY <1>1, <1>2, OnceIsApart DEF ThreadInv, QueuedOnce, Apart, Lists
    <2>2. iter' = First(ready'[2], None)
        BY <1>2
    <2> QED BY <2>1, <2>2, WalkedFromFirst
<1> QED BY <1>2, <1>6, <1>7, <1>8 DEF BandInv, Fits

\* The thread scheduling passes is where it belongs.
LEMMA PassBandInv ==
    ASSUME ThreadInv, NoneAboveBand, IteratorInList, BandInv, Pass
    PROVE  BandInv'
<1>1. /\ TypeOK /\ ready \in Lists /\ Once(ready) /\ level \in {2, 3} /\ iter \in Thread
      /\ \A k \in 1..3 : ready[k] \in Seq(Thread)
    BY QueuedTyped DEF ThreadInv, QueuedOnce, Pass, TypeOK, Lists
<1>2. /\ phase = "promote" /\ iter # None /\ ~Outgrown(iter)
      /\ UNCHANGED <<ready, exec_priority, level, phase>>
    BY DEF Pass, threadVars
<1>3. PICK k \in 1..3 : iter' \in Successor(ready[k], iter, None)
    BY DEF Pass
<1>4. PICK n \in 1..Len(ready[k]) :
        ready[k][n] = iter /\ iter' = IF n = Len(ready[k]) THEN None ELSE ready[k][n + 1]
    BY <1>3 DEF Successor
<1>5. PICK m \in DOMAIN ready[level] : ready[level][m] = iter
    BY <1>2 DEF IteratorInList, IsInList
<1>6. k = level /\ n = m
    <2>1. n \in DOMAIN ready[k]
        BY <1>1
    <2> QED BY <1>1, <1>4, <1>5, <2>1 DEF Once
<1>7. Fits(iter, level)
    <2>1. iter \in Range(ready[level])
        BY <1>5 DEF Range
    <2>2. Level(exec_priority[iter]) <= level
        BY <1>1, <2>1 DEF NoneAboveBand
    <2>3. exec_priority[iter] \in 0..149
        BY <1>1 DEF TypeOK, MaxPriority
    <2>4. PICK p \in 0..149 : p = exec_priority[iter]
        BY <2>3
    <2>5. ~(p > IF level = 2 THEN 99 ELSE 49) /\ Level(p) <= level
        BY <1>2, <2>2, <2>4 DEF Outgrown
    <2>6. Level(p) = level
        <3>1. /\ Level(p) \in 1..3
              /\ (Level(p) = 1 <=> p > 99) /\ (Level(p) = 2 <=> p \in 50..99)
              /\ (Level(p) = 3 <=> p < 50)
            BY LevelOf, LevelType
        <3>2. CASE level = 2
            BY <2>5, <3>1, <3>2
        <3>3. CASE level = 3
            BY <2>5, <3>1, <3>3
        <3> QED BY <1>1, <3>2, <3>3
    <2> QED BY <2>4, <2>6 DEF Fits
<1>8. PICK s : s = ready[level] /\ s \in Seq(Thread)
    BY <1>1
<1>9. Distinct(s)
    BY <1>1, <1>8, OnceIsApart DEF Apart
<1>10. ASSUME NEW i \in DOMAIN s, iter' # None => \E j \in DOMAIN s : s[j] = iter' /\ i < j
       PROVE  s[i] = iter \/ s[i] \in Walked(s, iter)
    <2>1. n \in 1..Len(s) /\ s[n] = iter /\ Len(s) \in Nat
        BY <1>4, <1>6, <1>8
    <2>2. i <= n
        <3>1. CASE iter' = None
            <4>1. n = Len(s)
                <5> SUFFICES ASSUME n # Len(s) PROVE FALSE
                    OBVIOUS
                <5>1. iter' = s[n + 1] /\ n + 1 \in 1..Len(s)
                    BY <1>4, <1>6, <1>8, <2>1
                <5> QED BY <1>8, <3>1, <5>1, SchedulerAssumption
            <4> QED BY <4>1
        <3>2. CASE iter' # None
            <4>1. PICK j \in DOMAIN s : s[j] = iter' /\ i < j
                BY <1>10, <3>2
            <4>2. n # Len(s) /\ iter' = s[n + 1] /\ n + 1 \in DOMAIN s
                BY <1>4, <1>6, <1>8, <2>1, <3>2
            <4>3. j = n + 1
                BY <1>9, <4>1, <4>2 DEF Distinct
            <4> QED BY <2>1, <4>1, <4>3
        <3> QED BY <3>1, <3>2
    <2>3. CASE i = n
        BY <2>1, <2>3
    <2>4. CASE i < n
        <3>1. n \in DOMAIN s
            BY <2>1
        <3> QED BY <2>1, <2>4, <3>1 DEF Walked
    <2> QED BY <2>1, <2>2, <2>3, <2>4
<1>11. \A t \in Walked(s, iter') : t = iter \/ t \in Walked(s, iter)
    BY <1>10 DEF Walked
<1>12. \A t \in Walked(s, iter') : Fits(t, level)
    <2>1. \A t \in Walked(s, iter) : Fits(t, level)
        BY <1>2, <1>8 DEF BandInv
    <2> QED BY <1>7, <1>11, <2>1
<1> QED BY <1>2, <1>8, <1>12 DEF BandInv, Fits

\* The thread scheduling moves gets where it belongs.
LEMMA PromoteBandInv ==
    ASSUME ThreadInv, IteratorInList, BandInv, Promote, "reused" \notin FreedChunk
    PROVE  BandInv'
<1>1. /\ TypeOK /\ ready \in Lists /\ Once(ready) /\ level \in {2, 3} /\ iter \in Thread
      /\ \A k \in 1..3 : ready[k] \in Seq(Thread)
    BY QueuedTyped DEF ThreadInv, QueuedOnce, Promote, TypeOK, Lists
<1>2. /\ phase = "promote" /\ Outgrown(iter)
      /\ UNCHANGED <<exec_priority, level, phase>>
      /\ iter' \in Successor(ready[level], iter, None)
    BY DEF Promote, threadVars
<1>3. PICK n \in 1..Len(ready[level]) :
        ready[level][n] = iter /\ ready'[level] = RemoveAt(ready[level], n)
    BY <1>1, PromotedFrom
<1>4. PICK s, r : /\ s = ready[level] /\ r = ready'[level]
                  /\ s \in Seq(Thread) /\ n \in 1..Len(s) /\ s[n] = iter /\ r = RemoveAt(s, n)
    BY <1>1, <1>3
<1>5. Distinct(s)
    BY <1>1, <1>4, OnceIsApart DEF Apart
<1>6. /\ Len(r) = Len(s) - 1 /\ Len(s) \in Nat /\ n \in Nat /\ r \in Seq(Thread)
      /\ \A i \in 1..(Len(s) - 1) : r[i] = IF i < n THEN s[i] ELSE s[i + 1]
    <2> DEFINE R == RemoveAt(s, n)
    <2>1. /\ R \in Seq(Thread) /\ Len(R) = Len(s) - 1
          /\ \A i \in 1..(Len(s) - 1) : R[i] = IF i < n THEN s[i] ELSE s[i + 1]
        BY <1>4, RemoveAtElements
    <2>2. Len(s) \in Nat /\ n \in Nat
        BY <1>4
    <2> QED BY <2>1, <2>2, <1>4
<1>7. iter' = IF n = Len(s) THEN None ELSE s[n + 1]
    <2>1. PICK m \in 1..Len(s) : s[m] = iter /\ iter' = IF m = Len(s) THEN None ELSE s[m + 1]
        BY <1>2, <1>4 DEF Successor
    <2>2. m = n
        BY <1>4, <1>5, <2>1 DEF Distinct
    <2> QED BY <2>1, <2>2
<1>8. ASSUME NEW i \in 1..(Len(s) - 1),
             iter' # None => \E j \in 1..(Len(s) - 1) : r[j] = iter' /\ i < j
      PROVE  r[i] \in Walked(s, iter)
    <2>1. i < n
        <3>1. CASE n = Len(s)
            BY <1>6, <3>1
        <3>2. CASE n # Len(s)
            <4>1. n + 1 \in 1..Len(s) /\ iter' = s[n + 1] /\ n \in 1..(Len(s) - 1) /\ r[n] = s[n + 1]
                BY <1>4, <1>6, <1>7, <3>2
            <4>2. iter' # None
                BY <1>4, <4>1, SchedulerAssumption
            <4>3. PICK j \in 1..(Len(s) - 1) : r[j] = iter' /\ i < j
                BY <1>8, <4>2
            <4>4. j < n \/ j = n \/ j > n
                BY <1>6
            <4>5. CASE j > n
                <5>1. j + 1 \in 1..Len(s) /\ s[j + 1] = s[n + 1] /\ j + 1 # n + 1
                    BY <1>6, <4>1, <4>3, <4>5
                <5> QED BY <1>5, <4>1, <5>1 DEF Distinct
            <4> QED BY <4>3, <4>4, <4>5, <1>6
        <3> QED BY <3>1, <3>2
    <2>2. r[i] = s[i] /\ i \in DOMAIN s /\ n \in DOMAIN s
        BY <1>4, <1>6, <2>1
    <2>3. \E j \in DOMAIN s : s[j] = iter /\ i < j
        BY <1>4, <2>1, <2>2
    <2> QED BY <2>2, <2>3 DEF Walked
<1>9. \A t \in Walked(r, iter') : t \in Walked(s, iter)
    <2>1. DOMAIN r = 1..(Len(s) - 1)
        BY <1>6
    <2> QED BY <1>8, <2>1 DEF Walked
<1>10. \A t \in Walked(r, iter') : Fits(t, level)
    BY <1>2, <1>4, <1>9 DEF BandInv
<1>11. Fits(iter, level - 1)
    <2>1. PICK p \in 0..149 : p = exec_priority[iter]
        BY <1>1 DEF TypeOK, MaxPriority
    <2>2. p > IF level = 2 THEN 99 ELSE 49
        BY <1>2, <2>1 DEF Outgrown
    <2>3. level = 3 => p < 100
        <3>1. iter \in Range(ready[level])
            BY <1>4 DEF Range
        <3> QED BY <1>2, <2>1, <3>1 DEF BandInv
    <2>4. (Level(p) = 1 <=> p > 99) /\ (Level(p) = 2 <=> p \in 50..99)
        BY LevelOf
    <2>5. CASE level = 2
        BY <2>1, <2>2, <2>4, <2>5 DEF Fits
    <2>6. CASE level = 3
        <3>1. p > 49 /\ p < 100
            BY <2>2, <2>3, <2>6
        <3>2. Level(p) = 2 /\ level - 1 = 2
            BY <2>4, <2>6, <3>1
        <3> QED BY <2>1, <3>2 DEF Fits
    <2> QED BY <1>1, <2>5, <2>6
<1>12. \A k \in 1..3 : Range(ready'[k]) \subseteq
            Range(ready[k]) \cup (IF k = level - 1 THEN {iter} ELSE {})
    BY <1>1, Promoted
<1>13. \A k \in 1..(level - 1) : \A t \in Range(ready'[k]) : Fits(t, k)
    <2> SUFFICES ASSUME NEW k \in 1..(level - 1), NEW t \in Range(ready'[k]) PROVE Fits(t, k)
        OBVIOUS
    <2>1. k \in 1..3
        BY <1>1
    <2>2. CASE t \in Range(ready[k])
        BY <1>2, <2>2 DEF BandInv
    <2>3. CASE t \notin Range(ready[k])
        <3>1. k = level - 1 /\ t = iter
            BY <1>12, <2>1, <2>3
        <3> QED BY <1>11, <3>1
    <2> QED BY <2>2, <2>3
<1>14. \A t \in Range(ready'[3]) : exec_priority[t] < 100
    <2>1. 3 # level - 1
        BY <1>1
    <2> QED BY <1>2, <1>12, <2>1 DEF BandInv
<1> QED BY <1>2, <1>4, <1>10, <1>13, <1>14 DEF BandInv, Fits

\* The loop over L2 ends, and then the one over L3.
LEMMA DoneBandInv ==
    ASSUME ThreadInv, BandInv, PromoteDone
    PROVE  BandInv'
<1>1. /\ TypeOK /\ ready \in Lists /\ Once(ready) /\ level \in {2, 3}
      /\ \A k \in 1..3 : ready[k] \in Seq(Thread)
    BY QueuedTyped DEF ThreadInv, QueuedOnce, TypeOK, Lists
<1>2. phase = "promote" /\ iter = None /\ UNCHANGED <<ready, exec_priority>>
    BY DEF PromoteDone, threadVars
<1>3. \A t \in Range(ready[level]) : Fits(t, level)
    BY <1>2, WalkedToEnd DEF BandInv
<1>4. CASE level = 2
    <2>1. level' = 3 /\ iter' = First(ready[3], None) /\ phase' = phase
        BY <1>4 DEF PromoteDone
    <2>2. Walked(ready[3], iter') = {}
        <3>1. Distinct(ready[3])
            BY <1>1, OnceIsApart DEF Apart
        <3> QED BY <1>1, <2>1, <3>1, WalkedFromFirst
    <2>3. \A k \in 1..2 : \A t \in Range(ready[k]) : Fits(t, k)
        BY <1>2, <1>3, <1>4 DEF BandInv
    <2>4. \A t \in Range(ready[3]) : exec_priority[t] < 100
        BY <1>2 DEF BandInv
    <2> QED BY <1>2, <2>1, <2>2, <2>3, <2>4 DEF BandInv, Fits
<1>5. CASE level = 3
    <2>1. phase' = "preempt"
        BY <1>5 DEF PromoteDone
    <2>2. \A k \in 1..3 : \A t \in Range(ready[k]) : Fits(t, k)
        BY <1>2, <1>3, <1>5 DEF BandInv
    <2> QED BY <1>2, <2>1, <2>2 DEF BandInv, Fits
<1> QED BY <1>1, <1>4, <1>5

LEMMA EnqueuedRange ==
    ASSUME NEW q \in Lists, NEW k \in 1..3, NEW t \in Thread, NEW key,
           NEW r \in Enqueued(q, k, t, key)
    PROVE  Range(r[k]) = Range(q[k]) \cup {t}
    BY EnqueuedLists

\* Where Thread::Yield puts the thread that yields.
LEMMA YieldedRange ==
    ASSUME ThreadInv, Yield
    PROVE  \A j \in 1..3 : \A u \in Range(ready'[j]) :
                u \in Range(ready[j]) \/ (u = currentThread /\ j = Level(exec_priority[u]))
<1>1. ready \in Lists /\ Once(ready) /\ currentThread \in Thread
    BY QueuedTyped DEF ThreadInv, QueuedOnce, TypeOK
<1>2. PICK f \in FindNextToRun(ready, CurrentKey), k \in 1..3 :
        /\ k = Level(exec_priority[currentThread])
        /\ ready' \in Enqueued(f.lists, k, currentThread,
                            Key(exec_priority, burst_time, accumulated_time'))
    BY YieldedQueue
<1>3. PICK q, r, key : q = ready' /\ r = f.lists /\ q \in Enqueued(r, k, currentThread, key)
    BY <1>2
<1>4. r \in Lists /\ \A j \in 1..3 : Range(r[j]) \subseteq Range(ready[j])
    BY <1>1, <1>3, FoundNext
<1>5. Range(q[k]) = Range(r[k]) \cup {currentThread}
    <2>1. PICK t \in Thread : t = currentThread
        BY <1>1
    <2>2. r \in Lists /\ q \in Enqueued(r, k, t, key)
        BY <1>3, <1>4, <2>1
    <2>3. Range(q[k]) = Range(r[k]) \cup {t}
        BY <2>2, EnqueuedRange
    <2> QED BY <2>1, <2>3
<1>6. \A j \in 1..3 \ {k} : q[j] = r[j]
    BY <1>1, <1>3, <1>4, EnqueuedLists
<1> QED BY <1>2, <1>3, <1>4, <1>5, <1>6

LEMMA NextBandInv ==
    ASSUME ThreadInv, NoneAboveBand, TimerInv, AgingInv, IteratorInList, BandInv,
           [Next]_vars, AgingIsSlow, "reused" \notin FreedChunk
    PROVE  BandInv'
<1>a. /\ TypeOK /\ ready \in Lists /\ Once(ready) /\ Queued(ready) \subseteq Thread
      /\ \A k \in 1..3 : Range(ready[k]) \subseteq Queued(ready)
    BY QueuedTyped DEF ThreadInv, QueuedOnce, Queued
<1>1. ASSUME NEW t \in Thread, NEW p \in Priorities, Exec(t, p) PROVE BandInv'
    <2>1. t \notin Queued(ready)
        BY <1>1 DEF ThreadInv, NoThreadLost, Live, Exec
    <2>2. \A u \in Thread : u # t => exec_priority'[u] = exec_priority[u]
        BY <1>1, <1>a DEF Exec, TypeOK
    <2>3. \A k \in 1..3 : \A u \in Range(ready'[k]) :
                u \in Range(ready[k]) \/ (u = t /\ k = Level(exec_priority'[t]))
        BY <1>1, <1>a, MadeReadyRange DEF Exec
    <2>4. \A k \in 1..3 : \A u \in Range(ready[k]) : u # t /\ u \in Thread
        BY <1>a, <2>1
    <2>5. phase = "run" /\ phase' = "enable"
        BY <1>1 DEF Exec
    <2> QED BY <2>2, <2>3, <2>4, <2>5, FitStep
<1>2. ASSUME NEW t \in Thread, Wakeup(t) \/ DeviceInterrupt(t) PROVE BandInv'
    <2>1. /\ phase \in {"run", "handler"} /\ phase' \in {"enable", "handler"}
          /\ exec_priority' = exec_priority /\ MakeReady(t, exec_priority)
        BY <1>2 DEF Wakeup, DeviceInterrupt, threadVars
    <2>2. \A k \in 1..3 : \A u \in Range(ready'[k]) :
                u \in Range(ready[k]) \/ (u = t /\ k = Level(exec_priority[t]))
        BY <1>a, <2>1, MadeReadyRange
    <2> QED BY <2>1, <2>2, FitStep
<1>3. ASSUME Dispatch PROVE BandInv'
    <2>1. toBeDestroyed = None
        BY <1>3 DEF Dispatch, ThreadInv, CarcassCleared
    <2>2. /\ exec_priority' = exec_priority /\ phase = "sleep" /\ phase' = "resume"
          /\ \E f \in FindNextToRun(ready, CurrentKey) : ready' = f.lists
        BY <1>3, <2>1 DEF Dispatch, Run
    <2>3. \A k \in 1..3 : Range(ready'[k]) \subseteq Range(ready[k])
        BY <1>a, <2>2, FoundNext
    <2> QED BY <2>2, <2>3, FitStep
<1>4. ASSUME Yield PROVE BandInv'
    <2>1. exec_priority' = exec_priority /\ phase = "handler" /\ phase' = "resume"
        BY <1>4 DEF Yield
    <2>2. \A j \in 1..3 : \A u \in Range(ready'[j]) :
            u \in Range(ready[j]) \/ (u = currentThread /\ j = Level(exec_priority[u]))
        BY <1>4, YieldedRange
    <2> QED BY <2>1, <2>2, FitStep
<1>5. ASSUME Resume PROVE BandInv'
    <2>1. /\ ready' = ready /\ toBeDestroyed \notin Queued(ready)
          /\ phase = "resume" /\ phase' \in {"enable", "aborted"}
        BY <1>5 DEF Resume, ThreadInv, QueuedExclusive
    <2>2. \A u \in Thread : u # toBeDestroyed => exec_priority'[u] = exec_priority[u]
        BY <1>5, <1>a DEF Resume, Destroyed, threadVars, TypeOK
    <2>3. \A k \in 1..3 : \A u \in Range(ready'[k]) :
            u \in Range(ready[k]) /\ exec_priority'[u] = exec_priority[u]
        BY <1>a, <2>1, <2>2
    <2> QED BY <2>1, <2>3, FitStep
<1>6. ASSUME UpdatePriority PROVE BandInv'
    BY <1>6, UpdateBandInv
<1>7. ASSUME Pass PROVE BandInv'
    BY <1>7, PassBandInv
<1>8. ASSUME Promote PROVE BandInv'
    BY <1>8, PromoteBandInv
<1>9. ASSUME PromoteDone PROVE BandInv'
    BY <1>9, DoneBandInv
<1>10. ASSUME NEW d \in TimerDelays, Preempt(d) PROVE BandInv'
    <2>1. \A k \in 1..3 : Range(ready'[k]) = Range(ready[k])
        BY <1>10, <1>a, ReSorted DEF Preempt
    <2>2. phase = "preempt" /\ phase' = "handler" /\ exec_priority' = exec_priority
        BY <1>10 DEF Preempt, threadVars
    <2> QED BY <2>1, <2>2, FitStep
<1>11. CASE /\ UNCHANGED <<ready, exec_priority>>
            /\ phase \notin {"promote", "aborted"} /\ phase' # "promote"
    BY <1>11, FitStep
<1>12. CASE phase' = "aborted"
    BY <1>12 DEF BandInv
<1>13. CASE UNCHANGED vars
    BY <1>13 DEF vars, threadVars, iterVars, BandInv, Fits
<1>14. CASE \/ \E fin \in BOOLEAN : Sleep(fin)
            \/ \E d \in 1..timer : Idle(d)
            \/ \E d \in Ticks : OneTick(d)
            \/ \E d \in TimerDelays : IdleTimerInterrupt(d)
            \/ HandlerReturn
    BY <1>11, <1>14 DEF Sleep, Idle, OneTick, IdleTimerInterrupt, HandlerReturn, threadVars
<1>15. CASE PromoteAborts
    BY <1>12, <1>15 DEF PromoteAborts
<1> QED
    BY <1>1, <1>2, <1>3, <1>4, <1>5, <1>6, <1>7, <1>8, <1>9, <1>10, <1>13, <1>14, <1>15
    DEF Next, CurrentThreadStep, InterruptStep, Aborted

\* Scheduler::scheduling is complete, as long as a freed list element keeps its next
\* field and no thread of L3 ages past L2 at once: every thread is on the list of its
\* band when a thread runs.
THEOREM SchedulingIsComplete ==
    ASSUME AgingIsSlow, "reused" \notin FreedChunk
    PROVE  Spec => []InBand
<1>1. Init => BandInv /\ IteratorInList
    BY DEF Init, BandInv, IteratorInList, Range
<1>2. ThreadInv /\ IteratorInList /\ NoAssertionFails /\ [Next]_vars => IteratorInList'
    BY NextIteratorInList DEF NoAssertionFails
<1>3. ThreadInv /\ NoneAboveBand /\ TimerInv /\ AgingInv /\ IteratorInList /\ BandInv
            /\ [Next]_vars => BandInv'
    BY NextBandInv
<1>4. BandInv => InBand
    BY DEF BandInv, InBand, Fits
<1> QED BY <1>1, <1>2, <1>3, <1>4, TimeInvariant, ThreadsNotAboveBand, IntactNeverAborts, PTL
        DEF Spec
=============================================================================
