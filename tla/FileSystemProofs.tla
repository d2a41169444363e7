--------------------------- MODULE FileSystemProofs ---------------------------
(***************************************************************************)
(* Proofs about FileHeader and FileSystem, for every size of the disk and  *)
(* its headers, every set of paths and every number of cuts: Allocate      *)
(* hands out clear sectors, each once, and the files that formatting makes *)
(* (the map and the root) stay what they are, whatever runs and wherever   *)
(* it is cut off.  Names in doubt apart, while they are not used, the tree *)
(* of files is whole: every file has its own sectors, and they are marked, *)
(* and what is in them is what FileStore promises.                         *)
(***************************************************************************)
EXTENDS FileSystemStore, SequenceTheorems, FiniteSetTheorems, WellFoundedInduction, TLAPS

-----------------------------------------------------------------------------
(* Numbers                                                                 *)

\* Induction on the numbers, by a least counterexample.
LEMMA LeastNumber ==
    ASSUME NEW T, T \subseteq Nat, T # {}
    PROVE  \E n \in T : \A m \in T : n <= m
<1>1. PICK n \in T : \A m \in T : <<m, n>> \notin OpToRel(<, Nat)
    BY NatLessThanWellFounded, WFMin
<1>2. \A m \in T : ~(m < n)
    BY <1>1 DEF OpToRel
<1> QED BY <1>2

\* Division by its quotient and remainder.
LEMMA DivIs ==
    ASSUME NEW a \in Nat, NEW b \in Nat \ {0}
    PROVE  /\ a \div b \in Nat
           /\ (a \div b) * b <= a
           /\ a < (a \div b) * b + b
           /\ a % b = a - (a \div b) * b
    OBVIOUS

\* Products of naturals: their order, and that they are naturals.
LEMMA ProductMono ==
    ASSUME NEW a \in Nat, NEW b \in Nat, NEW c \in Nat, a <= b
    PROVE  a * c <= b * c
    OBVIOUS

\* A product of naturals is one.
LEMMA ProductNat ==
    ASSUME NEW a \in Nat, NEW b \in Nat
    PROVE  a * b \in Nat
    OBVIOUS

\* A function on 0..n that is defined by recursion.
ByRecursion(f, n, x, g) == f[0] = x /\ \A i \in 1..n : f[i] = g[i][f[i - 1]]

\* A function defined by recursion over 0..n exists.
LEMMA RecursionExists ==
    ASSUME NEW n \in Nat, NEW S, NEW x \in S, NEW g \in [1..n -> [S -> S]]
    PROVE  \E f \in [0..n -> S] : ByRecursion(f, n, x, g)
<1> DEFINE Upto(k) == \E f \in [0..k -> S] : ByRecursion(f, k, x, g)
           T == { k \in 0..n : ~Upto(k) }
<1> SUFFICES ASSUME T # {} PROVE FALSE
    <2>1. n \in 0..n
        OBVIOUS
    <2> QED BY <2>1
<1>1. PICK k \in T : \A m \in T : k <= m
    <2>1. T \subseteq Nat
        OBVIOUS
    <2> HIDE DEF T
    <2> QED BY <2>1, LeastNumber
<1>2. k \in 0..n /\ k \in Nat /\ ~Upto(k)
    OBVIOUS
<1>3. CASE k = 0
    <2> DEFINE f == [i \in 0..0 |-> x]
    <2>1. f \in [0..0 -> S] /\ f[0] = x /\ \A i \in 1..0 : f[i] = g[i][f[i - 1]]
        OBVIOUS
    <2>2. Upto(0)
        BY <2>1 DEF ByRecursion
    <2> QED BY <1>2, <1>3, <2>2
<1>4. CASE k # 0
    <2>1. k - 1 \in 0..n /\ k - 1 \in Nat /\ ~(k <= k - 1) /\ k \in 1..n
        BY <1>2, <1>4
    <2>2. Upto(k - 1)
        BY <1>1, <2>1
    <2>3. PICK e \in [0..(k - 1) -> S] : e[0] = x /\ \A i \in 1..(k - 1) : e[i] = g[i][e[i - 1]]
        BY <2>2 DEF ByRecursion
    <2> DEFINE f == [i \in 0..k |-> IF i = k THEN g[k][e[k - 1]] ELSE e[i]]
    <2>4. e[k - 1] \in S /\ g[k] \in [S -> S]
        BY <2>1, <2>3
    <2>5. f \in [0..k -> S]
        <3>1. \A i \in 0..k : i # k => i \in 0..(k - 1)
            BY <1>2
        <3> QED BY <2>3, <2>4, <3>1
    <2>6. f[0] = x
        BY <1>2, <1>4, <2>3
    <2>7. ASSUME NEW i \in 1..k PROVE f[i] = g[i][f[i - 1]]
        <3>1. i - 1 \in 0..k /\ i - 1 # k /\ (i # k => i \in 1..(k - 1)) /\ i \in 0..k
            BY <1>2
        <3> QED BY <2>3, <3>1
    <2>8. Upto(k)
        BY <2>5, <2>6, <2>7 DEF ByRecursion
    <2> QED BY <1>2, <2>8
<1> QED BY <1>3, <1>4

\* The members of a set of numbers, one after the other.
LEMMA RankExists ==
    ASSUME NEW S, S \subseteq Nat, IsFiniteSet(S), NEW i \in 1..Cardinality(S)
    PROVE  \E s \in S : Cardinality({t \in S : t < s}) = i - 1
<1> DEFINE Below(s) == {t \in S : t < s}
           T == { k \in 1..Cardinality(S) : ~\E s \in S : Cardinality(Below(s)) = k - 1 }
<1>0. Cardinality(S) \in Nat
    BY FS_CardinalityType
<1> SUFFICES ASSUME T # {} PROVE FALSE
    OBVIOUS
<1>1. PICK k \in T : \A m \in T : k <= m
    <2>1. T \subseteq Nat
        BY <1>0
    <2> HIDE DEF T
    <2> QED BY <2>1, LeastNumber
<1>2. k \in 1..Cardinality(S) /\ k \in Nat /\ ~\E s \in S : Cardinality(Below(s)) = k - 1
    BY <1>0
<1>3. \A s \in S : IsFiniteSet(Below(s)) /\ Cardinality(Below(s)) \in Nat
    BY FS_Subset, FS_CardinalityType
<1>4. PICK L \in SUBSET S : /\ IsFiniteSet(L) /\ Cardinality(L) = k - 1
                            /\ \A t \in L, u \in S \ L : t < u
    <2>1. CASE k = 1
        <3>1. IsFiniteSet({}) /\ Cardinality({}) = 0
            BY FS_EmptySet
        <3> QED BY <2>1, <3>1
    <2>2. CASE k # 1
        <3>1. k - 1 \in 1..Cardinality(S) /\ ~(k <= k - 1)
            BY <1>0, <1>2, <2>2
        <3>2. PICK s \in S : Cardinality(Below(s)) = (k - 1) - 1
            BY <1>1, <3>1
        <3> DEFINE L == Below(s) \cup {s}
        <3>3. s \notin Below(s)
            OBVIOUS
        <3>4. IsFiniteSet(L) /\ Cardinality(L) = k - 1
            <4> DEFINE B == Below(s)
            <4>1. IsFiniteSet(B) /\ Cardinality(B) = (k - 1) - 1 /\ s \notin B
                BY <1>3, <3>2, <3>3
            <4> HIDE DEF B
            <4>2. IsFiniteSet(B \cup {s}) /\ Cardinality(B \cup {s}) = Cardinality(B) + 1
                BY <4>1, FS_AddElement
            <4>3. Cardinality(B \cup {s}) = k - 1
                BY <1>2, <4>1, <4>2
            <4> QED BY <4>2, <4>3 DEF B
        <3>5. \A t \in L, u \in S \ L : t < u
            OBVIOUS
        <3>6. L \in SUBSET S
            OBVIOUS
        <3> HIDE DEF L
        <3> QED BY <3>4, <3>5, <3>6
    <2> QED BY <2>1, <2>2
<1>5. S \ L # {}
    <2>1. L # S
        BY <1>0, <1>2, <1>4
    <2> QED BY <2>1
<1>6. PICK s \in S \ L : \A t \in S \ L : s <= t
    BY <1>5, LeastNumber
<1>7. Below(s) = L
    <2>1. ASSUME NEW t \in L PROVE t \in Below(s)
        BY <1>4, <1>6
    <2>2. ASSUME NEW t \in Below(s) PROVE t \in L
        <3>1. t \in S /\ t < s /\ t \in Nat /\ s \in Nat
            BY <1>6
        <3>2. t \notin S \ L
            BY <1>6, <3>1
        <3> QED BY <3>1, <3>2
    <2> HIDE DEF Below
    <2> QED BY <1>4, <2>1, <2>2 DEF Below
<1> QED BY <1>2, <1>4, <1>6, <1>7

-----------------------------------------------------------------------------
(* The map                                                                 *)

\* Sectors are NumSectors numbers.
LEMMA SectorsAreFinite ==
    /\ Sector \subseteq Nat
    /\ IsFiniteSet(Sector) /\ Cardinality(Sector) = NumSectors
<1>1. NumSectors \in Nat \ {0}
    BY FileHeaderAssumption
<1>2. IsFiniteSet(Sector)
    BY <1>1, FS_Interval DEF Sector
<1>3. Cardinality(Sector) = NumSectors
    BY <1>1, FS_Interval DEF Sector
<1> QED BY <1>1, <1>2, <1>3 DEF Sector

\* A function on 1..n is a sequence of length n.
LEMMA FunctionIsSeq ==
    ASSUME NEW S, NEW n \in Nat, NEW f \in [1..n -> S]
    PROVE  f \in Seq(S) /\ Len(f) = n
<1>1. f \in Seq(S)
    BY SeqDef
<1>2. Len(f) \in Nat /\ DOMAIN f = 1..Len(f)
    BY <1>1, LenProperties
<1>3. 1..Len(f) = 1..n
    BY <1>2
<1> QED BY <1>1, <1>2, <1>3

\* The clear sectors, each once.
LEMMA ClearIs ==
    ASSUME NEW map
    PROVE  /\ Clear(map) \in Seq(Sector \ map)
           /\ Len(Clear(map)) = Cardinality(Sector \ map)
           /\ \A i, j \in 1..Len(Clear(map)) : Clear(map)[i] = Clear(map)[j] => i = j
<1> DEFINE C == Sector \ map
           n == Cardinality(C)
           Rank(s) == Cardinality({t \in C : t < s})
           f == [i \in 1..n |-> CHOOSE s \in C : Rank(s) = i - 1]
<1>1. IsFiniteSet(C) /\ C \subseteq Nat /\ n \in Nat
    BY SectorsAreFinite, FS_Subset, FS_CardinalityType
<1>2. Clear(map) = f
    BY DEF Clear
<1>3. \A i \in 1..n : f[i] \in C /\ Rank(f[i]) = i - 1
    <2> TAKE i \in 1..n
    <2> HIDE DEF C
    <2>1. \E s \in C : Rank(s) = i - 1
        BY <1>1, RankExists
    <2> QED BY <2>1
<1>4. f \in [1..n -> C]
    BY <1>3
<1>5. f \in Seq(C) /\ Len(f) = n
    <2> HIDE DEF C
    <2> HIDE DEF n, f
    <2> QED BY <1>1, <1>4, FunctionIsSeq
<1>6. \A i, j \in 1..n : f[i] = f[j] => i = j
    <2> TAKE i, j \in 1..n
    <2> HIDE DEF C, n, f
    <2> HAVE f[i] = f[j]
    <2>1. i - 1 = j - 1
        BY <1>3
    <2> QED BY <1>1, <2>1
<1> QED BY <1>2, <1>5, <1>6

-----------------------------------------------------------------------------
(* Files                                                                   *)

HeaderRec == [next : Sector \cup {NoSector}, data : Seq(Sector)]

\* Every header but the last is full and names the next.
IsFile(hdr) ==
    /\ hdr \in Seq(HeaderRec) /\ hdr # <<>>
    /\ \A k \in 1..Len(hdr) :
        /\ Len(hdr[k].data) <= NumDirect
        /\ k < Len(hdr) => Len(hdr[k].data) = NumDirect /\ hdr[k].next \in Sector
        /\ k = Len(hdr) => hdr[k].next = NoSector

\* The sectors of the headers after the first.
NextSectors(hdr) == {hdr[k].next : k \in 1..(Len(hdr) - 1)}

\* The parts of a file.
LEMMA FileIs ==
    ASSUME NEW hdr, IsFile(hdr)
    PROVE  /\ Len(hdr) \in Nat \ {0} /\ DOMAIN hdr = 1..Len(hdr)
           /\ \A k \in 1..Len(hdr) : /\ hdr[k] \in HeaderRec
                                     /\ hdr[k].next \in Sector \cup {NoSector}
                                     /\ hdr[k].data \in Seq(Sector)
                                     /\ Len(hdr[k].data) \in 0..NumDirect
                                     /\ DOMAIN hdr[k].data = 1..Len(hdr[k].data)
<1>1. hdr \in Seq(HeaderRec) /\ hdr # <<>>
    BY DEF IsFile
<1>2. Len(hdr) \in Nat \ {0} /\ DOMAIN hdr = 1..Len(hdr)
    BY <1>1, EmptySeq, LenProperties
<1>3. \A k \in 1..Len(hdr) : hdr[k] \in HeaderRec
    BY <1>1, ElementOfSeq
<1>4. ASSUME NEW k \in 1..Len(hdr)
      PROVE  /\ hdr[k].next \in Sector \cup {NoSector}
             /\ hdr[k].data \in Seq(Sector)
    BY <1>3 DEF HeaderRec
<1>5. ASSUME NEW k \in 1..Len(hdr)
      PROVE  Len(hdr[k].data) \in 0..NumDirect /\ DOMAIN hdr[k].data = 1..Len(hdr[k].data)
    <2>1. Len(hdr[k].data) \in Nat /\ DOMAIN hdr[k].data = 1..Len(hdr[k].data)
        BY <1>4, LenProperties
    <2>2. Len(hdr[k].data) <= NumDirect
        BY DEF IsFile
    <2> QED BY <2>1, <2>2, FileHeaderAssumption
<1> QED BY <1>2, <1>3, <1>4, <1>5

\* Every header but the last counts NumDirect.
LEMMA FileLengthIs ==
    ASSUME NEW hdr, IsFile(hdr)
    PROVE  /\ FileLength(hdr) = (Len(hdr) - 1) * NumDirect + Len(hdr[Len(hdr)].data)
           /\ FileLength(hdr) \in Nat
<1> DEFINE n == Len(hdr)
           len(k) == Len(hdr[k].data)
           g == [k \in 1..n |-> [x \in Nat |-> x + len(k)]]
           Is(f) == f = [k \in 0..n |-> IF k = 0 THEN 0 ELSE f[k - 1] + len(k)]
           T(f) == {k \in 0..(n - 1) : f[k] # k * NumDirect}
<1>1. n \in Nat \ {0} /\ \A k \in 1..n : len(k) \in 0..NumDirect
    BY FileIs
<1>2. NumDirect \in Nat /\ \A k \in 1..n : k < n => len(k) = NumDirect
    BY FileHeaderAssumption DEF IsFile
<1> HIDE DEF n, len
<1>3. PICK e \in [0..n -> Nat] : ByRecursion(e, n, 0, g)
    <2>1. g \in [1..n -> [Nat -> Nat]]
        BY <1>1
    <2>2. n \in Nat /\ 0 \in Nat
        BY <1>1
    <2> HIDE DEF g
    <2> QED BY <2>1, <2>2, RecursionExists
<1>4. \A i \in 1..n : e[i] = e[i - 1] + len(i)
    <2> TAKE i \in 1..n
    <2>0. i - 1 \in 0..n
        BY <1>1
    <2>1. e[i - 1] \in Nat
        BY <1>3, <2>0
    <2> QED BY <1>3, <2>1 DEF ByRecursion
<1>5. Is(e)
    <2>1. DOMAIN e = 0..n
        BY <1>3
    <2>2. \A k \in 0..n : e[k] = IF k = 0 THEN 0 ELSE e[k - 1] + len(k)
        BY <1>1, <1>3, <1>4 DEF ByRecursion
    <2> QED BY <1>3, <2>1, <2>2
<1> DEFINE l == CHOOSE f : Is(f)
<1>6. Is(l)
    <2> HIDE DEF Is
    <2> QED BY <1>5
<1>7. FileLength(hdr) = l[n]
    BY DEF FileLength, n, len
<1>8. \A k \in 0..n : l[k] = IF k = 0 THEN 0 ELSE l[k - 1] + len(k)
    <2> HIDE DEF l
    <2> QED BY <1>6
<1> HIDE DEF l, Is
<1>9. T(l) = {}
    <2> SUFFICES ASSUME T(l) # {} PROVE FALSE
        OBVIOUS
    <2>1. PICK k \in T(l) : \A m \in T(l) : k <= m
        <3>1. T(l) \subseteq Nat
            BY <1>1
        <3> HIDE DEF T
        <3> QED BY <3>1, LeastNumber
    <2>2. k \in 0..(n - 1) /\ k \in 0..n /\ k \in Nat
        BY <1>1, <2>1
    <2>3. k # 0
        BY <1>2, <1>8, <2>1, <2>2
    <2>4. k - 1 \in 0..(n - 1) /\ ~(k <= k - 1) /\ k \in 1..n /\ k < n
        BY <1>1, <2>2, <2>3
    <2>5. l[k - 1] = (k - 1) * NumDirect
        BY <2>1, <2>4
    <2>6. l[k] = (k - 1) * NumDirect + NumDirect
        BY <1>2, <1>8, <2>2, <2>3, <2>4, <2>5
    <2>7. (k - 1) * NumDirect + NumDirect = k * NumDirect
        BY <1>2, <2>2
    <2> QED BY <2>1, <2>6, <2>7
<1>10. l[n - 1] = (n - 1) * NumDirect
    BY <1>1, <1>9
<1>11. l[n] = (n - 1) * NumDirect + len(n)
    BY <1>1, <1>8, <1>10
<1>12. (n - 1) * NumDirect \in Nat /\ len(n) \in Nat
    BY <1>1, <1>2, ProductNat
<1> QED BY <1>7, <1>11, <1>12 DEF n, len

\* Every position of a file is in one of its headers.
LEMMA PositionIs ==
    ASSUME NEW hdr, IsFile(hdr), NEW i \in 0..(FileLength(hdr) - 1)
    PROVE  /\ (i \div NumDirect) + 1 \in 1..Len(hdr)
           /\ (i % NumDirect) + 1 \in 1..Len(hdr[(i \div NumDirect) + 1].data)
<1> DEFINE n == Len(hdr)
           q == i \div NumDirect
           r == i % NumDirect
           last == Len(hdr[n].data)
<1>1. n \in Nat \ {0} /\ last \in 0..NumDirect /\ NumDirect \in Nat \ {0}
    BY FileIs, FileHeaderAssumption
<1>2. FileLength(hdr) = (n - 1) * NumDirect + last /\ FileLength(hdr) \in Nat
    BY FileLengthIs
<1>3. i \in Nat /\ i < (n - 1) * NumDirect + last
    BY <1>2
<1>4. q \in Nat /\ q * NumDirect <= i /\ i < q * NumDirect + NumDirect
      /\ r = i - q * NumDirect
    BY <1>1, <1>3, DivIs
<1>5. \A k \in 1..n : k < n => Len(hdr[k].data) = NumDirect
    BY DEF IsFile
<1> HIDE DEF n, q, r, last
<1>6. q <= n - 1
    <2> SUFFICES ASSUME n <= q PROVE FALSE
        BY <1>1, <1>4
    <2>1. n * NumDirect <= q * NumDirect
        BY <1>1, <1>4, ProductMono
    <2>2. n * NumDirect = (n - 1) * NumDirect + NumDirect
        BY <1>1
    <2>3. (n - 1) * NumDirect \in Nat /\ q * NumDirect \in Nat /\ n * NumDirect \in Nat
        BY <1>1, <1>4, ProductNat
    <2> QED BY <1>1, <1>3, <1>4, <2>1, <2>2, <2>3
<1>7. r \in 0..(NumDirect - 1)
    <2>1. q * NumDirect \in Nat
        BY <1>1, <1>4, ProductNat
    <2> QED BY <1>1, <1>3, <1>4, <2>1
<1>8. CASE q < n - 1
    <2>1. q + 1 \in 1..n /\ q + 1 < n
        BY <1>1, <1>4, <1>8
    <2>2. Len(hdr[q + 1].data) = NumDirect
        BY <1>5, <2>1
    <2> QED BY <1>1, <1>7, <2>1, <2>2 DEF n, q, r
<1>9. CASE q = n - 1
    <2>1. q + 1 = n /\ q + 1 \in 1..n
        BY <1>1, <1>9
    <2>2. q * NumDirect \in Nat /\ q * NumDirect = (n - 1) * NumDirect
        BY <1>1, <1>4, <1>9, ProductNat
    <2>3. r < last
        BY <1>1, <1>3, <1>4, <2>2
    <2>4. r + 1 \in 1..last
        BY <1>1, <1>7, <2>3
    <2> QED BY <2>1, <2>4 DEF n, q, r, last
<1> QED BY <1>1, <1>4, <1>6, <1>8, <1>9

\* Every position is in a data sector of the file (ByteToSector).
LEMMA ByteToSectorIs ==
    ASSUME NEW hdr, IsFile(hdr), NEW i \in 0..(FileLength(hdr) - 1)
    PROVE  ByteToSector(hdr, i) \in DataSectors(hdr)
<1> DEFINE k == (i \div NumDirect) + 1
           j == (i % NumDirect) + 1
<1>1. k \in 1..Len(hdr) /\ j \in 1..Len(hdr[k].data)
    BY PositionIs
<1>2. DOMAIN hdr = 1..Len(hdr) /\ DOMAIN hdr[k].data = 1..Len(hdr[k].data)
    BY <1>1, FileIs
<1>3. ByteToSector(hdr, i) = hdr[k].data[j]
    BY DEF ByteToSector
<1> HIDE DEF k, j
<1>4. hdr[k].data[j] \in ToSet(hdr[k].data)
    BY <1>1, <1>2 DEF ToSet
<1> QED BY <1>1, <1>2, <1>3, <1>4 DEF DataSectors

\* The data sectors by header and place.
LEMMA DataSectorsAre ==
    ASSUME NEW hdr, IsFile(hdr)
    PROVE  /\ DataSectors(hdr) \subseteq Sector
           /\ \A s \in DataSectors(hdr) :
                \E k \in 1..Len(hdr) : \E j \in 1..Len(hdr[k].data) : s = hdr[k].data[j]
<1>1. \A s \in DataSectors(hdr) :
         \E k \in 1..Len(hdr) : \E j \in 1..Len(hdr[k].data) : s = hdr[k].data[j]
    BY FileIs DEF DataSectors, ToSet
<1>2. \A k \in 1..Len(hdr) : \A j \in 1..Len(hdr[k].data) : hdr[k].data[j] \in Sector
    BY FileIs, ElementOfSeq
<1> QED BY <1>1, <1>2

-----------------------------------------------------------------------------
(* Allocation                                                              *)

\* No sector has two uses in a file.
NamesOnce(hdr) ==
    /\ \A k, l \in 1..Len(hdr) :
         \A i \in 1..Len(hdr[k].data), j \in 1..Len(hdr[l].data) :
            hdr[k].data[i] = hdr[l].data[j] => k = l /\ i = j
    /\ \A k, l \in 1..(Len(hdr) - 1) : hdr[k].next = hdr[l].next => k = l
    /\ NextSectors(hdr) \cap DataSectors(hdr) = {}

\* The last header has what the full ones leave over.
LEMMA NumHeadersIs ==
    ASSUME NEW size \in Nat
    PROVE  /\ NumHeaders(size) \in Nat \ {0}
           /\ (NumHeaders(size) - 1) * NumDirect \in Nat
           /\ size - (NumHeaders(size) - 1) * NumDirect \in 0..NumDirect
<1>1. NumDirect \in Nat \ {0}
    BY FileHeaderAssumption
<1> DEFINE n == NumHeaders(size)
<1>2. CASE size = 0
    <2>1. n = 1 /\ (n - 1) * NumDirect = 0
        BY <1>1, <1>2 DEF NumHeaders
    <2> DEFINE q == (n - 1) * NumDirect
    <2>2. q = 0
        BY <2>1
    <2> HIDE DEF q
    <2>3. n \in Nat \ {0} /\ q \in Nat /\ size - q \in 0..NumDirect
        BY <1>1, <1>2, <2>1, <2>2
    <2> QED BY <2>3 DEF q
<1>3. CASE size # 0
    <2> DEFINE a == size + NumDirect - 1
    <2>1. n = a \div NumDirect /\ a \in Nat /\ a >= NumDirect
        BY <1>1, <1>3 DEF NumHeaders
    <2>2. n \in Nat /\ n * NumDirect <= a /\ a < n * NumDirect + NumDirect
        BY <1>1, <2>1, DivIs
    <2> HIDE DEF n
    <2>3. n # 0
        BY <1>1, <2>1, <2>2
    <2>4. n * NumDirect = (n - 1) * NumDirect + NumDirect /\ (n - 1) * NumDirect \in Nat
        BY <1>1, <2>2, <2>3, ProductNat
    <2> DEFINE q == (n - 1) * NumDirect
    <2>5. q \in Nat /\ q + NumDirect <= a /\ a < q + NumDirect + NumDirect
        BY <2>2, <2>4
    <2> HIDE DEF q
    <2>6. size - q \in 0..NumDirect
        BY <1>1, <2>5
    <2> QED BY <2>2, <2>3, <2>5, <2>6 DEF n, q
<1> QED BY <1>2, <1>3

\* The positions of the map's clear sectors that a header's sectors come from.
LEMMA PlacesAreDistinct ==
    ASSUME NEW k \in Nat, NEW l \in Nat, NEW i \in 1..(NumDirect + 1), NEW j \in 1..(NumDirect + 1),
           k * (NumDirect + 1) + i = l * (NumDirect + 1) + j
    PROVE  k = l /\ i = j
<1> DEFINE N == NumDirect + 1
<1>1. NumDirect \in Nat /\ N \in Nat
    BY FileHeaderAssumption
<1>2. k * N \in Nat /\ l * N \in Nat /\ (k + 1) * N = k * N + N /\ (l + 1) * N = l * N + N
    BY <1>1, ProductNat
<1>3. ~(k < l)
    <2> SUFFICES ASSUME k < l PROVE FALSE
        OBVIOUS
    <2>1. (k + 1) * N <= l * N
        <3>1. k + 1 \in Nat /\ k + 1 <= l
            OBVIOUS
        <3> HIDE DEF N
        <3> QED BY <1>1, <3>1, ProductMono
    <2> QED BY <1>1, <1>2, <2>1
<1>4. ~(l < k)
    <2> SUFFICES ASSUME l < k PROVE FALSE
        OBVIOUS
    <2>1. (l + 1) * N <= k * N
        <3>1. l + 1 \in Nat /\ l + 1 <= k
            OBVIOUS
        <3> HIDE DEF N
        <3> QED BY <1>1, <3>1, ProductMono
    <2> QED BY <1>1, <1>2, <2>1
<1>5. k = l
    BY <1>3, <1>4
<1> QED BY <1>1, <1>2, <1>5

Place(k, j) == (k - 1) * (NumDirect + 1) + j

\* The n headers of a file of the given size take the sectors of c one after
\* the other.
TakenInOrder(hdr, n, size, c) ==
    \A k \in 1..n :
        /\ Len(hdr[k].data) = IF k < n THEN NumDirect ELSE size - (n - 1) * NumDirect
        /\ \A j \in 1..Len(hdr[k].data) :
             Place(k, j) \in 1..(size + n - 1) /\ hdr[k].data[j] = c[Place(k, j)]
        /\ k < n => /\ Place(k, NumDirect + 1) \in 1..(size + n - 1)
                    /\ hdr[k].next = c[Place(k, NumDirect + 1)]
        /\ k = n => hdr[k].next = NoSector

\* What Allocate returns when it succeeds, in terms of the clear sectors.
LEMMA AllocateGives ==
    ASSUME NEW map, NEW size \in Nat, Allocate(map, size).ok,
           NEW hdr, hdr = Allocate(map, size).hdr,
           NEW n, n = NumHeaders(size),
           NEW c, c = Clear(map)
    PROVE  /\ n \in Nat \ {0} /\ size + n - 1 \in Nat
           /\ size + n - 1 <= Len(c) /\ Len(c) \in Nat
           /\ Allocate(map, size).map = map \cup {c[i] : i \in 1..(size + n - 1)}
           /\ hdr \in Seq(HeaderRec) /\ Len(hdr) = n
           /\ TakenInOrder(hdr, n, size, c)
<1> DEFINE N == NumDirect + 1
           taken == size + n - 1
           after(k) == (k - 1) * N
           last(k) == IF k < n THEN after(k) + NumDirect ELSE taken
           rec(k) == [next |-> IF k < n THEN c[last(k) + 1] ELSE NoSector,
                      data |-> SubSeq(c, after(k) + 1, last(k))]
<1>1. NumDirect \in Nat \ {0} /\ n \in Nat \ {0} /\ (n - 1) * NumDirect \in Nat
      /\ size - (n - 1) * NumDirect \in 0..NumDirect
    BY FileHeaderAssumption, NumHeadersIs
<1>2. c \in Seq(Sector) /\ Len(c) \in Nat
    <2>1. c \in Seq(Sector \ map)
        BY ClearIs
    <2>2. c \in Seq(Sector)
        BY <2>1, SeqMonotonic
    <2> QED BY <2>2, LenProperties
<1>3. taken <= Len(c) /\ Allocate(map, size).map = map \cup {c[i] : i \in 1..taken}
      /\ hdr = [k \in 1..n |-> rec(k)]
    <2>1. ~(taken > Len(c))
        BY DEF Allocate
    <2>2. taken <= Len(c)
        BY <1>1, <1>2, <2>1
    <2> QED BY <2>1, <2>2 DEF Allocate
<1>4. taken \in Nat
    BY <1>1
<1>5. \A k \in 1..n : after(k) \in Nat /\ after(k) = (k - 1) * NumDirect + (k - 1)
    <2> TAKE k \in 1..n
    <2>1. k - 1 \in Nat /\ N \in Nat
        BY <1>1
    <2>2. after(k) \in Nat
        <3> HIDE DEF N
        <3> QED BY <2>1, ProductNat
    <2> QED BY <1>1, <2>1, <2>2
<1>6. ASSUME NEW k \in 1..n
      PROVE  /\ last(k) \in Nat /\ after(k) <= last(k) /\ last(k) <= taken
             /\ k < n => last(k) + 1 <= taken
             /\ last(k) - after(k) = IF k < n THEN NumDirect ELSE size - (n - 1) * NumDirect
    <2>1. CASE k < n
        <3>1. k - 1 \in Nat /\ n - 1 \in Nat /\ k \in Nat /\ k <= n - 1
            BY <1>1, <2>1
        <3>2. k * NumDirect <= (n - 1) * NumDirect
            BY <1>1, <3>1, ProductMono
        <3>3. k * NumDirect = (k - 1) * NumDirect + NumDirect /\ (k - 1) * NumDirect \in Nat
            BY <1>1, <3>1, ProductNat
        <3>4. last(k) = after(k) + NumDirect
            BY <2>1
        <3> HIDE DEF after, last
        <3>5. last(k) + 1 <= taken
            BY <1>1, <1>5, <3>1, <3>2, <3>3, <3>4
        <3> QED BY <1>1, <1>4, <1>5, <2>1, <3>4, <3>5
    <2>2. CASE ~(k < n)
        <3>1. k = n /\ last(k) = taken
            BY <1>1, <2>2
        <3>2. after(k) = (n - 1) * NumDirect + (n - 1)
            BY <1>5, <3>1
        <3> HIDE DEF after, last
        <3>3. last(k) - after(k) = size - (n - 1) * NumDirect
            BY <1>1, <1>5, <3>1, <3>2
        <3> QED BY <1>1, <1>4, <1>5, <2>2, <3>1, <3>2, <3>3
    <2> QED BY <2>1, <2>2
<1> HIDE DEF after, last
<1>7. ASSUME NEW k \in 1..n
      PROVE  /\ rec(k) \in HeaderRec
             /\ Len(rec(k).data) = last(k) - after(k)
             /\ \A j \in 1..Len(rec(k).data) : rec(k).data[j] = c[after(k) + j]
    <2>1. after(k) \in Nat /\ last(k) \in Nat /\ after(k) <= last(k) /\ last(k) <= Len(c)
        BY <1>2, <1>3, <1>4, <1>5, <1>6
    <2> DEFINE d == SubSeq(c, after(k) + 1, last(k))
    <2>2. d \in Seq(Sector) /\ Len(d) = last(k) - after(k)
          /\ \A j \in 1..Len(d) : d[j] = c[after(k) + j]
        <3> DEFINE x == after(k) + 1
                   y == last(k)
        <3>1. /\ x \in 1..(Len(c) + 1) /\ y \in (x - 1)..Len(c)
              /\ IF x <= y THEN y - x + 1 = y - after(k) ELSE 0 = y - after(k)
              /\ \A j \in Nat : x + j - 1 = after(k) + j
            BY <1>2, <2>1
        <3>2. d = SubSeq(c, x, y)
            OBVIOUS
        <3>9. x \in Int /\ y \in Int /\ \A i \in x..y : c[i] \in Sector
            <4>1. x..y \subseteq 1..Len(c)
                BY <1>2, <2>1
            <4> QED BY <1>2, <2>1, <4>1, ElementOfSeq
        <3> HIDE DEF x, y, d
        <3>3. /\ d \in Seq(Sector)
              /\ Len(d) = IF x <= y THEN y - x + 1 ELSE 0
              /\ \A j \in 1..(y - x + 1) : d[j] = c[x + j - 1]
            BY <3>2, <3>9, SubSeqProperties
        <3>4. Len(d) = y - after(k)
            BY <3>1, <3>3
        <3>5. ASSUME NEW j \in 1..Len(d) PROVE d[j] = c[after(k) + j]
            <4>1. x <= y /\ Len(d) = y - x + 1 /\ j \in Nat
                BY <3>1, <3>3, <3>5, <2>1
            <4> QED BY <3>1, <3>3, <4>1
        <3> QED BY <3>3, <3>4, <3>5 DEF y
    <2>3. k < n => c[last(k) + 1] \in Sector
        <3> HAVE k < n
        <3>1. last(k) + 1 \in 1..Len(c)
            BY <1>2, <1>3, <1>4, <1>6, <2>1
        <3> QED BY <1>2, <3>1, ElementOfSeq
    <2> HIDE DEF d
    <2>4. [next |-> IF k < n THEN c[last(k) + 1] ELSE NoSector, data |-> d] \in HeaderRec
        BY <2>2, <2>3 DEF HeaderRec
    <2>5. rec(k) = [next |-> IF k < n THEN c[last(k) + 1] ELSE NoSector, data |-> d]
        BY DEF d
    <2>6. rec(k).data = d
        BY <2>5
    <2> HIDE DEF rec
    <2> QED BY <2>2, <2>4, <2>5, <2>6
<1>8. hdr \in Seq(HeaderRec) /\ Len(hdr) = n /\ \A k \in 1..n : hdr[k] = rec(k)
    <2>1. \A k \in 1..n : rec(k) \in HeaderRec
        BY <1>7
    <2> HIDE DEF rec
    <2>2. hdr \in [1..n -> HeaderRec] /\ \A k \in 1..n : hdr[k] = rec(k)
        BY <1>3, <2>1
    <2> QED BY <1>1, <2>2, FunctionIsSeq
<1>9. ASSUME NEW k \in 1..n
      PROVE  /\ after(k) \in Nat
             /\ Len(hdr[k].data) = IF k < n THEN NumDirect ELSE size - (n - 1) * NumDirect
             /\ \A j \in 1..Len(hdr[k].data) :
                  after(k) + j \in 1..taken /\ hdr[k].data[j] = c[after(k) + j]
             /\ k < n => after(k) + NumDirect + 1 \in 1..taken
                         /\ hdr[k].next = c[after(k) + NumDirect + 1]
             /\ k = n => hdr[k].next = NoSector
    <2>1. hdr[k] = rec(k) /\ Len(hdr[k].data) = last(k) - after(k)
          /\ \A j \in 1..Len(hdr[k].data) : hdr[k].data[j] = c[after(k) + j]
        <3> HIDE DEF rec
        <3> QED BY <1>7, <1>8
    <2>2. after(k) \in Nat /\ last(k) \in Nat /\ last(k) <= taken
        BY <1>5, <1>6
    <2>3. \A j \in 1..Len(hdr[k].data) : after(k) + j \in 1..taken
        <3> TAKE j \in 1..Len(hdr[k].data)
        <3>1. j \in Nat /\ 1 <= j /\ j <= last(k) - after(k)
            BY <2>1, <2>2
        <3> QED BY <1>4, <2>2, <3>1
    <2>4. k < n => after(k) + NumDirect + 1 \in 1..taken
                   /\ hdr[k].next = c[after(k) + NumDirect + 1]
        <3> HAVE k < n
        <3>1. last(k) = after(k) + NumDirect /\ last(k) + 1 <= taken
            BY <1>1, <1>6, <2>2
        <3>2. hdr[k].next = c[last(k) + 1]
            BY <2>1
        <3> QED BY <1>1, <1>4, <2>2, <3>1, <3>2
    <2>5. k = n => hdr[k].next = NoSector
        BY <1>1, <2>1
    <2> QED BY <1>6, <2>1, <2>2, <2>3, <2>4, <2>5
<1> HIDE DEF rec
<1>10. \A k \in 1..n : Place(k, NumDirect + 1) = after(k) + NumDirect + 1
                       /\ \A j \in 1..Len(hdr[k].data) : Place(k, j) = after(k) + j
    <2> TAKE k \in 1..n
    <2>1. after(k) \in Nat /\ NumDirect \in Nat
        BY <1>1, <1>5
    <2>2. after(k) + (NumDirect + 1) = after(k) + NumDirect + 1
        BY <2>1
    <2> QED BY <2>2 DEF after, Place
<1> HIDE DEF taken
<1>11. ASSUME NEW k \in 1..n
       PROVE  /\ Len(hdr[k].data) = IF k < n THEN NumDirect ELSE size - (n - 1) * NumDirect
              /\ \A j \in 1..Len(hdr[k].data) :
                   Place(k, j) \in 1..taken /\ hdr[k].data[j] = c[Place(k, j)]
              /\ k < n => Place(k, NumDirect + 1) \in 1..taken
                         /\ hdr[k].next = c[Place(k, NumDirect + 1)]
              /\ k = n => hdr[k].next = NoSector
    <2>1. Len(hdr[k].data) = IF k < n THEN NumDirect ELSE size - (n - 1) * NumDirect
        BY <1>9
    <2>2. \A j \in 1..Len(hdr[k].data) :
                   Place(k, j) \in 1..taken /\ hdr[k].data[j] = c[Place(k, j)]
        BY <1>9, <1>10
    <2>3. k < n => Place(k, NumDirect + 1) \in 1..taken
                         /\ hdr[k].next = c[Place(k, NumDirect + 1)]
        BY <1>9, <1>10
    <2> QED BY <1>9, <2>1, <2>2, <2>3
<1> QED BY <1>1, <1>2, <1>3, <1>4, <1>8, <1>11 DEF taken, TakenInOrder

\* The sectors of a file, but for its first header.
NamedBy(hdr) == NextSectors(hdr) \cup DataSectors(hdr)

\* What a header names is a data sector.
LEMMA DataSectorIn ==
    ASSUME NEW hdr, IsFile(hdr), NEW k \in 1..Len(hdr), NEW j \in 1..Len(hdr[k].data)
    PROVE  hdr[k].data[j] \in DataSectors(hdr)
<1>1. DOMAIN hdr = 1..Len(hdr) /\ DOMAIN hdr[k].data = 1..Len(hdr[k].data)
    BY FileIs
<1>2. hdr[k].data[j] \in ToSet(hdr[k].data)
    BY <1>1 DEF ToSet
<1> QED BY <1>1, <1>2 DEF DataSectors

\* Allocate takes clear sectors, each for one use, marks what it takes and no
\* other, and the file has the size it was asked for.
THEOREM AllocateTakesClearSectors ==
    ASSUME NEW map, NEW size \in Nat, NEW a, a = Allocate(map, size)
    PROVE  /\ ~a.ok => a.map = map
           /\ a.ok => /\ IsFile(a.hdr)
                      /\ Len(a.hdr) = NumHeaders(size) /\ FileLength(a.hdr) = size
                      /\ NamesOnce(a.hdr)
                      /\ NamedBy(a.hdr) \cap map = {}
                      /\ a.map = map \cup NamedBy(a.hdr)
<1>1. ~a.ok => a.map = map
    BY DEF Allocate
<1> SUFFICES ASSUME a.ok
             PROVE  /\ IsFile(a.hdr)
                    /\ Len(a.hdr) = NumHeaders(size) /\ FileLength(a.hdr) = size
                    /\ NamesOnce(a.hdr)
                    /\ NamedBy(a.hdr) \cap map = {}
                    /\ a.map = map \cup NamedBy(a.hdr)
    BY <1>1
<1> DEFINE hdr == a.hdr
           n == NumHeaders(size)
           c == Clear(map)
           N == NumDirect + 1
           taken == size + n - 1
           q == (n - 1) * NumDirect
           DataOf(k) == 1..Len(hdr[k].data)
<1>2. n \in Nat \ {0} /\ taken \in Nat /\ taken <= Len(c) /\ Len(c) \in Nat
      /\ a.map = map \cup {c[i] : i \in 1..taken}
      /\ hdr \in Seq(HeaderRec) /\ Len(hdr) = n
    BY AllocateGives
<1>3. \A k \in 1..n :
         /\ Len(hdr[k].data) = IF k < n THEN NumDirect ELSE size - q
         /\ \A j \in 1..Len(hdr[k].data) :
              Place(k, j) \in 1..taken /\ hdr[k].data[j] = c[Place(k, j)]
         /\ k < n => Place(k, N) \in 1..taken /\ hdr[k].next = c[Place(k, N)]
         /\ k = n => hdr[k].next = NoSector
    <2>1. Allocate(map, size).ok /\ hdr = Allocate(map, size).hdr
          /\ n = NumHeaders(size) /\ c = Clear(map)
        OBVIOUS
    <2> HIDE DEF hdr, n, c
    <2>2. TakenInOrder(hdr, n, size, c)
        BY <2>1, AllocateGives
    <2> QED BY <2>2 DEF TakenInOrder
<1>4. NumDirect \in Nat \ {0} /\ q \in Nat /\ size - q \in 0..NumDirect /\ N \in Nat
    BY FileHeaderAssumption, NumHeadersIs
<1>5. c \in Seq(Sector \ map) /\ \A i, j \in 1..Len(c) : c[i] = c[j] => i = j
    BY ClearIs
<1> HIDE DEF hdr, n, c, q, taken
<1>6. \A i \in 1..taken : c[i] \in Sector \ map /\ i \in 1..Len(c)
    <2> TAKE i \in 1..taken
    <2>1. i \in 1..Len(c)
        BY <1>2
    <2> QED BY <1>5, <2>1, ElementOfSeq
<1>7. IsFile(hdr)
    <2>1. hdr # <<>>
        BY <1>2
    <2>2. ASSUME NEW k \in 1..Len(hdr)
          PROVE  /\ Len(hdr[k].data) <= NumDirect
                 /\ k < Len(hdr) => Len(hdr[k].data) = NumDirect /\ hdr[k].next \in Sector
                 /\ k = Len(hdr) => hdr[k].next = NoSector
        <3>1. k \in 1..n
            BY <1>2
        <3>2. Len(hdr[k].data) <= NumDirect
            BY <1>3, <1>4, <3>1
        <3>3. k < n => Len(hdr[k].data) = NumDirect
            BY <1>3, <3>1
        <3>4. k < n => hdr[k].next \in Sector
            BY <1>3, <1>6, <3>1
        <3>5. k = n => hdr[k].next = NoSector
            BY <1>3, <3>1
        <3> QED BY <1>2, <3>2, <3>3, <3>4, <3>5
    <2> QED BY <1>2, <2>1, <2>2 DEF IsFile
<1>8. FileLength(hdr) = size
    <2>1. FileLength(hdr) = (Len(hdr) - 1) * NumDirect + Len(hdr[Len(hdr)].data)
        BY <1>7, FileLengthIs
    <2>2. n \in 1..n /\ ~(n < n)
        BY <1>2
    <2>3. Len(hdr[n].data) = size - q
        BY <1>3, <2>2
    <2>4. FileLength(hdr) = q + (size - q)
        BY <1>2, <2>1, <2>3 DEF q
    <2> QED BY <1>4, <2>4
\* Every use has its own place among the clear sectors.
<1>9. ASSUME NEW k \in 1..n, NEW l \in 1..n, NEW i \in 1..N, NEW j \in 1..N,
             Place(k, i) \in 1..taken, Place(l, j) \in 1..taken,
             c[Place(k, i)] = c[Place(l, j)]
      PROVE  k = l /\ i = j
    <2>1. Place(k, i) = Place(l, j)
        BY <1>5, <1>6, <1>9
    <2>2. k - 1 \in Nat /\ l - 1 \in Nat
        BY <1>2
    <2>3. k - 1 = l - 1 /\ i = j
        BY <2>1, <2>2, PlacesAreDistinct DEF Place, N
    <2> QED BY <1>2, <2>3
<1>10. \A k \in 1..n : DataOf(k) \subseteq 1..N /\ N \notin DataOf(k) /\ N \in 1..N
    <2> TAKE k \in 1..n
    <2>1. Len(hdr[k].data) \in 0..NumDirect
        BY <1>3, <1>4
    <2> QED BY <1>4, <2>1
<1> HIDE DEF N
<1>11. NextSectors(hdr) = {c[Place(k, N)] : k \in 1..(n - 1)}
    <2>1. \A k \in 1..(n - 1) : k \in 1..n /\ k < n /\ hdr[k].next = c[Place(k, N)]
        BY <1>2, <1>3
    <2> QED BY <1>2, <2>1 DEF NextSectors
<1>12. NamesOnce(hdr)
    <2>1. ASSUME NEW k \in 1..Len(hdr), NEW l \in 1..Len(hdr),
                 NEW i \in 1..Len(hdr[k].data), NEW j \in 1..Len(hdr[l].data),
                 hdr[k].data[i] = hdr[l].data[j]
          PROVE  k = l /\ i = j
        <3>1. k \in 1..n /\ l \in 1..n
            BY <1>2
        <3>2. i \in 1..N /\ j \in 1..N
            BY <1>10, <3>1
        <3>3. /\ hdr[k].data[i] = c[Place(k, i)] /\ Place(k, i) \in 1..taken
              /\ hdr[l].data[j] = c[Place(l, j)] /\ Place(l, j) \in 1..taken
            BY <1>3, <3>1
        <3>4. c[Place(k, i)] = c[Place(l, j)]
            BY <2>1, <3>3
        <3> QED BY <1>9, <3>1, <3>2, <3>3, <3>4
    <2>2. ASSUME NEW k \in 1..(Len(hdr) - 1), NEW l \in 1..(Len(hdr) - 1), hdr[k].next = hdr[l].next
          PROVE  k = l
        <3>1. k \in 1..n /\ l \in 1..n /\ k < n /\ l < n
            BY <1>2
        <3>2. N \in 1..N
            BY <1>10, <3>1
        <3>3. /\ hdr[k].next = c[Place(k, N)] /\ Place(k, N) \in 1..taken
              /\ hdr[l].next = c[Place(l, N)] /\ Place(l, N) \in 1..taken
            BY <1>3, <3>1
        <3>4. c[Place(k, N)] = c[Place(l, N)]
            BY <2>2, <3>3
        <3> QED BY <1>9, <3>1, <3>2, <3>3, <3>4
    <2>3. ASSUME NEW s \in NextSectors(hdr), s \in DataSectors(hdr) PROVE FALSE
        <3>1. PICK k \in 1..(n - 1) : s = c[Place(k, N)]
            BY <1>11
        <3>2. PICK l \in 1..Len(hdr) : \E j \in 1..Len(hdr[l].data) : s = hdr[l].data[j]
            BY <1>7, <2>3, DataSectorsAre
        <3>3. PICK j \in 1..Len(hdr[l].data) : s = hdr[l].data[j]
            BY <3>2
        <3>4. k \in 1..n /\ k < n /\ l \in 1..n
            BY <1>2
        <3>5. N \in 1..N /\ j \in 1..N /\ j # N
            BY <1>10, <3>4
        <3>6. Place(k, N) \in 1..taken /\ Place(l, j) \in 1..taken /\ s = c[Place(l, j)]
            BY <1>3, <3>3, <3>4
        <3>7. c[Place(k, N)] = c[Place(l, j)]
            BY <3>1, <3>6
        <3>8. N = j
            BY <1>9, <3>4, <3>5, <3>6, <3>7
        <3> QED BY <3>5, <3>8
    <2> QED BY <2>1, <2>2, <2>3 DEF NamesOnce
<1>13. NamedBy(hdr) \subseteq {c[i] : i \in 1..taken}
    <2>1. ASSUME NEW s \in NextSectors(hdr) PROVE s \in {c[i] : i \in 1..taken}
        <3>1. PICK k \in 1..(n - 1) : s = c[Place(k, N)]
            BY <1>11
        <3>2. k \in 1..n /\ k < n
            BY <1>2
        <3> QED BY <1>3, <3>1, <3>2
    <2>2. ASSUME NEW s \in DataSectors(hdr) PROVE s \in {c[i] : i \in 1..taken}
        <3>1. PICK l \in 1..Len(hdr) : \E j \in 1..Len(hdr[l].data) : s = hdr[l].data[j]
            BY <1>7, DataSectorsAre
        <3>2. PICK j \in 1..Len(hdr[l].data) : s = hdr[l].data[j]
            BY <3>1
        <3>3. l \in 1..n
            BY <1>2
        <3>4. Place(l, j) \in 1..taken /\ s = c[Place(l, j)]
            BY <1>3, <3>2, <3>3
        <3> QED BY <3>4
    <2> QED BY <2>1, <2>2 DEF NamedBy
<1>14. {c[i] : i \in 1..taken} \subseteq NamedBy(hdr)
    <2> SUFFICES ASSUME NEW i \in 1..taken PROVE c[i] \in NamedBy(hdr)
        OBVIOUS
    <2> DEFINE k == ((i - 1) \div N) + 1
               j == ((i - 1) % N) + 1
    <2>1. N \in Nat \ {0} /\ i - 1 \in Nat /\ i \in Nat
        BY <1>2, <1>4 DEF N
    <2>2. (i - 1) \div N \in Nat /\ ((i - 1) \div N) * N <= i - 1
          /\ i - 1 < ((i - 1) \div N) * N + N
          /\ (i - 1) % N = (i - 1) - ((i - 1) \div N) * N
        BY <2>1, DivIs
    <2> DEFINE p == ((i - 1) \div N) * N
    <2>3. p \in Nat
        BY <2>1, <2>2, ProductNat
    <2>4. j = i - p /\ j \in 1..N /\ k \in Nat \ {0} /\ (k - 1) * N = p
        <3> HIDE DEF p
        <3>1. (i - 1) % N = (i - 1) - p /\ p <= i - 1 /\ i - 1 < p + N
            BY <2>2 DEF p
        <3>2. j = i - p /\ j \in 1..N
            BY <2>1, <2>3, <3>1
        <3>3. k \in Nat \ {0} /\ k - 1 = (i - 1) \div N
            BY <2>2
        <3> QED BY <3>2, <3>3 DEF p
    <2> HIDE DEF k, j, p
    <2>5. Place(k, j) = i
        BY <2>1, <2>3, <2>4 DEF Place, N
    <2>6. q = (n - 1) * NumDirect /\ (n - 1) * N = q + (n - 1) /\ n - 1 \in Nat
        BY <1>2, <1>4 DEF q, N
    <2>7. k <= n
        <3> SUFFICES ASSUME n <= k - 1 PROVE FALSE
            BY <1>2, <2>4
        <3>1. n * N <= (k - 1) * N
            BY <1>2, <2>1, <2>4, ProductMono
        <3>2. n * N = (n - 1) * N + N
            BY <1>2, <2>1
        <3>3. p < i /\ i <= taken /\ taken = size + n - 1
            BY <1>2, <2>1, <2>3, <2>4 DEF taken
        <3>4. size - q <= NumDirect /\ N = NumDirect + 1
            BY <1>4 DEF N
        <3> HIDE DEF n
        <3> QED BY <1>2, <1>4, <2>1, <2>3, <2>4, <2>6, <3>1, <3>2, <3>3, <3>4
    <2>8. k \in 1..n
        BY <1>2, <2>4, <2>7
    <2>9. CASE j \in DataOf(k)
        <3>1. hdr[k].data[j] = c[i] /\ k \in 1..Len(hdr)
            BY <1>2, <1>3, <2>5, <2>8, <2>9
        <3>2. hdr[k].data[j] \in DataSectors(hdr)
            BY <1>7, <2>9, <3>1, DataSectorIn
        <3> QED BY <3>1, <3>2 DEF NamedBy
    <2>10. CASE j \notin DataOf(k)
        <3>1. CASE k < n
            <4>1. Len(hdr[k].data) = NumDirect
                BY <1>3, <2>8, <3>1
            <4>2. j = N
                BY <1>4, <2>4, <2>10, <4>1 DEF N
            <4>3. k \in 1..(n - 1) /\ c[i] = c[Place(k, N)]
                BY <1>2, <2>5, <2>8, <3>1, <4>2
            <4> QED BY <1>11, <4>3 DEF NamedBy
        <3>2. CASE k = n
            <4>1. Len(hdr[k].data) = size - q
                BY <1>3, <1>2, <2>8, <3>2
            <4>2. p = q + (n - 1)
                BY <2>4, <2>6, <3>2
            <4>3. j <= size - q
                BY <1>2, <1>4, <2>1, <2>3, <2>4, <4>2 DEF taken
            <4> QED BY <1>4, <2>1, <2>4, <2>10, <4>1, <4>3
        <3> QED BY <1>2, <2>8, <3>1, <3>2
    <2> QED BY <2>9, <2>10
<1>15. a.map = map \cup NamedBy(hdr) /\ NamedBy(hdr) \cap map = {}
    <2>1. NamedBy(hdr) = {c[i] : i \in 1..taken}
        BY <1>13, <1>14
    <2> QED BY <1>2, <1>6, <2>1
<1> QED BY <1>2, <1>7, <1>8, <1>12, <1>15 DEF hdr, n

-----------------------------------------------------------------------------
(* The headers of a file on the disk                                       *)

HeadersTyped(d) == \A s \in Sector : IsHeader(d, s) => d[s].hdr \in HeaderRec

\* c are the sectors of the headers of a file on disk d.
IsChain(d, c) ==
    /\ c \in Seq(Sector) /\ c # <<>>
    /\ \A k \in 1..Len(c) :
        /\ IsHeader(d, c[k])
        /\ d[c[k]].hdr.next = IF k < Len(c) THEN c[k + 1] ELSE NoSector

SectorOrNone == Sector \cup {NoSector}

\* -1 is no sector.
LEMMA NoSectorIsNone == NoSector \notin Sector
    BY SectorsAreFinite DEF NoSector

\* A sector before a sequence of sectors.
LEMMA ConsIs ==
    ASSUME NEW h \in Sector, NEW q \in Seq(Sector)
    PROVE  /\ <<h>> \o q \in Seq(Sector)
           /\ Len(<<h>> \o q) = Len(q) + 1
           /\ (<<h>> \o q)[1] = h
           /\ \A k \in 1..Len(q) : (<<h>> \o q)[k + 1] = q[k]
    OBVIOUS

\* The next header, or none.
LEMMA NextHeaderIs ==
    ASSUME NEW d, HeadersTyped(d), NEW h
    PROVE  /\ NextHeader(d, h) \in SectorOrNone
           /\ IsHeader(d, h) => NextHeader(d, h) = d[h].hdr.next
<1>1. IsHeader(d, h) => h \in Sector
    BY DEF IsHeader, IsSector
<1>2. IsHeader(d, h) => d[h].hdr.next \in SectorOrNone
    BY <1>1 DEF HeadersTyped, HeaderRec, SectorOrNone
<1> QED BY <1>2 DEF NextHeader, SectorOrNone

\* A file has at least one header.
LEMMA MaxHeadersIs == MaxHeaders \in Nat \ {0}
    BY NumHeadersIs, FileHeaderAssumption DEF MaxHeaders

\* The function by which HeaderChain is defined.
IsFrom(f, d) ==
    f = [n \in 0..(MaxHeaders + 1) |->
            [h \in SectorOrNone |->
                IF n = 0 \/ h = NoSector THEN <<>> ELSE <<h>> \o f[n - 1][NextHeader(d, h)]]]
From(d) == CHOOSE f : IsFrom(f, d)

\* HeaderChain by its recursive function, and what that function gives.
LEMMA HeaderChainIsFrom ==
    ASSUME NEW d, NEW s PROVE HeaderChain(d, s) = From(d)[MaxHeaders + 1][s]
    BY DEF HeaderChain, From, IsFrom, SectorOrNone

\* HeaderChain's function, one header on.
LEMMA FromIs ==
    ASSUME NEW d, HeadersTyped(d)
    PROVE  \A n \in 0..(MaxHeaders + 1) : \A h \in SectorOrNone :
            /\ From(d)[n][h] \in Seq(Sector)
            /\ From(d)[n][h] = IF n = 0 \/ h = NoSector THEN <<>>
                               ELSE <<h>> \o From(d)[n - 1][NextHeader(d, h)]
<1> DEFINE M == MaxHeaders + 1
           S == [SectorOrNone -> Seq(Sector)]
           x == [h \in SectorOrNone |-> <<>>]
           r(m) == [h \in SectorOrNone |->
                      IF h = NoSector THEN <<>> ELSE <<h>> \o m[NextHeader(d, h)]]
           g == [n \in 1..M |-> [m \in S |-> r(m)]]
<1>1. M \in Nat
    BY MaxHeadersIs
<1>2. \A m \in S : r(m) \in S
    <2> TAKE m \in S
    <2>1. ASSUME NEW h \in SectorOrNone, h # NoSector
          PROVE  <<h>> \o m[NextHeader(d, h)] \in Seq(Sector)
        <3>1. h \in Sector /\ m[NextHeader(d, h)] \in Seq(Sector)
            BY <2>1, NextHeaderIs DEF SectorOrNone
        <3> QED BY <3>1, ConsIs
    <2>2. <<>> \in Seq(Sector)
        OBVIOUS
    <2> QED BY <2>1, <2>2
<1>3. g \in [1..M -> [S -> S]]
    <2> HIDE DEF S, r, M
    <2> QED BY <1>2
<1>4. x \in S
    OBVIOUS
<1>5. PICK e \in [0..M -> S] : ByRecursion(e, M, x, g)
    <2> HIDE DEF g, S, x, M
    <2> QED BY <1>1, <1>3, <1>4, RecursionExists
<1>6. \A n \in 1..M : e[n] = r(e[n - 1])
    <2> TAKE n \in 1..M
    <2>1. n - 1 \in 0..M
        BY <1>1
    <2> HIDE DEF S, M, r
    <2>2. e[n - 1] \in S
        BY <2>1
    <2>3. e[n] = g[n][e[n - 1]]
        BY <1>5 DEF ByRecursion
    <2> QED BY <2>2, <2>3
<1>7. IsFrom(e, d)
    <2> DEFINE b(n) == [h \in SectorOrNone |->
                IF n = 0 \/ h = NoSector THEN <<>> ELSE <<h>> \o e[n - 1][NextHeader(d, h)]]
    <2>1. DOMAIN e = 0..M
        BY <1>5
    <2>2. ASSUME NEW n \in 0..M PROVE e[n] = b(n)
        <3>1. CASE n = 0
            BY <1>5, <3>1 DEF ByRecursion
        <3>2. CASE n # 0
            <4>1. n \in 1..M
                BY <1>1, <3>2
            <4>2. e[n] = r(e[n - 1])
                BY <1>6, <4>1
            <4>3. r(e[n - 1]) = b(n)
                BY <3>2
            <4> QED BY <4>2, <4>3
        <3> QED BY <3>1, <3>2
    <2> HIDE DEF b, M
    <2>3. e = [n \in 0..M |-> b(n)]
        BY <1>5, <2>1, <2>2
    <2> QED BY <2>3 DEF IsFrom, b, M
<1>8. IsFrom(From(d), d)
    BY <1>7 DEF From
<1> DEFINE f == From(d)
<1> HIDE DEF f
<1>9. \A n \in 0..M : \A h \in SectorOrNone :
        f[n][h] = IF n = 0 \/ h = NoSector THEN <<>> ELSE <<h>> \o f[n - 1][NextHeader(d, h)]
    <2> DEFINE b(n, h) == IF n = 0 \/ h = NoSector THEN <<>>
                          ELSE <<h>> \o f[n - 1][NextHeader(d, h)]
    <2>1. f = [n \in 0..M |-> [h \in SectorOrNone |-> b(n, h)]]
        BY <1>8 DEF IsFrom, f
    <2> HIDE DEF b, M
    <2>2. \A n \in 0..M : \A h \in SectorOrNone : f[n][h] = b(n, h)
        BY <2>1
    <2> QED BY <2>2 DEF b
<1> DEFINE T == {n \in 0..M : \E h \in SectorOrNone : f[n][h] \notin Seq(Sector)}
<1>10. T = {}
    <2> SUFFICES ASSUME T # {} PROVE FALSE
        OBVIOUS
    <2>1. PICK n \in T : \A l \in T : n <= l
        <3>1. T \subseteq Nat
            BY <1>1
        <3> HIDE DEF T
        <3> QED BY <3>1, LeastNumber
    <2>2. PICK h \in SectorOrNone : f[n][h] \notin Seq(Sector)
        OBVIOUS
    <2>3. n \in 0..M /\ n \in Nat
        BY <1>1
    <2>4. <<>> \in Seq(Sector)
        OBVIOUS
    <2>5. n # 0 /\ h # NoSector
        BY <1>9, <2>2, <2>3, <2>4
    <2>6. n - 1 \in 0..M /\ ~(n <= n - 1)
        BY <1>1, <2>3, <2>5
    <2>7. n - 1 \notin T
        BY <2>1, <2>6
    <2>8. NextHeader(d, h) \in SectorOrNone
        BY NextHeaderIs
    <2>9. f[n - 1][NextHeader(d, h)] \in Seq(Sector)
        BY <2>6, <2>7, <2>8
    <2>10. h \in Sector
        BY <2>5 DEF SectorOrNone
    <2>11. <<h>> \o f[n - 1][NextHeader(d, h)] \in Seq(Sector)
        BY <2>9, <2>10, ConsIs
    <2> QED BY <1>9, <2>2, <2>3, <2>5, <2>11
<1>11. \A n \in 0..M : \A h \in SectorOrNone : f[n][h] \in Seq(Sector)
    BY <1>10
<1> QED BY <1>9, <1>11 DEF f

\* A file that can be fetched is a chain of headers.
LEMMA ChainFetched ==
    ASSUME NEW d, HeadersTyped(d), NEW s \in Sector, HasHeaders(d, s)
    PROVE  /\ IsChain(d, HeaderChain(d, s)) /\ HeaderChain(d, s)[1] = s
           /\ Len(HeaderChain(d, s)) <= MaxHeaders
<1> DEFINE F(n, h) == From(d)[n][h]
           IsGood(q, h) == IsChain(d, q) /\ q[1] = h
           Short(n, h) == Len(F(n, h)) < n /\ \A k \in 1..Len(F(n, h)) : IsHeader(d, F(n, h)[k])
           T == {n \in 0..(MaxHeaders + 1) : \E h \in Sector : Short(n, h) /\ ~IsGood(F(n, h), h)}
<1>1. MaxHeaders \in Nat
    BY MaxHeadersIs
<1>2. \A n \in 0..(MaxHeaders + 1) : \A h \in SectorOrNone :
         /\ F(n, h) \in Seq(Sector)
         /\ n = 0 \/ h = NoSector => F(n, h) = <<>>
         /\ n # 0 /\ h # NoSector => F(n, h) = <<h>> \o F(n - 1, NextHeader(d, h))
    BY FromIs
<1> HIDE DEF F
<1>3. T = {}
    <2> SUFFICES ASSUME T # {} PROVE FALSE
        OBVIOUS
    <2>1. PICK n \in T : \A l \in T : n <= l
        <3>1. T \subseteq Nat
            BY <1>1
        <3> HIDE DEF T
        <3> QED BY <3>1, LeastNumber
    <2>2. PICK h \in Sector : Short(n, h) /\ ~IsGood(F(n, h), h)
        OBVIOUS
    <2>3. n \in 0..(MaxHeaders + 1) /\ n \in Nat /\ h \in SectorOrNone /\ h # NoSector
        BY <1>1, NoSectorIsNone DEF SectorOrNone
    <2>4. F(n, h) \in Seq(Sector) /\ Len(F(n, h)) \in Nat
        BY <1>2, <2>3, LenProperties
    <2>5. n # 0
        BY <2>2, <2>4
    <2>6. n - 1 \in 0..(MaxHeaders + 1) /\ ~(n <= n - 1) /\ n - 1 \in Nat
        BY <1>1, <2>3, <2>5
    <2>7. n - 1 \notin T
        BY <2>1, <2>6
    <2> DEFINE t == NextHeader(d, h)
               q == F(n - 1, t)
    <2>8. t \in SectorOrNone
        BY NextHeaderIs
    <2>9. q \in Seq(Sector) /\ F(n, h) = <<h>> \o q /\ Len(q) \in Nat
        <3>1. q \in Seq(Sector)
            BY <1>2, <2>6, <2>8
        <3> QED BY <1>2, <2>3, <2>5, <3>1, LenProperties
    <2> HIDE DEF q
    <2>10. /\ Len(F(n, h)) = Len(q) + 1 /\ F(n, h)[1] = h
           /\ \A k \in 1..Len(q) : F(n, h)[k + 1] = q[k]
        BY <2>9, ConsIs
    <2>11. IsHeader(d, h) /\ d[h].hdr.next = t
        <3>1. 1 \in 1..Len(F(n, h))
            BY <2>9, <2>10
        <3>2. IsHeader(d, h)
            BY <2>2, <2>10, <3>1
        <3> QED BY <3>2, NextHeaderIs
    <2> DEFINE c == F(n, h)
    <2>12. c \in Seq(Sector) /\ c # <<>>
        <3>1. Len(c) # 0
            BY <2>9, <2>10
        <3> QED BY <2>4, <3>1
    <2>13. CASE t = NoSector
        <3>1. q = <<>>
            BY <1>2, <2>6, <2>8, <2>13 DEF q
        <3>2. Len(c) = 1 /\ c[1] = h
            BY <2>10, <3>1
        <3>3. IsChain(d, c)
            <4> HIDE DEF c, t
            <4> QED BY <2>11, <2>12, <2>13, <3>2 DEF IsChain
        <3> QED BY <2>2, <3>2, <3>3
    <2>14. CASE t # NoSector
        <3>1. t \in Sector
            BY <2>8, <2>14 DEF SectorOrNone
        <3>2. Short(n - 1, t)
            <4>1. Len(q) < n - 1
                BY <2>2, <2>3, <2>9, <2>10
            <4>2. ASSUME NEW k \in 1..Len(q) PROVE IsHeader(d, q[k])
                <5>1. k + 1 \in 1..Len(c) /\ c[k + 1] = q[k]
                    BY <2>9, <2>10
                <5> QED BY <2>2, <5>1
            <4> QED BY <4>1, <4>2 DEF q
        <3>3. IsGood(q, t)
            <4>1. ~(\E u \in Sector : Short(n - 1, u) /\ ~IsGood(F(n - 1, u), u))
                BY <2>6, <2>7
            <4> HIDE DEF IsGood, Short
            <4> QED BY <3>1, <3>2, <4>1 DEF q
        <3>4. ASSUME NEW k \in 1..Len(c)
              PROVE  /\ IsHeader(d, c[k])
                     /\ d[c[k]].hdr.next = IF k < Len(c) THEN c[k + 1] ELSE NoSector
            <4>0. Len(q) # 0 /\ q[1] = t
                BY <3>3 DEF IsChain
            <4>1. CASE k = 1
                <5>1. c[1] = h /\ 1 \in 1..Len(q) /\ 1 < Len(c)
                    BY <2>9, <2>10, <4>0
                <5>2. c[1 + 1] = q[1]
                    BY <2>10, <5>1
                <5> HIDE DEF c, t
                <5> QED BY <2>11, <4>0, <4>1, <5>1, <5>2
            <4>2. CASE k # 1
                <5>1. k - 1 \in 1..Len(q)
                    BY <2>9, <2>10, <4>2
                <5>2. c[k] = q[k - 1]
                    <6>1. c[(k - 1) + 1] = q[k - 1]
                        BY <2>10, <5>1
                    <6>2. (k - 1) + 1 = k
                        BY <2>9, <2>10
                    <6> HIDE DEF c
                    <6> QED BY <6>1, <6>2
                <5>3. IsHeader(d, q[k - 1])
                      /\ d[q[k - 1]].hdr.next = IF k - 1 < Len(q) THEN q[(k - 1) + 1] ELSE NoSector
                    BY <3>3, <5>1 DEF IsChain
                <5>4. CASE k < Len(c)
                    <6>1. k \in 1..Len(q) /\ k - 1 < Len(q) /\ (k - 1) + 1 = k
                        BY <2>9, <2>10, <5>4
                    <6>2. c[k + 1] = q[k]
                        BY <2>10, <6>1
                    <6> HIDE DEF c
                    <6> QED BY <5>2, <5>3, <5>4, <6>1, <6>2
                <5>5. CASE ~(k < Len(c))
                    <6>1. ~(k - 1 < Len(q))
                        BY <2>9, <2>10, <5>5
                    <6> HIDE DEF c
                    <6> QED BY <5>2, <5>3, <5>5, <6>1
                <5> QED BY <5>4, <5>5
            <4> QED BY <4>1, <4>2
        <3>5. IsChain(d, c)
            <4> HIDE DEF c
            <4> QED BY <2>12, <3>4 DEF IsChain
        <3> QED BY <2>2, <2>10, <3>5
    <2> QED BY <2>13, <2>14
<1> DEFINE m == MaxHeaders + 1
           c == F(m, s)
<1>4. c = HeaderChain(d, s)
    BY HeaderChainIsFrom DEF F
<1>5. m \in 0..(MaxHeaders + 1) /\ s \in SectorOrNone
    BY <1>1 DEF SectorOrNone
<1>6. c \in Seq(Sector) /\ Len(c) \in Nat /\ DOMAIN c = 1..Len(c)
    BY <1>2, <1>5, LenProperties
<1>7. Len(c) <= MaxHeaders /\ \A k \in 1..Len(c) : IsHeader(d, c[k])
    BY <1>4, <1>6 DEF HasHeaders
<1>8. Short(m, s)
    BY <1>1, <1>6, <1>7
<1>9. IsGood(c, s)
    <2>1. ~(\E u \in Sector : Short(m, u) /\ ~IsGood(F(m, u), u))
        BY <1>3, <1>5
    <2> HIDE DEF IsGood, Short, m
    <2> QED BY <1>8, <2>1
<1> QED BY <1>4, <1>7, <1>9

\* And a chain of headers can be fetched.
LEMMA ChainIsFetched ==
    ASSUME NEW d, HeadersTyped(d), NEW c, IsChain(d, c), Len(c) <= MaxHeaders
    PROVE  HeaderChain(d, c[1]) = c /\ HasHeaders(d, c[1])
<1> DEFINE F(n, h) == From(d)[n][h]
           L == Len(c)
           M == MaxHeaders + 1
           \* The last j + 1 headers, followed for n steps.
           Follows(j) == \A n \in (j + 1)..M :
                            /\ Len(F(n, c[L - j])) = j + 1
                            /\ \A i \in 1..(j + 1) : F(n, c[L - j])[i] = c[(L - j) + i - 1]
           T == {j \in 0..(L - 1) : ~Follows(j)}
<1>1. MaxHeaders \in Nat /\ M \in Nat
    BY MaxHeadersIs
<1>2. \A n \in 0..M : \A h \in SectorOrNone :
         /\ F(n, h) \in Seq(Sector)
         /\ n = 0 \/ h = NoSector => F(n, h) = <<>>
         /\ n # 0 /\ h # NoSector => F(n, h) = <<h>> \o F(n - 1, NextHeader(d, h))
    BY FromIs
<1>3. c \in Seq(Sector) /\ c # <<>> /\ L \in Nat \ {0} /\ DOMAIN c = 1..L
    <2>1. c \in Seq(Sector) /\ c # <<>>
        BY DEF IsChain
    <2> QED BY <2>1, EmptySeq, LenProperties
<1>4. \A k \in 1..L : /\ c[k] \in Sector /\ c[k] \in SectorOrNone /\ c[k] # NoSector
                      /\ IsHeader(d, c[k])
                      /\ NextHeader(d, c[k]) = IF k < L THEN c[k + 1] ELSE NoSector
    <2> TAKE k \in 1..L
    <2>1. c[k] \in Sector
        BY <1>3, ElementOfSeq
    <2>2. IsHeader(d, c[k]) /\ d[c[k]].hdr.next = IF k < L THEN c[k + 1] ELSE NoSector
        BY DEF IsChain
    <2>3. NextHeader(d, c[k]) = d[c[k]].hdr.next
        BY <2>2, NextHeaderIs
    <2> QED BY <2>1, <2>2, <2>3, NoSectorIsNone DEF SectorOrNone
<1> HIDE DEF F, L, M
<1>5. T = {}
    <2> SUFFICES ASSUME T # {} PROVE FALSE
        OBVIOUS
    <2>1. PICK j \in T : \A l \in T : j <= l
        <3>1. T \subseteq Nat
            BY <1>3
        <3> HIDE DEF T
        <3> QED BY <3>1, LeastNumber
    <2>2. j \in 0..(L - 1) /\ j \in Nat /\ ~Follows(j)
        BY <1>3
    <2> DEFINE k == L - j
    <2>3. k \in 1..L /\ k \in Nat
        BY <1>3, <2>2
    <2>4. PICK n \in (j + 1)..M : ~(/\ Len(F(n, c[k])) = j + 1
                                    /\ \A i \in 1..(j + 1) : F(n, c[k])[i] = c[k + i - 1])
        BY <2>2
    <2>5. n \in 0..M /\ n # 0 /\ n - 1 \in 0..M /\ n - 1 \in Nat
        BY <1>1, <2>2, <2>4
    <2> HIDE DEF k
    <2> DEFINE h == c[k]
               q == F(n - 1, NextHeader(d, h))
    <2>6. h \in SectorOrNone /\ h \in Sector /\ h # NoSector
        BY <1>4, <2>3
    <2>7. F(n, h) = <<h>> \o q /\ q \in Seq(Sector)
        <3>1. NextHeader(d, h) \in SectorOrNone
            BY NextHeaderIs
        <3> QED BY <1>2, <2>5, <2>6, <3>1
    <2>8. /\ Len(F(n, h)) = Len(q) + 1 /\ F(n, h)[1] = h
          /\ \A i \in 1..Len(q) : F(n, h)[i + 1] = q[i]
        <3> HIDE DEF q, h
        <3> QED BY <2>6, <2>7, ConsIs
    <2>9. CASE j = 0
        <3>1. k = L /\ ~(k < L)
            BY <1>3, <2>9 DEF k
        <3>2. NextHeader(d, h) = NoSector
            BY <1>4, <2>3, <3>1
        <3>3. q = <<>>
            BY <1>2, <2>5, <3>2 DEF SectorOrNone
        <3>4. Len(q) = 0
            BY <3>3
        <3>5. Len(F(n, h)) = j + 1 /\ k + 1 - 1 = k /\ \A i \in 1..(j + 1) : i = 1
            BY <2>3, <2>8, <2>9, <3>4
        <3> HIDE DEF q
        <3> QED BY <2>4, <2>8, <3>5
    <2>10. CASE j # 0
        <3>1. j - 1 \in 0..(L - 1) /\ ~(j <= j - 1) /\ k < L /\ L - (j - 1) = k + 1
            BY <1>3, <2>2, <2>10 DEF k
        <3>2. Follows(j - 1)
            <4> HIDE DEF Follows
            <4> QED BY <2>1, <3>1
        <3>3. NextHeader(d, h) = c[k + 1]
            BY <1>4, <2>3, <3>1
        <3>4. n - 1 \in ((j - 1) + 1)..M
            BY <1>1, <2>2, <2>4
        <3>5. Len(q) = (j - 1) + 1
              /\ \A i \in 1..((j - 1) + 1) : q[i] = c[(k + 1) + i - 1]
            BY <3>1, <3>2, <3>3, <3>4
        <3> HIDE DEF q
        <3>6. Len(F(n, h)) = j + 1
            BY <2>2, <2>8, <3>5
        <3>7. ASSUME NEW i \in 1..(j + 1) PROVE F(n, h)[i] = c[k + i - 1]
            <4>1. CASE i = 1
                <5>1. k + i - 1 = k
                    BY <2>3, <4>1
                <5> QED BY <2>8, <4>1, <5>1
            <4>2. CASE i # 1
                <5>1. i - 1 \in 1..j /\ (j - 1) + 1 = j /\ (i - 1) + 1 = i
                      /\ (k + 1) + (i - 1) - 1 = k + i - 1
                    BY <2>2, <2>3, <4>2
                <5>2. F(n, h)[(i - 1) + 1] = q[i - 1] /\ q[i - 1] = c[(k + 1) + (i - 1) - 1]
                    BY <2>8, <3>5, <5>1
                <5> QED BY <5>1, <5>2
            <4> QED BY <4>1, <4>2
        <3> QED BY <2>4, <3>6, <3>7
    <2> QED BY <2>9, <2>10
<1>6. Len(F(M, c[1])) = L /\ \A i \in 1..L : F(M, c[1])[i] = c[i]
    <2>1. L - 1 \in 0..(L - 1) /\ (L - 1) + 1 = L /\ L - (L - 1) = 1
          /\ \A i \in 1..L : 1 + i - 1 = i
        BY <1>3
    <2>2. Follows(L - 1)
        <3> HIDE DEF Follows
        <3> QED BY <1>5, <2>1
    <2>3. M \in L..M
        BY <1>1, <1>3 DEF M, L
    <2> QED BY <2>1, <2>2, <2>3
<1>7. F(M, c[1]) = c
    <2>1. c[1] \in SectorOrNone /\ M \in 0..M
        BY <1>1, <1>3, <1>4
    <2>2. F(M, c[1]) \in Seq(Sector)
        BY <1>2, <2>1
    <2> DEFINE e == F(M, c[1])
    <2>3. e \in Seq(Sector) /\ Len(e) = Len(c) /\ \A i \in 1..Len(e) : e[i] = c[i]
        BY <1>6, <2>2 DEF L
    <2> HIDE DEF e
    <2>4. e = c
        BY <1>3, <2>3, SeqEqual
    <2> QED BY <2>4 DEF e
<1>8. HeaderChain(d, c[1]) = c
    BY <1>7, HeaderChainIsFrom DEF F, M
<1> QED BY <1>3, <1>4, <1>8 DEF HasHeaders, L

MapHdr == MapAllocated.hdr
MapAt == HeaderSectors(FreeMapSector, MapHdr)
MapPlace(k) == ByteToSector(MapHdr, k - 1)
RootHdr == RootAllocated.hdr[1]
RootTable == RootHdr.data[1]

\* The sectors that formatting marks, and the others.
SystemSectors == RootAllocated.map
Outside == Sector \ SystemSectors

\* The headers of a file name only other sectors than those.
HeaderOutside(h) ==
    /\ h \in HeaderRec /\ h.next \in Outside \cup {NoSector} /\ ToSet(h.data) \subseteq Outside
    /\ Len(h.data) <= NumDirect
    /\ h.next # NoSector => Len(h.data) = NumDirect

TableOutside(t) == \A n \in DOMAIN t : t[n].sector \in Outside /\ t[n].isDir \in BOOLEAN

FileOutside(hdr) == IsFile(hdr) /\ NamedBy(hdr) \subseteq Outside

GoodBlock(b) ==
    \/ b \in [kind : {"header"}, hdr : HeaderRec] /\ HeaderOutside(b.hdr)
    \/ b \in [kind : {"data"}, value : Values] \/ b = Unwritten
    \/ b.kind = "table" /\ TableOutside(b.table)

\* The part of the map that one of its sectors holds.
PartOf(k) == {s \in Sector : s \div MapBits = k - 1}

\* The map's file and the root are where they were when the disk was formatted.
SystemOn(d) ==
    /\ DOMAIN d = Sector
    /\ \A k \in 1..Len(MapHdr) : d[MapAt[k]] = Header(MapHdr[k])
    /\ d[DirectorySector] = Header(RootHdr)
    /\ \A k \in 1..MapSectors :
        /\ d[MapPlace(k)] \in [kind : {"map"}, marks : SUBSET PartOf(k)]
        /\ SystemSectors \cap PartOf(k) \subseteq d[MapPlace(k)].marks
    /\ d[RootTable].kind = "table" /\ TableOutside(d[RootTable].table)
    /\ \A s \in Outside : GoodBlock(d[s])

OpFields == {"name", "path", "sector", "hdr", "table", "map", "step", "k"}
OpOK(o, f) ==
    /\ DOMAIN o = OpFields
    /\ o.path \in Paths /\ o.sector \in Outside
    /\ o.map \subseteq Sector /\ SystemSectors \subseteq o.map
    /\ TableOutside(o.table)
    /\ o.step \in {"header", "table", "newtable", "map", "open", "data"}
    /\ o.step = "header" => FileOutside(o.hdr) /\ o.k \in 1..Len(o.hdr)
    /\ o.step = "map" => o.k \in 1..MapSectors
    /\ o.step = "data" => f.kind = "open"

FdOK(f) ==
    /\ DOMAIN f = {"kind", "sector", "hdr", "pos"}
    /\ f.kind = "open" /\ f.sector \in Outside
    /\ FileOutside(f.hdr) /\ f.pos \in 0..FileLength(f.hdr)

SystemInv ==
    /\ SystemOn(disk)
    /\ phase \in {"main", "user", "garbage", "freed"}
    /\ fd \in {Null, Deleted} \/ FdOK(fd)
    /\ op = NoOp \/ OpOK(op, fd)
    /\ cuts \in 0..MaxCuts

\* FetchFrom reads the headers of a chain.
LEMMA FetchFromIs ==
    ASSUME NEW d, HeadersTyped(d), NEW c, IsChain(d, c), HeaderChain(d, c[1]) = c
    PROVE  /\ FetchFrom(d, c[1]) \in Seq(HeaderRec)
           /\ Len(FetchFrom(d, c[1])) = Len(c)
           /\ \A k \in 1..Len(c) : FetchFrom(d, c[1])[k] = d[c[k]].hdr
<1>1. c \in Seq(Sector) /\ \A k \in 1..Len(c) : IsHeader(d, c[k])
    BY DEF IsChain
<1>2. Len(c) \in Nat /\ DOMAIN c = 1..Len(c) /\ \A k \in 1..Len(c) : c[k] \in Sector
    BY <1>1, LenProperties, ElementOfSeq
<1>3. \A k \in 1..Len(c) : d[c[k]].hdr \in HeaderRec
    BY <1>1, <1>2 DEF HeadersTyped
<1> DEFINE f == [k \in 1..Len(c) |-> d[c[k]].hdr]
<1>4. FetchFrom(d, c[1]) = f
    BY <1>2 DEF FetchFrom
<1>5. f \in [1..Len(c) -> HeaderRec]
    BY <1>3
<1>6. \A k \in 1..Len(c) : f[k] = d[c[k]].hdr
    OBVIOUS
<1> HIDE DEF f
<1>7. f \in Seq(HeaderRec) /\ Len(f) = Len(c)
    BY <1>2, <1>5, FunctionIsSeq
<1> QED BY <1>4, <1>6, <1>7

-----------------------------------------------------------------------------
(* Formatting                                                              *)

\* The map has room for every sector.
LEMMA MapSectorsIs ==
    /\ MapSectors \in Nat \ {0}
    /\ MapSectors <= NumSectors
    /\ \A s \in Sector : (s \div MapBits) + 1 \in 1..MapSectors
<1>1. NumSectors \in Nat \ {0} /\ MapBits \in Nat \ {0}
    BY FileHeaderAssumption, FileSystemAssumption
<1> DEFINE a == NumSectors + MapBits - 1
           m == a \div MapBits
<1>2. a \in Nat /\ m \in Nat /\ m * MapBits <= a /\ a < m * MapBits + MapBits
    <2>1. a \in Nat
        BY <1>1
    <2> HIDE DEF a
    <2> QED BY <1>1, <2>1, DivIs
<1>3. m = MapSectors
    BY DEF MapSectors
<1> HIDE DEF m
<1>4. m * MapBits \in Nat
    BY <1>1, <1>2, ProductNat
<1>5. m # 0
    BY <1>1, <1>2
<1>6. m <= NumSectors
    <2> SUFFICES ASSUME NumSectors + 1 <= m PROVE FALSE
        BY <1>1, <1>2
    <2>1. (NumSectors + 1) * MapBits <= m * MapBits
        BY <1>1, <1>2, ProductMono
    <2>2. NumSectors * 1 <= NumSectors * MapBits
        BY <1>1
    <2>3. (NumSectors + 1) * MapBits = NumSectors * MapBits + MapBits
        BY <1>1
    <2>4. NumSectors * MapBits \in Nat /\ NumSectors * 1 = NumSectors
        BY <1>1, ProductNat
    <2> QED BY <1>1, <1>2, <1>4, <2>1, <2>2, <2>3, <2>4
<1>7. ASSUME NEW s \in Sector PROVE (s \div MapBits) + 1 \in 1..m
    <2>1. s \in Nat /\ s <= NumSectors - 1
        BY <1>1 DEF Sector
    <2> DEFINE q == s \div MapBits
    <2>2. q \in Nat /\ q * MapBits <= s
        BY <1>1, <2>1, DivIs
    <2> HIDE DEF q
    <2>3. ~(m <= q)
        <3> SUFFICES ASSUME m <= q PROVE FALSE
            OBVIOUS
        <3>1. m * MapBits <= q * MapBits
            BY <1>1, <1>2, <2>2, ProductMono
        <3>2. q * MapBits \in Nat
            BY <1>1, <2>2, ProductNat
        <3> QED BY <1>1, <1>2, <1>4, <2>1, <2>2, <3>1, <3>2
    <2> QED BY <1>2, <2>2, <2>3 DEF q
<1> QED BY <1>2, <1>3, <1>5, <1>6, <1>7

\* A longer file has no fewer headers.
LEMMA NumHeadersMono ==
    ASSUME NEW a \in Nat, NEW b \in Nat, a <= b
    PROVE  NumHeaders(a) <= NumHeaders(b)
<1>1. NumDirect \in Nat \ {0}
    BY FileHeaderAssumption
<1> DEFINE m == NumHeaders(a)
           n == NumHeaders(b)
<1>2. m \in Nat \ {0} /\ n \in Nat \ {0}
    BY NumHeadersIs
<1>3. CASE a = 0
    BY <1>2, <1>3 DEF NumHeaders
<1>4. CASE a # 0
    <2> DEFINE e == a + NumDirect - 1
               f == b + NumDirect - 1
    <2>1. e \in Nat /\ f \in Nat /\ e <= f /\ m = e \div NumDirect /\ n = f \div NumDirect
        BY <1>1, <1>4 DEF NumHeaders
    <2> HIDE DEF m, n, e, f
    <2>2. m * NumDirect <= e /\ f < n * NumDirect + NumDirect
        BY <1>1, <2>1, DivIs
    <2>3. ~(n + 1 <= m)
        <3> SUFFICES ASSUME n + 1 <= m PROVE FALSE
            OBVIOUS
        <3>1. (n + 1) * NumDirect <= m * NumDirect
            BY <1>1, <1>2, ProductMono
        <3>2. (n + 1) * NumDirect = n * NumDirect + NumDirect
              /\ n * NumDirect \in Nat /\ m * NumDirect \in Nat
            BY <1>1, <1>2, ProductNat
        <3> QED BY <1>1, <2>1, <2>2, <3>1, <3>2
    <2>4. m <= n
        BY <1>2, <2>3
    <2> QED BY <2>4 DEF m, n
<1> QED BY <1>3, <1>4

\* Where the headers of a file are, the first at s.
LEMMA HeaderSectorsAre ==
    ASSUME NEW hdr, IsFile(hdr), NEW s \in Sector
    PROVE  /\ HeaderSectors(s, hdr) \in Seq(Sector)
           /\ Len(HeaderSectors(s, hdr)) = Len(hdr)
           /\ DOMAIN HeaderSectors(s, hdr) = 1..Len(hdr)
           /\ HeaderSectors(s, hdr)[1] = s
           /\ \A k \in 1..Len(hdr) :
                /\ k # 1 => k - 1 \in 1..(Len(hdr) - 1) /\ HeaderSectors(s, hdr)[k] = hdr[k - 1].next
                /\ k < Len(hdr) => HeaderSectors(s, hdr)[k + 1] = hdr[k].next
                /\ HeaderSectors(s, hdr)[k] \in {s} \cup NextSectors(hdr)
<1> DEFINE n == Len(hdr)
           f == [k \in 1..n |-> IF k = 1 THEN s ELSE hdr[k - 1].next]
<1>1. n \in Nat \ {0} /\ \A k \in 1..n : k < n => hdr[k].next \in Sector
    BY FileIs DEF IsFile
<1>2. HeaderSectors(s, hdr) = f
    BY DEF HeaderSectors
<1> HIDE DEF n
<1>3. ASSUME NEW k \in 1..n, k # 1
      PROVE  k - 1 \in 1..(n - 1) /\ k - 1 \in 1..n /\ k - 1 < n
    BY <1>1, <1>3
<1>4. \A k \in 1..n : /\ k # 1 => k - 1 \in 1..(n - 1) /\ f[k] = hdr[k - 1].next
                      /\ k = 1 => f[k] = s
    BY <1>3
<1>5. \A k \in 1..n : f[k] \in Sector
    BY <1>1, <1>3, <1>4
<1>6. f \in [1..n -> Sector]
    BY <1>5
<1> HIDE DEF f
<1>7. f \in Seq(Sector) /\ Len(f) = n
    BY <1>1, <1>6, FunctionIsSeq
<1>8. ASSUME NEW k \in 1..n, k < n PROVE f[k + 1] = hdr[k].next
    <2>1. k + 1 \in 1..n /\ k + 1 # 1 /\ (k + 1) - 1 = k
        BY <1>1, <1>8
    <2> QED BY <1>4, <2>1
<1>9. \A k \in 1..n : f[k] \in {s} \cup NextSectors(hdr)
    BY <1>4 DEF NextSectors, n
<1> QED BY <1>1, <1>2, <1>4, <1>6, <1>7, <1>8, <1>9 DEF n

\* What formatting allocates.
LEMMA FormatIs ==
    /\ IsFile(MapHdr) /\ FileLength(MapHdr) = MapSectors /\ NamesOnce(MapHdr)
    /\ Len(MapHdr) <= MaxHeaders
    /\ RootHdr \in HeaderRec /\ RootHdr.next = NoSector /\ RootHdr.data = <<RootTable>>
    /\ IsFile(<<RootHdr>>) /\ RootAllocated.hdr = <<RootHdr>>
    /\ SystemSectors = {FreeMapSector, DirectorySector, RootTable} \cup NamedBy(MapHdr)
    /\ SystemSectors \subseteq Sector
    /\ FreeMapSector \in Sector /\ DirectorySector \in Sector /\ FreeMapSector # DirectorySector
    /\ {FreeMapSector, DirectorySector} \cap NamedBy(MapHdr) = {}
    /\ RootTable \notin {FreeMapSector, DirectorySector} \cup NamedBy(MapHdr)
<1> DEFINE S0 == {FreeMapSector, DirectorySector}
           a == MapAllocated
           b == RootAllocated
<1>1. MapSectors \in Nat /\ 1 \in Nat
    BY MapSectorsIs
<1>2. a = Allocate(S0, MapSectors) /\ a.ok /\ b = Allocate(a.map, 1) /\ b.ok
    BY FileSystemAssumption DEF MapAllocated, RootAllocated
<1> HIDE DEF S0, a, b
<1>3. /\ IsFile(a.hdr)
      /\ Len(a.hdr) = NumHeaders(MapSectors) /\ FileLength(a.hdr) = MapSectors
      /\ NamesOnce(a.hdr)
      /\ NamedBy(a.hdr) \cap S0 = {}
      /\ a.map = S0 \cup NamedBy(a.hdr)
    BY <1>1, <1>2, AllocateTakesClearSectors
<1>4. /\ IsFile(b.hdr)
      /\ Len(b.hdr) = NumHeaders(1) /\ FileLength(b.hdr) = 1
      /\ NamesOnce(b.hdr)
      /\ NamedBy(b.hdr) \cap a.map = {}
      /\ b.map = a.map \cup NamedBy(b.hdr)
    BY <1>1, <1>2, AllocateTakesClearSectors
<1>5. a.hdr = MapHdr /\ b.hdr[1] = RootHdr /\ b.hdr = RootAllocated.hdr /\ b.map = SystemSectors
    BY DEF a, b, MapHdr, RootHdr, SystemSectors
<1>6. Len(MapHdr) <= MaxHeaders
    <2>1. NumHeaders(MapSectors) <= NumHeaders(NumSectors)
        BY <1>1, MapSectorsIs, NumHeadersMono, FileHeaderAssumption
    <2> QED BY <1>3, <1>5, <2>1 DEF MaxHeaders
<1>7. NumHeaders(1) = 1
    <2>1. NumDirect \in Nat \ {0}
        BY FileHeaderAssumption
    <2> DEFINE m == (1 + NumDirect - 1) \div NumDirect
    <2>2. 1 + NumDirect - 1 = NumDirect
        BY <2>1
    <2>3. NumDirect \div NumDirect = 1
        BY <2>1
    <2> QED BY <2>2, <2>3 DEF NumHeaders
<1>8. Len(b.hdr) = 1 /\ b.hdr \in Seq(HeaderRec) /\ b.hdr = <<RootHdr>>
    <2>1. b.hdr \in Seq(HeaderRec) /\ Len(b.hdr) = 1
        BY <1>4, <1>7 DEF IsFile
    <2>2. b.hdr = <<b.hdr[1]>>
        BY <2>1
    <2> QED BY <1>5, <2>1, <2>2
<1>9. /\ RootHdr \in HeaderRec /\ RootHdr.next = NoSector
      /\ RootHdr.data \in Seq(Sector) /\ Len(RootHdr.data) = 1 /\ RootHdr.data = <<RootTable>>
    <2>1. 1 \in 1..Len(b.hdr) /\ 1 = Len(b.hdr)
        BY <1>8
    <2>2. RootHdr \in HeaderRec /\ RootHdr.data \in Seq(Sector) /\ Len(RootHdr.data) \in Nat
        BY <1>4, <1>5, <2>1, FileIs
    <2>3. RootHdr.next = NoSector
        BY <1>4, <1>5, <2>1 DEF IsFile
    <2>4. FileLength(b.hdr) = (Len(b.hdr) - 1) * NumDirect + Len(b.hdr[Len(b.hdr)].data)
        BY <1>4, FileLengthIs
    <2>5. Len(b.hdr) - 1 = 0 /\ b.hdr[Len(b.hdr)] = RootHdr /\ 0 * NumDirect = 0
        BY <1>5, <1>8, FileHeaderAssumption
    <2>6. FileLength(b.hdr) = 0 + Len(RootHdr.data)
        BY <2>4, <2>5
    <2>7. Len(RootHdr.data) = 1
        <3> DEFINE l == Len(RootHdr.data)
        <3>1. l \in Nat /\ 1 = 0 + l
            BY <1>4, <2>2, <2>6
        <3> HIDE DEF l
        <3>2. l = 1
            BY <3>1
        <3> QED BY <3>2 DEF l
    <2>8. RootHdr.data = <<RootHdr.data[1]>>
        <3> DEFINE r == RootHdr.data
        <3> HIDE DEF r
        <3>1. r \in Seq(Sector) /\ Len(r) = 1
            BY <2>2, <2>7 DEF r
        <3>2. r = <<r[1]>>
            BY <3>1
        <3> QED BY <3>2 DEF r
    <2> QED BY <2>2, <2>3, <2>7, <2>8 DEF RootTable
<1>10. NamedBy(b.hdr) = {RootTable}
    <2>1. NextSectors(b.hdr) = {}
        BY <1>8 DEF NextSectors
    <2>2. ToSet(RootHdr.data) = {RootTable}
        BY <1>9 DEF ToSet
    <2>3. DataSectors(b.hdr) = ToSet(RootHdr.data)
        <3>1. DOMAIN b.hdr = {1}
            BY <1>4, <1>8, FileIs
        <3> QED BY <1>5, <3>1 DEF DataSectors
    <2> QED BY <2>1, <2>2, <2>3 DEF NamedBy
<1>11. SystemSectors = S0 \cup NamedBy(MapHdr) \cup {RootTable}
    BY <1>3, <1>4, <1>5, <1>10
<1>12. FreeMapSector \in Sector /\ DirectorySector \in Sector /\ FreeMapSector # DirectorySector
    BY FileSystemAssumption, FileHeaderAssumption DEF FreeMapSector, DirectorySector, Sector
<1>13. NamedBy(MapHdr) \subseteq Sector
    <2>1. IsFile(MapHdr)
        BY <1>3, <1>5
    <2>2. DataSectors(MapHdr) \subseteq Sector
        BY <2>1, DataSectorsAre
    <2>3. NextSectors(MapHdr) \subseteq Sector
        <3>1. \A k \in 1..(Len(MapHdr) - 1) : k \in 1..Len(MapHdr) /\ k < Len(MapHdr)
            BY <2>1, FileIs
        <3> QED BY <2>1, <3>1 DEF NextSectors, IsFile
    <2> QED BY <2>2, <2>3 DEF NamedBy
<1>14. RootTable \in Sector
    BY <1>9, ElementOfSeq DEF RootTable
<1>15. SystemSectors \subseteq Sector
    BY <1>11, <1>12, <1>13, <1>14 DEF S0
<1>16. RootTable \notin S0 \cup NamedBy(MapHdr)
    BY <1>3, <1>4, <1>5, <1>10
<1> QED BY <1>3, <1>4, <1>5, <1>6, <1>8, <1>9, <1>11, <1>12, <1>15, <1>16 DEF S0

\* Every data sector of a file is at a position of it.
LEMMA DataSectorAt ==
    ASSUME NEW hdr, IsFile(hdr), NEW s \in DataSectors(hdr)
    PROVE  \E i \in 0..(FileLength(hdr) - 1) : s = ByteToSector(hdr, i)
<1> DEFINE n == Len(hdr)
           last == Len(hdr[n].data)
<1>1. PICK k \in 1..n : \E j \in 1..Len(hdr[k].data) : s = hdr[k].data[j]
    BY DataSectorsAre
<1>2. PICK j \in 1..Len(hdr[k].data) : s = hdr[k].data[j]
    BY <1>1
<1>3. n \in Nat \ {0} /\ NumDirect \in Nat \ {0} /\ last \in 0..NumDirect
      /\ Len(hdr[k].data) \in 0..NumDirect
    BY FileIs, FileHeaderAssumption
<1>4. FileLength(hdr) = (n - 1) * NumDirect + last
    BY FileLengthIs
<1> DEFINE i == (k - 1) * NumDirect + (j - 1)
<1>5. k - 1 \in Nat /\ j - 1 \in 0..(NumDirect - 1) /\ k \in Nat /\ j \in Nat
    BY <1>3
<1>6. (k - 1) * NumDirect \in Nat /\ (n - 1) * NumDirect \in Nat
    BY <1>3, <1>5, ProductNat
<1> HIDE DEF n, last
<1>7. i < (n - 1) * NumDirect + last
    <2>1. CASE k = n
        <3>1. j <= last
            BY <1>2, <1>3, <2>1 DEF last
        <3>2. (k - 1) * NumDirect = (n - 1) * NumDirect
            BY <2>1
        <3> DEFINE p == (n - 1) * NumDirect
        <3>3. i = p + (j - 1) /\ p \in Nat
            BY <1>6, <3>2
        <3> HIDE DEF p, i
        <3>4. i < p + last
            BY <1>3, <1>5, <3>1, <3>3
        <3> QED BY <3>4 DEF p
    <2>2. CASE k # n
        <3>1. k \in Nat /\ k <= n - 1 /\ n - 1 \in Nat
            BY <1>3, <1>5, <2>2
        <3>2. k * NumDirect <= (n - 1) * NumDirect
            BY <1>3, <3>1, ProductMono
        <3>3. k * NumDirect = (k - 1) * NumDirect + NumDirect
            BY <1>3, <1>5
        <3> QED BY <1>3, <1>5, <1>6, <3>2, <3>3
    <2> QED BY <2>1, <2>2
<1>8. i \in Nat /\ i \in 0..(FileLength(hdr) - 1)
    <2>1. i \in Nat
        BY <1>5, <1>6
    <2> HIDE DEF i
    <2> QED BY <1>3, <1>4, <1>6, <1>7, <2>1
<1>9. i \div NumDirect = k - 1 /\ i % NumDirect = j - 1
    <2> DEFINE q == i \div NumDirect
    <2>1. q \in Nat /\ q * NumDirect <= i /\ i < q * NumDirect + NumDirect
          /\ i % NumDirect = i - q * NumDirect
        <3> HIDE DEF i
        <3> QED BY <1>3, <1>8, DivIs
    <2>2. q * NumDirect \in Nat
        <3> HIDE DEF q
        <3> QED BY <1>3, <2>1, ProductNat
    <2>3. i = (k - 1) * NumDirect + (j - 1)
        OBVIOUS
    <2> HIDE DEF i, q
    <2>4. ~(q < k - 1)
        <3> SUFFICES ASSUME q < k - 1 PROVE FALSE
            OBVIOUS
        <3>1. q + 1 \in Nat /\ q + 1 <= k - 1
            BY <1>5, <2>1
        <3>2. (q + 1) * NumDirect <= (k - 1) * NumDirect
            BY <1>3, <1>5, <3>1, ProductMono
        <3>3. (q + 1) * NumDirect = q * NumDirect + NumDirect
            BY <1>3, <2>1
        <3> QED BY <1>3, <1>5, <1>6, <2>1, <2>2, <2>3, <3>2, <3>3
    <2>5. ~(k - 1 < q)
        <3> SUFFICES ASSUME k - 1 < q PROVE FALSE
            OBVIOUS
        <3>1. k \in Nat /\ k <= q
            BY <1>5, <2>1
        <3>2. k * NumDirect <= q * NumDirect
            BY <1>3, <2>1, <3>1, ProductMono
        <3>3. k * NumDirect = (k - 1) * NumDirect + NumDirect
            BY <1>3, <1>5
        <3> QED BY <1>3, <1>5, <1>6, <2>1, <2>2, <2>3, <3>2, <3>3
    <2>6. q = k - 1
        BY <1>5, <2>1, <2>4, <2>5
    <2>7. i % NumDirect = j - 1
        BY <1>5, <1>6, <2>1, <2>3, <2>6
    <2> QED BY <2>6, <2>7 DEF q
<1> HIDE DEF i
<1>10. (k - 1) + 1 = k /\ (j - 1) + 1 = j
    BY <1>5
<1>11. ByteToSector(hdr, i) = hdr[k].data[j]
    BY <1>9, <1>10 DEF ByteToSector
<1> QED BY <1>2, <1>8, <1>11

\* Where the system's sectors are.
LEMMA MapAtIs ==
    /\ MapAt \in Seq(Sector) /\ Len(MapAt) = Len(MapHdr) /\ Len(MapHdr) \in Nat \ {0}
    /\ MapAt[1] = FreeMapSector
    /\ \A k \in 1..Len(MapHdr) :
        /\ MapHdr[k] \in HeaderRec /\ Len(MapHdr[k].data) <= NumDirect
        /\ MapHdr[k].next # NoSector => Len(MapHdr[k].data) = NumDirect
        /\ MapHdr[k].next = IF k < Len(MapHdr) THEN MapAt[k + 1] ELSE NoSector
        /\ MapAt[k] \in {FreeMapSector} \cup NextSectors(MapHdr)
    /\ \A s \in {FreeMapSector} \cup NextSectors(MapHdr) : \E k \in 1..Len(MapHdr) : s = MapAt[k]
<1>1. IsFile(MapHdr) /\ FreeMapSector \in Sector
    BY FormatIs
<1> DEFINE n == Len(MapHdr)
<1>2. n \in Nat \ {0} /\ \A k \in 1..n : MapHdr[k] \in HeaderRec
    BY <1>1, FileIs
<1>3. /\ MapAt \in Seq(Sector) /\ Len(MapAt) = n /\ MapAt[1] = FreeMapSector
      /\ \A k \in 1..n : /\ k < n => MapAt[k + 1] = MapHdr[k].next
                         /\ MapAt[k] \in {FreeMapSector} \cup NextSectors(MapHdr)
    BY <1>1, HeaderSectorsAre DEF MapAt
<1>4. ASSUME NEW k \in 1..n
      PROVE  /\ Len(MapHdr[k].data) <= NumDirect
             /\ MapHdr[k].next # NoSector => Len(MapHdr[k].data) = NumDirect
             /\ MapHdr[k].next = IF k < n THEN MapAt[k + 1] ELSE NoSector
    <2>1. k < n \/ k = n
        BY <1>2
    <2> QED BY <1>1, <1>3, <2>1 DEF IsFile
<1>5. ASSUME NEW s \in {FreeMapSector} \cup NextSectors(MapHdr)
      PROVE  \E k \in 1..n : s = MapAt[k]
    <2>1. CASE s = FreeMapSector
        <3>1. 1 \in 1..n
            BY <1>2
        <3> QED BY <1>3, <2>1, <3>1
    <2>2. CASE s \in NextSectors(MapHdr)
        <3>1. PICK k \in 1..(n - 1) : s = MapHdr[k].next
            BY <2>2 DEF NextSectors
        <3>2. k \in 1..n /\ k < n /\ k + 1 \in 1..n
            BY <1>2
        <3> QED BY <1>3, <3>1, <3>2
    <2> QED BY <2>1, <2>2
<1> QED BY <1>2, <1>3, <1>4, <1>5

\* The parts of the map are the data sectors of the map's file.
LEMMA MapPlaceIs ==
    /\ \A k \in 1..MapSectors : MapPlace(k) \in DataSectors(MapHdr) /\ MapPlace(k) \in Sector
    /\ \A s \in DataSectors(MapHdr) : \E k \in 1..MapSectors : s = MapPlace(k)
<1>1. IsFile(MapHdr) /\ FileLength(MapHdr) = MapSectors /\ MapSectors \in Nat
    BY FormatIs, MapSectorsIs
<1>2. ASSUME NEW k \in 1..MapSectors
      PROVE  MapPlace(k) \in DataSectors(MapHdr) /\ MapPlace(k) \in Sector
    <2>1. k - 1 \in 0..(FileLength(MapHdr) - 1)
        BY <1>1
    <2>2. ByteToSector(MapHdr, k - 1) \in DataSectors(MapHdr)
        BY <1>1, <2>1, ByteToSectorIs
    <2> QED BY <1>1, <2>2, DataSectorsAre DEF MapPlace
<1>3. ASSUME NEW s \in DataSectors(MapHdr) PROVE \E k \in 1..MapSectors : s = MapPlace(k)
    <2>1. PICK i \in 0..(FileLength(MapHdr) - 1) : s = ByteToSector(MapHdr, i)
        BY <1>1, DataSectorAt
    <2>2. i + 1 \in 1..MapSectors /\ (i + 1) - 1 = i
        BY <1>1
    <2> QED BY <2>1, <2>2 DEF MapPlace
<1> QED BY <1>2, <1>3

\* No sector of the system has two uses.
LEMMA SystemSectorsAre ==
    /\ \A s \in SystemSectors :
         \/ s = DirectorySector \/ s = RootTable
         \/ \E k \in 1..Len(MapHdr) : s = MapAt[k]
         \/ \E k \in 1..MapSectors : s = MapPlace(k)
    /\ {DirectorySector, RootTable} \subseteq SystemSectors
    /\ \A k \in 1..Len(MapHdr) : MapAt[k] \in SystemSectors \ {DirectorySector, RootTable}
    /\ \A k \in 1..MapSectors : MapPlace(k) \in SystemSectors \ {DirectorySector, RootTable}
    /\ \A k \in 1..Len(MapHdr), l \in 1..MapSectors : MapAt[k] # MapPlace(l)
    /\ DirectorySector # RootTable
    /\ \A k, l \in 1..MapSectors : MapPlace(k) = MapPlace(l) => k = l
<1>1. SystemSectors = {FreeMapSector, DirectorySector, RootTable}
                         \cup NextSectors(MapHdr) \cup DataSectors(MapHdr)
    BY FormatIs DEF NamedBy
<1>2. /\ FreeMapSector # DirectorySector /\ RootTable # DirectorySector /\ RootTable # FreeMapSector
      /\ {FreeMapSector, DirectorySector, RootTable} \cap NextSectors(MapHdr) = {}
      /\ {FreeMapSector, DirectorySector, RootTable} \cap DataSectors(MapHdr) = {}
      /\ NextSectors(MapHdr) \cap DataSectors(MapHdr) = {}
    BY FormatIs DEF NamedBy, NamesOnce
<1>3. \A k \in 1..Len(MapHdr) : MapAt[k] \in {FreeMapSector} \cup NextSectors(MapHdr)
    BY MapAtIs
<1>4. \A k \in 1..MapSectors : MapPlace(k) \in DataSectors(MapHdr)
    BY MapPlaceIs
<1>5. \A s \in SystemSectors :
         \/ s = DirectorySector \/ s = RootTable
         \/ \E k \in 1..Len(MapHdr) : s = MapAt[k]
         \/ \E k \in 1..MapSectors : s = MapPlace(k)
    BY <1>1, MapAtIs, MapPlaceIs
<1>6. ASSUME NEW k \in 1..MapSectors, NEW l \in 1..MapSectors, MapPlace(k) = MapPlace(l)
      PROVE  k = l
    <2> DEFINE i == k - 1
               j == l - 1
               q(x) == (x \div NumDirect) + 1
               r(x) == (x % NumDirect) + 1
    <2>1. MapSectors \in Nat /\ NumDirect \in Nat \ {0} /\ IsFile(MapHdr)
          /\ FileLength(MapHdr) = MapSectors
        BY MapSectorsIs, FileHeaderAssumption, FormatIs
    <2>2. i \in 0..(FileLength(MapHdr) - 1) /\ j \in 0..(FileLength(MapHdr) - 1)
          /\ i \in Nat /\ j \in Nat
        BY <2>1
    <2> HIDE DEF i, j
    <2>3. /\ q(i) \in 1..Len(MapHdr) /\ r(i) \in 1..Len(MapHdr[q(i)].data)
          /\ q(j) \in 1..Len(MapHdr) /\ r(j) \in 1..Len(MapHdr[q(j)].data)
        BY <2>1, <2>2, PositionIs
    <2>4. MapHdr[q(i)].data[r(i)] = MapHdr[q(j)].data[r(j)]
        BY <1>6 DEF MapPlace, ByteToSector, i, j
    <2>5. q(i) = q(j) /\ r(i) = r(j)
        <3> HIDE DEF q, r
        <3>1. NamesOnce(MapHdr)
            BY FormatIs
        <3> QED BY <2>3, <2>4, <3>1 DEF NamesOnce
    <2>6. /\ i \div NumDirect \in Nat /\ i % NumDirect = i - (i \div NumDirect) * NumDirect
          /\ j \div NumDirect \in Nat /\ j % NumDirect = j - (j \div NumDirect) * NumDirect
        BY <2>1, <2>2, DivIs
    <2>7. i \div NumDirect = j \div NumDirect
        BY <2>5, <2>6
    <2>8. (i \div NumDirect) * NumDirect \in Nat
        BY <2>1, <2>6, ProductNat
    <2> DEFINE p == (i \div NumDirect) * NumDirect
    <2>9. p \in Nat /\ i % NumDirect = i - p /\ j % NumDirect = j - p
        BY <2>6, <2>7, <2>8
    <2> HIDE DEF p
    <2>10. i = j
        BY <2>2, <2>5, <2>9
    <2> QED BY <2>10 DEF i, j
<1> QED BY <1>1, <1>2, <1>3, <1>4, <1>5, <1>6

-----------------------------------------------------------------------------
(* What the disk holds                                                     *)

\* The kinds of what a sector can hold.
LEMMA KindsAre ==
    /\ \A h : Header(h).kind = "header" /\ Header(h).hdr = h
    /\ \A t : Table(t).kind = "table" /\ Table(t).table = t
    /\ \A v : Data(v).kind = "data"
    /\ Unwritten.kind = "blank"
    BY DEF Header, Table, Data, Unwritten

\* Wherever a header is, it is full when it names another.
LEMMA HeadersAreGood ==
    ASSUME NEW d, SystemOn(d), NEW s \in Sector, IsHeader(d, s)
    PROVE  /\ d[s].hdr \in HeaderRec /\ Len(d[s].hdr.data) <= NumDirect
           /\ d[s].hdr.next # NoSector => Len(d[s].hdr.data) = NumDirect
           /\ s \in Outside => HeaderOutside(d[s].hdr)
<1>1. d[s].kind = "header"
    BY DEF IsHeader
<1>2. CASE s \in Outside
    <2>1. GoodBlock(d[s])
        BY <1>2 DEF SystemOn
    <2>2. d[s] \in [kind : {"header"}, hdr : HeaderRec] /\ HeaderOutside(d[s].hdr)
        BY <1>1, <2>1, KindsAre DEF GoodBlock
    <2> QED BY <2>2 DEF HeaderOutside
<1>3. CASE s \notin Outside
    <2>0. s \in SystemSectors
        BY <1>3 DEF Outside
    <2>1. \/ s = DirectorySector \/ s = RootTable
          \/ \E k \in 1..Len(MapHdr) : s = MapAt[k]
          \/ \E k \in 1..MapSectors : s = MapPlace(k)
        BY <2>0, SystemSectorsAre
    <2>2. s # RootTable
        BY <1>1 DEF SystemOn
    <2>3. ~\E k \in 1..MapSectors : s = MapPlace(k)
        BY <1>1 DEF SystemOn
    <2>4. CASE s = DirectorySector
        <3>1. d[s].hdr = RootHdr
            BY <2>4, KindsAre DEF SystemOn
        <3>2. Len(<<RootTable>>) = 1 /\ 1 <= NumDirect
            BY FileHeaderAssumption
        <3> QED BY <1>3, <3>1, <3>2, FormatIs
    <2>5. CASE \E k \in 1..Len(MapHdr) : s = MapAt[k]
        <3>1. PICK k \in 1..Len(MapHdr) : s = MapAt[k]
            BY <2>5
        <3>2. d[s].hdr = MapHdr[k]
            BY <3>1, KindsAre DEF SystemOn
        <3> QED BY <1>3, <3>2, MapAtIs
    <2> QED BY <2>1, <2>2, <2>3, <2>4, <2>5
<1> QED BY <1>2, <1>3

\* Whatever says it is a header is one.
LEMMA HeadersAreTyped ==
    ASSUME NEW d, SystemOn(d) PROVE HeadersTyped(d)
    BY HeadersAreGood DEF HeadersTyped

\* A file that can be fetched is a file.
LEMMA FetchedIs ==
    ASSUME NEW d, SystemOn(d), NEW s \in Sector, HasHeaders(d, s)
    PROVE  /\ IsChain(d, HeaderChain(d, s)) /\ HeaderChain(d, s)[1] = s
           /\ IsFile(FetchFrom(d, s)) /\ Len(FetchFrom(d, s)) = Len(HeaderChain(d, s))
           /\ \A k \in 1..Len(FetchFrom(d, s)) : FetchFrom(d, s)[k] = d[HeaderChain(d, s)[k]].hdr
           /\ IsHeader(d, s) /\ FetchFrom(d, s)[1] = d[s].hdr
<1> DEFINE c == HeaderChain(d, s)
           f == FetchFrom(d, s)
<1>1. IsChain(d, c) /\ c[1] = s /\ HeadersTyped(d)
    BY ChainFetched, HeadersAreTyped
<1>2. f \in Seq(HeaderRec) /\ Len(f) = Len(c) /\ \A k \in 1..Len(c) : f[k] = d[c[k]].hdr
    <2> HIDE DEF c, f
    <2>1. HeaderChain(d, c[1]) = c
        BY <1>1 DEF c
    <2> QED BY <1>1, <2>1, FetchFromIs DEF f
<1> HIDE DEF c, f
<1>3. c \in Seq(Sector) /\ c # <<>> /\ Len(c) \in Nat \ {0}
    BY <1>1, EmptySeq DEF IsChain
<1>4. \A k \in 1..Len(c) : c[k] \in Sector /\ IsHeader(d, c[k])
         /\ d[c[k]].hdr.next = IF k < Len(c) THEN c[k + 1] ELSE NoSector
    BY <1>1, <1>3, ElementOfSeq DEF IsChain
<1>5. f # <<>>
    BY <1>2, <1>3
<1>6. ASSUME NEW k \in 1..Len(f)
      PROVE  /\ Len(f[k].data) <= NumDirect
             /\ k < Len(f) => Len(f[k].data) = NumDirect /\ f[k].next \in Sector
             /\ k = Len(f) => f[k].next = NoSector
    <2>1. k \in 1..Len(c) /\ f[k] = d[c[k]].hdr
        BY <1>2
    <2>2. Len(f[k].data) <= NumDirect /\ (f[k].next # NoSector => Len(f[k].data) = NumDirect)
        BY <1>4, <2>1, HeadersAreGood
    <2>3. k < Len(f) => f[k].next \in Sector /\ f[k].next # NoSector
        <3> HAVE k < Len(f)
        <3>1. k + 1 \in 1..Len(c) /\ k < Len(c)
            BY <1>2, <1>3, <2>1
        <3>2. f[k].next = c[k + 1]
            BY <1>4, <2>1, <3>1
        <3> QED BY <1>4, <3>1, <3>2, NoSectorIsNone
    <2>4. k = Len(f) => f[k].next = NoSector
        <3> HAVE k = Len(f)
        <3>1. ~(k < Len(c))
            BY <1>2, <1>3, <2>1
        <3> QED BY <1>4, <2>1, <3>1
    <2> QED BY <2>2, <2>3, <2>4
<1>7. IsFile(f)
    BY <1>2, <1>5, <1>6 DEF IsFile
<1>8. IsHeader(d, s) /\ f[1] = d[s].hdr
    <2>1. 1 \in 1..Len(c)
        BY <1>3
    <2> QED BY <1>1, <1>2, <1>4, <2>1
<1> QED BY <1>1, <1>2, <1>7, <1>8 DEF c, f

\* And a file that starts outside the system's sectors stays outside.
LEMMA FetchedOutside ==
    ASSUME NEW d, SystemOn(d), NEW s \in Outside, HasHeaders(d, s)
    PROVE  /\ FileOutside(FetchFrom(d, s))
           /\ ToSet(HeaderChain(d, s)) \subseteq Outside
           /\ SectorsOf(d, s) \subseteq Outside
<1> DEFINE c == HeaderChain(d, s)
           f == FetchFrom(d, s)
           T == {k \in 1..Len(c) : c[k] \notin Outside}
<1>1. s \in Sector
    BY DEF Outside
<1>2. /\ IsChain(d, c) /\ c[1] = s /\ IsFile(f) /\ Len(f) = Len(c)
      /\ \A k \in 1..Len(f) : f[k] = d[c[k]].hdr
    BY <1>1, FetchedIs
<1>3. c \in Seq(Sector) /\ Len(c) \in Nat \ {0} /\ DOMAIN c = 1..Len(c)
    BY <1>2, EmptySeq, LenProperties DEF IsChain
<1>4. \A k \in 1..Len(c) : /\ c[k] \in Sector /\ IsHeader(d, c[k])
                           /\ d[c[k]].hdr.next = IF k < Len(c) THEN c[k + 1] ELSE NoSector
    <2> HIDE DEF c
    <2> QED BY <1>2, <1>3, ElementOfSeq DEF IsChain
<1> HIDE DEF c, f
<1>5. T = {}
    <2> SUFFICES ASSUME T # {} PROVE FALSE
        OBVIOUS
    <2>1. PICK k \in T : \A l \in T : k <= l
        <3>1. T \subseteq Nat
            BY <1>3
        <3> HIDE DEF T
        <3> QED BY <3>1, LeastNumber
    <2>2. k \in 1..Len(c) /\ c[k] \notin Outside /\ k # 1 /\ k \in Nat
        BY <1>2, <1>3
    <2>3. k - 1 \in 1..Len(c) /\ k - 1 < Len(c) /\ ~(k <= k - 1) /\ (k - 1) + 1 = k
        BY <1>3, <2>2
    <2>4. c[k - 1] \in Outside
        BY <2>1, <2>3
    <2>5. HeaderOutside(d[c[k - 1]].hdr)
        BY <1>4, <2>3, <2>4, HeadersAreGood
    <2>6. c[k] = d[c[k - 1]].hdr.next
        BY <1>4, <2>3
    <2>7. c[k] \in Sector /\ c[k] # NoSector
        BY <1>4, <2>2, NoSectorIsNone
    <2> QED BY <2>2, <2>5, <2>6, <2>7 DEF HeaderOutside
<1>6. \A k \in 1..Len(f) : HeaderOutside(f[k])
    <2> TAKE k \in 1..Len(f)
    <2>1. k \in 1..Len(c) /\ c[k] \in Outside /\ f[k] = d[c[k]].hdr
        BY <1>2, <1>5
    <2> QED BY <1>4, <2>1, HeadersAreGood
<1>7. DataSectors(f) \subseteq Outside
    <2>1. DOMAIN f = 1..Len(f)
        BY <1>2, FileIs
    <2> QED BY <1>6, <2>1 DEF DataSectors, HeaderOutside
<1>8. NextSectors(f) \subseteq Outside
    <2> SUFFICES ASSUME NEW k \in 1..(Len(f) - 1) PROVE f[k].next \in Outside
        BY DEF NextSectors
    <2>1. k \in 1..Len(f) /\ k < Len(f)
        BY <1>2, <1>3
    <2>2. f[k].next \in Sector
        BY <1>2, <2>1 DEF IsFile
    <2> QED BY <1>6, <2>1, <2>2, NoSectorIsNone DEF HeaderOutside
<1>9. ToSet(c) \subseteq Outside
    BY <1>3, <1>5 DEF ToSet
<1> QED BY <1>2, <1>7, <1>8, <1>9 DEF FileOutside, NamedBy, SectorsOf, c, f

\* The map's file can always be fetched, and is the one formatting made.
LEMMA MapFetched ==
    ASSUME NEW d, SystemOn(d)
    PROVE  /\ FetchFrom(d, FreeMapSector) = MapHdr
           /\ HasHeaders(d, FreeMapSector)
           /\ HeaderChain(d, FreeMapSector) = MapAt
           /\ SectorsOf(d, FreeMapSector) = {FreeMapSector} \cup NamedBy(MapHdr)
<1>1. HeadersTyped(d)
    BY HeadersAreTyped
<1>2. /\ MapAt \in Seq(Sector) /\ Len(MapAt) = Len(MapHdr) /\ Len(MapHdr) \in Nat \ {0}
      /\ MapAt[1] = FreeMapSector
    BY MapAtIs
<1>3. \A k \in 1..Len(MapAt) : MapAt[k] \in Sector
    BY <1>2, ElementOfSeq
<1>4. \A k \in 1..Len(MapAt) :
        /\ IsHeader(d, MapAt[k]) /\ d[MapAt[k]].hdr = MapHdr[k]
        /\ MapHdr[k].next = IF k < Len(MapAt) THEN MapAt[k + 1] ELSE NoSector
    BY <1>2, <1>3, MapAtIs, KindsAre DEF SystemOn, IsHeader, IsSector
<1>5. MapAt # <<>>
    BY <1>2
<1>6. IsChain(d, MapAt)
    BY <1>2, <1>4, <1>5 DEF IsChain
<1>7. HeaderChain(d, FreeMapSector) = MapAt /\ HasHeaders(d, FreeMapSector)
    BY <1>1, <1>2, <1>6, FormatIs, ChainIsFetched
<1>8. FetchFrom(d, FreeMapSector) = MapHdr
    <2> DEFINE f == FetchFrom(d, FreeMapSector)
    <2>1. f \in Seq(HeaderRec) /\ Len(f) = Len(MapAt)
          /\ \A k \in 1..Len(MapAt) : f[k] = d[MapAt[k]].hdr
        BY <1>1, <1>2, <1>6, <1>7, FetchFromIs
    <2>2. MapHdr \in Seq(HeaderRec)
        BY FormatIs DEF IsFile
    <2> HIDE DEF f
    <2>3. Len(f) = Len(MapHdr) /\ \A k \in 1..Len(f) : f[k] = MapHdr[k]
        BY <1>2, <1>4, <2>1
    <2>4. f = MapHdr
        BY <2>1, <2>2, <2>3, SeqEqual
    <2> QED BY <2>4 DEF f
<1>9. ToSet(MapAt) = {FreeMapSector} \cup NextSectors(MapHdr)
    <2>1. DOMAIN MapAt = 1..Len(MapHdr)
        BY <1>2, LenProperties
    <2> QED BY <2>1, MapAtIs DEF ToSet
<1> QED BY <1>7, <1>8, <1>9 DEF SectorsOf, NamedBy

\* Every sector has its part of the map.
LEMMA PartsOfSectors ==
    ASSUME NEW s \in Sector
    PROVE  /\ (s \div MapBits) + 1 \in 1..MapSectors
           /\ \A k \in 1..MapSectors : s \in PartOf(k) <=> k = (s \div MapBits) + 1
<1>1. (s \div MapBits) + 1 \in 1..MapSectors /\ MapSectors \in Nat
    BY MapSectorsIs
<1>2. s \div MapBits \in Nat
    BY FileHeaderAssumption, FileSystemAssumption DEF Sector
<1> QED BY <1>1, <1>2 DEF PartOf

\* A sector is marked in its part of the map.
LEMMA FreeMapIs ==
    ASSUME NEW d, SystemOn(d)
    PROVE  /\ \A s \in Sector : \A k \in 1..MapSectors :
                s \in PartOf(k) => (s \in FreeMap(d) <=> s \in d[MapPlace(k)].marks)
           /\ SystemSectors \subseteq FreeMap(d) /\ FreeMap(d) \subseteq Sector
<1>1. MapSectors \in Nat \ {0}
    BY MapSectorsIs
<1>2. FreeMap(d) = UNION {d[ByteToSector(MapHdr, k)].marks : k \in 0..(MapSectors - 1)}
    BY MapFetched DEF FreeMap
<1>3. FreeMap(d) = UNION {d[MapPlace(k)].marks : k \in 1..MapSectors}
    <2>1. ASSUME NEW s, NEW k \in 0..(MapSectors - 1), s \in d[ByteToSector(MapHdr, k)].marks
          PROVE  \E l \in 1..MapSectors : s \in d[MapPlace(l)].marks
        <3>1. k + 1 \in 1..MapSectors /\ (k + 1) - 1 = k
            BY <1>1
        <3> QED BY <2>1, <3>1 DEF MapPlace
    <2>2. ASSUME NEW s, NEW l \in 1..MapSectors, s \in d[MapPlace(l)].marks
          PROVE  \E k \in 0..(MapSectors - 1) : s \in d[ByteToSector(MapHdr, k)].marks
        <3>1. l - 1 \in 0..(MapSectors - 1)
            BY <1>1
        <3> QED BY <2>2, <3>1 DEF MapPlace
    <2> QED BY <1>2, <2>1, <2>2
<1>4. \A k \in 1..MapSectors : d[MapPlace(k)].marks \subseteq PartOf(k)
                               /\ SystemSectors \cap PartOf(k) \subseteq d[MapPlace(k)].marks
    BY DEF SystemOn
<1>5. ASSUME NEW s \in Sector, NEW k \in 1..MapSectors, s \in PartOf(k), s \in FreeMap(d)
      PROVE  s \in d[MapPlace(k)].marks
    <2>1. PICK l \in 1..MapSectors : s \in d[MapPlace(l)].marks
        BY <1>3, <1>5
    <2>2. s \in PartOf(l)
        BY <1>4, <2>1
    <2>3. k = l
        BY <1>5, <2>2, PartsOfSectors
    <2> QED BY <2>1, <2>3
<1>6. SystemSectors \subseteq FreeMap(d)
    <2> SUFFICES ASSUME NEW s \in SystemSectors PROVE s \in FreeMap(d)
        OBVIOUS
    <2>1. s \in Sector
        BY FormatIs
    <2>2. PICK k \in 1..MapSectors : s \in PartOf(k)
        BY <2>1, PartsOfSectors
    <2> QED BY <1>3, <1>4, <2>2
<1>7. FreeMap(d) \subseteq Sector
    BY <1>3, <1>4 DEF PartOf
<1> QED BY <1>3, <1>5, <1>6, <1>7

-----------------------------------------------------------------------------
(* Directories and paths                                                   *)

\* The places where a header of a directory can be.
DirPlace == Outside \cup {DirectorySector}

\* Sectors are neither NoSector nor Garbage.
LEMMA DirPlaceIs ==
    /\ DirPlace \subseteq Sector /\ DirectorySector = 1 /\ NoSector = -1 /\ Garbage = -2
    /\ \A s \in Sector : s >= 0 /\ s # NoSector /\ s # Garbage
    /\ \A s \in Outside : s \in Sector /\ s # DirectorySector
<1>1. \A s \in Sector : s >= 0 /\ s # NoSector /\ s # Garbage
    BY SectorsAreFinite DEF NoSector, Garbage
<1> QED BY <1>1, FormatIs DEF DirPlace, Outside, DirectorySector, NoSector, Garbage

\* The root can always be fetched, and is a directory.
LEMMA RootIs ==
    ASSUME NEW d, SystemOn(d)
    PROVE  /\ IsHeader(d, DirectorySector) /\ d[DirectorySector].hdr = RootHdr
           /\ DirBlock(d, DirectorySector) = d[RootTable]
           /\ IsDirectory(d, DirectorySector)
           /\ HasHeaders(d, DirectorySector)
           /\ FetchFrom(d, DirectorySector) = <<RootHdr>>
           /\ SectorsOf(d, DirectorySector) = {DirectorySector, RootTable}
<1>1. IsHeader(d, DirectorySector) /\ d[DirectorySector].hdr = RootHdr
    BY FormatIs, KindsAre DEF SystemOn, IsHeader, IsSector
<1>2. RootHdr.data # <<>> /\ RootHdr.data[1] = RootTable
    BY FormatIs DEF RootTable
<1>3. DirBlock(d, DirectorySector) = d[RootTable]
    BY <1>1, <1>2 DEF DirBlock
<1>4. IsDirectory(d, DirectorySector)
    BY <1>3 DEF IsDirectory, SystemOn
<1> DEFINE c == <<DirectorySector>>
<1>5. c \in Seq(Sector) /\ Len(c) = 1 /\ c[1] = DirectorySector /\ c # <<>>
    BY FormatIs
<1> HIDE DEF c
<1>6. IsChain(d, c)
    BY <1>1, <1>5, FormatIs DEF IsChain
<1>7. HeadersTyped(d) /\ Len(c) <= MaxHeaders
    BY <1>5, HeadersAreTyped, MaxHeadersIs
<1>8. HeaderChain(d, DirectorySector) = c /\ HasHeaders(d, DirectorySector)
    BY <1>5, <1>6, <1>7, ChainIsFetched
<1> DEFINE f == FetchFrom(d, DirectorySector)
<1>9. f \in Seq(HeaderRec) /\ Len(f) = 1 /\ f[1] = RootHdr
    BY <1>1, <1>5, <1>6, <1>7, <1>8, FetchFromIs
<1>10. f = <<RootHdr>>
    <2> HIDE DEF f
    <2>1. f = <<f[1]>>
        BY <1>9
    <2> QED BY <1>9, <2>1
<1>11. ToSet(c) = {DirectorySector}
    BY DEF ToSet, c
<1>12. DataSectors(<<RootHdr>>) = {RootTable}
    <2>1. DOMAIN <<RootHdr>> = {1} /\ <<RootHdr>>[1] = RootHdr
        OBVIOUS
    <2>2. ToSet(RootHdr.data) = {RootTable}
        <3>1. RootHdr.data = <<RootTable>>
            BY FormatIs
        <3>2. DOMAIN <<RootTable>> = {1} /\ <<RootTable>>[1] = RootTable
            OBVIOUS
        <3> QED BY <3>1, <3>2 DEF ToSet
    <2> QED BY <2>1, <2>2 DEF DataSectors
<1> QED BY <1>1, <1>3, <1>4, <1>8, <1>10, <1>11, <1>12 DEF SectorsOf

\* A directory outside the system's sectors has its table there too.
LEMMA DirectoryOutside ==
    ASSUME NEW d, SystemOn(d), NEW s \in Outside, IsDirectory(d, s)
    PROVE  /\ IsHeader(d, s) /\ d[s].hdr.data # <<>> /\ d[s].hdr.data[1] \in Outside
           /\ DirBlock(d, s) = d[d[s].hdr.data[1]]
           /\ TableOutside(TableAt(d, s))
<1>1. IsHeader(d, s) /\ d[s].hdr.data # <<>> /\ DirBlock(d, s) = d[d[s].hdr.data[1]]
    BY DEF IsDirectory, DirBlock, NotATable
<1>2. HeaderOutside(d[s].hdr)
    BY <1>1, DirPlaceIs, HeadersAreGood
<1>3. d[s].hdr.data[1] \in Outside
    <2>1. d[s].hdr.data \in Seq(Sector)
        BY <1>2 DEF HeaderOutside, HeaderRec
    <2>2. 1 \in DOMAIN d[s].hdr.data
        <3> DEFINE r == d[s].hdr.data
        <3> HIDE DEF r
        <3>1. r \in Seq(Sector) /\ r # <<>>
            BY <1>1, <2>1 DEF r
        <3>2. 1 \in DOMAIN r
            BY <3>1
        <3> QED BY <3>2 DEF r
    <2> QED BY <1>2, <2>2 DEF HeaderOutside, ToSet
<1>4. GoodBlock(DirBlock(d, s)) /\ DirBlock(d, s).kind = "table"
    BY <1>1, <1>3 DEF SystemOn, IsDirectory
<1>5. TableOutside(TableAt(d, s))
    BY <1>4, KindsAre DEF GoodBlock, TableAt
<1> QED BY <1>1, <1>3, <1>5

\* Every table that can be found names sectors outside.
LEMMA TableAtIs ==
    ASSUME NEW d, SystemOn(d), NEW s \in DirPlace, IsDirectory(d, s)
    PROVE  TableOutside(TableAt(d, s))
<1>1. CASE s \in Outside
    BY <1>1, DirectoryOutside
<1>2. CASE s = DirectorySector
    BY <1>2, RootIs DEF TableAt, SystemOn
<1> QED BY <1>1, <1>2 DEF DirPlace

\* What Find returns for a name in a directory.
LEMMA FindInIs ==
    ASSUME NEW d, SystemOn(d), NEW s \in DirPlace \cup {NoSector, Garbage}, NEW n
    PROVE  FindIn(d, s, n) \in Outside \cup {NoSector, Garbage}
<1>1. CASE s \in {NoSector, Garbage}
    BY <1>1, DirPlaceIs DEF FindIn
<1>2. CASE s \in DirPlace
    <2>1. ~(s < 0)
        BY <1>2, DirPlaceIs, SectorsAreFinite
    <2>2. CASE DirBlock(d, s).kind = "table"
        <3>1. TableOutside(DirBlock(d, s).table)
            BY <1>2, <2>2, TableAtIs DEF TableAt, IsDirectory
        <3> QED BY <2>1, <2>2, <3>1 DEF FindIn, TableOutside
    <2>3. CASE DirBlock(d, s).kind # "table"
        BY <2>1, <2>3 DEF FindIn
    <2> QED BY <2>2, <2>3
<1> QED BY <1>1, <1>2

\* Paths of one and two names.
LEMMA PathsAre ==
    ASSUME NEW a, NEW b
    PROVE  /\ Front(<<a>>) = <<>> /\ Last(<<a>>) = a
           /\ Front(<<a, b>>) = <<a>> /\ Last(<<a, b>>) = b
           /\ Len(<<a>>) = 1 /\ Len(<<a, b>>) = 2
<1> DEFINE S == {a, b}
<1>1. <<a>> \in Seq(S) /\ <<a, b>> \in Seq(S) /\ Len(<<a>>) = 1 /\ Len(<<a, b>>) = 2
      /\ <<a>>[1] = a /\ <<a, b>>[1] = a /\ <<a, b>>[2] = b
    OBVIOUS
<1> DEFINE x == SubSeq(<<a>>, 1, 0)
           y == SubSeq(<<a, b>>, 1, 1)
<1>2. x = <<>>
    BY SubSeqEmpty
<1>3. y = <<a>>
    <2>1. y \in Seq(S) /\ Len(y) = 1 /\ \A i \in 1..1 : y[i] = <<a, b>>[1 + i - 1]
        <3>1. \A i \in 1..1 : <<a, b>>[i] \in S
            BY <1>1
        <3>2. Len(y) = (IF 1 <= 1 THEN 1 - 1 + 1 ELSE 0) /\ y \in Seq(S)
              /\ \A i \in 1..(1 - 1 + 1) : y[i] = <<a, b>>[1 + i - 1]
            BY <3>1, SubSeqProperties
        <3> HIDE DEF y
        <3> QED BY <3>2
    <2> HIDE DEF y, S
    <2>2. y[1] = a
        BY <1>1, <2>1
    <2>3. y = <<y[1]>>
        BY <2>1
    <2> QED BY <2>2, <2>3
<1> QED BY <1>1, <1>2, <1>3 DEF Front, Last

\* Find by its steps.
IsFound(f, d, p) ==
    f = [i \in 0..Len(p) |-> IF i = 0 THEN DirectorySector ELSE FindIn(d, f[i - 1], p[i])]

\* Find, name by name.
LEMMA FindIs ==
    ASSUME NEW d, NEW a, NEW b
    PROVE  /\ Find(d, <<>>) = DirectorySector
           /\ Find(d, <<a>>) = FindIn(d, DirectorySector, a)
           /\ Find(d, <<a, b>>) = FindIn(d, Find(d, <<a>>), b)
<1>1. ASSUME NEW p, Find(d, p) = (CHOOSE f : IsFound(f, d, p))[Len(p)], \E f : IsFound(f, d, p)
      PROVE  \E f : IsFound(f, d, p) /\ Find(d, p) = f[Len(p)]
    BY <1>1
<1>2. \A p : Find(d, p) = (CHOOSE f : IsFound(f, d, p))[Len(p)]
    BY DEF Find, IsFound
<1> DEFINE x == FindIn(d, DirectorySector, a)
           y == FindIn(d, x, b)
<1>3. Len(<<>>) = 0 /\ Len(<<a>>) = 1 /\ Len(<<a, b>>) = 2
      /\ <<a>>[1] = a /\ <<a, b>>[1] = a /\ <<a, b>>[2] = b
    OBVIOUS
<1>4. Find(d, <<>>) = DirectorySector
    <2> DEFINE e == [i \in 0..0 |-> DirectorySector]
    <2>1. IsFound(e, d, <<>>)
        BY <1>3 DEF IsFound
    <2>2. PICK f : IsFound(f, d, <<>>) /\ Find(d, <<>>) = f[0]
        BY <1>1, <1>2, <1>3, <2>1
    <2>3. f[0] = DirectorySector
        BY <1>3, <2>2 DEF IsFound
    <2> QED BY <2>2, <2>3
<1>5. Find(d, <<a>>) = x
    <2> DEFINE e == [i \in 0..1 |-> IF i = 0 THEN DirectorySector ELSE x]
    <2>1. IsFound(e, d, <<a>>)
        <3>1. e[0] = DirectorySector /\ e = [i \in 0..1 |-> IF i = 0 THEN DirectorySector ELSE x]
            OBVIOUS
        <3>2. \A i \in 0..1 : (IF i = 0 THEN DirectorySector ELSE x)
                            = (IF i = 0 THEN DirectorySector ELSE FindIn(d, e[i - 1], <<a>>[i]))
            <4> TAKE i \in 0..1
            <4>1. i = 0 \/ i = 1
                OBVIOUS
            <4>2. 1 - 1 = 0
                OBVIOUS
            <4> HIDE DEF e
            <4> QED BY <1>3, <3>1, <4>1, <4>2
        <3> HIDE DEF x
        <3> QED BY <1>3, <3>2 DEF IsFound
    <2>2. PICK f : IsFound(f, d, <<a>>) /\ Find(d, <<a>>) = f[1]
        BY <1>1, <1>2, <1>3, <2>1
    <2>3. \A i \in 0..1 : f[i] = IF i = 0 THEN DirectorySector ELSE FindIn(d, f[i - 1], <<a>>[i])
        BY <1>3, <2>2 DEF IsFound
    <2>4. f[0] = DirectorySector /\ f[1] = FindIn(d, f[1 - 1], <<a>>[1]) /\ 1 - 1 = 0
        BY <2>3
    <2> QED BY <1>3, <2>2, <2>4
<1>6. Find(d, <<a, b>>) = y
    <2> DEFINE g(i) == IF i = 0 THEN DirectorySector ELSE IF i = 1 THEN x ELSE y
               e == [i \in 0..2 |-> g(i)]
    <2>1. IsFound(e, d, <<a, b>>)
        <3>1. e[0] = DirectorySector /\ e[1] = x
            OBVIOUS
        <3>2. \A i \in 0..2 : g(i)
                   = (IF i = 0 THEN DirectorySector ELSE FindIn(d, e[i - 1], <<a, b>>[i]))
            <4> TAKE i \in 0..2
            <4>1. i = 0 \/ i = 1 \/ i = 2
                OBVIOUS
            <4>2. 1 - 1 = 0 /\ 2 - 1 = 1
                OBVIOUS
            <4> HIDE DEF e
            <4> QED BY <1>3, <3>1, <4>1, <4>2
        <3> HIDE DEF g
        <3> QED BY <1>3, <3>2 DEF IsFound
    <2>2. PICK f : IsFound(f, d, <<a, b>>) /\ Find(d, <<a, b>>) = f[2]
        BY <1>1, <1>2, <1>3, <2>1
    <2>3. \A i \in 0..2 : f[i] = IF i = 0 THEN DirectorySector ELSE FindIn(d, f[i - 1], <<a, b>>[i])
        BY <1>3, <2>2 DEF IsFound
    <2>4. /\ f[0] = DirectorySector /\ f[1] = FindIn(d, f[1 - 1], <<a, b>>[1])
          /\ f[2] = FindIn(d, f[2 - 1], <<a, b>>[2]) /\ 1 - 1 = 0 /\ 2 - 1 = 1
        BY <2>3
    <2> QED BY <1>3, <2>2, <2>4
<1> QED BY <1>4, <1>5, <1>6

\* The sector of a path, from that of the directory above it.
LEMMA FindPath ==
    ASSUME NEW d, SystemOn(d), NEW p \in Paths
    PROVE  /\ Find(d, p) = FindIn(d, Find(d, Front(p)), Last(p))
           /\ Find(d, Front(p)) \in DirPlace \cup {NoSector, Garbage}
           /\ Find(d, p) \in Outside \cup {NoSector, Garbage}
           /\ p # <<>>
<1>1. DirectorySector \in DirPlace
    BY DEF DirPlace
<1>2. \E a : \E b : p = <<a>> \/ p = <<a, b>>
    BY FileSystemAssumption
<1>3. PICK a : \E b : p = <<a>> \/ p = <<a, b>>
    BY <1>2
<1>4. PICK b : p = <<a>> \/ p = <<a, b>>
    BY <1>3
<1>5. CASE p = <<a>>
    <2>1. Front(p) = <<>> /\ Last(p) = a /\ p # <<>>
        BY <1>5, PathsAre
    <2>2. Find(d, Front(p)) = DirectorySector /\ Find(d, p) = FindIn(d, DirectorySector, a)
        BY <1>5, <2>1, FindIs
    <2> QED BY <1>1, <2>1, <2>2, FindInIs
<1>6. CASE p = <<a, b>>
    <2>1. Front(p) = <<a>> /\ Last(p) = b /\ p # <<>>
        BY <1>6, PathsAre
    <2>2. /\ Find(d, Front(p)) = FindIn(d, DirectorySector, a)
          /\ Find(d, p) = FindIn(d, Find(d, Front(p)), b)
        BY <1>6, <2>1, FindIs
    <2>3. Find(d, Front(p)) \in Outside \cup {NoSector, Garbage}
        BY <1>1, <2>2, FindInIs
    <2>4. Find(d, Front(p)) \in DirPlace \cup {NoSector, Garbage}
        BY <2>3 DEF DirPlace
    <2> QED BY <2>1, <2>2, <2>4, FindInIs
<1> QED BY <1>4, <1>5, <1>6

-----------------------------------------------------------------------------
(* What a write leaves of the system's files                               *)

\* A good block outside, a table of the root, a part of the map.
LEMMA WriteOutside ==
    ASSUME NEW d, SystemOn(d), NEW x \in Outside, NEW b, GoodBlock(b)
    PROVE  SystemOn([d EXCEPT ![x] = b])
<1> DEFINE e == [d EXCEPT ![x] = b]
<1>1. DOMAIN d = Sector /\ x \in Sector /\ x \notin SystemSectors
    BY DEF SystemOn, Outside
<1>2. DOMAIN e = Sector /\ e[x] = b /\ \A s \in Sector : s # x => e[s] = d[s]
    BY <1>1
<1> HIDE DEF e
<1>3. \A s \in SystemSectors : e[s] = d[s]
    BY <1>1, <1>2, FormatIs
<1>4. \A s \in Outside : GoodBlock(e[s])
    BY <1>2 DEF SystemOn, Outside
<1>5. SystemOn(e)
    BY <1>2, <1>3, <1>4, SystemSectorsAre DEF SystemOn
<1> QED BY <1>5 DEF e

\* A table of the root in the root's sector.
LEMMA WriteRootTable ==
    ASSUME NEW d, SystemOn(d), NEW t, TableOutside(t)
    PROVE  SystemOn([d EXCEPT ![RootTable] = Table(t)])
<1> DEFINE e == [d EXCEPT ![RootTable] = Table(t)]
<1>1. DOMAIN d = Sector /\ RootTable \in Sector /\ RootTable \notin Outside
    BY FormatIs DEF SystemOn, Outside
<1>2. DOMAIN e = Sector /\ e[RootTable] = Table(t) /\ \A s \in Sector : s # RootTable => e[s] = d[s]
    BY <1>1
<1> HIDE DEF e
<1>3. \A s \in SystemSectors \ {RootTable} : e[s] = d[s]
    BY <1>2, FormatIs
<1>4. \A s \in Outside : GoodBlock(e[s])
    BY <1>1, <1>2 DEF SystemOn, Outside
<1>5. e[RootTable].kind = "table" /\ TableOutside(e[RootTable].table)
    BY <1>2, KindsAre
<1>6. DirectorySector \in SystemSectors \ {RootTable}
      /\ (\A k \in 1..Len(MapHdr) : MapAt[k] \in SystemSectors \ {RootTable})
      /\ (\A k \in 1..MapSectors : MapPlace(k) \in SystemSectors \ {RootTable})
    BY SystemSectorsAre
<1>7. SystemOn(e)
    BY <1>2, <1>3, <1>4, <1>5, <1>6 DEF SystemOn
<1> QED BY <1>7 DEF e

\* What MapPart writes.
LEMMA MapPartIs ==
    ASSUME NEW k, NEW map, map \subseteq Sector
    PROVE  /\ MapPart(k, map) \in [kind : {"map"}, marks : SUBSET PartOf(k)]
           /\ MapPart(k, map).marks = map \cap PartOf(k)
    BY DEF MapPart, PartOf

\* A part of the map in its place.
LEMMA WriteMapPart ==
    ASSUME NEW d, SystemOn(d), NEW k \in 1..MapSectors,
           NEW map, map \subseteq Sector, SystemSectors \subseteq map
    PROVE  SystemOn([d EXCEPT ![MapPlace(k)] = MapPart(k, map)])
<1> DEFINE x == MapPlace(k)
           e == [d EXCEPT ![x] = MapPart(k, map)]
<1>1. DOMAIN d = Sector /\ x \in Sector /\ x \notin Outside
    BY SystemSectorsAre, FormatIs DEF SystemOn, Outside
<1>2. DOMAIN e = Sector /\ e[x] = MapPart(k, map) /\ \A s \in Sector : s # x => e[s] = d[s]
    BY <1>1
<1>3. /\ DirectorySector # x /\ RootTable # x
      /\ \A l \in 1..Len(MapHdr) : MapAt[l] # x /\ MapAt[l] \in Sector
      /\ \A l \in 1..MapSectors : MapPlace(l) \in Sector /\ (l # k => MapPlace(l) # x)
      /\ DirectorySector \in Sector /\ RootTable \in Sector
    BY SystemSectorsAre, FormatIs
<1> HIDE DEF e, x
<1>4. \A s \in Outside : GoodBlock(e[s])
    BY <1>1, <1>2 DEF SystemOn, Outside
<1>5. \A l \in 1..Len(MapHdr) : e[MapAt[l]] = Header(MapHdr[l])
    BY <1>2, <1>3 DEF SystemOn
<1>6. ASSUME NEW l \in 1..MapSectors
      PROVE  /\ e[MapPlace(l)] \in [kind : {"map"}, marks : SUBSET PartOf(l)]
             /\ SystemSectors \cap PartOf(l) \subseteq e[MapPlace(l)].marks
    <2>1. CASE l = k
        BY <1>2, <2>1, MapPartIs DEF x
    <2>2. CASE l # k
        BY <1>2, <1>3, <2>2 DEF SystemOn
    <2> QED BY <2>1, <2>2
<1>7. e[DirectorySector] = d[DirectorySector] /\ e[RootTable] = d[RootTable]
    BY <1>2, <1>3
<1>8. SystemOn(e)
    BY <1>2, <1>4, <1>5, <1>6, <1>7 DEF SystemOn
<1> QED BY <1>8 DEF e, x

\* The headers of the map's file are in different sectors.
LEMMA MapAtOnce ==
    \A k, l \in 1..Len(MapHdr) : MapAt[k] = MapAt[l] => k = l
<1>1. IsFile(MapHdr) /\ FreeMapSector \in Sector /\ NamesOnce(MapHdr)
      /\ FreeMapSector \notin NextSectors(MapHdr)
    BY FormatIs DEF NamedBy
<1>2. Len(MapHdr) \in Nat \ {0}
    BY MapAtIs
<1>3. \A k \in 1..Len(MapHdr) :
        k # 1 => k - 1 \in 1..(Len(MapHdr) - 1) /\ MapAt[k] = MapHdr[k - 1].next
                 /\ MapAt[k] \in NextSectors(MapHdr)
    BY <1>1, HeaderSectorsAre DEF MapAt, NextSectors
<1>4. MapAt[1] = FreeMapSector
    BY MapAtIs
<1> TAKE k, l \in 1..Len(MapHdr)
<1> HAVE MapAt[k] = MapAt[l]
<1>5. k = 1 <=> l = 1
    BY <1>1, <1>3, <1>4
<1>6. CASE k # 1
    <2>1. k - 1 = l - 1
        BY <1>1, <1>3, <1>5, <1>6 DEF NamesOnce
    <2> QED BY <1>2, <2>1
<1> QED BY <1>5, <1>6

\* Formatting writes the system's files.
LEMMA FormattedIs == SystemOn(Formatted) /\ Formatted[RootTable] = Table(EmptyTable)
<1> DEFINE d == Formatted
           IsMapAt(s) == \E k \in DOMAIN MapAt : s = MapAt[k]
           IsMapPlace(s) == \E k \in 1..MapSectors : s = MapPlace(k)
           value(s) ==
            IF IsMapAt(s) THEN Header(MapHdr[CHOOSE k \in DOMAIN MapAt : s = MapAt[k]])
            ELSE IF s = DirectorySector THEN Header(RootHdr)
            ELSE IF IsMapPlace(s)
            THEN MapPart(CHOOSE k \in 1..MapSectors : s = MapPlace(k), SystemSectors)
            ELSE IF s = RootTable THEN Table(EmptyTable)
            ELSE Unwritten
<1>1. ByteToSector(RootAllocated.hdr, 0) = RootTable
    <2>1. 0 \div NumDirect = 0 /\ 0 % NumDirect = 0
        BY FileHeaderAssumption
    <2>2. ByteToSector(RootAllocated.hdr, 0) = RootAllocated.hdr[0 + 1].data[0 + 1]
        BY <2>1 DEF ByteToSector
    <2>3. 0 + 1 = 1
        OBVIOUS
    <2> QED BY <2>2, <2>3 DEF RootTable, RootHdr
<1>2. DOMAIN d = Sector /\ \A s \in Sector : d[s] = value(s)
    BY <1>1 DEF Formatted, MapHdr, MapAt, MapPlace, RootHdr, SystemSectors
<1>3. DOMAIN MapAt = 1..Len(MapHdr)
    BY MapAtIs, LenProperties
<1> HIDE DEF d
<1>4. \A k \in 1..Len(MapHdr) : d[MapAt[k]] = Header(MapHdr[k])
    <2> TAKE k \in 1..Len(MapHdr)
    <2>1. MapAt[k] \in Sector /\ IsMapAt(MapAt[k])
        BY <1>3, SystemSectorsAre, FormatIs
    <2>2. (CHOOSE l \in DOMAIN MapAt : MapAt[k] = MapAt[l]) = k
        BY <1>3, MapAtOnce
    <2> QED BY <1>2, <2>1, <2>2
<1>5. ~IsMapAt(DirectorySector) /\ ~IsMapAt(RootTable) /\ ~IsMapPlace(RootTable)
      /\ DirectorySector # RootTable /\ DirectorySector \in Sector /\ RootTable \in Sector
    BY <1>3, SystemSectorsAre, FormatIs
<1>6. d[DirectorySector] = Header(RootHdr) /\ d[RootTable] = Table(EmptyTable)
    BY <1>2, <1>5
<1>7. \A k \in 1..MapSectors : d[MapPlace(k)] = MapPart(k, SystemSectors)
    <2> TAKE k \in 1..MapSectors
    <2>1. MapPlace(k) \in Sector /\ IsMapPlace(MapPlace(k)) /\ ~IsMapAt(MapPlace(k))
          /\ MapPlace(k) # DirectorySector
        BY <1>3, SystemSectorsAre, FormatIs
    <2>2. (CHOOSE l \in 1..MapSectors : MapPlace(k) = MapPlace(l)) = k
        BY SystemSectorsAre
    <2> QED BY <1>2, <2>1, <2>2
<1>8. \A s \in Outside : d[s] = Unwritten
    <2> TAKE s \in Outside
    <2>1. s \in Sector /\ ~IsMapAt(s) /\ ~IsMapPlace(s) /\ s # DirectorySector /\ s # RootTable
        BY <1>3, SystemSectorsAre DEF Outside
    <2> QED BY <1>2, <2>1
<1>9. \A k \in 1..MapSectors :
        /\ d[MapPlace(k)] \in [kind : {"map"}, marks : SUBSET PartOf(k)]
        /\ SystemSectors \cap PartOf(k) \subseteq d[MapPlace(k)].marks
    BY <1>7, MapPartIs, FormatIs
<1>10. d[RootTable].kind = "table" /\ TableOutside(d[RootTable].table)
    <2>1. TableOutside(EmptyTable)
        BY DEF TableOutside, EmptyTable
    <2> QED BY <1>6, <2>1, KindsAre
<1>11. \A s \in Outside : GoodBlock(d[s])
    BY <1>8 DEF GoodBlock
<1>12. SystemOn(d)
    BY <1>2, <1>4, <1>6, <1>9, <1>10, <1>11 DEF SystemOn
<1> QED BY <1>6, <1>12 DEF d

\* No operation is in progress.
LEMMA NoOpIs ==
    /\ NoOp.step = "none" /\ NoOp.name = "none" /\ NoOp.map = {} /\ NoOp.table = EmptyTable
    BY DEF NoOp

\* Formatting establishes the invariant.
LEMMA InitSystem == Init => SystemInv
<1> SUFFICES ASSUME Init PROVE SystemInv
    OBVIOUS
<1>1. SystemOn(disk)
    BY FormattedIs DEF Init
<1>2. cuts \in 0..MaxCuts
    BY FileSystemAssumption DEF Init
<1> QED BY <1>1, <1>2 DEF Init, SystemInv

-----------------------------------------------------------------------------
(* Every step keeps the system's files                                     *)

\* Where OpenDir's variable may point without harm to the map's file.
UninitOutsideMap == UninitSectors \cap ToSet(MapAt) = {}

\* fileDescriptor, when it is open.
LEMMA OpenFdIs ==
    ASSUME NEW f, f \in {Null, Deleted} \/ FdOK(f), f.kind = "open"
    PROVE  FdOK(f)
    BY DEF Null, Deleted

\* An operation goes to its next step, or to the next sector of this one.
LEMMA OpGoes ==
    ASSUME NEW o, NEW f, NEW g, OpOK(o, f), NEW st \in {"table", "newtable", "map", "open", "data"},
           st = "data" => g.kind = "open"
    PROVE  OpOK([o EXCEPT !.step = st, !.k = 1], g)
<1> DEFINE n == [o EXCEPT !.step = st, !.k = 1]
<1>1. DOMAIN o = OpFields
    BY DEF OpOK
<1>2. /\ DOMAIN n = OpFields /\ n.step = st /\ n.k = 1
      /\ n.path = o.path /\ n.sector = o.sector /\ n.map = o.map /\ n.table = o.table
    BY <1>1 DEF OpFields
<1>3. 1 \in 1..MapSectors
    BY MapSectorsIs
<1> HIDE DEF n
<1>4. OpOK(n, g)
    BY <1>2, <1>3 DEF OpOK
<1> QED BY <1>4 DEF n

\* An operation goes on with the next sector of its step.
LEMMA OpCounts ==
    ASSUME NEW o, NEW f, OpOK(o, f),
           \/ o.step = "header" /\ o.k < Len(o.hdr)
           \/ o.step = "map" /\ o.k < MapSectors
    PROVE  OpOK([o EXCEPT !.k = @ + 1], f)
<1> DEFINE n == [o EXCEPT !.k = @ + 1]
<1>1. DOMAIN o = OpFields
    BY DEF OpOK
<1>2. /\ DOMAIN n = OpFields /\ n.step = o.step /\ n.k = o.k + 1 /\ n.hdr = o.hdr
      /\ n.path = o.path /\ n.sector = o.sector /\ n.map = o.map /\ n.table = o.table
    BY <1>1 DEF OpFields
<1> HIDE DEF n
<1>3. CASE o.step = "header" /\ o.k < Len(o.hdr)
    <2>1. o.k \in 1..Len(o.hdr) /\ Len(o.hdr) \in Nat
        BY <1>3, FileIs DEF OpOK, FileOutside
    <2>2. o.k + 1 \in 1..Len(o.hdr)
        BY <1>3, <2>1
    <2>3. OpOK(n, f)
        BY <1>2, <1>3, <2>2 DEF OpOK
    <2> QED BY <2>3 DEF n
<1>4. CASE o.step = "map" /\ o.k < MapSectors
    <2>1. o.k \in 1..MapSectors /\ MapSectors \in Nat
        BY <1>4, MapSectorsIs DEF OpOK
    <2>2. o.k + 1 \in 1..MapSectors
        BY <1>4, <2>1
    <2>3. OpOK(n, f)
        BY <1>2, <1>4, <2>2 DEF OpOK
    <2> QED BY <2>3 DEF n
<1> QED BY <1>3, <1>4

\* Steps that write nothing and end the operation.
LEMMA EndsSystem ==
    ASSUME SystemInv, disk' = disk, op' = NoOp,
           phase' \in {"main", "user", "garbage", "freed"},
           fd' = fd \/ fd' \in {Null, Deleted}, cuts' \in 0..MaxCuts
    PROVE  SystemInv'
<1>1. SystemOn(disk)'
    BY DEF SystemInv
<1>2. (fd \in {Null, Deleted} \/ FdOK(fd))'
    BY DEF SystemInv
<1> QED BY <1>1, <1>2 DEF SystemInv

\* Nothing changes.
LEMMA StutterSystem ==
    ASSUME SystemInv, UNCHANGED vars PROVE SystemInv'
    BY DEF SystemInv, vars

\* What ends an operation leaves the disk.
LEMMA TakesGarbageSystem ==
    ASSUME SystemInv, TakesGarbage PROVE SystemInv'
<1>1. cuts' \in 0..MaxCuts
    BY DEF SystemInv, TakesGarbage
<1> QED BY <1>1, EndsSystem DEF TakesGarbage

\* The kernel boots again.
LEMMA RebootSystem ==
    ASSUME SystemInv, Reboot, disk' = disk, cuts' \in 0..MaxCuts PROVE SystemInv'
    BY EndsSystem DEF Reboot

\* An operation fails.
LEMMA FailsSystem ==
    ASSUME SystemInv, Fails \/ FailsAndDeletesUninit PROVE SystemInv'
<1>1. CASE UNCHANGED vars
    BY <1>1, StutterSystem
<1>2. CASE Reboot /\ UNCHANGED <<disk, cuts>>
    <2>1. cuts' \in 0..MaxCuts
        BY <1>2 DEF SystemInv
    <2> QED BY <1>2, <2>1, RebootSystem
<1> QED BY <1>1, <1>2 DEF Fails, FailsAndDeletesUninit

\* A new entry in a table.
LEMMA NewEntry ==
    ASSUME NEW t, TableOutside(t), NEW n, NEW s \in Outside, NEW b \in BOOLEAN
    PROVE  TableOutside(Add(t, n, s, b))
<1> DEFINE e == [sector |-> s, isDir |-> b]
           u == [m \in DOMAIN t \cup {n} |-> IF m = n THEN e ELSE t[m]]
<1>1. Add(t, n, s, b) = u
    BY DEF Add
<1>2. e.sector = s /\ e.isDir = b
    OBVIOUS
<1> HIDE DEF e
<1>3. DOMAIN u = DOMAIN t \cup {n} /\ \A m \in DOMAIN u : u[m] = IF m = n THEN e ELSE t[m]
    OBVIOUS
<1> HIDE DEF u
<1>4. TableOutside(u)
    BY <1>2, <1>3 DEF TableOutside
<1> QED BY <1>1, <1>4

\* What Allocate takes from a map that has the system's sectors is outside.
LEMMA AllocatedOutside ==
    ASSUME NEW map, SystemSectors \subseteq map, map \subseteq Sector, NEW size \in Nat,
           Allocate(map, size).ok
    PROVE  /\ FileOutside(Allocate(map, size).hdr)
           /\ NamedBy(Allocate(map, size).hdr) \subseteq Sector \ map
           /\ Allocate(map, size).map = map \cup NamedBy(Allocate(map, size).hdr)
           /\ Allocate(map, size).map \subseteq Sector
<1> DEFINE a == Allocate(map, size)
<1>1. /\ IsFile(a.hdr) /\ NamedBy(a.hdr) \cap map = {}
      /\ a.map = map \cup NamedBy(a.hdr)
    BY AllocateTakesClearSectors
<1> HIDE DEF a
<1>2. NamedBy(a.hdr) \subseteq Sector
    <2>1. DataSectors(a.hdr) \subseteq Sector
        BY <1>1, DataSectorsAre
    <2>2. NextSectors(a.hdr) \subseteq Sector
        <3>1. \A k \in 1..(Len(a.hdr) - 1) : k \in 1..Len(a.hdr) /\ k < Len(a.hdr)
            BY <1>1, FileIs
        <3> QED BY <1>1, <3>1 DEF NextSectors, IsFile
    <2> QED BY <2>1, <2>2 DEF NamedBy
<1>3. NamedBy(a.hdr) \subseteq Outside
    BY <1>1, <1>2 DEF Outside
<1> QED BY <1>1, <1>2, <1>3 DEF FileOutside, a

\* The operation that Begin starts.
BegunOp(name, p, sector, alloc, table) ==
    [name   |-> name,
     path   |-> p,
     sector |-> sector,
     hdr    |-> alloc.hdr,
     table  |-> Add(table, Last(p), sector, name = "mkdir"),
     map    |-> alloc.map,
     step   |-> "header",
     k      |-> 1]

\* Begin fails, or finds a sector for the first header and room for the file.
LEMMA BeginIs ==
    ASSUME SystemInv, NEW name, NEW p \in Paths, NEW size \in Nat, Begin(name, p, size),
           NEW parent, parent = Find(disk, Front(p)),
           NEW sector, sector = Clear(FreeMap(disk))[1],
           NEW alloc, alloc = Allocate(FreeMap(disk) \cup {sector}, size)
    PROVE  \/ TakesGarbage /\ (parent = Garbage \/ (parent >= 0 /\ ~IsDirectory(disk, parent)))
           \/ Fails \/ FailsAndDeletesUninit
           \/ /\ op' = BegunOp(name, p, sector, alloc, TableAt(disk, parent))
              /\ UNCHANGED <<disk, phase, fd, cuts>>
              /\ parent \in DirPlace /\ IsDirectory(disk, parent)
              /\ Last(p) \notin DOMAIN TableAt(disk, parent)
              /\ sector \in Sector \ FreeMap(disk)
              /\ alloc.ok
<1> DEFINE clear == Clear(FreeMap(disk))
           C1 == parent = Garbage \/ (parent >= 0 /\ ~IsDirectory(disk, parent))
           C2 == parent = NoSector \/ Last(p) \in DOMAIN TableAt(disk, parent)
           C3 == \/ clear = <<>>
                 \/ Cardinality(DOMAIN TableAt(disk, parent)) = NumDirEntries
                 \/ ~alloc.ok
           Begun == op' = BegunOp(name, p, sector, alloc, TableAt(disk, parent))
                    /\ UNCHANGED <<disk, phase, fd, cuts>>
<1>1. IF C1 THEN TakesGarbage ELSE IF C2 THEN FailsAndDeletesUninit
      ELSE IF C3 THEN Fails ELSE Begun
    BY DEF Begin, BegunOp
<1>2. parent \in DirPlace \cup {NoSector, Garbage}
    BY FindPath DEF SystemInv
<1>3. ASSUME ~C1, ~C2, ~C3
      PROVE  /\ parent \in DirPlace /\ IsDirectory(disk, parent)
             /\ Last(p) \notin DOMAIN TableAt(disk, parent)
             /\ sector \in Sector \ FreeMap(disk) /\ alloc.ok
    <2>1. parent \in DirPlace /\ IsDirectory(disk, parent)
        BY <1>2, <1>3, DirPlaceIs
    <2>2. sector \in Sector \ FreeMap(disk)
        <3>1. clear \in Seq(Sector \ FreeMap(disk)) /\ clear # <<>>
            BY <1>3, ClearIs
        <3> HIDE DEF clear
        <3>2. 1 \in 1..Len(clear)
            BY <3>1, EmptySeq
        <3> QED BY <3>1, <3>2, ElementOfSeq DEF clear
    <2> QED BY <1>3, <2>1, <2>2
<1> HIDE DEF C1, C2, C3, Begun
<1> QED BY <1>1, <1>3 DEF Begun, C1

\* Create, CreateDirectory and Copy start.
LEMMA BeginSystem ==
    ASSUME SystemInv, NEW name, NEW p \in Paths, NEW size \in Nat, Begin(name, p, size)
    PROVE  SystemInv'
<1> DEFINE parent == Find(disk, Front(p))
           sector == Clear(FreeMap(disk))[1]
           alloc == Allocate(FreeMap(disk) \cup {sector}, size)
           table == TableAt(disk, parent)
           Begun == /\ op' = BegunOp(name, p, sector, alloc, table)
                    /\ UNCHANGED <<disk, phase, fd, cuts>>
                    /\ parent \in DirPlace /\ IsDirectory(disk, parent)
                    /\ sector \in Sector \ FreeMap(disk)
                    /\ alloc.ok
<1>1. TakesGarbage \/ Fails \/ FailsAndDeletesUninit \/ Begun
    BY BeginIs
<1>2. CASE Begun
    <2> DEFINE b == BegunOp(name, p, sector, alloc, table)
    <2>1. SystemOn(disk) /\ SystemSectors \subseteq FreeMap(disk) /\ FreeMap(disk) \subseteq Sector
        BY FreeMapIs DEF SystemInv
    <2>2. TableOutside(table)
        BY <1>2, <2>1, TableAtIs
    <2>3. sector \in Outside /\ sector \in Sector
        BY <1>2, <2>1 DEF Outside
    <2> HIDE DEF parent, sector, table
    <2>4. FileOutside(alloc.hdr) /\ SystemSectors \subseteq alloc.map /\ alloc.map \subseteq Sector
        <3> DEFINE map == FreeMap(disk) \cup {sector}
        <3>1. SystemSectors \subseteq map /\ map \subseteq Sector
            BY <2>1, <2>3
        <3>2. alloc = Allocate(map, size) /\ Allocate(map, size).ok
            BY <1>2
        <3> HIDE DEF map, alloc
        <3>3. /\ FileOutside(Allocate(map, size).hdr)
              /\ Allocate(map, size).map = map \cup NamedBy(Allocate(map, size).hdr)
              /\ Allocate(map, size).map \subseteq Sector
            BY <3>1, <3>2, AllocatedOutside
        <3> QED BY <3>1, <3>2, <3>3
    <2> HIDE DEF alloc
    <2>5. 1 \in 1..Len(alloc.hdr)
        BY <2>4, FileIs DEF FileOutside
    <2> DEFINE t == Add(table, Last(p), sector, name = "mkdir")
    <2>6. TableOutside(t)
        BY <2>2, <2>3, NewEntry
    <2>7. /\ DOMAIN b = OpFields /\ b.path = p /\ b.sector = sector /\ b.hdr = alloc.hdr
          /\ b.table = t /\ b.map = alloc.map /\ b.step = "header" /\ b.k = 1
        <3> HIDE DEF t
        <3> QED BY DEF BegunOp, OpFields, t
    <2> HIDE DEF b, t
    <2>8. OpOK(b, fd')
        BY <2>3, <2>4, <2>5, <2>6, <2>7 DEF OpOK
    <2>9. op' = b
        BY <1>2 DEF b
    <2> QED BY <1>2, <2>8, <2>9 DEF SystemInv
<1> HIDE DEF Begun
<1> QED BY <1>1, <1>2, TakesGarbageSystem, FailsSystem

\* An operation in progress is what it should be.
LEMMA InOp ==
    ASSUME SystemInv, op.step # "none"
    PROVE  OpOK(op, fd)
    BY NoOpIs DEF SystemInv

\* What a step has to keep.
LEMMA StepSystem ==
    ASSUME SystemInv, SystemOn(disk'), UNCHANGED <<phase, cuts>>,
           fd' \in {Null, Deleted} \/ FdOK(fd'),
           op' = NoOp \/ OpOK(op', fd')
    PROVE  SystemInv'
    BY DEF SystemInv

\* Goto keeps the operation what it should be.
LEMMA GotoIs ==
    ASSUME SystemInv, OpOK(op, fd), NEW st \in {"table", "newtable", "map", "open", "data"}, Goto(st),
           st = "data" => fd'.kind = "open"
    PROVE  OpOK(op', fd')
    BY OpGoes DEF Goto

\* The headers of a file outside are good, and so is each of their sectors.
LEMMA HeaderWritten ==
    ASSUME NEW hdr, FileOutside(hdr), NEW s \in Outside, NEW k \in 1..Len(hdr)
    PROVE  /\ HeaderSectors(s, hdr)[k] \in Outside
           /\ GoodBlock(Header(hdr[k]))
<1>1. IsFile(hdr) /\ NextSectors(hdr) \subseteq Outside /\ DataSectors(hdr) \subseteq Outside
    BY DEF FileOutside, NamedBy
<1>2. HeaderSectors(s, hdr)[k] \in Outside
    <2>1. s \in Sector
        BY DirPlaceIs
    <2> QED BY <1>1, <2>1, HeaderSectorsAre
<1> DEFINE h == hdr[k]
<1>3. h \in HeaderRec /\ Len(h.data) <= NumDirect
      /\ (k < Len(hdr) => Len(h.data) = NumDirect) /\ (k = Len(hdr) => h.next = NoSector)
    BY <1>1, FileIs DEF IsFile
<1>4. h.next \in Outside \cup {NoSector}
    <2>1. CASE k < Len(hdr)
        <3>1. Len(hdr) \in Nat /\ k \in 1..(Len(hdr) - 1)
            BY <1>1, <2>1, FileIs
        <3> QED BY <1>1, <3>1 DEF NextSectors
    <2>2. CASE k = Len(hdr)
        BY <1>3, <2>2
    <2>3. Len(hdr) \in Nat
        BY <1>1, FileIs
    <2> QED BY <2>1, <2>2, <2>3
<1>5. ToSet(h.data) \subseteq Outside
    <2>1. k \in DOMAIN hdr
        BY <1>1, FileIs
    <2> QED BY <1>1, <2>1 DEF DataSectors
<1>6. h.next # NoSector => Len(h.data) = NumDirect
    <2>1. Len(hdr) \in Nat
        BY <1>1, FileIs
    <2> QED BY <1>3, <2>1
<1> HIDE DEF h
<1>7. HeaderOutside(h)
    BY <1>3, <1>4, <1>5, <1>6 DEF HeaderOutside
<1>8. GoodBlock(Header(h))
    <2>1. Header(h) \in [kind : {"header"}, hdr : HeaderRec]
        BY <1>3 DEF Header
    <2> QED BY <1>7, <2>1, KindsAre DEF GoodBlock
<1> QED BY <1>2, <1>8 DEF h

\* The header of a new file is written outside.
LEMMA WriteHeaderSystem ==
    ASSUME SystemInv, WriteHeader PROVE SystemInv'
<1>1. op.step = "header"
    BY DEF WriteHeader, At
<1>2. OpOK(op, fd)
    BY <1>1, InOp
<1>3. FileOutside(op.hdr) /\ op.k \in 1..Len(op.hdr) /\ op.sector \in Outside
    BY <1>1, <1>2 DEF OpOK
<1> DEFINE x == HeaderSectors(op.sector, op.hdr)[op.k]
           b == Header(op.hdr[op.k])
<1>4. disk' = [disk EXCEPT ![x] = b]
    BY DEF WriteHeader, WriteSector
<1>5. x \in Outside /\ GoodBlock(b)
    BY <1>3, HeaderWritten
<1> HIDE DEF x, b
<1>6. SystemOn(disk')
    BY <1>4, <1>5, WriteOutside DEF SystemInv
<1>7. OpOK(op', fd')
    <2>1. CASE op.k < Len(op.hdr) /\ op' = [op EXCEPT !.k = @ + 1]
        <3>1. OpOK([op EXCEPT !.k = @ + 1], fd)
            BY <1>1, <1>2, <2>1, OpCounts
        <3> QED BY <2>1, <3>1 DEF WriteHeader
    <2>2. CASE Goto("table")
        BY <1>2, <2>2, GotoIs
    <2> QED BY <2>1, <2>2 DEF WriteHeader
<1>8. UNCHANGED <<phase, fd, cuts>>
    BY DEF WriteHeader
<1> QED BY <1>6, <1>7, <1>8, StepSystem DEF SystemInv

\* The sector a table is written to through the header at s.
LEMMA TablePlaceIs ==
    ASSUME NEW d, SystemOn(d), NEW s \in Sector, s \notin ToSet(MapAt), HasHeaders(d, s),
           FileLength(FetchFrom(d, s)) # 0
    PROVE  ByteToSector(FetchFrom(d, s), 0) \in Outside \cup {RootTable}
<1> DEFINE hdr == FetchFrom(d, s)
<1>1. IsFile(hdr) /\ IsHeader(d, s)
    BY FetchedIs
<1>2. 0 \in 0..(FileLength(hdr) - 1)
    <2>1. FileLength(hdr) \in Nat
        BY <1>1, FileLengthIs
    <2> HIDE DEF hdr
    <2>2. FileLength(hdr) # 0
        BY DEF hdr
    <2> QED BY <2>1, <2>2
<1>3. ByteToSector(hdr, 0) \in DataSectors(hdr)
    BY <1>1, <1>2, ByteToSectorIs
<1>4. CASE s \in Outside
    <2>1. DataSectors(hdr) \subseteq Outside
        BY <1>4, FetchedOutside DEF FileOutside, NamedBy
    <2> QED BY <1>3, <2>1
<1>5. CASE s = DirectorySector
    <2>1. hdr = <<RootHdr>>
        BY <1>5, RootIs
    <2>2. DataSectors(<<RootHdr>>) = {RootTable}
        <3> DEFINE f == <<RootHdr>>
        <3>1. DOMAIN f = {1} /\ f[1] = RootHdr
            OBVIOUS
        <3> HIDE DEF f
        <3>2. DataSectors(f) = ToSet(RootHdr.data)
            BY <3>1 DEF DataSectors
        <3>3. ToSet(<<RootTable>>) = {RootTable}
            BY DEF ToSet
        <3> QED BY <3>2, <3>3, FormatIs DEF f
    <2> QED BY <1>3, <2>1, <2>2
<1>6. CASE s \in SystemSectors /\ s # DirectorySector
    <2>1. s = RootTable \/ (\E k \in 1..Len(MapHdr) : s = MapAt[k])
          \/ \E k \in 1..MapSectors : s = MapPlace(k)
        BY <1>6, SystemSectorsAre
    <2>2. s # RootTable
        BY <1>1 DEF SystemOn, IsHeader
    <2>3. ASSUME NEW k \in 1..MapSectors, s = MapPlace(k) PROVE FALSE
        <3>1. d[s].kind = "map"
            BY <2>3 DEF SystemOn
        <3> QED BY <1>1, <3>1 DEF IsHeader
    <2>4. ASSUME NEW k \in 1..Len(MapHdr), s = MapAt[k] PROVE FALSE
        <3>1. DOMAIN MapAt = 1..Len(MapHdr)
            BY MapAtIs, LenProperties
        <3> QED BY <2>4, <3>1 DEF ToSet
    <2> QED BY <2>1, <2>2, <2>3, <2>4
<1> QED BY <1>4, <1>5, <1>6 DEF Outside

\* Writing a table through that header.
LEMMA TableWritten ==
    ASSUME NEW d, SystemOn(d), NEW x \in Outside \cup {RootTable}, NEW t, TableOutside(t)
    PROVE  SystemOn([d EXCEPT ![x] = Table(t)])
<1>1. GoodBlock(Table(t))
    BY KindsAre DEF GoodBlock
<1>2. CASE x \in Outside
    BY <1>1, <1>2, WriteOutside
<1>3. CASE x = RootTable
    BY <1>3, WriteRootTable
<1> QED BY <1>2, <1>3

\* No table is written through a header of the map's file.
LEMMA TableTargetsAre ==
    ASSUME SystemInv, OpOK(op, fd), UninitOutsideMap, NEW s \in TableTargets
    PROVE  s \notin ToSet(MapAt)
<1>1. CASE s \in UninitSectors
    BY <1>1 DEF UninitOutsideMap
<1>2. CASE s = Find(disk, Front(op.path))
    <2>1. s \in Outside \cup {DirectorySector, NoSector, Garbage}
        BY <1>2, FindPath DEF SystemInv, OpOK, DirPlace
    <2>2. ToSet(MapAt) \subseteq SystemSectors \ {DirectorySector}
        <3>1. DOMAIN MapAt = 1..Len(MapHdr)
            BY MapAtIs, LenProperties
        <3> QED BY <3>1, SystemSectorsAre DEF ToSet
    <2>3. SystemSectors \subseteq Sector
        BY FormatIs
    <2>4. NoSector \notin Sector /\ Garbage \notin Sector
        BY DirPlaceIs
    <2> QED BY <2>1, <2>2, <2>3, <2>4 DEF Outside
<1> QED BY <1>1, <1>2 DEF TableTargets

\* What follows the table.
LEMMA AfterTableIs ==
    ASSUME SystemInv, OpOK(op, fd), AfterTable, fd' = fd
    PROVE  op' = NoOp \/ OpOK(op', fd')
    BY GotoIs DEF AfterTable

\* A table is written to the root or outside.
LEMMA WriteTableSystem ==
    ASSUME SystemInv, UninitOutsideMap, WriteTable PROVE SystemInv'
<1>1. op.step = "table" /\ SystemOn(disk)
    BY DEF WriteTable, At, SystemInv
<1>2. OpOK(op, fd)
    BY <1>1, InOp
<1>3. TableOutside(op.table)
    BY <1>2 DEF OpOK
<1>4. PICK s \in TableTargets :
        IF CanOpen(s)
        THEN /\ LET hdr == FetchFrom(disk, s)
                IN  IF FileLength(hdr) = 0
                    THEN UNCHANGED disk
                    ELSE WriteSector(ByteToSector(hdr, 0), Table(op.table))
             /\ AfterTable
             /\ UNCHANGED <<phase, fd, cuts>>
        ELSE IF s # NoSector
        THEN TakesGarbage
        ELSE /\ cuts < MaxCuts
             /\ cuts' = cuts + 1
             /\ Reboot
             /\ UNCHANGED disk
    BY DEF WriteTable
<1>5. CASE ~CanOpen(s) /\ s # NoSector
    BY <1>4, <1>5, TakesGarbageSystem
<1>6. CASE ~CanOpen(s) /\ s = NoSector
    <2>1. cuts' \in 0..MaxCuts
        BY <1>4, <1>6, FileSystemAssumption DEF SystemInv
    <2> QED BY <1>4, <1>6, <2>1, RebootSystem
<1>7. CASE CanOpen(s)
    <2>1. s \in Sector /\ HasHeaders(disk, s) /\ s \notin ToSet(MapAt)
        BY <1>2, <1>4, <1>7, TableTargetsAre DEF CanOpen, IsSector
    <2> DEFINE x == ByteToSector(FetchFrom(disk, s), 0)
    <2>2. SystemOn(disk')
        <3>1. CASE FileLength(FetchFrom(disk, s)) = 0
            BY <1>1, <1>4, <1>7, <3>1
        <3>2. CASE FileLength(FetchFrom(disk, s)) # 0
            <4>1. x \in Outside \cup {RootTable}
                BY <1>1, <2>1, <3>2, TablePlaceIs
            <4>2. disk' = [disk EXCEPT ![x] = Table(op.table)]
                BY <1>4, <1>7, <3>2 DEF WriteSector
            <4> HIDE DEF x
            <4> QED BY <1>1, <1>3, <4>1, <4>2, TableWritten
        <3> QED BY <3>1, <3>2
    <2>3. AfterTable /\ UNCHANGED <<phase, fd, cuts>>
        BY <1>4, <1>7
    <2>4. op' = NoOp \/ OpOK(op', fd')
        BY <1>2, <2>3, AfterTableIs
    <2> QED BY <2>2, <2>3, <2>4, StepSystem DEF SystemInv
<1> QED BY <1>5, <1>6, <1>7

\* So is the table of a new directory.
LEMMA WriteNewTableSystem ==
    ASSUME SystemInv, WriteNewTable PROVE SystemInv'
<1>1. op.step = "newtable" /\ SystemOn(disk)
    BY DEF WriteNewTable, At, SystemInv
<1>2. OpOK(op, fd)
    BY <1>1, InOp
<1>3. op.sector \in Outside
    BY <1>2 DEF OpOK
<1> DEFINE hdr == FetchFrom(disk, op.sector)
           C == HasHeaders(disk, op.sector) /\ FileLength(hdr) > 0
<1>4. IF C
      THEN /\ WriteSector(ByteToSector(hdr, 0), Table(EmptyTable))
           /\ Goto("map")
           /\ UNCHANGED <<phase, fd, cuts>>
      ELSE TakesGarbage
    BY DEF WriteNewTable
<1>5. CASE ~C
    BY <1>4, <1>5, TakesGarbageSystem
<1>6. CASE C
    <2>1. FileOutside(hdr)
        BY <1>1, <1>3, <1>6, FetchedOutside
    <2> DEFINE x == ByteToSector(hdr, 0)
    <2>2. x \in Outside
        <3>1. IsFile(hdr) /\ DataSectors(hdr) \subseteq Outside
            BY <2>1 DEF FileOutside, NamedBy
        <3>2. 0 \in 0..(FileLength(hdr) - 1)
            <4>1. FileLength(hdr) \in Nat /\ FileLength(hdr) > 0
                BY <1>6, <3>1, FileLengthIs
            <4> QED BY <4>1
        <3> QED BY <3>1, <3>2, ByteToSectorIs
    <2>3. GoodBlock(Table(EmptyTable))
        BY KindsAre DEF GoodBlock, TableOutside, EmptyTable
    <2>4. disk' = [disk EXCEPT ![x] = Table(EmptyTable)] /\ Goto("map") /\ UNCHANGED <<phase, fd, cuts>>
        BY <1>4, <1>6 DEF WriteSector
    <2> HIDE DEF x, hdr, C
    <2>5. SystemOn(disk')
        BY <1>1, <2>2, <2>3, <2>4, WriteOutside
    <2>6. OpOK(op', fd')
        BY <1>2, <2>4, GotoIs
    <2> QED BY <2>4, <2>5, <2>6, StepSystem DEF SystemInv
<1> HIDE DEF C
<1> QED BY <1>5, <1>6

\* The map is written to its parts, with the system's sectors marked.
LEMMA WriteMapSystem ==
    ASSUME SystemInv, WriteMap PROVE SystemInv'
<1>1. op.step = "map" /\ SystemOn(disk)
    BY DEF WriteMap, At, SystemInv
<1>2. OpOK(op, fd)
    BY <1>1, InOp
<1>3. op.k \in 1..MapSectors /\ op.map \subseteq Sector /\ SystemSectors \subseteq op.map
    BY <1>1, <1>2 DEF OpOK
<1>4. ByteToSector(FetchFrom(disk, FreeMapSector), op.k - 1) = MapPlace(op.k)
    BY <1>1, MapFetched DEF MapPlace
<1>5. disk' = [disk EXCEPT ![MapPlace(op.k)] = MapPart(op.k, op.map)] /\ UNCHANGED <<phase, fd, cuts>>
    BY <1>4 DEF WriteMap, WriteSector
<1>6. SystemOn(disk')
    BY <1>1, <1>3, <1>5, WriteMapPart
<1>7. op' = NoOp \/ OpOK(op', fd')
    <2>1. CASE op.k < MapSectors /\ op' = [op EXCEPT !.k = @ + 1]
        <3>1. OpOK([op EXCEPT !.k = @ + 1], fd)
            BY <1>1, <1>2, <2>1, OpCounts
        <3> QED BY <1>5, <2>1, <3>1
    <2>2. CASE Goto("table")
        BY <1>2, <2>2, GotoIs
    <2>3. CASE Goto("open")
        BY <1>2, <2>3, GotoIs
    <2> QED BY <2>1, <2>2, <2>3 DEF WriteMap
<1> QED BY <1>5, <1>6, <1>7, StepSystem DEF SystemInv

\* What Open sets fileDescriptor to.
LEMMA OpenFileIs ==
    ASSUME SystemInv, NEW p \in Paths, Find(disk, p) >= 0, HasHeaders(disk, Find(disk, p))
    PROVE  FdOK(OpenFile(disk, p)) /\ OpenFile(disk, p).kind = "open"
<1> DEFINE s == Find(disk, p)
           f == OpenFile(disk, p)
<1>1. s \in Outside /\ SystemOn(disk)
    BY FindPath, DirPlaceIs DEF SystemInv
<1>2. /\ DOMAIN f = {"kind", "sector", "hdr", "pos"}
      /\ f.kind = "open" /\ f.sector = s /\ f.hdr = FetchFrom(disk, s) /\ f.pos = 0
    BY DEF OpenFile
<1> HIDE DEF f
<1>3. FileOutside(f.hdr)
    BY <1>1, <1>2, FetchedOutside
<1>4. f.pos \in 0..FileLength(f.hdr)
    <2>1. FileLength(f.hdr) \in Nat
        BY <1>3, FileLengthIs DEF FileOutside
    <2> QED BY <1>2, <2>1
<1>5. FdOK(f) /\ f.kind = "open"
    BY <1>1, <1>2, <1>3, <1>4 DEF FdOK
<1> QED BY <1>5 DEF f

\* Reading or writing at the position of an open file.
LEMMA PositionOutside ==
    ASSUME FdOK(fd), fd.pos < FileLength(fd.hdr)
    PROVE  /\ ByteToSector(fd.hdr, fd.pos) \in Outside
           /\ FdOK([fd EXCEPT !.pos = @ + 1])
           /\ [fd EXCEPT !.pos = @ + 1].kind = "open"
<1>1. IsFile(fd.hdr) /\ DataSectors(fd.hdr) \subseteq Outside
    BY DEF FdOK, FileOutside, NamedBy
<1>2. FileLength(fd.hdr) \in Nat /\ fd.pos \in 0..FileLength(fd.hdr)
    BY <1>1, FileLengthIs DEF FdOK
<1> DEFINE l == FileLength(fd.hdr)
<1> HIDE DEF l
<1>3. l \in Nat /\ fd.pos \in 0..l /\ fd.pos < l
    BY <1>2 DEF l
<1>4. fd.pos \in 0..(l - 1) /\ fd.pos + 1 \in 0..l
    BY <1>3
<1>5. ByteToSector(fd.hdr, fd.pos) \in Outside
    BY <1>1, <1>4, ByteToSectorIs DEF l
<1> DEFINE f == [fd EXCEPT !.pos = @ + 1]
<1>6. /\ DOMAIN f = {"kind", "sector", "hdr", "pos"}
      /\ f.kind = fd.kind /\ f.sector = fd.sector /\ f.hdr = fd.hdr /\ f.pos = fd.pos + 1
    BY DEF FdOK
<1> HIDE DEF f
<1>7. FdOK(f) /\ f.kind = "open"
    BY <1>4, <1>6 DEF FdOK, l
<1> QED BY <1>5, <1>7 DEF f

\* Data is written outside.
LEMMA DataWritten ==
    ASSUME NEW d, SystemOn(d), NEW x \in Outside, NEW v \in Values
    PROVE  SystemOn([d EXCEPT ![x] = Data(v)])
<1>1. GoodBlock(Data(v))
    BY DEF GoodBlock, Data
<1> QED BY <1>1, WriteOutside

\* Copy opens the file, writes it and closes it.
LEMMA CopyOpensSystem ==
    ASSUME SystemInv, CopyOpens PROVE SystemInv'
<1>1. op.step = "open" /\ SystemOn(disk)
    BY DEF CopyOpens, At, SystemInv
<1>2. OpOK(op, fd)
    BY <1>1, InOp
<1>3. op.path \in Paths
    BY <1>2 DEF OpOK
<1> DEFINE C == Exists(disk, op.path) /\ HasHeaders(disk, Find(disk, op.path))
<1>4. CASE ~C
    BY <1>4, TakesGarbageSystem DEF CopyOpens
<1>5. CASE C
    <2>1. FdOK(OpenFile(disk, op.path)) /\ OpenFile(disk, op.path).kind = "open"
        BY <1>3, <1>5, OpenFileIs DEF Exists
    <2>2. fd' = OpenFile(disk, op.path) /\ Goto("data") /\ UNCHANGED <<disk, phase, cuts>>
        BY <1>5 DEF CopyOpens
    <2>3. OpOK(op', fd')
        BY <1>2, <2>1, <2>2, GotoIs
    <2>4. SystemOn(disk')
        BY <1>1, <2>2
    <2> QED BY <2>1, <2>2, <2>3, <2>4, StepSystem
<1> QED BY <1>4, <1>5

\* Copy writes.
LEMMA CopyWritesSystem ==
    ASSUME SystemInv, CopyWrites PROVE SystemInv'
<1>1. op.step = "data" /\ SystemOn(disk) /\ fd.pos < FileLength(fd.hdr)
    BY DEF CopyWrites, At, SystemInv
<1>2. OpOK(op, fd)
    BY <1>1, InOp
<1>3. FdOK(fd)
    BY <1>1, <1>2, OpenFdIs DEF OpOK, SystemInv
<1>4. PICK v \in Values : WriteSector(ByteToSector(fd.hdr, fd.pos), Data(v))
    BY DEF CopyWrites
<1>5. SystemOn(disk')
    BY <1>1, <1>3, <1>4, PositionOutside, DataWritten DEF WriteSector
<1>6. fd' = [fd EXCEPT !.pos = @ + 1] /\ UNCHANGED <<phase, op, cuts>>
    BY DEF CopyWrites
<1>7. FdOK(fd') /\ fd'.kind = "open"
    BY <1>1, <1>3, <1>6, PositionOutside
<1>8. OpOK(op', fd')
    BY <1>2, <1>6, <1>7 DEF OpOK
<1> QED BY <1>5, <1>6, <1>7, <1>8, StepSystem

\* Copy ends.
LEMMA CopyEndsSystem ==
    ASSUME SystemInv, CopyEnds PROVE SystemInv'
    BY StepSystem DEF CopyEnds, SystemInv

\* A table without a name.
Without(table, n) == [m \in DOMAIN table \ {n} |-> table[m]]

\* The operation that Remove starts.
RemoveOp(p, sector, table, map) ==
    [NoOp EXCEPT
        !.name   = "remove",
        !.path   = p,
        !.sector = sector,
        !.table  = Without(table, Last(p)),
        !.map    = map,
        !.step   = "map"]

\* Remove fails, or finds the file, whose sectors are outside.
LEMMA RemoveIs ==
    ASSUME SystemInv, NEW p \in Paths, RemoveFile(p),
           NEW parent, parent = Find(disk, Front(p)),
           NEW sector, sector = TableAt(disk, parent)[Last(p)].sector,
           NEW hdr, hdr = FetchFrom(disk, sector)
    PROVE  \/ /\ TakesGarbage
              /\ \/ parent = Garbage \/ (parent >= 0 /\ ~IsDirectory(disk, parent))
                 \/ /\ parent \in DirPlace /\ IsDirectory(disk, parent)
                    /\ Last(p) \in DOMAIN TableAt(disk, parent) /\ ~HasHeaders(disk, sector)
           \/ FailsAndDeletesUninit \/ (Reboot /\ UNCHANGED <<disk, cuts>>)
           \/ /\ op' = RemoveOp(p, sector, TableAt(disk, parent),
                                Deallocate(FreeMap(disk), hdr) \ {sector})
              /\ UNCHANGED <<disk, phase, fd, cuts>>
              /\ parent \in DirPlace /\ IsDirectory(disk, parent)
              /\ Last(p) \in DOMAIN TableAt(disk, parent)
              /\ sector \in Outside /\ HasHeaders(disk, sector)
<1> DEFINE table == TableAt(disk, parent)
           map == FreeMap(disk)
           C1 == parent = Garbage \/ (parent >= 0 /\ ~IsDirectory(disk, parent))
           C2 == parent = NoSector \/ Last(p) \notin DOMAIN table
           C3 == ~HasHeaders(disk, sector)
           C4 == ~CanDeallocate(map, hdr)
           Begun == /\ op' = RemoveOp(p, sector, table, Deallocate(map, hdr) \ {sector})
                    /\ UNCHANGED <<disk, phase, fd, cuts>>
<1>1. IF C1 THEN TakesGarbage ELSE IF C2 THEN FailsAndDeletesUninit
      ELSE IF C3 THEN TakesGarbage
      ELSE IF C4 THEN Reboot /\ UNCHANGED <<disk, cuts>> ELSE Begun
    BY DEF RemoveFile, RemoveOp, Without
<1>2. parent \in DirPlace \cup {NoSector, Garbage} /\ SystemOn(disk)
    BY FindPath DEF SystemInv
<1>3. ASSUME ~C1, ~C2
      PROVE  /\ parent \in DirPlace /\ IsDirectory(disk, parent)
             /\ Last(p) \in DOMAIN table /\ sector \in Outside
    <2>1. parent \in DirPlace /\ IsDirectory(disk, parent)
        BY <1>2, <1>3, DirPlaceIs
    <2>2. TableOutside(table)
        BY <1>2, <2>1, TableAtIs
    <2> QED BY <1>3, <2>1, <2>2 DEF TableOutside
<1> HIDE DEF C1, C2, C4, Begun
<1> QED BY <1>1, <1>3 DEF Begun, C1

\* The fields of Remove's operation.
LEMMA RemoveOpIs ==
    ASSUME NEW p, NEW sector, NEW table, NEW map,
           NEW o, o = RemoveOp(p, sector, table, map)
    PROVE  /\ DOMAIN o = OpFields /\ o.name = "remove" /\ o.path = p /\ o.sector = sector
           /\ o.table = Without(table, Last(p)) /\ o.map = map
           /\ o.step = "map" /\ o.k = 1
<1> DEFINE q == Without(table, Last(p))
<1>1. o = [NoOp EXCEPT !.name = "remove", !.path = p, !.sector = sector, !.table = q,
                       !.map = map, !.step = "map"]
    BY DEF RemoveOp
<1> HIDE DEF q
<1>2. /\ DOMAIN o = OpFields /\ o.name = "remove" /\ o.path = p /\ o.sector = sector
      /\ o.table = q /\ o.map = map /\ o.step = "map" /\ o.k = 1
    BY <1>1 DEF OpFields, NoOp
<1> QED BY <1>2 DEF q

\* Remove starts.
LEMMA RemoveFileSystem ==
    ASSUME SystemInv, NEW p \in Paths, RemoveFile(p) PROVE SystemInv'
<1> DEFINE parent == Find(disk, Front(p))
           table == TableAt(disk, parent)
           sector == table[Last(p)].sector
           hdr == FetchFrom(disk, sector)
           map == Deallocate(FreeMap(disk), hdr) \ {sector}
           o == RemoveOp(p, sector, table, map)
           Begun == /\ op' = o
                    /\ UNCHANGED <<disk, phase, fd, cuts>>
                    /\ parent \in DirPlace /\ IsDirectory(disk, parent)
                    /\ Last(p) \in DOMAIN table
                    /\ sector \in Outside /\ HasHeaders(disk, sector)
<1>1. \/ TakesGarbage \/ FailsAndDeletesUninit \/ (Reboot /\ UNCHANGED <<disk, cuts>>)
      \/ Begun
    BY RemoveIs
<1>2. CASE Reboot /\ UNCHANGED <<disk, cuts>>
    <2>1. cuts' \in 0..MaxCuts
        BY <1>2 DEF SystemInv
    <2> QED BY <1>2, <2>1, RebootSystem
<1>3. CASE Begun
    <2>1. SystemOn(disk) /\ SystemSectors \subseteq FreeMap(disk) /\ FreeMap(disk) \subseteq Sector
        BY FreeMapIs DEF SystemInv
    <2>2. TableOutside(table)
        BY <1>3, <2>1, TableAtIs
    <2>3. DataSectors(hdr) \subseteq Outside
        BY <1>3, <2>1, FetchedOutside DEF FileOutside, NamedBy
    <2>4. map \subseteq Sector /\ SystemSectors \subseteq map
        BY <1>3, <2>1, <2>3 DEF Deallocate, Outside
    <2>5. op' = o /\ UNCHANGED <<disk, phase, fd, cuts>> /\ sector \in Outside
        BY <1>3
    <2> HIDE DEF parent, table, sector, hdr, map
    <2> DEFINE t == Without(table, Last(p))
    <2>6. TableOutside(t)
        <3>1. DOMAIN t = DOMAIN table \ {Last(p)} /\ \A n \in DOMAIN t : t[n] = table[n]
            BY DEF Without
        <3> HIDE DEF t
        <3> QED BY <2>2, <3>1 DEF TableOutside
    <2>7. /\ DOMAIN o = OpFields /\ o.path = p /\ o.sector = sector
          /\ o.table = t /\ o.map = map /\ o.step = "map" /\ o.k = 1
        <3>1. o = RemoveOp(p, sector, table, map)
            OBVIOUS
        <3> HIDE DEF o
        <3> QED BY <3>1, RemoveOpIs
    <2> HIDE DEF t
    <2>8. 1 \in 1..MapSectors
        BY MapSectorsIs
    <2> HIDE DEF o
    <2>9. OpOK(o, fd')
        BY <2>4, <2>5, <2>6, <2>7, <2>8 DEF OpOK
    <2> QED BY <2>1, <2>5, <2>9, StepSystem DEF SystemInv
<1> HIDE DEF Begun
<1> QED BY <1>1, <1>2, <1>3, TakesGarbageSystem, FailsSystem

\* Open fails, or takes the step it is given.
LEMMA OpenSystem ==
    ASSUME SystemInv, op = NoOp, NEW ACTION Opened, NEW p \in Paths, Open(p, Opened),
           Opened /\ Find(disk, p) >= 0 /\ HasHeaders(disk, Find(disk, p)) => SystemInv'
    PROVE  SystemInv'
<1>1. CASE TakesGarbage
    BY <1>1, TakesGarbageSystem
<1>2. CASE Opened /\ Find(disk, p) >= 0 /\ HasHeaders(disk, Find(disk, p))
    BY <1>2
<1>3. CASE fd' = Null /\ UNCHANGED <<disk, phase, op, cuts>>
    BY <1>3, EndsSystem DEF SystemInv
<1>4. CASE Reboot /\ UNCHANGED <<disk, cuts>>
    <2>1. cuts' \in 0..MaxCuts
        BY <1>4 DEF SystemInv
    <2> QED BY <1>4, <2>1, RebootSystem
<1> QED BY <1>1, <1>2, <1>3, <1>4 DEF Open

\* Load and Open.
LEMMA LoadSystem ==
    ASSUME SystemInv, NEW p \in Paths, Load(p) PROVE SystemInv'
<1> DEFINE Opened == phase' = "user" /\ fd' = Deleted /\ UNCHANGED <<disk, op, cuts>>
<1>1. op = NoOp /\ Open(p, Opened)
    BY DEF Load, Idle
<1>2. Opened => SystemInv'
    BY <1>1, EndsSystem DEF SystemInv
<1> HIDE DEF Opened
<1> QED BY <1>1, <1>2, OpenSystem

\* A program opens a file.
LEMMA SysOpenSystem ==
    ASSUME SystemInv, NEW p \in Paths, SysOpen(p) PROVE SystemInv'
<1> DEFINE Opened == fd' = OpenFile(disk, p) /\ UNCHANGED <<disk, phase, op, cuts>>
<1>1. op = NoOp /\ Open(p, Opened)
    BY DEF SysOpen, Idle
<1>2. Opened /\ Find(disk, p) >= 0 /\ HasHeaders(disk, Find(disk, p)) => SystemInv'
    <2> SUFFICES ASSUME Opened, Find(disk, p) >= 0, HasHeaders(disk, Find(disk, p))
                 PROVE  SystemInv'
        OBVIOUS
    <2>1. FdOK(fd')
        BY OpenFileIs
    <2> QED BY <1>1, <2>1, StepSystem DEF SystemInv
<1> HIDE DEF Opened
<1> QED BY <1>1, <1>2, OpenSystem

\* Read, Write and Close.
LEMMA UsesDeletedSystem ==
    ASSUME SystemInv, op = NoOp, UsesDeleted PROVE SystemInv'
    BY EndsSystem DEF UsesDeleted, SystemInv

\* An open file in which there is still something is one.
LEMMA InFileIs ==
    ASSUME SystemInv, InFile
    PROVE  FdOK(fd) /\ fd.pos < FileLength(fd.hdr)
    BY OpenFdIs DEF InFile, SystemInv

\* A program reads.
LEMMA SysReadSystem ==
    ASSUME SystemInv, SysRead PROVE SystemInv'
<1>1. op = NoOp
    BY DEF SysRead, Idle
<1>2. CASE UsesDeleted
    BY <1>1, <1>2, UsesDeletedSystem
<1>3. CASE Fails
    BY <1>3, FailsSystem
<1>4. CASE InFile /\ fd' = [fd EXCEPT !.pos = @ + 1] /\ UNCHANGED <<disk, phase, op, cuts>>
    <2>1. FdOK(fd')
        BY <1>4, InFileIs, PositionOutside
    <2> QED BY <1>1, <1>4, <2>1, StepSystem DEF SystemInv
<1> QED BY <1>2, <1>3, <1>4 DEF SysRead

\* A program writes.
LEMMA SysWriteSystem ==
    ASSUME SystemInv, NEW v \in Values, SysWrite(v) PROVE SystemInv'
<1>1. op = NoOp /\ SystemOn(disk)
    BY DEF SysWrite, Idle, SystemInv
<1>2. CASE UsesDeleted
    BY <1>1, <1>2, UsesDeletedSystem
<1>3. CASE Fails
    BY <1>3, FailsSystem
<1>4. CASE /\ InFile
           /\ WriteSector(ByteToSector(fd.hdr, fd.pos), Data(v))
           /\ fd' = [fd EXCEPT !.pos = @ + 1]
           /\ UNCHANGED <<phase, op, cuts>>
    <2>1. FdOK(fd') /\ ByteToSector(fd.hdr, fd.pos) \in Outside
        BY <1>4, InFileIs, PositionOutside
    <2>2. SystemOn(disk')
        BY <1>1, <1>4, <2>1, DataWritten DEF WriteSector
    <2> QED BY <1>1, <1>4, <2>1, <2>2, StepSystem
<1> QED BY <1>2, <1>3, <1>4 DEF SysWrite

\* A program closes.
LEMMA SysCloseSystem ==
    ASSUME SystemInv, SysClose PROVE SystemInv'
<1>1. op = NoOp
    BY DEF SysClose, Idle
<1>2. CASE UsesDeleted
    BY <1>1, <1>2, UsesDeletedSystem
<1>3. CASE fd' = Null /\ UNCHANGED <<disk, phase, op, cuts>>
    BY <1>1, <1>3, EndsSystem DEF SystemInv
<1> QED BY <1>2, <1>3 DEF SysClose

\* The kernel ends.
LEMMA EndSystem ==
    ASSUME SystemInv, Halt \/ Cut PROVE SystemInv'
<1>1. cuts' \in 0..MaxCuts
    BY FileSystemAssumption DEF SystemInv, Halt, Cut
<1>2. Reboot /\ disk' = disk
    BY DEF Halt, Cut
<1> QED BY <1>1, <1>2, RebootSystem

\* The operations that Begin starts.
LEMMA BeginsSystem ==
    ASSUME SystemInv, NEW p \in Paths,
           (\E n \in Sizes : Create(p, n) \/ Copy(p, n)) \/ CreateDirectory(p)
    PROVE  SystemInv'
<1>1. Sizes \subseteq Nat
    BY FileSystemAssumption
<1>2. ASSUME NEW n \in Sizes, Create(p, n) \/ Copy(p, n) PROVE SystemInv'
    <2>1. CASE Begin("create", p, n)
        BY <1>1, <2>1, BeginSystem
    <2>2. CASE Begin("copy", p, n)
        BY <1>1, <2>2, BeginSystem
    <2> QED BY <1>2, <2>1, <2>2 DEF Create, Copy
<1>3. CASE CreateDirectory(p)
    <2>1. Begin("mkdir", p, 1)
        BY <1>3 DEF CreateDirectory
    <2> QED BY <2>1, BeginSystem
<1> QED BY <1>2, <1>3

\* Every step keeps the invariant.
LEMMA NextSystem ==
    ASSUME UninitOutsideMap, SystemInv, [Next]_vars PROVE SystemInv'
<1>1. CASE UNCHANGED vars
    BY <1>1, StutterSystem
<1>2. ASSUME NEW p \in Paths,
             \/ \E n \in Sizes : Create(p, n) \/ Copy(p, n)
             \/ CreateDirectory(p) \/ RemoveFile(p) \/ Load(p) \/ SysOpen(p)
      PROVE  SystemInv'
    BY <1>2, BeginsSystem, RemoveFileSystem, LoadSystem, SysOpenSystem
<1>3. CASE WriteHeader \/ WriteTable \/ WriteNewTable \/ WriteMap
    BY <1>3, WriteHeaderSystem, WriteTableSystem, WriteNewTableSystem, WriteMapSystem
<1>4. CASE CopyOpens \/ CopyWrites \/ CopyEnds
    BY <1>4, CopyOpensSystem, CopyWritesSystem, CopyEndsSystem
<1>5. CASE SysRead \/ (\E v \in Values : SysWrite(v)) \/ SysClose
    BY <1>5, SysReadSystem, SysWriteSystem, SysCloseSystem
<1>6. CASE Halt \/ Cut
    BY <1>6, EndSystem
<1> QED BY <1>1, <1>2, <1>3, <1>4, <1>5, <1>6 DEF Next, Call, Continue

\* It says more than TypeOK.
LEMMA SystemTypes == SystemInv => TypeOK
<1> SUFFICES ASSUME SystemInv PROVE TypeOK
    OBVIOUS
<1>1. SystemOn(disk)
    BY DEF SystemInv
<1>2. \A s \in Sector : disk[s] \in Block \/ (disk[s].kind = "table" /\ IsTable(disk[s].table))
    <2> TAKE s \in Sector
    <2>0. \A t : TableOutside(t) => IsTable(t)
        BY DEF TableOutside, IsTable, Outside
    <2>1. CASE s \in Outside
        <3>1. GoodBlock(disk[s])
            BY <1>1, <2>1 DEF SystemOn
        <3> QED BY <2>0, <3>1 DEF GoodBlock, Block, HeaderRec
    <2>2. CASE s = RootTable
        BY <1>1, <2>0, <2>2 DEF SystemOn
    <2>3. ASSUME NEW h \in HeaderRec, disk[s] = Header(h) PROVE disk[s] \in Block
        BY <2>3 DEF Header, Block, HeaderRec
    <2>4. CASE s = DirectorySector
        BY <1>1, <2>3, <2>4, FormatIs DEF SystemOn
    <2>5. CASE \E k \in 1..Len(MapHdr) : s = MapAt[k]
        BY <1>1, <2>3, <2>5, MapAtIs DEF SystemOn
    <2>6. CASE \E k \in 1..MapSectors : s = MapPlace(k)
        <3>1. PICK k \in 1..MapSectors : s = MapPlace(k)
            BY <2>6
        <3>2. disk[s] \in [kind : {"map"}, marks : SUBSET PartOf(k)] /\ PartOf(k) \subseteq Sector
            BY <1>1, <3>1 DEF SystemOn, PartOf
        <3> QED BY <3>2 DEF Block
    <2> QED BY <2>1, <2>2, <2>4, <2>5, <2>6, SystemSectorsAre DEF Outside
<1>3. fd \in {Null, Deleted} \/ (fd.sector \in Sector /\ fd.pos \in 0..FileLength(fd.hdr))
    BY DEF SystemInv, FdOK, Outside
<1>4. op.map \subseteq Sector /\ IsTable(op.table)
      /\ op.step \in {"none", "header", "table", "newtable", "map", "open", "data"}
    <2>1. CASE op = NoOp
        BY <2>1, NoOpIs DEF IsTable, EmptyTable
    <2>2. CASE OpOK(op, fd)
        BY <2>2 DEF OpOK, TableOutside, IsTable, Outside
    <2> QED BY <2>1, <2>2 DEF SystemInv
<1> QED BY <1>1, <1>2, <1>3, <1>4 DEF SystemInv, SystemOn, TypeOK

\* Whatever operations run and wherever they are cut off, every sector holds a
\* block of its kinds and the map, the root, op and fd are what they should be:
\* SystemInv, for every disk, every set of paths and every size.
THEOREM SystemFilesStay ==
    ASSUME UninitOutsideMap PROVE Spec => []SystemInv
<1>1. Init => SystemInv
    BY InitSystem
<1>2. UninitOutsideMap /\ SystemInv /\ [Next]_vars => SystemInv'
    BY NextSystem
<1> QED BY <1>1, <1>2, PTL DEF Spec

\* All variables have their types, whatever runs and is cut off: TypeOK.
THEOREM TypesAreRight ==
    ASSUME UninitOutsideMap PROVE Spec => []TypeOK
    BY SystemFilesStay, SystemTypes, PTL

-----------------------------------------------------------------------------
(* Paths: the root, a name in it, a name in a directory of it              *)

\* All of a sequence.
LEMMA WholeSeq ==
    ASSUME NEW S, NEW q \in Seq(S)
    PROVE  SubSeq(q, 1, Len(q)) = q
<1>1. Len(q) \in Nat /\ \A i \in 1..Len(q) : q[i] \in S
    BY ElementOfSeq, LenProperties
<1> DEFINE r == SubSeq(q, 1, Len(q))
<1>2. r \in Seq(S) /\ Len(r) = (IF 1 <= Len(q) THEN Len(q) - 1 + 1 ELSE 0)
      /\ \A i \in 1..(Len(q) - 1 + 1) : r[i] = q[1 + i - 1]
    BY <1>1, SubSeqProperties
<1> HIDE DEF r
<1>3. Len(r) = Len(q) /\ \A i \in 1..Len(q) : r[i] = q[i]
    BY <1>1, <1>2
<1>4. r = q
    BY <1>2, <1>3, SeqEqual
<1> QED BY <1>4 DEF r

\* The parts of a path from its start.
LEMMA PartsOfPaths ==
    ASSUME NEW a, NEW b
    PROVE  /\ SubSeq(<<>>, 1, 0) = <<>> /\ SubSeq(<<a>>, 1, 0) = <<>> /\ SubSeq(<<a, b>>, 1, 0) = <<>>
           /\ SubSeq(<<a>>, 1, 1) = <<a>> /\ SubSeq(<<a, b>>, 1, 1) = <<a>>
           /\ SubSeq(<<a, b>>, 1, 2) = <<a, b>>
           /\ Len(<<>>) = 0 /\ Len(<<a>>) = 1 /\ Len(<<a, b>>) = 2
<1> DEFINE S == {a, b}
<1>1. <<a>> \in Seq(S) /\ <<a, b>> \in Seq(S) /\ Len(<<>>) = 0 /\ Len(<<a>>) = 1 /\ Len(<<a, b>>) = 2
    OBVIOUS
<1>2. SubSeq(<<>>, 1, 0) = <<>> /\ SubSeq(<<a>>, 1, 0) = <<>> /\ SubSeq(<<a, b>>, 1, 0) = <<>>
    BY SubSeqEmpty
<1>3. SubSeq(<<a>>, 1, 1) = <<a>>
    <2> DEFINE q == <<a>>
    <2>1. q \in Seq(S) /\ Len(q) = 1
        BY <1>1
    <2> HIDE DEF q, S
    <2>2. SubSeq(q, 1, Len(q)) = q
        BY <2>1, WholeSeq
    <2> QED BY <2>1, <2>2 DEF q
<1>4. SubSeq(<<a, b>>, 1, 2) = <<a, b>>
    <2> DEFINE q == <<a, b>>
    <2>1. q \in Seq(S) /\ Len(q) = 2
        BY <1>1
    <2> HIDE DEF q, S
    <2>2. SubSeq(q, 1, Len(q)) = q
        BY <2>1, WholeSeq
    <2> QED BY <2>1, <2>2 DEF q
<1>5. SubSeq(<<a, b>>, 1, 1) = <<a>>
    <2>1. Front(<<a, b>>) = SubSeq(<<a, b>>, 1, 2 - 1) /\ 2 - 1 = 1
        BY <1>1 DEF Front
    <2> QED BY <2>1, PathsAre
<1> QED BY <1>1, <1>2, <1>3, <1>4, <1>5

\* The prefixes of a path.
LEMMA PrefixesAre ==
    ASSUME NEW a, NEW b
    PROVE  /\ Prefixes(<<>>) = {<<>>} /\ Prefixes(<<a>>) = {<<>>, <<a>>}
           /\ Prefixes(<<a, b>>) = {<<>>, <<a>>, <<a, b>>}
<1>1. Prefixes(<<>>) = {SubSeq(<<>>, 1, l) : l \in 0..0}
      /\ Prefixes(<<a>>) = {SubSeq(<<a>>, 1, l) : l \in 0..1}
      /\ Prefixes(<<a, b>>) = {SubSeq(<<a, b>>, 1, l) : l \in 0..2}
    BY PartsOfPaths DEF Prefixes
<1>2. 0..0 = {0} /\ 0..1 = {0, 1} /\ 0..2 = {0, 1, 2}
    OBVIOUS
<1>3. Prefixes(<<>>) = {SubSeq(<<>>, 1, 0)}
      /\ Prefixes(<<a>>) = {SubSeq(<<a>>, 1, 0), SubSeq(<<a>>, 1, 1)}
      /\ Prefixes(<<a, b>>) = {SubSeq(<<a, b>>, 1, 0), SubSeq(<<a, b>>, 1, 1), SubSeq(<<a, b>>, 1, 2)}
    <2>1. Prefixes(<<>>) = {SubSeq(<<>>, 1, 0)}
        BY <1>1, <1>2
    <2>2. Prefixes(<<a>>) = {SubSeq(<<a>>, 1, 0), SubSeq(<<a>>, 1, 1)}
        BY <1>1, <1>2
    <2>3. Prefixes(<<a, b>>) = {SubSeq(<<a, b>>, 1, 0), SubSeq(<<a, b>>, 1, 1), SubSeq(<<a, b>>, 1, 2)}
        BY <1>1, <1>2
    <2> QED BY <2>1, <2>2, <2>3
<1> QED BY <1>3, PartsOfPaths

\* A path has at most two names.
LEMMA PathShape ==
    ASSUME NEW p \in AllPaths
    PROVE  \E a : \E b : p = <<>> \/ p = <<a>> \/ p = <<a, b>>
<1>1. CASE p = <<>>
    BY <1>1
<1>2. ASSUME NEW q \in Paths PROVE \E a : \E b : q = <<a>> \/ q = <<a, b>>
    BY FileSystemAssumption
<1>3. CASE p \in Paths
    BY <1>2, <1>3
<1>4. CASE \E q \in Paths : p = Front(q)
    <2>1. PICK q \in Paths : p = Front(q)
        BY <1>4
    <2>2. PICK a : \E b : q = <<a>> \/ q = <<a, b>>
        BY <1>2
    <2>3. PICK b : q = <<a>> \/ q = <<a, b>>
        BY <2>2
    <2>4. p = <<>> \/ p = <<a>>
        BY <2>1, <2>3, PathsAre
    <2> QED BY <2>4
<1> QED BY <1>1, <1>3, <1>4 DEF AllPaths

\* The path above a path, and the order of paths.
LEMMA FrontIs ==
    ASSUME NEW p \in AllPaths
    PROVE  /\ Front(p) \in AllPaths /\ Front(Front(p)) = <<>>
           /\ p # <<>> => Front(p) # p
           /\ Prefixes(p) = {<<>>, Front(p), p}
           /\ <<>> \in AllPaths /\ Front(<<>>) = <<>>
<1>0. Front(<<>>) = <<>>
    BY SubSeqEmpty, PartsOfPaths DEF Front
<1>1. <<>> \in AllPaths /\ \A q \in Paths : Front(q) \in AllPaths
    BY DEF AllPaths
<1>2. PICK a : \E b : p = <<>> \/ p = <<a>> \/ p = <<a, b>>
    BY PathShape
<1>3. PICK b : p = <<>> \/ p = <<a>> \/ p = <<a, b>>
    BY <1>2
<1>4. CASE p = <<>>
    BY <1>0, <1>1, <1>4, PrefixesAre
<1>5. CASE p = <<a>>
    <2>1. Front(p) = <<>> /\ p # <<>>
        BY <1>5, PathsAre
    <2> QED BY <1>0, <1>1, <1>5, <2>1, PrefixesAre
<1>6. CASE p = <<a, b>>
    <2>1. Front(p) = <<a>> /\ Front(<<a>>) = <<>> /\ p # <<a>>
        BY <1>6, PathsAre
    <2>2. p \in Paths
        <3>1. p # <<>>
            BY <1>6
        <3>2. ASSUME NEW q \in Paths, p = Front(q) PROVE FALSE
            <4>1. PICK c : \E e : q = <<c>> \/ q = <<c, e>>
                BY FileSystemAssumption
            <4>2. PICK e : q = <<c>> \/ q = <<c, e>>
                BY <4>1
            <4>3. p = <<>> \/ p = <<c>>
                BY <3>2, <4>2, PathsAre
            <4> QED BY <1>6, <4>3
        <3> QED BY <3>1, <3>2 DEF AllPaths
    <2> QED BY <1>0, <1>1, <1>6, <2>1, <2>2, PrefixesAre
<1> QED BY <1>3, <1>4, <1>5, <1>6

\* A path is a prefix of itself, and so are the root and its directory.
LEMMA PrefixIs ==
    ASSUME NEW p \in AllPaths, NEW q \in AllPaths
    PROVE  IsPrefix(p, q) <=> (p = <<>> \/ p = Front(q) \/ p = q)
<1>1. PICK a : \E b : p = <<>> \/ p = <<a>> \/ p = <<a, b>>
    BY PathShape
<1>2. PICK b : p = <<>> \/ p = <<a>> \/ p = <<a, b>>
    BY <1>1
<1>3. PICK c : \E e : q = <<>> \/ q = <<c>> \/ q = <<c, e>>
    BY PathShape
<1>4. PICK e : q = <<>> \/ q = <<c>> \/ q = <<c, e>>
    BY <1>3
<1>5. Front(<<>>) = <<>> /\ Front(<<c>>) = <<>> /\ Front(<<c, e>>) = <<c>>
    BY FrontIs, PathsAre
<1>6. CASE p = <<>>
    <2>1. Len(p) = 0 /\ Len(q) \in {0, 1, 2} /\ SubSeq(p, 1, 0) = <<>> /\ SubSeq(q, 1, 0) = <<>>
        BY <1>4, <1>6, PartsOfPaths
    <2> QED BY <1>6, <2>1 DEF IsPrefix
<1>7. CASE p = <<a>>
    <2>1. Len(p) = 1 /\ SubSeq(p, 1, 1) = <<a>>
        BY <1>7, PartsOfPaths
    <2>2. CASE q = <<>>
        BY <1>5, <1>7, <2>1, <2>2, PartsOfPaths DEF IsPrefix
    <2>3. CASE q = <<c>>
        <3>1. Len(q) = 1 /\ SubSeq(q, 1, 1) = <<c>>
            BY <2>3, PartsOfPaths
        <3> QED BY <1>5, <1>7, <2>1, <2>3, <3>1 DEF IsPrefix
    <2>4. CASE q = <<c, e>>
        <3>1. Len(q) = 2 /\ SubSeq(q, 1, 1) = <<c>> /\ p # q
            BY <1>7, <2>4, PartsOfPaths
        <3> QED BY <1>5, <1>7, <2>1, <2>4, <3>1 DEF IsPrefix
    <2> QED BY <1>4, <2>2, <2>3, <2>4
<1>8. CASE p = <<a, b>>
    <2>1. Len(p) = 2 /\ SubSeq(p, 1, 2) = <<a, b>> /\ p # <<>> /\ p # <<c>>
        BY <1>8, PartsOfPaths
    <2>2. CASE q = <<>> \/ q = <<c>>
        <3>1. Len(q) < 2 /\ p # Front(q) /\ p # q
            BY <1>5, <2>1, <2>2, PartsOfPaths
        <3> QED BY <2>1, <3>1, <2>2, PartsOfPaths DEF IsPrefix
    <2>3. CASE q = <<c, e>>
        <3>1. Len(q) = 2 /\ SubSeq(q, 1, 2) = <<c, e>> /\ p # Front(q)
            BY <1>5, <2>1, <2>3, PartsOfPaths
        <3> QED BY <1>8, <2>1, <2>3, <3>1 DEF IsPrefix
    <2> QED BY <1>4, <2>2, <2>3
<1> QED BY <1>2, <1>6, <1>7, <1>8

\* A path other than the root is given by its directory and its name.
LEMMA NameIs ==
    ASSUME NEW p \in AllPaths, NEW q \in AllPaths, p # <<>>, q # <<>>,
           Front(p) = Front(q), Last(p) = Last(q)
    PROVE  p = q
<1>1. PICK a : \E b : p = <<>> \/ p = <<a>> \/ p = <<a, b>>
    BY PathShape
<1>2. PICK b : p = <<>> \/ p = <<a>> \/ p = <<a, b>>
    BY <1>1
<1>3. PICK c : \E e : q = <<>> \/ q = <<c>> \/ q = <<c, e>>
    BY PathShape
<1>4. PICK e : q = <<>> \/ q = <<c>> \/ q = <<c, e>>
    BY <1>3
<1>5. Front(<<a>>) = <<>> /\ Last(<<a>>) = a /\ Front(<<a, b>>) = <<a>> /\ Last(<<a, b>>) = b
    BY PathsAre
<1>0. Front(<<c>>) = <<>> /\ Last(<<c>>) = c /\ Front(<<c, e>>) = <<c>> /\ Last(<<c, e>>) = e
    BY PathsAre
<1>6. CASE p = <<a>>
    <2>0. <<c>> # <<>> /\ Front(p) = <<>>
        BY <1>5, <1>6
    <2>1. q = <<c>>
        BY <1>0, <1>4, <2>0
    <2> QED BY <1>0, <1>5, <1>6, <2>1
<1>7. CASE p = <<a, b>>
    <2>0. <<a>> # <<>> /\ Front(p) = <<a>>
        BY <1>5, <1>7
    <2>1. q = <<c, e>>
        BY <1>0, <1>4, <2>0
    <2>2. <<a>> = <<c>> /\ b = e
        BY <1>0, <1>5, <1>7, <2>1
    <2>3. a = c
        BY <2>2
    <2> QED BY <1>7, <2>1, <2>2, <2>3
<1> QED BY <1>2, <1>6, <1>7

\* Operations are called with paths other than the root.
LEMMA PathsInAll == \A p \in Paths : p \in AllPaths /\ p # <<>>
<1>1. ASSUME NEW p \in Paths PROVE p # <<>>
    <2>1. PICK a : \E b : p = <<a>> \/ p = <<a, b>>
        BY FileSystemAssumption
    <2> QED BY <2>1
<1> QED BY <1>1 DEF AllPaths

-----------------------------------------------------------------------------
(* What can be found                                                       *)

\* No sector is negative.
LEMMA NotNegative == \A s \in Sector : ~(s < 0)
    BY DEF Sector

\* Find goes from a directory to a name in it.
LEMMA FindStep ==
    ASSUME NEW d, SystemOn(d), NEW p \in AllPaths, p # <<>>
    PROVE  /\ Find(d, p) = FindIn(d, Find(d, Front(p)), Last(p))
           /\ Find(d, Front(p)) \in DirPlace \cup {NoSector, Garbage}
           /\ Find(d, p) \in Outside \cup {NoSector, Garbage}
<1>1. PICK a : \E b : p = <<>> \/ p = <<a>> \/ p = <<a, b>>
    BY PathShape
<1>2. PICK b : p = <<a>> \/ p = <<a, b>>
    BY <1>1
<1>3. Find(d, p) = FindIn(d, Find(d, Front(p)), Last(p))
    <2>1. CASE p = <<a>>
        <3>1. Front(p) = <<>> /\ Last(p) = a
            BY <2>1, PathsAre
        <3>2. Find(d, <<a>>) = FindIn(d, DirectorySector, a) /\ Find(d, <<>>) = DirectorySector
            BY FindIs
        <3> QED BY <2>1, <3>1, <3>2
    <2>2. CASE p = <<a, b>>
        <3>1. Front(p) = <<a>> /\ Last(p) = b
            BY <2>2, PathsAre
        <3> QED BY <2>2, <3>1, FindIs
    <2> QED BY <1>2, <2>1, <2>2
<1>4. DirectorySector \in DirPlace
    BY DEF DirPlace
<1>5. Find(d, Front(p)) \in DirPlace \cup {NoSector, Garbage}
    <2>1. CASE p = <<a>>
        BY <1>4, <2>1, FindIs, PathsAre
    <2>2. CASE p = <<a, b>>
        <3>1. Find(d, Front(p)) = FindIn(d, DirectorySector, a)
            BY <2>2, FindIs, PathsAre
        <3> QED BY <1>4, <3>1, FindInIs DEF DirPlace
    <2> QED BY <1>2, <2>1, <2>2
<1>6. Find(d, p) \in Outside \cup {NoSector, Garbage}
    BY <1>3, <1>5, FindInIs
<1> QED BY <1>3, <1>5, <1>6

\* The entry of a path in the directory above it.
Above(d, p) == TableAt(d, Find(d, Front(p)))
HasEntry(d, p) == IsDirectory(d, Find(d, Front(p))) /\ Last(p) \in DOMAIN Above(d, p)

\* The root can be found.
LEMMA RootFound ==
    ASSUME NEW d, SystemOn(d)
    PROVE  <<>> \in Found(d) /\ Find(d, <<>>) = DirectorySector /\ IsDir(d, <<>>)
<1>1. Find(d, <<>>) = DirectorySector /\ IsDir(d, <<>>)
    BY FindIs DEF IsDir
<1>2. Front(<<>>) = <<>> /\ <<>> \in AllPaths
    <2>1. <<>> \in AllPaths
        BY DEF AllPaths
    <2> QED BY <2>1, FrontIs
<1>3. Exists(d, <<>>)
    BY <1>1, DirPlaceIs DEF Exists
<1> QED BY <1>1, <1>2, <1>3 DEF Found

\* A path is found when its directory is, and has an entry of that name.
LEMMA FoundIs ==
    ASSUME NEW d, SystemOn(d), NEW p \in AllPaths, p # <<>>
    PROVE  /\ p \in Found(d) <=> Front(p) \in Found(d) /\ IsDir(d, Front(p)) /\ HasEntry(d, p)
           /\ p \in Found(d) => /\ Find(d, p) = Above(d, p)[Last(p)].sector
                                /\ IsDir(d, p) = Above(d, p)[Last(p)].isDir
                                /\ Find(d, p) \in Outside /\ IsDir(d, p) \in BOOLEAN
                                /\ Find(d, Front(p)) \in DirPlace
<1> DEFINE s == Find(d, Front(p))
<1>1. /\ Find(d, p) = FindIn(d, s, Last(p)) /\ s \in DirPlace \cup {NoSector, Garbage}
      /\ Find(d, p) \in Outside \cup {NoSector, Garbage}
    BY FindStep
<1>2. Exists(d, p) <=> Find(d, p) \in Outside
    BY <1>1, DirPlaceIs DEF Exists
<1>3. ASSUME Exists(d, p)
      PROVE  /\ s \in DirPlace /\ HasEntry(d, p) /\ Find(d, p) = Above(d, p)[Last(p)].sector
             /\ Find(d, p) \in Outside
    <2>1. Find(d, p) \in Outside
        BY <1>2, <1>3
    <2>2. Find(d, p) # NoSector /\ Find(d, p) # Garbage
        BY <2>1, DirPlaceIs
    <2>3. s \notin {NoSector, Garbage}
        <3>1. s \in {NoSector, Garbage} => FindIn(d, s, Last(p)) = s
            BY DirPlaceIs DEF FindIn
        <3> QED BY <1>1, <2>2, <3>1
    <2>4. s \in DirPlace /\ ~(s < 0)
        BY <1>1, <2>3, DirPlaceIs, NotNegative
    <2>5. DirBlock(d, s).kind = "table"
        BY <1>1, <2>2, <2>4 DEF FindIn
    <2>6. Last(p) \in DOMAIN DirBlock(d, s).table
        BY <1>1, <2>2, <2>4, <2>5 DEF FindIn
    <2>7. FindIn(d, s, Last(p)) = DirBlock(d, s).table[Last(p)].sector
        BY <2>4, <2>5, <2>6 DEF FindIn
    <2> QED BY <1>1, <2>1, <2>4, <2>5, <2>6, <2>7 DEF HasEntry, Above, IsDirectory, TableAt
<1>4. ASSUME HasEntry(d, p), s \in DirPlace PROVE Exists(d, p)
    <2>1. ~(s < 0)
        BY <1>4, DirPlaceIs, NotNegative
    <2>2. FindIn(d, s, Last(p)) = TableAt(d, s)[Last(p)].sector
        BY <1>4, <2>1 DEF HasEntry, Above, FindIn, IsDirectory, TableAt
    <2>3. TableOutside(TableAt(d, s))
        BY <1>4, TableAtIs DEF HasEntry
    <2>4. FindIn(d, s, Last(p)) \in Outside
        BY <1>4, <2>2, <2>3 DEF TableOutside, HasEntry, Above
    <2> QED BY <1>1, <1>2, <2>4
<1>5. Front(p) \in AllPaths
    BY FrontIs
<1>6. ASSUME p \in Found(d)
      PROVE  Front(p) \in Found(d) /\ IsDir(d, Front(p)) /\ HasEntry(d, p)
    <2>1. Exists(d, p) /\ IsDir(d, Front(p))
        BY <1>6 DEF Found
    <2>2. HasEntry(d, p) /\ s \in DirPlace
        BY <1>3, <2>1
    <2>3. Exists(d, Front(p))
        BY <2>2, DirPlaceIs DEF Exists
    <2>4. IsDir(d, Front(Front(p)))
        BY FrontIs DEF IsDir
    <2> QED BY <1>5, <2>1, <2>2, <2>3, <2>4 DEF Found
<1>7. ASSUME Front(p) \in Found(d), IsDir(d, Front(p)), HasEntry(d, p)
      PROVE  p \in Found(d)
    <2>1. s >= 0
        BY <1>7 DEF Found, Exists
    <2>2. s \in DirPlace
        BY <1>1, <2>1, DirPlaceIs
    <2> QED BY <1>4, <1>7, <2>2 DEF Found
<1>8. ASSUME p \in Found(d)
      PROVE  IsDir(d, p) = Above(d, p)[Last(p)].isDir /\ IsDir(d, p) \in BOOLEAN
    <2>1. Exists(d, p)
        BY <1>8 DEF Found
    <2>2. s \in DirPlace /\ HasEntry(d, p)
        BY <1>3, <2>1
    <2>3. TableOutside(TableAt(d, s))
        BY <2>2, TableAtIs DEF HasEntry
    <2>4. Above(d, p)[Last(p)].isDir \in BOOLEAN
        BY <2>2, <2>3 DEF TableOutside, HasEntry, Above
    <2>5. IsDir(d, p) = Above(d, p)[Last(p)].isDir
        BY <2>1, <2>4 DEF IsDir, Above
    <2> QED BY <2>4, <2>5
<1>9. p \in Found(d) => Exists(d, p)
    BY DEF Found
<1> QED BY <1>3, <1>6, <1>7, <1>8, <1>9

\* Where the files are that can be found.
LEMMA FoundAt ==
    ASSUME NEW d, SystemOn(d), NEW p \in Found(d)
    PROVE  p \in AllPaths /\ Find(d, p) \in DirPlace /\ Find(d, p) \in Sector
           /\ (p # <<>> => Find(d, p) \in Outside)
<1>1. p \in AllPaths
    BY DEF Found
<1>2. CASE p = <<>>
    BY <1>1, <1>2, RootFound, DirPlaceIs DEF DirPlace
<1>3. CASE p # <<>>
    BY <1>1, <1>3, FoundIs, DirPlaceIs DEF DirPlace
<1> QED BY <1>1, <1>2, <1>3

\* A path is in doubt when its directory is, or its name.
LEMMA DoubtedIs ==
    ASSUME NEW p \in AllPaths, p # <<>>
    PROVE  Doubted(p) <=> Doubted(Front(p)) \/ p \in doubtful
<1>1. Prefixes(p) = {<<>>, Front(p), p} /\ Prefixes(Front(p)) = {<<>>, Front(p)}
    BY FrontIs
<1> QED BY <1>1 DEF Doubted

\* A path that is in no doubt is found when its directory is.
LEMMA TrustedIs ==
    ASSUME NEW d, SystemOn(d), NEW p \in AllPaths, p # <<>>
    PROVE  /\ p \in Trusted(d) <=> /\ Front(p) \in Trusted(d) /\ IsDir(d, Front(p)) /\ HasEntry(d, p)
                                   /\ p \notin doubtful
           /\ p \in Trusted(d) => /\ Find(d, p) = Above(d, p)[Last(p)].sector
                                  /\ IsDir(d, p) = Above(d, p)[Last(p)].isDir
                                  /\ Find(d, p) \in Outside /\ IsDir(d, p) \in BOOLEAN
                                  /\ Find(d, Front(p)) \in DirPlace
<1>1. Doubted(p) <=> Doubted(Front(p)) \/ p \in doubtful
    BY DoubtedIs
<1>2. p \in Trusted(d) <=> p \in Found(d) /\ ~Doubted(p)
    BY DEF Trusted
<1>3. Front(p) \in Trusted(d) <=> Front(p) \in Found(d) /\ ~Doubted(Front(p))
    BY DEF Trusted
<1> QED BY <1>1, <1>2, <1>3, FoundIs

\* The root is in no doubt.
LEMMA RootTrusted ==
    ASSUME NEW d, SystemOn(d), <<>> \notin doubtful
    PROVE  <<>> \in Trusted(d) /\ Find(d, <<>>) = DirectorySector /\ IsDir(d, <<>>)
<1>1. Prefixes(<<>>) = {<<>>}
    BY FrontIs DEF AllPaths
<1> QED BY <1>1, RootFound DEF Trusted, Doubted

\* A path that is in no doubt leads to a sector.
LEMMA TrustedAt ==
    ASSUME NEW d, SystemOn(d), NEW p \in Trusted(d)
    PROVE  p \in AllPaths /\ Find(d, p) \in DirPlace /\ Find(d, p) \in Sector
           /\ (p # <<>> => Find(d, p) \in Outside)
    BY FoundAt DEF Trusted

\* Disks d and e have the same at path p, and the same entry for it.
SameAt(d, e, p) ==
    /\ p \in Trusted(d) <=> p \in Trusted(e)
    /\ p \in Trusted(d) => Find(e, p) = Find(d, p) /\ IsDir(e, p) = IsDir(d, p)
SameEntry(d, e, p) ==
    LET s == Find(d, Front(p))
        n == Last(p)
    IN  /\ IsDirectory(d, s) <=> IsDirectory(e, s)
        /\ IsDirectory(d, s) =>
            /\ n \in DOMAIN TableAt(d, s) <=> n \in DOMAIN TableAt(e, s)
            /\ n \in DOMAIN TableAt(d, s) => TableAt(e, s)[n] = TableAt(d, s)[n]

\* Disks that agree on a directory and on an entry of it agree on the path.
LEMMA SameStep ==
    ASSUME NEW d, SystemOn(d), NEW e, SystemOn(e), NEW p \in AllPaths, p # <<>>,
           SameAt(d, e, Front(p)),
           Front(p) \in Trusted(d) /\ IsDir(d, Front(p)) => SameEntry(d, e, p)
    PROVE  SameAt(d, e, p)
<1>1. CASE ~(Front(p) \in Trusted(d) /\ IsDir(d, Front(p)))
    <2>1. ~(Front(p) \in Trusted(e) /\ IsDir(e, Front(p)))
        BY <1>1 DEF SameAt
    <2>2. p \notin Trusted(d) /\ p \notin Trusted(e)
        BY <1>1, <2>1, TrustedIs
    <2> QED BY <2>2 DEF SameAt
<1>2. CASE Front(p) \in Trusted(d) /\ IsDir(d, Front(p))
    <2>1. Front(p) \in Trusted(e) /\ IsDir(e, Front(p)) /\ Find(e, Front(p)) = Find(d, Front(p))
        BY <1>2 DEF SameAt
    <2>2. HasEntry(d, p) <=> HasEntry(e, p)
        BY <1>2, <2>1 DEF SameEntry, HasEntry, Above
    <2>3. HasEntry(d, p) => Above(e, p)[Last(p)] = Above(d, p)[Last(p)]
        BY <1>2, <2>1 DEF SameEntry, HasEntry, Above
    <2>4. p \in Trusted(d) <=> p \in Trusted(e)
        BY <1>2, <2>1, <2>2, TrustedIs
    <2>5. ASSUME p \in Trusted(d) PROVE Find(e, p) = Find(d, p) /\ IsDir(e, p) = IsDir(d, p)
        <3>1. HasEntry(d, p)
            BY <2>5, TrustedIs
        <3>2. Find(d, p) = Above(d, p)[Last(p)].sector /\ IsDir(d, p) = Above(d, p)[Last(p)].isDir
            BY <2>5, TrustedIs
        <3>3. Find(e, p) = Above(e, p)[Last(p)].sector /\ IsDir(e, p) = Above(e, p)[Last(p)].isDir
            BY <2>4, <2>5, TrustedIs
        <3> QED BY <2>3, <3>1, <3>2, <3>3
    <2> QED BY <2>4, <2>5 DEF SameAt
<1> QED BY <1>1, <1>2

\* Z are the paths that a change of a table is about.
LEMMA SamePaths ==
    ASSUME NEW d, SystemOn(d), NEW e, SystemOn(e), NEW Z, <<>> \notin Z, <<>> \notin doubtful,
           \A p \in AllPaths : Front(p) \in Z => p \in Z,
           \A p \in AllPaths \ Z :
             p # <<>> /\ Front(p) \in Trusted(d) /\ IsDir(d, Front(p)) => SameEntry(d, e, p)
    PROVE  \A p \in AllPaths \ Z : SameAt(d, e, p)
<1>1. SameAt(d, e, <<>>)
    <2>1. <<>> \in Trusted(d) /\ Find(d, <<>>) = DirectorySector /\ IsDir(d, <<>>)
        BY RootTrusted
    <2>2. <<>> \in Trusted(e) /\ Find(e, <<>>) = DirectorySector /\ IsDir(e, <<>>)
        BY RootTrusted
    <2>3. IsDir(d, <<>>) = IsDir(e, <<>>)
        BY DEF IsDir
    <2> QED BY <2>1, <2>2, <2>3 DEF SameAt
<1>2. ASSUME NEW p \in AllPaths \ Z, Front(p) = <<>> PROVE SameAt(d, e, p)
    <2>1. CASE p = <<>>
        BY <1>1, <2>1
    <2>2. CASE p # <<>>
        BY <1>1, <1>2, <2>2, SameStep
    <2> QED BY <2>1, <2>2
<1>3. ASSUME NEW p \in AllPaths \ Z PROVE SameAt(d, e, p)
    <2>1. Front(p) \in AllPaths \ Z /\ Front(Front(p)) = <<>>
        BY <1>3, FrontIs
    <2>2. SameAt(d, e, Front(p))
        BY <1>2, <2>1
    <2>3. CASE p = <<>>
        BY <1>1, <2>3
    <2>4. CASE p # <<>>
        BY <1>3, <2>2, <2>4, SameStep
    <2> QED BY <2>3, <2>4
<1> QED BY <1>3

-----------------------------------------------------------------------------
(* A file is kept when the sectors of its headers are                      *)

SameOn(d, e, S) == \A s \in S : e[s] = d[s]

\* Where the headers of a file are kept, it is fetched as before.
LEMMA ChainKept ==
    ASSUME NEW d, SystemOn(d), NEW e, SystemOn(e), NEW s \in Sector, HasHeaders(d, s),
           SameOn(d, e, ToSet(HeaderChain(d, s)))
    PROVE  /\ HasHeaders(e, s) /\ HeaderChain(e, s) = HeaderChain(d, s)
           /\ FetchFrom(e, s) = FetchFrom(d, s) /\ SectorsOf(e, s) = SectorsOf(d, s)
           /\ s \in ToSet(HeaderChain(d, s)) /\ e[s] = d[s]
<1> DEFINE c == HeaderChain(d, s)
<1>1. HeadersTyped(d) /\ HeadersTyped(e)
    BY HeadersAreTyped
<1>2. IsChain(d, c) /\ c[1] = s /\ Len(c) <= MaxHeaders
    BY <1>1, ChainFetched
<1>3. SameOn(d, e, ToSet(c))
    OBVIOUS
<1> HIDE DEF c
<1>4. c \in Seq(Sector) /\ c # <<>>
    BY <1>2 DEF IsChain
<1>5. DOMAIN c = 1..Len(c) /\ 1 \in 1..Len(c)
    BY <1>4
<1>6. \A k \in 1..Len(c) : c[k] \in ToSet(c) /\ e[c[k]] = d[c[k]]
    <2>1. \A k \in 1..Len(c) : c[k] \in ToSet(c)
        BY <1>5 DEF ToSet
    <2> QED BY <1>3, <2>1 DEF SameOn
<1>7. IsChain(e, c)
    BY <1>2, <1>6 DEF IsChain, IsHeader
<1>8. HeaderChain(e, s) = c /\ HasHeaders(e, s)
    BY <1>1, <1>2, <1>7, ChainIsFetched
<1>9. HeaderChain(d, s) = c
    BY DEF c
<1>10. FetchFrom(e, s) = FetchFrom(d, s)
    <2>1. [k \in DOMAIN c |-> e[c[k]].hdr] = [k \in DOMAIN c |-> d[c[k]].hdr]
        BY <1>5, <1>6
    <2> QED BY <1>8, <1>9, <2>1 DEF FetchFrom
<1>11. SectorsOf(e, s) = SectorsOf(d, s)
    BY <1>8, <1>9, <1>10 DEF SectorsOf
<1>12. s \in ToSet(c) /\ e[s] = d[s]
    BY <1>2, <1>5, <1>6
<1> QED BY <1>8, <1>9, <1>10, <1>11, <1>12

\* A directory is when its table is, too.
LEMMA BlockKept ==
    ASSUME NEW d, SystemOn(d), NEW e, SystemOn(e), NEW s \in Sector, HasHeaders(d, s),
           SameOn(d, e, SectorsOf(d, s))
    PROVE  DirBlock(e, s) = DirBlock(d, s)
<1>1. SameOn(d, e, ToSet(HeaderChain(d, s)))
    BY DEF SectorsOf, SameOn
<1>2. s \in ToSet(HeaderChain(d, s)) /\ e[s] = d[s]
    BY <1>1, ChainKept
<1>3. IsHeader(e, s) <=> IsHeader(d, s)
    BY <1>2 DEF IsHeader
<1> DEFINE f == FetchFrom(d, s)
           r == d[s].hdr.data
<1>4. IsFile(f) /\ f[1] = d[s].hdr /\ IsHeader(d, s)
    BY FetchedIs
<1>5. DataSectors(f) \subseteq SectorsOf(d, s)
    BY DEF SectorsOf
<1> HIDE DEF f
<1>6. r # <<>> => r[1] \in DataSectors(f)
    <2> SUFFICES ASSUME r # <<>> PROVE r[1] \in DataSectors(f)
        OBVIOUS
    <2>1. 1 \in 1..Len(f) /\ f[1].data = r /\ r \in Seq(Sector)
        BY <1>4, FileIs
    <2>2. 1 \in 1..Len(r)
        <3> HIDE DEF r
        <3> QED BY <2>1
    <2> QED BY <1>4, <2>1, <2>2, DataSectorIn
<1>7. r # <<>> => e[r[1]] = d[r[1]]
    BY <1>5, <1>6 DEF SameOn
<1> QED BY <1>2, <1>3, <1>7 DEF DirBlock

\* The first data sector of a directory is one of its sectors.
LEMMA TableIn ==
    ASSUME NEW d, SystemOn(d), NEW s \in Sector, HasHeaders(d, s), d[s].hdr.data # <<>>
    PROVE  /\ d[s].hdr.data[1] \in DataSectors(FetchFrom(d, s))
           /\ FileLength(FetchFrom(d, s)) # 0
           /\ ByteToSector(FetchFrom(d, s), 0) = d[s].hdr.data[1]
<1> DEFINE f == FetchFrom(d, s)
           r == d[s].hdr.data
<1>1. IsFile(f) /\ f[1] = d[s].hdr
    BY FetchedIs
<1>2. r # <<>>
    OBVIOUS
<1> HIDE DEF f
<1>3. 1 \in 1..Len(f) /\ f[1].data = r /\ r \in Seq(Sector) /\ Len(f) \in Nat \ {0}
    BY <1>1, FileIs
<1> HIDE DEF r
<1>4. 1 \in 1..Len(r) /\ Len(r) \in Nat \ {0}
    BY <1>2, <1>3
<1>5. r[1] \in DataSectors(f)
    BY <1>1, <1>3, <1>4, DataSectorIn
<1>6. FileLength(f) # 0
    <2>1. PICK i \in 0..(FileLength(f) - 1) : r[1] = ByteToSector(f, i)
        BY <1>1, <1>5, DataSectorAt
    <2>2. FileLength(f) \in Nat
        BY <1>1, FileLengthIs
    <2> QED BY <2>1, <2>2
<1>7. ByteToSector(f, 0) = f[1].data[1]
    <2>1. 0 \div NumDirect = 0 /\ 0 % NumDirect = 0
        BY FileHeaderAssumption
    <2> QED BY <2>1 DEF ByteToSector
<1> QED BY <1>3, <1>5, <1>6, <1>7 DEF f, r

\* Files at some paths: they can be fetched and name no sector twice.
Uses(d, p) == SectorsOf(d, Find(d, p))
Separate(d, s) ==
    ToSet(HeaderChain(d, s)) \cap DataSectors(FetchFrom(d, s)) = {} /\ NamesOnce(FetchFrom(d, s))
Files(d, L) ==
    /\ \A p \in L : HasHeaders(d, Find(d, p)) /\ Separate(d, Find(d, p))
    /\ \A p, q \in L : p # q => Uses(d, p) \cap Uses(d, q) = {}

\* The files at the paths of L on disk d are on e, too.
Kept(d, e, L) ==
    \A p \in L : /\ Find(e, p) = Find(d, p)
                 /\ FetchFrom(e, Find(d, p)) = FetchFrom(d, Find(d, p))
                 /\ HeaderChain(e, Find(d, p)) = HeaderChain(d, Find(d, p))
                 /\ Uses(e, p) = Uses(d, p)

\* And what is in the tables about them.
SameFiles(d, e, L) ==
    \A p \in L : /\ Find(e, p) = Find(d, p) /\ IsDir(e, p) = IsDir(d, p)
                 /\ FetchFrom(e, Find(d, p)) = FetchFrom(d, Find(d, p))

\* Where the headers of files are kept, the files are as good as before.
LEMMA FilesKept ==
    ASSUME NEW d, SystemOn(d), NEW e, SystemOn(e), NEW K, NEW L, L \subseteq K, Files(d, K),
           \A p \in L : Find(d, p) \in Sector /\ Find(e, p) = Find(d, p),
           \A p \in L : SameOn(d, e, ToSet(HeaderChain(d, Find(d, p))))
    PROVE  Files(e, L) /\ Kept(d, e, L)
<1>1. ASSUME NEW p \in L
      PROVE  /\ HasHeaders(e, Find(d, p)) /\ HeaderChain(e, Find(d, p)) = HeaderChain(d, Find(d, p))
             /\ FetchFrom(e, Find(d, p)) = FetchFrom(d, Find(d, p)) 
             /\ SectorsOf(e, Find(d, p)) = SectorsOf(d, Find(d, p))
             /\ Separate(d, Find(d, p))
    BY <1>1, ChainKept DEF Files
<1>2. Kept(d, e, L)
    BY <1>1 DEF Kept, Uses
<1>3. \A p \in L : HasHeaders(e, Find(e, p)) /\ Separate(e, Find(e, p))
    BY <1>1 DEF Separate
<1>4. \A p, q \in L : p # q => Uses(e, p) \cap Uses(e, q) = {}
    BY <1>2 DEF Kept, Files
<1> QED BY <1>2, <1>3, <1>4 DEF Files

\* The map is kept when its sectors are.
LEMMA MapKept ==
    ASSUME NEW d, SystemOn(d), NEW e, SystemOn(e),
           \A k \in 1..MapSectors : e[MapPlace(k)] = d[MapPlace(k)]
    PROVE  FreeMap(e) = FreeMap(d)
<1>1. \A s \in Sector : s \in FreeMap(e) <=> s \in FreeMap(d)
    <2> TAKE s \in Sector
    <2> DEFINE k == (s \div MapBits) + 1
    <2>1. k \in 1..MapSectors /\ s \in PartOf(k)
        BY PartsOfSectors
    <2> HIDE DEF k
    <2>2. s \in FreeMap(d) <=> s \in d[MapPlace(k)].marks
        BY <2>1, FreeMapIs
    <2>3. s \in FreeMap(e) <=> s \in e[MapPlace(k)].marks
        BY <2>1, FreeMapIs
    <2> QED BY <2>1, <2>2, <2>3
<1>2. FreeMap(d) \subseteq Sector /\ FreeMap(e) \subseteq Sector
    BY FreeMapIs
<1> QED BY <1>1, <1>2

\* No sector of a map is outside, nor the root's table.
LEMMA MapApart ==
    ASSUME NEW d, SystemOn(d), NEW x \in Outside \cup {RootTable}, NEW b,
           SystemOn([d EXCEPT ![x] = b])
    PROVE  FreeMap([d EXCEPT ![x] = b]) = FreeMap(d)
<1> DEFINE e == [d EXCEPT ![x] = b]
<1>1. \A k \in 1..MapSectors : MapPlace(k) # x
    BY SystemSectorsAre DEF Outside
<1>2. \A k \in 1..MapSectors : e[MapPlace(k)] = d[MapPlace(k)]
    BY <1>1
<1>3. SystemOn(e)
    OBVIOUS
<1> HIDE DEF e
<1>4. FreeMap(e) = FreeMap(d)
    BY <1>2, <1>3, MapKept
<1> QED BY <1>4 DEF e

\* What is marked when a part of the map was written.
PartWritten(d, e, k, map) ==
    \A s \in Sector : s \in FreeMap(e) <=> (IF s \in PartOf(k) THEN s \in map ELSE s \in FreeMap(d))

\* A part of the map is what was written.
LEMMA MapWritten ==
    ASSUME NEW d, SystemOn(d), NEW k \in 1..MapSectors, NEW map, map \subseteq Sector,
           NEW e, e = [d EXCEPT ![MapPlace(k)] = MapPart(k, map)], SystemOn(e)
    PROVE  PartWritten(d, e, k, map)
<1>0. DOMAIN d = Sector /\ \A l \in 1..MapSectors : MapPlace(l) \in Sector /\ (l # k => MapPlace(l) # MapPlace(k))
    BY MapPlaceIs, SystemSectorsAre DEF SystemOn
<1>1. e[MapPlace(k)] = MapPart(k, map) /\ \A l \in 1..MapSectors : l # k => e[MapPlace(l)] = d[MapPlace(l)]
    BY <1>0
<1>2. MapPart(k, map).marks = map \cap PartOf(k)
    BY MapPartIs
<1> SUFFICES ASSUME NEW s \in Sector
             PROVE  s \in FreeMap(e) <=> (IF s \in PartOf(k) THEN s \in map ELSE s \in FreeMap(d))
    BY DEF PartWritten
<1> DEFINE l == (s \div MapBits) + 1
<1>3. l \in 1..MapSectors /\ \A i \in 1..MapSectors : s \in PartOf(i) <=> i = l
    BY PartsOfSectors
<1> HIDE DEF l
<1>4. s \in FreeMap(d) <=> s \in d[MapPlace(l)].marks
    BY <1>3, FreeMapIs
<1>5. s \in FreeMap(e) <=> s \in e[MapPlace(l)].marks
    BY <1>3, FreeMapIs
<1>6. CASE l = k
    BY <1>1, <1>2, <1>3, <1>5, <1>6
<1>7. CASE l # k
    BY <1>1, <1>3, <1>4, <1>5, <1>7
<1> QED BY <1>6, <1>7

-----------------------------------------------------------------------------
(* The tree of files                                                       *)

\* What is below a directory before its table is written, and the file that an
\* operation is creating or removing.
Junk(o, p) == o.step = "newtable" /\ IsStrictPrefix(o.path, p)
InWork(o, p) == o.step \in {"header", "table", "newtable", "map"} /\ IsPrefix(o.path, p)
Live(d, o) == {p \in Trusted(d) : ~Junk(o, p)}

\* All others are whole, apart and marked.
TreeOK(d, o) ==
    /\ <<>> \notin doubtful
    /\ Files(d, Live(d, o))
    /\ \A p \in Live(d, o) :
        IsDir(d, p) /\ ~(o.step = "newtable" /\ p = o.path) => IsDirectory(d, Find(d, p))
    /\ \A p \in Live(d, o) : ~InWork(o, p) => Uses(d, p) \subseteq FreeMap(d)

\* What an operation that creates a file has in memory, and has written.
New(o) == {o.sector} \cup NamedBy(o.hdr)
HeadersWritten(d, o, n) ==
    \A j \in 1..n : d[HeaderSectors(o.sector, o.hdr)[j]] = Header(o.hdr[j])
Parent(d, p) == Find(d, Front(p))

NewFile(o) ==
    /\ FileOutside(o.hdr) /\ o.sector \in Outside /\ Len(o.hdr) <= MaxHeaders
    /\ NamesOnce(o.hdr) /\ o.sector \notin NamedBy(o.hdr)
    /\ o.name = "mkdir" => FileLength(o.hdr) = 1

ToBeNamed(d, o) ==
    /\ Front(o.path) \in Trusted(d) /\ IsDir(d, Front(o.path))
    /\ Last(o.path) \notin DOMAIN TableAt(d, Parent(d, o.path))
    /\ o.table = Add(TableAt(d, Parent(d, o.path)), Last(o.path), o.sector, o.name = "mkdir")

Named(d, o) ==
    /\ o.path \in Trusted(d) /\ Find(d, o.path) = o.sector
    /\ IsDir(d, o.path) = (o.name = "mkdir")

Creating(d, o) ==
    /\ o.name \in {"create", "copy", "mkdir"}
    /\ o.step \in {"header", "table", "newtable", "map"}
    /\ NewFile(o) /\ o.path \notin doubtful
    /\ o.map = FreeMap(d) \cup New(o)
    /\ o.step # "map" => New(o) \cap FreeMap(d) = {}
    /\ HeadersWritten(d, o, IF o.step = "header" THEN o.k - 1 ELSE Len(o.hdr))
    /\ o.step \in {"header", "table"} => ToBeNamed(d, o)
    /\ o.step \in {"newtable", "map"} => Named(d, o)
    /\ o.step = "newtable" => o.name = "mkdir"
    /\ o.step = "map" => \A j \in 1..(o.k - 1) : o.map \cap PartOf(j) \subseteq FreeMap(d)
    /\ o.step = "map" => \A p \in Trusted(d) : Front(p) # o.path

\* One that removes a file.
Removing(d, o) ==
    /\ o.name = "remove" /\ o.step \in {"map", "table"}
    /\ o.path \in Trusted(d)
    /\ o.table = Without(TableAt(d, Parent(d, o.path)), Last(o.path))
    /\ FreeMap(d) \ Uses(d, o.path) \subseteq o.map

\* Copy, when it writes the file.
Copying(d, o) ==
    /\ o.name = "copy" /\ o.step \in {"open", "data"}
    /\ o.path \in Trusted(d) /\ ~IsDir(d, o.path)

OpTree(d, o) == Creating(d, o) \/ Removing(d, o) \/ Copying(d, o)

\* The open file is one that can be found.
FdTree(d, o, f) ==
    \E p \in Live(d, o) : /\ ~IsDir(d, p) /\ ~InWork(o, p)
                          /\ f.sector = Find(d, p) /\ f.hdr = FetchFrom(d, f.sector)

Phase(o) == IF o.name = "create" THEN "user" ELSE "main"

WholeTree(d, o, f, ph) ==
    /\ TreeOK(d, o)
    /\ o = NoOp \/ (OpTree(d, o) /\ ph = Phase(o))
    /\ f.kind = "open" => (ph = "user" \/ o.step = "data") /\ FdTree(d, o, f)

TreeInv ==
    /\ SystemInv
    /\ NothingGarbled
    /\ Running => WholeTree(disk, op, fd, phase)

\* Paths at and below the path of an operation.
LEMMA BelowIs ==
    ASSUME NEW p \in Paths, NEW q \in AllPaths
    PROVE  /\ p \in AllPaths /\ p # <<>> /\ Front(p) # p
           /\ IsPrefix(p, q) <=> (p = Front(q) \/ p = q)
           /\ IsStrictPrefix(p, q) <=> (p = Front(q))
           /\ ~IsPrefix(p, <<>>) /\ ~IsPrefix(p, Front(p))
           /\ IsPrefix(p, Front(q)) => IsPrefix(p, q)
<1>1. p \in AllPaths /\ p # <<>>
    BY PathsInAll
<1>2. Front(p) # p /\ Front(Front(p)) = <<>> /\ Front(p) \in AllPaths /\ <<>> \in AllPaths /\ Front(<<>>) = <<>>
    BY <1>1, FrontIs
<1>3. Front(q) \in AllPaths /\ Front(Front(q)) = <<>> /\ (q # <<>> => Front(q) # q)
    BY FrontIs
<1>4. IsPrefix(p, q) <=> (p = Front(q) \/ p = q)
    BY <1>1, PrefixIs
<1>5. ~IsPrefix(p, <<>>)
    BY <1>1, <1>2, PrefixIs
<1>6. ~IsPrefix(p, Front(p))
    BY <1>1, <1>2, PrefixIs
<1>7. IsPrefix(p, Front(q)) => p = Front(q)
    BY <1>1, <1>3, PrefixIs
<1>8. IsStrictPrefix(p, q) <=> (p = Front(q))
    <2>1. IsStrictPrefix(p, q) <=> IsPrefix(p, q) /\ p # q
        BY DEF IsStrictPrefix
    <2>2. p = Front(q) => p # q
        BY <1>1, <1>2, <1>3
    <2> QED BY <1>4, <2>1, <2>2
<1> QED BY <1>1, <1>2, <1>4, <1>5, <1>6, <1>7, <1>8

\* No file that can be found has a sector of the map's.
LEMMA UsesAre ==
    ASSUME NEW d, SystemOn(d), NEW p \in Trusted(d), HasHeaders(d, Find(d, p))
    PROVE  /\ Uses(d, p) \subseteq Outside \cup {DirectorySector, RootTable}
           /\ Uses(d, p) \cap SectorsOf(d, FreeMapSector) = {}
           /\ Find(d, p) \in Uses(d, p)
           /\ (p # <<>> => Uses(d, p) \subseteq Outside)
<1>1. Find(d, p) \in Sector /\ (p # <<>> => Find(d, p) \in Outside)
    BY TrustedAt
<1>2. p = <<>> => Uses(d, p) = {DirectorySector, RootTable}
    BY RootFound, RootIs DEF Uses
<1>3. p # <<>> => Uses(d, p) \subseteq Outside
    BY <1>1, FetchedOutside DEF Uses
<1>4. SectorsOf(d, FreeMapSector) = {FreeMapSector} \cup NamedBy(MapHdr)
    BY MapFetched
<1>5. ({FreeMapSector} \cup NamedBy(MapHdr)) \cap (Outside \cup {DirectorySector, RootTable}) = {}
    BY FormatIs DEF Outside
<1>6. Find(d, p) \in Uses(d, p)
    BY <1>1, ChainKept DEF SameOn, Uses, SectorsOf
<1> QED BY <1>2, <1>3, <1>4, <1>5, <1>6

\* No operation is at no step.
LEMMA NoOpStep == NoOp.step = "none"
    BY DEF NoOp

\* The invariant says that every other file is sound.
LEMMA OthersAreSound == TreeInv => OthersSound
<1> SUFFICES ASSUME TreeInv, Running PROVE OthersSound
    BY DEF OthersSound
<1> DEFINE d == disk
           G == {q \in Trusted(d) : ~WorksOn(q)}
           sectors == [q \in G |-> SectorsOf(d, Find(d, q))]
<1>1. WholeTree(d, op, fd, phase) /\ SystemInv /\ SystemOn(d)
    BY DEF TreeInv, SystemInv
<1>2. ASSUME NEW q \in G PROVE q \in Live(d, op) /\ ~InWork(op, q) /\ q \in Found(d)
    <2>1. CASE op = NoOp
        BY <2>1, NoOpStep DEF Live, Junk, InWork, Trusted
    <2>2. CASE op # NoOp
        <3>1. ~IsPrefix(op.path, q)
            BY <2>2 DEF WorksOn
        <3> QED BY <3>1 DEF Live, Junk, InWork, IsStrictPrefix, Trusted
    <2> QED BY <2>1, <2>2
<1>3. \A q \in G : sectors[q] = Uses(d, q)
    BY DEF Uses
<1>4. ASSUME NEW p \in G
      PROVE  /\ HasHeaders(d, Find(d, p))
             /\ sectors[p] \subseteq FreeMap(d) \ SectorsOf(d, FreeMapSector)
             /\ \A q \in G \ {p} : sectors[p] \cap sectors[q] = {}
    <2>1. HasHeaders(d, Find(d, p)) /\ Uses(d, p) \subseteq FreeMap(d)
        BY <1>1, <1>2 DEF WholeTree, TreeOK, Files
    <2>2. Uses(d, p) \cap SectorsOf(d, FreeMapSector) = {}
        BY <1>1, <1>2, <2>1, UsesAre
    <2>3. \A q \in G \ {p} : Uses(d, p) \cap Uses(d, q) = {}
        BY <1>1, <1>2 DEF WholeTree, TreeOK, Files
    <2> QED BY <1>3, <2>1, <2>2, <2>3
<1> QED BY <1>4 DEF OthersSound

-----------------------------------------------------------------------------
(* What a step that changes no table keeps                                 *)

SameTree(d, e) ==
    /\ Trusted(e) = Trusted(d) /\ Kept(d, e, Trusted(d)) /\ FreeMap(e) \subseteq Sector
    /\ \A p \in Trusted(d) :
        /\ IsDir(e, p) = IsDir(d, p)
        /\ IsDir(d, p) => TableAt(e, Find(d, p)) = TableAt(d, Find(d, p))

\* The headers of every file are kept, and the tables of the directories.
TreeKept(d, e) ==
    \A p \in Trusted(d) : /\ SameOn(d, e, ToSet(HeaderChain(d, Find(d, p))))
                          /\ IsDir(d, p) => DirBlock(e, Find(d, p)) = DirBlock(d, Find(d, p))

\* The same table.
LEMMA SameBlock ==
    ASSUME NEW d, NEW e, NEW s, DirBlock(e, s) = DirBlock(d, s)
    PROVE  TableAt(e, s) = TableAt(d, s) /\ (IsDirectory(e, s) <=> IsDirectory(d, s))
    BY DEF TableAt, IsDirectory

\* Where headers, tables and marks are kept, every path leads where it did.
LEMMA TreeIsSame ==
    ASSUME NEW d, SystemOn(d), NEW e, SystemOn(e), NEW o, o.step # "newtable", TreeOK(d, o), TreeKept(d, e)
    PROVE  /\ SameTree(d, e) /\ Files(e, Trusted(d))
           /\ \A p \in Trusted(d) : IsDir(d, p) => IsDirectory(e, Find(d, p))
<1>1. Live(d, o) = Trusted(d)
    BY DEF Live, Junk
<1>2. \A p \in AllPaths : SameAt(d, e, p)
    <2> DEFINE Z == {}
    <2>1. <<>> \notin Z /\ <<>> \notin doubtful /\ \A p \in AllPaths : Front(p) \in Z => p \in Z
        BY DEF TreeOK
    <2>2. ASSUME NEW p \in AllPaths \ Z, p # <<>>, Front(p) \in Trusted(d), IsDir(d, Front(p))
          PROVE  SameEntry(d, e, p)
        <3>1. DirBlock(e, Find(d, Front(p))) = DirBlock(d, Find(d, Front(p)))
            BY <2>2 DEF TreeKept
        <3> QED BY <3>1, SameBlock DEF SameEntry
    <2>3. \A p \in AllPaths \ Z : SameAt(d, e, p)
        <3> HIDE DEF Z
        <3> QED BY <2>1, <2>2, SamePaths
    <2> QED BY <2>3
<1>3. Trusted(e) = Trusted(d) /\ \A p \in Trusted(d) : Find(e, p) = Find(d, p) /\ IsDir(e, p) = IsDir(d, p)
    <2>1. Trusted(d) \subseteq AllPaths /\ Trusted(e) \subseteq AllPaths
        BY DEF Trusted, Found
    <2> QED BY <1>2, <2>1 DEF SameAt
<1>4. Files(e, Trusted(d)) /\ Kept(d, e, Trusted(d))
    <2>1. Files(d, Trusted(d))
        BY <1>1 DEF TreeOK
    <2>2. \A p \in Trusted(d) : Find(d, p) \in Sector
        BY TrustedAt
    <2>3. \A p \in Trusted(d) : SameOn(d, e, ToSet(HeaderChain(d, Find(d, p))))
        BY DEF TreeKept
    <2> QED BY <1>3, <2>1, <2>2, <2>3, FilesKept
<1>5. ASSUME NEW p \in Trusted(d), IsDir(d, p)
      PROVE  IsDirectory(e, Find(d, p)) /\ TableAt(e, Find(d, p)) = TableAt(d, Find(d, p))
    <2>1. IsDirectory(d, Find(d, p))
        BY <1>1, <1>5 DEF TreeOK
    <2>2. DirBlock(e, Find(d, p)) = DirBlock(d, Find(d, p))
        BY <1>5 DEF TreeKept
    <2> QED BY <2>1, <2>2, SameBlock
<1>6. FreeMap(e) \subseteq Sector
    BY FreeMapIs
<1>7. SameTree(d, e)
    BY <1>3, <1>4, <1>5, <1>6 DEF SameTree
<1> QED BY <1>4, <1>5, <1>7

\* And which of them are marked.
LEMMA TreeSame ==
    ASSUME NEW d, SystemOn(d), NEW e, SystemOn(e), NEW o, NEW n,
           o.step # "newtable", n.step # "newtable", TreeOK(d, o), TreeKept(d, e),
           \A p \in Trusted(d) : ~InWork(n, p) => Uses(d, p) \subseteq FreeMap(e)
    PROVE  TreeOK(e, n) /\ SameTree(d, e)
<1>1. Live(e, n) = Trusted(e)
    BY DEF Live, Junk
<1>2. /\ SameTree(d, e) /\ Files(e, Trusted(d))
      /\ \A p \in Trusted(d) : IsDir(d, p) => IsDirectory(e, Find(d, p))
    BY TreeIsSame
<1>3. Trusted(e) = Trusted(d) /\ SameFiles(d, e, Trusted(d)) /\ \A p \in Trusted(d) : Uses(e, p) = Uses(d, p)
    BY <1>2 DEF SameTree, Kept, SameFiles
<1>4. \A p \in Trusted(e) : ~InWork(n, p) => Uses(e, p) \subseteq FreeMap(e)
    BY <1>3
<1>5. \A p \in Trusted(e) : IsDir(e, p) => IsDirectory(e, Find(e, p))
    BY <1>2, <1>3 DEF SameFiles
<1>6. TreeOK(e, n)
    BY <1>1, <1>2, <1>3, <1>4, <1>5 DEF TreeOK
<1> QED BY <1>2, <1>6

\* A disk that has no change in a file keeps it.
LEMMA UsesKept ==
    ASSUME NEW d, SystemOn(d), NEW e, SystemOn(e), NEW o, TreeOK(d, o), NEW p \in Live(d, o),
           SameOn(d, e, Uses(d, p))
    PROVE  /\ SameOn(d, e, ToSet(HeaderChain(d, Find(d, p))))
           /\ DirBlock(e, Find(d, p)) = DirBlock(d, Find(d, p))
<1>1. p \in Trusted(d) /\ HasHeaders(d, Find(d, p))
    BY DEF TreeOK, Files, Live
<1>2. Find(d, p) \in Sector
    BY <1>1, TrustedAt
<1>3. SameOn(d, e, SectorsOf(d, Find(d, p)))
    BY DEF Uses
<1>4. DirBlock(e, Find(d, p)) = DirBlock(d, Find(d, p))
    BY <1>1, <1>2, <1>3, BlockKept
<1> QED BY <1>3, <1>4 DEF SectorsOf, SameOn

\* What speaks of the tree and not of the disk is kept with the tree.
LEMMA NamesKept ==
    ASSUME NEW d, NEW e, SameTree(d, e), NEW o
    PROVE  /\ ToBeNamed(d, o) => ToBeNamed(e, o)
           /\ Named(d, o) => Named(e, o)
           /\ Copying(d, o) => Copying(e, o)
           /\ (\A p \in Trusted(d) : Front(p) # o.path) => (\A p \in Trusted(e) : Front(p) # o.path)
<1>1. ASSUME ToBeNamed(d, o) PROVE ToBeNamed(e, o)
    <2>1. Front(o.path) \in Trusted(d) /\ IsDir(d, Front(o.path))
        BY <1>1 DEF ToBeNamed
    <2>2. Find(e, Front(o.path)) = Find(d, Front(o.path)) /\ Front(o.path) \in Trusted(e)
          /\ IsDir(e, Front(o.path))
          /\ TableAt(e, Find(d, Front(o.path))) = TableAt(d, Find(d, Front(o.path)))
        BY <2>1 DEF SameTree, Kept
    <2> QED BY <1>1, <2>2 DEF ToBeNamed, Parent
<1>2. Named(d, o) => Named(e, o)
    BY DEF Named, SameTree, Kept
<1>3. Copying(d, o) => Copying(e, o)
    BY DEF Copying, SameTree
<1>4. (\A p \in Trusted(d) : Front(p) # o.path) => (\A p \in Trusted(e) : Front(p) # o.path)
    BY DEF SameTree
<1> QED BY <1>1, <1>2, <1>3, <1>4

\* So is the file that Remove removes.
LEMMA RemovedKept ==
    ASSUME NEW d, SystemOn(d), NEW e, SameTree(d, e), NEW o, o.path \in Trusted(d), o.path \in Paths
    PROVE  /\ Front(o.path) \in Trusted(d) /\ IsDir(d, Front(o.path))
           /\ TableAt(e, Parent(e, o.path)) = TableAt(d, Parent(d, o.path))
           /\ Uses(e, o.path) = Uses(d, o.path) /\ o.path \in Trusted(e)
<1>1. Front(o.path) \in Trusted(d) /\ IsDir(d, Front(o.path))
    BY TrustedIs, PathsInAll
<1> QED BY <1>1 DEF SameTree, Kept, Parent

\* So is the open file.
LEMMA FdKept ==
    ASSUME NEW d, NEW e, SameTree(d, e), NEW o, NEW n, NEW f, NEW g, FdTree(d, o, f),
           n.step # "newtable", \A p \in Trusted(d) : ~InWork(o, p) => ~InWork(n, p),
           g.sector = f.sector, g.hdr = f.hdr
    PROVE  FdTree(e, n, g)
<1>1. PICK p \in Live(d, o) : /\ ~IsDir(d, p) /\ ~InWork(o, p)
                              /\ f.sector = Find(d, p) /\ f.hdr = FetchFrom(d, f.sector)
    BY DEF FdTree
<1>2. p \in Trusted(d) /\ p \in Live(e, n)
    BY DEF Live, Junk, SameTree
<1>3. ~IsDir(e, p) /\ Find(e, p) = Find(d, p) /\ FetchFrom(e, Find(d, p)) = FetchFrom(d, Find(d, p))
    BY <1>1, <1>2 DEF SameTree, Kept
<1> QED BY <1>1, <1>2, <1>3 DEF FdTree

\* A new file is whole as soon as its headers are written.
LEMMA NewSectorsAre ==
    ASSUME NEW o, NewFile(o)
    PROVE  /\ HeaderSectors(o.sector, o.hdr) \in Seq(Sector)
           /\ Len(HeaderSectors(o.sector, o.hdr)) = Len(o.hdr) /\ Len(o.hdr) \in Nat \ {0}
           /\ DOMAIN HeaderSectors(o.sector, o.hdr) = 1..Len(o.hdr)
           /\ HeaderSectors(o.sector, o.hdr)[1] = o.sector
           /\ ToSet(HeaderSectors(o.sector, o.hdr)) = {o.sector} \cup NextSectors(o.hdr)
           /\ ToSet(HeaderSectors(o.sector, o.hdr)) \cap DataSectors(o.hdr) = {}
           /\ \A i, j \in 1..Len(o.hdr) :
                HeaderSectors(o.sector, o.hdr)[i] = HeaderSectors(o.sector, o.hdr)[j] => i = j
           /\ New(o) \subseteq Outside
<1> DEFINE h == o.hdr
           s == o.sector
           c == HeaderSectors(s, h)
           n == Len(h)
<1>1. IsFile(h) /\ s \in Sector /\ NamesOnce(h) /\ s \notin NamedBy(h)
    BY DirPlaceIs DEF NewFile, FileOutside
<1>2. /\ c \in Seq(Sector) /\ Len(c) = n /\ DOMAIN c = 1..n /\ c[1] = s
      /\ \A k \in 1..n : /\ k # 1 => k - 1 \in 1..(n - 1) /\ c[k] = h[k - 1].next
                         /\ k < n => c[k + 1] = h[k].next
                         /\ c[k] \in {s} \cup NextSectors(h)
    BY <1>1, HeaderSectorsAre
<1>3. n \in Nat \ {0}
    BY <1>1, FileIs
<1>4. /\ \A k, l \in 1..(n - 1) : h[k].next = h[l].next => k = l
      /\ NextSectors(h) \cap DataSectors(h) = {}
    BY <1>1 DEF NamesOnce
<1>5. s \notin NextSectors(h) /\ s \notin DataSectors(h)
    BY <1>1 DEF NamedBy
<1>6. New(o) \subseteq Outside
    BY DEF NewFile, FileOutside, New
<1>7. NextSectors(h) = {h[k].next : k \in 1..(n - 1)}
    BY DEF NextSectors
<1> HIDE DEF c, n, h, s
<1>8. ToSet(c) = {s} \cup NextSectors(h)
    <2>1. \A k \in 1..(n - 1) : k + 1 \in 1..n /\ k \in 1..n /\ k < n
        BY <1>3
    <2>2. \A k \in 1..(n - 1) : c[k + 1] = h[k].next
        BY <1>2, <2>1
    <2>3. ASSUME NEW x \in NextSectors(h) PROVE x \in ToSet(c)
        <3>1. PICK k \in 1..(n - 1) : x = h[k].next
            BY <1>7
        <3> QED BY <1>2, <2>1, <2>2, <3>1 DEF ToSet
    <2>4. s \in ToSet(c)
        <3>1. 1 \in 1..n
            BY <1>3
        <3> QED BY <1>2, <3>1 DEF ToSet
    <2>5. ToSet(c) \subseteq {s} \cup NextSectors(h)
        BY <1>2 DEF ToSet
    <2> QED BY <2>3, <2>4, <2>5
<1>9. \A i, j \in 1..n : c[i] = c[j] => i = j
    <2> SUFFICES ASSUME NEW i \in 1..n, NEW j \in 1..n, c[i] = c[j] PROVE i = j
        OBVIOUS
    <2>1. \A k \in 1..n : k # 1 => c[k] \in NextSectors(h)
        BY <1>2, <1>7
    <2>2. CASE i = 1 \/ j = 1
        BY <1>2, <1>5, <2>1, <2>2
    <2>3. CASE i # 1 /\ j # 1
        <3>1. i - 1 \in 1..(n - 1) /\ j - 1 \in 1..(n - 1) /\ h[i - 1].next = h[j - 1].next
            BY <1>2, <2>3
        <3>2. i - 1 = j - 1
            BY <1>4, <3>1
        <3> QED BY <1>3, <3>2
    <2> QED BY <2>2, <2>3
<1>10. ToSet(c) \cap DataSectors(h) = {}
    BY <1>4, <1>5, <1>8
<1> QED BY <1>2, <1>3, <1>6, <1>8, <1>9, <1>10 DEF c, n, h, s

\* What Create wrote is what FetchFrom reads.
LEMMA NewFileFetched ==
    ASSUME NEW d, SystemOn(d), NEW o, NewFile(o), HeadersWritten(d, o, Len(o.hdr))
    PROVE  /\ HasHeaders(d, o.sector) /\ FetchFrom(d, o.sector) = o.hdr
           /\ HeaderChain(d, o.sector) = HeaderSectors(o.sector, o.hdr)
           /\ SectorsOf(d, o.sector) = New(o) /\ Separate(d, o.sector)
<1> DEFINE h == o.hdr
           s == o.sector
           c == HeaderSectors(s, h)
           n == Len(h)
<1>1. /\ c \in Seq(Sector) /\ Len(c) = n /\ n \in Nat \ {0} /\ DOMAIN c = 1..n /\ c[1] = s
      /\ ToSet(c) = {s} \cup NextSectors(h) /\ ToSet(c) \cap DataSectors(h) = {}
    BY NewSectorsAre
<1>2. IsFile(h) /\ s \in Sector /\ n <= MaxHeaders
    BY DirPlaceIs DEF NewFile, FileOutside
<1>3. \A k \in 1..n : h[k].next = IF k < n THEN c[k + 1] ELSE NoSector
    <2>1. \A k \in 1..n : (k < n => c[k + 1] = h[k].next) /\ (k = n => h[k].next = NoSector)
        BY <1>2, HeaderSectorsAre DEF IsFile
    <2>2. \A k \in 1..n : ~(k < n) => k = n
        BY <1>1
    <2> QED BY <2>1, <2>2
<1>4. \A k \in 1..n : d[c[k]] = Header(h[k])
    BY DEF HeadersWritten
<1>5. \A k \in 1..n : c[k] \in Sector
    BY <1>1
<1>6. \A k \in 1..n : IsHeader(d, c[k]) /\ d[c[k]].hdr = h[k]
    BY <1>4, <1>5, KindsAre DEF IsHeader, IsSector
<1>7. h \in Seq(HeaderRec) /\ Len(h) = n
    BY <1>2 DEF IsFile
<1>8. New(o) = {s} \cup NextSectors(h) \cup DataSectors(h)
    BY DEF New, NamedBy
<1>15. NamesOnce(h)
    BY DEF NewFile
<1> HIDE DEF c, n, h, s
<1>9. c # <<>> /\ 1 \in 1..n
    BY <1>1
<1>10. IsChain(d, c)
    BY <1>1, <1>3, <1>6, <1>9 DEF IsChain
<1>11. HeadersTyped(d)
    BY HeadersAreTyped
<1>12. HeaderChain(d, s) = c /\ HasHeaders(d, s)
    BY <1>1, <1>2, <1>10, <1>11, ChainIsFetched
<1>13. FetchFrom(d, s) = h
    <2>1. /\ FetchFrom(d, s) \in Seq(HeaderRec) /\ Len(FetchFrom(d, s)) = n
          /\ \A k \in 1..n : FetchFrom(d, s)[k] = h[k]
        BY <1>1, <1>6, <1>10, <1>11, <1>12, FetchFromIs
    <2> QED BY <1>7, <2>1, SeqEqual
<1>14. SectorsOf(d, s) = New(o) /\ Separate(d, s)
    BY <1>1, <1>8, <1>12, <1>13, <1>15 DEF SectorsOf, Separate
<1> QED BY <1>12, <1>13, <1>14 DEF c, h, s

-----------------------------------------------------------------------------
(* The steps of an operation                                               *)

\* What a step has to be shown: the next state is as good as this one.
Good == /\ SystemInv /\ SystemInv' /\ cuts' = cuts
        /\ Running /\ WholeTree(disk, op, fd, phase)
Stays == phase' # "garbage" /\ (Running' => WholeTree(disk', op', fd', phase'))

SameFile(o, n) ==
    /\ n.name = o.name /\ n.path = o.path /\ n.sector = o.sector
    /\ n.hdr = o.hdr /\ n.table = o.table /\ n.map = o.map

\* Goto sets the step, and leaves the operation's copies.
LEMMA GoneTo ==
    ASSUME OpOK(op, fd), NEW st, Goto(st)
    PROVE  op'.step = st /\ op'.k = 1 /\ SameFile(op, op')
<1>1. DOMAIN op = OpFields
    BY DEF OpOK
<1>2. op' = [op EXCEPT !.step = st, !.k = 1]
    BY DEF Goto
<1> QED BY <1>1, <1>2 DEF SameFile, OpFields

\* So does the next sector of a step.
LEMMA Counted ==
    ASSUME OpOK(op, fd), op' = [op EXCEPT !.k = @ + 1]
    PROVE  op'.step = op.step /\ op'.k = op.k + 1 /\ SameFile(op, op')
<1>1. DOMAIN op = OpFields
    BY DEF OpOK
<1> QED BY <1>1 DEF SameFile, OpFields

\* What depends only on these copies.
LEMMA SameFileIs ==
    ASSUME NEW o, NEW n, SameFile(o, n)
    PROVE  /\ New(n) = New(o) /\ (NewFile(o) => NewFile(n)) /\ Phase(n) = Phase(o)
           /\ \A d : /\ ToBeNamed(d, o) => ToBeNamed(d, n)
                     /\ Named(d, o) => Named(d, n)
                     /\ \A m : HeadersWritten(d, o, m) => HeadersWritten(d, n, m)
    BY DEF SameFile, New, NewFile, Phase, ToBeNamed, Named, HeadersWritten, Parent

\* What holds of an operation in progress.
LEMMA InProgress ==
    ASSUME Good, op.step # "none"
    PROVE  /\ op # NoOp /\ OpOK(op, fd) /\ OpTree(disk, op) /\ phase = Phase(op)
           /\ op.path \in Paths /\ SystemOn(disk) /\ SystemOn(disk') /\ TreeOK(disk, op)
    BY NoOpStep DEF Good, WholeTree, SystemInv, OpOK

\* A file that has no name yet is not found, nor is anything below it.
LEMMA NotYetFound ==
    ASSUME NEW d, SystemOn(d), NEW o, ToBeNamed(d, o), o.path \in Paths
    PROVE  \A p \in Trusted(d) : ~IsPrefix(o.path, p) /\ ~InWork(o, p)
<1>1. o.path \in AllPaths /\ o.path # <<>>
    BY PathsInAll
<1>2. o.path \notin Trusted(d)
    BY <1>1, TrustedIs DEF ToBeNamed, HasEntry, Above, Parent
<1>3. ASSUME NEW p \in Trusted(d) PROVE ~IsPrefix(o.path, p)
    <2>1. p \in AllPaths
        BY DEF Trusted, Found
    <2>2. p = <<>> => ~IsPrefix(o.path, p)
        BY <2>1, BelowIs
    <2>3. p # <<>> => Front(p) \in Trusted(d)
        BY <2>1, TrustedIs
    <2>4. IsPrefix(o.path, p) <=> (o.path = Front(p) \/ o.path = p)
        BY <2>1, BelowIs
    <2> QED BY <1>2, <2>2, <2>3, <2>4
<1> QED BY <1>3 DEF InWork

\* A write to a sector that no live file has.
LEMMA WriteUnused ==
    ASSUME NEW d, SystemOn(d), NEW x, NEW b, NEW e, e = [d EXCEPT ![x] = b], SystemOn(e),
           NEW o, o.step # "newtable", TreeOK(d, o), \A p \in Trusted(d) : x \notin Uses(d, p)
    PROVE  TreeKept(d, e)
<1>1. ASSUME NEW p \in Trusted(d)
      PROVE  /\ SameOn(d, e, ToSet(HeaderChain(d, Find(d, p))))
             /\ DirBlock(e, Find(d, p)) = DirBlock(d, Find(d, p))
    <2>1. p \in Live(d, o)
        BY DEF Live, Junk
    <2>2. HasHeaders(d, Find(d, p))
        BY <2>1 DEF TreeOK, Files
    <2>3. Uses(d, p) \subseteq Sector /\ DOMAIN d = Sector
        <3>1. Uses(d, p) \subseteq Outside \cup {DirectorySector, RootTable}
            BY <2>2, UsesAre
        <3> QED BY <3>1, FormatIs, DirPlaceIs, SystemSectorsAre DEF SystemOn
    <2>4. SameOn(d, e, Uses(d, p))
        BY <2>3 DEF SameOn
    <2> QED BY <2>1, <2>4, UsesKept
<1> QED BY <1>1 DEF TreeKept

\* Nothing is open while the kernel's own commands write the disk, but by Copy.
LEMMA FdGoes ==
    ASSUME Good, op.step \notin {"none", "newtable"}, SameTree(disk, disk'),
           phase' = phase, fd' = fd, SameFile(op, op'), op'.step \notin {"newtable", "data"},
           op.step # "data",
           \A p \in Trusted(disk) : ~InWork(op, p) => ~InWork(op', p)
    PROVE  fd'.kind = "open" => (phase' = "user" \/ op'.step = "data") /\ FdTree(disk', op', fd')
<1> SUFFICES ASSUME fd.kind = "open" 
             PROVE  phase = "user" /\ FdTree(disk', op', fd')
    OBVIOUS
<1>1. phase = "user" /\ FdTree(disk, op, fd)
    BY DEF Good, WholeTree
<1> QED BY <1>1, FdKept

\* The sector a new header goes to is in no file.
LEMMA HeaderPlace ==
    ASSUME Good, WriteHeader, NEW x, x = HeaderSectors(op.sector, op.hdr)[op.k]
    PROVE  /\ x \in New(op) /\ x \in Outside
           /\ \A p \in Trusted(disk) : x \notin Uses(disk, p) /\ Uses(disk, p) \subseteq FreeMap(disk)
<1> DEFINE d == disk
<1>1. op.step = "header"
    BY DEF WriteHeader, At
<1>2. /\ op # NoOp /\ OpOK(op, fd) /\ OpTree(d, op) /\ op.path \in Paths /\ SystemOn(d) /\ TreeOK(d, op)
    BY <1>1, InProgress
<1>3. NewFile(op) /\ ToBeNamed(d, op) /\ New(op) \cap FreeMap(d) = {}
    BY <1>1, <1>2 DEF OpTree, Creating, Removing, Copying
<1>4. op.k \in 1..Len(op.hdr)
    BY <1>1, <1>2 DEF OpOK
<1>5. x \in New(op) /\ x \in Outside
    <2>1. x \in {op.sector} \cup NextSectors(op.hdr)
        <3>1. IsFile(op.hdr) /\ op.sector \in Sector
            BY <1>3, DirPlaceIs DEF NewFile, FileOutside
        <3> QED BY <1>4, <3>1, HeaderSectorsAre
    <2>2. x \in New(op)
        BY <2>1 DEF New, NamedBy
    <2> QED BY <1>3, <2>2, NewSectorsAre
<1>6. \A p \in Trusted(d) : Uses(d, p) \subseteq FreeMap(d)
    BY <1>1, <1>2, <1>3, NotYetFound DEF TreeOK, Live, Junk
<1> QED BY <1>3, <1>5, <1>6

\* The headers of a new file go to sectors that nothing uses.
LEMMA WriteHeaderWhole ==
    ASSUME Good, WriteHeader PROVE Stays
<1> DEFINE d == disk
           e == disk'
           x == HeaderSectors(op.sector, op.hdr)[op.k]
           b == Header(op.hdr[op.k])
           n == Len(op.hdr)
<1>1. op.step = "header"
    BY DEF WriteHeader, At
<1>2. /\ op # NoOp /\ OpOK(op, fd) /\ OpTree(d, op) /\ phase = Phase(op) /\ op.path \in Paths
      /\ SystemOn(d) /\ SystemOn(e) /\ TreeOK(d, op)
    BY <1>1, InProgress
<1>3. Creating(d, op)
    BY <1>1, <1>2 DEF OpTree, Removing, Copying
<1>4. NewFile(op) /\ ToBeNamed(d, op) /\ New(op) \cap FreeMap(d) = {} /\ op.map = FreeMap(d) \cup New(op)
      /\ HeadersWritten(d, op, op.k - 1) /\ op.name \in {"create", "copy", "mkdir"}
    BY <1>1, <1>3 DEF Creating
<1>5. op.k \in 1..n /\ n \in Nat \ {0}
    BY <1>1, <1>2, <1>4, NewSectorsAre DEF OpOK
<1>6. x \in New(op) /\ x \in Outside
    BY HeaderPlace
<1>7. e = [d EXCEPT ![x] = b]
    BY DEF WriteHeader, WriteSector
<1>8. /\ UNCHANGED <<phase, fd>>
      /\ \/ (op.k < n /\ op' = [op EXCEPT !.k = @ + 1])
         \/ (~(op.k < n) /\ Goto("table"))
    BY DEF WriteHeader
<1>9. \A p \in Trusted(d) : ~IsPrefix(op.path, p) /\ ~InWork(op, p)
    BY <1>2, <1>4, NotYetFound
<1>10. \A p \in Trusted(d) : x \notin Uses(d, p) /\ Uses(d, p) \subseteq FreeMap(d)
    BY HeaderPlace
<1>11. TreeKept(d, e)
    <2>1. \A p \in Trusted(d) : x \notin Uses(d, p)
        BY <1>10
    <2> HIDE DEF d, e, x, b
    <2> QED BY <1>1, <1>2, <1>7, <2>1, WriteUnused
<1>12. FreeMap(e) = FreeMap(d)
    <2> HIDE DEF d, e, x, b
    <2> QED BY <1>2, <1>6, <1>7, MapApart
<1>13. /\ SameFile(op, op') /\ op'.step \in {"header", "table"}
       /\ op'.step = "header" => op'.k = op.k + 1
       /\ op'.step = "table" => op.k = n
    <2>1. CASE op.k < n /\ op' = [op EXCEPT !.k = @ + 1]
        BY <1>1, <1>2, <2>1, Counted
    <2>2. CASE ~(op.k < n) /\ Goto("table")
        <3>1. op.k = n
            BY <1>5, <2>2
        <3> QED BY <1>2, <2>2, <3>1, GoneTo
    <2> QED BY <1>8, <2>1, <2>2
<1>14. \A p \in Trusted(d) : ~InWork(op', p)
    BY <1>9, <1>13 DEF InWork, SameFile
<1>15. TreeOK(e, op') /\ SameTree(d, e)
    BY <1>1, <1>2, <1>10, <1>11, <1>12, <1>13, TreeSame
<1>16. HeadersWritten(e, op, op.k)
    <2> DEFINE c == HeaderSectors(op.sector, op.hdr)
    <2>1. \A i, j \in 1..n : c[i] = c[j] => i = j
        BY <1>4, NewSectorsAre
    <2>2. c[op.k] = x /\ x \in DOMAIN d
        BY <1>2, <1>6, DirPlaceIs DEF SystemOn
    <2> HIDE DEF c, x
    <2>3. ASSUME NEW j \in 1..op.k PROVE e[c[j]] = Header(op.hdr[j])
        <3>1. CASE j = op.k
            BY <1>7, <2>2, <3>1
        <3>2. CASE j # op.k
            <4>1. j \in 1..(op.k - 1) /\ j \in 1..n
                BY <1>5, <3>2
            <4>2. c[j] # x
                BY <1>5, <2>1, <2>2, <3>2, <4>1
            <4>3. d[c[j]] = Header(op.hdr[j])
                BY <1>4, <4>1 DEF HeadersWritten, c
            <4> QED BY <1>7, <4>2, <4>3
        <3> QED BY <3>1, <3>2
    <2> QED BY <2>3 DEF HeadersWritten, c
<1>17. HeadersWritten(e, op', IF op'.step = "header" THEN op'.k - 1 ELSE Len(op'.hdr))
    <2>1. (IF op'.step = "header" THEN op'.k - 1 ELSE Len(op'.hdr)) = op.k
        <3>1. Len(op'.hdr) = n
            BY <1>13 DEF SameFile
        <3> QED BY <1>5, <1>13, <3>1
    <2> QED BY <1>13, <1>16, <2>1, SameFileIs
<1>18. Creating(e, op')
    <2>1. /\ NewFile(op') /\ New(op') = New(op) /\ op'.map = op.map /\ op'.name = op.name
          /\ op'.path \notin doubtful
        BY <1>3, <1>4, <1>13, SameFileIs DEF SameFile, Creating
    <2>2. ToBeNamed(e, op)
        BY <1>4, <1>15, NamesKept
    <2>3. ToBeNamed(e, op')
        BY <1>13, <2>2, SameFileIs
    <2> QED BY <1>4, <1>12, <1>13, <1>17, <2>1, <2>3 DEF Creating
<1>19. phase' = Phase(op')
    BY <1>2, <1>8, <1>13, SameFileIs
<1>20. fd'.kind = "open" => (phase' = "user" \/ op'.step = "data") /\ FdTree(e, op', fd')
    BY <1>1, <1>8, <1>13, <1>14, <1>15, FdGoes
<1>21. phase' # "garbage"
    BY <1>8 DEF Good, Running
<1> QED BY <1>15, <1>18, <1>19, <1>20, <1>21 DEF Stays, WholeTree, OpTree

\* What WriteMap does to the operation.
LEMMA WriteMapIs ==
    ASSUME Good, WriteMap
    PROVE  /\ op.step = "map" /\ op.k \in 1..MapSectors /\ op.map \subseteq Sector
           /\ disk' = [disk EXCEPT ![MapPlace(op.k)] = MapPart(op.k, op.map)]
           /\ UNCHANGED <<phase, fd>>
           /\ \/ /\ op.k < MapSectors /\ op'.step = "map" /\ op'.k = op.k + 1 /\ SameFile(op, op')
              \/ /\ op.k = MapSectors /\ op.name = "remove" /\ op'.step = "table" /\ SameFile(op, op')
              \/ /\ op.k = MapSectors /\ op.name = "copy" /\ op'.step = "open" /\ SameFile(op, op')
              \/ /\ op.k = MapSectors /\ op.name \in {"create", "mkdir"} /\ op' = NoOp
<1>1. op.step = "map"
    BY DEF WriteMap, At
<1>2. OpOK(op, fd) /\ SystemOn(disk)
    BY <1>1, InProgress
<1>3. op.k \in 1..MapSectors /\ op.map \subseteq Sector
    BY <1>1, <1>2 DEF OpOK
<1>4. disk' = [disk EXCEPT ![MapPlace(op.k)] = MapPart(op.k, op.map)]
    BY <1>2, MapFetched DEF WriteMap, WriteSector, MapPlace
<1>5. \/ op.k < MapSectors /\ op' = [op EXCEPT !.k = @ + 1]
      \/ op.k = MapSectors /\ op.name = "remove" /\ Goto("table")
      \/ op.k = MapSectors /\ op.name = "copy" /\ Goto("open")
      \/ op.k = MapSectors /\ op.name \in {"create", "mkdir"} /\ op' = NoOp
    BY DEF WriteMap
<1>6. op' = [op EXCEPT !.k = @ + 1] => op'.step = "map" /\ op'.k = op.k + 1 /\ SameFile(op, op')
    BY <1>1, <1>2, Counted
<1>7. Goto("table") => op'.step = "table" /\ SameFile(op, op')
    BY <1>2, GoneTo
<1>8. Goto("open") => op'.step = "open" /\ SameFile(op, op')
    BY <1>2, GoneTo
<1>9. UNCHANGED <<phase, fd>>
    BY DEF WriteMap
<1> QED BY <1>1, <1>3, <1>4, <1>5, <1>6, <1>7, <1>8, <1>9

\* A step that writes the map: what is marked then, and what stays.
LEMMA MapGoes ==
    ASSUME Good, WriteMap
    PROVE  /\ TreeKept(disk, disk')
           /\ \A p \in Trusted(disk) : SameOn(disk, disk', Uses(disk, p))
           /\ PartWritten(disk, disk', op.k, op.map)
<1> DEFINE d == disk
           e == disk'
           x == MapPlace(op.k)
           b == MapPart(op.k, op.map)
<1>1. op.step = "map" /\ op.k \in 1..MapSectors /\ op.map \subseteq Sector /\ e = [d EXCEPT ![x] = b]
    BY WriteMapIs
<1>2. SystemOn(d) /\ SystemOn(e) /\ TreeOK(d, op)
    BY <1>1, InProgress
<1>3. ASSUME NEW p \in Trusted(d) PROVE x \notin Uses(d, p)
    <2>1. HasHeaders(d, Find(d, p))
        BY <1>1, <1>2 DEF TreeOK, Files, Live, Junk
    <2>2. Uses(d, p) \subseteq Outside \cup {DirectorySector, RootTable}
        BY <1>2, <2>1, UsesAre
    <2> QED BY <1>1, <2>2, SystemSectorsAre DEF Outside
<1>4. TreeKept(d, e)
    <2> HIDE DEF d, e, x, b
    <2> QED BY <1>1, <1>2, <1>3, WriteUnused
<1>5. PartWritten(d, e, op.k, op.map)
    <2> HIDE DEF d, e
    <2> QED BY <1>1, <1>2, MapWritten
<1>6. \A p \in Trusted(d) : SameOn(d, e, Uses(d, p))
    <2> HIDE DEF d, x, b
    <2> QED BY <1>1, <1>3 DEF SameOn
<1> QED BY <1>4, <1>5, <1>6

\* Once more than one part is written, and all of them.
LEMMA PartsWritten ==
    ASSUME NEW d, SystemOn(d), NEW e, SystemOn(e), NEW map, map \subseteq Sector, NEW k \in 1..MapSectors,
           PartWritten(d, e, k, map),
           FreeMap(d) \subseteq map,
           \A j \in 1..(k - 1) : map \cap PartOf(j) \subseteq FreeMap(d)
    PROVE  /\ FreeMap(d) \subseteq FreeMap(e) /\ FreeMap(e) \subseteq map
           /\ \A j \in 1..k : map \cap PartOf(j) \subseteq FreeMap(e)
           /\ k = MapSectors => map \subseteq FreeMap(e)
<1>1. FreeMap(d) \subseteq Sector /\ FreeMap(e) \subseteq Sector
    BY FreeMapIs
<1>0. \A s \in Sector : s \in FreeMap(e) <=> (IF s \in PartOf(k) THEN s \in map ELSE s \in FreeMap(d))
    BY DEF PartWritten
<1>2. FreeMap(d) \subseteq FreeMap(e) /\ FreeMap(e) \subseteq map
    BY <1>0, <1>1
<1>3. \A j \in 1..k : map \cap PartOf(j) \subseteq FreeMap(e)
    <2> SUFFICES ASSUME NEW j \in 1..k PROVE map \cap PartOf(j) \subseteq FreeMap(e)
        OBVIOUS
    <2>1. CASE j = k
        BY <1>0, <2>1
    <2>2. CASE j # k
        <3>1. j \in 1..(k - 1)
            BY <2>2
        <3> QED BY <1>2, <3>1
    <2> QED BY <2>1, <2>2
<1>4. k = MapSectors => map \subseteq FreeMap(e)
    BY <1>3, PartsOfSectors
<1> QED BY <1>2, <1>3, <1>4

\* The map is written: a new file is marked, a removed one is not.
LEMMA WriteMapWhole ==
    ASSUME Good, WriteMap PROVE Stays
<1> DEFINE d == disk
           e == disk'
<1>1. /\ op.step = "map" /\ op.k \in 1..MapSectors /\ op.map \subseteq Sector /\ UNCHANGED <<phase, fd>>
      /\ \/ /\ op.k < MapSectors /\ op'.step = "map" /\ op'.k = op.k + 1 /\ SameFile(op, op')
         \/ /\ op.k = MapSectors /\ op.name = "remove" /\ op'.step = "table" /\ SameFile(op, op')
         \/ /\ op.k = MapSectors /\ op.name = "copy" /\ op'.step = "open" /\ SameFile(op, op')
         \/ /\ op.k = MapSectors /\ op.name \in {"create", "mkdir"} /\ op' = NoOp
    BY WriteMapIs
<1>2. /\ op # NoOp /\ OpOK(op, fd) /\ OpTree(d, op) /\ phase = Phase(op) /\ op.path \in Paths
      /\ SystemOn(d) /\ SystemOn(e) /\ TreeOK(d, op)
    BY <1>1, InProgress
<1>3. TreeKept(d, e) /\ PartWritten(d, e, op.k, op.map)
    BY MapGoes
<1>4. op'.step \in {"map", "table", "open", "none"}
    BY <1>1, NoOpStep
<1>5. phase' # "garbage"
    BY <1>1 DEF Good, Running
<1>6. \A p \in Trusted(d) : ~InWork(op, p) => Uses(d, p) \subseteq FreeMap(d)
    BY <1>1, <1>2 DEF TreeOK, Live, Junk
<1>7. CASE Removing(d, op)
    <2>1. op.name = "remove" /\ op.path \in Trusted(d) /\ FreeMap(d) \ Uses(d, op.path) \subseteq op.map
        BY <1>7 DEF Removing
    <2>2. SameFile(op, op') /\ op'.step \in {"map", "table"}
        BY <1>1, <2>1
    <2>3. \A p \in Trusted(d) : InWork(op, p) <=> InWork(op', p)
        BY <1>1, <2>2 DEF InWork, SameFile
    <2>4. FreeMap(d) \subseteq Sector
        BY <1>2, FreeMapIs
    <2>5. ASSUME NEW p \in Trusted(d), ~InWork(op', p) PROVE Uses(d, p) \subseteq FreeMap(e)
        <3>1. Uses(d, p) \subseteq FreeMap(d)
            BY <1>6, <2>3, <2>5
        <3>2. p # op.path
            <4>1. IsPrefix(op.path, op.path)
                BY <1>2, PathsInAll, BelowIs
            <4> QED BY <1>1, <2>3, <2>5, <4>1 DEF InWork
        <3>3. Uses(d, p) \cap Uses(d, op.path) = {}
            BY <1>1, <1>2, <2>1, <3>2 DEF TreeOK, Files, Live, Junk
        <3> QED BY <1>3, <2>1, <2>4, <3>1, <3>3 DEF PartWritten
    <2>6. TreeOK(e, op') /\ SameTree(d, e)
        BY <1>1, <1>2, <1>3, <2>2, <2>5, TreeSame
    <2>7. /\ TableAt(e, Parent(e, op.path)) = TableAt(d, Parent(d, op.path))
          /\ Uses(e, op.path) = Uses(d, op.path) /\ op.path \in Trusted(e)
        BY <1>2, <2>1, <2>6, RemovedKept
    <2>8. FreeMap(e) \ Uses(e, op.path) \subseteq op.map
        <3>1. FreeMap(e) \subseteq Sector
            BY <1>2, FreeMapIs
        <3> QED BY <1>3, <2>1, <2>7, <3>1 DEF PartWritten
    <2>9. Removing(e, op')
        BY <1>7, <2>2, <2>7, <2>8 DEF Removing, SameFile
    <2>10. phase' = Phase(op')
        BY <1>1, <1>2, <2>2, SameFileIs
    <2>11. fd'.kind = "open" => (phase' = "user" \/ op'.step = "data") /\ FdTree(e, op', fd')
        BY <1>1, <2>2, <2>3, <2>6, FdGoes
    <2> QED BY <1>5, <2>6, <2>9, <2>10, <2>11 DEF Stays, WholeTree, OpTree
<1>8. CASE Creating(d, op)
    <2>1. /\ NewFile(op) /\ op.map = FreeMap(d) \cup New(op) /\ HeadersWritten(d, op, Len(op.hdr))
          /\ Named(d, op) /\ op.name \in {"create", "copy", "mkdir"}
          /\ \A j \in 1..(op.k - 1) : op.map \cap PartOf(j) \subseteq FreeMap(d)
          /\ \A p \in Trusted(d) : Front(p) # op.path
        BY <1>1, <1>8 DEF Creating
    <2>2. /\ FreeMap(d) \subseteq FreeMap(e) /\ FreeMap(e) \subseteq op.map
          /\ \A j \in 1..op.k : op.map \cap PartOf(j) \subseteq FreeMap(e)
          /\ op.k = MapSectors => op.map \subseteq FreeMap(e)
        <3>1. FreeMap(d) \subseteq op.map
            BY <2>1
        <3>2. \A j \in 1..(op.k - 1) : op.map \cap PartOf(j) \subseteq FreeMap(d)
            BY <2>1
        <3> HIDE DEF d, e
        <3> QED BY <1>1, <1>2, <1>3, <3>1, <3>2, PartsWritten
    <2>3. HeadersWritten(e, op, Len(op.hdr))
        <3> DEFINE c == HeaderSectors(op.sector, op.hdr)
                   x == MapPlace(op.k)
        <3>1. \A j \in 1..Len(op.hdr) : c[j] \in New(op)
            <4>1. DOMAIN c = 1..Len(op.hdr) /\ ToSet(c) = {op.sector} \cup NextSectors(op.hdr)
                BY <2>1, NewSectorsAre
            <4> HIDE DEF c
            <4>2. \A j \in 1..Len(op.hdr) : c[j] \in ToSet(c)
                BY <4>1 DEF ToSet
            <4> QED BY <4>1, <4>2 DEF New, NamedBy
        <3>2. x \notin Outside /\ New(op) \subseteq Outside
            BY <1>1, <2>1, NewSectorsAre, SystemSectorsAre DEF Outside
        <3>3. e = [d EXCEPT ![x] = MapPart(op.k, op.map)]
            BY WriteMapIs
        <3> HIDE DEF c, x
        <3>4. \A j \in 1..Len(op.hdr) : e[c[j]] = d[c[j]]
            BY <3>1, <3>2, <3>3
        <3> QED BY <2>1, <3>4 DEF HeadersWritten, c
    <2>4. Uses(d, op.path) \subseteq op.map
        <3>1. SectorsOf(d, op.sector) = New(op)
            BY <1>2, <2>1, NewFileFetched
        <3> QED BY <2>1, <3>1 DEF Named, Uses
    <2>5. ASSUME NEW p \in Trusted(d), ~InWork(op', p) PROVE Uses(d, p) \subseteq FreeMap(e)
        <3>1. CASE ~InWork(op, p)
            BY <1>6, <2>2, <2>5, <3>1
        <3>2. CASE InWork(op, p)
            <4>1. p = op.path
                <5>1. IsPrefix(op.path, p) /\ p \in AllPaths
                    BY <3>2 DEF InWork, Trusted, Found
                <5> QED BY <1>2, <2>1, <5>1, BelowIs
            <4>2. op.k = MapSectors
                <5>1. op.k < MapSectors => InWork(op', p)
                    BY <1>1, <3>2, MapSectorsIs DEF InWork, SameFile
                <5> QED BY <1>1, <2>5, <5>1
            <4> QED BY <2>2, <2>4, <4>1, <4>2
        <3> QED BY <3>1, <3>2
    <2>6. TreeOK(e, op') /\ SameTree(d, e)
        BY <1>1, <1>2, <1>3, <1>4, <2>5, TreeSame
    <2>7. Named(e, op) /\ \A p \in Trusted(e) : Front(p) # op.path
        BY <2>1, <2>6, NamesKept
    <2>8. CASE op.k < MapSectors
        <3>1. op'.step = "map" /\ op'.k = op.k + 1 /\ SameFile(op, op')
            BY <1>1, <2>8
        <3>2. op'.k - 1 = op.k
            BY <1>1, <3>1
        <3>3. op.map = FreeMap(e) \cup New(op)
            BY <2>1, <2>2
        <3>4. NewFile(op') /\ Named(e, op') /\ New(op') = New(op) /\ HeadersWritten(e, op', Len(op.hdr))
            BY <2>1, <2>3, <2>7, <3>1, SameFileIs
        <3>9. op.path \notin doubtful
            BY <1>8 DEF Creating
        <3>5. Creating(e, op')
            BY <2>1, <2>2, <2>7, <3>1, <3>2, <3>3, <3>4, <3>9 DEF Creating, SameFile
        <3>6. phase' = Phase(op')
            BY <1>1, <1>2, <3>1, SameFileIs
        <3>7. \A p \in Trusted(d) : ~InWork(op, p) => ~InWork(op', p)
            BY <1>1, <3>1 DEF InWork, SameFile
        <3>8. fd'.kind = "open" => (phase' = "user" \/ op'.step = "data") /\ FdTree(e, op', fd')
            BY <1>1, <2>6, <3>1, <3>7, FdGoes
        <3> QED BY <1>5, <2>6, <3>5, <3>6, <3>8 DEF Stays, WholeTree, OpTree
    <2>9. CASE op.k = MapSectors /\ op.name = "copy"
        <3>1. op'.step = "open" /\ SameFile(op, op')
            BY <1>1, <2>1, <2>9
        <3>2. Copying(e, op')
            <4>1. ~IsDir(e, op.path)
                BY <2>7, <2>9 DEF Named
            <4> QED BY <2>7, <2>9, <3>1, <4>1 DEF Named, Copying, SameFile
        <3>3. phase' = Phase(op')
            BY <1>1, <1>2, <3>1, SameFileIs
        <3>4. \A p \in Trusted(d) : ~InWork(op, p) => ~InWork(op', p)
            BY <3>1 DEF InWork
        <3>5. fd'.kind = "open" => (phase' = "user" \/ op'.step = "data") /\ FdTree(e, op', fd')
            BY <1>1, <2>6, <3>1, <3>4, FdGoes
        <3> QED BY <1>5, <2>6, <3>2, <3>3, <3>5 DEF Stays, WholeTree, OpTree
    <2>10. CASE op.k = MapSectors /\ op.name \in {"create", "mkdir"}
        <3>1. op' = NoOp
            BY <1>1, <2>10
        <3>2. \A p \in Trusted(d) : ~InWork(op, p) => ~InWork(op', p)
            BY <3>1, NoOpStep DEF InWork
        <3>3. fd'.kind = "open" => (phase' = "user" \/ op'.step = "data") /\ FdTree(e, op', fd')
            <4> SUFFICES ASSUME fd.kind = "open" PROVE phase = "user" /\ FdTree(e, op', fd)
                BY <1>1
            <4>1. phase = "user" /\ FdTree(d, op, fd)
                BY <1>1 DEF Good, WholeTree
            <4> QED BY <1>4, <2>6, <3>1, <3>2, <4>1, FdKept, NoOpStep
        <3> QED BY <1>5, <2>6, <3>1, <3>3 DEF Stays, WholeTree
    <2>11. op.k < MapSectors \/ op.k = MapSectors
        BY <1>1
    <2> QED BY <2>1, <2>8, <2>9, <2>10, <2>11
<1> QED BY <1>1, <1>2, <1>7, <1>8 DEF OpTree, Copying

-----------------------------------------------------------------------------
(* Steps that start from no operation, and Copy's                          *)

\* A directory that can be found has a table, so a name in it is there or not.
LEMMA FindInGood ==
    ASSUME NEW d, SystemOn(d), NEW s \in DirPlace, IsDirectory(d, s), NEW n
    PROVE  FindIn(d, s, n) \in Outside \cup {NoSector}
<1>1. ~(s < 0)
    BY NotNegative, DirPlaceIs
<1>2. TableOutside(TableAt(d, s))
    BY TableAtIs
<1>3. FindIn(d, s, n) = IF n \in DOMAIN TableAt(d, s) THEN TableAt(d, s)[n].sector ELSE NoSector
    BY <1>1 DEF FindIn, IsDirectory, TableAt
<1> QED BY <1>2, <1>3 DEF TableOutside

\* What can be found is good, directories and files.
LEMMA PathGood ==
    ASSUME NEW d, SystemOn(d), TreeOK(d, NoOp), NEW p \in Paths, ~Doubted(p),
           Exists(d, Front(p)) => IsDir(d, Front(p))
    PROVE  /\ Find(d, Front(p)) # Garbage /\ Find(d, p) # Garbage
           /\ Find(d, Front(p)) >= 0 =>
                Front(p) \in Trusted(d) /\ IsDir(d, Front(p)) /\ IsDirectory(d, Find(d, Front(p)))
           /\ Find(d, p) >= 0 => p \in Trusted(d) /\ HasHeaders(d, Find(d, p))
<1> DEFINE f == Front(p)
<1>1. p \in AllPaths /\ p # <<>> /\ f \in AllPaths /\ Front(f) = <<>>
    BY PathsInAll, FrontIs
<1>2. /\ Live(d, NoOp) = Trusted(d) /\ ~Doubted(f)
      /\ <<>> \in Trusted(d) /\ Find(d, <<>>) = DirectorySector
    <2>1. Live(d, NoOp) = Trusted(d) /\ <<>> \notin doubtful
        BY NoOpStep DEF TreeOK, Live, Junk
    <2> QED BY <1>1, <2>1, DoubtedIs, RootTrusted
<1>3. Find(d, f) \in DirPlace \cup {NoSector, Garbage} /\ Find(d, p) = FindIn(d, Find(d, f), Last(p))
    BY <1>1, FindStep
<1>4. Find(d, f) # Garbage
    <2>1. CASE f = <<>>
        BY <1>2, <2>1, DirPlaceIs DEF DirPlace
    <2>2. CASE f # <<>>
        <3>1. Find(d, f) = FindIn(d, Find(d, <<>>), Last(f))
            BY <1>1, <2>2, FindStep
        <3>2. Find(d, <<>>) \in DirPlace /\ IsDirectory(d, Find(d, <<>>))
            BY <1>2, RootIs DEF DirPlace
        <3>3. Find(d, f) \in Outside \cup {NoSector}
            BY <3>1, <3>2, FindInGood
        <3> QED BY <3>3, DirPlaceIs
    <2> QED BY <2>1, <2>2
<1>5. ASSUME Find(d, f) >= 0
      PROVE  f \in Trusted(d) /\ IsDir(d, f) /\ IsDirectory(d, Find(d, f)) /\ Find(d, f) \in DirPlace
    <2>1. Exists(d, f) /\ IsDir(d, f)
        BY <1>5 DEF Exists
    <2>2. IsDir(d, <<>>)
        BY DEF IsDir
    <2>3. f \in Trusted(d)
        BY <1>1, <1>2, <2>1, <2>2 DEF Trusted, Found
    <2>4. ~(NoOp.step = "newtable" /\ f = NoOp.path)
        BY NoOpStep
    <2>5. IsDirectory(d, Find(d, f))
        BY <1>2, <2>1, <2>3, <2>4 DEF TreeOK
    <2> QED BY <1>3, <1>5, <2>1, <2>3, <2>5, DirPlaceIs
<1>6. Find(d, f) < 0 => Find(d, p) = Find(d, f)
    BY <1>3 DEF FindIn
<1>7. Find(d, f) >= 0 \/ Find(d, f) = NoSector
    BY <1>3, <1>4, DirPlaceIs
<1>8. Find(d, f) >= 0 => Find(d, p) \in Outside \cup {NoSector}
    BY <1>3, <1>5, FindInGood
<1>9. Find(d, p) # Garbage
    BY <1>6, <1>7, <1>8, DirPlaceIs
<1>10. ASSUME Find(d, p) >= 0 PROVE p \in Trusted(d) /\ HasHeaders(d, Find(d, p))
    <2>1. Find(d, f) >= 0
        BY <1>6, <1>7, <1>10, DirPlaceIs
    <2>2. p \in Trusted(d)
        BY <1>1, <1>5, <1>10, <2>1 DEF Trusted, Found, Exists
    <2> QED BY <1>2, <2>2 DEF TreeOK, Files
<1> QED BY <1>4, <1>5, <1>9, <1>10

\* What holds between operations.
LEMMA IdleIs ==
    ASSUME Good, op = NoOp
    PROVE  /\ SystemOn(disk) /\ TreeOK(disk, NoOp) /\ SystemInv
           /\ fd.kind = "open" => phase = "user" /\ FdTree(disk, NoOp, fd)
           /\ phase \in {"main", "user"} /\ cuts' = cuts
    BY NoOpStep DEF Good, WholeTree, SystemInv, Running

\* A step between operations that leaves the disk.
LEMMA IdleStays ==
    ASSUME Good, op = NoOp, disk' = disk, op' = NoOp, phase' # "garbage",
           \/ fd'.kind # "open"
           \/ phase' = "user" /\ FdTree(disk, NoOp, fd')
           \/ fd' = fd /\ (phase' = phase \/ phase' = "freed")
    PROVE  Stays
<1>1. TreeOK(disk, NoOp) /\ (fd.kind = "open" => phase = "user" /\ FdTree(disk, NoOp, fd))
    BY IdleIs
<1>2. Running' => (fd'.kind = "open" => phase' = "user" /\ FdTree(disk', op', fd'))
    BY <1>1 DEF Running
<1> QED BY <1>1, <1>2 DEF Stays, WholeTree

\* No file is open.
LEMMA NotOpen == Null.kind # "open" /\ Deleted.kind # "open"
    BY DEF Null, Deleted

\* The kernel boots again.
LEMMA RebootStays ==
    ASSUME Good, op = NoOp, Reboot, disk' = disk PROVE Stays
    BY IdleStays, NotOpen DEF Reboot

\* An operation fails.
LEMMA FailsStays ==
    ASSUME Good, op = NoOp, Fails \/ FailsAndDeletesUninit PROVE Stays
<1>1. CASE Fails
    BY <1>1, IdleIs, IdleStays DEF Fails, vars
<1>2. CASE Reboot /\ UNCHANGED <<disk, cuts>>
    BY <1>2, RebootStays
<1> QED BY <1>1, <1>2 DEF FailsAndDeletesUninit

\* An operation that creates a file starts.
LEMMA BegunStays ==
    ASSUME Good, op = NoOp, NEW name \in {"create", "copy", "mkdir"}, NEW p \in Paths, NEW size \in Nat,
           name = "mkdir" => size = 1, ~Doubted(p),
           phase = IF name = "create" THEN "user" ELSE "main",
           Front(p) \in Trusted(disk), IsDir(disk, Front(p)),
           NEW table, table = TableAt(disk, Find(disk, Front(p))), Last(p) \notin DOMAIN table,
           NEW sector \in Sector \ FreeMap(disk),
           NEW alloc, alloc = Allocate(FreeMap(disk) \cup {sector}, size), alloc.ok,
           op' = BegunOp(name, p, sector, alloc, table),
           UNCHANGED <<disk, phase, fd, cuts>>
    PROVE  Stays
<1> DEFINE d == disk
           map == FreeMap(d) \cup {sector}
<1>1. SystemOn(d) /\ TreeOK(d, NoOp) /\ (fd.kind = "open" => phase = "user" /\ FdTree(d, NoOp, fd))
    BY IdleIs
<1>2. /\ op'.name = name /\ op'.path = p /\ op'.sector = sector /\ op'.hdr = alloc.hdr /\ op'.map = alloc.map
      /\ op'.table = Add(table, Last(p), sector, name = "mkdir") /\ op'.step = "header" /\ op'.k = 1
    BY DEF BegunOp
<1>3. SystemSectors \subseteq FreeMap(d) /\ FreeMap(d) \subseteq Sector /\ sector \in Outside
    BY <1>1, FreeMapIs DEF Outside
<1>4. FileOutside(alloc.hdr) /\ NamedBy(alloc.hdr) \subseteq Sector \ map /\ alloc.map = map \cup NamedBy(alloc.hdr)
    <2>1. SystemSectors \subseteq map /\ map \subseteq Sector
        BY <1>3
    <2> HIDE DEF map, d
    <2>2. alloc = Allocate(map, size)
        BY DEF map, d
    <2>3. Allocate(map, size).ok
        BY <2>2
    <2>4. /\ FileOutside(Allocate(map, size).hdr)
          /\ NamedBy(Allocate(map, size).hdr) \subseteq Sector \ map
          /\ Allocate(map, size).map = map \cup NamedBy(Allocate(map, size).hdr)
        BY <2>1, <2>3, AllocatedOutside
    <2> QED BY <2>2, <2>4
<1>5. /\ Len(alloc.hdr) = NumHeaders(size) /\ FileLength(alloc.hdr) = size /\ NamesOnce(alloc.hdr)
    BY AllocateTakesClearSectors
<1>6. Len(alloc.hdr) <= MaxHeaders
    <2>1. size <= NumSectors
        <3> DEFINE c == Clear(map)
                   n == NumHeaders(size)
        <3>1. n \in Nat \ {0} /\ size + n - 1 <= Len(c) /\ Len(c) \in Nat
            BY AllocateGives
        <3>2. Len(c) = Cardinality(Sector \ map)
            BY ClearIs
        <3>3. Cardinality(Sector \ map) \in Nat /\ Cardinality(Sector \ map) <= NumSectors
            <4>1. IsFiniteSet(Sector) /\ Cardinality(Sector) = NumSectors
                BY SectorsAreFinite
            <4>2. Sector \ map \in SUBSET Sector
                OBVIOUS
            <4> HIDE DEF map
            <4> QED BY <4>1, <4>2, FS_Subset, FS_CardinalityType
        <3> HIDE DEF n, c, map
        <3> QED BY <3>1, <3>2, <3>3, FileHeaderAssumption
    <2> QED BY <1>5, <2>1, NumHeadersMono, FileHeaderAssumption DEF MaxHeaders
<1>7. NewFile(op')
    BY <1>2, <1>3, <1>4, <1>5, <1>6 DEF NewFile
<1>8. New(op') = {sector} \cup NamedBy(alloc.hdr)
    BY <1>2 DEF New
<1>9. op'.map = FreeMap(d) \cup New(op') /\ New(op') \cap FreeMap(d) = {}
    BY <1>2, <1>4, <1>8
<1>10. ToBeNamed(d, op')
    BY <1>2 DEF ToBeNamed, Parent
<1>11. HeadersWritten(d, op', op'.k - 1)
    <2>1. \A j \in 1..(op'.k - 1) : FALSE
        BY <1>2
    <2> QED BY <2>1 DEF HeadersWritten
<1>12. Creating(d, op')
    <2>1. p \notin doubtful
        BY PathsInAll, DoubtedIs
    <2> QED BY <1>2, <1>7, <1>9, <1>10, <1>11, <2>1 DEF Creating
<1>13. \A q \in Trusted(d) : ~InWork(op', q)
    BY <1>1, <1>2, <1>10, NotYetFound
<1>14. TreeOK(d, op')
    BY <1>1, <1>2, NoOpStep DEF TreeOK, Live, Junk, InWork
<1>15. phase' = Phase(op') /\ phase' # "garbage"
    BY <1>2 DEF Phase
<1>16. fd'.kind = "open" => (phase' = "user" \/ op'.step = "data") /\ FdTree(d, op', fd')
    <2>1. ASSUME fd.kind = "open" PROVE FdTree(d, op', fd)
        <3>1. PICK q \in Live(d, NoOp) : /\ ~IsDir(d, q) /\ ~InWork(NoOp, q)
                                         /\ fd.sector = Find(d, q) /\ fd.hdr = FetchFrom(d, fd.sector)
            BY <1>1, <2>1 DEF FdTree
        <3>2. q \in Live(d, op') /\ ~InWork(op', q)
            BY <1>2, <1>13 DEF Live, Junk
        <3> QED BY <3>1, <3>2 DEF FdTree
    <2> QED BY <1>1, <2>1
<1>17. disk' = d
    OBVIOUS
<1> QED BY <1>12, <1>14, <1>15, <1>16, <1>17 DEF Stays, WholeTree, OpTree

\* Create, CreateDirectory and Copy start, or fail.
LEMMA BeginStays ==
    ASSUME Good, op = NoOp, NEW name \in {"create", "copy", "mkdir"}, NEW p \in Paths, NEW size \in Nat,
           name = "mkdir" => size = 1, ~Doubted(p), ValidPath(p),
           phase = IF name = "create" THEN "user" ELSE "main", Begin(name, p, size)
    PROVE  Stays
<1> DEFINE parent == Find(disk, Front(p))
           sector == Clear(FreeMap(disk))[1]
           alloc == Allocate(FreeMap(disk) \cup {sector}, size)
           table == TableAt(disk, parent)
           Begun == /\ op' = BegunOp(name, p, sector, alloc, table)
                    /\ UNCHANGED <<disk, phase, fd, cuts>>
                    /\ parent \in DirPlace
                    /\ Last(p) \notin DOMAIN table
                    /\ sector \in Sector \ FreeMap(disk)
                    /\ alloc.ok
<1>1. SystemOn(disk) /\ TreeOK(disk, NoOp) /\ SystemInv
    BY IdleIs
<1>2. /\ parent # Garbage
      /\ parent >= 0 => Front(p) \in Trusted(disk) /\ IsDir(disk, Front(p)) /\ IsDirectory(disk, parent)
    BY <1>1, PathGood DEF ValidPath
<1>3. \/ TakesGarbage /\ (parent = Garbage \/ (parent >= 0 /\ ~IsDirectory(disk, parent)))
      \/ Fails \/ FailsAndDeletesUninit \/ Begun
    BY <1>1, BeginIs
<1>4. CASE Begun
    <2>1. parent >= 0
        BY <1>4, DirPlaceIs
    <2>2. Front(p) \in Trusted(disk) /\ IsDir(disk, Front(p))
        BY <1>2, <2>1
    <2> HIDE DEF sector, alloc
    <2>3. alloc = Allocate(FreeMap(disk) \cup {sector}, size)
        BY DEF alloc
    <2> QED BY <1>4, <2>2, <2>3, BegunStays
<1> HIDE DEF Begun
<1> QED BY <1>2, <1>3, <1>4, FailsStays

\* Remove starts, or fails.
LEMMA RemoveFileStays ==
    ASSUME Good, NEW p \in Paths, ~Doubted(p), RemoveFile(p) PROVE Stays
<1> DEFINE d == disk
           parent == Find(disk, Front(p))
           table == TableAt(disk, parent)
           sector == table[Last(p)].sector
           hdr == FetchFrom(disk, sector)
           Begun == /\ op' = RemoveOp(p, sector, table, Deallocate(FreeMap(disk), hdr) \ {sector})
                    /\ UNCHANGED <<disk, phase, fd, cuts>>
                    /\ parent \in DirPlace /\ IsDirectory(disk, parent)
                    /\ Last(p) \in DOMAIN table
           NoFile == /\ parent \in DirPlace /\ IsDirectory(disk, parent)
                     /\ Last(p) \in DOMAIN table /\ ~HasHeaders(disk, sector)
<1>1. op = NoOp /\ phase = "main" /\ ValidPath(p)
    BY DEF RemoveFile, Idle
<1>2. SystemOn(d) /\ TreeOK(d, NoOp) /\ SystemInv /\ fd.kind # "open"
    BY <1>1, IdleIs
<1>3. /\ parent # Garbage
      /\ parent >= 0 => Front(p) \in Trusted(d) /\ IsDir(d, Front(p)) /\ IsDirectory(d, parent)
      /\ Find(d, p) >= 0 => p \in Trusted(d) /\ HasHeaders(d, Find(d, p))
    BY <1>1, <1>2, PathGood DEF ValidPath
<1>4. \/ /\ TakesGarbage
         /\ \/ parent = Garbage \/ (parent >= 0 /\ ~IsDirectory(disk, parent)) \/ NoFile
      \/ FailsAndDeletesUninit \/ (Reboot /\ UNCHANGED <<disk, cuts>>)
      \/ Begun
    BY <1>2, RemoveIs
<1>5. ASSUME parent \in DirPlace, IsDirectory(disk, parent), Last(p) \in DOMAIN table
      PROVE  p \in Trusted(d) /\ Find(d, p) = sector /\ HasHeaders(d, sector)
    <2>1. parent >= 0
        BY <1>5, DirPlaceIs
    <2>2. p \in AllPaths /\ p # <<>>
        BY PathsInAll
    <2>3. p \in Trusted(d)
        <3>1. p \notin doubtful
            BY <2>2, DoubtedIs
        <3> QED BY <1>2, <1>3, <1>5, <2>1, <2>2, <3>1, TrustedIs DEF HasEntry, Above
    <2>4. Find(d, p) = sector
        BY <1>2, <2>2, <2>3, TrustedIs DEF Above
    <2>5. Find(d, p) >= 0
        BY <2>3 DEF Trusted, Found, Exists
    <2> QED BY <1>3, <2>3, <2>4, <2>5
<1>6. CASE Begun
    <2>1. p \in Trusted(d) /\ Find(d, p) = sector
        BY <1>5, <1>6
    <2> DEFINE map == Deallocate(FreeMap(disk), hdr) \ {sector}
    <2>2. op' = RemoveOp(p, sector, table, map) /\ UNCHANGED <<disk, phase, fd, cuts>>
        BY <1>6
    <2> HIDE DEF map, table, sector
    <2>3. /\ op'.name = "remove" /\ op'.path = p /\ op'.table = Without(table, Last(p))
          /\ op'.map = map /\ op'.step = "map"
        BY <2>2, RemoveOpIs
    <2>4. FreeMap(d) \ Uses(d, p) \subseteq map
        <3>1. Find(d, p) \in Uses(d, p)
            <4>1. HasHeaders(d, Find(d, p))
                BY <1>2, <2>1, NoOpStep DEF TreeOK, Files, Live, Junk
            <4> QED BY <1>2, <2>1, <4>1, UsesAre
        <3>2. DataSectors(hdr) \subseteq Uses(d, p)
            BY <2>1 DEF Uses, SectorsOf
        <3> QED BY <2>1, <3>1, <3>2 DEF map, Deallocate
    <2>5. Removing(d, op')
        BY <2>1, <2>3, <2>4 DEF Removing, Parent, table
    <2>6. TreeOK(d, op')
        BY <1>2, <2>3, NoOpStep DEF TreeOK, Live, Junk, InWork
    <2>7. phase' = Phase(op') /\ phase' # "garbage"
        BY <1>1, <2>2, <2>3 DEF Phase
    <2> QED BY <1>2, <2>2, <2>5, <2>6, <2>7 DEF Stays, WholeTree, OpTree
<1>7. CASE Reboot /\ UNCHANGED <<disk, cuts>>
    BY <1>1, <1>7, RebootStays
<1> HIDE DEF Begun
<1> QED BY <1>1, <1>3, <1>4, <1>5, <1>6, <1>7, FailsStays

\* An open file that was found.
LEMMA OpenedTree ==
    ASSUME NEW d, NEW o, o.step # "newtable", NEW p \in Trusted(d), ~IsDir(d, p), ~InWork(o, p),
           NEW f, f.sector = Find(d, p), f.hdr = FetchFrom(d, f.sector)
    PROVE  FdTree(d, o, f)
    BY DEF FdTree, Live, Junk

\* The fields of an OpenFile.
LEMMA OpenFileParts ==
    ASSUME NEW d, NEW p
    PROVE  /\ OpenFile(d, p).kind = "open" /\ OpenFile(d, p).sector = Find(d, p)
           /\ OpenFile(d, p).hdr = FetchFrom(d, Find(d, p))
    BY DEF OpenFile

\* Open finds the file, or not.
LEMMA OpenStays ==
    ASSUME Good, op = NoOp, NEW ACTION Opened, NEW p \in Paths, ~Doubted(p), ValidPath(p), Open(p, Opened),
           Opened /\ p \in Trusted(disk) => Stays
    PROVE  Stays
<1>1. SystemOn(disk) /\ TreeOK(disk, NoOp)
    BY IdleIs
<1>2. /\ Find(disk, p) # Garbage
      /\ Find(disk, p) >= 0 => p \in Trusted(disk) /\ HasHeaders(disk, Find(disk, p))
    BY <1>1, PathGood DEF ValidPath
<1>3. \/ Opened /\ Find(disk, p) >= 0
      \/ fd' = Null /\ UNCHANGED <<disk, phase, op, cuts>>
      \/ Reboot /\ UNCHANGED <<disk, cuts>>
    BY <1>2 DEF Open
<1>4. CASE fd' = Null /\ UNCHANGED <<disk, phase, op, cuts>>
    BY <1>4, IdleIs, IdleStays, NotOpen
<1>5. CASE Reboot /\ UNCHANGED <<disk, cuts>>
    BY <1>5, RebootStays
<1> QED BY <1>2, <1>3, <1>4, <1>5

\* Load opens the program.
LEMMA LoadStays ==
    ASSUME Good, NEW p \in Paths, ~Doubted(p), Load(p) PROVE Stays
<1> DEFINE Opened == phase' = "user" /\ fd' = Deleted /\ UNCHANGED <<disk, op, cuts>>
<1>1. op = NoOp /\ ValidPath(p) /\ Open(p, Opened)
    BY DEF Load, Idle
<1>2. Opened => Stays
    BY <1>1, IdleStays, NotOpen
<1> HIDE DEF Opened
<1> QED BY <1>1, <1>2, OpenStays

\* A program opens a file.
LEMMA SysOpenStays ==
    ASSUME Good, NEW p \in Paths, ~Doubted(p), SysOpen(p) PROVE Stays
<1> DEFINE Opened == fd' = OpenFile(disk, p) /\ UNCHANGED <<disk, phase, op, cuts>>
<1>1. op = NoOp /\ ValidPath(p) /\ Open(p, Opened) /\ phase = "user" /\ ~IsDir(disk, p)
    BY DEF SysOpen, Idle
<1>2. ASSUME Opened, p \in Trusted(disk) PROVE Stays
    <2>1. fd'.sector = Find(disk, p) /\ fd'.hdr = FetchFrom(disk, fd'.sector)
        BY <1>2, OpenFileParts
    <2>2. NoOp.step # "newtable" /\ ~InWork(NoOp, p)
        BY NoOpStep DEF InWork
    <2>3. FdTree(disk, NoOp, fd')
        BY <1>1, <1>2, <2>1, <2>2, OpenedTree
    <2> QED BY <1>1, <1>2, <2>3, IdleStays
<1> HIDE DEF Opened
<1> QED BY <1>1, <1>2, OpenStays

Wrote(d, e, x, b) == e = [d EXCEPT ![x] = b]

\* Data are written to the open file, which is no directory.
LEMMA DataKeepsTree ==
    ASSUME NEW d, SystemOn(d), NEW o, o.step \in {"none", "data"}, TreeOK(d, o),
           NEW f, FdTree(d, o, f), NEW x, x \in DataSectors(f.hdr), NEW b,
           NEW e, Wrote(d, e, x, b), SystemOn(e)
    PROVE  TreeOK(e, o) /\ SameTree(d, e)
<1>0. e = [d EXCEPT ![x] = b]
    BY DEF Wrote
<1>1. Live(d, o) = Trusted(d) /\ \A p \in Trusted(d) : ~InWork(o, p)
    BY DEF Live, Junk, InWork
<1>2. PICK p \in Trusted(d) : /\ ~IsDir(d, p) /\ f.sector = Find(d, p) /\ f.hdr = FetchFrom(d, f.sector)
    BY <1>1 DEF FdTree
<1>3. HasHeaders(d, Find(d, p)) /\ Find(d, p) \in Sector /\ p # <<>>
    BY <1>1, <1>2, TrustedAt, RootTrusted DEF TreeOK, Files
<1>4. x \in Uses(d, p) /\ x \notin ToSet(HeaderChain(d, Find(d, p)))
    BY <1>1, <1>2 DEF TreeOK, Files, Separate, Uses, SectorsOf
<1>5. x \in Outside
    BY <1>3, <1>4, UsesAre
<1>6. \A q \in Trusted(d) : q # p => x \notin Uses(d, q)
    BY <1>1, <1>4 DEF TreeOK, Files
<1>7. FreeMap(e) = FreeMap(d)
    BY <1>0, <1>5, MapApart
<1>8. TreeKept(d, e)
    <2>1. SameOn(d, e, ToSet(HeaderChain(d, Find(d, p))))
        BY <1>0, <1>4 DEF SameOn
    <2>2. ASSUME NEW q \in Trusted(d), q # p
          PROVE  /\ SameOn(d, e, ToSet(HeaderChain(d, Find(d, q))))
                 /\ DirBlock(e, Find(d, q)) = DirBlock(d, Find(d, q))
        <3>1. SameOn(d, e, Uses(d, q))
            BY <1>0, <1>6, <2>2 DEF SameOn
        <3> QED BY <1>1, <3>1, UsesKept
    <2> QED BY <1>2, <2>1, <2>2 DEF TreeKept
<1>9. \A q \in Trusted(d) : ~InWork(o, q) => Uses(d, q) \subseteq FreeMap(e)
    BY <1>1, <1>7 DEF TreeOK
<1> QED BY <1>8, <1>9, TreeSame

\* A position inside the open file is one of its data sectors.
LEMMA WrittenAt ==
    ASSUME SystemInv, fd.kind = "open", fd.pos < FileLength(fd.hdr)
    PROVE  /\ ByteToSector(fd.hdr, fd.pos) \in DataSectors(fd.hdr)
           /\ [fd EXCEPT !.pos = @ + 1].kind = "open"
           /\ [fd EXCEPT !.pos = @ + 1].sector = fd.sector /\ [fd EXCEPT !.pos = @ + 1].hdr = fd.hdr
<1>1. FdOK(fd)
    BY OpenFdIs DEF SystemInv
<1>2. IsFile(fd.hdr) /\ fd.pos \in 0..FileLength(fd.hdr) /\ DOMAIN fd = {"kind", "sector", "hdr", "pos"}
    BY <1>1 DEF FdOK, FileOutside
<1>3. FileLength(fd.hdr) \in Nat
    BY <1>2, FileLengthIs
<1>4. fd.pos \in 0..(FileLength(fd.hdr) - 1)
    BY <1>2, <1>3
<1>5. ByteToSector(fd.hdr, fd.pos) \in DataSectors(fd.hdr)
    BY <1>2, <1>4, ByteToSectorIs
<1> QED BY <1>2, <1>5

\* A program reads.
LEMMA SysReadStays ==
    ASSUME Good, SysRead PROVE Stays
<1>1. op = NoOp /\ phase = "user"
    BY DEF SysRead, Idle
<1>2. CASE UsesDeleted
    BY <1>1, <1>2, IdleStays DEF UsesDeleted
<1>3. CASE Fails
    BY <1>1, <1>3, FailsStays
<1>4. CASE InFile /\ fd' = [fd EXCEPT !.pos = @ + 1] /\ UNCHANGED <<disk, phase, op, cuts>>
    <2>1. SystemInv /\ FdTree(disk, NoOp, fd)
        BY <1>1, <1>4, IdleIs DEF InFile
    <2>2. fd'.sector = fd.sector /\ fd'.hdr = fd.hdr
        BY <1>4, <2>1, WrittenAt DEF InFile
    <2>3. FdTree(disk, NoOp, fd')
        BY <2>1, <2>2 DEF FdTree
    <2> QED BY <1>1, <1>4, <2>3, IdleStays
<1> QED BY <1>2, <1>3, <1>4 DEF SysRead

\* A program writes.
LEMMA SysWriteStays ==
    ASSUME Good, NEW v \in Values, SysWrite(v) PROVE Stays
<1>1. op = NoOp /\ phase = "user"
    BY DEF SysWrite, Idle
<1>2. CASE UsesDeleted
    BY <1>1, <1>2, IdleStays DEF UsesDeleted
<1>3. CASE Fails
    BY <1>1, <1>3, FailsStays
<1>4. CASE /\ InFile /\ WriteSector(ByteToSector(fd.hdr, fd.pos), Data(v))
           /\ fd' = [fd EXCEPT !.pos = @ + 1]
           /\ UNCHANGED <<phase, op, cuts>>
    <2>1. SystemInv /\ FdTree(disk, NoOp, fd) /\ SystemOn(disk) /\ TreeOK(disk, NoOp)
        BY <1>1, <1>4, IdleIs DEF InFile
    <2>2. ByteToSector(fd.hdr, fd.pos) \in DataSectors(fd.hdr) /\ fd'.sector = fd.sector /\ fd'.hdr = fd.hdr
        BY <1>4, <2>1, WrittenAt DEF InFile
    <2>3. TreeOK(disk', NoOp) /\ SameTree(disk, disk')
        <3> DEFINE d == disk
                   e == disk'
                   x == ByteToSector(fd.hdr, fd.pos)
                   b == Data(v)
        <3>1. SystemOn(e)
            BY DEF Good, SystemInv
        <3>2. Wrote(d, e, x, b)
            BY <1>4 DEF WriteSector, Wrote
        <3>3. x \in DataSectors(fd.hdr) /\ SystemOn(d) /\ TreeOK(d, NoOp) /\ FdTree(d, NoOp, fd)
              /\ NoOp.step \in {"none", "data"}
            BY <2>1, <2>2, NoOpStep
        <3> HIDE DEF d, e, x, b
        <3>4. TreeOK(e, NoOp) /\ SameTree(d, e)
            BY <3>1, <3>2, <3>3, DataKeepsTree
        <3> QED BY <3>4 DEF d, e
    <2>4. FdTree(disk', NoOp, fd')
        BY <2>1, <2>2, <2>3, FdKept, NoOpStep
    <2>5. op' = NoOp /\ phase' = "user"
        BY <1>1, <1>4
    <2> QED BY <2>3, <2>4, <2>5 DEF Stays, WholeTree
<1> QED BY <1>2, <1>3, <1>4 DEF SysWrite

\* A program closes.
LEMMA SysCloseStays ==
    ASSUME Good, SysClose PROVE Stays
<1>1. op = NoOp /\ phase = "user"
    BY DEF SysClose, Idle
<1>2. CASE UsesDeleted
    BY <1>1, <1>2, IdleStays DEF UsesDeleted
<1>3. CASE fd' = Null /\ UNCHANGED <<disk, phase, op, cuts>>
    BY <1>1, <1>3, IdleStays, NotOpen
<1> QED BY <1>2, <1>3 DEF SysClose

\* Copy opens the file it has created.
LEMMA CopyOpensStays ==
    ASSUME Good, CopyOpens PROVE Stays
<1>1. op.step = "open"
    BY DEF CopyOpens, At
<1>2. /\ op # NoOp /\ OpOK(op, fd) /\ OpTree(disk, op) /\ phase = Phase(op) /\ SystemOn(disk) /\ TreeOK(disk, op)
    BY <1>1, InProgress
<1>3. Copying(disk, op)
    BY <1>1, <1>2 DEF OpTree, Creating, Removing
<1>4. op.path \in Trusted(disk) /\ ~IsDir(disk, op.path) /\ op.name = "copy"
    BY <1>3 DEF Copying
<1>5. Exists(disk, op.path) /\ HasHeaders(disk, Find(disk, op.path))
    BY <1>1, <1>2, <1>4 DEF Trusted, Found, TreeOK, Files, Live, Junk
<1>6. fd' = OpenFile(disk, op.path) /\ Goto("data") /\ UNCHANGED <<disk, phase, cuts>>
    BY <1>5 DEF CopyOpens
<1>7. op'.step = "data" /\ SameFile(op, op')
    BY <1>2, <1>6, GoneTo
<1>8. TreeOK(disk, op')
    BY <1>1, <1>2, <1>7 DEF TreeOK, Live, Junk, InWork
<1>9. Copying(disk, op')
    BY <1>3, <1>7 DEF Copying, SameFile
<1>10. FdTree(disk, op', fd')
    <2>1. fd'.sector = Find(disk, op.path) /\ fd'.hdr = FetchFrom(disk, fd'.sector)
        BY <1>6, OpenFileParts
    <2>2. op'.step # "newtable" /\ ~InWork(op', op.path)
        BY <1>7 DEF InWork
    <2> QED BY <1>4, <2>1, <2>2, OpenedTree
<1>11. phase' = Phase(op') /\ phase' # "garbage"
    BY <1>2, <1>4, <1>6, <1>7, SameFileIs DEF Phase
<1> QED BY <1>6, <1>7, <1>8, <1>9, <1>10, <1>11 DEF Stays, WholeTree, OpTree

\* Copy writes it.
LEMMA CopyWritesStays ==
    ASSUME Good, CopyWrites PROVE Stays
<1>1. op.step = "data" /\ fd.pos < FileLength(fd.hdr) /\ UNCHANGED <<phase, op, cuts>>
    BY DEF CopyWrites, At
<1>2. /\ op # NoOp /\ OpOK(op, fd) /\ OpTree(disk, op) /\ phase = Phase(op)
      /\ SystemOn(disk) /\ SystemOn(disk') /\ TreeOK(disk, op)
    BY <1>1, InProgress
<1>3. fd.kind = "open"
    BY <1>1, <1>2 DEF OpOK
<1>4. FdTree(disk, op, fd) /\ SystemInv
    BY <1>3 DEF Good, WholeTree
<1>5. Copying(disk, op)
    BY <1>1, <1>2 DEF OpTree, Creating, Removing
<1>6. ByteToSector(fd.hdr, fd.pos) \in DataSectors(fd.hdr) /\ fd'.sector = fd.sector /\ fd'.hdr = fd.hdr
    BY <1>1, <1>3, <1>4, WrittenAt DEF CopyWrites
<1>7. PICK v \in Values : disk' = [disk EXCEPT ![ByteToSector(fd.hdr, fd.pos)] = Data(v)]
    BY DEF CopyWrites, WriteSector
<1>8. TreeOK(disk', op) /\ SameTree(disk, disk')
    <2> DEFINE d == disk
               e == disk'
               x == ByteToSector(fd.hdr, fd.pos)
               b == Data(v)
    <2>1. /\ Wrote(d, e, x, b) /\ SystemOn(d) /\ SystemOn(e)
          /\ x \in DataSectors(fd.hdr) /\ TreeOK(d, op) /\ FdTree(d, op, fd)
          /\ op.step \in {"none", "data"}
        BY <1>1, <1>2, <1>4, <1>6, <1>7 DEF Wrote
    <2> HIDE DEF d, e, x, b
    <2>2. TreeOK(e, op) /\ SameTree(d, e)
        BY <2>1, DataKeepsTree
    <2> QED BY <2>2 DEF d, e
<1>9. FdTree(disk', op, fd')
    BY <1>1, <1>4, <1>6, <1>8, FdKept
<1>10. Copying(disk', op)
    BY <1>5, <1>8, NamesKept
<1>11. phase' # "garbage" /\ op' = op
    BY <1>1 DEF Good, Running
<1> QED BY <1>1, <1>2, <1>8, <1>9, <1>10, <1>11 DEF Stays, WholeTree, OpTree

\* Copy ends.
LEMMA CopyEndsStays ==
    ASSUME Good, CopyEnds PROVE Stays
<1>1. op.step = "data" /\ fd' = Deleted /\ op' = NoOp /\ UNCHANGED <<disk, phase>>
    BY DEF CopyEnds, At
<1>2. TreeOK(disk, op)
    BY <1>1, InProgress
<1>3. TreeOK(disk, NoOp)
    BY <1>1, <1>2, NoOpStep DEF TreeOK, Live, Junk, InWork
<1>4. phase' # "garbage"
    BY <1>1 DEF Good, Running
<1> QED BY <1>1, <1>3, <1>4, NotOpen DEF Stays, WholeTree

-----------------------------------------------------------------------------
(* The steps that write a table                                            *)

\* Tables t and u have the same under every name but n.
OtherNames(t, u, n) ==
    \A m : m # n => /\ m \in DOMAIN t <=> m \in DOMAIN u
                    /\ m \in DOMAIN t => u[m] = t[m]
\* Paths that are not q, nor below it.
Beside(q) == {p \in AllPaths : ~IsPrefix(q, p)}
TableSector(d, s) == d[s].hdr.data[1]

\* A step writes table t to the directory above q.
TableGoes(d, e, q, t) ==
    LET s == Find(d, Front(q)) IN Wrote(d, e, TableSector(d, s), Table(t))

\* What it leaves alone.
BesideKept(d, e, q) ==
    /\ \A p \in Beside(q) : SameAt(d, e, p)
    /\ Files(e, Trusted(d) \cap Beside(q)) /\ Kept(d, e, Trusted(d) \cap Beside(q))
    /\ \A p \in Trusted(d) \cap Beside(q) : IsDir(d, p) => IsDirectory(e, Find(d, p))
    /\ FreeMap(e) = FreeMap(d)

\* A table is written, in which one name has changed.
LEMMA TableChanged ==
    ASSUME NEW d, SystemOn(d), NEW o, o.step # "newtable", TreeOK(d, o), NEW q \in Paths,
           Front(q) \in Trusted(d), IsDir(d, Front(q)),
           NEW t, OtherNames(TableAt(d, Find(d, Front(q))), t, Last(q)),
           NEW e, TableGoes(d, e, q, t), SystemOn(e)
    PROVE  /\ BesideKept(d, e, q)
           /\ TableSector(d, Find(d, Front(q))) \in Uses(d, Front(q))
           /\ Front(q) \in Trusted(e) /\ IsDir(e, Front(q)) /\ Find(e, Front(q)) = Find(d, Front(q))
           /\ IsDirectory(e, Find(d, Front(q))) /\ TableAt(e, Find(d, Front(q))) = t
<1> DEFINE f == Front(q)
           s == Find(d, f)
           x == TableSector(d, s)
<1>1. Live(d, o) = Trusted(d) /\ Files(d, Trusted(d)) /\ <<>> \notin doubtful
    BY DEF Live, Junk, TreeOK
<1>2. q \in AllPaths /\ q # <<>> /\ f \in AllPaths /\ ~IsPrefix(q, f) /\ IsPrefix(q, q) /\ ~IsPrefix(q, <<>>)
    BY PathsInAll, FrontIs, BelowIs
<1>3. s \in Sector /\ HasHeaders(d, s) /\ IsDirectory(d, s) /\ Separate(d, s)
    BY <1>1, TrustedAt DEF TreeOK, Files
<1>4. IsHeader(d, s) /\ d[s].hdr.data # <<>> /\ DirBlock(d, s) = d[x]
    BY <1>3 DEF IsDirectory, DirBlock, NotATable, TableSector
<1>5. x \in DataSectors(FetchFrom(d, s)) /\ x \in Uses(d, f) /\ x \notin ToSet(HeaderChain(d, s))
    <2>1. x \in DataSectors(FetchFrom(d, s))
        BY <1>3, <1>4, TableIn DEF TableSector
    <2> QED BY <1>3, <2>1 DEF Separate, Uses, SectorsOf
<1>6. x \in Outside \cup {RootTable} /\ x \in DOMAIN d
    <2>1. CASE f = <<>>
        <3>1. s = DirectorySector /\ Uses(d, f) = {DirectorySector, RootTable}
            BY <1>1, <2>1, RootTrusted, RootIs DEF Uses
        <3>2. s \in ToSet(HeaderChain(d, s))
            BY <1>3, ChainKept DEF SameOn
        <3>3. x = RootTable
            BY <1>5, <3>1, <3>2
        <3> QED BY <3>3, FormatIs DEF SystemOn
    <2>2. CASE f # <<>>
        <3>1. x \in Outside
            BY <1>3, <1>5, <2>2, UsesAre
        <3> QED BY <3>1, DirPlaceIs DEF SystemOn
    <2> QED BY <2>1, <2>2
<1>7. e = [d EXCEPT ![x] = Table(t)]
    BY DEF TableGoes, Wrote
<1>8. SameOn(d, e, ToSet(HeaderChain(d, s)))
    BY <1>5, <1>7 DEF SameOn
<1>9. DirBlock(e, s) = Table(t)
    <2>1. e[s] = d[s]
        BY <1>3, <1>8, ChainKept
    <2>2. e[x] = Table(t)
        BY <1>6, <1>7
    <2> QED BY <1>4, <2>1, <2>2 DEF DirBlock, IsHeader, TableSector
<1>10. IsDirectory(e, s) /\ TableAt(e, s) = t
    BY <1>9, KindsAre DEF IsDirectory, TableAt
<1>11. ASSUME NEW p \in Trusted(d), p # f
       PROVE  /\ SameOn(d, e, ToSet(HeaderChain(d, Find(d, p))))
              /\ DirBlock(e, Find(d, p)) = DirBlock(d, Find(d, p))
    <2>1. x \notin Uses(d, p)
        BY <1>1, <1>5, <1>11 DEF Files
    <2>2. SameOn(d, e, Uses(d, p))
        BY <1>7, <2>1 DEF SameOn
    <2> QED BY <1>1, <2>2, UsesKept
<1>12. \A p \in Beside(q) : SameAt(d, e, p)
    <2> DEFINE Z == {p \in AllPaths : IsPrefix(q, p)}
    <2>1. <<>> \notin Z /\ \A p \in AllPaths : Front(p) \in Z => p \in Z
        BY <1>2, BelowIs
    <2>2. ASSUME NEW p \in AllPaths \ Z, p # <<>>, Front(p) \in Trusted(d), IsDir(d, Front(p))
          PROVE  SameEntry(d, e, p)
        <3>1. CASE Front(p) = f
            <4>1. Last(p) # Last(q)
                BY <1>2, <2>2, <3>1, NameIs
            <4> QED BY <1>3, <1>10, <3>1, <4>1 DEF SameEntry, OtherNames
        <3>2. CASE Front(p) # f
            <4>1. DirBlock(e, Find(d, Front(p))) = DirBlock(d, Find(d, Front(p)))
                BY <1>11, <2>2, <3>2
            <4> QED BY <4>1, SameBlock DEF SameEntry
        <3> QED BY <3>1, <3>2
    <2>3. \A p \in AllPaths \ Z : SameAt(d, e, p)
        <3> HIDE DEF Z
        <3> QED BY <1>1, <2>1, <2>2, SamePaths
    <2> QED BY <2>3 DEF Beside
<1>13. f \in Trusted(e) /\ IsDir(e, f) /\ Find(e, f) = s
    <2>1. f \in Beside(q)
        BY <1>2 DEF Beside
    <2>2. SameAt(d, e, f)
        BY <1>12, <2>1
    <2> QED BY <2>2 DEF SameAt
<1>14. Files(e, Trusted(d) \cap Beside(q)) /\ Kept(d, e, Trusted(d) \cap Beside(q))
    <2> DEFINE L == Trusted(d) \cap Beside(q)
    <2>1. \A p \in L : Find(d, p) \in Sector /\ Find(e, p) = Find(d, p)
        BY <1>12, TrustedAt DEF SameAt
    <2>2. \A p \in L : SameOn(d, e, ToSet(HeaderChain(d, Find(d, p))))
        BY <1>8, <1>11
    <2>3. L \subseteq Trusted(d)
        OBVIOUS
    <2> HIDE DEF L
    <2> QED BY <1>1, <2>1, <2>2, <2>3, FilesKept DEF L
<1>15. \A p \in Trusted(d) \cap Beside(q) : IsDir(d, p) => IsDirectory(e, Find(d, p))
    <2> SUFFICES ASSUME NEW p \in Trusted(d), IsDir(d, p) PROVE IsDirectory(e, Find(d, p))
        OBVIOUS
    <2>1. CASE p = f
        BY <1>10, <2>1
    <2>2. CASE p # f
        <3>1. IsDirectory(d, Find(d, p))
            BY <1>1 DEF TreeOK
        <3>2. DirBlock(e, Find(d, p)) = DirBlock(d, Find(d, p))
            BY <1>11, <2>2
        <3> QED BY <3>1, <3>2, SameBlock
    <2> QED BY <2>1, <2>2
<1>16. FreeMap(e) = FreeMap(d)
    <2> DEFINE b == Table(t)
    <2>1. e = [d EXCEPT ![x] = b] /\ SystemOn([d EXCEPT ![x] = b])
        BY <1>7
    <2> HIDE DEF b, x
    <2> QED BY <1>6, <2>1, MapApart
<1> QED BY <1>5, <1>10, <1>12, <1>13, <1>14, <1>15, <1>16 DEF BesideKept

\* Adding or removing a name leaves the others alone.
LEMMA AddIs ==
    ASSUME NEW t, NEW n, NEW sector, NEW isDir, NEW u, u = Add(t, n, sector, isDir)
    PROVE  /\ OtherNames(t, u, n) /\ n \in DOMAIN u
           /\ u[n].sector = sector /\ u[n].isDir = isDir
<1>1. DOMAIN u = DOMAIN t \cup {n}
      /\ \A m \in DOMAIN u : u[m] = IF m = n THEN [sector |-> sector, isDir |-> isDir] ELSE t[m]
    BY DEF Add
<1> QED BY <1>1 DEF OtherNames

\* So does removing one.
LEMMA WithoutIs ==
    ASSUME NEW t, NEW n, NEW u, u = Without(t, n)
    PROVE  OtherNames(t, u, n) /\ n \notin DOMAIN u
<1>1. DOMAIN u = DOMAIN t \ {n} /\ \A m \in DOMAIN u : u[m] = t[m]
    BY DEF Without
<1> QED BY <1>1 DEF OtherNames

\* Where OpenDir's variable may point when it is used: the root, or nowhere.
UninitIsRoot == UninitSectors \subseteq {DirectorySector, NoSector}

\* An operation that writes a table has found the directory.
LEMMA TablePath ==
    ASSUME Good, op.step = "table"
    PROVE  /\ op # NoOp /\ OpOK(op, fd) /\ op.path \in Paths /\ SystemOn(disk) /\ SystemOn(disk')
           /\ TreeOK(disk, op) /\ phase = Phase(op)
           /\ Creating(disk, op) \/ Removing(disk, op)
           /\ Front(op.path) \in Trusted(disk) /\ IsDir(disk, Front(op.path))
           /\ ~InWork(op, Front(op.path))
<1>1. /\ op # NoOp /\ OpOK(op, fd) /\ OpTree(disk, op) /\ phase = Phase(op) /\ op.path \in Paths
      /\ SystemOn(disk) /\ SystemOn(disk') /\ TreeOK(disk, op)
    BY InProgress
<1>2. Creating(disk, op) \/ Removing(disk, op)
    BY <1>1 DEF OpTree, Copying
<1>3. Creating(disk, op) => Front(op.path) \in Trusted(disk) /\ IsDir(disk, Front(op.path))
    BY DEF Creating, ToBeNamed
<1>4. Removing(disk, op) => Front(op.path) \in Trusted(disk) /\ IsDir(disk, Front(op.path))
    BY <1>1, PathsInAll, TrustedIs DEF Removing
<1>5. ~InWork(op, Front(op.path))
    BY <1>1, PathsInAll, BelowIs DEF InWork
<1> QED BY <1>1, <1>2, <1>3, <1>4, <1>5

\* A table is written, to the directory that has the name.
LEMMA WriteTableIs ==
    ASSUME UninitIsRoot, Good, WriteTable
    PROVE  /\ op.step = "table" /\ UNCHANGED <<phase, fd>> /\ AfterTable
           /\ TableGoes(disk, disk', op.path, op.table)
<1> DEFINE d == disk
           f == Front(op.path)
<1>1. op.step = "table"
    BY DEF WriteTable, At
<1>2. /\ op.path \in Paths /\ SystemOn(d) /\ TreeOK(d, op)
      /\ f \in Trusted(d) /\ IsDir(d, f)
    BY <1>1, TablePath
<1>3. Live(d, op) = Trusted(d)
    BY <1>1 DEF Live, Junk
<1>4. Find(d, f) \in Sector /\ HasHeaders(d, Find(d, f)) /\ IsDirectory(d, Find(d, f))
    BY <1>1, <1>2, <1>3, TrustedAt DEF TreeOK, Files
<1>5. PICK s \in TableTargets :
        IF CanOpen(s)
        THEN /\ LET hdr == FetchFrom(disk, s)
                IN  IF FileLength(hdr) = 0
                    THEN UNCHANGED disk
                    ELSE WriteSector(ByteToSector(hdr, 0), Table(op.table))
             /\ AfterTable
             /\ UNCHANGED <<phase, fd, cuts>>
        ELSE IF s # NoSector
        THEN TakesGarbage
        ELSE /\ cuts < MaxCuts
             /\ cuts' = cuts + 1
             /\ Reboot
             /\ UNCHANGED disk
    BY DEF WriteTable
<1>6. s = Find(d, f) \/ s = NoSector
    <2>1. CASE op.name = "remove" /\ Len(op.path) = 1
        <3>1. PICK a : \E b : op.path = <<a>> \/ op.path = <<a, b>>
            BY <1>2, FileSystemAssumption
        <3>2. PICK b : op.path = <<a>> \/ op.path = <<a, b>>
            BY <3>1
        <3>3. f = <<>>
            <4>1. CASE op.path = <<a>>
                BY <4>1, PathsAre
            <4>2. op.path # <<a, b>>
                BY <2>1, PathsAre
            <4> QED BY <3>2, <4>1, <4>2
        <3>4. Find(d, f) = DirectorySector
            BY <3>3, FindIs
        <3> QED BY <1>5, <2>1, <3>4 DEF TableTargets, UninitIsRoot
    <2>2. CASE ~(op.name = "remove" /\ Len(op.path) = 1)
        BY <1>5, <2>2 DEF TableTargets
    <2> QED BY <2>1, <2>2
<1>7. s # NoSector
    <2> SUFFICES ASSUME s = NoSector PROVE FALSE
        OBVIOUS
    <2>1. ~CanOpen(s)
        BY DirPlaceIs DEF CanOpen, IsSector
    <2>2. cuts' = cuts + 1
        BY <1>5, <2>1
    <2> QED BY <2>2 DEF Good
<1>8. s = Find(d, f)
    BY <1>6, <1>7
<1>9. CanOpen(s)
    BY <1>4, <1>8 DEF CanOpen, IsSector
<1>10. d[s].hdr.data # <<>>
    BY <1>4, <1>8 DEF IsDirectory, DirBlock, NotATable
<1>11. FileLength(FetchFrom(d, s)) # 0 /\ ByteToSector(FetchFrom(d, s), 0) = TableSector(d, s)
    BY <1>2, <1>4, <1>8, <1>10, TableIn DEF TableSector
<1>12. WriteSector(TableSector(d, s), Table(op.table)) /\ AfterTable /\ UNCHANGED <<phase, fd, cuts>>
    BY <1>5, <1>9, <1>11
<1> QED BY <1>1, <1>8, <1>12 DEF WriteSector, TableGoes, Wrote

\* Every path is beside q, q itself, or in the directory at q.
LEMMA BesideIs ==
    ASSUME NEW q \in Paths, NEW p \in AllPaths
    PROVE  /\ p \in Beside(q) <=> (p # q /\ Front(p) # q)
           /\ q \notin Beside(q)
           /\ \A o : o.path = q =>
                /\ p \in Beside(q) => ~InWork(o, p) /\ ~Junk(o, p)
                /\ p = q => ~Junk(o, p)
                /\ Front(p) = q /\ o.step = "newtable" => Junk(o, p)
<1>1. /\ IsPrefix(q, p) <=> (q = Front(p) \/ q = p)
      /\ IsStrictPrefix(q, p) <=> (q = Front(p))
      /\ Front(q) # q /\ q \in AllPaths
    BY BelowIs
<1>2. p \in Beside(q) <=> (p # q /\ Front(p) # q)
    BY <1>1 DEF Beside
<1>3. q \notin Beside(q)
    <2>1. IsPrefix(q, q)
        BY <1>1, BelowIs
    <2> QED BY <2>1 DEF Beside
<1>4. ASSUME NEW o, o.path = q
      PROVE  /\ p \in Beside(q) => ~InWork(o, p) /\ ~Junk(o, p)
             /\ p = q => ~Junk(o, p)
             /\ Front(p) = q /\ o.step = "newtable" => Junk(o, p)
    BY <1>1, <1>2, <1>4 DEF InWork, Junk
<1> QED BY <1>2, <1>3, <1>4

\* The table with the new name in it is written: the file can be found.
LEMMA NameWritten ==
    ASSUME NEW d, SystemOn(d), NEW o, o.step = "table", o.path \in Paths, TreeOK(d, o), Creating(d, o),
           NEW e, TableGoes(d, e, o.path, o.table), SystemOn(e)
    PROVE  /\ BesideKept(d, e, o.path) /\ Trusted(d) \subseteq Beside(o.path)
           /\ Named(e, o) /\ HeadersWritten(e, o, Len(o.hdr))
           /\ FreeMap(e) = FreeMap(d)
           /\ \A p \in Trusted(d) : Uses(d, p) \subseteq FreeMap(d)
<1> DEFINE q == o.path
           f == Front(q)
           s == Find(d, f)
           x == TableSector(d, s)
<1>1. /\ NewFile(o) /\ ToBeNamed(d, o) /\ New(o) \cap FreeMap(d) = {} /\ HeadersWritten(d, o, Len(o.hdr))
      /\ q \notin doubtful
    BY DEF Creating
<1>2. /\ f \in Trusted(d) /\ IsDir(d, f)
      /\ o.table = Add(TableAt(d, s), Last(q), o.sector, o.name = "mkdir")
    BY <1>1 DEF ToBeNamed, Parent
<1>3. /\ OtherNames(TableAt(d, s), o.table, Last(q)) /\ Last(q) \in DOMAIN o.table
      /\ o.table[Last(q)].sector = o.sector /\ o.table[Last(q)].isDir = (o.name = "mkdir")
    BY <1>2, AddIs
<1>4. /\ BesideKept(d, e, q) /\ x \in Uses(d, f)
      /\ f \in Trusted(e) /\ IsDir(e, f) /\ Find(e, f) = s
      /\ IsDirectory(e, s) /\ TableAt(e, s) = o.table
    BY <1>2, <1>3, TableChanged
<1>5. FreeMap(e) = FreeMap(d)
    BY <1>4 DEF BesideKept
<1>6. q \in AllPaths /\ q # <<>>
    BY PathsInAll
<1>7. Named(e, o)
    <2>1. HasEntry(e, q) /\ Above(e, q) = o.table
        BY <1>3, <1>4 DEF HasEntry, Above
    <2>2. q \in Trusted(e)
        BY <1>1, <1>4, <1>6, <2>1, TrustedIs
    <2>3. Find(e, q) = o.sector /\ IsDir(e, q) = (o.name = "mkdir")
        BY <1>3, <1>6, <2>1, <2>2, TrustedIs
    <2> QED BY <2>2, <2>3 DEF Named
<1>8. \A p \in Trusted(d) : ~IsPrefix(q, p) /\ ~InWork(o, p)
    BY <1>1, NotYetFound
<1>9. Trusted(d) \subseteq Beside(q)
    BY <1>8 DEF Beside, Trusted, Found
<1>10. \A p \in Trusted(d) : Uses(d, p) \subseteq FreeMap(d)
    BY <1>8 DEF TreeOK, Live, Junk
<1>11. HeadersWritten(e, o, Len(o.hdr))
    <2> DEFINE c == HeaderSectors(o.sector, o.hdr)
    <2>1. x \notin New(o)
        BY <1>1, <1>2, <1>4, <1>10
    <2>2. \A j \in 1..Len(o.hdr) : c[j] \in New(o)
        <3>1. DOMAIN c = 1..Len(o.hdr) /\ ToSet(c) = {o.sector} \cup NextSectors(o.hdr)
            BY <1>1, NewSectorsAre
        <3> HIDE DEF c
        <3>2. \A j \in 1..Len(o.hdr) : c[j] \in ToSet(c)
            BY <3>1 DEF ToSet
        <3> QED BY <3>1, <3>2 DEF New, NamedBy
    <2>3. e = [d EXCEPT ![x] = Table(o.table)]
        BY DEF TableGoes, Wrote
    <2> HIDE DEF c, x
    <2>4. \A j \in 1..Len(o.hdr) : e[c[j]] = d[c[j]]
        BY <2>1, <2>2, <2>3
    <2> QED BY <1>1, <2>4 DEF HeadersWritten, c
<1> QED BY <1>4, <1>5, <1>7, <1>9, <1>10, <1>11

\* The tree with the new file in it.
LEMMA NamedTree ==
    ASSUME NEW d, SystemOn(d), NEW o, o.step = "table", o.path \in Paths, TreeOK(d, o), Creating(d, o),
           NEW e, TableGoes(d, e, o.path, o.table), SystemOn(e),
           NEW n, SameFile(o, n), n.step = IF o.name = "mkdir" THEN "newtable" ELSE "map", n.k = 1
    PROVE  /\ TreeOK(e, n) /\ Creating(e, n)
           /\ Live(e, n) = Trusted(d) \cup {o.path} /\ o.path \notin Trusted(d) /\ SameFiles(d, e, Trusted(d))
           /\ \A f : FdTree(d, o, f) => FdTree(e, n, f)
<1> DEFINE q == o.path
<1>1. /\ BesideKept(d, e, q) /\ Trusted(d) \subseteq Beside(q)
      /\ Named(e, o) /\ HeadersWritten(e, o, Len(o.hdr)) /\ FreeMap(e) = FreeMap(d)
      /\ \A p \in Trusted(d) : Uses(d, p) \subseteq FreeMap(d)
    BY NameWritten
<1>2. /\ NewFile(o) /\ New(o) \cap FreeMap(d) = {} /\ o.map = FreeMap(d) \cup New(o)
      /\ o.name \in {"create", "copy", "mkdir"}
    BY DEF Creating
<1>3. n.path = q /\ n.name = o.name /\ n.sector = o.sector /\ n.hdr = o.hdr /\ n.map = o.map
    BY DEF SameFile
<1>4. q \in Trusted(e) /\ Find(e, q) = o.sector /\ IsDir(e, q) = (o.name = "mkdir")
    BY <1>1 DEF Named
<1>5. ASSUME NEW p \in Trusted(d)
      PROVE  /\ p \in Beside(q) /\ p \in AllPaths /\ p # q /\ p \in Trusted(e)
             /\ Find(e, p) = Find(d, p) /\ IsDir(e, p) = IsDir(d, p)
             /\ Uses(e, p) = Uses(d, p) /\ FetchFrom(e, Find(d, p)) = FetchFrom(d, Find(d, p))
             /\ ~Junk(n, p) /\ ~InWork(n, p)
             /\ (IsDir(d, p) => IsDirectory(e, Find(d, p)))
    <2>1. p \in Beside(q) /\ p \in AllPaths
        BY <1>1 DEF Trusted, Found
    <2>2. SameAt(d, e, p)
        BY <1>1, <2>1 DEF BesideKept
    <2>3. p # q /\ ~Junk(n, p) /\ ~InWork(n, p)
        BY <1>3, <2>1, BesideIs
    <2>4. Uses(e, p) = Uses(d, p) /\ FetchFrom(e, Find(d, p)) = FetchFrom(d, Find(d, p))
        BY <1>1, <2>1 DEF BesideKept, Kept
    <2>5. IsDir(d, p) => IsDirectory(e, Find(d, p))
        BY <1>1, <2>1 DEF BesideKept
    <2> QED BY <2>1, <2>2, <2>3, <2>4, <2>5 DEF SameAt
<1>6. ASSUME NEW p \in Trusted(e), Front(p) = q
      PROVE  o.name = "mkdir" /\ Junk(n, p)
    <2>1. p \in AllPaths /\ p # <<>>
        BY <1>6, PathsInAll, FrontIs DEF Trusted, Found
    <2>2. IsDir(e, q)
        BY <1>6, <2>1, TrustedIs
    <2>3. o.name = "mkdir"
        BY <1>4, <2>2
    <2> QED BY <1>3, <1>6, <2>1, <2>3, BesideIs
<1>7. Live(e, n) = Trusted(d) \cup {q}
    <2>1. ASSUME NEW p \in Live(e, n) PROVE p \in Trusted(d) \cup {q}
        <3>1. p \in Trusted(e) /\ ~Junk(n, p) /\ p \in AllPaths
            BY DEF Live, Trusted, Found
        <3>2. Front(p) # q
            BY <1>6, <3>1
        <3>3. CASE p # q
            <4>1. p \in Beside(q)
                BY <3>1, <3>2, <3>3, BesideIs
            <4>2. SameAt(d, e, p)
                BY <1>1, <4>1 DEF BesideKept
            <4> QED BY <3>1, <4>2 DEF SameAt
        <3> QED BY <3>3
    <2>2. q \in Live(e, n)
        <3>1. ~Junk(n, q)
            BY <1>3, PathsInAll, BesideIs
        <3> QED BY <1>4, <3>1 DEF Live
    <2>3. \A p \in Trusted(d) : p \in Live(e, n)
        BY <1>5 DEF Live
    <2> QED BY <2>1, <2>2, <2>3
<1>8. HasHeaders(e, o.sector) /\ SectorsOf(e, o.sector) = New(o) /\ Separate(e, o.sector)
    BY <1>1, <1>2, NewFileFetched
<1>9. Uses(e, q) = New(o)
    BY <1>4, <1>8 DEF Uses
<1>10. Files(e, Trusted(d) \cup {q})
    <2>1. Files(e, Trusted(d))
        <3>1. Trusted(d) \cap Beside(q) = Trusted(d)
            BY <1>1
        <3> QED BY <1>1, <3>1 DEF BesideKept
    <2>2. \A p \in Trusted(d) : Uses(e, p) \cap Uses(e, q) = {}
        BY <1>1, <1>2, <1>5, <1>9
    <2> QED BY <1>4, <1>8, <2>1, <2>2 DEF Files
<1>11. TreeOK(e, n)
    <2>1. ASSUME NEW p \in Live(e, n), IsDir(e, p), ~(n.step = "newtable" /\ p = n.path)
          PROVE  IsDirectory(e, Find(e, p))
        <3>1. p # q
            BY <1>3, <1>4, <2>1
        <3> QED BY <1>5, <1>7, <2>1, <3>1
    <2>2. ASSUME NEW p \in Live(e, n), ~InWork(n, p) PROVE Uses(e, p) \subseteq FreeMap(e)
        <3>1. InWork(n, q)
            <4>1. IsPrefix(q, q)
                BY PathsInAll, BelowIs
            <4> QED BY <1>3, <4>1 DEF InWork
        <3> QED BY <1>1, <1>5, <1>7, <2>2, <3>1
    <2> QED BY <1>7, <1>10, <2>1, <2>2 DEF TreeOK
<1>12. Creating(e, n)
    <2>1. NewFile(n) /\ New(n) = New(o) /\ Named(e, n) /\ HeadersWritten(e, n, Len(n.hdr))
        BY <1>1, <1>2, <1>3, SameFileIs
    <2>2. n.step = "map" => \A p \in Trusted(e) : Front(p) # q
        BY <1>6
    <2>3. \A j \in 1..(n.k - 1) : FALSE
        OBVIOUS
    <2> QED BY <1>1, <1>2, <1>3, <2>1, <2>2, <2>3 DEF Creating
<1>13. ASSUME NEW f, FdTree(d, o, f) PROVE FdTree(e, n, f)
    <2>1. PICK p \in Live(d, o) : /\ ~IsDir(d, p) /\ ~InWork(o, p)
                                  /\ f.sector = Find(d, p) /\ f.hdr = FetchFrom(d, f.sector)
        BY <1>13 DEF FdTree
    <2>2. p \in Trusted(d) /\ p \in Live(e, n)
        BY <1>7 DEF Live
    <2> QED BY <1>5, <2>1, <2>2 DEF FdTree
<1>14. SameFiles(d, e, Trusted(d))
    BY <1>5 DEF SameFiles
<1> QED BY <1>5, <1>7, <1>11, <1>12, <1>13, <1>14

\* The tree without the file that was removed.
LEMMA RemovedTree ==
    ASSUME NEW d, SystemOn(d), NEW o, o.step = "table", o.path \in Paths, TreeOK(d, o), Removing(d, o),
           NEW e, TableGoes(d, e, o.path, o.table), SystemOn(e)
    PROVE  /\ TreeOK(e, NoOp)
           /\ Live(e, NoOp) = Trusted(d) \cap Beside(o.path)
           /\ SameFiles(d, e, Trusted(d) \cap Beside(o.path))
<1> DEFINE q == o.path
           f == Front(q)
           s == Find(d, f)
<1>1. q \in AllPaths /\ q # <<>> /\ q \in Trusted(d) /\ o.table = Without(TableAt(d, s), Last(q))
    BY PathsInAll DEF Removing, Parent
<1>2. f \in Trusted(d) /\ IsDir(d, f)
    BY <1>1, TrustedIs
<1>3. OtherNames(TableAt(d, s), o.table, Last(q)) /\ Last(q) \notin DOMAIN o.table
    BY <1>1, WithoutIs
<1>4. /\ BesideKept(d, e, q) /\ Find(e, f) = s /\ TableAt(e, s) = o.table
    BY <1>2, <1>3, TableChanged
<1>5. q \notin Trusted(e)
    BY <1>1, <1>3, <1>4, TrustedIs DEF HasEntry, Above
<1>6. ASSUME NEW p \in Trusted(e) PROVE p \in Trusted(d) \cap Beside(q) /\ SameAt(d, e, p)
    <2>1. p \in AllPaths
        BY DEF Trusted, Found
    <2>2. Front(p) # q
        <3>1. p # <<>> => Front(p) \in Trusted(e)
            BY <2>1, TrustedIs
        <3> QED BY <1>1, <1>5, <2>1, <3>1, FrontIs
    <2>3. p \in Beside(q)
        BY <1>5, <2>1, <2>2, BesideIs
    <2>4. SameAt(d, e, p)
        BY <1>4, <2>3 DEF BesideKept
    <2> QED BY <2>3, <2>4 DEF SameAt
<1>7. ASSUME NEW p \in Trusted(d) \cap Beside(q) PROVE p \in Trusted(e)
    <2>1. SameAt(d, e, p)
        BY <1>4 DEF BesideKept
    <2> QED BY <2>1 DEF SameAt
<1>8. Live(e, NoOp) = Trusted(d) \cap Beside(q)
    BY <1>6, <1>7, NoOpStep DEF Live, Junk
<1>9. \A p \in Live(e, NoOp) : IsDir(e, p) => IsDirectory(e, Find(e, p))
    BY <1>4, <1>6, <1>7, <1>8 DEF BesideKept, SameAt
<1>10. ASSUME NEW p \in Live(e, NoOp) PROVE Uses(e, p) \subseteq FreeMap(e)
    <2>1. p \in Trusted(d) /\ p \in Beside(q) /\ p \in AllPaths
        BY <1>8 DEF Trusted, Found
    <2>2. ~InWork(o, p) /\ p \in Live(d, o)
        BY <2>1, BesideIs DEF Live
    <2>3. Uses(d, p) \subseteq FreeMap(d)
        BY <2>2 DEF TreeOK
    <2> QED BY <1>4, <2>1, <2>3 DEF BesideKept, Kept
<1>11. SameFiles(d, e, Trusted(d) \cap Beside(q))
    BY <1>4, <1>6, <1>7 DEF SameFiles, SameAt, BesideKept, Kept
<1>12. TreeOK(e, NoOp)
    BY <1>4, <1>8, <1>9, <1>10 DEF BesideKept, TreeOK
<1> QED BY <1>8, <1>11, <1>12

\* The table is written: the new name is there, the old one is gone.
LEMMA WriteTableStays ==
    ASSUME UninitIsRoot, Good, WriteTable PROVE Stays
<1> DEFINE d == disk
           e == disk'
<1>1. op.step = "table" /\ UNCHANGED <<phase, fd>> /\ AfterTable /\ TableGoes(d, e, op.path, op.table)
    BY WriteTableIs
<1>2. /\ op # NoOp /\ OpOK(op, fd) /\ op.path \in Paths /\ SystemOn(d) /\ SystemOn(e)
      /\ TreeOK(d, op) /\ phase = Phase(op) /\ (Creating(d, op) \/ Removing(d, op))
    BY <1>1, TablePath
<1>3. phase' # "garbage"
    BY <1>1 DEF Good, Running
<1>4. fd.kind = "open" => phase = "user" /\ FdTree(d, op, fd)
    BY <1>1 DEF Good, WholeTree
<1>5. CASE Removing(d, op)
    <2>1. op.name = "remove"
        BY <1>5 DEF Removing
    <2>2. op' = NoOp
        BY <1>1, <2>1 DEF AfterTable
    <2>3. TreeOK(e, NoOp)
        <3> HIDE DEF d, e
        <3> QED BY <1>1, <1>2, <1>5, RemovedTree
    <2>4. fd'.kind # "open"
        BY <1>1, <1>2, <1>4, <2>1 DEF Phase
    <2> QED BY <1>3, <2>2, <2>3, <2>4 DEF Stays, WholeTree
<1>6. CASE Creating(d, op)
    <2>1. op.name \in {"create", "copy", "mkdir"}
        BY <1>6 DEF Creating
    <2>2. Goto(IF op.name = "mkdir" THEN "newtable" ELSE "map")
        BY <1>1, <2>1 DEF AfterTable
    <2>3. op'.step = (IF op.name = "mkdir" THEN "newtable" ELSE "map") /\ op'.k = 1 /\ SameFile(op, op')
        BY <1>2, <2>2, GoneTo
    <2>4. TreeOK(e, op') /\ Creating(e, op') /\ (FdTree(d, op, fd) => FdTree(e, op', fd))
        <3> DEFINE n == op'
        <3>1. n.step = (IF op.name = "mkdir" THEN "newtable" ELSE "map") /\ n.k = 1 /\ SameFile(op, n)
            BY <2>3
        <3> HIDE DEF d, e, n
        <3>2. TreeOK(e, n) /\ Creating(e, n) /\ \A f : FdTree(d, op, f) => FdTree(e, n, f)
            BY <1>1, <1>2, <1>6, <3>1, NamedTree
        <3> QED BY <3>2 DEF n
    <2>5. phase' = Phase(op')
        BY <1>1, <1>2, <2>3, SameFileIs
    <2> QED BY <1>1, <1>3, <1>4, <2>4, <2>5 DEF Stays, WholeTree, OpTree
<1> QED BY <1>2, <1>5, <1>6

\* Paths that are not in the directory at q.
NotIn(q) == {p \in AllPaths : Front(p) # q}

\* The table of the new directory is written: nothing is in it.
LEMMA NewTableGoes ==
    ASSUME NEW d, SystemOn(d), NEW o, o.step = "newtable", o.path \in Paths, TreeOK(d, o), Creating(d, o),
           NEW e, Wrote(d, e, ByteToSector(o.hdr, 0), Table(EmptyTable)), SystemOn(e),
           NEW n, SameFile(o, n), n.step = "map", n.k = 1
    PROVE  /\ TreeOK(e, n) /\ Creating(e, n)
           /\ Live(e, n) = Live(d, o) /\ SameFiles(d, e, Live(d, o))
           /\ \A p \in Live(d, o) : p # o.path => SameOn(d, e, Uses(d, p))
<1> DEFINE q == o.path
           s == o.sector
           x == ByteToSector(o.hdr, 0)
<1>1. /\ NewFile(o) /\ Named(d, o) /\ o.name = "mkdir" /\ HeadersWritten(d, o, Len(o.hdr))
      /\ o.map = FreeMap(d) \cup New(o)
    BY DEF Creating
<1>2. q \in Trusted(d) /\ Find(d, q) = s /\ q \in AllPaths /\ q # <<>> /\ s \in Sector
    BY <1>1, PathsInAll, DirPlaceIs DEF Named, NewFile
<1>3. /\ HasHeaders(d, s) /\ FetchFrom(d, s) = o.hdr
      /\ HeaderChain(d, s) = HeaderSectors(s, o.hdr) /\ SectorsOf(d, s) = New(o)
    BY <1>1, NewFileFetched
<1>4. IsFile(o.hdr) /\ FileLength(o.hdr) = 1 /\ IsHeader(d, s) /\ d[s].hdr = o.hdr[1]
    BY <1>1, <1>2, <1>3, FetchedIs DEF NewFile
<1>5. d[s].hdr.data # <<>>
    <2> DEFINE h == o.hdr
    <2>1. Len(h) \in Nat \ {0} /\ 1 \in 1..Len(h)
        BY <1>4, FileIs
    <2>2. h[1].data = <<>> => Len(h[1].data) = 0
        OBVIOUS
    <2>3. 1 < Len(h) => Len(h[1].data) = NumDirect
        BY <1>4, <2>1 DEF IsFile
    <2>4. NumDirect \in Nat \ {0}
        BY FileHeaderAssumption
    <2>5. FileLength(h) = (Len(h) - 1) * NumDirect + Len(h[Len(h)].data)
        BY <1>4, FileLengthIs
    <2>6. Len(h) = 1 => Len(h[1].data) = 1
        <3> SUFFICES ASSUME Len(h) = 1 PROVE Len(h[1].data) = 1
            OBVIOUS
        <3>1. FileLength(h) = (1 - 1) * NumDirect + Len(h[1].data)
            BY <2>5
        <3>2. Len(h[1].data) \in Nat
            BY <1>4, <2>1, FileIs
        <3> DEFINE m == Len(h[1].data)
                   z == (1 - 1) * NumDirect
        <3>3. z = 0
            BY <2>4
        <3>4. FileLength(h) = z + m /\ m \in Nat /\ FileLength(h) = 1
            BY <1>4, <3>1, <3>2
        <3> HIDE DEF m, z, h
        <3>5. m = 1
            BY <3>3, <3>4
        <3> QED BY <3>5 DEF m
    <2>7. 1 < Len(h) \/ Len(h) = 1
        <3> DEFINE l == Len(h)
        <3> HIDE DEF l
        <3>1. l \in Nat \ {0}
            BY <2>1 DEF l
        <3>2. 1 < l \/ l = 1
            BY <3>1
        <3> QED BY <3>2 DEF l
    <2> QED BY <1>4, <2>2, <2>3, <2>4, <2>6, <2>7
<1>6. x = TableSector(d, s) /\ x \in DataSectors(o.hdr)
    BY <1>2, <1>3, <1>5, TableIn DEF TableSector
<1>7. x \in New(o) /\ x \in Outside /\ x \notin ToSet(HeaderSectors(s, o.hdr))
    BY <1>1, <1>6, NewSectorsAre DEF New, NamedBy
<1>8. e = [d EXCEPT ![x] = Table(EmptyTable)] /\ x \in DOMAIN d
    BY <1>7, DirPlaceIs DEF Wrote, SystemOn
<1>9. FreeMap(e) = FreeMap(d)
    <2> DEFINE b == Table(EmptyTable)
    <2>1. e = [d EXCEPT ![x] = b] /\ SystemOn([d EXCEPT ![x] = b])
        BY <1>8
    <2> HIDE DEF b, x
    <2> QED BY <1>7, <2>1, MapApart
<1>10. Live(d, o) = Trusted(d) \cap NotIn(q) /\ q \in Live(d, o)
    <2>1. \A p \in Trusted(d) : Junk(o, p) <=> Front(p) = q
        <3> SUFFICES ASSUME NEW p \in Trusted(d) PROVE Junk(o, p) <=> Front(p) = q
            OBVIOUS
        <3>1. p \in AllPaths
            BY DEF Trusted, Found
        <3> QED BY <3>1, BelowIs DEF Junk
    <2>2. Front(q) # q
        BY <1>2, FrontIs
    <2> QED BY <1>2, <2>1, <2>2 DEF Live, NotIn, Trusted, Found
<1>11. SameOn(d, e, ToSet(HeaderChain(d, s)))
    BY <1>3, <1>7, <1>8 DEF SameOn
<1>12. ASSUME NEW p \in Live(d, o), p # q
       PROVE  /\ SameOn(d, e, ToSet(HeaderChain(d, Find(d, p))))
              /\ DirBlock(e, Find(d, p)) = DirBlock(d, Find(d, p))
              /\ SameOn(d, e, Uses(d, p))
    <2>1. x \notin Uses(d, p)
        <3>1. x \in Uses(d, q)
            BY <1>2, <1>3, <1>7 DEF Uses
        <3> QED BY <1>10, <1>12, <3>1 DEF TreeOK, Files
    <2>2. SameOn(d, e, Uses(d, p))
        BY <1>8, <2>1 DEF SameOn
    <2> QED BY <2>2, UsesKept
<1>13. IsDirectory(e, s) /\ TableAt(e, s) = EmptyTable
    <2>1. e[s] = d[s]
        BY <1>2, <1>3, <1>11, ChainKept
    <2>2. e[x] = Table(EmptyTable)
        BY <1>8
    <2>3. DirBlock(e, s) = Table(EmptyTable)
        BY <1>4, <1>5, <1>6, <2>1, <2>2 DEF DirBlock, IsHeader, TableSector
    <2> QED BY <2>3, KindsAre DEF IsDirectory, TableAt
<1>14. \A p \in NotIn(q) : SameAt(d, e, p)
    <2> DEFINE Z == {p \in AllPaths : Front(p) = q}
    <2>1. <<>> \notin Z /\ \A p \in AllPaths : Front(p) \notin Z
        BY <1>2, FrontIs
    <2>2. ASSUME NEW p \in AllPaths \ Z, p # <<>>, Front(p) \in Trusted(d), IsDir(d, Front(p))
          PROVE  SameEntry(d, e, p)
        <3>1. Front(p) \in Live(d, o) /\ Front(p) # q
            <4>1. Front(p) \in AllPaths /\ Front(p) \notin Z
                BY <2>1, FrontIs
            <4> QED BY <1>10, <2>2, <4>1 DEF NotIn
        <3>2. DirBlock(e, Find(d, Front(p))) = DirBlock(d, Find(d, Front(p)))
            BY <1>12, <3>1
        <3> QED BY <3>2, SameBlock DEF SameEntry
    <2>3. \A p \in AllPaths \ Z : SameAt(d, e, p)
        <3>1. <<>> \notin Z /\ <<>> \notin doubtful /\ \A p \in AllPaths : Front(p) \in Z => p \in Z
            BY <2>1 DEF TreeOK
        <3> HIDE DEF Z
        <3> QED BY <2>2, <3>1, SamePaths
    <2> QED BY <2>3 DEF NotIn
<1>15. q \in Trusted(e) /\ Find(e, q) = s /\ IsDir(e, q) = IsDir(d, q) /\ q \in NotIn(q)
    <2>1. q \in NotIn(q)
        BY <1>10
    <2>2. SameAt(d, e, q)
        BY <1>14, <2>1
    <2> QED BY <1>2, <2>1, <2>2 DEF SameAt
<1>16. \A p \in Trusted(e) : Front(p) # q
    <2> SUFFICES ASSUME NEW p \in Trusted(e), Front(p) = q PROVE FALSE
        OBVIOUS
    <2>1. p \in AllPaths /\ p # <<>>
        BY <1>2, FrontIs DEF Trusted, Found
    <2>2. HasEntry(e, p)
        BY <2>1, TrustedIs
    <2> QED BY <1>13, <1>15, <2>2 DEF HasEntry, Above, EmptyTable
<1>17. Trusted(e) = Live(d, o) /\ Live(e, n) = Trusted(e)
    <2>1. Trusted(e) \subseteq NotIn(q)
        BY <1>16 DEF NotIn, Trusted, Found
    <2>2. \A p \in NotIn(q) : p \in Trusted(d) <=> p \in Trusted(e)
        BY <1>14 DEF SameAt
    <2> QED BY <1>10, <2>1, <2>2 DEF Live, Junk
<1>18. Files(e, Live(d, o)) /\ Kept(d, e, Live(d, o))
    <2> DEFINE L == Live(d, o)
    <2>1. \A p \in L : Find(d, p) \in Sector /\ Find(e, p) = Find(d, p)
        BY <1>10, <1>14, TrustedAt DEF SameAt
    <2>2. \A p \in L : SameOn(d, e, ToSet(HeaderChain(d, Find(d, p))))
        BY <1>2, <1>11, <1>12
    <2>3. Files(d, L)
        BY DEF TreeOK
    <2> HIDE DEF L
    <2> QED BY <2>1, <2>2, <2>3, FilesKept DEF L
<1>19. TreeOK(e, n)
    <2>1. ASSUME NEW p \in Live(e, n), IsDir(e, p) PROVE IsDirectory(e, Find(e, p))
        <3>1. p \in Live(d, o) /\ SameAt(d, e, p)
            BY <1>10, <1>14, <1>17
        <3>2. CASE p = q
            BY <1>13, <1>15, <3>2
        <3>3. CASE p # q
            <4>1. IsDir(d, p) /\ Find(e, p) = Find(d, p)
                BY <1>10, <2>1, <3>1 DEF SameAt
            <4>2. IsDirectory(d, Find(d, p))
                BY <3>1, <3>3, <4>1 DEF TreeOK
            <4>3. DirBlock(e, Find(d, p)) = DirBlock(d, Find(d, p))
                BY <1>12, <3>1, <3>3
            <4> QED BY <4>1, <4>2, <4>3, SameBlock
        <3> QED BY <3>2, <3>3
    <2>2. ASSUME NEW p \in Live(e, n), ~InWork(n, p) PROVE Uses(e, p) \subseteq FreeMap(e)
        <3>1. p \in Live(d, o) /\ ~InWork(o, p)
            BY <1>17, <2>2 DEF InWork, SameFile
        <3>2. Uses(d, p) \subseteq FreeMap(d) /\ Uses(e, p) = Uses(d, p)
            BY <1>18, <3>1 DEF TreeOK, Kept
        <3> QED BY <1>9, <3>2
    <2> QED BY <1>17, <1>18, <2>1, <2>2 DEF TreeOK
<1>20. HeadersWritten(e, o, Len(o.hdr))
    <2> DEFINE c == HeaderSectors(s, o.hdr)
    <2>1. \A j \in 1..Len(o.hdr) : c[j] \in ToSet(c)
        <3>1. DOMAIN c = 1..Len(o.hdr)
            BY <1>1, NewSectorsAre
        <3> HIDE DEF c
        <3> QED BY <3>1 DEF ToSet
    <2>2. x \notin ToSet(c)
        BY <1>7
    <2> HIDE DEF c, x
    <2>3. \A j \in 1..Len(o.hdr) : e[c[j]] = d[c[j]]
        BY <1>8, <2>1, <2>2
    <2> QED BY <1>1, <2>3 DEF HeadersWritten, c
<1>21. Creating(e, n)
    <2>1. Named(e, o)
        BY <1>1, <1>15 DEF Named
    <2>2. NewFile(n) /\ New(n) = New(o) /\ Named(e, n) /\ HeadersWritten(e, n, Len(n.hdr))
        BY <1>1, <1>20, <2>1, SameFileIs DEF SameFile
    <2>3. \A j \in 1..(n.k - 1) : FALSE
        OBVIOUS
    <2>4. n.name = "mkdir" /\ n.path = q /\ n.map = o.map
        BY <1>1 DEF SameFile
    <2> QED BY <1>1, <1>9, <1>16, <2>2, <2>3, <2>4 DEF Creating
<1>22. SameFiles(d, e, Live(d, o))
    BY <1>10, <1>14, <1>18 DEF SameFiles, SameAt, Kept
<1> QED BY <1>12, <1>17, <1>19, <1>21, <1>22

\* The empty table of a new directory is written.
LEMMA WriteNewTableStays ==
    ASSUME Good, WriteNewTable PROVE Stays
<1> DEFINE d == disk
           e == disk'
<1>1. op.step = "newtable"
    BY DEF WriteNewTable, At
<1>2. /\ op # NoOp /\ OpOK(op, fd) /\ OpTree(d, op) /\ phase = Phase(op) /\ op.path \in Paths
      /\ SystemOn(d) /\ SystemOn(e) /\ TreeOK(d, op)
    BY <1>1, InProgress
<1>3. Creating(d, op)
    BY <1>1, <1>2 DEF OpTree, Removing, Copying
<1>4. NewFile(op) /\ op.name = "mkdir" /\ HeadersWritten(d, op, Len(op.hdr))
    BY <1>1, <1>3 DEF Creating
<1>5. HasHeaders(d, op.sector) /\ FetchFrom(d, op.sector) = op.hdr /\ FileLength(op.hdr) = 1
    BY <1>2, <1>4, NewFileFetched DEF NewFile
<1>6. Wrote(d, e, ByteToSector(op.hdr, 0), Table(EmptyTable)) /\ Goto("map") /\ UNCHANGED <<phase, fd, cuts>>
    BY <1>5 DEF WriteNewTable, WriteSector, Wrote
<1>7. op'.step = "map" /\ op'.k = 1 /\ SameFile(op, op')
    BY <1>2, <1>6, GoneTo
<1>8. TreeOK(e, op') /\ Creating(e, op')
    <2> DEFINE n == op'
    <2>1. n.step = "map" /\ n.k = 1 /\ SameFile(op, n)
        BY <1>7
    <2> HIDE DEF d, e, n
    <2>2. TreeOK(e, n) /\ Creating(e, n)
        BY <1>1, <1>2, <1>3, <1>6, <2>1, NewTableGoes
    <2> QED BY <2>2 DEF n
<1>9. phase' = Phase(op') /\ phase' # "garbage"
    BY <1>2, <1>6, <1>7, SameFileIs DEF Good, Running
<1>10. fd'.kind # "open"
    BY <1>1, <1>2, <1>4, <1>6 DEF Good, WholeTree, Phase
<1> QED BY <1>8, <1>9, <1>10 DEF Stays, WholeTree, OpTree

-----------------------------------------------------------------------------
(* Every step                                                              *)

\* The root is not one of the map's headers.
LEMMA UninitRootOutsideMap == UninitIsRoot => UninitOutsideMap
<1>1. ToSet(MapAt) \subseteq SystemSectors \ {DirectorySector}
    <2>1. DOMAIN MapAt = 1..Len(MapHdr)
        BY MapAtIs, LenProperties
    <2> QED BY <2>1, SystemSectorsAre DEF ToSet
<1>2. NoSector \notin SystemSectors
    BY FormatIs, DirPlaceIs
<1> QED BY <1>1, <1>2 DEF UninitIsRoot, UninitOutsideMap

\* The kernel ended inside an operation.
WasCut == cuts' = cuts + 1 /\ op # NoOp /\ Reboot /\ disk' = disk

\* Every step is taken by a running kernel; it is a cut or leaves the count.
LEMMA CutsGrow ==
    ASSUME Next
    PROVE  Running /\ (cuts' = cuts \/ (WasCut /\ Continue))
<1>1. ASSUME NEW p, NEW n, NEW size, Begin(n, p, size) PROVE cuts' = cuts
    BY <1>1 DEF Begin, TakesGarbage, Fails, FailsAndDeletesUninit, vars
<1>2. ASSUME NEW p \in Paths, \E n \in Sizes : Create(p, n) \/ Copy(p, n)
      PROVE  Running /\ cuts' = cuts
    BY <1>1, <1>2 DEF Create, Copy, Idle
<1>3. ASSUME NEW p \in Paths, CreateDirectory(p) PROVE Running /\ cuts' = cuts
    BY <1>1, <1>3 DEF CreateDirectory, Idle
<1>4. ASSUME NEW p \in Paths, RemoveFile(p) PROVE Running /\ cuts' = cuts
    BY <1>4 DEF RemoveFile, Idle, TakesGarbage, Fails, FailsAndDeletesUninit, vars
<1>5. ASSUME NEW p \in Paths, Load(p) \/ SysOpen(p) PROVE Running /\ cuts' = cuts
    BY <1>5 DEF Load, SysOpen, Open, Idle, TakesGarbage
<1>6. ASSUME NEW p \in Paths, Call(p) PROVE Running /\ cuts' = cuts
    BY <1>2, <1>3, <1>4, <1>5, <1>6 DEF Call
<1>7. ASSUME Continue PROVE Running /\ (cuts' = cuts \/ WasCut)
    <2>1. CASE WriteHeader \/ WriteMap
        BY <2>1 DEF WriteHeader, WriteMap, At
    <2>2. CASE WriteTable
        BY <2>2, NoOpStep DEF WriteTable, TakesGarbage, At, WasCut
    <2>3. CASE WriteNewTable \/ CopyOpens
        BY <2>3 DEF WriteNewTable, CopyOpens, TakesGarbage, At
    <2>4. CASE CopyWrites \/ CopyEnds
        BY <2>4 DEF CopyWrites, CopyEnds, At
    <2>5. CASE SysRead \/ (\E v \in Values : SysWrite(v)) \/ SysClose
        BY <2>5 DEF SysRead, SysWrite, SysClose, UsesDeleted, Fails, vars, Idle
    <2>6. CASE Halt
        BY <2>6 DEF Halt, Idle
    <2>7. CASE Cut
        BY <2>7 DEF Cut, WasCut
    <2> QED BY <1>7, <2>1, <2>2, <2>3, <2>4, <2>5, <2>6, <2>7 DEF Continue
<1> QED BY <1>6, <1>7 DEF Next

\* The operations that Begin starts.
LEMMA BeginsStay ==
    ASSUME Good, NEW p \in Paths, ~Doubted(p),
           (\E n \in Sizes : Create(p, n) \/ Copy(p, n)) \/ CreateDirectory(p)
    PROVE  Stays
<1>1. Sizes \subseteq Nat
    BY FileSystemAssumption
<1>2. ASSUME NEW n \in Sizes, Create(p, n) PROVE Stays
    BY <1>1, <1>2, BeginStays DEF Create, Idle
<1>3. ASSUME NEW n \in Sizes, Copy(p, n) PROVE Stays
    BY <1>1, <1>3, BeginStays DEF Copy, Idle
<1>4. CASE CreateDirectory(p)
    BY <1>4, BeginStays DEF CreateDirectory, Idle
<1> QED BY <1>2, <1>3, <1>4

\* What a kernel does that uses no name in doubt.
Steps == (\E p \in Paths : ~Doubted(p) /\ Call(p)) \/ Continue

\* Every step keeps the tree.
LEMMA NextStays ==
    ASSUME UninitIsRoot, Good, Steps PROVE Stays
<1>1. ASSUME NEW p \in Paths, ~Doubted(p), Call(p) PROVE Stays
    BY <1>1, BeginsStay, RemoveFileStays, LoadStays, SysOpenStays DEF Call
<1>2. CASE WriteHeader \/ WriteTable \/ WriteNewTable \/ WriteMap
    BY <1>2, WriteHeaderWhole, WriteTableStays, WriteNewTableStays, WriteMapWhole
<1>3. CASE CopyOpens \/ CopyWrites \/ CopyEnds
    BY <1>3, CopyOpensStays, CopyWritesStays, CopyEndsStays
<1>4. CASE SysRead \/ (\E v \in Values : SysWrite(v)) \/ SysClose
    BY <1>4, SysReadStays, SysWriteStays, SysCloseStays
<1>5. CASE Halt
    BY <1>5, RebootStays DEF Halt, Idle
<1>6. ~Cut
    <2>1. cuts \in Nat
        BY FileSystemAssumption DEF Good, SystemInv
    <2> QED BY <2>1 DEF Cut, Good
<1> QED BY <1>1, <1>2, <1>3, <1>4, <1>5, <1>6 DEF Steps, Continue

\* With the same names in doubt, the next state is as good as its disk is now.
LEMMA NextWhole ==
    ASSUME NEW d, disk' = d, NEW o, op' = o, NEW f, fd' = f, NEW ph, phase' = ph,
           doubtful' = doubtful, WholeTree(d, o, f, ph)
    PROVE  WholeTree(disk, op, fd, phase)'
<1>1. ASSUME NEW e PROVE Trusted(e)' = Trusted(e)
    BY DEF Trusted, Doubted
<1>2. ASSUME NEW e, NEW n PROVE Live(e, n)' = Live(e, n)
    BY <1>1 DEF Live
<1>3. ASSUME NEW e, NEW n PROVE TreeOK(e, n)' <=> TreeOK(e, n)
    BY <1>2 DEF TreeOK
<1>4. ASSUME NEW e, NEW n PROVE OpTree(e, n)' <=> OpTree(e, n)
    BY <1>1 DEF OpTree, Creating, Removing, Copying, ToBeNamed, Named
<1>5. ASSUME NEW e, NEW n, NEW g PROVE FdTree(e, n, g)' <=> FdTree(e, n, g)
    BY <1>2 DEF FdTree
<1> QED BY <1>3, <1>4, <1>5 DEF WholeTree

\* The name that a cut leaves in doubt is one that could be trusted, and without it
\* nothing is in work: neither the file nor what is below it.
LEMMA LeftIs ==
    ASSUME SystemInv, Running, WholeTree(disk, op, fd, phase), op # NoOp
    PROVE  /\ op.path \in Paths /\ Left \subseteq {op.path} /\ Left \subseteq Live(disk, op)
           /\ \A p \in Trusted(disk) : Prefixes(p) \cap Left = {} =>
                /\ ~InWork(op, p) /\ ~Junk(op, p)
                /\ ~(op.step = "newtable" /\ p = op.path)
           /\ \A p \in Trusted(disk) : Left # {} =>
                (Prefixes(p) \cap Left = {} <=> ~IsPrefix(op.path, p))
<1> DEFINE d == disk
           q == op.path
<1>1. OpTree(d, op) /\ SystemOn(d) /\ q \in Paths
    BY DEF WholeTree, SystemInv, OpOK
<1>2. q \in AllPaths /\ q # <<>> /\ ~IsStrictPrefix(q, q)
    BY <1>1, PathsInAll, BelowIs
<1>3. ASSUME NEW p \in Trusted(d)
      PROVE  /\ IsPrefix(q, p) <=> q \in Prefixes(p)
             /\ IsPrefix(q, p) => q \in Found(d)
    <2>1. p \in AllPaths /\ p \in Found(d)
        BY DEF Trusted, Found
    <2>2. IsPrefix(q, p) <=> (q = Front(p) \/ q = p)
        BY <1>1, <2>1, BelowIs
    <2>3. q \in Prefixes(p) <=> (q = Front(p) \/ q = p)
        BY <1>2, <2>1, FrontIs
    <2>4. p # <<>> => Front(p) \in Found(d)
        BY <1>1, <2>1, FoundIs
    <2>5. Front(<<>>) = <<>>
        BY FrontIs DEF AllPaths
    <2> QED BY <1>2, <2>1, <2>2, <2>3, <2>4, <2>5
<1>4. op.step \in {"open", "data"} \/ Left = {q} \cap Found(d)
    BY DEF Left
<1>5. op.step \in {"open", "data"} => Left = {}
    BY DEF Left
<1>6. ASSUME NEW p \in Trusted(d), Prefixes(p) \cap Left = {}
      PROVE  ~InWork(op, p) /\ ~Junk(op, p) /\ ~(op.step = "newtable" /\ p = q)
    <2>1. CASE op.step \in {"open", "data"}
        BY <2>1 DEF InWork, Junk
    <2>2. CASE Left = {q} \cap Found(d)
        <3>1. ~IsPrefix(q, p)
            BY <1>3, <1>6, <2>2
        <3>2. IsPrefix(q, q)
            BY <1>1, <1>2, BelowIs
        <3> QED BY <3>1, <3>2 DEF InWork, Junk, IsStrictPrefix
    <2> QED BY <1>4, <2>1, <2>2
<1>7. Left \subseteq {q}
    BY <1>4, <1>5
<1>8. ASSUME Left # {} PROVE q \in Live(d, op)
    <2>1. q \in Found(d) /\ op.step \notin {"open", "data"}
        BY <1>4, <1>5, <1>8
    <2>2. q \in Trusted(d)
        <3>1. CASE op.step \in {"header", "table"} /\ Creating(d, op)
            <4>1. ToBeNamed(d, op)
                BY <3>1 DEF Creating
            <4>2. HasEntry(d, q)
                BY <1>1, <1>2, <2>1, FoundIs
            <4> QED BY <4>1, <4>2 DEF ToBeNamed, HasEntry, Above, Parent
        <3>2. CASE op.step \in {"newtable", "map"} /\ Creating(d, op)
            BY <3>2 DEF Creating, Named
        <3>3. CASE Removing(d, op)
            BY <3>3 DEF Removing
        <3> QED BY <1>1, <2>1, <3>1, <3>2, <3>3 DEF OpTree, Copying, Creating
    <2> QED BY <1>2, <2>2 DEF Live, Junk
<1>9. ASSUME NEW p \in Trusted(d), Left # {}
      PROVE  Prefixes(p) \cap Left = {} <=> ~IsPrefix(q, p)
    BY <1>3, <1>7, <1>9
<1> QED BY <1>1, <1>6, <1>7, <1>8, <1>9

\* So a cut leaves a whole tree.
LEMMA CutTree ==
    ASSUME SystemInv, Running, WholeTree(disk, op, fd, phase), WasCut,
           doubtful' = doubtful \cup Left
    PROVE  WholeTree(disk, op, fd, phase)'
<1> DEFINE L == {p \in Trusted(disk) : Prefixes(p) \cap Left = {}}
<1>1. op # NoOp /\ disk' = disk /\ op' = NoOp /\ fd' = Null
    BY DEF WasCut, Reboot
<1>2. /\ op.path \in Paths /\ Left \subseteq {op.path}
      /\ \A p \in L : ~InWork(op, p) /\ ~Junk(op, p) /\ ~(op.step = "newtable" /\ p = op.path)
    BY <1>1, LeftIs
<1>3. TreeOK(disk, op)
    BY DEF WholeTree
<1>4. Trusted(disk)' = L
    BY <1>1 DEF Trusted, Doubted
<1>5. Live(disk, op)' = L
    BY <1>1, <1>4, NoOpStep DEF Live, Junk
<1>6. L \subseteq Live(disk, op)
    BY <1>2 DEF Live
<1>7. <<>> \notin doubtful'
    <2>1. op.path # <<>>
        BY <1>2, PathsInAll
    <2> QED BY <1>2, <1>3, <2>1 DEF TreeOK
<1> HIDE DEF L
<1>8. Files(disk, L)
    BY <1>3, <1>6 DEF TreeOK, Files
<1>9. /\ \A p \in L : IsDir(disk, p) => IsDirectory(disk, Find(disk, p))
      /\ \A p \in L : Uses(disk, p) \subseteq FreeMap(disk)
    BY <1>2, <1>3, <1>6 DEF TreeOK
<1>10. TreeOK(disk, op)'
    BY <1>1, <1>5, <1>7, <1>8, <1>9 DEF TreeOK
<1> QED BY <1>1, <1>10, NotOpen DEF WholeTree

\* Every step of the store's specification leaves one.
LEMMA NextTree ==
    ASSUME UninitIsRoot, TreeInv, [StoreNext]_<<vars, doubtful, tree, opened>> PROVE TreeInv'
<1>1. [Next]_vars
    BY DEF StoreNext, Next, vars
<1>2. SystemInv /\ SystemInv'
    BY <1>1, UninitRootOutsideMap, NextSystem DEF TreeInv
<1>3. CASE UNCHANGED <<vars, doubtful, tree, opened>>
    <2>1. /\ disk' = disk /\ op' = op /\ fd' = fd /\ phase' = phase /\ doubtful' = doubtful
          /\ Running' = Running
        BY <1>3 DEF vars, Running
    <2>2. Running => WholeTree(disk, op, fd, phase)'
        <3> SUFFICES ASSUME Running PROVE WholeTree(disk, op, fd, phase)'
            OBVIOUS
        <3>1. WholeTree(disk, op, fd, phase)
            BY DEF TreeInv
        <3> QED BY <2>1, <3>1, NextWhole
    <2> QED BY <1>2, <2>1, <2>2 DEF TreeInv, NothingGarbled
<1>4. CASE StoreNext
    <2>1. Steps /\ doubtful' = IF cuts' = cuts THEN doubtful ELSE doubtful \cup Left
        BY <1>4 DEF StoreNext, Steps
    <2>2. Running /\ (cuts' = cuts \/ WasCut)
        BY <2>1, CutsGrow DEF Steps, Next
    <2>3. WholeTree(disk, op, fd, phase)
        BY <2>2 DEF TreeInv
    <2>4. CASE cuts' = cuts
        <3>1. Good
            BY <1>2, <2>2, <2>3, <2>4 DEF Good
        <3>2. Stays
            BY <2>1, <3>1, NextStays
        <3>3. Running' => WholeTree(disk, op, fd, phase)'
            <4> SUFFICES ASSUME Running' PROVE WholeTree(disk, op, fd, phase)'
                OBVIOUS
            <4>1. WholeTree(disk', op', fd', phase') /\ doubtful' = doubtful
                BY <2>1, <2>4, <3>2 DEF Stays
            <4> QED BY <4>1, NextWhole
        <3> QED BY <1>2, <3>2, <3>3 DEF TreeInv, NothingGarbled, Stays
    <2>5. CASE cuts' # cuts
        <3>1. WasCut /\ doubtful' = doubtful \cup Left
            BY <2>1, <2>2, <2>5
        <3>2. WholeTree(disk, op, fd, phase)'
            BY <1>2, <2>2, <2>3, <3>1, CutTree
        <3>3. phase' # "garbage"
            BY <3>1 DEF WasCut, Reboot
        <3> QED BY <1>2, <3>2, <3>3 DEF TreeInv, NothingGarbled
    <2> QED BY <2>4, <2>5
<1> QED BY <1>3, <1>4

\* The root's header is not its table.
LEMMA RootSeparate ==
    ASSUME NEW d, SystemOn(d)
    PROVE  Separate(d, DirectorySector)
<1> DEFINE s == DirectorySector
           c == HeaderChain(d, s)
<1>1. HasHeaders(d, s) /\ s \in Sector /\ FetchFrom(d, s) = <<RootHdr>>
    BY RootIs, DirPlaceIs, FormatIs
<1>2. IsChain(d, c) /\ c[1] = s /\ Len(c) = Len(FetchFrom(d, s))
    BY <1>1, FetchedIs
<1>3. c \in Seq(Sector) /\ Len(c) = 1
    BY <1>1, <1>2 DEF IsChain
<1>4. DOMAIN c = {1}
    BY <1>3
<1> HIDE DEF c
<1>5. ToSet(c) = {s}
    BY <1>2, <1>4 DEF ToSet
<1>6. DataSectors(<<RootHdr>>) = {RootTable}
    <2> DEFINE f == <<RootHdr>>
    <2>1. DOMAIN f = {1} /\ f[1] = RootHdr
        OBVIOUS
    <2> HIDE DEF f
    <2>2. DataSectors(f) = ToSet(RootHdr.data)
        BY <2>1 DEF DataSectors
    <2>3. ToSet(<<RootTable>>) = {RootTable}
        BY DEF ToSet
    <2> QED BY <2>2, <2>3, FormatIs DEF f
<1>7. RootTable # DirectorySector
    BY FormatIs
<1>8. NamesOnce(<<RootHdr>>)
    <2> DEFINE f == <<RootHdr>>
    <2>1. Len(f) = 1 /\ f[1] = RootHdr /\ 1..Len(f) = {1} /\ 1..(Len(f) - 1) = {}
        OBVIOUS
    <2>2. RootHdr.data = <<RootTable>> /\ 1..Len(RootHdr.data) = {1}
        BY FormatIs
    <2> HIDE DEF f
    <2>3. NextSectors(f) = {}
        BY <2>1 DEF NextSectors
    <2>4. NamesOnce(f)
        BY <2>1, <2>2, <2>3 DEF NamesOnce
    <2> QED BY <2>4 DEF f
<1> QED BY <1>1, <1>5, <1>6, <1>7, <1>8 DEF Separate, c

\* On a formatted disk there is the root, and nothing in it.
LEMMA FoundAtFirst ==
    ASSUME Init, doubtful = {} PROVE Trusted(disk) = {<<>>}
<1> DEFINE d == disk
<1>1. SystemInv /\ SystemOn(d)
    BY InitSystem DEF SystemInv
<1>2. DirBlock(d, DirectorySector) = Table(EmptyTable)
    <2>1. d[RootTable] = Table(EmptyTable)
        BY FormattedIs DEF Init
    <2> QED BY <1>1, <2>1, RootIs
<1>3. Find(d, <<>>) = DirectorySector /\ <<>> \in Trusted(d) /\ TableAt(d, DirectorySector) = EmptyTable
    BY <1>1, <1>2, RootTrusted, RootIs, KindsAre DEF TableAt
<1>4. ASSUME NEW p \in AllPaths, p # <<>>, Front(p) = <<>> PROVE p \notin Trusted(d)
    <2>1. ~HasEntry(d, p)
        BY <1>3, <1>4 DEF HasEntry, Above, EmptyTable
    <2> QED BY <1>1, <1>4, <2>1, TrustedIs
<1>5. ASSUME NEW p \in Trusted(d), p # <<>> PROVE FALSE
    <2>1. p \in AllPaths /\ Front(p) \in AllPaths /\ Front(Front(p)) = <<>>
        BY FrontIs DEF Trusted, Found
    <2>2. Front(p) \in Trusted(d)
        BY <1>1, <1>5, <2>1, TrustedIs
    <2> QED BY <1>4, <1>5, <2>1, <2>2
<1> QED BY <1>3, <1>5

\* So the tree is sound at first.
LEMMA InitTree == Init /\ doubtful = {} => TreeInv
<1> SUFFICES ASSUME Init, doubtful = {} PROVE TreeInv
    OBVIOUS
<1> DEFINE d == disk
<1>1. SystemInv /\ SystemOn(d)
    BY InitSystem DEF SystemInv
<1>2. DirBlock(d, DirectorySector) = Table(EmptyTable)
    <2>1. d[RootTable] = Table(EmptyTable)
        BY FormattedIs DEF Init
    <2> QED BY <1>1, <2>1, RootIs
<1>3. Find(d, <<>>) = DirectorySector /\ <<>> \in Trusted(d) /\ IsDirectory(d, DirectorySector)
      /\ TableAt(d, DirectorySector) = EmptyTable
    BY <1>1, <1>2, RootTrusted, RootIs, KindsAre DEF TableAt
<1>4. Trusted(d) = {<<>>}
    BY FoundAtFirst
<1>5. Live(d, NoOp) = {<<>>}
    BY <1>4, NoOpStep DEF Live, Junk
<1>6. /\ HasHeaders(d, DirectorySector) /\ Uses(d, <<>>) = {DirectorySector, RootTable}
      /\ FetchFrom(d, DirectorySector) = <<RootHdr>>
      /\ SectorsOf(d, DirectorySector) = {DirectorySector, RootTable}
    BY <1>1, <1>3, RootIs DEF Uses
<1>7. Separate(d, DirectorySector)
    BY <1>1, RootSeparate
<1>8. {DirectorySector, RootTable} \subseteq FreeMap(d)
    BY <1>1, FreeMapIs, FormatIs
<1>9. TreeOK(d, NoOp)
    BY <1>3, <1>5, <1>6, <1>7, <1>8 DEF TreeOK, Files
<1>10. WholeTree(disk, op, fd, phase)
    BY <1>9, NotOpen DEF Init, WholeTree
<1> QED BY <1>1, <1>10 DEF TreeInv, NothingGarbled, Init

\* Whatever was created, removed, written, halted and cut off before, every file
\* that can be found by a name in no doubt has its own marked sectors, but for the
\* one that is being created or removed (OthersSound); so FindAndSet never hands
\* out a sector in use.  For every disk, set of paths, size, number of entries and
\* of cuts, while no name in doubt is used; Remove's directory variable, which
\* nothing sets, is the root's sector or none.
THEOREM OthersStaySound ==
    ASSUME UninitIsRoot PROVE StoreSpec => []OthersSound
<1>1. StoreInit => TreeInv
    BY InitTree DEF StoreInit
<1>2. UninitIsRoot /\ TreeInv /\ [StoreNext]_<<vars, doubtful, tree, opened>> => TreeInv'
    BY NextTree
<1>3. TreeInv => OthersSound
    BY OthersAreSound
<1> QED BY <1>1, <1>2, <1>3, PTL DEF StoreSpec

\* And no name that is used leads to a sector that is not what it should be: every
\* file that Open, Remove or a table's write reaches can be fetched, and every
\* directory has a table (NothingGarbled).
THEOREM NothingIsGarbled ==
    ASSUME UninitIsRoot PROVE StoreSpec => []NothingGarbled
<1>1. StoreInit => TreeInv
    BY InitTree DEF StoreInit
<1>2. UninitIsRoot /\ TreeInv /\ [StoreNext]_<<vars, doubtful, tree, opened>> => TreeInv'
    BY NextTree
<1>3. TreeInv => NothingGarbled
    BY DEF TreeInv
<1> QED BY <1>1, <1>2, <1>3, PTL DEF StoreSpec

-----------------------------------------------------------------------------
(* What FileStore speaks of                                                *)

\* What the tree of FileStore has for a path.
Entry(d, p) ==
    [isDir |-> IsDir(d, p), data |-> IF IsDir(d, p) THEN <<>> ELSE Contents(d, p)]

\* The tree has the live files, without the root.
LEMMA TreeOnIs ==
    ASSUME NEW d, NEW o
    PROVE  TreeOn(d, o) = [p \in Live(d, o) \ {<<>>} |-> Entry(d, p)]
<1>1. Live(d, o) \ {<<>>} =
        {p \in Trusted(d) \ {<<>>} : ~(o.step = "newtable" /\ IsStrictPrefix(o.path, p))}
    BY DEF Live, Junk
<1> QED BY <1>1 DEF TreeOn, Entry

\* A file's entry is kept when its headers and its data are.
LEMMA EntryKept ==
    ASSUME NEW d, SystemOn(d), NEW e, SystemOn(e), NEW p \in Trusted(d), HasHeaders(d, Find(d, p)),
           Find(e, p) = Find(d, p), IsDir(e, p) = IsDir(d, p),
           FetchFrom(e, Find(d, p)) = FetchFrom(d, Find(d, p)),
           ~IsDir(d, p) => SameOn(d, e, DataSectors(FetchFrom(d, Find(d, p))))
    PROVE  Entry(e, p) = Entry(d, p)
<1> DEFINE f == FetchFrom(d, Find(d, p))
<1>1. IsFile(f)
    BY TrustedAt, FetchedIs
<1>2. ASSUME ~IsDir(d, p) PROVE Contents(e, p) = Contents(d, p)
    <2>1. SameOn(d, e, DataSectors(f)) /\ FetchFrom(e, Find(e, p)) = f
        BY <1>2
    <2> HIDE DEF f
    <2>2. FileLength(f) \in Nat
        BY <1>1, FileLengthIs
    <2>3. \A i \in 1..FileLength(f) : e[ByteToSector(f, i - 1)] = d[ByteToSector(f, i - 1)]
        <3> TAKE i \in 1..FileLength(f)
        <3>1. i - 1 \in 0..(FileLength(f) - 1)
            BY <2>2
        <3>2. ByteToSector(f, i - 1) \in DataSectors(f)
            BY <1>1, <3>1, ByteToSectorIs
        <3> QED BY <2>1, <3>2 DEF SameOn
    <2>4. [i \in 1..FileLength(f) |-> e[ByteToSector(f, i - 1)]]
            = [i \in 1..FileLength(f) |-> d[ByteToSector(f, i - 1)]]
        BY <2>3
    <2>5. Contents(e, p) = [i \in 1..FileLength(f) |-> e[ByteToSector(f, i - 1)]]
        BY <2>1 DEF Contents
    <2>6. Contents(d, p) = [i \in 1..FileLength(f) |-> d[ByteToSector(f, i - 1)]]
        BY DEF Contents, f
    <2> QED BY <2>4, <2>5, <2>6
<1> QED BY <1>2 DEF Entry

\* So are the entries of all files that a step does not touch.
LEMMA EntriesKept ==
    ASSUME NEW d, SystemOn(d), NEW e, SystemOn(e), NEW o, TreeOK(d, o), NEW L, L \subseteq Live(d, o),
           SameFiles(d, e, L), \A p \in L : ~IsDir(d, p) => SameOn(d, e, Uses(d, p))
    PROVE  \A p \in L : Entry(e, p) = Entry(d, p)
<1> TAKE p \in L
<1>1. HasHeaders(d, Find(d, p)) /\ p \in Trusted(d)
    BY DEF TreeOK, Files, Live
<1>2. /\ Find(e, p) = Find(d, p) /\ IsDir(e, p) = IsDir(d, p)
      /\ FetchFrom(e, Find(d, p)) = FetchFrom(d, Find(d, p))
    BY DEF SameFiles
<1>3. ~IsDir(d, p) => SameOn(d, e, DataSectors(FetchFrom(d, Find(d, p))))
    BY DEF SameOn, Uses, SectorsOf
<1> QED BY <1>1, <1>2, <1>3, EntryKept

\* No other path leads to the open file.
LEMMA OpenedIs ==
    ASSUME NEW d, SystemOn(d), NEW o, o.step # "newtable", TreeOK(d, o), NEW f, f.kind = "open",
           NEW p \in Trusted(d), f.sector = Find(d, p)
    PROVE  OpenedOn(d, f) = [path |-> p, pos |-> f.pos]
<1>1. Live(d, o) = Trusted(d) /\ Files(d, Trusted(d))
    BY DEF Live, Junk, TreeOK
<1>2. ASSUME NEW q \in Trusted(d), Find(d, q) = f.sector PROVE q = p
    <2>1. Find(d, q) \in Uses(d, q) /\ Find(d, p) \in Uses(d, p)
        BY <1>1, UsesAre DEF Files
    <2> QED BY <1>1, <1>2, <2>1 DEF Files
<1>3. (CHOOSE q \in Trusted(d) : Find(d, q) = f.sector) = p
    BY <1>2
<1> QED BY <1>3 DEF OpenedOn

\* It stays open, under its path.
LEMMA OpenedKept ==
    ASSUME NEW d, SystemOn(d), NEW o, TreeOK(d, o), NEW e, SystemOn(e), NEW n, TreeOK(e, n),
           NEW f,
           f.kind = "open" => /\ o.step # "newtable" /\ n.step # "newtable" /\ FdTree(d, o, f)
                              /\ \A p \in Trusted(d) : ~InWork(o, p) => p \in Trusted(e) /\ Find(e, p) = Find(d, p)
    PROVE  OpenedOn(e, f) = OpenedOn(d, f)
<1>1. CASE f.kind = "open"
    <2>1. PICK p \in Live(d, o) : ~InWork(o, p) /\ f.sector = Find(d, p)
        BY <1>1 DEF FdTree
    <2>2. p \in Trusted(d) /\ p \in Trusted(e) /\ f.sector = Find(e, p)
        BY <1>1, <2>1 DEF Live
    <2> QED BY <1>1, <2>1, <2>2, OpenedIs
<1>2. CASE f.kind # "open"
    BY <1>2 DEF OpenedOn
<1> QED BY <1>1, <1>2

\* The variables of FileStore before and after a step.
Mapped ==
    /\ tree = TreeOn(disk, op) /\ tree' = TreeOn(disk', op')
    /\ opened = OpenedOn(disk, fd) /\ opened' = OpenedOn(disk', fd')

\* Steps of FileStore that change no file.
LEMMA StoreStays ==
    ASSUME tree' = tree, opened' = opened \/ opened' = Null
    PROVE  Store!Next
    BY DEF Store!Next, Store!Stays

\* A step of FileStore that opens a file.
LEMMA StoreOpens ==
    ASSUME tree' = tree, NEW p \in Paths, p \in DOMAIN tree, ~tree[p].isDir,
           opened' = [path |-> p, pos |-> 0]
    PROVE  Store!Next
    BY DEF Store!Next, Store!Opens

\* A step of FileStore that reads.
LEMMA StoreReads ==
    ASSUME tree' = tree, opened # Null, opened.path \in DOMAIN tree,
           opened.pos < Len(tree[opened.path].data),
           opened' = [opened EXCEPT !.pos = @ + 1]
    PROVE  Store!Next
    BY DEF Store!Next, Store!CanMove, Store!Moves

\* A step of FileStore that writes.
LEMMA StoreWrites ==
    ASSUME opened # Null, opened.path \in DOMAIN tree,
           opened.pos < Len(tree[opened.path].data), NEW v \in Values,
           tree' = [tree EXCEPT ![opened.path].data[opened.pos + 1] = Data(v)],
           opened' = [opened EXCEPT !.pos = @ + 1]
    PROVE  Store!Next
    BY DEF Store!Next, Store!CanMove, Store!Moves, Store!Written

-----------------------------------------------------------------------------
(* Steps that write nothing, and those that write data                     *)

\* The disk as it was.
LEMMA SameDisk ==
    ASSUME disk' = disk, op.step # "newtable", op'.step # "newtable", Mapped
    PROVE  tree' = tree
<1>1. TreeOn(disk', op') = TreeOn(disk', op)
    BY DEF TreeOn
<1> QED BY <1>1 DEF Mapped

\* So it is with the open file, or the file is closed.
LEMMA NothingWritten ==
    ASSUME disk' = disk, op.step # "newtable", op'.step # "newtable", Mapped,
           fd' = fd \/ fd'.kind # "open"
    PROVE  Store!Next
<1>1. tree' = tree
    BY SameDisk
<1>2. opened' = opened \/ opened' = Null
    <2>1. CASE fd' = fd
        BY <2>1 DEF Mapped
    <2>2. CASE fd'.kind # "open"
        BY <2>2 DEF Mapped, OpenedOn
    <2> QED BY <2>1, <2>2
<1> QED BY <1>1, <1>2, StoreStays

\* What the tree has at the path of the open file.
AtPath(t, d, o, f, p) ==
    /\ p \in Trusted(d) /\ p # <<>> /\ p \in DOMAIN t /\ ~t[p].isDir /\ ~InWork(o, p)
    /\ ~IsDir(d, p) /\ f.sector = Find(d, p) /\ f.hdr = FetchFrom(d, f.sector)
    /\ t[p].data = Contents(d, p)
    /\ Len(t[p].data) = FileLength(f.hdr) /\ FileLength(f.hdr) \in Nat

\* The open file is a file of the tree.
LEMMA FdEntry ==
    ASSUME NEW d, SystemOn(d), NEW o, o.step # "newtable", TreeOK(d, o), NEW f, f.kind = "open",
           FdTree(d, o, f)
    PROVE  \E p \in Trusted(d) : /\ AtPath(TreeOn(d, o), d, o, f, p)
                                 /\ OpenedOn(d, f) = [path |-> p, pos |-> f.pos]
<1>1. Live(d, o) = Trusted(d)
    BY DEF Live, Junk
<1>2. PICK p \in Trusted(d) : /\ ~IsDir(d, p) /\ ~InWork(o, p)
                              /\ f.sector = Find(d, p) /\ f.hdr = FetchFrom(d, f.sector)
    BY <1>1 DEF FdTree
<1>3. OpenedOn(d, f) = [path |-> p, pos |-> f.pos]
    BY <1>2, OpenedIs
<1>4. p # <<>>
    BY <1>2, RootTrusted DEF TreeOK
<1>6. TreeOn(d, o)[p] = Entry(d, p) /\ p \in DOMAIN TreeOn(d, o)
    BY <1>1, <1>2, <1>4, TreeOnIs
<1>7. HasHeaders(d, Find(d, p)) /\ Find(d, p) \in Sector
    BY <1>1, TrustedAt DEF TreeOK, Files
<1>8. FileLength(f.hdr) \in Nat
    BY <1>2, <1>7, FetchedIs, FileLengthIs
<1>9. Entry(d, p).isDir = FALSE /\ Entry(d, p).data = Contents(d, p)
    BY <1>2 DEF Entry
<1>10. Len(Contents(d, p)) = FileLength(f.hdr)
    <2> DEFINE h == f.hdr
               n == FileLength(h)
    <2>1. Contents(d, p) = [i \in 1..n |-> d[ByteToSector(h, i - 1)]]
        BY <1>2 DEF Contents
    <2>2. n \in Nat
        BY <1>8
    <2> HIDE DEF n, h
    <2>3. Len([i \in 1..n |-> d[ByteToSector(h, i - 1)]]) = n
        BY <2>2
    <2> QED BY <2>1, <2>3 DEF n, h
<1> QED BY <1>2, <1>3, <1>4, <1>6, <1>8, <1>9, <1>10 DEF AtPath

\* The position moves on by one.
LEMMA MovesOn ==
    ASSUME FdOK(fd), fd' = [fd EXCEPT !.pos = @ + 1]
    PROVE  /\ fd'.kind = "open" /\ fd'.sector = fd.sector /\ fd'.hdr = fd.hdr
           /\ fd'.pos = fd.pos + 1
    BY DEF FdOK

\* A read.
LEMMA ReadInStore ==
    ASSUME Good, Mapped, op = NoOp, op' = NoOp, disk' = disk, InFile,
           fd' = [fd EXCEPT !.pos = @ + 1]
    PROVE  Store!Next
<1>1. SystemOn(disk) /\ TreeOK(disk, NoOp) /\ FdTree(disk, NoOp, fd) /\ fd.kind = "open"
    BY IdleIs DEF InFile
<1>2. FdOK(fd)
    BY <1>1, NotOpen DEF Good, SystemInv
<1>3. PICK p \in Trusted(disk) : AtPath(TreeOn(disk, op), disk, op, fd, p) /\ opened = [path |-> p, pos |-> fd.pos]
    BY <1>1, NoOpStep, FdEntry DEF Mapped
<1>4. opened' = [path |-> p, pos |-> fd.pos + 1]
    <2>1. p \in Trusted(disk) /\ fd'.kind = "open" /\ fd'.sector = Find(disk, p) /\ fd'.pos = fd.pos + 1
        BY <1>2, <1>3, MovesOn DEF AtPath
    <2>2. OpenedOn(disk, fd') = [path |-> p, pos |-> fd'.pos]
        BY <1>1, <2>1, NoOpStep, OpenedIs
    <2> QED BY <2>1, <2>2 DEF Mapped
<1>5. tree' = tree
    BY NoOpStep, SameDisk
<1>6. p \in DOMAIN tree /\ fd.pos < Len(tree[p].data)
    BY <1>3 DEF Mapped, AtPath, InFile
<1>7. opened # Null /\ opened.path = p /\ opened.pos = fd.pos /\ opened' = [opened EXCEPT !.pos = @ + 1]
    <2>1. DOMAIN opened = {"path", "pos"}
        BY <1>3
    <2>2. DOMAIN Null = {"kind"}
        BY DEF Null
    <2> QED BY <1>3, <1>4, <2>1, <2>2
<1> QED BY <1>5, <1>6, <1>7, StoreReads

-----------------------------------------------------------------------------
(* Data that are written change one place of one file                      *)

\* Two positions of a file are in two sectors.
LEMMA SectorsDiffer ==
    ASSUME NEW hdr, IsFile(hdr), NamesOnce(hdr),
           NEW i \in 0..(FileLength(hdr) - 1), NEW j \in 0..(FileLength(hdr) - 1),
           ByteToSector(hdr, i) = ByteToSector(hdr, j)
    PROVE  i = j
<1> DEFINE k == (i \div NumDirect) + 1
           l == (j \div NumDirect) + 1
           a == (i % NumDirect) + 1
           b == (j % NumDirect) + 1
<1>1. i \in Nat /\ j \in Nat /\ NumDirect \in Nat \ {0}
    BY FileLengthIs, FileHeaderAssumption
<1>2. k \in 1..Len(hdr) /\ a \in 1..Len(hdr[k].data) /\ l \in 1..Len(hdr) /\ b \in 1..Len(hdr[l].data)
    BY PositionIs
<1>3. hdr[k].data[a] = hdr[l].data[b]
    BY DEF ByteToSector
<1>4. k = l /\ a = b
    <2> HIDE DEF k, l, a, b
    <2> QED BY <1>2, <1>3 DEF NamesOnce
<1> DEFINE q == i \div NumDirect
           r == j \div NumDirect
<1>5. q \in Nat /\ r \in Nat /\ i % NumDirect = i - q * NumDirect /\ j % NumDirect = j - r * NumDirect
      /\ i % NumDirect \in Nat /\ j % NumDirect \in Nat
    <2>1. q \in Nat /\ r \in Nat /\ i % NumDirect = i - q * NumDirect /\ j % NumDirect = j - r * NumDirect
        BY <1>1, DivIs
    <2>2. i % NumDirect \in Nat /\ j % NumDirect \in Nat
        <3>1. i % NumDirect \in 0..(NumDirect - 1) /\ j % NumDirect \in 0..(NumDirect - 1)
            BY <1>1
        <3> QED BY <1>1, <3>1
    <2> HIDE DEF q, r
    <2> QED BY <2>1, <2>2
<1>6. q = r /\ i % NumDirect = j % NumDirect
    <2>1. q + 1 = r + 1 /\ (i % NumDirect) + 1 = (j % NumDirect) + 1
        BY <1>4
    <2> HIDE DEF q, r
    <2> QED BY <1>5, <2>1
<1> DEFINE m == q * NumDirect
<1>7. r * NumDirect = m /\ m \in Nat
    BY <1>1, <1>5, <1>6, ProductNat
<1> HIDE DEF q, r, m, k, l, a, b
<1> QED BY <1>1, <1>5, <1>6, <1>7 DEF m

\* The data of a file with these headers.
InFileOf(d, h) == [j \in 1..FileLength(h) |-> d[ByteToSector(h, j - 1)]]
PutAt(c, g, i, b) == g = [c EXCEPT ![i] = b]
PutIn(t, u, p, i, b) == u = [t EXCEPT ![p].data[i] = b]

\* The file that is written has new data in its place.
LEMMA ContentsWritten ==
    ASSUME NEW d, SystemOn(d), NEW e, SystemOn(e), NEW h, IsFile(h), NamesOnce(h),
           NEW i \in 0..(FileLength(h) - 1), NEW b, Wrote(d, e, ByteToSector(h, i), b)
    PROVE  PutAt(InFileOf(d, h), InFileOf(e, h), i + 1, b)
<1> DEFINE n == FileLength(h)
           S(j) == ByteToSector(h, j - 1)
           c == InFileOf(d, h)
           g == InFileOf(e, h)
<1>1. n \in Nat /\ i \in Nat /\ i + 1 \in 1..n /\ \A j \in 1..n : j - 1 \in 0..(n - 1) /\ (j - 1 = i => j = i + 1)
    BY FileLengthIs
<1>2. \A j \in 1..n : S(j) = ByteToSector(h, i) => j = i + 1
    BY <1>1, SectorsDiffer
<1>3. ByteToSector(h, i) \in DOMAIN d
    <2>1. ByteToSector(h, i) \in DataSectors(h) /\ DataSectors(h) \subseteq Sector
        BY ByteToSectorIs, DataSectorsAre
    <2> QED BY <2>1 DEF SystemOn
<1>4. e[ByteToSector(h, i)] = b /\ \A s : s # ByteToSector(h, i) => e[s] = d[s]
    BY <1>3 DEF Wrote
<1>5. S(i + 1) = ByteToSector(h, i)
    <2>1. (i + 1) - 1 = i
        BY <1>1
    <2> QED BY <2>1
<1>6. c = [j \in 1..n |-> d[S(j)]] /\ g = [j \in 1..n |-> e[S(j)]]
    BY DEF InFileOf
<1> HIDE DEF n, S, c, g
<1>7. DOMAIN c = 1..n /\ DOMAIN g = 1..n /\ g = [j \in 1..n |-> g[j]]
    BY <1>6
<1>8. \A j \in 1..n : g[j] = IF j = i + 1 THEN b ELSE c[j]
    BY <1>2, <1>4, <1>5, <1>6
<1>9. g = [c EXCEPT ![i + 1] = b]
    BY <1>1, <1>7, <1>8
<1> QED BY <1>9 DEF c, g, PutAt

\* The tree is as before but for that place.
LEMMA DataInTree ==
    ASSUME NEW d, SystemOn(d), NEW e, SystemOn(e), NEW o, o.step \in {"none", "data"}, TreeOK(d, o),
           NEW n, n.step # "newtable", NEW f, FdOK(f), f.pos < FileLength(f.hdr), FdTree(d, o, f),
           NEW p, AtPath(TreeOn(d, o), d, o, f, p),
           NEW b, Wrote(d, e, ByteToSector(f.hdr, f.pos), b)
    PROVE  PutIn(TreeOn(d, o), TreeOn(e, n), p, f.pos + 1, b)
<1> DEFINE h == f.hdr
           x == ByteToSector(h, f.pos)
<1>1. /\ p \in Trusted(d) /\ p # <<>> /\ ~IsDir(d, p) /\ f.sector = Find(d, p) /\ h = FetchFrom(d, Find(d, p))
      /\ FileLength(h) \in Nat
    BY DEF AtPath
<1>2. Live(d, o) = Trusted(d) /\ Files(d, Trusted(d))
    BY DEF Live, Junk, TreeOK
<1>3. IsFile(h) /\ NamesOnce(h) /\ f.pos \in 0..(FileLength(h) - 1) /\ x \in DataSectors(h)
    <2>1. IsFile(h) /\ NamesOnce(h)
        BY <1>1, <1>2, TrustedAt, FetchedIs DEF Files, Separate
    <2>2. f.pos \in 0..(FileLength(h) - 1)
        BY <1>1 DEF FdOK
    <2> QED BY <2>1, <2>2, ByteToSectorIs
<1>4. SameTree(d, e)
    <2> HIDE DEF x, h
    <2>1. Wrote(d, e, x, b) /\ x \in DataSectors(f.hdr)
        BY <1>3 DEF x, h
    <2> QED BY <2>1, DataKeepsTree
<1>5. Live(e, n) = Trusted(d)
    BY <1>4 DEF Live, Junk, SameTree
<1>6. ASSUME NEW q \in Trusted(d) PROVE /\ Find(e, q) = Find(d, q) /\ IsDir(e, q) = IsDir(d, q)
                                        /\ FetchFrom(e, Find(d, q)) = FetchFrom(d, Find(d, q))
                                        /\ HasHeaders(d, Find(d, q))
                                        /\ DataSectors(FetchFrom(d, Find(d, q))) \subseteq Uses(d, q)
    BY <1>2, <1>4 DEF SameTree, Kept, Files, Uses, SectorsOf
<1>7. ASSUME NEW q \in Trusted(d), q # p PROVE Entry(e, q) = Entry(d, q)
    <2>1. x \notin Uses(d, q)
        BY <1>1, <1>2, <1>3, <1>6, <1>7 DEF Files
    <2>2. SameOn(d, e, DataSectors(FetchFrom(d, Find(d, q))))
        <3> HIDE DEF x
        <3>1. x \notin DataSectors(FetchFrom(d, Find(d, q))) /\ e = [d EXCEPT ![x] = b]
            BY <1>6, <2>1 DEF Wrote, x
        <3> QED BY <3>1 DEF SameOn
    <2> QED BY <1>6, <2>2, EntryKept
<1>8. Contents(e, p) = [Contents(d, p) EXCEPT ![f.pos + 1] = b]
    <2>1. Contents(d, p) = InFileOf(d, h)
        BY <1>1 DEF Contents, InFileOf
    <2>2. FetchFrom(e, Find(e, p)) = h
        BY <1>1, <1>6
    <2>3. Contents(e, p) = InFileOf(e, h)
        BY <2>2 DEF Contents, InFileOf
    <2> HIDE DEF h
    <2>4. Wrote(d, e, ByteToSector(h, f.pos), b)
        BY DEF h
    <2>5. PutAt(InFileOf(d, h), InFileOf(e, h), f.pos + 1, b)
        BY <1>3, <2>4, ContentsWritten
    <2> QED BY <2>1, <2>3, <2>5 DEF PutAt
<1> DEFINE t == TreeOn(d, o)
           u == TreeOn(e, n)
<1>9. /\ t = [q \in Trusted(d) \ {<<>>} |-> Entry(d, q)]
      /\ u = [q \in Trusted(d) \ {<<>>} |-> Entry(e, q)]
    BY <1>2, <1>5, TreeOnIs
<1>10. Entry(e, p) = [Entry(d, p) EXCEPT !.data[f.pos + 1] = b]
    BY <1>1, <1>6, <1>8 DEF Entry
<1> HIDE DEF t, u
<1>11. u = [t EXCEPT ![p] = Entry(e, p)]
    BY <1>1, <1>7, <1>9
<1>12. t[p] = Entry(d, p)
    BY <1>1, <1>9
<1>13. u = [t EXCEPT ![p].data[f.pos + 1] = b]
    BY <1>10, <1>11, <1>12
<1> QED BY <1>13 DEF t, u, PutIn

-----------------------------------------------------------------------------
(* The steps of an idle kernel and of programs, in FileStore               *)

\* A failure, the end of the kernel, and a deleted file that is used.
LEMMA FailsInStore ==
    ASSUME op.step # "newtable", Mapped,
           \/ Fails \/ FailsAndDeletesUninit \/ (Reboot /\ UNCHANGED <<disk, cuts>>) \/ UsesDeleted
           \/ fd' = Null /\ UNCHANGED <<disk, phase, op, cuts>>
    PROVE  Store!Next
<1>1. CASE Fails
    <2>1. disk' = disk /\ op' = op /\ fd' = fd
        BY <1>1 DEF Fails, vars
    <2> QED BY <2>1, NothingWritten
<1>2. CASE Reboot /\ UNCHANGED <<disk, cuts>>
    <2>1. disk' = disk /\ op'.step # "newtable" /\ fd'.kind # "open"
        BY <1>2, NoOpStep, NotOpen DEF Reboot
    <2> QED BY <2>1, NothingWritten
<1>3. CASE UsesDeleted
    BY <1>3, NothingWritten DEF UsesDeleted
<1>4. CASE fd' = Null /\ UNCHANGED <<disk, phase, op, cuts>>
    BY <1>4, NothingWritten, NotOpen
<1> QED BY <1>1, <1>2, <1>3, <1>4 DEF FailsAndDeletesUninit

\* Create, Copy, CreateDirectory and Remove begin.
LEMMA BeginInStore ==
    ASSUME Stays, Mapped, op = NoOp, NEW name, NEW p, NEW size, Begin(name, p, size)
    PROVE  Store!Next
<1>1. \/ TakesGarbage \/ FailsAndDeletesUninit \/ Fails
      \/ op'.step = "header" /\ UNCHANGED <<disk, fd>>
    BY DEF Begin
<1>2. CASE op'.step = "header" /\ UNCHANGED <<disk, fd>>
    BY <1>2, NoOpStep, NothingWritten
<1>3. ~TakesGarbage
    BY DEF Stays, TakesGarbage
<1> QED BY <1>1, <1>2, <1>3, NoOpStep, FailsInStore

\* Remove starts, or fails.
LEMMA RemoveFileInStore ==
    ASSUME Good, Stays, Mapped, NEW p \in Paths, RemoveFile(p)
    PROVE  Store!Next
<1>1. op = NoOp /\ SystemInv
    BY DEF RemoveFile, Idle, Good
<1>2. \/ TakesGarbage \/ FailsAndDeletesUninit \/ (Reboot /\ UNCHANGED <<disk, cuts>>)
      \/ op'.step = "map" /\ UNCHANGED <<disk, fd>>
    <2> DEFINE parent == Find(disk, Front(p))
               sector == TableAt(disk, parent)[Last(p)].sector
               hdr    == FetchFrom(disk, sector)
               map    == Deallocate(FreeMap(disk), hdr) \ {sector}
    <2>1. parent = Find(disk, Front(p)) /\ sector = TableAt(disk, parent)[Last(p)].sector
          /\ hdr = FetchFrom(disk, sector) /\ map = Deallocate(FreeMap(disk), hdr) \ {sector}
        OBVIOUS
    <2> HIDE DEF parent, sector, hdr, map
    <2>2. \/ TakesGarbage \/ FailsAndDeletesUninit \/ (Reboot /\ UNCHANGED <<disk, cuts>>)
          \/ /\ op' = RemoveOp(p, sector, TableAt(disk, parent), map)
             /\ UNCHANGED <<disk, phase, fd, cuts>>
        BY <1>1, <2>1, RemoveIs
    <2> QED BY <2>2, RemoveOpIs
<1>3. CASE op'.step = "map" /\ UNCHANGED <<disk, fd>>
    BY <1>1, <1>3, NoOpStep, NothingWritten
<1>4. ~TakesGarbage
    BY DEF Stays, TakesGarbage
<1> QED BY <1>1, <1>2, <1>3, <1>4, NoOpStep, FailsInStore

\* Opening a file that can be found.
LEMMA OpensInStore ==
    ASSUME Mapped, disk' = disk, SystemOn(disk), TreeOK(disk, op), op.step # "newtable",
           op'.step # "newtable", NEW p \in Paths, p \in Trusted(disk), ~IsDir(disk, p),
           fd' = OpenFile(disk, p)
    PROVE  Store!Next
<1>1. tree' = tree
    BY SameDisk
<1>2. p # <<>>
    BY PathsInAll
<1>3. p \in DOMAIN tree /\ ~tree[p].isDir
    <2>1. Live(disk, op) = Trusted(disk)
        BY DEF Live, Junk
    <2>2. p \in DOMAIN TreeOn(disk, op) /\ TreeOn(disk, op)[p] = Entry(disk, p)
        BY <1>2, <2>1, TreeOnIs
    <2>3. Entry(disk, p).isDir = IsDir(disk, p)
        BY DEF Entry
    <2> QED BY <2>2, <2>3 DEF Mapped
<1>4. fd'.kind = "open" /\ fd'.sector = Find(disk, p) /\ fd'.pos = 0
    BY OpenFileParts DEF OpenFile
<1>5. OpenedOn(disk, fd') = [path |-> p, pos |-> fd'.pos]
    BY <1>4, OpenedIs
<1>6. opened' = [path |-> p, pos |-> 0]
    BY <1>4, <1>5 DEF Mapped
<1> QED BY <1>1, <1>3, <1>6, StoreOpens

\* Open finds the file, or not.
LEMMA OpenInStore ==
    ASSUME Good, Stays, Mapped, op = NoOp, NEW ACTION Opened, NEW p \in Paths, ~Doubted(p), ValidPath(p),
           Open(p, Opened), Opened /\ p \in Trusted(disk) => Store!Next
    PROVE  Store!Next
<1>1. SystemOn(disk) /\ TreeOK(disk, NoOp)
    BY IdleIs
<1>2. Find(disk, p) >= 0 => p \in Trusted(disk)
    BY <1>1, PathGood DEF ValidPath
<1>3. \/ TakesGarbage \/ (Opened /\ Find(disk, p) >= 0)
      \/ fd' = Null /\ UNCHANGED <<disk, phase, op, cuts>>
      \/ Reboot /\ UNCHANGED <<disk, cuts>>
    BY DEF Open
<1>4. ~TakesGarbage
    BY DEF Stays, TakesGarbage
<1> QED BY <1>2, <1>3, <1>4, NoOpStep, FailsInStore

\* Load opens the program, and leaves its OpenFile deleted.
LEMMA LoadInStore ==
    ASSUME Good, Stays, Mapped, NEW p \in Paths, ~Doubted(p), Load(p) PROVE Store!Next
<1> DEFINE Opened == phase' = "user" /\ fd' = Deleted /\ UNCHANGED <<disk, op, cuts>>
<1>1. op = NoOp /\ ValidPath(p) /\ Open(p, Opened)
    BY DEF Load, Idle
<1>2. Opened => Store!Next
    BY <1>1, NoOpStep, NotOpen, NothingWritten
<1> HIDE DEF Opened
<1> QED BY <1>1, <1>2, OpenInStore

\* A program opens a file.
LEMMA SysOpenInStore ==
    ASSUME Good, Stays, Mapped, NEW p \in Paths, ~Doubted(p), SysOpen(p) PROVE Store!Next
<1> DEFINE Opened == fd' = OpenFile(disk, p) /\ UNCHANGED <<disk, phase, op, cuts>>
<1>1. op = NoOp /\ ValidPath(p) /\ Open(p, Opened) /\ ~IsDir(disk, p)
    BY DEF SysOpen, Idle
<1>2. ASSUME Opened, p \in Trusted(disk) PROVE Store!Next
    BY <1>1, <1>2, IdleIs, NoOpStep, OpensInStore
<1> HIDE DEF Opened
<1> QED BY <1>1, <1>2, OpenInStore

\* A program reads.
LEMMA SysReadInStore ==
    ASSUME Good, Mapped, SysRead PROVE Store!Next
<1>1. op = NoOp
    BY DEF SysRead, Idle
<1>2. CASE /\ InFile
           /\ fd' = [fd EXCEPT !.pos = @ + 1]
           /\ UNCHANGED <<disk, phase, op, cuts>>
    BY <1>1, <1>2, ReadInStore
<1> QED BY <1>1, <1>2, NoOpStep, FailsInStore DEF SysRead

\* A program closes.
LEMMA SysCloseInStore ==
    ASSUME Good, Mapped, SysClose PROVE Store!Next
<1>1. op = NoOp
    BY DEF SysClose, Idle
<1> QED BY <1>1, NoOpStep, FailsInStore DEF SysClose

\* A write to the open file.
LEMMA WriteInStore ==
    ASSUME Good, Mapped, op.step \in {"none", "data"}, op' = op, TreeOK(disk, op),
           fd.kind = "open", FdTree(disk, op, fd), fd.pos < FileLength(fd.hdr),
           NEW v \in Values, WriteSector(ByteToSector(fd.hdr, fd.pos), Data(v)),
           fd' = [fd EXCEPT !.pos = @ + 1]
    PROVE  Store!Next
<1> DEFINE d == disk
           e == disk'
           x == ByteToSector(fd.hdr, fd.pos)
           b == Data(v)
<1>1. SystemOn(d) /\ SystemOn(e) /\ FdOK(fd) /\ SystemInv
    BY NotOpen DEF Good, SystemInv
<1>2. Wrote(d, e, x, b) /\ x \in DataSectors(fd.hdr)
    BY <1>1, WrittenAt DEF WriteSector, Wrote
<1>3. PICK p \in Trusted(d) : AtPath(TreeOn(d, op), d, op, fd, p) /\ opened = [path |-> p, pos |-> fd.pos]
    BY <1>1, FdEntry DEF Mapped
<1>4. fd'.kind = "open" /\ fd'.sector = fd.sector /\ fd'.pos = fd.pos + 1
    BY <1>1, MovesOn
<1>5. TreeOK(d, op) /\ FdTree(d, op, fd) /\ tree = TreeOn(d, op) /\ tree' = TreeOn(e, op)
      /\ opened' = OpenedOn(e, fd')
    BY DEF Mapped
<1> HIDE DEF d, e, x, b
<1>6. TreeOK(e, op) /\ SameTree(d, e)
    BY <1>1, <1>2, <1>5, DataKeepsTree
<1>7. tree' = [tree EXCEPT ![p].data[fd.pos + 1] = b]
    <2>1. Wrote(d, e, ByteToSector(fd.hdr, fd.pos), b)
        BY <1>2 DEF x
    <2>2. op.step # "newtable"
        OBVIOUS
    <2>3. PutIn(TreeOn(d, op), TreeOn(e, op), p, fd.pos + 1, b)
        BY <1>1, <1>3, <1>5, <2>1, <2>2, DataInTree
    <2> QED BY <1>5, <2>3 DEF PutIn
<1>8. opened' = [path |-> p, pos |-> fd.pos + 1]
    <2>1. p \in Trusted(e) /\ fd'.sector = Find(e, p)
        BY <1>3, <1>4, <1>6 DEF SameTree, Kept, AtPath
    <2>2. OpenedOn(e, fd') = [path |-> p, pos |-> fd'.pos]
        BY <1>1, <1>4, <1>6, <2>1, OpenedIs
    <2> QED BY <1>4, <1>5, <2>2
<1>9. p \in DOMAIN tree /\ fd.pos < Len(tree[p].data)
    BY <1>3, <1>5 DEF AtPath
<1>10. opened # Null /\ opened.path = p /\ opened.pos = fd.pos /\ opened' = [opened EXCEPT !.pos = @ + 1]
    <2>1. DOMAIN opened = {"path", "pos"}
        BY <1>3
    <2>2. DOMAIN Null = {"kind"}
        BY DEF Null
    <2> QED BY <1>3, <1>8, <2>1, <2>2
<1> QED BY <1>7, <1>9, <1>10, StoreWrites DEF b

\* A program writes.
LEMMA SysWriteInStore ==
    ASSUME Good, Mapped, NEW v \in Values, SysWrite(v) PROVE Store!Next
<1>1. op = NoOp
    BY DEF SysWrite, Idle
<1>2. CASE /\ InFile
           /\ WriteSector(ByteToSector(fd.hdr, fd.pos), Data(v))
           /\ fd' = [fd EXCEPT !.pos = @ + 1]
           /\ UNCHANGED <<phase, op, cuts>>
    <2>1. TreeOK(disk, op) /\ fd.kind = "open" /\ FdTree(disk, op, fd) /\ fd.pos < FileLength(fd.hdr)
          /\ op.step \in {"none", "data"}
        BY <1>1, <1>2, IdleIs, NoOpStep DEF InFile
    <2> QED BY <1>2, <2>1, WriteInStore
<1> QED BY <1>1, <1>2, NoOpStep, FailsInStore DEF SysWrite

\* Copy goes on.
LEMMA CopyOpensInStore ==
    ASSUME Good, Stays, Mapped, CopyOpens PROVE Store!Next
<1>1. op.step = "open" /\ (TakesGarbage \/ (fd' = OpenFile(disk, op.path) /\ Goto("data") /\ disk' = disk))
    BY DEF CopyOpens, At
<1>2. /\ OpOK(op, fd) /\ OpTree(disk, op) /\ op.path \in Paths /\ SystemOn(disk) /\ TreeOK(disk, op)
    BY <1>1, InProgress
<1>3. ~TakesGarbage
    BY DEF Stays, TakesGarbage
<1>4. op'.step = "data"
    BY <1>1, <1>2, <1>3, GoneTo
<1>5. op.path \in Trusted(disk) /\ ~IsDir(disk, op.path)
    BY <1>1, <1>2 DEF OpTree, Creating, Removing, Copying
<1> QED BY <1>1, <1>2, <1>3, <1>4, <1>5, OpensInStore

\* Copy writes it.
LEMMA CopyWritesInStore ==
    ASSUME Good, Mapped, CopyWrites PROVE Store!Next
<1>1. op.step = "data" /\ fd.pos < FileLength(fd.hdr) /\ op' = op /\ fd' = [fd EXCEPT !.pos = @ + 1]
    BY DEF CopyWrites, At
<1>2. OpOK(op, fd) /\ TreeOK(disk, op)
    BY <1>1, InProgress
<1>3. fd.kind = "open"
    BY <1>1, <1>2 DEF OpOK
<1>4. FdTree(disk, op, fd)
    BY <1>3 DEF Good, WholeTree
<1>5. PICK v \in Values : WriteSector(ByteToSector(fd.hdr, fd.pos), Data(v))
    BY DEF CopyWrites
<1> QED BY <1>1, <1>2, <1>3, <1>4, <1>5, WriteInStore

\* Copy ends.
LEMMA CopyEndsInStore ==
    ASSUME Mapped, CopyEnds PROVE Store!Next
<1>1. op.step = "data" /\ op' = NoOp /\ disk' = disk /\ fd' = Deleted
    BY DEF CopyEnds, At
<1> QED BY <1>1, NoOpStep, NotOpen, NothingWritten

-----------------------------------------------------------------------------
(* The writes of an operation, in FileStore                                *)

\* A step of an operation that changes no file.
LEMMA TreeStays ==
    ASSUME Good, Stays, Mapped, op.step \notin {"none", "newtable"}, op'.step # "newtable",
           fd' = fd, phase' = phase, TreeKept(disk, disk'),
           \A p \in Trusted(disk) : SameOn(disk, disk', Uses(disk, p))
    PROVE  Store!Next
<1> DEFINE d == disk
           e == disk'
           n == op'
<1>1. SystemOn(d) /\ SystemOn(e) /\ TreeOK(d, op)
    BY InProgress
<1>2. TreeOK(e, n)
    BY DEF Stays, WholeTree, Good, Running
<1>3. fd.kind = "open" => FdTree(d, op, fd)
    BY DEF Good, WholeTree
<1>4. \A p \in Trusted(d) : SameOn(d, e, Uses(d, p))
    OBVIOUS
<1>5. TreeKept(d, e) /\ op.step # "newtable" /\ n.step # "newtable"
    OBVIOUS
<1>6. tree = TreeOn(d, op) /\ tree' = TreeOn(e, n) /\ opened = OpenedOn(d, fd) /\ opened' = OpenedOn(e, fd)
    BY DEF Mapped
<1> HIDE DEF d, e, n
<1>7. SameTree(d, e)
    BY <1>1, <1>5, TreeIsSame
<1>8. SameFiles(d, e, Trusted(d)) /\ Live(d, op) = Trusted(d) /\ Live(e, n) = Trusted(d)
    BY <1>5, <1>7 DEF SameTree, Kept, SameFiles, Live, Junk
<1>9. \A p \in Trusted(d) : Entry(e, p) = Entry(d, p)
    BY <1>1, <1>4, <1>8, EntriesKept
<1>10. TreeOn(e, n) = TreeOn(d, op)
    BY <1>8, <1>9, TreeOnIs
<1>11. \A p \in Trusted(d) : p \in Trusted(e) /\ Find(e, p) = Find(d, p)
    BY <1>7 DEF SameTree, Kept
<1>12. OpenedOn(e, fd) = OpenedOn(d, fd)
    BY <1>1, <1>2, <1>3, <1>5, <1>11, OpenedKept
<1> QED BY <1>6, <1>10, <1>12, StoreStays

\* A header goes to a sector that nothing uses.
LEMMA WriteHeaderInStore ==
    ASSUME Good, Stays, Mapped, WriteHeader PROVE Store!Next
<1> DEFINE x == HeaderSectors(op.sector, op.hdr)[op.k]
           b == Header(op.hdr[op.k])
<1>1. op.step = "header" /\ disk' = [disk EXCEPT ![x] = b] /\ phase' = phase /\ fd' = fd
    BY DEF WriteHeader, At, WriteSector
<1>2. OpOK(op, fd) /\ SystemOn(disk) /\ SystemOn(disk') /\ TreeOK(disk, op)
    BY <1>1, InProgress
<1>3. op'.step \in {"header", "table"}
    <2>1. op' = [op EXCEPT !.k = @ + 1] \/ Goto("table")
        BY DEF WriteHeader
    <2> QED BY <1>1, <1>2, <2>1, Counted, GoneTo
<1>4. \A p \in Trusted(disk) : x \notin Uses(disk, p)
    BY HeaderPlace
<1>5. TreeKept(disk, disk')
    <2> DEFINE d == disk
               e == disk'
    <2>1. e = [d EXCEPT ![x] = b] /\ SystemOn(d) /\ SystemOn(e) /\ TreeOK(d, op) /\ op.step # "newtable"
          /\ \A p \in Trusted(d) : x \notin Uses(d, p)
        BY <1>1, <1>2, <1>4
    <2> HIDE DEF d, e, x, b
    <2>2. TreeKept(d, e)
        BY <2>1, WriteUnused
    <2> QED BY <2>2 DEF d, e
<1>6. \A p \in Trusted(disk) : SameOn(disk, disk', Uses(disk, p))
    <2> HIDE DEF x, b
    <2> QED BY <1>1, <1>4 DEF SameOn
<1> QED BY <1>1, <1>3, <1>5, <1>6, TreeStays

\* The map says nothing of names and data.
LEMMA WriteMapInStore ==
    ASSUME Good, Stays, Mapped, WriteMap PROVE Store!Next
<1>1. op.step = "map" /\ phase' = phase /\ fd' = fd /\ op'.step \in {"map", "table", "open", "none"}
    BY WriteMapIs, NoOpStep
<1>2. TreeKept(disk, disk') /\ \A p \in Trusted(disk) : SameOn(disk, disk', Uses(disk, p))
    BY MapGoes
<1> QED BY <1>1, <1>2, TreeStays

\* A table is written to a sector of the directory alone.
LEMMA TablePlace ==
    ASSUME NEW d, SystemOn(d), NEW o, o.step = "table", TreeOK(d, o),
           NEW q, Front(q) \in Trusted(d), IsDir(d, Front(q)), NEW t, NEW e, TableGoes(d, e, q, t)
    PROVE  \A p \in Trusted(d) : ~IsDir(d, p) => SameOn(d, e, Uses(d, p))
<1> DEFINE f == Front(q)
           s == Find(d, f)
           x == TableSector(d, s)
           b == Table(t)
<1>1. Live(d, o) = Trusted(d) /\ Files(d, Trusted(d))
    BY DEF Live, Junk, TreeOK
<1>2. HasHeaders(d, s) /\ IsDirectory(d, s) /\ s \in Sector
    BY <1>1, TrustedAt DEF TreeOK, Files
<1>3. d[s].hdr.data # <<>>
    BY <1>2 DEF IsDirectory, DirBlock, NotATable
<1>4. x \in Uses(d, f)
    BY <1>2, <1>3, TableIn DEF TableSector, Uses, SectorsOf
<1>5. e = [d EXCEPT ![x] = b]
    BY DEF TableGoes, Wrote
<1> HIDE DEF x, b
<1> TAKE p \in Trusted(d)
<1>6. ~IsDir(d, p) => x \notin Uses(d, p)
    BY <1>1, <1>4 DEF Files
<1> QED BY <1>5, <1>6 DEF SameOn

-----------------------------------------------------------------------------
(* A name comes and goes                                                   *)

\* Steps of FileStore that add or remove a name.
LEMMA StoreChanges ==
    ASSUME NEW p \in Paths, opened' = opened \/ opened' = Null,
           Store!Created(tree, tree', p) \/ Store!Deleted(tree, tree', p)
    PROVE  Store!Next
    BY DEF Store!Next, Store!Stays

\* The table with the new name is written.
LEMMA NamedInStore ==
    ASSUME NEW d, SystemOn(d), NEW o, o.step = "table", o.path \in Paths, TreeOK(d, o), Creating(d, o),
           NEW e, TableGoes(d, e, o.path, o.table), SystemOn(e),
           NEW n, SameFile(o, n), n.step = IF o.name = "mkdir" THEN "newtable" ELSE "map", n.k = 1
    PROVE  Store!Created(TreeOn(d, o), TreeOn(e, n), o.path)
<1> DEFINE q == o.path
           f == Front(q)
           t == TreeOn(d, o)
           u == TreeOn(e, n)
<1>1. /\ Live(e, n) = Trusted(d) \cup {q} /\ q \notin Trusted(d) /\ SameFiles(d, e, Trusted(d))
    BY NamedTree
<1>2. Live(d, o) = Trusted(d)
    BY DEF Live, Junk
<1>3. f \in Trusted(d) /\ IsDir(d, f)
    BY DEF Creating, ToBeNamed
<1>4. \A p \in Trusted(d) : ~IsDir(d, p) => SameOn(d, e, Uses(d, p))
    BY <1>3, TablePlace
<1>5. \A p \in Trusted(d) : Entry(e, p) = Entry(d, p)
    BY <1>1, <1>2, <1>4, EntriesKept
<1>6. q # <<>>
    BY PathsInAll
<1>7. /\ t = [p \in Trusted(d) \ {<<>>} |-> Entry(d, p)]
      /\ u = [p \in (Trusted(d) \cup {q}) \ {<<>>} |-> Entry(e, p)]
    BY <1>1, <1>2, TreeOnIs
<1>8. Entry(d, f).isDir = IsDir(d, f)
    BY DEF Entry
<1> HIDE DEF t, u, q, f
<1>9. DOMAIN t = Trusted(d) \ {<<>>} /\ DOMAIN u = DOMAIN t \cup {q} /\ q \notin DOMAIN t
    BY <1>1, <1>6, <1>7
<1>10. \A p \in DOMAIN t : u[p] = t[p]
    BY <1>5, <1>7, <1>9
<1>11. f = <<>> \/ (f \in DOMAIN t /\ t[f].isDir)
    BY <1>3, <1>7, <1>8
<1>12. f = Store!Front(q)
    BY DEF f, Front, Store!Front
<1>13. Store!Created(t, u, q)
    BY <1>9, <1>10, <1>11, <1>12 DEF Store!Created
<1> QED BY <1>13 DEF t, u, q

\* The table without the name is written.
LEMMA RemovedInStore ==
    ASSUME NEW d, SystemOn(d), NEW o, o.step = "table", o.path \in Paths, TreeOK(d, o), Removing(d, o),
           NEW e, TableGoes(d, e, o.path, o.table), SystemOn(e)
    PROVE  Store!Deleted(TreeOn(d, o), TreeOn(e, NoOp), o.path)
<1> DEFINE q == o.path
           t == TreeOn(d, o)
           u == TreeOn(e, NoOp)
           L == Trusted(d) \cap Beside(q)
<1>1. Live(e, NoOp) = L /\ SameFiles(d, e, L)
    BY RemovedTree
<1>2. Live(d, o) = Trusted(d)
    BY DEF Live, Junk
<1>3. q \in Trusted(d) /\ q # <<>> /\ q \in AllPaths
    BY PathsInAll DEF Removing
<1>4. Front(q) \in Trusted(d) /\ IsDir(d, Front(q))
    BY <1>3, TrustedIs
<1>5. \A p \in L : ~IsDir(d, p) => SameOn(d, e, Uses(d, p))
    BY <1>4, TablePlace
<1>6. \A p \in L : Entry(e, p) = Entry(d, p)
    <2>1. L \subseteq Live(d, o)
        BY <1>2
    <2> HIDE DEF L
    <2> QED BY <1>1, <1>5, <2>1, EntriesKept
<1>7. t = [p \in Trusted(d) \ {<<>>} |-> Entry(d, p)] /\ u = [p \in L \ {<<>>} |-> Entry(e, p)]
    BY <1>1, <1>2, TreeOnIs
<1>8. \A p \in Trusted(d) : p \in L <=> ~IsPrefix(q, p)
    BY DEF Beside, Trusted, Found
<1>9. L \subseteq Trusted(d)
    OBVIOUS
<1> HIDE DEF t, u, q, L
<1>10. DOMAIN t = Trusted(d) \ {<<>>} /\ q \in DOMAIN t /\ \A p \in DOMAIN t : t[p] = Entry(d, p)
    BY <1>3, <1>7
<1>11. {p \in DOMAIN t : ~IsPrefix(q, p)} = L \ {<<>>}
    BY <1>8, <1>9, <1>10
<1>12. [p \in L \ {<<>>} |-> Entry(e, p)] = [p \in L \ {<<>>} |-> t[p]]
    BY <1>6, <1>9, <1>10
<1>13. u = [p \in {p \in DOMAIN t : ~IsPrefix(q, p)} |-> t[p]]
    BY <1>7, <1>11, <1>12
<1>14. u = [p \in {p \in DOMAIN t : ~Store!IsPrefix(q, p)} |-> t[p]]
    BY <1>13 DEF IsPrefix, Store!IsPrefix
<1>15. Store!Deleted(t, u, q)
    BY <1>10, <1>14 DEF Store!Deleted
<1> QED BY <1>15 DEF t, u, q

\* The write of a directory's table is where a name comes or goes.
LEMMA WriteTableInStore ==
    ASSUME UninitIsRoot, Good, Stays, Mapped, WriteTable PROVE Store!Next
<1> DEFINE d == disk
           e == disk'
           n == op'
<1>1. op.step = "table" /\ UNCHANGED <<phase, fd>> /\ AfterTable /\ TableGoes(d, e, op.path, op.table)
    BY WriteTableIs
<1>2. /\ op # NoOp /\ OpOK(op, fd) /\ op.path \in Paths /\ SystemOn(d) /\ SystemOn(e)
      /\ TreeOK(d, op) /\ phase = Phase(op) /\ (Creating(d, op) \/ Removing(d, op))
    BY <1>1, TablePath
<1>3. fd.kind = "open" => phase = "user" /\ FdTree(d, op, fd)
    BY <1>1 DEF Good, WholeTree
<1>4. tree = TreeOn(d, op) /\ tree' = TreeOn(e, n) /\ opened = OpenedOn(d, fd) /\ opened' = OpenedOn(e, fd)
    BY <1>1 DEF Mapped
<1>5. CASE Removing(d, op)
    <2>1. op.name = "remove"
        BY <1>5 DEF Removing
    <2>2. n = NoOp
        BY <1>1, <2>1 DEF AfterTable
    <2>3. fd.kind # "open"
        BY <1>2, <1>3, <2>1 DEF Phase
    <2>4. opened' = Null
        BY <1>4, <2>3 DEF OpenedOn
    <2> HIDE DEF d, e, n
    <2>5. Store!Deleted(tree, tree', op.path)
        BY <1>1, <1>2, <1>4, <1>5, <2>2, RemovedInStore
    <2> QED BY <1>2, <2>4, <2>5, StoreChanges
<1>6. CASE Creating(d, op)
    <2>1. op.name \in {"create", "copy", "mkdir"}
        BY <1>6 DEF Creating
    <2>2. Goto(IF op.name = "mkdir" THEN "newtable" ELSE "map")
        BY <1>1, <2>1 DEF AfterTable
    <2>3. n.step = (IF op.name = "mkdir" THEN "newtable" ELSE "map") /\ n.k = 1 /\ SameFile(op, n)
        BY <1>2, <2>2, GoneTo
    <2>4. TreeOK(e, n)
        BY <1>1 DEF Stays, WholeTree, Good, Running
    <2>5. fd.kind = "open" => n.step # "newtable"
        BY <1>2, <1>3, <2>3 DEF Phase
    <2> HIDE DEF d, e, n
    <2>6. Store!Created(tree, tree', op.path)
        BY <1>1, <1>2, <1>4, <1>6, <2>3, NamedInStore
    <2>7. /\ Live(e, n) = Trusted(d) \cup {op.path} /\ SameFiles(d, e, Trusted(d))
        BY <1>1, <1>2, <1>6, <2>3, NamedTree
    <2>8. \A p \in Trusted(d) : p \in Trusted(e) /\ Find(e, p) = Find(d, p)
        BY <2>7 DEF Live, SameFiles
    <2>9. OpenedOn(e, fd) = OpenedOn(d, fd)
        BY <1>1, <1>2, <1>3, <2>4, <2>5, <2>8, OpenedKept
    <2> QED BY <1>2, <1>4, <2>6, <2>9, StoreChanges
<1> QED BY <1>2, <1>5, <1>6

\* A new directory's table: it was empty before, too.
LEMMA NewTableInStore ==
    ASSUME NEW d, SystemOn(d), NEW o, o.step = "newtable", o.path \in Paths, TreeOK(d, o), Creating(d, o),
           NEW e, Wrote(d, e, ByteToSector(o.hdr, 0), Table(EmptyTable)), SystemOn(e),
           NEW n, SameFile(o, n), n.step = "map", n.k = 1
    PROVE  TreeOn(e, n) = TreeOn(d, o)
<1> DEFINE L == Live(d, o)
<1>1. Live(e, n) = L /\ SameFiles(d, e, L) /\ \A p \in L : p # o.path => SameOn(d, e, Uses(d, p))
    BY NewTableGoes
<1>2. IsDir(d, o.path)
    BY DEF Creating, Named
<1> HIDE DEF L
<1>3. \A p \in L : ~IsDir(d, p) => SameOn(d, e, Uses(d, p))
    BY <1>1, <1>2
<1>4. \A p \in L : Entry(e, p) = Entry(d, p)
    BY <1>1, <1>3, EntriesKept DEF L
<1>5. [p \in L \ {<<>>} |-> Entry(e, p)] = [p \in L \ {<<>>} |-> Entry(d, p)]
    BY <1>4
<1> QED BY <1>1, <1>5, TreeOnIs DEF L

\* The empty table of a new directory changes no file.
LEMMA WriteNewTableInStore ==
    ASSUME Good, Stays, Mapped, WriteNewTable PROVE Store!Next
<1> DEFINE d == disk
           e == disk'
           n == op'
<1>1. op.step = "newtable"
    BY DEF WriteNewTable, At
<1>2. /\ OpOK(op, fd) /\ OpTree(d, op) /\ phase = Phase(op) /\ op.path \in Paths
      /\ SystemOn(d) /\ SystemOn(e) /\ TreeOK(d, op)
    BY <1>1, InProgress
<1>3. Creating(d, op)
    BY <1>1, <1>2 DEF OpTree, Removing, Copying
<1>4. NewFile(op) /\ op.name = "mkdir" /\ HeadersWritten(d, op, Len(op.hdr))
    BY <1>1, <1>3 DEF Creating
<1>5. FetchFrom(d, op.sector) = op.hdr
    BY <1>2, <1>4, NewFileFetched
<1>6. ~TakesGarbage
    BY DEF Stays, TakesGarbage
<1>7. Wrote(d, e, ByteToSector(op.hdr, 0), Table(EmptyTable)) /\ Goto("map") /\ UNCHANGED <<phase, fd, cuts>>
    BY <1>5, <1>6 DEF WriteNewTable, WriteSector, Wrote
<1>8. n.step = "map" /\ n.k = 1 /\ SameFile(op, n)
    BY <1>2, <1>7, GoneTo
<1>9. fd.kind # "open"
    BY <1>1, <1>2, <1>4 DEF Good, WholeTree, Phase
<1>10. opened' = Null
    BY <1>7, <1>9 DEF Mapped, OpenedOn
<1>11. tree = TreeOn(d, op) /\ tree' = TreeOn(e, n)
    BY DEF Mapped
<1> HIDE DEF d, e, n
<1>12. TreeOn(e, n) = TreeOn(d, op)
    BY <1>1, <1>2, <1>3, <1>7, <1>8, NewTableInStore
<1> QED BY <1>10, <1>11, <1>12, StoreStays

-----------------------------------------------------------------------------
(* Every step, in FileStore                                                *)

\* The operations that Begin starts.
LEMMA BeginsInStore ==
    ASSUME Stays, Mapped, NEW p \in Paths,
           (\E n \in Sizes : Create(p, n) \/ Copy(p, n)) \/ CreateDirectory(p)
    PROVE  Store!Next
<1>1. ASSUME NEW n, Create(p, n) \/ Copy(p, n) PROVE Store!Next
    BY <1>1, BeginInStore DEF Create, Copy, Idle
<1>2. CASE CreateDirectory(p)
    BY <1>2, BeginInStore DEF CreateDirectory, Idle
<1> QED BY <1>1, <1>2

\* Every step is one of FileStore, or changes nothing there.
LEMMA NextInStore ==
    ASSUME UninitIsRoot, Good, Stays, Mapped, Steps PROVE Store!Next
<1>1. ASSUME NEW p \in Paths, ~Doubted(p), Call(p) PROVE Store!Next
    BY <1>1, BeginsInStore, RemoveFileInStore, LoadInStore, SysOpenInStore DEF Call
<1>2. CASE WriteHeader \/ WriteTable \/ WriteNewTable \/ WriteMap
    BY <1>2, WriteHeaderInStore, WriteTableInStore, WriteNewTableInStore, WriteMapInStore
<1>3. CASE CopyOpens \/ CopyWrites \/ CopyEnds
    BY <1>3, CopyOpensInStore, CopyWritesInStore, CopyEndsInStore
<1>4. CASE SysRead \/ (\E v \in Values : SysWrite(v)) \/ SysClose
    BY <1>4, SysReadInStore, SysWriteInStore, SysCloseInStore
<1>5. CASE Halt
    BY <1>5, NoOpStep, FailsInStore DEF Halt, Idle
<1>6. ~Cut
    <2>1. cuts \in Nat
        BY FileSystemAssumption DEF Good, SystemInv
    <2> QED BY <2>1 DEF Cut, Good
<1> QED BY <1>1, <1>2, <1>3, <1>4, <1>5, <1>6 DEF Steps, Continue

\* With the same names in doubt, the next state has what its disk has now.
LEMMA NextMapped ==
    ASSUME NEW d, disk' = d, NEW o, op' = o, NEW f, fd' = f, doubtful' = doubtful
    PROVE  TreeOn(disk, op)' = TreeOn(d, o) /\ OpenedOn(disk, fd)' = OpenedOn(d, f)
<1>1. ASSUME NEW e PROVE Trusted(e)' = Trusted(e)
    BY DEF Trusted, Doubted
<1>2. TreeOn(disk, op)' = TreeOn(d, o)
    BY <1>1 DEF TreeOn, Contents
<1>3. OpenedOn(disk, fd)' = OpenedOn(d, f)
    BY <1>1 DEF OpenedOn
<1> QED BY <1>2, <1>3

\* A cut takes the one file that it leaves in doubt, or none.
LEMMA CutInStore ==
    ASSUME SystemInv, Running, WholeTree(disk, op, fd, phase), WasCut,
           doubtful' = doubtful \cup Left, tree = TreeOn(disk, op),
           tree' = TreeOn(disk, op)', opened' = OpenedOn(disk, fd)'
    PROVE  Store!Next
<1> DEFINE d == disk
           q == op.path
           L == {p \in Trusted(d) : Prefixes(p) \cap Left = {}}
<1>1. op # NoOp /\ disk' = d /\ op' = NoOp /\ fd' = Null
    BY DEF WasCut, Reboot
<1>2. /\ q \in Paths /\ Left \subseteq {q} /\ Left \subseteq Live(d, op)
      /\ \A p \in L : ~Junk(op, p)
      /\ \A p \in Trusted(d) : Left # {} => (Prefixes(p) \cap Left = {} <=> ~IsPrefix(q, p))
    BY <1>1, LeftIs
<1>3. opened' = Null
    <2>1. OpenedOn(disk, fd)' = Null
        BY <1>1, NotOpen DEF OpenedOn
    <2> QED BY <2>1
<1>4. Trusted(disk)' = L
    BY <1>1 DEF Trusted, Doubted
<1>5. tree' = [p \in L \ {<<>>} |-> Entry(d, p)]
    <2>1. TreeOn(disk, op)' = [p \in L \ {<<>>} |-> Entry(d, p)]
        BY <1>1, <1>4, NoOpStep DEF TreeOn, Entry, Contents
    <2> QED BY <2>1
<1>6. tree = [p \in Live(d, op) \ {<<>>} |-> Entry(d, p)]
    BY TreeOnIs
<1>7. CASE Left = {}
    <2>1. L = Live(d, op)
        BY <1>2, <1>7 DEF Live
    <2>2. tree' = tree
        BY <1>5, <1>6, <2>1
    <2> QED BY <1>3, <2>2, StoreStays
<1>8. CASE Left # {}
    <2>1. q \in Live(d, op) /\ q # <<>>
        BY <1>2, <1>8, PathsInAll
    <2>2. \A p : p \in L <=> p \in Live(d, op) /\ ~IsPrefix(q, p)
        BY <1>2, <1>8 DEF Live
    <2> HIDE DEF L, d, q
    <2>3. DOMAIN tree = Live(d, op) \ {<<>>} /\ \A p \in DOMAIN tree : tree[p] = Entry(d, p)
        BY <1>6
    <2>4. L \ {<<>>} = {p \in DOMAIN tree : ~IsPrefix(q, p)}
        BY <2>2, <2>3
    <2>5. tree' = [p \in {p \in DOMAIN tree : ~IsPrefix(q, p)} |-> tree[p]]
        BY <1>5, <2>3, <2>4
    <2>6. tree' = [p \in {p \in DOMAIN tree : ~Store!IsPrefix(q, p)} |-> tree[p]]
        BY <2>5 DEF IsPrefix, Store!IsPrefix
    <2>7. Store!Deleted(tree, tree', q)
        BY <2>1, <2>3, <2>6 DEF Store!Deleted
    <2> QED BY <1>2, <1>3, <2>7, StoreChanges DEF q
<1> QED BY <1>7, <1>8

\* A formatted disk has no files.
LEMMA InitInStore ==
    ASSUME StoreInit PROVE Store!Init
<1>1. Init /\ doubtful = {} /\ tree = TreeOn(disk, op) /\ opened = OpenedOn(disk, fd) /\ fd = Null
    BY DEF StoreInit, Init
<1>2. opened = Null
    BY <1>1, NotOpen DEF OpenedOn
<1>3. Live(disk, op) \subseteq {<<>>}
    BY <1>1, FoundAtFirst DEF Live
<1>4. Live(disk, op) \ {<<>>} = {}
    BY <1>3
<1>5. tree = [p \in {} |-> Entry(disk, p)]
    BY <1>1, <1>4, TreeOnIs
<1>6. tree = <<>>
    BY <1>5
<1> QED BY <1>2, <1>6 DEF Store!Init

\* What the refinement rests on.
StoreInv == TreeInv /\ tree = TreeOn(disk, op) /\ opened = OpenedOn(disk, fd)

\* So is every step of StoreSpec.
LEMMA StoreStep ==
    ASSUME UninitIsRoot, StoreInv, [StoreNext]_<<vars, doubtful, tree, opened>>
    PROVE  StoreInv' /\ [Store!Next]_Store!vars
<1>1. TreeInv /\ TreeInv' /\ SystemInv /\ SystemInv'
    BY NextTree DEF StoreInv, TreeInv
<1>2. CASE UNCHANGED <<vars, doubtful, tree, opened>>
    <2>1. disk' = disk /\ op' = op /\ fd' = fd /\ doubtful' = doubtful /\ tree' = tree /\ opened' = opened
        BY <1>2 DEF vars
    <2>2. TreeOn(disk, op)' = TreeOn(disk, op) /\ OpenedOn(disk, fd)' = OpenedOn(disk, fd)
        BY <2>1, NextMapped
    <2> QED BY <1>1, <2>1, <2>2 DEF StoreInv, Store!vars
<1>3. CASE StoreNext
    <2>1. /\ Steps /\ doubtful' = IF cuts' = cuts THEN doubtful ELSE doubtful \cup Left
          /\ tree' = TreeOn(disk, op)' /\ opened' = OpenedOn(disk, fd)'
          /\ tree = TreeOn(disk, op) /\ opened = OpenedOn(disk, fd)
        BY <1>3 DEF StoreNext, Steps, StoreInv
    <2>2. Running /\ (cuts' = cuts \/ WasCut)
        BY <2>1, CutsGrow DEF Steps, Next
    <2>3. WholeTree(disk, op, fd, phase)
        BY <1>1, <2>2 DEF TreeInv
    <2>4. StoreInv'
        BY <1>1, <2>1 DEF StoreInv
    <2>5. CASE cuts' = cuts
        <3>1. Good
            BY <1>1, <2>2, <2>3, <2>5 DEF Good
        <3>2. Stays
            BY <2>1, <3>1, NextStays
        <3>3. TreeOn(disk, op)' = TreeOn(disk', op') /\ OpenedOn(disk, fd)' = OpenedOn(disk', fd')
            BY <2>1, <2>5, NextMapped
        <3>4. Mapped
            BY <2>1, <3>3 DEF Mapped
        <3> QED BY <2>1, <2>4, <3>1, <3>2, <3>4, NextInStore
    <2>6. CASE cuts' # cuts
        <3>1. WasCut /\ doubtful' = doubtful \cup Left
            BY <2>1, <2>2, <2>6
        <3> QED BY <1>1, <2>1, <2>2, <2>3, <2>4, <3>1, CutInStore
    <2> QED BY <2>5, <2>6
<1> QED BY <1>2, <1>3

\* What is on the disk is what FileStore promises, step for step
\* (ImplementsStore), however often operations are cut off: a name comes and goes
\* with the one write of its directory's table and takes what is below it along,
\* a file keeps its data, a write changes the one place it is for, and a cut
\* costs at most the file it was about (Create, Remove and WriteAt through
\* ByteToSector).  For every disk, set of paths, size and number of entries,
\* while no name in doubt is used; Remove's directory variable, which nothing
\* sets, is the root's sector or none.
THEOREM FilesAreStored ==
    ASSUME UninitIsRoot PROVE StoreSpec => ImplementsStore
<1>1. StoreInit => StoreInv /\ Store!Init
    BY InitTree, InitInStore DEF StoreInit, StoreInv
<1>2. UninitIsRoot /\ StoreInv /\ [StoreNext]_<<vars, doubtful, tree, opened>>
      => StoreInv' /\ [Store!Next]_Store!vars
    BY StoreStep
<1> QED BY <1>1, <1>2, PTL DEF StoreSpec, ImplementsStore, Store!Spec
===============================================================================
