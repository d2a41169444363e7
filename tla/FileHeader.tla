------------------------------ MODULE FileHeader ------------------------------
(***************************************************************************)
(* filesys/filehdr.cc and lib/bitmap.cc (MP4): the headers of a file and   *)
(* the allocation of its sectors.  A header takes one sector and names up  *)
(* to NumDirect data sectors; a longer file continues in a further header. *)
(* In memory a file's headers are a sequence.  A map of the disk is the    *)
(* set of its marked sectors.  Sizes and positions are in sectors.         *)
(***************************************************************************)
EXTENDS Integers, FiniteSets, SequencesExt

CONSTANTS
    NumSectors,     \* sectors of the disk
    NumDirect       \* data sectors of one header

ASSUME FileHeaderAssumption == NumSectors \in Nat \ {0} /\ NumDirect \in Nat \ {0}

Sector == 0..(NumSectors - 1)
NoSector == -1
IsSector(s) == s \in Sector

\* The sectors FindAndSet returns, call after call: the i-th has i - 1 clear
\* ones below it.
Clear(map) ==
    LET clear == Sector \ map
    IN  [i \in 1..Cardinality(clear) |->
            CHOOSE s \in clear : Cardinality({t \in clear : t < s}) = i - 1]

\* Mutant: a file that fills its headers gets one more.
NumHeadersOneMore(size) == (size \div NumDirect) + 1

\* The header of a file of no sectors continues nowhere either.
NumHeaders(size) == IF size = 0 THEN 1 ELSE (size + NumDirect - 1) \div NumDirect

\* Mutant: the sectors of further headers are found and not marked.
AllocateDataOnly(map, size) ==
    LET n == NumHeaders(size)
        clear == Clear(map)
    IN  IF size > Len(clear)
        THEN [ok |-> FALSE, map |-> map, hdr |-> <<>>]
        ELSE [ok  |-> TRUE,
              map |-> map \cup {clear[i] : i \in 1..size},
              hdr |-> [k \in 1..n |->
                        [next |-> IF k < n /\ size < Len(clear) THEN clear[size + 1] ELSE NoSector,
                         data |-> SubSeq(clear, (k - 1) * NumDirect + 1,
                                         IF k < n THEN k * NumDirect ELSE size)]]]

\* What Allocate sets: the data sectors of a header, then the next header, and
\* so on.  The first header's sector is the caller's.
Allocate(map, size) ==
    LET clear    == Clear(map)
        n        == NumHeaders(size)
        taken    == size + n - 1
        after(k) == (k - 1) * (NumDirect + 1)
        last(k)  == IF k < n THEN after(k) + NumDirect ELSE taken
    IN  IF taken > Len(clear)
        THEN [ok |-> FALSE, map |-> map, hdr |-> <<>>]
        ELSE [ok  |-> TRUE,
              map |-> map \cup {clear[i] : i \in 1..taken},
              hdr |-> [k \in 1..n |->
                        [next |-> IF k < n THEN clear[last(k) + 1] ELSE NoSector,
                         data |-> SubSeq(clear, after(k) + 1, last(k))]]]

\* The data sectors of a file.
DataSectors(hdr) == UNION {ToSet(hdr[k].data) : k \in DOMAIN hdr}

FileLength(hdr) ==
    LET length[k \in 0..Len(hdr)] ==
            IF k = 0 THEN 0 ELSE length[k - 1] + Len(hdr[k].data)
    IN  length[Len(hdr)]

\* Position i counts from 0.  Every header but the last is full.
ByteToSector(hdr, i) == hdr[(i \div NumDirect) + 1].data[(i % NumDirect) + 1]

\* The sectors of the headers, when the first is at s.
HeaderSectors(s, hdr) ==
    [k \in 1..Len(hdr) |-> IF k = 1 THEN s ELSE hdr[k - 1].next]

\* Deallocate asserts that the data sectors are marked, and clears them.
CanDeallocate(map, hdr) == DataSectors(hdr) \subseteq map
Deallocate(map, hdr) == map \ DataSectors(hdr)
===============================================================================
