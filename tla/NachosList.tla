----------------------------- MODULE NachosList -----------------------------
(***************************************************************************)
(* The singly linked lists of lib/list.cc as sequences.  SortedList takes  *)
(* a comparison function; here it is a key, smaller keys first, so that    *)
(* compare(x, y) < 0 is key[x] < key[y].                                   *)
(*                                                                         *)
(* An operation that walks the list is the set of the lists it can return. *)
(* Each set has one member (SortIsInsertion in MCScheduler checks that of   *)
(* the sort), and the caller picks it with \E: nothing has to be proved    *)
(* about a CHOOSE or a recursion before the result can be used.            *)
(***************************************************************************)
EXTENDS Integers, Sequences, SequencesExt, Functions

\* IsInList: some element of the list holds the item.
IsInList(s, t) == \E i \in DOMAIN s : s[i] = t

\* Mutant: the new element is put first and its next field stays NULL.
InsertedUnlinked(s, t, key) == {<<t>>}

\* SortedList::Insert: in front of the first element with a larger key,
\* behind every element with the same one.
Inserted(s, t, key) ==
    { InsertAt(s, k, t) : k \in
        { k \in 1..(Len(s) + 1) :
            /\ \A j \in 1..(k - 1) : key[s[j]] <= key[t]
            /\ k <= Len(s) => key[t] < key[s[k]] } }

\* Mutant: the element stays linked.
RemovedNot(s, t) == {s}

\* List::Remove of an item the list holds.
Removed(s, t) == { RemoveAt(s, i) : i \in { i \in 1..Len(s) : s[i] = t } }

\* The elements of s in another order.
Rearranged(s, p) == [ i \in DOMAIN s |-> s[p[i]] ]

\* Mutant: elements with equal keys in any order.
UnstableSorts(s, key) ==
    { Rearranged(s, p) : p \in
        { p \in Bijection(DOMAIN s, DOMAIN s) :
            \A i, j \in DOMAIN s : i < j => key[s[p[i]]] <= key[s[p[j]]] } }

\* Inserting the elements of s, one after the other, in an empty SortedList:
\* sorted by the key, and in the order of s where the keys are equal.
StableSorts(s, key) ==
    { Rearranged(s, p) : p \in
        { p \in Bijection(DOMAIN s, DOMAIN s) :
            \A i, j \in DOMAIN s :
                i < j => \/ key[s[p[i]]] < key[s[p[j]]]
                         \/ key[s[p[i]]] = key[s[p[j]]] /\ p[i] < p[j] } }

\* ListIterator::Next from the element that holds t, and the iterator's
\* first element: `none' where the code has NULL.
Successor(s, t, none) ==
    { IF i = Len(s) THEN none ELSE s[i + 1] : i \in { i \in 1..Len(s) : s[i] = t } }

First(s, none) == IF s = <<>> THEN none ELSE Head(s)
=============================================================================
