---------------------------- MODULE MCScheduler -----------------------------
(* Instances of Scheduler for TLC. *)
EXTENDS Scheduler

\* The threads Main creates are interchangeable.
Others == Permutations(Thread \ {Main})

\* Re_Sort_List inserts the elements one by one; the one member of StableSorts
\* is what comes out, here computed that way.
InsertionSort(s, key) ==
    FoldLeft(LAMBDA r, t : CHOOSE r2 \in Inserted(r, t, key) : TRUE, <<>>, s)

\* The sort of the model is the sort of the code, on every list that occurs.
SortIsInsertion ==
    \A k \in 1..2 :
        StableSorts(ready[k], CurrentKey[k]) = {InsertionSort(ready[k], CurrentKey[k])}
=============================================================================
