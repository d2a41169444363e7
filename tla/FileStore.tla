------------------------------- MODULE FileStore -------------------------------
(***************************************************************************)
(* What the file system promises: files of fixed length in a tree of       *)
(* directories.  Stopping the kernel inside an operation closes the open   *)
(* file and loses at most the one file the operation was about.            *)
(***************************************************************************)
EXTENDS Integers, SequencesExt

CONSTANTS Names, Blocks, NotOpen

VARIABLES
    tree,       \* for each path there is: whether it is a directory, and its data
    opened      \* path and position of the open file

vars == <<tree, opened>>

Init == tree = <<>> /\ opened = NotOpen

\* From tree t to tree u: p is new, in a directory there is, and the others
\* stay.  A new file holds whatever was on the disk.
Created(t, u, p) ==
    /\ p \notin DOMAIN t
    /\ Front(p) = <<>> \/ (Front(p) \in DOMAIN t /\ t[Front(p)].isDir)
    /\ DOMAIN u = DOMAIN t \cup {p}
    /\ \A q \in DOMAIN t : u[q] = t[q]

\* p goes, with all that is below it: removed, or left in doubt by a cut.
Deleted(t, u, p) ==
    /\ p \in DOMAIN t
    /\ u = [q \in {q \in DOMAIN t : ~IsPrefix(p, q)} |-> t[q]]

\* Reading and writing move on by one in the open file.
CanMove(t) == opened # NotOpen /\ opened.path \in DOMAIN t /\ opened.pos < Len(t[opened.path].data)
Moves == opened' = [opened EXCEPT !.pos = @ + 1]

Written(t, u, b) == u = [t EXCEPT ![opened.path].data[opened.pos + 1] = b]

Opens(t, p) ==
    p \in DOMAIN t /\ ~t[p].isDir /\ opened' = [path |-> p, pos |-> 0]

\* Closing, the end of the kernel, and whatever else changes no file.
Stays == opened' \in {opened, NotOpen}

Next ==
    LET t == tree
        u == tree'
    IN  \/ u = t /\ (Stays \/ \E p \in Names : Opens(t, p))
        \/ CanMove(t) /\ Moves /\ (u = t \/ \E b \in Blocks : Written(t, u, b))
        \/ Stays /\ \E p \in Names : Created(t, u, p) \/ Deleted(t, u, p)

Spec == Init /\ [][Next]_vars
================================================================================
