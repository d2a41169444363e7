---------------------------- MODULE MCPostOffice -----------------------------
(* PostOffice on a small instance: two senders, a box with two receivers    *)
(* and one that nobody reads, three letters.                               *)
EXTENDS PostOffice, TLC

CONSTANTS s1, s2, w, r1, r2, b1, b2, m1, m2, m3

MCThread == {r1, r2, w}
MCTo == (m1 :> b1) @@ (m2 :> b1) @@ (m3 :> b2)
MCFrom == (m1 :> s1) @@ (m2 :> s2) @@ (m3 :> s1)
MCReads == (r1 :> b1) @@ (r2 :> b1)
=============================================================================
