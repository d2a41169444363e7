----------------------------- MODULE MCPrograms ------------------------------
(* Programs on a small instance: one program prints twice, the others once.  *)
EXTENDS Programs, TLC

CONSTANTS p1, p2, p3

MCNumbers == (p1 :> 2) @@ (p2 :> 1) @@ (p3 :> 1)
=============================================================================
