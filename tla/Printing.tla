------------------------------- MODULE Printing -------------------------------
(***************************************************************************)
(* What the console may show when several programs print: each program's   *)
(* numbers in its own order, each number from its first character to its   *)
(* last before another one begins.                                         *)
(***************************************************************************)
EXTENDS Integers, Sequences

CONSTANTS Program, Numbers, NumChars

VARIABLE display       \* of characters <<program, its number, place in it>>

Char(p, n, k) == <<p, n, k>>

\* The numbers p has begun to print.
Begun(p) == { n \in 1..Numbers[p] : \E i \in DOMAIN display : display[i] = Char(p, n, 1) }

\* The last number is complete.
Whole == display = <<>> \/ display[Len(display)][3] = NumChars

Init == display = <<>>

Begin(p) ==
    /\ Whole
    /\ \E n \in 1..Numbers[p] :
        /\ Begun(p) = 1..(n - 1)
        /\ display' = Append(display, Char(p, n, 1))

GoOn ==
    /\ ~Whole
    /\ LET c == display[Len(display)] IN
        display' = Append(display, Char(c[1], c[2], c[3] + 1))

Next == GoOn \/ \E p \in Program : Begin(p)

Spec == Init /\ [][Next]_display
=============================================================================
