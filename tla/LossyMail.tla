------------------------------ MODULE LossyMail -------------------------------
(***************************************************************************)
(* What the post office promises: a letter that is sent is lost or goes    *)
(* on the way to its box, and the letters of a box come out in the order   *)
(* they were sent, each once.                                              *)
(***************************************************************************)
EXTENDS Sequences

CONSTANTS Letter, Box, To

VARIABLES unsent, transit, received

Init ==
    /\ unsent = Letter
    /\ transit = [b \in Box |-> <<>>]
    /\ received = {}

Send(m) ==
    /\ m \in unsent
    /\ unsent' = unsent \ {m}
    /\ transit' = [transit EXCEPT ![To[m]] = Append(@, m)]
    /\ UNCHANGED received

Lose(m) ==
    /\ m \in unsent
    /\ unsent' = unsent \ {m}
    /\ UNCHANGED <<transit, received>>

Receive(b) ==
    /\ transit[b] # <<>>
    /\ received' = received \cup {Head(transit[b])}
    /\ transit' = [transit EXCEPT ![b] = Tail(@)]
    /\ UNCHANGED unsent

Next == (\E m \in Letter : Send(m) \/ Lose(m)) \/ (\E b \in Box : Receive(b))

Spec == Init /\ [][Next]_<<unsent, transit, received>>
=============================================================================
