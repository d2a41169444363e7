----------------------------- MODULE PostOffice -------------------------------
(***************************************************************************)
(* The post office of NachOS: senders share the network output through a   *)
(* lock and a semaphore, the network may lose a packet, and the postal     *)
(* worker carries each packet that arrives from the network's only buffer  *)
(* to a mailbox, which is a synchronised list.                             *)
(*                                                                         *)
(* Sender and receiving machine may be one or two: only the socket is      *)
(* between them.  A message is a letter; its box is To of it.              *)
(***************************************************************************)
EXTENDS SynchList

CONSTANTS
    Sender,
    Worker,        \* the postal worker
    Receiver,
    To,            \* the box of each letter
    From,          \* and its sender
    Reads          \* the box each receiver reads

Box == Lists
Letter == Item

ASSUME PostOfficeAssumption ==
    /\ Thread = Receiver \cup {Worker}
    /\ Worker \notin Receiver
    /\ To \in [Letter -> Box]
    /\ From \in [Letter -> Sender]
    /\ Reads \in [Receiver -> Box]
    /\ None \notin Sender

VARIABLES
    sendLock, sendHolder, messageSent, busy, sendInts, sending, left,
                         \* PostOfficeOutput and its network output device
    letter,              \* of each sender: what it sends
    unsent,              \* the letters nobody has begun to send
    socket,              \* packets on the way
    inbox,               \* NetworkInput's buffer, or None
    messageAvailable,
    worker,              \* "loop", or "woken" behind its P
    received             \* the letters receivers have got (history)

Out == INSTANCE SynchDevice WITH
    Thread <- Sender, lock <- sendLock, lockHolder <- sendHolder,
    semaphore <- messageSent, active <- busy, pending <- sendInts,
    at <- sending

out == <<sendLock, sendHolder, messageSent, busy, sendInts, sending, left>>
in == <<inbox, messageAvailable, worker>>
mail == <<letter, unsent, received>>
postVars == <<listVars, out, in, mail, socket>>

PostInit ==
    /\ Init
    /\ on = [t \in Thread |-> IF t = Worker THEN CHOOSE b \in Box : TRUE ELSE Reads[t]]
    /\ Out!Init
    /\ letter = [s \in Sender |-> None]
    /\ unsent = Letter
    /\ socket = <<>>
    /\ inbox = None
    /\ messageAvailable = NewSemaphore(0)
    /\ worker = "loop"
    /\ received = {}

CallSend(s, m) ==
    /\ m \in unsent
    /\ From[m] = s
    /\ Out!Call(s, 1)
    /\ letter' = [letter EXCEPT ![s] = m]
    /\ unsent' = unsent \ {m}
    /\ UNCHANGED <<listVars, in, socket, received>>

\* network->Send: the packet goes to the socket, or is lost.
NetworkSend(s) ==
    /\ Out!Request(s)
    /\ \/ socket' = Append(socket, letter[s])
       \/ UNCHANGED socket
    /\ UNCHANGED <<listVars, in, mail>>

\* The rest of Send, and the interrupt when the next packet can be sent.
SendStep ==
    /\ Out!CallBack \/ \E s \in Sender : Out!Acquire(s) \/ Out!Await(s) \/ Out!Release(s)
    /\ UNCHANGED <<listVars, in, mail, socket>>

\* Mutant: the buffer is overwritten.
PollAnyway ==
    /\ socket # <<>>
    /\ inbox' = Head(socket)
    /\ socket' = Tail(socket)
    /\ messageAvailable' = V(messageAvailable)
    /\ UNCHANGED <<listVars, out, mail, worker>>

\* NetworkInput::CallBack with a packet to read and the buffer empty.
Poll ==
    /\ inbox = None
    /\ socket # <<>>
    /\ inbox' = Head(socket)
    /\ socket' = Tail(socket)
    /\ messageAvailable' = V(messageAvailable)
    /\ UNCHANGED <<listVars, out, mail, worker>>

\* PostalDelivery, one pass of P on messageAvailable.
WorkerWaits ==
    /\ worker = "loop"
    /\ at[Worker] = "out"
    /\ Worker \notin Asleep(messageAvailable)
    /\ messageAvailable' = P(messageAvailable, Worker)
    /\ worker' = IF Available(messageAvailable) THEN "woken" ELSE "loop"
    /\ UNCHANGED <<listVars, out, mail, inbox, socket>>

\* PostalDelivery from network->Receive to the call of Append.
WorkerReceives ==
    /\ worker = "woken"
    /\ CallAppend(Worker, To[inbox], inbox)
    /\ inbox' = None
    /\ worker' = "loop"
    /\ UNCHANGED <<out, mail, messageAvailable, socket>>

\* A receiver calls Get again and again.
Get(r) ==
    /\ CallRemoveFront(r, Reads[r])
    /\ UNCHANGED <<out, in, mail, socket>>

\* Steps of Put and Get on the mailbox.
BoxStep(t) ==
    /\ Step(t)
    /\ UNCHANGED <<out, in, mail, socket>>

\* Get returns with a letter.
GetReturns(r) ==
    /\ TakeFront(r)
    /\ received' = received \cup {item'[r]}
    /\ UNCHANGED <<out, in, letter, unsent, socket>>

PostNext ==
    \/ \E s \in Sender : NetworkSend(s) \/ \E m \in Letter : CallSend(s, m)
    \/ SendStep
    \/ Poll \/ WorkerWaits \/ WorkerReceives
    \/ \E r \in Receiver : Get(r) \/ GetReturns(r)
    \/ \E t \in Thread : BoxStep(t)

\* Some ready thread always runs, and an idle machine goes on to the next
\* interrupt.
PostSpec == PostInit /\ [][PostNext]_postVars /\ WF_postVars(PostNext)

-----------------------------------------------------------------------------
(* Properties                                                              *)

PostTypeOK ==
    /\ TypeOK
    /\ Out!TypeOK
    /\ letter \in [Sender -> Letter \cup {None}]
    /\ unsent \subseteq Letter
    /\ socket \in Seq(Letter)
    /\ inbox \in Letter \cup {None}
    /\ messageAvailable \in Semaphores({Worker})
    /\ worker \in {"loop", "woken"}
    /\ received \subseteq Letter

\* The network output is asked for one packet at a time, and no sender is left
\* asleep.
OutputOK == Out!OneAtATime /\ Out!NobodyForgotten

\* messageAvailable counts the packets in the buffer: the worker reads the
\* buffer only when there is a packet in it, and a packet in it has woken the
\* worker or will be found by it.
WorkerFollowsBuffer ==
    messageAvailable.value + (IF worker = "woken" THEN 1 ELSE 0)
        = IF inbox = None THEN 0 ELSE 1

\* The letters on the way to a box: in the box, with the worker, in the buffer
\* and in the socket.
Carried(b) ==
    IF call[Worker] = "append" /\ at[Worker] \in {"acquiring", "inside"} /\ on[Worker] = b
    THEN <<item[Worker]>> ELSE <<>>
Buffered == IF inbox = None THEN <<>> ELSE <<inbox>>

\* The letters for box b among those of s, in their order.
ForBox(b, s) ==
    LET picked[i \in 0..Len(s)] ==
            IF i = 0 THEN <<>>
            ELSE IF To[s[i]] = b THEN Append(picked[i - 1], s[i])
            ELSE picked[i - 1]
    IN  picked[Len(s)]

Transit ==
    [b \in Box |->
        list[b] \o Carried(b) \o ForBox(b, Buffered \o socket)]

\* Letters that no NetworkSend was made for.
NotSent ==
    unsent \cup { letter[s] : s \in { u \in Sender :
        sending[u] = "acquiring" \/ (sending[u] = "inside" /\ left[u] = 1) } }

\* The post office loses letters only in the network, brings every other one
\* to its box, in order, and gives it to one receiver.
Channel == INSTANCE LossyMail WITH unsent <- NotSent, transit <- Transit
ImplementsMail == Channel!Spec

\* A letter the network did not lose is received in the end, if anybody reads
\* its box.
OnTheWay(m) == \E b \in Box : m \in Elements(Transit[b])
IsRead(b) == \E r \in Receiver : Reads[r] = b
Delivered ==
    \A m \in Letter : IsRead(To[m]) => (OnTheWay(m) ~> m \in received)
=============================================================================
