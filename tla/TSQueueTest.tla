---------------------------- MODULE TSQueueTest -----------------------------
(***************************************************************************)
(* TSQueue under its test program (ts_queue_test.cpp): every producer      *)
(* enqueues one item for each consumer, and every consumer dequeues one    *)
(* for each producer.                                                      *)
(***************************************************************************)
EXTENDS TSQueue, Sequences, SequencesExt

CONSTANTS Producers, Consumers

ASSUME TSQueueTestAssumption ==
    /\ Thread = Producers \cup Consumers
    /\ Producers \cap Consumers = {}
    /\ Item = Producers \X (1..Cardinality(Consumers))

VARIABLE
    rounds,    \* the turns a thread's loop has begun
    result     \* what a consumer's finished calls returned

testVars == <<vars, rounds, result>>

TestInit ==
    /\ Init
    /\ rounds = [t \in Thread |-> 0]
    /\ result = [t \in Consumers |-> <<>>]

\* The turn of produce: its items are numbered in the order of the loop.
Produce(t) ==
    /\ rounds[t] < Cardinality(Consumers)
    /\ CallEnqueue(t, <<t, rounds[t] + 1>>)
    /\ rounds' = [rounds EXCEPT ![t] = @ + 1]
    /\ UNCHANGED result

\* The turn of consume.
Consume(t) ==
    /\ rounds[t] < Cardinality(Producers)
    /\ CallDequeue(t)
    /\ rounds' = [rounds EXCEPT ![t] = @ + 1]
    /\ UNCHANGED result

\* dequeue returns and consume stores the value.
Received(t) ==
    result' = IF t \in Consumers /\ call'[t] # call[t]
              THEN [result EXCEPT ![t] = Append(@, item'[t])]
              ELSE result

InCall(t) == (Lock(t) \/ Step(t) \/ WakeUp(t)) /\ UNCHANGED rounds /\ Received(t)

Joined ==
    /\ \A t \in Thread : call[t] = "none"
    /\ \A t \in Producers : rounds[t] = Cardinality(Consumers)
    /\ \A t \in Consumers : rounds[t] = Cardinality(Producers)

TestNext ==
    \/ \E t \in Producers : Produce(t)
    \/ \E t \in Consumers : Consume(t)
    \/ \E t \in Thread : InCall(t)
    \/ Joined /\ UNCHANGED testVars

\* Every thread runs until its work is done, and wakeups without a signal do not
\* go on for ever.  A thread waiting for the mutex may be overtaken any number of
\* times.
TestSpec ==
    /\ TestInit /\ [][TestNext]_testVars
    /\ \A t \in Producers : WF_testVars(Produce(t))
    /\ \A t \in Consumers : WF_testVars(Consume(t))
    /\ \A t \in Thread : WF_testVars(Step(t) /\ InCall(t)) /\ WF_testVars(Lock(t) /\ InCall(t))
    /\ <>[][\A t \in Thread : ~WakeUp(t)]_testVars

-----------------------------------------------------------------------------

\* The test ends: every call returns, whatever the interleaving, and every item
\* is delivered.
TestEnds == <>(Joined /\ UNION { Range(result[c]) : c \in Consumers } = Item)
=============================================================================
