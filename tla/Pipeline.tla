------------------------------ MODULE Pipeline ------------------------------
(***************************************************************************)
(* The pthreads program (MP5): a reader, a fixed set of producers, a pool  *)
(* of consumers that a controller resizes, and a writer, connected by      *)
(* three queues, and the main thread that waits for it all.                *)
(*                                                                         *)
(* A call of a queue is one step, as BoundedQueue promises (TSQueue        *)
(* implements it); a thread that waits inside a call is in waiting.        *)
(***************************************************************************)
EXTENDS Integers, Sequences, FiniteSets

CONSTANTS
    Producers,
    Consumers,        \* the addresses a Consumer object may be allocated at
    None,
    LineCounts,       \* the n the command line may give, the lines of the file
    Capacity,         \* what each queue holds at most: its buffer_size - 1
    LowThreshold,
    HighThreshold,
    Destroy           \* "waits", "frees": what pthread_cond_destroy does when
                      \* threads wait, which is undefined

Queues == {"input", "worker", "output"}
Workers == Producers \cup Consumers

ASSUME PipelineAssumption ==
    /\ Producers \cap Consumers = {}
    /\ None \notin Workers \cup Nat
    /\ LineCounts \subseteq Nat
    /\ Capacity \in [Queues -> Nat \ {0}]
    /\ LowThreshold \in Nat /\ HighThreshold \in Nat
    /\ LowThreshold <= HighThreshold
    /\ HighThreshold < Capacity["worker"]
    /\ Destroy \subseteq {"waits", "frees"}

VARIABLES
    n,           \* the lines to process, numbered 1 to n
    queue,       \* the items in each queue
    reading,     \* expected_lines of the reader
    writing,     \* expected_lines of the writer
    written,     \* the items the writer has put out, in order
    held,        \* the item a worker has dequeued and not yet enqueued
    waiting,     \* the workers waiting inside dequeue
    state,       \* of a Consumer: "free" memory, at the test of its "loop", or
                 \* in its "body"
    is_cancel,   \* of a Consumer
    consumers,   \* the controller's vector
    sampled,     \* the size the controller has read and not yet acted on
    main,        \* what main waits for, or deletes
    deleted      \* the queues it has deleted

files == <<n, reading, writing, written>>
pool == <<state, is_cancel, consumers, sampled>>
vars == <<queue, files, held, waiting, pool, main, deleted>>

Item == 1..n

Init ==
    /\ n \in LineCounts
    /\ queue = [q \in Queues |-> <<>>]
    /\ reading = n
    /\ writing = n
    /\ written = <<>>
    /\ held = [w \in Workers |-> None]
    /\ waiting = {}
    /\ state = [c \in Consumers |-> "free"]
    /\ is_cancel = [c \in Consumers |-> FALSE]
    /\ consumers = <<>>
    /\ sampled = None
    /\ main = "reader"
    /\ deleted = {}

-----------------------------------------------------------------------------
(* The queues, as the threads use them until main deletes them.            *)

Running == main # "returned"

CanEnqueue(q) == Running /\ q \notin deleted /\ Len(queue[q]) < Capacity[q]
CanDequeue(q) == Running /\ q \notin deleted /\ queue[q] # <<>>

Enqueued(q, x) == [queue EXCEPT ![q] = Append(@, x)]
Dequeued(q) == [queue EXCEPT ![q] = Tail(@)]

-----------------------------------------------------------------------------
(* Reader and writer                                                       *)

\* Mutant: the loop makes one turn too many.
ReadPastEnd ==
    /\ reading >= 0
    /\ CanEnqueue("input")
    /\ queue' = Enqueued("input", n - reading + 1)
    /\ reading' = reading - 1
    /\ UNCHANGED <<n, writing, written, held, waiting, pool, main, deleted>>

\* Reader::process: the next line becomes an item of the input queue.
Read ==
    /\ reading > 0
    /\ CanEnqueue("input")
    /\ queue' = Enqueued("input", n - reading + 1)
    /\ reading' = reading - 1
    /\ UNCHANGED <<n, writing, written, held, waiting, pool, main, deleted>>

\* Writer::process
Write ==
    /\ writing > 0
    /\ CanDequeue("output")
    /\ written' = Append(written, Head(queue["output"]))
    /\ queue' = Dequeued("output")
    /\ writing' = writing - 1
    /\ UNCHANGED <<n, reading, held, waiting, pool, main, deleted>>

-----------------------------------------------------------------------------
(* Producers and consumers: each takes an item, transforms it and hands it *)
(* on.                                                                     *)

InBody(w) == w \in Consumers => state[w] = "body"
Source(w) == IF w \in Producers THEN "input" ELSE "worker"
Target(w) == IF w \in Producers THEN "worker" ELSE "output"

\* The wait inside dequeue.
Wait(w) ==
    /\ InBody(w)
    /\ held[w] = None
    /\ Running /\ Source(w) \notin deleted
    /\ queue[Source(w)] = <<>>
    /\ waiting' = waiting \cup {w}
    /\ w \notin waiting
    /\ UNCHANGED <<queue, files, held, pool, main, deleted>>

Take(w) ==
    /\ InBody(w)
    /\ held[w] = None
    /\ CanDequeue(Source(w))
    /\ held' = [held EXCEPT ![w] = Head(queue[Source(w)])]
    /\ queue' = Dequeued(Source(w))
    /\ waiting' = waiting \ {w}
    /\ UNCHANGED <<files, pool, main, deleted>>

\* The end of the loop's body.
Give(w) ==
    /\ InBody(w)
    /\ held[w] # None
    /\ CanEnqueue(Target(w))
    /\ queue' = Enqueued(Target(w), held[w])
    /\ held' = [held EXCEPT ![w] = None]
    /\ state' = IF w \in Consumers THEN [state EXCEPT ![w] = "loop"] ELSE state
    /\ UNCHANGED <<files, waiting, is_cancel, consumers, sampled, main, deleted>>

\* Mutant: the body is left as soon as the consumer is cancelled.
LoopAnywhere(c) ==
    /\ Running
    /\ state[c] # "free"
    /\ state' = [state EXCEPT ![c] = IF is_cancel[c] THEN "free" ELSE "body"]
    /\ held' = [held EXCEPT ![c] = IF is_cancel[c] THEN None ELSE @]
    /\ UNCHANGED <<queue, files, waiting, is_cancel, consumers, sampled, main, deleted>>

\* Consumer::process at the test of its loop: a cancelled consumer deletes itself.
Loop(c) ==
    /\ Running
    /\ state[c] = "loop"
    /\ state' = [state EXCEPT ![c] = IF is_cancel[c] THEN "free" ELSE "body"]
    /\ UNCHANGED <<queue, files, held, waiting, is_cancel, consumers, sampled, main, deleted>>

-----------------------------------------------------------------------------
(* ConsumerController::process                                             *)

\* The bound on the pool: the controller looks at a long queue only while there
\* is memory for a consumer.
PoolBound == Len(queue["worker"]) > HighThreshold => \E c \in Consumers : state[c] = "free"

\* get_size reads the size without the mutex, before the controller acts on it.
Sample ==
    /\ Running /\ "worker" \notin deleted
    /\ sampled = None
    /\ PoolBound
    /\ sampled' = Len(queue["worker"])
    /\ UNCHANGED <<queue, files, held, waiting, state, is_cancel, consumers, main, deleted>>

\* Mutant: the high threshold itself is enough.
ScaleUpAtThreshold ==
    /\ Running
    /\ sampled # None /\ sampled >= HighThreshold
    /\ \E c \in Consumers :
        /\ state[c] = "free"
        /\ state' = [state EXCEPT ![c] = "loop"]
        /\ is_cancel' = [is_cancel EXCEPT ![c] = FALSE]
        /\ consumers' = Append(consumers, c)
    /\ sampled' = None
    /\ UNCHANGED <<queue, files, held, waiting, main, deleted>>

ScaleUp ==
    /\ Running
    /\ sampled # None /\ sampled > HighThreshold
    /\ \E c \in Consumers :
        /\ state[c] = "free"
        /\ state' = [state EXCEPT ![c] = "loop"]
        /\ is_cancel' = [is_cancel EXCEPT ![c] = FALSE]
        /\ consumers' = Append(consumers, c)
    /\ sampled' = None
    /\ UNCHANGED <<queue, files, held, waiting, main, deleted>>

\* Mutant: the last consumer is not spared.
MayScaleDownToNone == sampled < LowThreshold /\ Len(consumers) > 0

MayScaleDown == sampled < LowThreshold /\ Len(consumers) > 1

\* Mutant: the consumer is cancelled and stays in the vector.
ScaleDownInVector ==
    /\ Running
    /\ sampled # None /\ sampled <= HighThreshold
    /\ MayScaleDown
    /\ is_cancel' = [is_cancel EXCEPT ![consumers[Len(consumers)]] = TRUE]
    /\ sampled' = None
    /\ UNCHANGED <<queue, files, held, waiting, state, consumers, main, deleted>>

ScaleDown ==
    /\ Running
    /\ sampled # None /\ sampled <= HighThreshold
    /\ MayScaleDown
    /\ is_cancel' = [is_cancel EXCEPT ![consumers[Len(consumers)]] = TRUE]
    /\ consumers' = SubSeq(consumers, 1, Len(consumers) - 1)
    /\ sampled' = None
    /\ UNCHANGED <<queue, files, held, waiting, state, main, deleted>>

KeepScale ==
    /\ Running
    /\ sampled # None /\ sampled <= HighThreshold
    /\ ~MayScaleDown
    /\ sampled' = None
    /\ UNCHANGED <<queue, files, held, waiting, state, is_cancel, consumers, main, deleted>>

Controller == Sample \/ ScaleUp \/ ScaleDown \/ KeepScale

-----------------------------------------------------------------------------
(* main                                                                    *)

\* reader->join() and writer->join()
JoinReader ==
    /\ main = "reader" /\ reading = 0
    /\ main' = "writer"
    /\ UNCHANGED <<queue, files, held, waiting, pool, deleted>>

JoinWriter ==
    /\ main = "writer" /\ writing = 0
    /\ main' = "delete"
    /\ UNCHANGED <<queue, files, held, waiting, pool, deleted>>

WaitersOn(q) == { w \in waiting : Source(w) = q }

\* ~TSQueue, where pthread_cond_destroy meets the threads that still wait.
DeleteQueue(q) ==
    /\ main = "delete" /\ q \notin deleted
    /\ q = "worker" => "input" \in deleted
    /\ q = "output" => "worker" \in deleted
    /\ WaitersOn(q) = {} \/ "frees" \in Destroy
    /\ deleted' = deleted \cup {q}
    /\ UNCHANGED <<queue, files, held, waiting, pool, main>>

\* Returning from main ends every other thread.
Return ==
    /\ main = "delete" /\ deleted = Queues
    /\ main' = "returned"
    /\ UNCHANGED <<queue, files, held, waiting, pool, deleted>>

Main == JoinReader \/ JoinWriter \/ (\E q \in Queues : DeleteQueue(q)) \/ Return

-----------------------------------------------------------------------------

Work(w) == Wait(w) \/ Take(w) \/ Give(w) \/ (w \in Consumers /\ Loop(w))

Exited == ~Running /\ UNCHANGED vars

Next == Read \/ Write \/ (\E w \in Workers : Work(w)) \/ Controller \/ Main \/ Exited

\* Every thread runs, and a call of a queue that can return does.
Fairness ==
    /\ WF_vars(Read) /\ WF_vars(Write) /\ WF_vars(Controller) /\ WF_vars(Main)
    /\ \A w \in Workers : WF_vars(Work(w))

Spec == Init /\ [][Next]_vars
FairSpec == Spec /\ Fairness

-----------------------------------------------------------------------------
(* Properties                                                              *)

TypeOK ==
    /\ n \in Nat
    /\ queue \in [Queues -> Seq(Item)]
    /\ reading \in 0..n /\ writing \in 0..n
    /\ written \in Seq(Item)
    /\ held \in [Workers -> Item \cup {None}]
    /\ waiting \in SUBSET Workers
    /\ state \in [Consumers -> {"free", "loop", "body"}]
    /\ is_cancel \in [Consumers -> BOOLEAN]
    /\ consumers \in Seq(Consumers)
    /\ sampled \in Nat \cup {None}
    /\ main \in {"reader", "writer", "delete", "returned"}
    /\ deleted \in SUBSET Queues

\* The places an item can be in.
Places(x) ==
    (UNION { { <<q, i>> : i \in { j \in DOMAIN queue[q] : queue[q][j] = x } } : q \in Queues })
    \cup { <<"written", i>> : i \in { j \in DOMAIN written : written[j] = x } }
    \cup { <<"held", w>> : w \in { v \in Workers : held[v] = x } }

\* No line is lost or written twice, however the pool is resized: each line read
\* is in one queue, with one worker or in the output file, once.
OnePlace ==
    \A x \in Item :
        Cardinality(Places(x)) = IF x <= n - reading THEN 1 ELSE 0

\* The controller never cancels a consumer that has deleted itself, nor one
\* twice: its vector holds exactly the consumers that live and are not
\* cancelled.  What a deleted Consumer leaves behind is no item and no wait.
PoolConsistent ==
    /\ \A i, j \in DOMAIN consumers : consumers[i] = consumers[j] => i = j
    /\ \A c \in Consumers :
        /\ (\E i \in DOMAIN consumers : consumers[i] = c) <=> state[c] # "free" /\ ~is_cancel[c]
        /\ state[c] # "body" => held[c] = None /\ c \notin waiting

\* The pool starts empty and only a worker queue above the high threshold makes it
\* grow: with no more lines than that (160 as main configures it), no consumer is
\* ever created, nothing is written, and writer->join() never returns.
FewLinesStall ==
    n \in 1..HighThreshold => consumers = <<>> /\ written = <<>> /\ main # "returned"

\* The work gets done: with more lines than the high threshold, main's joins
\* return, and every line has been written.
AllWritten ==
    n > HighThreshold =>
        <>(main = "delete" /\ { written[i] : i \in DOMAIN written } = Item)

\* The program ends, as its tests expect (tests/00_spec.json names the file
\* that is complete only once the writer is deleted).
ProgramEnds == <>(main = "returned")
=============================================================================
