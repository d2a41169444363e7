----------------------------- MODULE Scheduler ------------------------------
(***************************************************************************)
(* The three-level feedback-queue scheduler of NachOS (MP3): Scheduler,    *)
(* Thread, Alarm and the part of Interrupt and Timer that drives them.     *)
(*                                                                         *)
(* There is one CPU and kernel code runs with interrupts off, so a kernel  *)
(* routine is one step unless it lets something else in.  `phase' says     *)
(* where the CPU is:                                                       *)
(*   run       the current thread, interrupts on                           *)
(*   enable    the current thread, about to turn interrupts on again       *)
(*   handler   in Interrupt::CheckIfDue, firing the interrupts now due     *)
(*   promote   in Alarm::CallBack, the loops of Scheduler::scheduling      *)
(*   preempt   in Alarm::CallBack, the rest of it                          *)
(*   sleep     at the loop test of Thread::Sleep                           *)
(*   resume    just switched in, still with interrupts off                 *)
(*   aborted   an ASSERT failed                                            *)
(*                                                                         *)
(* totalTicks is kept as differences: waited[t] is totalTicks minus        *)
(* last_ready_time of a thread on a ready list, ran is totalTicks minus    *)
(* last_running_time of the current thread, and timer is the time left to  *)
(* the pending timer interrupt.  burst_time is a double; it is held in     *)
(* units of 1/BurstUnit tick.                                              *)
(***************************************************************************)
EXTENDS NachosList, FiniteSets

CONSTANTS
    Thread,        \* every thread object the kernel ever makes
    Main,          \* the thread Kernel::Initialize runs in
    None,          \* NULL
    Priorities,    \* what the command line may give with -ep
    Ticks,         \* what one OneTick adds: UserTick and SystemTick
    TimerDelays,   \* the delays Timer::SetInterrupt may choose
    AgingWait,     \* 1500 ticks of waiting ...
    AgingStep,     \* ... are worth 10 points of priority
    BurstUnit,     \* fractions of a tick burst_time tells apart
    MaxRun,        \* run times saturate here, a bound of the model
    FreedChunk     \* what a freed list element may turn into, see Promote

ASSUME SchedulerAssumption ==
    /\ Main \in Thread
    /\ None \notin Thread
    /\ Priorities \subseteq 0..149
    /\ Ticks \subseteq Nat \ {0}
    /\ TimerDelays \subseteq Nat \ {0}
    /\ AgingWait \in Nat \ {0}
    /\ AgingStep \in Nat
    /\ BurstUnit \in Nat \ {0}
    /\ MaxRun \in Nat
    /\ FreedChunk \subseteq {"reused", "intact"}

VARIABLES
    ready,             \* <<L1_list, L2_list, L3_list>>
    currentThread,
    toBeDestroyed,
    status,            \* Thread::status, with UNBORN and DELETED around it
    exec_priority,
    burst_time,
    accumulated_time,
    waited, ran, timer,
    asleep,            \* threads queued on a semaphore, waiting for its V
    yieldOnReturn,
    idle,              \* Interrupt::status is IdleMode
    finishing,         \* the argument of the Thread::Sleep in progress
    iter, level,       \* the iterator of Scheduler::scheduling and its list
    phase

threadVars == <<status, exec_priority, burst_time, accumulated_time>>
timeVars == <<waited, ran, timer>>
interruptVars == <<yieldOnReturn, idle>>
iterVars == <<iter, level>>
vars == <<ready, currentThread, toBeDestroyed, threadVars, timeVars, asleep,
          interruptVars, finishing, iterVars, phase>>

-----------------------------------------------------------------------------
(* Thread lists                                                            *)

MaxPriority == 149

\* The list ReadyToRun puts a priority on; a band is 0..49, 50..99, 100..149.
Level(priority) == IF priority < 50 THEN 3 ELSE IF priority < 100 THEN 2 ELSE 1

\* The number to compare in sjf: the part of the burst that is left.
Remaining(burst, acc) == [t \in Thread |-> burst[t] - BurstUnit * acc[t]]

\* The comparison functions of L1_list (sjf) and L2_list (prior_cmp).
Key(priority, burst, acc) ==
    <<Remaining(burst, acc), [t \in Thread |-> -priority[t]]>>

CurrentKey == Key(exec_priority, burst_time, accumulated_time)

\* The SortedLists insert, L3_list appends.
Enqueued(q, k, t, key) ==
    { [q EXCEPT ![k] = s] :
        s \in IF k = 3 THEN {Append(q[3], t)} ELSE Inserted(q[k], t, key[k]) }

ReadyToRun(q, t, priority, key) == Enqueued(q, Level(priority[t]), t, key)

\* Mutant: the lists are left as they are.
ReSortNothing(q, key) == {q}

\* Re_Sort_List: L1_list and L2_list built anew.
ReSortList(q, key) ==
    { <<s1, s2, q[3]>> : s1 \in StableSorts(q[1], key[1]),
                         s2 \in StableSorts(q[2], key[2]) }

Queued(q) == UNION { Range(q[k]) : k \in 1..3 }
NothingReady == \A k \in 1..3 : ready[k] = <<>>

\* Mutant: the lists are tried in the opposite order.
BottomLevel(q) == { k \in 1..3 : q[k] # <<>> /\ \A j \in (k + 1)..3 : q[j] = <<>> }

\* The first list with a thread on it; none when all are empty.
TopLevel(q) == { k \in 1..3 : q[k] # <<>> /\ \A j \in 1..(k - 1) : q[j] = <<>> }

\* Mutant: Front() where the code has RemoveFront().
FindNextKeeping(q, key) ==
    { [next |-> Head(r[k]), lists |-> r] : r \in ReSortList(q, key), k \in TopLevel(q) }

\* FindNextToRun: the thread it returns and the lists it leaves behind; no
\* member where it returns NULL.
FindNextToRun(q, key) ==
    { [next |-> Head(r[k]), lists |-> [r EXCEPT ![k] = Tail(r[k])]] :
        r \in ReSortList(q, key), k \in TopLevel(q) }

Saturate(n) == IF n > MaxRun THEN MaxRun ELSE n

-----------------------------------------------------------------------------
(* Time                                                                    *)

\* How often Thread::aging subtracts 1500 from a waiting time above 1500.
Agings(w) == IF w > AgingWait THEN (w - 1) \div AgingWait ELSE 0

\* Mutants: no cap, and the cap of the wrong band.
AgedUncapped(priority, w) == priority + AgingStep * Agings(w)
AgedIntoL2(priority, w) ==
    LET aged == priority + AgingStep * Agings(w) IN IF aged > 99 THEN 99 ELSE aged

AgedPriority(priority, w) ==
    LET aged == priority + AgingStep * Agings(w)
    IN  IF aged > MaxPriority THEN MaxPriority ELSE aged

\* Mutant: last_ready_time stays.
AgedWaitKept(w) == w

\* last_ready_time moves by 1500 for every step of the priority.
AgedWait(w) == w - AgingWait * Agings(w)

\* Time passes for the threads on the lists and for the running one; waited
\* stays 0 off the lists, where nothing reads last_ready_time.
Elapse(d) ==
    /\ waited' = [t \in Thread |-> IF t \in Queued(ready) THEN waited[t] + d ELSE 0]
    /\ ran' = Saturate(ran + d)
    /\ timer' = timer - d

Init ==
    /\ ready = [k \in 1..3 |-> <<>>]
    /\ currentThread = Main
    /\ toBeDestroyed = None
    /\ status = [t \in Thread |-> IF t = Main THEN "RUNNING" ELSE "UNBORN"]
    /\ exec_priority = [t \in Thread |-> 0]
    /\ burst_time = [t \in Thread |-> 0]
    /\ accumulated_time = [t \in Thread |-> 0]
    /\ waited = [t \in Thread |-> 0]
    /\ ran = 0
    /\ timer \in TimerDelays
    /\ asleep = {}
    /\ yieldOnReturn = FALSE
    /\ idle = FALSE
    /\ finishing = FALSE
    /\ iter = None
    /\ level = 2
    /\ phase = "run"

-----------------------------------------------------------------------------
(* What the current thread does                                            *)

\* ReadyToRun of a thread off the lists, as Fork and Semaphore::V call it.
MakeReady(t, priority) ==
    /\ ready' \in ReadyToRun(ready, t, priority, Key(priority, burst_time, accumulated_time))
    /\ waited' = [waited EXCEPT ![t] = 0]

\* Kernel::Exec from ExecAll: new Thread, setPriority, Fork.
Exec(t, p) ==
    /\ phase = "run"
    /\ currentThread = Main
    /\ status[t] = "UNBORN"
    /\ status' = [status EXCEPT ![t] = "JUST_CREATED"]
    /\ exec_priority' = [exec_priority EXCEPT ![t] = p]
    /\ MakeReady(t, exec_priority')
    /\ phase' = "enable"
    /\ UNCHANGED <<currentThread, toBeDestroyed, burst_time, accumulated_time, ran,
                   timer, asleep, interruptVars, finishing, iterVars>>

\* Semaphore::V by the current thread, with t the thread it takes off the queue.
Wakeup(t) ==
    /\ phase = "run"
    /\ t \in asleep
    /\ asleep' = asleep \ {t}
    /\ MakeReady(t, exec_priority)
    /\ phase' = "enable"
    /\ UNCHANGED <<currentThread, toBeDestroyed, threadVars, ran, timer,
                   interruptVars, finishing, iterVars>>

\* Thread::Sleep up to its loop.  It starts in P, with the thread already on
\* the semaphore's queue, or in Finish; P may find the semaphore taken again
\* as soon as it is switched in.
Sleep(fin) ==
    /\ phase \in (IF fin THEN {"run"} ELSE {"run", "enable"})
    /\ LET self == currentThread
           acc  == Saturate(accumulated_time[self] + ran)
       IN  /\ status' = [status EXCEPT ![self] = "BLOCKED"]
           /\ burst_time' = [burst_time EXCEPT
                                ![self] = (burst_time[self] + BurstUnit * acc) \div 2]
           /\ accumulated_time' = [accumulated_time EXCEPT ![self] = 0]
           /\ asleep' = IF fin THEN asleep ELSE asleep \cup {self}
    /\ finishing' = fin
    /\ phase' = "sleep"
    /\ UNCHANGED <<ready, currentThread, toBeDestroyed, exec_priority, timeVars,
                   interruptVars, iterVars>>

\* Scheduler::Run up to SWITCH, from a state in which the lists are q and the
\* status and the waiting time of the threads are st and w.
Run(next, q, st, w) ==
    /\ ready' = q
    /\ currentThread' = next
    /\ status' = [st EXCEPT ![next] = "RUNNING"]
    /\ waited' = [w EXCEPT ![next] = 0]
    /\ ran' = 0

\* The rest of Thread::Sleep once FindNextToRun returns a thread, which may be
\* the sleeping one, woken while the machine was idle.
Dispatch ==
    /\ phase = "sleep"
    /\ \E f \in FindNextToRun(ready, CurrentKey) :
        IF finishing /\ toBeDestroyed # None
        THEN phase' = "aborted" /\ UNCHANGED <<ready, currentThread, toBeDestroyed,
                                                status, waited, ran>>
        ELSE /\ Run(f.next, f.lists, status, waited)
             /\ toBeDestroyed' = IF finishing THEN currentThread ELSE toBeDestroyed
             /\ phase' = "resume"
    /\ finishing' = FALSE
    /\ UNCHANGED <<exec_priority, burst_time, accumulated_time, timer, asleep,
                   interruptVars, iterVars>>

\* Interrupt::Idle, called by the loop of Thread::Sleep: the clock moves to the
\* next pending interrupt, the timer's or one of a device before it.
Idle(d) ==
    /\ phase = "sleep"
    /\ NothingReady
    /\ d \in 1..timer
    /\ Elapse(d)
    /\ idle' = TRUE
    /\ phase' = "handler"
    /\ UNCHANGED <<ready, currentThread, toBeDestroyed, threadVars, asleep,
                   yieldOnReturn, finishing, iterVars>>

\* The carcass's fields once CheckToBeDestroyed has deleted it.
Destroyed(f, gone) == IF toBeDestroyed = None THEN f ELSE [f EXCEPT ![toBeDestroyed] = gone]

\* Mutant: nobody calls CheckToBeDestroyed.
ResumeKeepingCarcass ==
    /\ phase = "resume"
    /\ ran' = 0
    /\ phase' = "enable"
    /\ UNCHANGED <<ready, currentThread, toBeDestroyed, threadVars, waited, timer,
                   asleep, interruptVars, finishing, iterVars>>

\* The thread that has just been switched in, behind SWITCH in Scheduler::Run
\* or in Thread::Begin.
Resume ==
    /\ phase = "resume"
    /\ IF toBeDestroyed = currentThread
       THEN phase' = "aborted" /\ UNCHANGED <<threadVars, toBeDestroyed>>
       ELSE /\ status' = Destroyed(status, "DELETED")
            /\ exec_priority' = Destroyed(exec_priority, 0)
            /\ burst_time' = Destroyed(burst_time, 0)
            /\ accumulated_time' = Destroyed(accumulated_time, 0)
            /\ toBeDestroyed' = None
            /\ phase' = "enable"
    /\ ran' = 0
    /\ UNCHANGED <<ready, currentThread, waited, timer, asleep, interruptVars,
                   finishing, iterVars>>

-----------------------------------------------------------------------------
(* Interrupts                                                              *)

\* Interrupt::OneTick up to CheckIfDue, after an instruction or as interrupts
\* are turned on.
OneTick(d) ==
    /\ phase \in {"run", "enable"}
    /\ Elapse(d)
    /\ phase' = "handler"
    /\ UNCHANGED <<ready, currentThread, toBeDestroyed, threadVars, asleep,
                   interruptVars, finishing, iterVars>>

\* The handler of a device: the V of SynchConsole, SynchDisk or PostOffice.
DeviceInterrupt(t) ==
    /\ phase = "handler"
    /\ t \in asleep
    /\ asleep' = asleep \ {t}
    /\ MakeReady(t, exec_priority)
    /\ UNCHANGED <<currentThread, toBeDestroyed, threadVars, ran, timer,
                   interruptVars, finishing, iterVars, phase>>

\* Timer::CallBack of an idle machine: Alarm::CallBack does nothing.
IdleTimerInterrupt(d) ==
    /\ phase = "handler"
    /\ timer <= 0
    /\ idle
    /\ timer' = d
    /\ UNCHANGED <<ready, currentThread, toBeDestroyed, threadVars, waited, ran,
                   asleep, interruptVars, finishing, iterVars, phase>>

\* Timer::CallBack of a busy one: update_priority, and scheduling begins.
UpdatePriority ==
    /\ phase = "handler"
    /\ timer <= 0
    /\ ~idle
    /\ exec_priority' = [t \in Thread |->
            IF t \in Queued(ready) THEN AgedPriority(exec_priority[t], waited[t])
                                   ELSE exec_priority[t]]
    /\ waited' = [t \in Thread |-> AgedWait(waited[t])]
    /\ level' = 2
    /\ iter' = First(ready[2], None)
    /\ phase' = "promote"
    /\ UNCHANGED <<ready, currentThread, toBeDestroyed, status, burst_time,
                   accumulated_time, ran, timer, asleep, interruptVars, finishing>>

\* Mutant: the bands are off by one.
OutgrownLate(t) == exec_priority[t] > (IF level = 2 THEN 100 ELSE 50)

\* A thread on L2_list or L3_list has aged out of the list's band.
Outgrown(t) == exec_priority[t] > (IF level = 2 THEN 99 ELSE 49)

\* scheduling, at a thread that stays.
Pass ==
    /\ phase = "promote"
    /\ iter # None
    /\ ~Outgrown(iter)
    /\ iter' \in UNION { Successor(ready[k], iter, None) : k \in 1..3 }
    /\ UNCHANGED <<ready, currentThread, toBeDestroyed, threadVars, timeVars, asleep,
                   interruptVars, finishing, level, phase>>

\* scheduling, at a thread that moves up.  Remove frees the list element the
\* iterator stands on and Next reads its next field after that.  An allocator
\* that hands the freed chunk to the element Insert makes (glibc's does) puts
\* the iterator in the destination list; one that leaves the chunk alone keeps
\* it in the source list.
Promote ==
    /\ phase = "promote"
    /\ iter # None
    /\ Outgrown(iter)
    /\ IsInList(ready[level], iter)
    /\ \E s \in Removed(ready[level], iter) :
        ready' \in Enqueued([ready EXCEPT ![level] = s], level - 1, iter, CurrentKey)
    /\ \/ /\ "intact" \in FreedChunk
          /\ iter' \in Successor(ready[level], iter, None)
       \/ /\ "reused" \in FreedChunk
          /\ iter' \in Successor(ready'[level - 1], iter, None)
    /\ UNCHANGED <<currentThread, toBeDestroyed, threadVars, timeVars, asleep,
                   interruptVars, finishing, level, phase>>

\* The ASSERT(IsInList(item)) of List::Remove.
PromoteAborts ==
    /\ phase = "promote"
    /\ iter # None
    /\ Outgrown(iter)
    /\ ~IsInList(ready[level], iter)
    /\ phase' = "aborted"
    /\ UNCHANGED <<ready, currentThread, toBeDestroyed, threadVars, timeVars, asleep,
                   interruptVars, finishing, iterVars>>

\* The loop over a list ends.
PromoteDone ==
    /\ phase = "promote"
    /\ iter = None
    /\ IF level = 2 THEN level' = 3 /\ iter' = First(ready[3], None) /\ UNCHANGED phase
                    ELSE level' = 2 /\ phase' = "preempt" /\ UNCHANGED iter
    /\ UNCHANGED <<ready, currentThread, toBeDestroyed, threadVars, timeVars, asleep,
                   interruptVars, finishing>>

\* Mutants: L1 does not preempt L2, and L3 is not round-robin.
WantsYieldNotL2(q) ==
    CASE exec_priority[currentThread] > 49 -> FALSE
      [] OTHER -> \E k \in 1..3 : q[k] # <<>>
WantsYieldNotL3(q) == q[1] # <<>> \/ q[2] # <<>>

\* Alarm::CallBack's decision, for the lists q it has just sorted.
WantsYield(q) ==
    LET cur == currentThread
        rem == CurrentKey[1]
    IN  CASE exec_priority[cur] > 99 -> q[1] # <<>> /\ rem[cur] > rem[Head(q[1])]
          [] exec_priority[cur] \in 50..99 -> q[1] # <<>>
          [] OTHER -> \E k \in 1..3 : q[k] # <<>>

\* The rest of Alarm::CallBack, and Timer::SetInterrupt behind it.
Preempt(d) ==
    /\ phase = "preempt"
    /\ ready' \in ReSortList(ready, CurrentKey)
    /\ yieldOnReturn' = (yieldOnReturn \/ WantsYield(ready'))
    /\ timer' = d
    /\ phase' = "handler"
    /\ UNCHANGED <<currentThread, toBeDestroyed, threadVars, waited, ran, asleep, idle,
                   finishing, iterVars>>

\* CheckIfDue finds no interrupt due.  From Idle it returns to the loop of
\* Thread::Sleep, from OneTick to the current thread; Thread::Yield returns
\* too when there is no other thread, and turns interrupts on again.
HandlerReturn ==
    /\ phase = "handler"
    /\ timer > 0
    /\ idle \/ ~yieldOnReturn \/ NothingReady
    /\ idle' = FALSE
    /\ yieldOnReturn' = (idle /\ yieldOnReturn)
    /\ phase' = IF idle THEN "sleep" ELSE IF yieldOnReturn THEN "enable" ELSE "run"
    /\ UNCHANGED <<ready, currentThread, toBeDestroyed, threadVars, timeVars, asleep,
                   finishing, iterVars>>

\* OneTick calls Thread::Yield for the handler: FindNextToRun looks at the lists
\* before the current thread is put back on one.
Yield ==
    /\ phase = "handler"
    /\ timer > 0
    /\ ~idle
    /\ yieldOnReturn
    /\ yieldOnReturn' = FALSE
    /\ LET self == currentThread IN
        /\ accumulated_time' = [accumulated_time EXCEPT
                                   ![self] = Saturate(accumulated_time[self] + ran)]
        /\ \E f \in FindNextToRun(ready, CurrentKey) :
           \E q \in ReadyToRun(f.lists, self, exec_priority,
                               Key(exec_priority, burst_time, accumulated_time')) :
               Run(f.next, q, status, [waited EXCEPT ![self] = 0])
    /\ phase' = "resume"
    /\ UNCHANGED <<toBeDestroyed, exec_priority, burst_time, timer, asleep, idle,
                   finishing, iterVars>>

\* Nothing runs after a failed ASSERT.
Aborted == phase = "aborted" /\ UNCHANGED vars

-----------------------------------------------------------------------------

CurrentThreadStep ==
    \/ \E t \in Thread, p \in Priorities : Exec(t, p)
    \/ \E t \in Thread : Wakeup(t)
    \/ \E fin \in BOOLEAN : Sleep(fin)
    \/ Dispatch
    \/ \E d \in 1..timer : Idle(d)
    \/ Resume

InterruptStep ==
    \/ \E d \in Ticks : OneTick(d)
    \/ \E t \in Thread : DeviceInterrupt(t)
    \/ \E d \in TimerDelays : IdleTimerInterrupt(d)
    \/ UpdatePriority
    \/ Pass
    \/ Promote
    \/ PromoteAborts
    \/ PromoteDone
    \/ \E d \in TimerDelays : Preempt(d)
    \/ HandlerReturn
    \/ Yield

Next == CurrentThreadStep \/ InterruptStep \/ Aborted

\* The simulated CPU always executes the next instruction or, with nothing to
\* run, moves the clock to the next interrupt; no thread is promised anything.
Spec == Init /\ [][Next]_vars /\ WF_vars(Next)

-----------------------------------------------------------------------------
(* Properties                                                              *)

Statuses == {"UNBORN", "JUST_CREATED", "RUNNING", "BLOCKED", "DELETED"}
Phases == {"run", "enable", "handler", "promote", "preempt", "sleep", "resume", "aborted"}

\* The type invariant.
TypeOK ==
    /\ ready \in [1..3 -> Seq(Thread)]
    /\ currentThread \in Thread
    /\ toBeDestroyed \in Thread \cup {None}
    /\ status \in [Thread -> Statuses]
    /\ exec_priority \in [Thread -> 0..MaxPriority]
    /\ burst_time \in [Thread -> Nat]
    /\ accumulated_time \in [Thread -> Nat]
    /\ waited \in [Thread -> Nat]
    /\ ran \in Nat
    /\ timer \in Int
    /\ asleep \in SUBSET Thread
    /\ yieldOnReturn \in BOOLEAN
    /\ idle \in BOOLEAN
    /\ finishing \in BOOLEAN
    /\ iter \in Thread \cup {None}
    /\ level \in {2, 3}
    /\ phase \in Phases

\* The current thread is inside Thread::Sleep, perhaps with the machine idle:
\* it is still currentThread, and an interrupt may already have woken it.
Sleeping == phase = "sleep" \/ idle

Live == { t \in Thread : status[t] \notin {"UNBORN", "DELETED"} }

\* No thread is twice on the ready lists (Append and Insert assert it of one
\* list; aging, promotion and sorting move threads between three).
Once(q) ==
    \A j, k \in 1..3 : \A i \in DOMAIN q[j], n \in DOMAIN q[k] :
        q[j][i] = q[k][n] => j = k /\ i = n

QueuedOnce == Once(ready)

\* A thread on the ready lists waits for nothing but the CPU: it sleeps on no
\* semaphore, is not being deleted, and has the CPU only while it is inside
\* Thread::Sleep with an idle machine.
QueuedExclusive ==
    /\ Queued(ready) \cap asleep = {}
    /\ toBeDestroyed \notin Queued(ready) \cup asleep \cup {currentThread}
    /\ ~Sleeping => currentThread \notin Queued(ready) \cup asleep

\* No thread is lost or comes back: the threads created and not yet deleted are
\* those on the ready lists, asleep, holding the CPU or about to be deleted,
\* and a thread leaves Thread::Sleep unless it is finishing.
NoThreadLost ==
    /\ Live = Queued(ready) \cup asleep \cup {currentThread} \cup ({toBeDestroyed} \ {None})
    /\ Sleeping => (finishing <=> currentThread \notin Queued(ready) \cup asleep)

\* The deletion of finished threads: at most one carcass at a time, cleaned up
\* by the next thread before anyone else can finish, never by itself.
CarcassCleared ==
    toBeDestroyed # None => phase = "resume" /\ toBeDestroyed # currentThread

\* No thread is on a list above its priority, even when scheduling loses its
\* way; priorities only grow.
NoneAboveBand ==
    \A k \in 1..3 : \A t \in Range(ready[k]) : Level(exec_priority[t]) <= k

\* L1_list and L2_list are sorted whenever a thread runs, although aging
\* changes the keys of threads while they are on a list.
ListsSorted ==
    phase = "run" =>
        \A k \in 1..2 : \A i, j \in DOMAIN ready[k] :
            i < j => CurrentKey[k][ready[k][i]] <= CurrentKey[k][ready[k][j]]

\* Preemption: while a thread of L2 or L3 runs, a thread of L1 has been ready for
\* less than one timer period ("L1 can preempt it!", alarm.cc).
PreemptionBound ==
    phase = "run" /\ exec_priority[currentThread] < 100 =>
        \A t \in Range(ready[1]) : \E d \in TimerDelays : waited[t] < d

\* Time slices: a thread of L3 keeps the CPU from a ready one for less than
\* one timer period since it got it or since the other became ready.
TimeSliceBound ==
    phase = "run" /\ exec_priority[currentThread] < 50 =>
        \A t \in Queued(ready) : \E d \in TimerDelays : waited[t] < d \/ ran < d

\* Aging keeps up: the waiting time not yet turned into priority never exceeds
\* 1500 ticks by a timer period.
AgingBound ==
    phase = "run" =>
        \A t \in Queued(ready) : \E d \in TimerDelays : waited[t] < AgingWait + d

\* A thread switched in was the best choice: from the highest list with a thread,
\* with the least remaining burst in L1, the highest priority in L2, first in
\* L3.
BestChoice(t) ==
    \E k \in 1..3 :
        /\ t \in Range(ready[k])
        /\ \A j \in 1..(k - 1) : ready[j] = <<>>
        /\ k = 3 => t = Head(ready[3])
        /\ k < 3 => \A u \in Range(ready[k]) : CurrentKey[k][t] <= CurrentKey[k][u]

DispatchesBest ==
    [][phase' = "resume" /\ phase # "resume" => BestChoice(currentThread')]_vars

\* scheduling() is complete: with the iterator unharmed, a thread is on the list of
\* its band once Alarm::CallBack has looked at it.
InBand ==
    phase = "run" => \A k \in 1..3 : \A t \in Range(ready[k]) : Level(exec_priority[t]) = k

\* The assertions of the code hold: list.cc's ("Must be in the list!"), and those
\* of Scheduler::Run and ~Thread.
NoAssertionFails == phase # "aborted"

\* Aging works: a thread that waits for the CPU gets it or gets to L1.
AgingReachesL1 ==
    \A t \in Thread :
        t \in Range(ready[2]) \cup Range(ready[3])
            ~> t \in Range(ready[1]) \/ currentThread = t
=============================================================================
