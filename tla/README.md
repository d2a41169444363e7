# A verification project for NTHU_OS_2022

The repository holds the work of an operating-systems course: the NachOS 4.0
kernel with system calls (MP1), multiprogramming (MP2), a three-level feedback
scheduler (MP3) and a file system with directories (MP4), and a pthreads
pipeline (MP5). The stages are separate copies of one source tree. This project
models the last copy that has the part in question:

| part | reference copy |
|---|---|
| threads, scheduler, lists, interrupts, user programs | `src/MP3/NachOS-4.0_MP3/code` |
| file system | `src/MP4/NachOS-4.0_MP4/code` |
| pthreads pipeline | `src/MP5/NTHU-OS-Pthreads` |

## 1. Inventory

**Scheduler, threads, alarm (MP3).** State: three ready lists (`L1_list` sorted
by remaining burst, `L2_list` by priority, `L3_list` first-in first-out),
`currentThread`, `toBeDestroyed`, and for each thread its status, priority,
burst estimate and time stamps. Operations: Fork, Yield, Sleep, Finish,
ReadyToRun, FindNextToRun, Run, CheckToBeDestroyed; at every timer interrupt
`Alarm::CallBack` ages the waiting threads, moves them between the lists, sorts
and asks for a preemption. Hard: keys change while threads are on sorted lists;
a list is walked while elements are removed from it; a sleeping thread can be
woken while it is still `currentThread`; a finished thread is deleted by another
one. Correct means: no thread is lost, queued twice or queued while it runs; the
best thread is dispatched; preemption and aging come in time.

**Lists (`lib/list`).** Singly linked list, sorted list and iterator, used by
the scheduler, the semaphores and the interrupt queue.

**Interrupts and timer (`machine/`).** Simulated time moves when user code
executes an instruction, when interrupts are turned on, and when the machine is
idle. Handlers run with interrupts off; a handler asks for a context switch with
`YieldOnReturn`.

**Synchronisation (`threads/synch`, `synchlist`).** Semaphores disable
interrupts; a lock is a semaphore of one, a condition a queue of semaphores, and
a SynchList a list behind a lock and a condition. Interacts with the scheduler
through Sleep and ReadyToRun. Hard: P tests the value again after every wakeup,
so a third thread can take what a woken one was woken for; Signal ends in a V,
where the signaller is preempted with the lock. Correct means: locks exclude,
and nobody sleeps while what it waits for is there and no one comes for it.

**Devices behind a lock (`synchconsole`, `synchdisk`, `PostOfficeOutput`).** One
thread at a time makes a request and waits on a semaphore for the device's
interrupt. Hard: the interrupt comes at any time, also before the thread sleeps;
the device asserts that it is not busy. Correct means: the assertions hold, and
everybody who waits is woken.

**Post office (`network/post`, `machine/network`).** Senders share the network
output; the network may lose a packet; the input device buffers one packet and
wakes the postal worker, who puts it in a mailbox, which is a SynchList. Correct
means: letters are lost only in the network, arrive once, in order, and are
received if anybody reads their box. In this copy the two constructors are
commented out (`kernel.cc:126-127`).

**Address spaces, system calls (`userprog/`).** Load allots physical pages by
first fit and aborts when there are none; pages are never given back. The
machine has one page table and one set of registers, which Run saves and
restores around every switch. Correct means: a program reads and writes its own
frames, and its output is its own, whole and in order, wherever it is preempted.

**File system (MP4).** A bitmap of free sectors, a tree of directories of 64
entries, headers of 29 sectors chained for long files. Create, CreateDirectory,
Remove, Open, Read, Write, Close. Hard: several sectors are written one after
the other, with no log; removal of chained headers, of open files and of
directories.

**Thread-safe queue (MP5).** A ring buffer with a mutex and two condition
variables. Hard: wakeups, the wrap of the indices, contention for the mutex.

**Pipeline (MP5).** Reader, four producers, a pool of consumers resized by a
controller, and a writer, over three queues; `main` waits for reader and writer
and deletes everything. Hard: the controller reads a queue's size without its
mutex; consumers are cancelled, delete themselves and are created again; `main`
deletes queues that are in use.

**Not modelled, and staying so.** The instruction-set interpreter and the disk
simulator, hash table and debug library (course distribution, data rather than
control), the item parser and the generated transformer (pure functions),
earlier copies of the kernel, and the cross compiler and test programs. See the
end of this file for what is left out inside the modelled parts.

`PROJECT.json` lists the components, and under `hazards` what is hard to test in
them, each at its line.

## 2. Plan

Done, in this order: the lists and the scheduler with their proofs; the
thread-safe queue, its abstract specification and the proof that it implements
it; the pipeline over abstract queues; the file system with stops between two
sector writes, and the tree of files it implements; semaphores, synchronised
lists and devices with their proofs; the post office, composed of both, and the
lossy mail service it implements; user programs with their memory and the
console, and the printing they implement.

Left: the file system over `SynchDevice`, so that two programs use it at once.

## 3. Modules

| module | what it is |
|---|---|
| `NachosList` | list operations as operators on sequences |
| `Scheduler` | the MP3 scheduler, `EXTENDS NachosList` |
| `MCScheduler` | its instances for TLC: symmetry, and the sort as the code does it |
| `SchedulerProofs` | lemmas about the list operations, and theorems about Scheduler |
| `BoundedQueue` | abstract first-in first-out queue |
| `TSQueue` | the ring buffer with mutex and condition variables |
| `TSQueueTest`, `MCTSQueue` | `ts_queue_test.cpp`, and its instance for TLC |
| `TSQueueProofs` | theorems about TSQueue, among them that it implements BoundedQueue |
| `Pipeline`, `MCPipeline` | the MP5 program over queues as BoundedQueue promises them |
| `PipelineProofs` | theorems about it |
| `FileHeader` | headers, maps and the allocation of sectors, as operators |
| `FileSystem` | the MP4 file system, `EXTENDS FileHeader` |
| `FileStore` | what it promises: a tree of files of fixed length |
| `FileSystemStore` | FileSystem beside FileStore, and that it implements it |
| `FileSystemProofs` | theorems about `FileHeader` and `FileSystem`, among them that it implements FileStore |
| `MCFileSystem`, `MCFileStore` | instances for TLC; the recursion of `Allocate` |
| `Synch`, `SynchProofs` | semaphores as operators on a record, and lemmas about P and V |
| `SynchList` | lists behind a lock and a condition |
| `SynchDevice`, `SynchDeviceProofs` | a device behind a lock and a semaphore, and theorems about it |
| `PostOffice` | the post office: `EXTENDS SynchList`, with an instance of `SynchDevice` |
| `LossyMail` | what it promises: a mail service that may lose a letter |
| `MCPostOffice`, `PostOfficeProofs` | its instance for TLC; theorems about SynchList and about it, many carried over from its parts |
| `Programs` | user programs, their frames and the console, an instance of `SynchDevice` |
| `Printing` | what the display may show |
| `MCPrograms`, `ProgramsProofs` | its instance for TLC, and theorems |

Operators marked "Mutant" are plausible bugs. No specification uses them;
`PROJECT.json` pairs each property with one that breaks it.

### Scheduler

Kernel code runs with interrupts off on one CPU, so a routine is one action
unless the code lets something else in: an interrupt, a context switch, or the
loop of `scheduling()`, which is taken element by element because the iterator
can be damaged on the way. `phase` is the CPU's place in the code. `Exec`,
`Wakeup` and `Sleep` are what a thread does; `OneTick` or `Idle` enters
`Interrupt::CheckIfDue` (phase "handler"), where device interrupts
(`DeviceInterrupt`, a call of `V`) and the timer interrupt are fired in any
order; `UpdatePriority`, `Pass`, `Promote`, `PromoteDone` and `Preempt` are
`Alarm::CallBack`; `HandlerReturn` or `Yield` leaves the handler; `Dispatch` or
`Yield` switches, and `Resume` is what the new thread does behind SWITCH.

Abstractions:

- Time is kept as differences, so runs are finite: waiting time of threads on
  the lists, running time of the current one, time to the timer's interrupt.
  Times off the lists, which nothing reads, are 0. `MaxRun` is where running
  times saturate. `burst_time` is a double: `BurstUnit` is the number of
  fractions of a tick it tells apart.
- The result of a list operation is a set with one member, picked by `\E`.
  `SortIsInsertion` checks that `StableSorts` is what inserting one by one does.
- The fields of a deleted thread are reset, so that its memory can be told from
  a live one. A thread object is used once.
- The timer is never disabled (nothing calls `Timer::Disable`), so an interrupt
  is always pending and the Halt of `Interrupt::Idle` is not reached.
- With one aging step per interrupt no thread gains 50 points at once, and the
  branch L3 to L1 of `scheduling()` (`scheduler.cc:141`) cannot be taken: it
  stands behind the test for more than 49.
- `Sleep(FALSE)` is allowed also right behind a context switch with interrupts
  still off, where only the retry loop of `Semaphore::P` sleeps.
- `FreedChunk` says what the memory of a removed list element may hold when the
  iterator reads it: "reused" when Insert's new element has it (glibc), "intact"
  when nothing has touched it. Both are outcomes of undefined behaviour.

### TSQueue

A thread in a call holds the mutex, waits on a condition variable, or contends
for the mutex. What runs under the mutex is one action. `Signalled` is the set
of what `pthread_cond_signal` may leave waiting, and `WakeUp` is the wakeup
without a signal that POSIX allows. `size >= buffer_size - 1` makes the capacity
one less than the buffer. `Linearizable` is the abstract specification with
`Contents`, the part of the ring that is in use, for the abstract queue; its
mutant keeps size, indices and signals right and returns items in a wrong order.

### Pipeline

Queue calls are atomic, as `TSQueueProofs!ImplementsQueue` allows; `waiting` has
the workers inside `dequeue` of an empty queue, which matters when `main`
destroys the queue. A consumer is a memory address that is free, at the test of
its loop or in the loop's body; a freed address can be the next consumer's. The
controller's sampling of the size and its action on it are two steps. `Destroy`
is what `pthread_cond_destroy` does with waiters, undefined by POSIX: glibc since
2.25 waits for them, older versions free the memory. After a queue is deleted the
model follows no thread into it. `n` is chosen in the initial state.

### File system

`disk` says what each sector holds: a header, a table of names, a part of the
map, data, or nothing yet. An operation (`Create`, `CreateDirectory`, `Copy`,
`RemoveFile`) is one step that reads and computes, filling `op` with the copies
in memory, and then one step for each sector it writes, in the code's order:
header by header, the parent's table, for a new directory its own table, and
the map part by part; `Remove` writes the map first and then the table. Where
the code opens a directory again behind a write, so does the step. `Load`,
`SysOpen`, `SysRead`, `SysWrite` and `SysClose` are what a program does with
the one `fileDescriptor`. `Halt` is the end of the kernel between operations,
`Cut` its end inside one (Ctrl-C, `Cleanup`), and the next boot starts from
what is on the disk.

- Sizes and positions count sectors. A directory is one sector; in the code it
  is ten, and an entry may straddle two of them. A table is a function from
  names, so the place of an entry in it is left out.
- `freeMapFile` and `directoryFile` keep their headers in memory; the model
  reads them from the disk, where no passing run overwrites them.
- `UninitSectors` is what the variable `sector` of `OpenDir` may hold when
  nothing set it, which is undefined in C++. `Remove` reads it for every file in
  the root. The passing runs assume it holds the root's sector (the build in
  which removal works at all) or -1 (`fs_crash`); `fs_root` lets it be any.
- The `delete` of a pointer that was never set does no harm or aborts.
- When a name leads to a sector that is not what it should be (only after a
  cut), phase "garbage" ends the behaviour; phase "freed" ends it when a program
  uses the `OpenFile` that `Load` deleted.
- Paths are valid in the sense of the comment at `filesys.cc:402`: their
  directory, if there is one by that name, is a directory. Programs open files.

`FileStore` is the abstract file system: names appear and vanish at one step, a
file keeps its length, and a write changes one place of the open file.
`FileSystemStore` keeps the tree that the disk stands for (`TreeOn`), and the
path and position of the open file (`OpenedOn`), in variables beside it, and
`ImplementsStore` says that these behave as FileStore.

A cut leaves at most one name in doubt (`Left`), and `doubtful` remembers it:
the path of the operation that was cut off, if the table names it by then,
unless it is of a new file and the map has been written. The sectors such a name
leads to may be clear on the map, and go to other files later. `TreeOn` and all
promises of `FileSystemStore` are about the other names, and hold while nobody
calls an operation on a name in doubt or on one below it (`StoreNext`); the code
gives a user no way to repair such a name, so it stays in doubt. For FileStore a
cut is the deletion of that one file, or nothing. `Spec` of `FileSystem` knows
of no doubt, and its `TypeOK` holds whatever is called.

### Semaphores, SynchList and SynchDevice

The kernel runs on one CPU and switches threads only where interrupts are turned
on again, that is at the end of P and V, or where a thread sleeps. A step goes
from one such place to the next. `at` is the place of a thread: "acquiring" (in
P of the lock), "inside" (P has returned), "waiting" (in P of a condition's or
device's semaphore), "releasing" (behind the V in Signal). A thread that sleeps
is in the queue of the semaphore, and its next step is another pass of P's loop,
enabled once V has taken it out. Which ready thread goes on is any: that is what
`Scheduler` decides, and the properties here must not depend on it.

- `lockHolder` is set by Acquire behind P, and cleared by Release before V; the
  model sets it in the first step that ends with the lock still held. In steps
  that take and release the lock at once it is `None` before and after.
- A condition's queue of semaphores is a queue of the threads that wait on them:
  a thread waits on one semaphore at a time, and Wait makes a new one.
- `SynchDevice` is one protocol for three users. For the console `active` is
  `putBusy`. `NetworkOutput` declares `sendBusy` and asserts that it is FALSE,
  but Send never sets it: there `active` is what the assertion was meant to test,
  and `OutputOK` shows that the lock alone makes it true.

### Post office

`PostOffice` puts a `SynchList` (the mailboxes, used by the worker and the
receivers) and a `SynchDevice` (network output, used by the senders) beside the
network's input buffer `inbox` and the worker's semaphore `messageAvailable`. A
letter stands for the packet, its headers and its data; `To` and `From` fix its
box and its sender. A lost packet is `NetworkSend` without the append to
`socket`. Sender and receiver may be two machines or one. `socket` is a queue
that loses and reorders nothing, as the Unix datagram sockets it is made of do on
one host. `Poll` is the periodic interrupt when it finds a packet and an empty
buffer; otherwise it does nothing. Boxes are valid and packets have the length
their header says: the assertions of `PostalDelivery` (`post.cc:210-211`) and
`NetworkInput` on what arrives are left out. `Transit` is the content of a channel to a
box: what is in the box, with the worker, in the buffer and in the socket.

### Programs

`place` is how far a program is: not dispatched yet, in `ForkExecute` before
Load, in user code, in the system call, finished. `machineTable` and `registers`
belong to the CPU, `pageTable` and `userRegisters` are what Run saves and
restores. A thread switched out before Load saves a table that is not its own,
as in the code. What a program does is found through the table (`Executed`), so
that a wrong table or a frame allotted twice makes it run another's code.

- User registers are reduced to the number of print calls made, a number to its
  owner, its index and `NumChars` characters, a page to `<<program, page>>`.
- Load runs with interrupts on but executes nothing that advances the clock or
  turns interrupts on, when the file system is the host's (`FILESYS_STUB`, the
  build of MP1 to MP3): it is one step.
- `preempted` allows one preemption between two steps of threads. Between two
  timer interrupts lie 100 ticks, so a thread that has been given the CPU
  executes something before it is preempted. With `-rs` the next interrupt may
  come sooner; that timer is not modelled.
- `display` is what the console device puts out. `exception.cc` also writes to
  the host's `cout` (the value given to Exit, line 215), which can come in
  between on the same terminal; that is left out.
- A frame allotted before Load aborts does not matter: the kernel has ended.
- `size` is chosen in the initial state.

## 4. Runs

| run | result | bounds |
|---|---|---|
| `sched_safety` | 9 properties hold | Main and 3 programs (symmetric), priority 49, aging after 2 ticks by 50 points, timer period 2, both outcomes of freed memory |
| `sched_aging` | 4 properties hold, one a liveness property | Main and 2 programs of priorities 49 and 60, timer period 1, freed memory intact |
| `sched_remove` | violates `NoAssertionFails` | the same with reused memory |
| `tsqueue` | 5 properties hold, refinement and termination among them | 2 producers, 2 consumers, `buffer_size` 3 |
| `pipeline` | 5 properties hold, one a liveness property | 1 producer, 2 consumer addresses, 1 or 4 lines, thresholds 1, capacities 1, 2 and 1 |
| `pipeline_end` | violates `ProgramEnds` | 1 producer, 1 consumer address, 2 lines |
| `post` | 6 properties hold, a refinement and a liveness property among them | 2 senders, the worker, 2 receivers on one box and a box nobody reads, 3 letters |
| `programs` | 5 properties hold, a refinement and a liveness property among them | 3 programs of 1 or 2 pages printing 2, 1 and 1 numbers of 2 characters, 4 frames |
| `fs_ops` | 5 properties hold, a refinement among them | 11 sectors, 2 of data in a header, 3 names in the root of 2 entries and one below, sizes 1 and 3, no cut |
| `fs_crash` | `ImplementsStore` holds | 12 sectors, 1 of data in a header, 2 names in the root and one below, size 2, two cuts |
| `fs_leak` | violates `NoSectorLost` | as `fs_ops`, 2 names in the root |
| `fs_root` | violates `RemovedIsGone` | the same, any value for the unset sector |

Why the bounds are enough to see what matters. With aging by 50 points a thread
crosses a band at every step, so that all lists, two simultaneous promotions
(the case that damages the iterator), equal and different keys and the cap at
149 occur; three programs are the smallest number with a thread on a list in
front of and one behind a third. A ring of three places holds two
items, the fewest that have an order; the four items of the test go round it
once and a bit, it fills while both producers wait and empties while both
consumers do, and two threads on each side contend and overtake. Four lines and a high threshold of one let the pool grow
to two, shrink, and grow again at a reused address. A disk of 11 or 12 sectors
has five or six left for files: enough for a file of two headers beside another
one or a directory, too few for everything, so that allocation fails, sectors go
from one file to the next, and a directory gets full; the map takes two sectors,
so a cut can fall between them. In `fs_crash` every file has a header chain of
two, and the second cut falls on a disk that already has a name in doubt, as a
rule beside files that took its sectors. After each cut all operations go on
without a bound, from every state it can leave; `MaxCuts` bounds the cuts, and
with them the aborts inside an operation. The theorems are for any number. One
value of data is enough to tell a written sector from an unwritten one, a table,
a header or a map, which is what a wrong sector would be.

In `post` two receivers and the worker contend for one lock, so that a woken
receiver can find the lock and the letter taken by the other; two senders
contend for the network while the first waits; three letters fill box, worker,
buffer and socket at once. In `programs` a number has two characters, so another
can come in between; with sizes of one or two pages four frames are exactly
enough, too few, or more than enough for three programs, and a program can be
loaded after another has finished; the third may be preempted before Load while
the two others print.

What the violations show:

- `sched_remove`: `Scheduler::scheduling` removes and frees the element its
  iterator stands on, then inserts, which reuses the memory, and goes on in the
  other list. Two threads that age at the same interrupt make `List::Remove`
  abort on "Must be in the list!"; in other orders the pass just ends early.
  `InBand` in `sched_aging` shows the pass is right when the memory stays
  intact; `NoneAboveBand` in `sched_safety` what is left of it otherwise.
- `pipeline_end`: `main` deletes `input_queue` while producers wait on its
  condition variable, and `pthread_cond_destroy` never returns. The writer's
  file is never closed. All lines have been handed to the writer by then
  (`AllWritten`).

- `fs_leak`: a file of two headers is copied in and removed; the second header's
  sector stays marked, and nothing ever gives it back. Removing a directory that
  is not empty loses the files below it in the same way.
- `fs_root`: `Remove` of a file in the root writes the table through the
  unset sector number, and the name is still there when it has returned.

What `ImplementsStore` leaves out after a cut is as telling. A cut inside Create
or Remove leaves an entry whose sectors may be clear on the map. `filesys.cc`
says as much of itself ("if Nachos exits in the middle of an operation ... it may
corrupt the disk"); the property says which files are out of danger: all but the
one, while nobody works through its entry. A weaker condition will not do. It is
not enough that a file has its own marked sectors at the moment it is used: once
the sectors of the stale entry have gone to a new file, the stale name leads to
marked sectors too, and removing it clears those of the other.

`ReadyToRun` never sets READY, although its comment ("Mark a thread as ready",
`scheduler.cc:195`) says so: a thread on a ready list may be JUST_CREATED,
RUNNING or BLOCKED. The model follows the code. Nothing reads the status of a
queued thread, so this has no consequence.

`RefusedWhenFull` says both what Load guarantees and what it does not: no
program is refused while a frame is free that it needs, but the frames of
finished programs count as used, because nothing gives them back.

`FewLinesStall` is a true statement a user may not expect: the pool starts
empty and grows only above the high threshold, so with 1 to 160 lines nothing
is ever written and `writer->join()` does not return.

## 5. Fairness

- `Scheduler`: weak fairness of the next-state relation alone. The simulated CPU
  executes the next instruction or advances the clock; no thread is promised
  anything by assumption, and `AgingReachesL1` follows from the timer. What the
  policy does not promise is not claimed: L1 is shortest-job-first, and a thread
  there can be passed over for ever.
- `TSQueueTest`: every thread runs when it can. Spurious wakeups do not go on for
  ever; without that, a thread woken again and again could keep the mutex from
  the others. A thread may lose the race for the mutex any number of times.
- `Pipeline`: weak fairness of each thread, which is what an operating system
  gives and, for calls of a queue, what `TestEnds` shows of TSQueue.

- `PostOffice`, `Programs`: weak fairness of the next-state relation alone. Some
  ready thread always runs, and a machine with none goes on to the next
  interrupt. No thread and no device is promised anything; `Delivered` and
  `AllEnd` hold because calls, letters and characters run out. In `PostOffice`
  receivers call Get again and again, but a receiver that finds its box empty
  sleeps.

`FileSystem` states no fairness and no liveness: it is sequential, and an
operation is over after a bounded number of writes.

## 6. Proofs

All from the named assumptions on the constants (`SchedulerAssumption`,
`TSQueueAssumption`, `PipelineAssumption`, `SynchListAssumption`,
`PostOfficeAssumption`, `ProgramsAssumption`, `FileHeaderAssumption`,
`FileSystemAssumption`), which TLC evaluates in the runs. `SynchDevice` needs
none.

**Scheduler.** `TypeOK` is inductive. The inductive invariant for the rest is
`ThreadInv`: `TypeOK`, `QueuedOnce`, `QueuedExclusive`, `NoThreadLost`,
`CarcassCleared` (a finished thread is deleted by the next one) and that an idle
machine is in a handler. None of the four properties is inductive alone:
removing a thread from one list and inserting it in another keeps it queued once
only if it was, a thread can be put on a list by `V` only because sleeping
threads are on none, and a thread can finish only because the last carcass is
gone. The steps that touch the lists rest on lemmas about list operations (what
Insert, Remove, sorting and RemoveFront do to the elements and to their
distinctness), and all others on one lemma for steps that leave lists and states
alone. Theorems: `TypeCorrect`, `ThreadsQueuedOnce`, `ThreadsExclusive`,
`NoThreadIsLost`, `CarcassIsCleared`, `ThreadsNotAboveBand`. They hold whatever
becomes of the freed list element. `IntactNeverAborts` says that when it stays
intact, no assertion ever fails; its extra invariant is that the iterator stands
on an element of its list.

The time bounds rest on one fact about the timer (`TimerInv`): its interrupt is
due at most a period after the last one, and once it is due nothing moves the
clock before it is handled. At every interrupt `UpdatePriority` takes whole waits
off a thread's waiting time, so waiting time and time to the interrupt together
stay below the aging wait and a period (`AgingInv`): `AgingKeepsUp`. In the same
way the handler leaves a thread that should be preempted only with the request
to do so (`SliceInv`: `PreemptionIsTimely`, `TimeSlicesAreTimely`). None of them
assumes anything about the lengths of ticks. For `ListsStaySorted` the invariant
follows the handler: aging changes keys on the lists, so they are out of order
from there until the pass has sorted them, and in order whenever a thread runs;
`BestIsDispatched` is what that means for the head of a list.
`SchedulingIsComplete` has two hypotheses. Aging is slow (`AgingIsSlow`: a step
is at most 50 points, so that no thread of L3 passes over L2, and the longest
period and tick together are at most one more than the wait, so that no thread
takes two steps at once; in the code 10 points, and 110 ticks against 1500); and
freed list elements are not reused: without that it is false, as `sched_remove`
shows.

**TSQueue.** `RingInv` (`TypeOK`, `RingConsistent`, `WaitersConsistent`) is
inductive; `%` is resolved once, in `ModSum`. `NoLostWakeup` is inductive on top
of it: a signal moves a waiter to the threads on their way exactly when the
work grows by one, and a thread on its way disappears exactly when the work
shrinks by one or there is none. Cardinalities come from the finite-set
theorems. `ImplementsQueue` maps each step to an abstract one: `EnqueueAppends`
and `DequeueTakesHead` show what the ring's steps do to `Contents`.

**Pipeline.** The inductive invariant `PipeInv` is `TypeOK`, `ItemsInv`,
`WaitInv` and `PoolConsistent`. `ItemsInv` says the same as `OnePlace` without
counting: no item is twice in the queues or in the file (`Apart`, `WrittenInv`),
a worker's item is its own and in no queue (`HeldInv`), and the items met are
those read (`MetInv`). A call of a queue takes one item from one of these places
to another, so each part needs the others. `WaitInv`, a worker that waits has
nothing, is what `PoolConsistent` needs when a consumer goes back to the test of
its loop. The lemmas about sequences are those of `SynchProofs`.
`ItemsHaveOnePlace` does the counting. `FewInv` adds for few lines that nobody
ever puts anything in the output queue; a queue of different items is no longer
than there are items (`DistinctIsShort`), so the controller never sees more than
the threshold. Theorems: `TypeCorrect`, `PoolIsConsistent`, `ItemsInOnePlace`,
`FewLinesNeverWritten`.

**SynchList.** The inductive invariant `ListInv` has, for each list, that its
lock is free or owned once, that each sleeper is once in its queue, and that
sleepers on a free lock have somebody on the way to it (`LockInv`); that whoever
is on the list's condition waits and has not been signalled (`QueueInv`); for
each thread that only it sleeps on its semaphore and that what it appends is an
item (`ThreadInv`); and that holders are recorded (`HolderInv`). None is
inductive without the others: V could take a thread out of a queue that it is in
a second time, or a signal be spent on a thread that has one. On top of it the
second part of `NoLostWakeup` counts: an Append raises the number of items by one
and, if somebody waits, moves one waiter to those who come; RemoveFront takes an
item and a thread that came; Wait takes a thread that found no item.

**SynchDevice.** `DeviceInv` adds to the same facts about the lock that there is
one interrupt to come, or one raised semaphore, exactly if a thread waits for the
device (`RequestInv`). `AssertionsHold` and `NobodyIsForgotten` follow.

**PostOffice, Programs.** Both are compositions, and their proofs use those of
the parts: every step of `PostOffice` is a step or a stutter of the mailboxes'
`SynchList` (`PostOfficeUsesLists`) and of the `SynchDevice` of its output
(`OutputIsSafe`), and every step of `Programs` one of its console's
(`ConsoleIsSafe`); what is invariant there is invariant here. `PostInv` adds
that `messageAvailable`, the worker and the buffer agree (`WorkerFollowsBuffer`),
without which the worker could append `None`. `ProgInv` adds to
`MemoryOfItsOwn` that the frames of a living program are marked as used
(`FramesInUse`), so that Load cannot hand them out, and that a program in a print
call has a number left (`NumbersLeft`).

`LettersArriveInOrder` maps the post office to `LossyMail`. Two invariants more
are needed: a sender's letter is nobody else's and has still to be sent exactly
until the network has taken it (`SendersInv`), so that it leaves `NotSent` in
that step and in no other; and the worker only appends and receivers only remove
(`RolesInv`), so that what the worker carries is not moved by others. Each step
then keeps `Transit`, appends to it or takes its head. What is on the way to a
box is picked out of the socket by `ForBox`, a recursive function; `PicksBehind`
proves what it does with a sequence in two parts, by the least prefix for which
it would be false (`LeastNumber`), because induction as a rule is out of the
provers' reach.

`RefusedOnlyWhenFull` counts frames. The used ones are those that hold a page of
a loaded program (`UsedHoldPages`), a page is in one frame (`PagesInOneFrame`)
and only loaded programs have pages in memory (`PagesOfLoaded`); so there are as
many used frames as pages of loaded programs, and Load aborts only if those and
its own are more than there are. `PrintingIsAtomic` needs that a call goes on in
step with the registers (`CallsInStep`, `CountedByRegisters`) and that the
display ends with the number of the program that has the console's lock
(`EndsWithHolder`).

**File system.** `AllocateTakesClearSectors` is about the function `Allocate`
alone: headers and data take the clear sectors in order, place by place
(`TakenInOrder`), no two places are the same (`PlacesAreDistinct`) and so no
sector is named twice; every header but the last is full (`IsFile`), which is
what `ByteToSector` divides by. `HeaderChain` is a recursive function; that
`FetchFrom` gives back what `WriteHeader` wrote, and stops, is `ChainIsFetched`
and `ChainFetched`.

`SystemFilesStay` is the invariant of the whole file system that survives a cut.
`SystemInv` says that the map's headers and the root's are those of the
formatting, that the map's parts mark all sectors of these two files, and that
everything else (the other headers, all tables, the operation's copies, the
open file) names only other sectors (`Outside`). None of it is invariant alone:
a header is only written outside because `Allocate` starts from a map that marks
the system's sectors, the map keeps these marks only because `Remove`
deallocates a file that names none of them, and a table is written outside, or
to the root's sector, because whatever can be found is there. It holds with any
number of cuts, and also when files share sectors after one. `TypeOK` follows.
Two things are assumed: that formatting succeeds, which the constructor asserts
(`filesys.cc:101-102`), and `UninitOutsideMap`: the variable that `OpenDir` may
leave unset does not happen to hold the sector of one of the map's headers.
Otherwise `Remove` of a file in the root writes its table over the map.

`OthersStaySound`, `NothingIsGarbled` and `FilesAreStored` hold for any number of
cuts, of the names that none leaves in doubt. The first two rest on `TreeInv`:
every trusted name found on the disk can be fetched, its sectors are its own and
marked, and each directory has a table (`TreeOK`).
In the middle of an operation that holds of all files but the one being worked
on, and `Creating`, `Copying`, `Removing` and `FdTree` say how that one differs
at each step: a new file's sectors are still clear on the disk's map until the
map is written, and are named by nobody until the parent's table is; a new
directory is named before its own table is written, so what its old sector
seems to name is discounted (`Junk`); a removed file's sectors are clear on the
disk's map one step before its name goes. It is the order of these writes that
the proof is about, and why neither property is inductive alone: `OthersSound`
says nothing of the file in work, yet the next `FindAndSet` depends on it. The
proof has one lemma per kind of write (a header, the map, a parent's table, a
new table, a block of data), each saying which files keep their sectors.
A cut is a step of the same invariant: what `Creating`, `Copying` or `Removing`
says of the file in work is what a reboot may leave, so the cases of `CutTree`
go by the place of the cut, and in each either the name is not in the table
yet, or it becomes one in doubt and takes what is below it along, or the
operation has written all it had to (`LeftIs`). The names in doubt stay out of
the way afterwards because a parent's table is only written through a trusted
name, and `FindAndSet` only hands out sectors that are clear, so that a trusted
file never takes those of another trusted one.
Their hypothesis, `UninitIsRoot`, is stronger than `UninitOutsideMap`: the unset
variable holds the root's sector or none. With the sector of another file in it,
`Remove` in the root writes the root's table over that file, so the properties
would be false.

`FilesAreStored` maps the file system to `FileStore`, on top of `TreeInv`. Of all
the writes to the disk two kinds change what `FileStore` speaks of. The write of
a parent's table adds the one name or takes it away, with what is below it
(`NamedInStore`, `RemovedInStore`), and leaves the contents of all other files
because a table is in no file's sectors (`TablePlace`). The write of data changes
the one place it is for: the files share no sector, and within a file
`ByteToSector` gives every position a sector of its own (`SectorsDiffer`), because
no header names a sector twice; that is part of what `Allocate` promises and of
`TreeInv` (`NamesOnce`). Headers, maps and the table of a new directory change no
entry of the tree, and neither does what reads, opens, closes, fails or ends
(`NothingWritten`); the open file keeps its path, since no two paths lead to one
sector (`OpenedIs`). A cut deletes the name it leaves in doubt and closes the
open file (`CutInStore`): nothing else is written, so the rest of the tree is
what it was. The theorem assumes `UninitIsRoot`, as above. That a name in doubt
has to be given up altogether is the code's doing: `Remove` writes the map
before the table, so after a cut between the two a file whose sectors are clear
still has its name, and the next file created overwrites it.

**Only model-checked.** Liveness (`AgingReachesL1`, `TestEnds`, `AllWritten`,
`Delivered`, `AllEnd`), which is out of the prover's reach; `SortIsInsertion` and
`AllocateIsByCalls`, which are about RECURSIVE operators that only TLC's modules
have.

**Not modelled**, inside the parts that are. `Condition::Broadcast`, which
nothing calls. Console input, which only `Kernel::ConsoleTest` uses. Load's
copying of code and data into the frames, and the system calls that take user
addresses for indices of `mainMemory`, which works only for a program whose
frames are 0, 1, 2... The byte layout of tables and maps on disk. Most of the
repository's lines are four copies of one kernel, two of them drafts, and the
headers of a cross compiler; the models cover the parts of it in which control
is the question.
