------------------------------- MODULE Programs -------------------------------
(***************************************************************************)
(* User programs on one machine (MP2, MP3): each loads into frames of its  *)
(* own, prints numbers on the shared console and exits, while threads are  *)
(* switched at any point where the kernel allows it.                       *)
(*                                                                         *)
(* The machine has one page table register and one set of registers;       *)
(* Scheduler::Run saves and restores them.  The user registers are reduced *)
(* to the number of print calls made, which is the program counter of a    *)
(* program that prints a few times and exits.  Which ready thread runs     *)
(* next is Scheduler's question; here it is any of them.                   *)
(***************************************************************************)
EXTENDS Synch, Integers, FiniteSets

CONSTANTS
    Program,          \* the threads of the programs in execfile
    NumPhysPages,
    MaxPages,         \* bound: the largest program has as many pages
    Numbers,          \* of each program, how many numbers it prints
    NumChars,         \* the characters of a number, the newline included
    None

ASSUME ProgramsAssumption ==
    /\ IsFiniteSet(Program)
    /\ None \notin Program \cup (Program \X (1..MaxPages))
    /\ NumPhysPages \in Nat
    /\ MaxPages \in Nat
    /\ Numbers \in [Program -> Nat]
    /\ NumChars \in Nat \ {0}

VARIABLES
    size,             \* the pages each executable needs
    current,          \* kernel->currentThread, or None when main has finished
    place,            \* where each program is
    usedPhyAddr,      \* kernel->UsedPhyAddr: the frames in use
    memory,           \* what each frame holds: <<program, page>> or None
    pageTable,        \* space->pageTable: of each space, the frames of its pages
    machineTable,     \* machine->pageTable
    userRegisters,    \* of each thread: its saved user registers
    registers,        \* machine->registers
    number,           \* of each thread: the argument of PutInt
    preempted,        \* the timer has preempted a thread and none has run since
    aborted,          \* Load met MemoryLimitException: an assertion ends the kernel
    display,          \* what the console device has put out
    lock, lockHolder, waitFor, putBusy, conInts, at, left
                      \* SynchConsoleOutput and the console device

Console == INSTANCE SynchDevice WITH
    Thread <- Program, semaphore <- waitFor, active <- putBusy,
    pending <- conInts

console == <<lock, lockHolder, waitFor, putBusy, conInts, at, left>>
memories == <<size, usedPhyAddr, memory>>
context == <<pageTable, machineTable, userRegisters, registers>>
progVars == <<memories, context, console, display, number,
              current, place, preempted, aborted>>

Frame == 0..(NumPhysPages - 1)
Free == Frame \ usedPhyAddr

Init ==
    /\ size \in [Program -> 1..MaxPages]
    /\ current = None
    /\ place = [p \in Program |-> "new"]
    /\ usedPhyAddr = {}
    /\ memory = [f \in Frame |-> None]
    /\ pageTable = [p \in Program |-> <<>>]
    /\ machineTable = <<>>
    /\ userRegisters = [p \in Program |-> 0]
    /\ registers = 0
    /\ number = [p \in Program |-> None]
    /\ preempted = FALSE
    /\ aborted = FALSE
    /\ display = <<>>
    /\ Console!Init

\* Threads on a ready list or the CPU.
Runnable(p) == place[p] # "finished" /\ p \notin Asleep(lock) \cup Asleep(waitFor)

\* Mutant: the page table is not saved and not restored.
SwitchesRegisters(q) ==
    /\ userRegisters' = [p \in Program |-> IF p = current THEN registers ELSE userRegisters[p]]
    /\ registers' = IF place[q] = "new" THEN registers ELSE userRegisters[q]
    /\ UNCHANGED <<pageTable, machineTable>>

\* Mutant: a thread resumes with the registers of the one it replaces.
SwitchesTable(q) ==
    /\ pageTable' = [p \in Program |-> IF p = current THEN machineTable ELSE pageTable[p]]
    /\ machineTable' = IF place[q] = "new" THEN machineTable ELSE pageTable[q]
    /\ UNCHANGED <<userRegisters, registers>>

\* Scheduler::Run: the old thread's state is saved.  A thread that has run
\* before restores its own; a new one starts in Begin, and finds the
\* machine as the other left it.
Switches(q) ==
    /\ userRegisters' = [p \in Program |-> IF p = current THEN registers ELSE userRegisters[p]]
    /\ pageTable' = [p \in Program |-> IF p = current THEN machineTable ELSE pageTable[p]]
    /\ registers' = IF place[q] = "new" THEN registers ELSE userRegisters[q]
    /\ machineTable' = IF place[q] = "new" THEN machineTable ELSE pageTable[q]

\* The CPU goes to q: the current thread sleeps or has finished, or the timer
\* preempts it.
Run(q) ==
    /\ ~aborted
    /\ q # current
    /\ Runnable(q)
    /\ IF current # None /\ Runnable(current)
       THEN ~preempted /\ preempted' = TRUE
       ELSE UNCHANGED preempted
    /\ Switches(q)
    /\ current' = q
    /\ place' = [place EXCEPT ![q] = IF @ = "new" THEN "begun" ELSE @]
    /\ UNCHANGED <<memories, console, display, number, aborted>>

\* What the thread on the CPU does.
Running(p, where) ==
    /\ ~aborted
    /\ current = p
    /\ place[p] = where
    /\ preempted' = FALSE

\* Mutant: the frames are not marked as used.
AllotsUnmarked(p, table) ==
    /\ machineTable' = table
    /\ memory' = [f \in Frame |->
            IF f \in Elements(table) THEN <<p, CHOOSE i \in 1..size[p] : table[i] = f>> ELSE memory[f]]
    /\ UNCHANGED usedPhyAddr

\* The frames of the table become p's, one for each page.
Allots(p, table) ==
    /\ machineTable' = table
    /\ memory' = [f \in Frame |->
            IF f \in Elements(table) THEN <<p, CHOOSE i \in 1..size[p] : table[i] = f>> ELSE memory[f]]
    /\ usedPhyAddr' = usedPhyAddr \cup Elements(table)

\* ForkExecute: Load, which gives p the lowest free frames, in the order of
\* its pages, and turns no interrupt on; and Execute, which makes the table and
\* the initial registers the machine's.
Load(p) ==
    /\ Running(p, "begun")
    /\ \E table \in [1..size[p] -> Free] :
        /\ \A i, j \in 1..size[p] : i < j => table[i] < table[j]
        /\ \A i \in 1..size[p], f \in Free \ Elements(table) : table[i] < f
        /\ Allots(p, table)
    /\ pageTable' = [pageTable EXCEPT ![p] = machineTable']
    /\ registers' = 0
    /\ place' = [place EXCEPT ![p] = "user"]
    /\ UNCHANGED <<size, userRegisters, console, display, number, current, aborted>>

\* Mutant: the last free frame is not given out.
LoadAbortsEarly(p) ==
    /\ Running(p, "begun")
    /\ size[p] >= Cardinality(Free)
    /\ aborted' = TRUE
    /\ UNCHANGED <<memories, context, console, display, number, current, place>>

\* Not enough frames: ExceptionHandler ends in ASSERTNOTREACHED.
LoadAborts(p) ==
    /\ Running(p, "begun")
    /\ size[p] > Cardinality(Free)
    /\ aborted' = TRUE
    /\ UNCHANGED <<memories, context, console, display, number, current, place>>

\* The executable is missing: ForkExecute returns and the thread finishes.
LoadFails(p) ==
    /\ Running(p, "begun")
    /\ place' = [place EXCEPT ![p] = "finished"]
    /\ UNCHANGED <<memories, context, console, display, number, current, aborted>>

\* The program whose code the machine executes: the owner of virtual page 1.
Executed == memory[machineTable[1]][1]

\* SC_PrintInt, to the call of PutInt.
PrintInt(p) ==
    /\ Running(p, "user")
    /\ registers < Numbers[Executed]
    /\ number' = [number EXCEPT ![p] = <<Executed, registers + 1>>]
    /\ Console!Call(p, NumChars)
    /\ place' = [place EXCEPT ![p] = "console"]
    /\ UNCHANGED <<memories, context, display, current, aborted>>

\* PutInt writes its next character.
PutChar(p) ==
    /\ Running(p, "console")
    /\ Console!Request(p)
    /\ display' = Append(display, <<number[p][1], number[p][2], NumChars - left'[p]>>)
    /\ UNCHANGED <<memories, context, number, current, place, aborted>>

\* The rest of PutInt: the lock, and the interrupt behind each character.
PutIntStep(p) ==
    /\ Running(p, "console")
    /\ Console!Acquire(p) \/ Console!Await(p) \/ Console!Release(p)
    /\ UNCHANGED <<memories, context, display, number, current, place, aborted>>

\* Mutant: handler and machine both move the program counter.
ReturnTwiceAhead(p) ==
    /\ Running(p, "console")
    /\ at[p] = "out"
    /\ registers' = registers + 2
    /\ place' = [place EXCEPT ![p] = "user"]
    /\ UNCHANGED <<memories, pageTable, machineTable, userRegisters, console,
                   display, number, current, aborted>>

\* ExceptionHandler, behind SysPrintInt: on to the next instruction.
Return(p) ==
    /\ Running(p, "console")
    /\ at[p] = "out"
    /\ registers' = registers + 1
    /\ place' = [place EXCEPT ![p] = "user"]
    /\ UNCHANGED <<memories, pageTable, machineTable, userRegisters, console,
                   display, number, current, aborted>>

\* SC_Exit: Finish.  Nothing gives the frames back.
Exit(p) ==
    /\ Running(p, "user")
    /\ registers = Numbers[Executed]
    /\ place' = [place EXCEPT ![p] = "finished"]
    /\ UNCHANGED <<memories, context, console, display, number, current, aborted>>

\* The console's interrupt, whoever runs.
ConsoleInterrupt ==
    /\ ~aborted
    /\ Console!CallBack
    /\ UNCHANGED <<memories, context, display, number, current, place, preempted, aborted>>

Next ==
    \/ ConsoleInterrupt
    \/ \E p \in Program :
        \/ Run(p)
        \/ Load(p) \/ LoadAborts(p) \/ LoadFails(p)
        \/ PrintInt(p) \/ PutChar(p) \/ PutIntStep(p) \/ Return(p)
        \/ Exit(p)

\* Some ready thread always runs, and an idle machine goes on to the next
\* interrupt.
Spec == Init /\ [][Next]_progVars /\ WF_progVars(Next)

-----------------------------------------------------------------------------
(* Properties                                                              *)

Loaded(p) == \E f \in Frame : memory[f] # None /\ memory[f][1] = p

\* The table and the registers that p runs with, or will.
TableOf(p) == IF p = current THEN machineTable ELSE pageTable[p]
RegistersOf(p) == IF p = current THEN registers ELSE userRegisters[p]

TypeOK ==
    /\ size \in [Program -> 1..MaxPages]
    /\ current \in Program \cup {None}
    /\ place \in [Program -> {"new", "begun", "user", "console", "finished"}]
    /\ usedPhyAddr \subseteq Frame
    /\ memory \in [Frame -> (Program \X (1..MaxPages)) \cup {None}]
    /\ pageTable \in [Program -> Seq(Frame)]
    /\ machineTable \in Seq(Frame)
    /\ userRegisters \in [Program -> Nat]
    /\ registers \in Nat
    /\ \A p \in Program : place[p] \in {"user", "console"} => RegistersOf(p) <= Numbers[p]
    /\ preempted \in BOOLEAN
    /\ aborted \in BOOLEAN
    /\ Console!TypeOK

\* While a loaded program lives, its pages are all there, each in a frame that
\* holds what Load put in it, whoever was loaded, preempted or finished in the
\* meantime; and so it never reads or writes another program's frames.
MemoryOfItsOwn ==
    \A p \in Program : place[p] \in {"user", "console"} =>
        /\ DOMAIN TableOf(p) = 1..size[p]
        /\ \A i \in 1..size[p] : memory[TableOf(p)[i]] = <<p, i>>

\* The kernel ends for want of frames only when the programs loaded so far,
\* finished ones too, and the one that is refused do not fit in memory.
PagesOf(S) == Cardinality({ x \in S \X (1..MaxPages) : x[2] <= size[x[1]] })
RefusedWhenFull ==
    aborted =>
        PagesOf({ p \in Program : p = current \/ Loaded(p) }) > NumPhysPages

\* The display shows the programs' numbers whole and in order, as if each
\* program had the machine to itself and print were one step.
Abstract == INSTANCE Printing
ImplementsPrinting == Abstract!Spec

\* If the programs fit in memory together, every one comes to its end, and has
\* printed all its numbers if it could be loaded.
PrintedAll(p) == Abstract!Begun(p) = 1..Numbers[p]
Ended == \A p \in Program : place[p] = "finished" /\ (Loaded(p) => PrintedAll(p))
AllEnd == (PagesOf(Program) <= NumPhysPages) => <>Ended
=============================================================================
