---------------------------- MODULE ProgramsProofs ----------------------------
(***************************************************************************)
(* Proofs about Programs, for any number of programs, pages and numbers:   *)
(* a loaded program finds its own pages wherever the CPU goes, one is      *)
(* refused only for want of frames, the console is asked for one character *)
(* at a time, and the numbers appear on the display as Printing allows.    *)
(***************************************************************************)
EXTENDS Programs, SynchProofs, FiniteSetTheorems, FunctionTheorems

ConsoleP == INSTANCE SynchDeviceProofs WITH
    Thread <- Program, semaphore <- waitFor, active <- putBusy,
    pending <- conInts

Live(p) == place[p] \in {"user", "console"}

\* The frames of a live program are in use, so Load gives them to nobody; and
\* a program that prints has a number left to print.
FramesInUse ==
    \A p \in Program : Live(p) => \A i \in 1..size[p] : TableOf(p)[i] \in usedPhyAddr
NumbersLeft ==
    \A p \in Program : place[p] = "console" => RegistersOf(p) < Numbers[p]

ProgInv ==
    /\ TypeOK
    /\ MemoryOfItsOwn
    /\ FramesInUse
    /\ NumbersLeft

-----------------------------------------------------------------------------
(* The console                                                             *)

\* A step of the programs is a step of the console's device or leaves it.
LEMMA StepsOfConsole == [Next]_progVars => [ConsoleP!Next]_(ConsoleP!deviceVars)
<1> SUFFICES ASSUME [Next]_progVars PROVE [ConsoleP!Next]_(ConsoleP!deviceVars)
    OBVIOUS
<1>1. CASE UNCHANGED progVars
    BY <1>1 DEF progVars, console, ConsoleP!deviceVars
<1>2. CASE ConsoleInterrupt
    <2>1. ConsoleP!CallBack
        BY <1>2 DEF ConsoleInterrupt, Console!CallBack, ConsoleP!CallBack, Console!V, ConsoleP!V
    <2> QED BY <2>1 DEF ConsoleP!Next
<1>3. ASSUME NEW p \in Program, Run(p) \/ Load(p) \/ LoadAborts(p) \/ LoadFails(p) \/ Return(p) \/ Exit(p)
      PROVE  UNCHANGED ConsoleP!deviceVars
    BY <1>3 DEF Run, Load, LoadAborts, LoadFails, Return, Exit, console, ConsoleP!deviceVars
<1>4. ASSUME NEW p \in Program, PrintInt(p) PROVE ConsoleP!Next
    <2>1. ConsoleP!Call(p, NumChars)
        BY <1>4 DEF PrintInt, Console!Call, ConsoleP!Call, Console!Move, ConsoleP!Move
    <2> QED BY <2>1, ProgramsAssumption DEF ConsoleP!Next
<1>5. ASSUME NEW p \in Program, PutChar(p) PROVE ConsoleP!Next
    <2>1. ConsoleP!Request(p)
        BY <1>5 DEF PutChar, Console!Request, ConsoleP!Request, Console!Move, ConsoleP!Move,
                    Console!P, ConsoleP!P, Console!Available, ConsoleP!Available
    <2> QED BY <2>1 DEF ConsoleP!Next, ConsoleP!Step
<1>6. ASSUME NEW p \in Program, PutIntStep(p) PROVE ConsoleP!Next
    <2>1. Console!Acquire(p) => ConsoleP!Acquire(p)
        BY DEF Console!Acquire, ConsoleP!Acquire, Console!Move, ConsoleP!Move, Console!P, ConsoleP!P,
               Console!Available, ConsoleP!Available, Console!Asleep, ConsoleP!Asleep,
               Console!Elements, ConsoleP!Elements
    <2>2. Console!Await(p) => ConsoleP!Await(p)
        BY DEF Console!Await, ConsoleP!Await, Console!Move, ConsoleP!Move, Console!P, ConsoleP!P,
               Console!Available, ConsoleP!Available, Console!Asleep, ConsoleP!Asleep,
               Console!Elements, ConsoleP!Elements
    <2>3. Console!Release(p) => ConsoleP!Release(p)
        BY DEF Console!Release, ConsoleP!Release, Console!Move, ConsoleP!Move, Console!V, ConsoleP!V
    <2> QED BY <1>6, <2>1, <2>2, <2>3 DEF PutIntStep, ConsoleP!Next, ConsoleP!Step
<1> QED BY <1>1, <1>2, <1>3, <1>4, <1>5, <1>6 DEF Next

LEMMA InitConsole == Init => ConsoleP!Init
    BY DEF Init, Console!Init, ConsoleP!Init, Console!NewSemaphore, ConsoleP!NewSemaphore

LEMMA ConsoleTypes == ConsoleP!TypeOK <=> Console!TypeOK
    BY DEF ConsoleP!TypeOK, Console!TypeOK, ConsoleP!Semaphores, Console!Semaphores

\* The console and its lock are used as SynchDevice describes: the device is
\* never asked while it is busy and no program is left asleep.
THEOREM ConsoleIsSafe == Spec => [](Console!OneAtATime /\ Console!NobodyForgotten)
<1>1. Spec => ConsoleP!Spec
    BY InitConsole, StepsOfConsole, PTL DEF Spec, ConsoleP!Spec
<1>2. ConsoleP!OneAtATime => Console!OneAtATime
    BY DEF ConsoleP!OneAtATime, Console!OneAtATime, ConsoleP!Owners, Console!Owners
<1>3. ConsoleP!NobodyForgotten => Console!NobodyForgotten
    BY DEF ConsoleP!NobodyForgotten, Console!NobodyForgotten, ConsoleP!Asleep, Console!Asleep,
           ConsoleP!Elements, Console!Elements
<1> QED BY <1>1, <1>2, <1>3, ConsoleP!AssertionsHold, ConsoleP!NobodyIsForgotten, PTL

-----------------------------------------------------------------------------
(* Memory and registers                                                    *)

\* What a live program runs with, in the terms of TypeOK.
LEMMA TablesAreFrames ==
    ASSUME TypeOK, NEW p \in Program
    PROVE  TableOf(p) \in Seq(Frame) /\ RegistersOf(p) \in Nat
    BY DEF TypeOK, TableOf, RegistersOf

\* The machine executes the program whose thread is on the CPU.
LEMMA ExecutesItself ==
    ASSUME TypeOK, MemoryOfItsOwn, NEW p \in Program, current = p, Live(p)
    PROVE  Executed = p
<1>1. 1 \in 1..size[p]
    <2>1. size[p] \in 1..MaxPages
        BY DEF TypeOK
    <2> QED BY <2>1, ProgramsAssumption
<1>2. memory[machineTable[1]] = <<p, 1>>
    BY <1>1 DEF MemoryOfItsOwn, TableOf, Live
<1> QED BY <1>2 DEF Executed

\* Steps that leave the memory, and the tables of the programs that live.
LEMMA MemoryUntouched ==
    ASSUME MemoryOfItsOwn, FramesInUse, UNCHANGED memories,
           \A p \in Program : Live(p)' => Live(p) /\ TableOf(p)' = TableOf(p)
    PROVE  MemoryOfItsOwn' /\ FramesInUse'
    BY DEF MemoryOfItsOwn, FramesInUse, Live, memories

LEMMA InitProgInv == Init => ProgInv
<1> SUFFICES ASSUME Init PROVE ProgInv
    OBVIOUS
<1> USE DEF Init
<1>1. Console!TypeOK
    BY InitConsole, ConsoleTypes, ConsoleP!InitDeviceInv DEF ConsoleP!DeviceInv
<1>2. \A p \in Program : place[p] = "new"
    OBVIOUS
<1>3. TypeOK
    <2>1. <<>> \in Seq(Frame)
        OBVIOUS
    <2>2. /\ \A p \in Program : ~Live(p)
          /\ pageTable \in [Program -> Seq(Frame)] /\ machineTable \in Seq(Frame)
          /\ userRegisters \in [Program -> Nat] /\ registers \in Nat
        BY <2>1 DEF Live
    <2>3. /\ size \in [Program -> 1..MaxPages] /\ current \in Program \cup {None}
          /\ usedPhyAddr \subseteq Frame
          /\ memory \in [Frame -> (Program \X (1..MaxPages)) \cup {None}]
          /\ place \in [Program -> {"new", "begun", "user", "console", "finished"}]
        OBVIOUS
    <2>4. preempted \in BOOLEAN /\ aborted \in BOOLEAN
        OBVIOUS
    <2> HIDE DEF Init
    <2> QED BY <1>1, <2>2, <2>3, <2>4 DEF TypeOK, Live
<1> HIDE DEF Init
<1> QED BY <1>2, <1>3 DEF ProgInv, MemoryOfItsOwn, FramesInUse, NumbersLeft, Live

\* Scheduler::Run: the tables and registers of all threads but a new one are
\* what they were.
LEMMA RunKeeps ==
    ASSUME ProgInv, Console!TypeOK', NEW q \in Program, Run(q)
    PROVE  ProgInv'
<1> USE DEF Run, Switches
<1>0. TypeOK /\ MemoryOfItsOwn /\ FramesInUse /\ NumbersLeft
    BY DEF ProgInv
<1>1. \A p \in Program : p # q => /\ place'[p] = place[p]
                                  /\ TableOf(p)' = TableOf(p)
                                  /\ RegistersOf(p)' = RegistersOf(p)
    BY <1>0 DEF TypeOK, TableOf, RegistersOf
<1>2. /\ place'[q] = IF place[q] = "new" THEN "begun" ELSE place[q]
      /\ place[q] # "new" => TableOf(q)' = TableOf(q) /\ RegistersOf(q)' = RegistersOf(q)
    BY <1>0 DEF TypeOK, TableOf, RegistersOf
<1>3. \A p \in Program : place'[p] \in {"user", "console"} =>
        place'[p] = place[p] /\ TableOf(p)' = TableOf(p) /\ RegistersOf(p)' = RegistersOf(p)
    BY <1>1, <1>2
<1>4. TypeOK'
    <2>1. /\ userRegisters' \in [Program -> Nat] /\ registers' \in Nat
          /\ pageTable' \in [Program -> Seq(Frame)] /\ machineTable' \in Seq(Frame)
        BY <1>0 DEF TypeOK
    <2>2. \A p \in Program : place'[p] \in {"user", "console"} => RegistersOf(p)' <= Numbers[p]
        BY <1>0, <1>3 DEF TypeOK
    <2>3. place' \in [Program -> {"new", "begun", "user", "console", "finished"}]
        BY <1>0 DEF TypeOK
    <2>4. preempted' \in BOOLEAN
        BY <1>0 DEF TypeOK
    <2> QED BY <1>0, <2>1, <2>2, <2>3, <2>4 DEF TypeOK, memories, Frame
<1>5. MemoryOfItsOwn' /\ FramesInUse'
    <2>1. \A p \in Program : Live(p)' => Live(p) /\ TableOf(p)' = TableOf(p)
        BY <1>3 DEF Live
    <2> QED BY <1>0, <2>1, MemoryUntouched
<1>6. NumbersLeft'
    BY <1>0, <1>3 DEF NumbersLeft
<1> QED BY <1>4, <1>5, <1>6 DEF ProgInv

\* Load: the pages of the new program are its own, and those of the others are
\* where they were.
LEMMA LoadKeeps ==
    ASSUME ProgInv, Console!TypeOK', NEW p \in Program, Load(p)
    PROVE  ProgInv'
<1>0. /\ TypeOK /\ MemoryOfItsOwn /\ FramesInUse /\ NumbersLeft
      /\ current = p /\ current' = p /\ preempted' = FALSE /\ aborted' = aborted
      /\ size' = size /\ registers' = 0 /\ userRegisters' = userRegisters
      /\ place' = [place EXCEPT ![p] = "user"]
      /\ pageTable' = [pageTable EXCEPT ![p] = machineTable']
    BY DEF ProgInv, Load, Running
<1>1. PICK table \in [1..size[p] -> Free] :
        /\ \A i, j \in 1..size[p] : i < j => table[i] < table[j]
        /\ Allots(p, table)
    BY DEF Load
<1>2. /\ machineTable' = table
      /\ memory' = [f \in Frame |->
            IF f \in Elements(table) THEN <<p, CHOOSE i \in 1..size[p] : table[i] = f>> ELSE memory[f]]
      /\ usedPhyAddr' = usedPhyAddr \cup Elements(table)
    BY <1>1 DEF Allots
<1>3. /\ size[p] \in 1..MaxPages /\ size[p] \in Nat /\ MaxPages \in Nat /\ NumPhysPages \in Nat
      /\ \A i \in 1..size[p] : table[i] \in Frame /\ table[i] \notin usedPhyAddr /\ table[i] \in Int
      /\ DOMAIN table = 1..size[p]
    BY <1>0, <1>1, ProgramsAssumption DEF TypeOK, Free, Frame
<1>4. \A i, j \in 1..size[p] : table[i] = table[j] => i = j
    BY <1>1, <1>3
<1>5. \A f : f \in Elements(table) <=> \E i \in 1..size[p] : f = table[i]
    BY <1>3 DEF Elements
<1>6. \A i \in 1..size[p] : memory'[table[i]] = <<p, i>>
    <2> SUFFICES ASSUME NEW i \in 1..size[p] PROVE memory'[table[i]] = <<p, i>>
        OBVIOUS
    <2>1. (CHOOSE j \in 1..size[p] : table[j] = table[i]) = i
        BY <1>4
    <2>2. table[i] \in Frame /\ table[i] \in Elements(table)
        BY <1>3, <1>5
    <2> QED BY <1>2, <2>1, <2>2
<1>7. \A f \in Frame : f \in usedPhyAddr => memory'[f] = memory[f] /\ f \in usedPhyAddr'
    BY <1>2, <1>3, <1>5
<1>8. \A q \in Program : q # p => /\ place'[q] = place[q]
                                  /\ TableOf(q)' = TableOf(q) /\ RegistersOf(q)' = RegistersOf(q)
    BY <1>0 DEF TypeOK, TableOf, RegistersOf
<1>9. TableOf(p)' = table /\ RegistersOf(p)' = 0 /\ place'[p] = "user"
    BY <1>0, <1>2 DEF TypeOK, TableOf, RegistersOf
<1>10. \A q \in Program : q # p /\ Live(q)' =>
        /\ DOMAIN TableOf(q) = 1..size[q]
        /\ \A i \in 1..size[q] : /\ TableOf(q)[i] \in Frame /\ TableOf(q)[i] \in usedPhyAddr
                                 /\ memory[TableOf(q)[i]] = <<q, i>>
    <2> SUFFICES ASSUME NEW q \in Program, q # p, Live(q)'
                 PROVE  /\ DOMAIN TableOf(q) = 1..size[q]
                        /\ \A i \in 1..size[q] : /\ TableOf(q)[i] \in Frame /\ TableOf(q)[i] \in usedPhyAddr
                                                 /\ memory[TableOf(q)[i]] = <<q, i>>
        OBVIOUS
    <2>1. Live(q)
        BY <1>8 DEF Live
    <2>2. TableOf(q) \in Seq(Frame)
        BY <1>0, TablesAreFrames
    <2> HIDE <1>1, <1>2
    <2>3. \A i \in DOMAIN TableOf(q) : TableOf(q)[i] \in Frame
        BY <2>2
    <2> QED BY <1>0, <2>1, <2>3 DEF MemoryOfItsOwn, FramesInUse, Live
<1>11. MemoryOfItsOwn'
    <2>1. ASSUME NEW q \in Program, Live(q)', q # p
          PROVE  DOMAIN TableOf(q)' = 1..size[q] /\ \A i \in 1..size[q] : memory'[TableOf(q)'[i]] = <<q, i>>
        BY <1>7, <1>8, <1>10, <2>1
    <2>2. DOMAIN TableOf(p)' = 1..size[p] /\ \A i \in 1..size[p] : memory'[TableOf(p)'[i]] = <<p, i>>
        BY <1>3, <1>6, <1>9
    <2> QED BY <1>0, <2>1, <2>2 DEF MemoryOfItsOwn, Live
<1>12. FramesInUse'
    <2>1. ASSUME NEW q \in Program, Live(q)', q # p
          PROVE  \A i \in 1..size[q] : TableOf(q)'[i] \in usedPhyAddr'
        BY <1>7, <1>8, <1>10, <2>1
    <2>2. \A i \in 1..size[p] : TableOf(p)'[i] \in usedPhyAddr'
        BY <1>2, <1>5, <1>9
    <2> QED BY <1>0, <2>1, <2>2 DEF FramesInUse
<1>13. NumbersLeft'
    BY <1>0, <1>8, <1>9 DEF NumbersLeft
<1>14. TypeOK'
    <2>1. machineTable' \in Seq(Frame)
        <3>1. table \in [1..size[p] -> Frame]
            BY <1>1 DEF Free
        <3> QED BY <1>2, <1>3, <3>1, SeqDef
    <2>2. usedPhyAddr' \subseteq Frame
        BY <1>0, <1>2, <1>3, <1>5 DEF TypeOK
    <2>3. memory' \in [Frame -> (Program \X (1..MaxPages)) \cup {None}]
        <3> SUFFICES ASSUME NEW f \in Frame PROVE memory'[f] \in (Program \X (1..MaxPages)) \cup {None}
            BY <1>2
        <3>1. CASE f \in Elements(table)
            <4>1. PICK i \in 1..size[p] : f = table[i]
                BY <1>5, <3>1
            <4>2. memory'[f] = <<p, i>>
                BY <1>6, <4>1
            <4>3. i \in 1..MaxPages
                BY <1>3
            <4> QED BY <4>2, <4>3
        <3>2. CASE f \notin Elements(table)
            BY <1>0, <1>2, <3>2 DEF TypeOK
        <3> QED BY <3>1, <3>2
    <2>4. \A q \in Program : place'[q] \in {"user", "console"} => RegistersOf(q)' <= Numbers[q]
        <3>1. Numbers[p] \in Nat
            BY ProgramsAssumption
        <3> QED BY <1>0, <1>8, <1>9, <3>1 DEF TypeOK
    <2>5. pageTable' \in [Program -> Seq(Frame)] /\ place' \in [Program -> {"new", "begun", "user", "console", "finished"}]
        BY <1>0, <2>1 DEF TypeOK
    <2>6. registers' \in Nat /\ preempted' \in BOOLEAN
        BY <1>0
    <2> QED BY <1>0, <2>1, <2>2, <2>3, <2>4, <2>5, <2>6 DEF TypeOK, Frame
<1> QED BY <1>11, <1>12, <1>13, <1>14 DEF ProgInv

\* Steps of a thread on the CPU that leave memory, tables and registers, and
\* make no program live.
LEMMA QuietSteps ==
    ASSUME ProgInv, Console!TypeOK', UNCHANGED <<memories, context, current>>,
           preempted' \in BOOLEAN, aborted' \in BOOLEAN,
           place' \in [Program -> {"new", "begun", "user", "console", "finished"}],
           \A p \in Program : Live(p)' => Live(p),
           \A p \in Program : place'[p] = "console" => RegistersOf(p) < Numbers[p]
    PROVE  ProgInv'
<1>0. TypeOK /\ MemoryOfItsOwn /\ FramesInUse /\ NumbersLeft
    BY DEF ProgInv
<1>1. \A p \in Program : TableOf(p)' = TableOf(p) /\ RegistersOf(p)' = RegistersOf(p)
    BY DEF TableOf, RegistersOf, context
<1>2. TypeOK'
    BY <1>0, <1>1 DEF TypeOK, memories, context, Live, Frame
<1>3. MemoryOfItsOwn' /\ FramesInUse'
    BY <1>0, <1>1, MemoryUntouched
<1>4. NumbersLeft'
    BY <1>1 DEF NumbersLeft
<1> QED BY <1>2, <1>3, <1>4 DEF ProgInv

LEMMA QuietKeep ==
    ASSUME ProgInv, Console!TypeOK', NEW p \in Program,
           \/ LoadAborts(p) \/ LoadFails(p) \/ PrintInt(p) \/ PutChar(p)
           \/ PutIntStep(p) \/ Exit(p)
    PROVE  ProgInv'
<1>0. TypeOK /\ MemoryOfItsOwn /\ NumbersLeft
    BY DEF ProgInv
<1>1. preempted \in BOOLEAN /\ aborted \in BOOLEAN /\ TRUE \in BOOLEAN /\ FALSE \in BOOLEAN
    BY <1>0 DEF TypeOK
<1>2. /\ UNCHANGED <<memories, context, current>>
      /\ preempted' \in {preempted, FALSE}
      /\ aborted' \in {aborted, TRUE}
    BY DEF LoadAborts, LoadFails, PrintInt, PutChar, PutIntStep, Exit, Running
<1>3. \/ place' = place
      \/ place' = [place EXCEPT ![p] = "finished"]
      \/ PrintInt(p) /\ place' = [place EXCEPT ![p] = "console"]
    BY DEF LoadAborts, LoadFails, PrintInt, PutChar, PutIntStep, Exit
<1>4. PrintInt(p) => Live(p) /\ RegistersOf(p) < Numbers[p]
    <2> SUFFICES ASSUME PrintInt(p) PROVE Live(p) /\ RegistersOf(p) < Numbers[p]
        OBVIOUS
    <2>1. current = p /\ Live(p) /\ registers < Numbers[Executed]
        BY DEF PrintInt, Running, Live
    <2>2. Executed = p
        BY <1>0, <2>1, ExecutesItself
    <2> QED BY <2>1, <2>2 DEF RegistersOf
<1>5. place' \in [Program -> {"new", "begun", "user", "console", "finished"}]
    BY <1>0, <1>3 DEF TypeOK
<1>6. \A q \in Program : Live(q)' => Live(q)
    BY <1>0, <1>3, <1>4 DEF Live, TypeOK
<1>7. \A q \in Program : place'[q] = "console" => RegistersOf(q) < Numbers[q]
    BY <1>0, <1>3, <1>4 DEF NumbersLeft, TypeOK
<1>8. preempted' \in BOOLEAN /\ aborted' \in BOOLEAN
    BY <1>1, <1>2
<1> QED BY <1>2, <1>5, <1>6, <1>7, <1>8, QuietSteps

LEMMA ReturnKeeps ==
    ASSUME ProgInv, Console!TypeOK', NEW p \in Program, Return(p)
    PROVE  ProgInv'
<1>0. /\ TypeOK /\ MemoryOfItsOwn /\ FramesInUse /\ NumbersLeft
      /\ current = p /\ current' = p /\ place[p] = "console"
      /\ registers' = registers + 1 /\ place' = [place EXCEPT ![p] = "user"]
      /\ preempted' = FALSE /\ aborted' = aborted
      /\ UNCHANGED <<memories, pageTable, machineTable, userRegisters>>
    BY DEF ProgInv, Return, Running
<1>1. \A q \in Program : TableOf(q)' = TableOf(q)
    BY <1>0 DEF TableOf
<1>2. \A q \in Program : q # p => place'[q] = place[q] /\ RegistersOf(q)' = RegistersOf(q)
    BY <1>0 DEF TypeOK, RegistersOf
<1>3. place'[p] = "user" /\ RegistersOf(p)' <= Numbers[p]
    <2>1. registers < Numbers[p] /\ registers \in Nat /\ Numbers[p] \in Nat
        BY <1>0, ProgramsAssumption DEF NumbersLeft, RegistersOf, TypeOK
    <2>2. RegistersOf(p)' = registers + 1
        BY <1>0 DEF RegistersOf
    <2>3. place'[p] = "user"
        BY <1>0 DEF TypeOK
    <2> QED BY <2>1, <2>2, <2>3
<1>4. TypeOK'
    <2>1. registers' \in Nat
        BY <1>0 DEF TypeOK
    <2>2. place' \in [Program -> {"new", "begun", "user", "console", "finished"}]
        BY <1>0 DEF TypeOK
    <2>3. \A q \in Program : place'[q] \in {"user", "console"} => RegistersOf(q)' <= Numbers[q]
        BY <1>0, <1>2, <1>3 DEF TypeOK
    <2>4. preempted' \in BOOLEAN
        BY <1>0
    <2> QED BY <1>0, <2>1, <2>2, <2>3, <2>4 DEF TypeOK, memories, Frame
<1>5. MemoryOfItsOwn' /\ FramesInUse'
    <2>1. \A q \in Program : Live(q)' => Live(q)
        BY <1>0, <1>2 DEF Live
    <2> QED BY <1>0, <1>1, <2>1, MemoryUntouched
<1>6. NumbersLeft'
    BY <1>0, <1>2, <1>3 DEF NumbersLeft
<1> QED BY <1>4, <1>5, <1>6 DEF ProgInv

LEMMA ProgInvariant == Spec => [](ProgInv /\ ConsoleP!DeviceInv)
<1>1. Init => ProgInv /\ ConsoleP!DeviceInv
    BY InitProgInv, InitConsole, ConsoleP!InitDeviceInv
<1>2. ProgInv /\ ConsoleP!DeviceInv /\ [Next]_progVars => (ProgInv /\ ConsoleP!DeviceInv)'
    <2> SUFFICES ASSUME ProgInv, ConsoleP!DeviceInv, [Next]_progVars
                 PROVE  (ProgInv /\ ConsoleP!DeviceInv)'
        OBVIOUS
    <2>1. ConsoleP!DeviceInv'
        BY StepsOfConsole, ConsoleP!NextDeviceInv
    <2>2. Console!TypeOK'
        <3>1. ConsoleP!TypeOK'
            BY <2>1 DEF ConsoleP!DeviceInv
        <3>2. ConsoleP!TypeOK' <=> Console!TypeOK'
            BY DEF ConsoleP!TypeOK, Console!TypeOK, ConsoleP!Semaphores, Console!Semaphores
        <3> QED BY <3>1, <3>2
    <2>3. ASSUME UNCHANGED progVars \/ ConsoleInterrupt PROVE ProgInv'
        <3>1. UNCHANGED <<memories, context, current, place, preempted, aborted>>
            BY <2>3 DEF progVars, ConsoleInterrupt
        <3>2. preempted' \in BOOLEAN /\ aborted' \in BOOLEAN
            BY <3>1 DEF ProgInv, TypeOK
        <3>3. place' \in [Program -> {"new", "begun", "user", "console", "finished"}]
            BY <3>1 DEF ProgInv, TypeOK
        <3>4. \A p \in Program : Live(p)' => Live(p)
            BY <3>1 DEF Live
        <3>5. \A p \in Program : place'[p] = "console" => RegistersOf(p) < Numbers[p]
            BY <3>1 DEF ProgInv, NumbersLeft
        <3> QED BY <2>2, <3>1, <3>2, <3>3, <3>4, <3>5, QuietSteps
    <2>4. ASSUME NEW p \in Program, Run(p) PROVE ProgInv'
        BY <2>2, <2>4, RunKeeps
    <2>5. ASSUME NEW p \in Program, Load(p) PROVE ProgInv'
        BY <2>2, <2>5, LoadKeeps
    <2>6. ASSUME NEW p \in Program, Return(p) PROVE ProgInv'
        BY <2>2, <2>6, ReturnKeeps
    <2>7. ASSUME NEW p \in Program,
                 LoadAborts(p) \/ LoadFails(p) \/ PrintInt(p) \/ PutChar(p) \/ PutIntStep(p) \/ Exit(p)
          PROVE  ProgInv'
        BY <2>2, <2>7, QuietKeep
    <2> QED BY <2>1, <2>3, <2>4, <2>5, <2>6, <2>7 DEF Next
<1> QED BY <1>1, <1>2, PTL DEF Spec

\* The variables keep their types; a program never makes more print calls than
\* it contains.
THEOREM TypeCorrect == Spec => []TypeOK
<1>1. ProgInv => TypeOK
    BY DEF ProgInv
<1> QED BY <1>1, ProgInvariant, PTL

\* A live program has its own pages, whoever else was loaded or has run.
THEOREM MemoryIsItsOwn == Spec => []MemoryOfItsOwn
<1>1. ProgInv => MemoryOfItsOwn
    BY DEF ProgInv
<1> QED BY <1>1, ProgInvariant, PTL

-----------------------------------------------------------------------------
(* Frames                                                                  *)

\* Programs that have been loaded, or ended without.
Placed(p) == place[p] \in {"user", "console", "finished"}

\* The frames in use are the ones that hold a page; no page is in two frames,
\* and each is a page of a program that was loaded.
UsedHoldPages == \A f \in Frame : f \in usedPhyAddr <=> memory[f] # None
PagesInOneFrame == \A f, g \in Frame : memory[f] # None /\ memory[f] = memory[g] => f = g
PagesOfLoaded ==
    \A f \in Frame : memory[f] # None =>
        /\ memory[f][2] <= size[memory[f][1]]
        /\ Placed(memory[f][1])

FrameInv == UsedHoldPages /\ PagesInOneFrame /\ PagesOfLoaded

LEMMA PagesAreNotNone ==
    ASSUME NEW p \in Program, NEW i \in 1..MaxPages
    PROVE  <<p, i>> # None
    BY ProgramsAssumption

LEMMA FramesKept ==
    ASSUME FrameInv, TypeOK, UNCHANGED memories, \A p \in Program : Placed(p) => Placed(p)'
    PROVE  FrameInv'
<1>1. \A f \in Frame : memory[f] # None => memory[f][1] \in Program
    BY DEF TypeOK
<1> QED BY <1>1 DEF FrameInv, UsedHoldPages, PagesInOneFrame, PagesOfLoaded, memories

LEMMA FramesAllotted ==
    ASSUME ProgInv, FrameInv, NEW p \in Program, Load(p)
    PROVE  FrameInv'
<1>0. /\ TypeOK /\ UsedHoldPages /\ PagesInOneFrame /\ PagesOfLoaded
      /\ place[p] = "begun" /\ place' = [place EXCEPT ![p] = "user"] /\ size' = size
    BY DEF ProgInv, FrameInv, Load, Running
<1>1. PICK table \in [1..size[p] -> Free] :
        /\ \A i, j \in 1..size[p] : i < j => table[i] < table[j]
        /\ Allots(p, table)
    BY DEF Load
<1>2. /\ memory' = [f \in Frame |->
            IF f \in Elements(table) THEN <<p, CHOOSE i \in 1..size[p] : table[i] = f>> ELSE memory[f]]
      /\ usedPhyAddr' = usedPhyAddr \cup Elements(table)
    BY <1>1 DEF Allots
<1>3. /\ size[p] \in 1..MaxPages /\ size[p] \in Nat /\ MaxPages \in Nat /\ NumPhysPages \in Nat
      /\ \A i \in 1..size[p] : table[i] \in Frame /\ table[i] \notin usedPhyAddr /\ table[i] \in Int
      /\ DOMAIN table = 1..size[p]
    BY <1>0, <1>1, ProgramsAssumption DEF TypeOK, Free, Frame
<1>4. \A i, j \in 1..size[p] : table[i] = table[j] => i = j
    BY <1>1, <1>3
<1>5. \A f : f \in Elements(table) <=> \E i \in 1..size[p] : f = table[i]
    BY <1>3 DEF Elements
<1>6. \A i \in 1..size[p] : memory'[table[i]] = <<p, i>>
    <2> SUFFICES ASSUME NEW i \in 1..size[p] PROVE memory'[table[i]] = <<p, i>>
        OBVIOUS
    <2>1. (CHOOSE j \in 1..size[p] : table[j] = table[i]) = i
        BY <1>4
    <2>2. table[i] \in Frame /\ table[i] \in Elements(table)
        BY <1>3, <1>5
    <2> QED BY <1>2, <2>1, <2>2
<1>7. \A f \in Frame : f \notin Elements(table) =>
        /\ memory'[f] = memory[f]
        /\ memory[f] # None => memory[f][1] \in Program /\ Placed(memory[f][1]) /\ memory[f][1] # p
    BY <1>0, <1>2 DEF TypeOK, PagesOfLoaded, Placed
<1>8. \A i \in 1..size[p] : i \in 1..MaxPages /\ <<p, i>> # None
    BY <1>3, PagesAreNotNone
<1>9. Placed(p)' /\ \A q \in Program : Placed(q) => Placed(q)'
    BY <1>0 DEF Placed, TypeOK
<1>10. UsedHoldPages'
    BY <1>0, <1>2, <1>5, <1>6, <1>7, <1>8 DEF UsedHoldPages, Frame
<1>11. PagesInOneFrame'
    <2> SUFFICES ASSUME NEW f \in Frame, NEW g \in Frame, memory'[f] # None, memory'[f] = memory'[g]
                 PROVE  f = g
        BY DEF PagesInOneFrame, Frame
    <2>1. CASE f \in Elements(table) /\ g \in Elements(table)
        <3>1. PICK i \in 1..size[p] : f = table[i]
            BY <1>5, <2>1
        <3>2. PICK j \in 1..size[p] : g = table[j]
            BY <1>5, <2>1
        <3>3. <<p, i>> = <<p, j>>
            BY <1>6, <3>1, <3>2
        <3> QED BY <3>1, <3>2, <3>3
    <2>2. CASE f \in Elements(table) /\ g \notin Elements(table)
        BY <1>5, <1>6, <1>7, <2>2
    <2>3. CASE f \notin Elements(table) /\ g \in Elements(table)
        <3>1. PICK j \in 1..size[p] : g = table[j]
            BY <1>5, <2>3
        <3>2. memory'[g] = <<p, j>>
            BY <1>6, <3>1
        <3>3. memory[f] = <<p, j>> /\ memory[f] # None
            BY <1>7, <2>3, <3>2
        <3>4. memory[f][1] = p
            BY <3>3
        <3> QED BY <1>7, <2>3, <3>3, <3>4
    <2>4. CASE f \notin Elements(table) /\ g \notin Elements(table)
        BY <1>0, <1>7, <2>4 DEF PagesInOneFrame
    <2> QED BY <2>1, <2>2, <2>3, <2>4
<1>12. PagesOfLoaded'
    <2> SUFFICES ASSUME NEW f \in Frame, memory'[f] # None
                 PROVE  /\ memory'[f][2] <= size[memory'[f][1]]
                        /\ place'[memory'[f][1]] \in {"user", "console", "finished"}
        BY <1>0 DEF PagesOfLoaded, Placed, Frame
    <2>1. CASE f \in Elements(table)
        <3>1. PICK i \in 1..size[p] : f = table[i]
            BY <1>5, <2>1
        <3>2. memory'[f] = <<p, i>>
            BY <1>6, <3>1
        <3>3. memory'[f][1] = p /\ memory'[f][2] = i
            BY <3>2
        <3>4. i <= size[p] /\ place'[p] \in {"user", "console", "finished"}
            BY <1>3, <1>9 DEF Placed
        <3> QED BY <3>3, <3>4
    <2>2. CASE f \notin Elements(table)
        <3>1. memory'[f] = memory[f] /\ memory[f] # None /\ memory[f][1] \in Program /\ Placed(memory[f][1])
            BY <1>7, <2>2
        <3>2. \A q \in Program : Placed(q) => place'[q] \in {"user", "console", "finished"}
            BY <1>9 DEF Placed
        <3> QED BY <1>0, <3>1, <3>2 DEF PagesOfLoaded
    <2> QED BY <2>1, <2>2
<1> QED BY <1>10, <1>11, <1>12 DEF FrameInv

\* The frames of the loaded programs and the pages of the one that is refused
\* are more than there are.
LEMMA RefusalIsRight ==
    ASSUME TypeOK, FrameInv, NEW p \in Program, LoadAborts(p)
    PROVE  RefusedWhenFull'
<1> DEFINE In == { q \in Program : q = p \/ Loaded(q) }
           Pages(S) == { x \in S \X (1..MaxPages) : x[2] <= size[x[1]] }
           Mine == { x \in {p} \X (1..MaxPages) : x[2] <= size[x[1]] }
           Held == { memory[f] : f \in usedPhyAddr }
<1>0. /\ UsedHoldPages /\ PagesInOneFrame /\ PagesOfLoaded
      /\ current = p /\ place[p] = "begun" /\ size[p] > Cardinality(Free)
      /\ UNCHANGED <<size, current, memory>>
    BY DEF FrameInv, LoadAborts, Running, memories
<1>1. /\ NumPhysPages \in Nat /\ MaxPages \in Nat /\ size[p] \in 1..MaxPages
      /\ usedPhyAddr \subseteq Frame
    BY ProgramsAssumption DEF TypeOK
<1>2. IsFiniteSet(Frame) /\ Cardinality(Frame) = NumPhysPages
    BY <1>1, FS_Interval DEF Frame
<1>3. /\ IsFiniteSet(usedPhyAddr) /\ IsFiniteSet(Free)
      /\ Cardinality(usedPhyAddr) \in Nat /\ Cardinality(Free) \in Nat
      /\ Cardinality(Free) = NumPhysPages - Cardinality(usedPhyAddr)
    <2>1. Frame \cap usedPhyAddr = usedPhyAddr
        BY <1>1
    <2>2. IsFiniteSet(usedPhyAddr) /\ IsFiniteSet(Free)
        BY <1>1, <1>2, FS_Subset DEF Free
    <2>3. Cardinality(Free) = Cardinality(Frame) - Cardinality(usedPhyAddr)
        BY <1>2, <2>1, FS_Difference DEF Free
    <2> QED BY <1>2, <2>2, <2>3, FS_CardinalityType
<1>4. IsFiniteSet(Pages(In))
    <2>1. IsFiniteSet(In)
        BY ProgramsAssumption, FS_Subset
    <2>2. IsFiniteSet(1..MaxPages)
        BY <1>1, FS_Interval
    <2>3. IsFiniteSet(In \X (1..MaxPages))
        BY <2>1, <2>2, FS_Product
    <2> QED BY <2>3, FS_Subset
<1>5. Held \subseteq Pages(In) /\ Held \cap Mine = {}
    <2> SUFFICES ASSUME NEW f \in usedPhyAddr
                 PROVE  memory[f] \in Pages(In) /\ memory[f] \notin Mine
        OBVIOUS
    <2>1. f \in Frame /\ memory[f] # None
        BY <1>0, <1>1 DEF UsedHoldPages
    <2>2. memory[f] \in Program \X (1..MaxPages)
        BY <2>1 DEF TypeOK
    <2>3. memory[f][1] # p /\ memory[f][2] <= size[memory[f][1]]
        BY <1>0, <2>1 DEF PagesOfLoaded, Placed
    <2>4. Loaded(memory[f][1])
        BY <2>1 DEF Loaded
    <2> QED BY <2>2, <2>3, <2>4
<1>6. IsFiniteSet(Held) /\ Cardinality(Held) = Cardinality(usedPhyAddr)
    <2> DEFINE g == [f \in usedPhyAddr |-> memory[f]]
    <2>1. g \in Bijection(usedPhyAddr, Held)
        <3>1. g \in [usedPhyAddr -> Held]
            OBVIOUS
        <3>2. \A f, h \in usedPhyAddr : g[f] = g[h] => f = h
            BY <1>0, <1>1 DEF UsedHoldPages, PagesInOneFrame
        <3>3. \A x \in Held : \E f \in usedPhyAddr : g[f] = x
            OBVIOUS
        <3> HIDE DEF g, Held
        <3> QED BY <3>1, <3>2, <3>3, Fun_IsBij
    <2>2. ExistsBijection(usedPhyAddr, Held)
        BY <2>1 DEF ExistsBijection
    <2> QED BY <1>3, <2>2, FS_Bijection
<1>7. Mine \subseteq Pages(In) /\ IsFiniteSet(Mine) /\ Cardinality(Mine) = size[p]
    <2>1. p \in In
        OBVIOUS
    <2>2. Mine = {p} \X (1..size[p])
        BY <1>1
    <2>3. /\ IsFiniteSet({p}) /\ Cardinality({p}) = 1
          /\ IsFiniteSet(1..size[p]) /\ Cardinality(1..size[p]) = size[p]
        <3>1. IsFiniteSet({p}) /\ Cardinality({p}) = 1
            BY FS_Singleton
        <3>2. size[p] \in Nat /\ 1 \in Int /\ size[p] \in Int /\ ~(1 > size[p])
            BY <1>1
        <3>3. IsFiniteSet(1..size[p]) /\ Cardinality(1..size[p]) = size[p] - 1 + 1
            BY <3>2, FS_Interval
        <3> QED BY <3>1, <3>2, <3>3
    <2>4. IsFiniteSet(Mine) /\ Cardinality(Mine) = 1 * size[p]
        <3> HIDE DEF Mine
        <3> QED BY <2>2, <2>3, FS_Product
    <2> QED BY <1>1, <2>1, <2>4
<1>8. Cardinality(Held \cup Mine) = Cardinality(usedPhyAddr) + size[p]
    <2> HIDE DEF Held, Mine, Pages, In
    <2>1. Cardinality(Held \cap Mine) = 0
        BY <1>5, FS_EmptySet
    <2>2. Cardinality(Held \cup Mine) = Cardinality(Held) + Cardinality(Mine) - 0
        BY <1>6, <1>7, <2>1, FS_Union
    <2>3. size[p] \in Nat
        BY <1>1
    <2> QED BY <1>3, <1>6, <1>7, <2>2, <2>3
<1>9. Cardinality(Held \cup Mine) <= Cardinality(Pages(In))
    BY <1>4, <1>5, <1>7, FS_Subset
<1>10. Cardinality(Pages(In)) \in Nat
    BY <1>4, FS_CardinalityType
<1>11. Cardinality(Pages(In)) > NumPhysPages
    BY <1>0, <1>1, <1>3, <1>8, <1>9, <1>10
<1>12. PagesOf({ q \in Program : q = current \/ Loaded(q) })' = Cardinality(Pages(In))
    BY <1>0 DEF PagesOf, Loaded
<1> QED BY <1>0, <1>11, <1>12 DEF RefusedWhenFull

\* A program is refused only when it and the programs loaded before need more
\* frames than there are.
THEOREM RefusedOnlyWhenFull == Spec => []RefusedWhenFull
<1>1. Init => FrameInv /\ RefusedWhenFull
    BY DEF Init, FrameInv, UsedHoldPages, PagesInOneFrame, PagesOfLoaded, RefusedWhenFull
<1>2. ASSUME ProgInv, FrameInv, RefusedWhenFull, [Next]_progVars
      PROVE  FrameInv' /\ RefusedWhenFull'
    <2>0. TypeOK
        BY <1>2 DEF ProgInv
    <2>1. ASSUME UNCHANGED progVars \/ ConsoleInterrupt PROVE FrameInv' /\ RefusedWhenFull'
        <3>1. UNCHANGED <<memories, current, place, aborted>>
            BY <2>1 DEF progVars, ConsoleInterrupt
        <3>2. FrameInv'
            BY <1>2, <2>0, <3>1, FramesKept DEF Placed
        <3>3. RefusedWhenFull'
            BY <1>2, <3>1 DEF RefusedWhenFull, PagesOf, Loaded, memories, Frame
        <3> QED BY <3>2, <3>3
    <2>2. ASSUME NEW p \in Program, Load(p) PROVE FrameInv' /\ RefusedWhenFull'
        <3>1. ~aborted'
            BY <2>2 DEF Load, Running
        <3> QED BY <1>2, <2>2, <3>1, FramesAllotted DEF RefusedWhenFull
    <2>3. ASSUME NEW p \in Program, LoadAborts(p) PROVE FrameInv' /\ RefusedWhenFull'
        <3>1. UNCHANGED <<memories, place>>
            BY <2>3 DEF LoadAborts
        <3> QED BY <1>2, <2>0, <2>3, <3>1, FramesKept, RefusalIsRight DEF Placed
    <2>4. ASSUME NEW p \in Program,
                 Run(p) \/ LoadFails(p) \/ PrintInt(p) \/ PutChar(p) \/ PutIntStep(p) \/ Return(p) \/ Exit(p)
          PROVE  FrameInv' /\ RefusedWhenFull'
        <3>1. UNCHANGED memories /\ ~aborted'
            BY <2>4 DEF Run, LoadFails, PrintInt, PutChar, PutIntStep, Return, Exit, Running
        <3>2. \A q \in Program : Placed(q) => Placed(q)'
            BY <2>0, <2>4 DEF Run, LoadFails, PrintInt, PutChar, PutIntStep, Return, Exit, Running,
                              Placed, TypeOK
        <3> QED BY <1>2, <2>0, <3>1, <3>2, FramesKept DEF RefusedWhenFull
    <2> QED BY <1>2, <2>1, <2>2, <2>3, <2>4 DEF Next
<1> QED BY <1>1, <1>2, ProgInvariant, PTL DEF Spec

-----------------------------------------------------------------------------
(* The display                                                             *)

\* A program's call of PutInt has its number and counts its characters down; only
\* a program in PrintInt calls.
CallsInStep ==
    \A p \in Program :
        /\ left[p] <= NumChars
        /\ at[p] = "acquiring" => left[p] = NumChars
        /\ at[p] = "out" => left[p] = 0
        /\ at[p] # "out" => place[p] = "console"
        /\ place[p] = "console" => number[p] = <<p, RegistersOf(p) + 1>>

\* The numbers on the display are those a program's registers count, and the
\* one that it is printing.
CountedByRegisters ==
    \A p \in Program :
        /\ place[p] \in {"new", "begun"} => Abstract!Begun(p) = {}
        /\ place[p] = "user" => Abstract!Begun(p) = 1..RegistersOf(p)
        /\ place[p] = "console" =>
            Abstract!Begun(p) = 1..(IF left[p] < NumChars THEN RegistersOf(p) + 1 ELSE RegistersOf(p))

\* The last character is the one that the holder of the lock has written, or
\* ends a number.
EndsWithHolder ==
    /\ Console!Owners = {} => Abstract!Whole
    /\ \A p \in Console!Owners :
        IF left[p] = NumChars
        THEN Abstract!Whole
        ELSE /\ display # <<>>
             /\ display[Len(display)] = <<p, RegistersOf(p) + 1, NumChars - left[p]>>

PrintInv ==
    /\ DOMAIN number = Program
    /\ display \in Seq(Program \X Nat \X Nat)
    /\ CallsInStep
    /\ CountedByRegisters
    /\ EndsWithHolder

LEMMA OwnersOfConsole ==
    ASSUME NEW p
    PROVE  p \in Console!Owners <=> p \in Program /\ at[p] \in {"inside", "waiting"}
    BY DEF Console!Owners

\* A program begins a number by writing its first character, and by nothing
\* else.
LEMMA BegunByFirst ==
    ASSUME display \in Seq(Program \X Nat \X Nat), NEW q \in Program, NEW n \in Nat, NEW k \in Nat,
           display' = Append(display, <<q, n, k>>)
    PROVE  /\ display' \in Seq(Program \X Nat \X Nat)
           /\ display' # <<>> /\ display'[Len(display')] = <<q, n, k>>
           /\ \A p \in Program : Abstract!Begun(p)' =
                IF p = q /\ k = 1 /\ n \in 1..Numbers[p] THEN Abstract!Begun(p) \cup {n}
                                                         ELSE Abstract!Begun(p)
<1>1. <<q, n, k>> \in Program \X Nat \X Nat
    OBVIOUS
<1>2. /\ Len(display) \in Nat /\ DOMAIN display = 1..Len(display)
      /\ display' \in Seq(Program \X Nat \X Nat)
      /\ Len(display') = Len(display) + 1 /\ DOMAIN display' = 1..(Len(display) + 1)
      /\ \A i \in 1..Len(display) : display'[i] = display[i]
      /\ display'[Len(display) + 1] = <<q, n, k>>
    BY <1>1
<1>3. ASSUME NEW p \in Program, NEW m \in 1..Numbers[p]
      PROVE  (\E i \in DOMAIN display' : display'[i] = <<p, m, 1>>)
                <=> (\E i \in DOMAIN display : display[i] = <<p, m, 1>>) \/ <<q, n, k>> = <<p, m, 1>>
    <2>1. ASSUME NEW i \in DOMAIN display', display'[i] = <<p, m, 1>>
          PROVE  (\E j \in DOMAIN display : display[j] = <<p, m, 1>>) \/ <<q, n, k>> = <<p, m, 1>>
        <3>1. Len(display) \in Nat /\ i \in 1..(Len(display) + 1)
            BY <1>2
        <3>2. i \in 1..Len(display) \/ i = Len(display) + 1
            BY <3>1
        <3> QED BY <1>2, <2>1, <3>2
    <2>2. ASSUME NEW i \in DOMAIN display, display[i] = <<p, m, 1>>
          PROVE  i \in DOMAIN display' /\ display'[i] = <<p, m, 1>>
        BY <1>2, <2>2
    <2>3. Len(display) + 1 \in DOMAIN display' /\ display'[Len(display) + 1] = <<q, n, k>>
        BY <1>2
    <2> QED BY <2>1, <2>2, <2>3
<1>4. ASSUME NEW p \in Program, NEW m \in 1..Numbers[p]
      PROVE  <<q, n, k>> = <<p, m, 1>> <=> p = q /\ k = 1 /\ m = n
    OBVIOUS
<1>5. \A p \in Program : \A m : m \in Abstract!Begun(p)' <=>
                /\ m \in 1..Numbers[p]
                /\ m \in Abstract!Begun(p) \/ (p = q /\ k = 1 /\ m = n)
    BY <1>3, <1>4 DEF Abstract!Begun, Abstract!Char
<1>6. \A p \in Program : Abstract!Begun(p) \subseteq 1..Numbers[p]
    BY DEF Abstract!Begun
<1>7. display' # <<>> /\ display'[Len(display')] = <<q, n, k>>
    BY <1>2
<1>8. \A p \in Program : Abstract!Begun(p)' =
                IF p = q /\ k = 1 /\ n \in 1..Numbers[p] THEN Abstract!Begun(p) \cup {n}
                                                         ELSE Abstract!Begun(p)
    BY <1>5, <1>6
<1> QED BY <1>2, <1>7, <1>8

\* Steps that leave the console and the display.
LEMMA NothingPrinted ==
    ASSUME PrintInv, UNCHANGED <<at, left, display, number>>,
           \A p \in Program :
                /\ place'[p] \in {"user", "console"} => place'[p] = place[p] /\ RegistersOf(p)' = RegistersOf(p)
                /\ place'[p] \in {"new", "begun"} => place[p] \in {"new", "begun"}
                /\ place[p] = "console" => place'[p] = "console"
    PROVE  PrintInv'
<1>0. CallsInStep /\ CountedByRegisters /\ EndsWithHolder
    BY DEF PrintInv
<1>1. /\ \A p \in Program : Abstract!Begun(p)' = Abstract!Begun(p)
      /\ Console!Owners' = Console!Owners /\ Abstract!Whole' = Abstract!Whole
    BY DEF Abstract!Begun, Console!Owners, Abstract!Whole
<1>2. CallsInStep'
    BY <1>0 DEF CallsInStep
<1>3. CountedByRegisters'
    BY <1>0, <1>1 DEF CountedByRegisters
<1>4. EndsWithHolder'
    <2>1. \A p \in Console!Owners : p \in Program /\ place[p] = "console" /\ RegistersOf(p)' = RegistersOf(p)
        BY <1>0, OwnersOfConsole DEF CallsInStep
    <2> QED BY <1>0, <1>1, <2>1 DEF EndsWithHolder
<1> QED BY <1>2, <1>3, <1>4 DEF PrintInv

LEMMA RunPrints ==
    ASSUME ProgInv, PrintInv, NEW q \in Program, Run(q)
    PROVE  PrintInv'
<1>0. TypeOK
    BY DEF ProgInv
<1>1. /\ UNCHANGED <<at, left, display, number>>
      /\ place' = [place EXCEPT ![q] = IF @ = "new" THEN "begun" ELSE @]
      /\ Switches(q) /\ current' = q /\ q # current
    BY DEF Run, console
<1>2. \A p \in Program : place'[p] \in {"user", "console"} => place[p] = place'[p] /\ place[p] # "new"
    BY <1>0, <1>1 DEF TypeOK
<1>3. \A p \in Program : place[p] # "new" => RegistersOf(p)' = RegistersOf(p)
    BY <1>0, <1>1 DEF TypeOK, RegistersOf, Switches
<1>4. \A p \in Program : /\ place'[p] \in {"new", "begun"} => place[p] \in {"new", "begun"}
                         /\ place[p] = "console" => place'[p] = "console"
    BY <1>0, <1>1 DEF TypeOK
<1> QED BY <1>1, <1>2, <1>3, <1>4, NothingPrinted

LEMMA QuietPrint ==
    ASSUME ProgInv, PrintInv,
           \/ UNCHANGED progVars \/ ConsoleInterrupt
           \/ \E p \in Program : LoadAborts(p) \/ LoadFails(p) \/ Exit(p)
    PROVE  PrintInv'
<1>0. TypeOK
    BY DEF ProgInv
<1>1. UNCHANGED <<at, left, display, number, userRegisters, registers, current>>
    BY DEF progVars, ConsoleInterrupt, LoadAborts, LoadFails, Exit, console, context, Console!CallBack
<1>2. \/ place' = place
      \/ \E p \in Program : place[p] # "console" /\ place' = [place EXCEPT ![p] = "finished"]
    BY DEF progVars, ConsoleInterrupt, LoadAborts, LoadFails, Exit, Running
<1>3. \A p \in Program : RegistersOf(p)' = RegistersOf(p)
    BY <1>1 DEF RegistersOf
<1>4. \A p \in Program : /\ place'[p] \in {"user", "console"} => place'[p] = place[p]
                         /\ place'[p] \in {"new", "begun"} => place[p] \in {"new", "begun"}
                         /\ place[p] = "console" => place'[p] = "console"
    BY <1>0, <1>2 DEF TypeOK
<1> QED BY <1>1, <1>3, <1>4, NothingPrinted

LEMMA LoadPrints ==
    ASSUME ProgInv, PrintInv, NEW q \in Program, Load(q)
    PROVE  PrintInv'
<1>0. /\ TypeOK /\ CallsInStep /\ CountedByRegisters /\ EndsWithHolder
      /\ UNCHANGED <<at, left, display, number, userRegisters, current>>
      /\ current = q /\ registers' = 0 /\ place[q] = "begun"
      /\ place' = [place EXCEPT ![q] = "user"]
    BY DEF ProgInv, PrintInv, Load, Running, console
<1>1. \A p \in Program : p # q => place'[p] = place[p] /\ RegistersOf(p)' = RegistersOf(p)
    BY <1>0 DEF TypeOK, RegistersOf
<1>2. place'[q] = "user" /\ RegistersOf(q)' = 0
    BY <1>0 DEF TypeOK, RegistersOf
<1>3. /\ \A p \in Program : Abstract!Begun(p)' = Abstract!Begun(p)
      /\ Console!Owners' = Console!Owners /\ Abstract!Whole' = Abstract!Whole
    BY <1>0 DEF Abstract!Begun, Console!Owners, Abstract!Whole
<1>4. at[q] = "out"
    BY <1>0 DEF CallsInStep
<1>5. CallsInStep'
    BY <1>0, <1>1, <1>2, <1>4 DEF CallsInStep
<1>6. CountedByRegisters'
    <2>1. Abstract!Begun(q) = 1..0
        BY <1>0 DEF CountedByRegisters
    <2> QED BY <1>0, <1>1, <1>2, <1>3, <2>1 DEF CountedByRegisters
<1>7. EndsWithHolder'
    <2>1. \A p \in Console!Owners : p \in Program /\ p # q
        BY <1>4, OwnersOfConsole
    <2> QED BY <1>0, <1>1, <1>3, <2>1 DEF EndsWithHolder
<1> QED BY <1>0, <1>5, <1>6, <1>7 DEF PrintInv

LEMMA PrintIntPrints ==
    ASSUME ProgInv, PrintInv, Console!TypeOK, NEW q \in Program, PrintInt(q)
    PROVE  PrintInv'
<1>0. /\ TypeOK /\ MemoryOfItsOwn /\ CallsInStep /\ CountedByRegisters /\ EndsWithHolder
      /\ UNCHANGED <<display, registers, userRegisters, current>>
      /\ current = q /\ place[q] = "user" /\ place' = [place EXCEPT ![q] = "console"]
      /\ number' = [number EXCEPT ![q] = <<Executed, registers + 1>>]
      /\ at[q] = "out" /\ at' = [at EXCEPT ![q] = "acquiring"]
      /\ left' = [left EXCEPT ![q] = NumChars]
      /\ DOMAIN number = Program
    BY DEF ProgInv, PrintInv, PrintInt, Running, context, Console!Call, Console!Move
<1>1. Executed = q
    BY <1>0, ExecutesItself DEF Live
<1>2. /\ at \in [Program -> {"out", "acquiring", "inside", "waiting"}]
      /\ left \in [Program -> Nat] /\ NumChars \in Nat
    BY ProgramsAssumption DEF Console!TypeOK
<1>3. /\ RegistersOf(q) = registers
      /\ \A p \in Program : RegistersOf(p)' = RegistersOf(p)
    BY <1>0 DEF RegistersOf
<1>4. number'[q] = <<q, RegistersOf(q) + 1>> /\ \A p \in Program : p # q => number'[p] = number[p]
    BY <1>0, <1>1, <1>3
<1>5. \A p \in Program : p # q => place'[p] = place[p] /\ at'[p] = at[p] /\ left'[p] = left[p]
    BY <1>0, <1>2 DEF TypeOK
<1>6. place'[q] = "console" /\ at'[q] = "acquiring" /\ left'[q] = NumChars
    BY <1>0, <1>2 DEF TypeOK
<1>7. /\ \A p \in Program : Abstract!Begun(p)' = Abstract!Begun(p)
      /\ Abstract!Whole' = Abstract!Whole
    BY <1>0 DEF Abstract!Begun, Abstract!Whole
<1>8. Console!Owners' = Console!Owners
    BY <1>0, <1>5, <1>6 DEF Console!Owners
<1>9. CallsInStep'
    BY <1>0, <1>2, <1>3, <1>4, <1>5, <1>6 DEF CallsInStep
<1>10. CountedByRegisters'
    <2>1. ~(left'[q] < NumChars) /\ Abstract!Begun(q) = 1..RegistersOf(q)
        BY <1>0, <1>2, <1>6 DEF CountedByRegisters
    <2> QED BY <1>0, <1>3, <1>5, <1>6, <1>7, <2>1 DEF CountedByRegisters
<1>11. EndsWithHolder'
    <2>1. \A p \in Console!Owners : p \in Program /\ p # q
        BY <1>0, OwnersOfConsole
    <2> QED BY <1>0, <1>3, <1>5, <1>7, <1>8, <2>1 DEF EndsWithHolder
<1> QED BY <1>0, <1>9, <1>10, <1>11 DEF PrintInv

LEMMA ReturnPrints ==
    ASSUME ProgInv, PrintInv, NEW q \in Program, Return(q)
    PROVE  PrintInv'
<1>0. /\ TypeOK /\ CallsInStep /\ CountedByRegisters /\ EndsWithHolder
      /\ UNCHANGED <<at, left, display, number, userRegisters, current>>
      /\ current = q /\ place[q] = "console" /\ place' = [place EXCEPT ![q] = "user"]
      /\ at[q] = "out" /\ registers' = registers + 1
    BY DEF ProgInv, PrintInv, Return, Running, console
<1>1. \A p \in Program : p # q => place'[p] = place[p] /\ RegistersOf(p)' = RegistersOf(p)
    BY <1>0 DEF TypeOK, RegistersOf
<1>2. place'[q] = "user" /\ RegistersOf(q)' = RegistersOf(q) + 1
    BY <1>0 DEF TypeOK, RegistersOf
<1>3. /\ \A p \in Program : Abstract!Begun(p)' = Abstract!Begun(p)
      /\ Console!Owners' = Console!Owners /\ Abstract!Whole' = Abstract!Whole
    BY <1>0 DEF Abstract!Begun, Console!Owners, Abstract!Whole
<1>4. left[q] = 0 /\ 0 < NumChars
    BY <1>0, ProgramsAssumption DEF CallsInStep
<1>5. CallsInStep'
    BY <1>0, <1>1, <1>2 DEF CallsInStep
<1>6. CountedByRegisters'
    <2>1. Abstract!Begun(q) = 1..(RegistersOf(q) + 1)
        BY <1>0, <1>4 DEF CountedByRegisters
    <2> QED BY <1>0, <1>1, <1>2, <1>3, <2>1 DEF CountedByRegisters
<1>7. EndsWithHolder'
    <2>1. \A p \in Console!Owners : p \in Program /\ p # q
        BY <1>0, OwnersOfConsole
    <2> QED BY <1>0, <1>1, <1>3, <2>1 DEF EndsWithHolder
<1> QED BY <1>0, <1>5, <1>6, <1>7 DEF PrintInv

LEMMA PutIntStepPrints ==
    ASSUME ProgInv, PrintInv, Console!TypeOK, Console!OneAtATime', NEW q \in Program, PutIntStep(q)
    PROVE  PrintInv'
<1>0. /\ TypeOK /\ CallsInStep /\ CountedByRegisters /\ EndsWithHolder
      /\ UNCHANGED <<display, registers, userRegisters, current, place, number, left>>
      /\ place[q] = "console"
    BY DEF ProgInv, PrintInv, PutIntStep, Running, context, Console!Acquire, Console!Await,
           Console!Release
<1>2. /\ at \in [Program -> {"out", "acquiring", "inside", "waiting"}]
      /\ left \in [Program -> Nat] /\ NumChars \in Nat \ {0}
    BY ProgramsAssumption DEF Console!TypeOK
<1>3. /\ \A p \in Program : RegistersOf(p)' = RegistersOf(p)
      /\ \A p \in Program : Abstract!Begun(p)' = Abstract!Begun(p)
      /\ Abstract!Whole' = Abstract!Whole
    BY <1>0 DEF RegistersOf, Abstract!Begun, Abstract!Whole
<1>4. CountedByRegisters'
    BY <1>0, <1>3 DEF CountedByRegisters
<1>5. \/ at' = [at EXCEPT ![q] = "acquiring"] /\ at[q] = "acquiring"
      \/ at' = [at EXCEPT ![q] = "inside"] /\ at[q] = "acquiring"
      \/ at' = [at EXCEPT ![q] = "inside"] /\ at[q] = "waiting"
      \/ at' = [at EXCEPT ![q] = "waiting"] /\ at[q] = "waiting"
      \/ at' = [at EXCEPT ![q] = "out"] /\ at[q] = "inside" /\ left[q] = 0
    BY DEF PutIntStep, Console!Acquire, Console!Await, Console!Release, Console!Move
<1>6. \A p \in Program : p # q => at'[p] = at[p]
    BY <1>2, <1>5
<1>7. CallsInStep'
    BY <1>0, <1>2, <1>3, <1>5, <1>6 DEF CallsInStep
<1>8. CASE at[q] # "acquiring" /\ at'[q] # "out"
    <2>1. Console!Owners' = Console!Owners
        BY <1>2, <1>5, <1>6, <1>8 DEF Console!Owners
    <2>2. \A p \in Console!Owners : p \in Program
        BY OwnersOfConsole
    <2> QED BY <1>0, <1>3, <1>4, <1>7, <2>1, <2>2 DEF EndsWithHolder, PrintInv
<1>9. CASE at[q] = "acquiring" /\ at'[q] = "acquiring"
    <2>1. Console!Owners' = Console!Owners
        BY <1>6, <1>9 DEF Console!Owners
    <2>2. \A p \in Console!Owners : p \in Program
        BY OwnersOfConsole
    <2> QED BY <1>0, <1>3, <1>4, <1>7, <2>1, <2>2 DEF EndsWithHolder, PrintInv
<1>10. CASE at[q] = "acquiring" /\ at'[q] = "inside"
    <2>1. \A p \in Console!Owners' : p = q
        <3>1. q \in Console!Owners'
            BY <1>10 DEF Console!Owners
        <3> QED BY <3>1 DEF Console!OneAtATime
    <2>2. Console!Owners = {}
        <3> SUFFICES ASSUME NEW p \in Console!Owners PROVE FALSE
            OBVIOUS
        <3>1. p \in Program /\ p # q /\ at'[p] \in {"inside", "waiting"}
            BY <1>6, <1>10, OwnersOfConsole
        <3>2. p \in Console!Owners'
            BY <3>1 DEF Console!Owners
        <3> QED BY <2>1, <3>1, <3>2
    <2>3. left'[q] = NumChars /\ Abstract!Whole'
        BY <1>0, <1>3, <1>10, <2>2 DEF CallsInStep, EndsWithHolder
    <2> QED BY <1>0, <1>4, <1>7, <2>1, <2>3 DEF EndsWithHolder, PrintInv
<1>11. CASE at'[q] = "out"
    <2>1. at[q] = "inside" /\ left[q] = 0 /\ q \in Console!Owners
        BY <1>2, <1>5, <1>11, OwnersOfConsole
    <2>2. left[q] # NumChars
        BY <1>2, <2>1
    <2>3. Abstract!Whole
        <3>1. display[Len(display)] = <<q, RegistersOf(q) + 1, NumChars - left[q]>>
            BY <1>0, <2>1, <2>2 DEF EndsWithHolder
        <3>2. NumChars - left[q] = NumChars
            BY <1>2, <2>1
        <3> QED BY <3>1, <3>2 DEF Abstract!Whole
    <2>4. \A p \in Console!Owners' : p \in Console!Owners /\ p \in Program
        BY <1>6, <1>11 DEF Console!Owners
    <2> QED BY <1>0, <1>3, <1>4, <1>7, <2>3, <2>4 DEF EndsWithHolder, PrintInv
<1> QED BY <1>2, <1>5, <1>8, <1>9, <1>10, <1>11

\* A character that PutInt writes begins the program's next number or goes on
\* with the number of the last one.
LEMMA PutCharPrints ==
    ASSUME ProgInv, PrintInv, Console!TypeOK, Console!OneAtATime, NEW q \in Program, PutChar(q)
    PROVE  PrintInv' /\ (Abstract!GoOn \/ Abstract!Begin(q))
<1>0. /\ TypeOK /\ NumbersLeft /\ CallsInStep /\ CountedByRegisters /\ EndsWithHolder
      /\ UNCHANGED <<registers, userRegisters, current, place, number>>
      /\ place[q] = "console" /\ at[q] = "inside" /\ left[q] > 0
      /\ left' = [left EXCEPT ![q] = @ - 1]
      /\ at' = [at EXCEPT ![q] = "inside"] \/ at' = [at EXCEPT ![q] = "waiting"]
      /\ display' = Append(display, <<number[q][1], number[q][2], NumChars - left'[q]>>)
      /\ display \in Seq(Program \X Nat \X Nat) /\ DOMAIN number = Program
    BY DEF ProgInv, PrintInv, PutChar, Running, context, Console!Request, Console!Move
<1>1. /\ at \in [Program -> {"out", "acquiring", "inside", "waiting"}]
      /\ left \in [Program -> Nat] /\ NumChars \in Nat \ {0} /\ left[q] \in Nat
    BY ProgramsAssumption DEF Console!TypeOK
<1> DEFINE r == RegistersOf(q)
           k == NumChars - left[q] + 1
<1>2. r \in Nat /\ Numbers[q] \in Nat /\ r + 1 \in 1..Numbers[q]
    <2>1. r \in Nat /\ r < Numbers[q]
        BY <1>0, TablesAreFrames DEF NumbersLeft
    <2>2. Numbers[q] \in Nat
        BY ProgramsAssumption
    <2> HIDE DEF r
    <2> QED BY <2>1, <2>2
<1>3. left[q] <= NumChars /\ number[q] = <<q, r + 1>>
    BY <1>0 DEF CallsInStep
<1>4. k \in Nat /\ k >= 1 /\ left'[q] = left[q] - 1 /\ NumChars - left'[q] = k
    BY <1>0, <1>1, <1>3
<1>5. display' = Append(display, <<q, r + 1, k>>)
    <2> HIDE DEF r, k
    <2> QED BY <1>0, <1>3, <1>4
<1> HIDE DEF r, k
<1>6. /\ \A p \in Program : p # q => at'[p] = at[p] /\ left'[p] = left[p]
      /\ at'[q] \in {"inside", "waiting"}
    BY <1>0, <1>1
<1>7. \A p \in Program : RegistersOf(p)' = RegistersOf(p)
    BY <1>0 DEF RegistersOf
<1>8. r + 1 \in Nat
    BY <1>2
<1>9. /\ display' \in Seq(Program \X Nat \X Nat)
      /\ display' # <<>> /\ display'[Len(display')] = <<q, r + 1, k>>
    BY <1>0, <1>4, <1>5, <1>8, BegunByFirst
<1>10. \A p \in Program : Abstract!Begun(p)' =
                IF p = q /\ k = 1 THEN Abstract!Begun(p) \cup {r + 1} ELSE Abstract!Begun(p)
    <2>1. PICK n \in Nat : n = r + 1
        BY <1>8
    <2>2. PICK j \in Nat : j = k
        BY <1>4
    <2>3. display' = Append(display, <<q, n, j>>)
        BY <1>5, <2>1, <2>2
    <2>4. ASSUME NEW p \in Program
          PROVE  Abstract!Begun(p)' =
                    IF p = q /\ j = 1 /\ n \in 1..Numbers[p] THEN Abstract!Begun(p) \cup {n}
                                                             ELSE Abstract!Begun(p)
        <3>1. display \in Seq(Program \X Nat \X Nat)
            BY <1>0
        <3> HIDE <1>0
        <3> QED BY <2>3, <3>1, BegunByFirst, Zenon
    <2> QED BY <1>2, <2>1, <2>2, <2>4
<1>11. q \in Console!Owners /\ Console!Owners' = Console!Owners /\ \A p \in Console!Owners : p = q
    <2>1. q \in Console!Owners
        BY <1>0, OwnersOfConsole
    <2>2. Console!Owners' = Console!Owners
        BY <1>0, <1>6 DEF Console!Owners
    <2> QED BY <2>1, <2>2 DEF Console!OneAtATime
<1>12. Abstract!Begun(q) = 1..(IF left[q] < NumChars THEN r + 1 ELSE r)
    BY <1>0 DEF CountedByRegisters, r
<1>13. k = 1 <=> left[q] = NumChars
    BY <1>1 DEF k
<1>14. CallsInStep'
    BY <1>0, <1>1, <1>3, <1>4, <1>6, <1>7 DEF CallsInStep
<1>15. CountedByRegisters'
    <2>1. Abstract!Begun(q)' = 1..(r + 1)
        <3>1. CASE left[q] = NumChars
            <4>1. 1..(r + 1) = (1..r) \cup {r + 1}
                BY <1>2
            <4> QED BY <1>1, <1>10, <1>12, <1>13, <3>1, <4>1
        <3>2. CASE left[q] # NumChars
            <4>1. left[q] < NumChars
                BY <1>1, <1>3, <3>2
            <4> QED BY <1>10, <1>12, <1>13, <3>2, <4>1
        <3> QED BY <3>1, <3>2
    <2>2. left'[q] < NumChars
        BY <1>0, <1>1, <1>3, <1>4
    <2>3. ASSUME NEW p \in Program, p # q
          PROVE  Abstract!Begun(p)' = Abstract!Begun(p) /\ left'[p] = left[p]
        BY <1>6, <1>10, <2>3
    <2>4. RegistersOf(q)' = r /\ place' = place /\ place[q] = "console"
        BY <1>0, <1>7 DEF r
    <2> QED BY <1>0, <1>7, <2>1, <2>2, <2>3, <2>4 DEF CountedByRegisters
<1>16. EndsWithHolder'
    <2>1. left'[q] # NumChars
        BY <1>0, <1>1, <1>3, <1>4
    <2>2. \A p \in Console!Owners' : p = q
        BY <1>11
    <2>3. RegistersOf(q)' = r
        BY <1>7 DEF r
    <2> QED BY <1>4, <1>9, <1>11, <2>1, <2>2, <2>3 DEF EndsWithHolder
<1>17. CASE left[q] = NumChars
    <2>1. Abstract!Whole
        BY <1>0, <1>11, <1>17 DEF EndsWithHolder
    <2>2. Abstract!Begun(q) = 1..((r + 1) - 1)
        BY <1>1, <1>2, <1>12, <1>17
    <2>3. display' = Append(display, <<q, r + 1, 1>>)
        BY <1>5, <1>13, <1>17
    <2>4. Abstract!Begin(q)
        BY <1>2, <2>1, <2>2, <2>3 DEF Abstract!Begin, Abstract!Char
    <2> QED BY <1>0, <1>9, <1>14, <1>15, <1>16, <2>4 DEF PrintInv
<1>18. CASE left[q] # NumChars
    <2>1. display # <<>> /\ display[Len(display)] = <<q, r + 1, NumChars - left[q]>>
        BY <1>0, <1>11, <1>18 DEF EndsWithHolder, r
    <2>2. ~Abstract!Whole
        <3>1. NumChars - left[q] # NumChars
            BY <1>0, <1>1
        <3> QED BY <2>1, <3>1 DEF Abstract!Whole
    <2>3. display' = Append(display, <<q, r + 1, (NumChars - left[q]) + 1>>)
        BY <1>5 DEF k
    <2>4. Abstract!GoOn
        BY <2>1, <2>2, <2>3 DEF Abstract!GoOn, Abstract!Char
    <2> QED BY <1>0, <1>9, <1>14, <1>15, <1>16, <2>4 DEF PrintInv
<1> QED BY <1>17, <1>18

LEMMA InitPrints == Init => PrintInv /\ Abstract!Init
<1> SUFFICES ASSUME Init PROVE PrintInv /\ Abstract!Init
    OBVIOUS
<1> USE DEF Init
<1>1. /\ display = <<>> /\ display \in Seq(Program \X Nat \X Nat)
      /\ \A p \in Program : place[p] = "new"
      /\ \A p \in Program : at[p] = "out" /\ left[p] = 0
      /\ DOMAIN number = Program
    BY DEF Console!Init
<1>2. \A p \in Program : Abstract!Begun(p) = {}
    BY <1>1 DEF Abstract!Begun
<1>3. Console!Owners = {} /\ Abstract!Whole /\ Abstract!Init
    BY <1>1 DEF Console!Owners, Abstract!Whole, Abstract!Init
<1> HIDE DEF Init
<1>4. CallsInStep
    BY <1>1, ProgramsAssumption DEF CallsInStep
<1>5. CountedByRegisters
    BY <1>1, <1>2 DEF CountedByRegisters
<1>6. EndsWithHolder
    BY <1>3 DEF EndsWithHolder
<1> QED BY <1>1, <1>3, <1>4, <1>5, <1>6 DEF PrintInv

\* Every step of the programs is a step of Printing or leaves the display.
LEMMA StepsPrint ==
    ASSUME ProgInv, PrintInv, Console!TypeOK, Console!OneAtATime, Console!OneAtATime', [Next]_progVars
    PROVE  PrintInv' /\ [Abstract!Next]_display
<1>1. ASSUME NEW p \in Program, Run(p) PROVE PrintInv' /\ [Abstract!Next]_display
    BY <1>1, RunPrints DEF Run
<1>2. ASSUME NEW p \in Program, Load(p) PROVE PrintInv' /\ [Abstract!Next]_display
    BY <1>2, LoadPrints DEF Load
<1>3. ASSUME \/ UNCHANGED progVars \/ ConsoleInterrupt
             \/ \E p \in Program : LoadAborts(p) \/ LoadFails(p) \/ Exit(p)
      PROVE  PrintInv' /\ [Abstract!Next]_display
    <2>1. display' = display
        BY <1>3 DEF progVars, ConsoleInterrupt, LoadAborts, LoadFails, Exit
    <2> QED BY <1>3, <2>1, QuietPrint
<1>4. ASSUME NEW p \in Program, PrintInt(p) PROVE PrintInv' /\ [Abstract!Next]_display
    BY <1>4, PrintIntPrints DEF PrintInt
<1>5. ASSUME NEW p \in Program, PutIntStep(p) PROVE PrintInv' /\ [Abstract!Next]_display
    BY <1>5, PutIntStepPrints DEF PutIntStep
<1>6. ASSUME NEW p \in Program, Return(p) PROVE PrintInv' /\ [Abstract!Next]_display
    BY <1>6, ReturnPrints DEF Return
<1>7. ASSUME NEW p \in Program, PutChar(p) PROVE PrintInv' /\ [Abstract!Next]_display
    BY <1>7, PutCharPrints DEF Abstract!Next
<1> QED BY <1>1, <1>2, <1>3, <1>4, <1>5, <1>6, <1>7 DEF Next

\* The display shows what Printing allows: each program's numbers whole and in
\* order, whatever the kernel switches between.
THEOREM PrintingIsAtomic == Spec => ImplementsPrinting
<1>1. ConsoleP!DeviceInv => Console!TypeOK
    BY ConsoleTypes DEF ConsoleP!DeviceInv
<1>2. Spec => []Console!TypeOK /\ []Console!OneAtATime
    BY <1>1, ProgInvariant, ConsoleIsSafe, PTL
<1>3. Spec => []ProgInv
    BY ProgInvariant, PTL
<1>4. Init => PrintInv /\ Abstract!Init
    BY InitPrints
<1>5. /\ ProgInv /\ PrintInv /\ Console!TypeOK /\ Console!OneAtATime /\ Console!OneAtATime'
      /\ [Next]_progVars
      => PrintInv' /\ [Abstract!Next]_display
    BY StepsPrint
<1> QED BY <1>2, <1>3, <1>4, <1>5, PTL DEF Spec, ImplementsPrinting, Abstract!Spec
=============================================================================
