------------------------------ MODULE FileSystem ------------------------------
(***************************************************************************)
(* filesys/filesys.cc (MP4): files and directories on a disk that is       *)
(* written one sector at a time.  An operation reads what it needs into    *)
(* memory and then writes sectors, one step each; a step that reads the    *)
(* disk again behind a write does so here too.  The kernel can stop        *)
(* between two writes, and boots again from what is on the disk.           *)
(*                                                                         *)
(* One user program runs at a time, as MP4's address spaces require.  A    *)
(* directory is one sector, a table of at most NumDirEntries names; the    *)
(* map of the disk is MapSectors sectors.  A path is a sequence of names,  *)
(* <<>> the root.                                                          *)
(***************************************************************************)
EXTENDS FileHeader

CONSTANTS
    Paths,          \* paths that operations are called with
    Sizes,          \* sizes of new files
    Values,         \* what a data sector can hold
    NumDirEntries,  \* entries of a directory
    MapBits,        \* bits of the map in one sector
    UninitSectors,  \* what OpenDir's variable sector holds when nothing set it
    MaxCuts         \* bound: operations cut off between two writes

FreeMapSector == 0
DirectorySector == 1
MapSectors == (NumSectors + MapBits - 1) \div MapBits

\* What the constructor allocates with format = TRUE: the map's file, then the
\* root's.  It asserts that there is room (filesys.cc:101-102).
MapAllocated == Allocate({FreeMapSector, DirectorySector}, MapSectors)
RootAllocated == Allocate(MapAllocated.map, 1)

ASSUME FileSystemAssumption ==
    /\ \A p \in Paths : p = <<p[1]>> \/ p = <<p[1], p[2]>>
    /\ Sizes \subseteq Nat
    /\ DirectorySector \in Sector /\ MapAllocated.ok /\ RootAllocated.ok
    /\ NumDirEntries \in Nat /\ MapBits \in Nat \ {0} /\ MaxCuts \in Nat
    /\ UninitSectors \subseteq Sector \cup {NoSector}

VARIABLES
    disk,           \* what each sector holds
    phase,          \* "main": the kernel's own commands, "user": a program runs,
                    \* "garbage": a sector was taken for what it is not,
                    \* "freed": a deleted OpenFile was used
    fd,             \* fileDescriptor: NULL, deleted, or an open file
    op,             \* the operation in progress, and its copies in memory
    cuts            \* operations cut off so far

vars == <<disk, phase, fd, op, cuts>>

-------------------------------------------------------------------------------
\* What a sector can hold

Header(h) == [kind |-> "header", hdr |-> h]
Table(t) == [kind |-> "table", table |-> t]
MapPart(k, map) == [kind |-> "map", marks |-> {s \in map : s \div MapBits = k - 1}]
Data(v) == [kind |-> "data", value |-> v]
Unwritten == [kind |-> "blank"]
EmptyTable == [n \in {} |-> 0]

\* The sectors FetchFrom reads, following the headers from s.  No file that
\* Allocate made has more than MaxHeaders.
MaxHeaders == NumHeaders(NumSectors)
IsHeader(d, s) == IsSector(s) /\ d[s].kind = "header"
NextHeader(d, s) == IF IsHeader(d, s) THEN d[s].hdr.next ELSE NoSector
HeaderChain(d, s) ==
    LET from[n \in 0..(MaxHeaders + 1)] ==
            [h \in Sector \cup {NoSector} |->
                IF n = 0 \/ h = NoSector THEN <<>> ELSE <<h>> \o from[n - 1][NextHeader(d, h)]]
    IN  from[MaxHeaders + 1][s]

\* A file can be fetched when the chain ends and all of it are headers.
HasHeaders(d, s) ==
    LET chain == HeaderChain(d, s)
    IN  Len(chain) <= MaxHeaders /\ \A k \in DOMAIN chain : IsHeader(d, chain[k])

FetchFrom(d, s) ==
    LET chain == HeaderChain(d, s) IN [k \in DOMAIN chain |-> d[chain[k]].hdr]

\* The sectors of the file whose first header is at s.
SectorsOf(d, s) == ToSet(HeaderChain(d, s)) \cup DataSectors(FetchFrom(d, s))

\* The content of the directory at s.  A directory is one sector, so its first
\* header says all; NotATable when there is none.
NotATable == [kind |-> "none"]
DirBlock(d, s) ==
    IF IsHeader(d, s) /\ d[s].hdr.data # <<>> THEN d[d[s].hdr.data[1]] ELSE NotATable
IsDirectory(d, s) == DirBlock(d, s).kind = "table"
TableAt(d, s) == DirBlock(d, s).table

\* The map as its file has it: PersistentBitmap's constructor.
FreeMap(d) ==
    LET hdr == FetchFrom(d, FreeMapSector)
    IN  UNION {d[ByteToSector(hdr, k)].marks : k \in 0..(MapSectors - 1)}

\* The first header of name n in the directory at s, NoSector when there is no
\* such name.
Garbage == -2
FindIn(d, s, n) ==
    LET dir == DirBlock(d, s)
    IN  IF s < 0 THEN s
        ELSE IF dir.kind # "table" THEN Garbage
        ELSE IF n \in DOMAIN dir.table THEN dir.table[n].sector
        ELSE NoSector

\* And of path p.
Find(d, p) ==
    LET find[i \in 0..Len(p)] ==
            IF i = 0 THEN DirectorySector ELSE FindIn(d, find[i - 1], p[i])
    IN  find[Len(p)]

Exists(d, p) == Find(d, p) >= 0
IsDir(d, p) ==
    IF p = <<>> THEN TRUE
    ELSE Exists(d, p) /\ TableAt(d, Find(d, Front(p)))[Last(p)].isDir

\* OpenDir says: "we only consider valid path" (filesys.cc:402).
ValidPath(p) == Exists(disk, Front(p)) => IsDir(disk, Front(p))

\* The paths that lead to a file or directory.
AllPaths == {<<>>} \cup Paths \cup {Front(p) : p \in Paths}
Found(d) == {p \in AllPaths : Exists(d, p) /\ IsDir(d, Front(p))}

-------------------------------------------------------------------------------
\* Initial state: the constructor with format = TRUE.

NoOp == [name |-> "none", path |-> <<>>, sector |-> NoSector, hdr |-> <<>>,
         table |-> EmptyTable, map |-> {}, step |-> "none", k |-> 1]
Null == [kind |-> "null"]
Deleted == [kind |-> "deleted"]
OpenFile(d, p) == [kind |-> "open", sector |-> Find(d, p),
                   hdr |-> FetchFrom(d, Find(d, p)), pos |-> 0]

Formatted ==
    LET hdr   == MapAllocated.hdr
        mapAt == HeaderSectors(FreeMapSector, hdr)
        root  == RootAllocated.hdr
    IN  [s \in Sector |->
            IF \E k \in DOMAIN mapAt : s = mapAt[k]
            THEN Header(hdr[CHOOSE k \in DOMAIN mapAt : s = mapAt[k]])
            ELSE IF s = DirectorySector THEN Header(root[1])
            ELSE IF \E k \in 1..MapSectors : s = ByteToSector(hdr, k - 1)
            THEN MapPart(CHOOSE k \in 1..MapSectors : s = ByteToSector(hdr, k - 1),
                         RootAllocated.map)
            ELSE IF s = ByteToSector(root, 0) THEN Table(EmptyTable)
            ELSE Unwritten]

Init ==
    /\ disk = Formatted
    /\ phase = "main" /\ fd = Null /\ op = NoOp /\ cuts = 0

Running == phase \in {"main", "user"}
Idle == Running /\ op = NoOp

\* The kernel ends, or an assertion ends it; the next boot opens the two files.
Reboot == phase' = "main" /\ fd' = Null /\ op' = NoOp

\* A name leads to a sector that is not what it should be.  What the kernel
\* does then depends on the bytes, and is followed no further.
TakesGarbage == phase' = "garbage" /\ op' = NoOp /\ UNCHANGED <<disk, fd, cuts>>

\* An operation that fails, or finds nothing to do, changes nothing.
Fails == UNCHANGED vars

\* delete of a pointer nothing set: it does no harm, or the kernel aborts.
FailsAndDeletesUninit == Fails \/ (Reboot /\ UNCHANGED <<disk, cuts>>)

WriteSector(s, block) == disk' = [disk EXCEPT ![s] = block]

-------------------------------------------------------------------------------
\* Create, and the CreateDirectory of the kernel's command line

Add(table, name, sector, isDir) ==
    [n \in DOMAIN table \cup {name} |->
        IF n = name THEN [sector |-> sector, isDir |-> isDir] ELSE table[n]]

\* The reads, and the changes to the copies in memory.  name is "create",
\* "copy" (Copy of main.cc, which goes on to write the file) or "mkdir".
Begin(name, p, size) ==
    LET parent == Find(disk, Front(p))
        clear  == Clear(FreeMap(disk))
        table  == TableAt(disk, parent)
        sector == clear[1]
        alloc  == Allocate(FreeMap(disk) \cup {sector}, size)
    IN  IF parent = Garbage \/ (parent >= 0 /\ ~IsDirectory(disk, parent))
        THEN TakesGarbage
        ELSE IF parent = NoSector \/ Last(p) \in DOMAIN table
        THEN FailsAndDeletesUninit
        ELSE IF \/ clear = <<>>
                \/ Cardinality(DOMAIN table) = NumDirEntries
                \/ ~alloc.ok
        THEN Fails
        ELSE /\ op' = [name   |-> name,
                       path   |-> p,
                       sector |-> sector,
                       hdr    |-> alloc.hdr,
                       table  |-> Add(table, Last(p), sector, name = "mkdir"),
                       map    |-> alloc.map,
                       step   |-> "header",
                       k      |-> 1]
             /\ UNCHANGED <<disk, phase, fd, cuts>>

Create(p, size) == Idle /\ phase = "user" /\ ValidPath(p) /\ Begin("create", p, size)
Copy(p, size) == Idle /\ phase = "main" /\ ValidPath(p) /\ Begin("copy", p, size)
CreateDirectory(p) == Idle /\ phase = "main" /\ ValidPath(p) /\ Begin("mkdir", p, 1)

At(step) == Running /\ op.step = step
Goto(step) == op' = [op EXCEPT !.step = step, !.k = 1]

\* hdr->WriteBack(sector), header by header.
WriteHeader ==
    /\ At("header")
    /\ WriteSector(HeaderSectors(op.sector, op.hdr)[op.k], Header(op.hdr[op.k]))
    /\ IF op.k < Len(op.hdr) THEN op' = [op EXCEPT !.k = @ + 1] ELSE Goto("table")
    /\ UNCHANGED <<phase, fd, cuts>>

\* Mutant: always through directoryFile.
TableTargetsInRoot == {DirectorySector}

\* The headers directory->WriteBack may write through.  Create uses the root's
\* open file; Remove calls OpenDir("/"), which never sets sector.
TableTargets ==
    IF op.name = "remove" /\ Len(op.path) = 1
    THEN UninitSectors ELSE {Find(disk, Front(op.path))}

\* Mutant: the table of a new directory is not written.
AfterTableNoNew == IF op.name = "remove" THEN op' = NoOp ELSE Goto("map")

AfterTable ==
    \/ op.name = "mkdir" /\ Goto("newtable")
    \/ op.name = "remove" /\ op' = NoOp
    \/ op.name \in {"create", "copy"} /\ Goto("map")

CanOpen(s) == IsSector(s) /\ HasHeaders(disk, s)

\* WriteAt writes nothing to a file of no length.
WriteTable ==
    /\ At("table")
    /\ \E s \in TableTargets :
        IF CanOpen(s)
        THEN /\ LET hdr == FetchFrom(disk, s)
                IN  IF FileLength(hdr) = 0
                    THEN UNCHANGED disk
                    ELSE WriteSector(ByteToSector(hdr, 0), Table(op.table))
             /\ AfterTable
             /\ UNCHANGED <<phase, fd, cuts>>
        ELSE IF s # NoSector
        THEN TakesGarbage
        ELSE /\ cuts < MaxCuts           \* ReadRequest's assertion, or NULL
             /\ cuts' = cuts + 1
             /\ Reboot
             /\ UNCHANGED disk

\* The table of the new directory, through the header just written.
WriteNewTable ==
    /\ At("newtable")
    /\ IF HasHeaders(disk, op.sector) /\ FileLength(FetchFrom(disk, op.sector)) > 0
       THEN /\ WriteSector(ByteToSector(FetchFrom(disk, op.sector), 0), Table(EmptyTable))
            /\ Goto("map")
            /\ UNCHANGED <<phase, fd, cuts>>
       ELSE TakesGarbage

\* freeMap->WriteBack(freeMapFile), sector by sector.
WriteMap ==
    /\ At("map")
    /\ WriteSector(ByteToSector(FetchFrom(disk, FreeMapSector), op.k - 1),
                   MapPart(op.k, op.map))
    /\ \/ op.k < MapSectors /\ op' = [op EXCEPT !.k = @ + 1]
       \/ op.k = MapSectors /\ op.name = "remove" /\ Goto("table")
       \/ op.k = MapSectors /\ op.name = "copy" /\ Goto("open")
       \/ op.k = MapSectors /\ op.name \in {"create", "mkdir"} /\ op' = NoOp
    /\ UNCHANGED <<phase, fd, cuts>>

-------------------------------------------------------------------------------
\* Copy goes on: open the file, write all of it, delete the OpenFile.

CopyOpens ==
    /\ At("open")
    /\ IF Exists(disk, op.path) /\ HasHeaders(disk, Find(disk, op.path))
       THEN /\ fd' = OpenFile(disk, op.path)
            /\ Goto("data")
            /\ UNCHANGED <<disk, phase, cuts>>
       ELSE TakesGarbage

CopyWrites ==
    /\ At("data") /\ fd.pos < FileLength(fd.hdr)
    /\ \E v \in Values : WriteSector(ByteToSector(fd.hdr, fd.pos), Data(v))
    /\ fd' = [fd EXCEPT !.pos = @ + 1]
    /\ UNCHANGED <<phase, op, cuts>>

CopyEnds ==
    /\ At("data") /\ fd.pos = FileLength(fd.hdr)
    /\ fd' = Deleted /\ op' = NoOp
    /\ UNCHANGED <<disk, phase, cuts>>

-------------------------------------------------------------------------------
\* Remove, of the kernel's command line

RemoveFile(p) ==
    /\ Idle /\ phase = "main" /\ ValidPath(p)
    /\ LET parent == Find(disk, Front(p))
           table  == TableAt(disk, parent)
           sector == table[Last(p)].sector
           map    == FreeMap(disk)
           hdr    == FetchFrom(disk, sector)
       IN  IF parent = Garbage \/ (parent >= 0 /\ ~IsDirectory(disk, parent))
           THEN TakesGarbage
           ELSE IF parent = NoSector \/ Last(p) \notin DOMAIN table
           THEN FailsAndDeletesUninit
           ELSE IF ~HasHeaders(disk, sector)
           THEN TakesGarbage
           ELSE IF ~CanDeallocate(map, hdr)
           THEN Reboot /\ UNCHANGED <<disk, cuts>>
           ELSE /\ op' = [NoOp EXCEPT
                    !.name   = "remove",
                    !.path   = p,
                    !.sector = sector,
                    !.table  = [n \in DOMAIN table \ {Last(p)} |-> table[n]],
                    !.map    = Deallocate(map, hdr) \ {sector},
                    !.step   = "map"]
                /\ UNCHANGED <<disk, phase, fd, cuts>>

-------------------------------------------------------------------------------
\* Open, and what programs do with the one open file

\* What Open(p) sets fileDescriptor to.  In a subdirectory it does not look at
\* what Find returned: OpenFile(-1) ends in ReadRequest's assertion.
Open(p, opened) ==
    LET s == Find(disk, p)
    IN  IF s = Garbage \/ (s >= 0 /\ ~HasHeaders(disk, s))
        THEN TakesGarbage
        ELSE IF s >= 0
        THEN opened
        ELSE IF Len(p) = 1 \/ Find(disk, Front(p)) = NoSector
        THEN fd' = Null /\ UNCHANGED <<disk, phase, op, cuts>>
        ELSE Reboot /\ UNCHANGED <<disk, cuts>>

\* Load opens the program, reads it and deletes the OpenFile, which
\* fileDescriptor goes on pointing to.
Load(p) ==
    /\ Idle /\ phase = "main" /\ ValidPath(p) /\ ~IsDir(disk, p)
    /\ Open(p, /\ phase' = "user" /\ fd' = Deleted
               /\ UNCHANGED <<disk, op, cuts>>)

\* Open does not ask whether p is a directory; programs are taken to open files.
SysOpen(p) ==
    /\ Idle /\ phase = "user" /\ ValidPath(p) /\ ~IsDir(disk, p)
    /\ Open(p, /\ fd' = OpenFile(disk, p)
               /\ UNCHANGED <<disk, phase, op, cuts>>)

UsesDeleted == phase' = "freed" /\ UNCHANGED <<disk, fd, op, cuts>>

\* Mutant: does not stop at the end of the file.
SysReadPastEnd ==
    /\ Idle /\ phase = "user"
    /\ \/ fd = Null /\ Fails
       \/ fd = Deleted /\ UsesDeleted
       \/ /\ fd.kind = "open"
          /\ fd' = [fd EXCEPT !.pos = @ + 1]
          /\ UNCHANGED <<disk, phase, op, cuts>>

\* Read and Write at the current position; at the end of the file they do
\* nothing, as with no open file.
InFile == fd.kind = "open" /\ fd.pos < FileLength(fd.hdr)

SysRead ==
    /\ Idle /\ phase = "user"
    /\ \/ fd = Deleted /\ UsesDeleted
       \/ fd # Deleted /\ ~InFile /\ Fails
       \/ /\ InFile
          /\ fd' = [fd EXCEPT !.pos = @ + 1]
          /\ UNCHANGED <<disk, phase, op, cuts>>

SysWrite(v) ==
    /\ Idle /\ phase = "user"
    /\ \/ fd = Deleted /\ UsesDeleted
       \/ fd # Deleted /\ ~InFile /\ Fails
       \/ /\ InFile
          /\ WriteSector(ByteToSector(fd.hdr, fd.pos), Data(v))
          /\ fd' = [fd EXCEPT !.pos = @ + 1]
          /\ UNCHANGED <<phase, op, cuts>>

SysClose ==
    /\ Idle /\ phase = "user"
    /\ IF fd = Deleted THEN UsesDeleted
       ELSE fd' = Null /\ UNCHANGED <<disk, phase, op, cuts>>

\* The kernel ends between operations, and boots again.
Halt == Idle /\ Reboot /\ UNCHANGED <<disk, cuts>>

\* The kernel ends inside an operation: CallOnUserAbort(Cleanup).
Cut ==
    /\ Running /\ op # NoOp /\ cuts < MaxCuts
    /\ cuts' = cuts + 1
    /\ Reboot
    /\ UNCHANGED disk

\* A path is given to an operation, in the main program or by a user program.
Call(p) ==
    \/ \E n \in Sizes : Create(p, n) \/ Copy(p, n)
    \/ CreateDirectory(p) \/ RemoveFile(p) \/ Load(p) \/ SysOpen(p)

\* What goes on by itself, or with the open file.
Continue ==
    \/ WriteHeader \/ WriteTable \/ WriteNewTable \/ WriteMap
    \/ CopyOpens \/ CopyWrites \/ CopyEnds
    \/ SysRead \/ (\E v \in Values : SysWrite(v)) \/ SysClose
    \/ Halt \/ Cut

Next == (\E p \in Paths : Call(p)) \/ Continue

Spec == Init /\ [][Next]_vars

-------------------------------------------------------------------------------
\* Properties

\* Types of the variables.  A block's fields go with its kind.
Block ==
    [kind : {"header"}, hdr : [next : Sector \cup {NoSector}, data : Seq(Sector)]]
    \cup [kind : {"map"}, marks : SUBSET Sector]
    \cup [kind : {"data"}, value : Values] \cup {Unwritten}

IsTable(t) == \A n \in DOMAIN t : t[n].sector \in Sector /\ t[n].isDir \in BOOLEAN

TypeOK ==
    /\ DOMAIN disk = Sector
    /\ \A s \in Sector : disk[s] \in Block \/ (disk[s].kind = "table" /\ IsTable(disk[s].table))
    /\ phase \in {"main", "user", "garbage", "freed"}
    /\ fd \in {Null, Deleted} \/ (fd.sector \in Sector /\ fd.pos \in 0..FileLength(fd.hdr))
    /\ op.map \subseteq Sector /\ IsTable(op.table)
    /\ op.step \in {"none", "header", "table", "newtable", "map", "open", "data"}
    /\ cuts \in 0..MaxCuts

\* Remove says it gives back "the space for its header" and "the space for its
\* data blocks" (filesys.cc:541-545): when nothing is in progress and nothing
\* was cut off, every marked sector belongs to a file that can be found.
NoSectorLost ==
    cuts = 0 /\ Idle =>
        FreeMap(disk) \subseteq
            SectorsOf(disk, FreeMapSector)
              \cup UNION {SectorsOf(disk, Find(disk, p)) :
                          p \in Found(disk)}

\* "if the operation succeeds, the changes are written immediately back to disk"
\* (filesys.cc:24-26): when Remove has returned, the name is gone.
RemovedIsGone ==
    [][At("table") /\ op.name = "remove" /\ Idle' => ~Exists(disk', op.path)]_vars
===============================================================================
