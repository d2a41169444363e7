--------------------------- MODULE FileSystemStore ---------------------------
(***************************************************************************)
(* FileSystem beside what FileStore promises of it, also when operations   *)
(* are cut off.  A cut leaves one name in doubt, that of the file it was   *)
(* working on: the sectors the name leads to may be clear in the map, and  *)
(* then they go to other files.  What is promised is promised of all other *)
(* files, while nobody uses a name in doubt.                               *)
(***************************************************************************)
EXTENDS FileSystem

\* None of these is in the code, and they are functions of what happens there.
VARIABLES
    doubtful,   \* the paths whose operations were cut off
    tree,       \* the files and directories, as FileStore has them
    opened      \* the path and position of the open file

Doubted(p) == Prefixes(p) \cap doubtful # {}
Trusted(d) == {p \in Found(d) : ~Doubted(p)}

\* The name that is in doubt when the kernel ends here: none before it is in the
\* table, none when the map has been written (Create, CreateDirectory, Copy).
Left == IF op.step \in {"open", "data"} THEN {} ELSE {op.path} \cap Found(disk)

Contents(d, p) ==
    LET hdr == FetchFrom(d, Find(d, p))
    IN  [i \in 1..FileLength(hdr) |-> d[ByteToSector(hdr, i - 1)]]

\* The tree on disk d in operation o.  The directory being created is empty,
\* whatever its sector holds until its table is written.
TreeOn(d, o) ==
    [p \in {p \in Trusted(d) \ {<<>>} :
                ~(o.step = "newtable" /\ IsStrictPrefix(o.path, p))} |->
        [isDir |-> IsDir(d, p),
         data  |-> IF IsDir(d, p) THEN <<>> ELSE Contents(d, p)]]

OpenedOn(d, f) ==
    IF f.kind = "open"
    THEN [path |-> CHOOSE p \in Trusted(d) : Find(d, p) = f.sector, pos |-> f.pos]
    ELSE Null

StoreInit ==
    /\ Init
    /\ doubtful = {}
    /\ tree = TreeOn(disk, op)
    /\ opened = OpenedOn(disk, fd)

StoreNext ==
    /\ (\E p \in Paths : ~Doubted(p) /\ Call(p)) \/ Continue
    /\ doubtful' = IF cuts' = cuts THEN doubtful ELSE doubtful \cup Left
    /\ tree' = TreeOn(disk, op)'
    /\ opened' = OpenedOn(disk, fd)'

StoreSpec == StoreInit /\ [][StoreNext]_<<vars, doubtful, tree, opened>>

-------------------------------------------------------------------------------
\* Properties

\* The operation in progress is about p, or about a directory above it.
WorksOn(p) == op # NoOp /\ IsPrefix(op.path, p)

\* Every file that can be found has its own marked sectors, but for those in
\* doubt and the one that is being created or removed; so FindAndSet never hands
\* out a sector in use, wherever an operation was cut off before (Create,
\* Remove: the order of their writes, and what Allocate and Deallocate mark).
OthersSound ==
    Running =>
        LET others  == {p \in Trusted(disk) : ~WorksOn(p)}
            sectors == [p \in others |-> SectorsOf(disk, Find(disk, p))]
        IN  \A p \in others :
                /\ HasHeaders(disk, Find(disk, p))
                /\ sectors[p] \subseteq FreeMap(disk) \ SectorsOf(disk, FreeMapSector)
                /\ \A q \in others \ {p} : sectors[p] \cap sectors[q] = {}

\* What is on the disk is never taken for what it is not, whatever was created,
\* removed and cut off before.
NothingGarbled == phase # "garbage"

Store == INSTANCE FileStore WITH
    Names   <- Paths,
    Blocks  <- {Data(v) : v \in Values},
    NotOpen <- Null

\* What is on the disk is what FileStore promises, operation by operation: a
\* name comes and goes with the write of a directory's table, a file keeps its
\* length and its data, and a write changes the one place it is for (Create,
\* Remove and WriteAt through ByteToSector).  A cut does what Remove does to the
\* one file it leaves in doubt, or nothing.
ImplementsStore == Store!Spec
===============================================================================
