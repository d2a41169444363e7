----------------------------- MODULE MCFileSystem -----------------------------
(* FileSystem for TLC.  RECURSIVE operators are only here. *)
EXTENDS FileSystem

\* Files and a directory in the root, a file in the directory.
MCFewPaths == {<<"a">>, <<"d">>, <<"d", "b">>}
MCPaths == {<<"a">>, <<"c">>, <<"d">>, <<"d", "b">>}
MCUninitSectors == {DirectorySector}
MCUninitAborts == {DirectorySector, NoSector}
MCUninitAny == Sector \cup {NoSector}

FindAndSet(map) == CHOOSE s \in Sector \ map : \A t \in Sector \ map : s <= t

RECURSIVE FindAll(_, _)
FindAll(map, n) ==
    IF n = 0 THEN <<>>
    ELSE <<FindAndSet(map)>> \o FindAll(map \cup {FindAndSet(map)}, n - 1)

\* FileHeader::Allocate call by call (filehdr.cc:75-113).
RECURSIVE AllocateByCalls(_, _)
AllocateByCalls(map, size) ==
    LET n    == IF size > NumDirect THEN NumDirect ELSE size
        data == FindAll(map, n)
        rest == map \cup ToSet(data)
        next == FindAndSet(rest)
        tail == AllocateByCalls(rest \cup {next}, size - NumDirect)
        fail == [ok |-> FALSE, map |-> map, hdr |-> <<>>]
    IN  IF NumSectors - Cardinality(map) < n THEN fail
        ELSE IF size <= NumDirect
        THEN [ok |-> TRUE, map |-> rest, hdr |-> <<[next |-> NoSector, data |-> data]>>]
        ELSE IF rest = Sector \/ ~tail.ok THEN fail
        ELSE [ok  |-> TRUE, map |-> tail.map,
              hdr |-> <<[next |-> next, data |-> data]>> \o tail.hdr]

\* Allocate is what the calls of FindAndSet and the recursion of Allocate do,
\* for the maps that come up and every size up to more than the disk.
AllocateIsByCalls ==
    \A n \in 0..(NumSectors + 1) :
        Allocate(FreeMap(disk), n) = AllocateByCalls(FreeMap(disk), n)
===============================================================================
