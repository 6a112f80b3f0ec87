---------------------------------- MODULE FAT ----------------------------------
(***************************************************************************)
(* The FAT file system and the shell commands that use it:                 *)
(* kernel/src/filesystem/fat.cpp, drivers/readDisk.cpp, and ls, cd and     *)
(* read of desktop/handlers/keyboard.cpp.                                  *)
(*                                                                         *)
(* Lengths are in units of which a sector has SectorSize.  The content of  *)
(* a sector is the number of the sector it was read from, so a buffer is   *)
(* the number of the sector it holds.  Numbers of 32 bits wrap at Word.    *)
(* A step is one iteration of a loop of the code; a command runs in the    *)
(* keyboard's handler and is alone until it ends.  A read of the disk may  *)
(* fail MaxFailures times.  The step that uses a NULL file ends the model. *)
(***************************************************************************)
EXTENDS Integers, Sequences, FiniteSets

CONSTANTS
    SectorSize,         \* SECTOR_SIZE, 512
    EntrySize,          \* sizeof(FAT_DirectoryEntry), 32
    BufferSize,         \* of the shell's read, 100
    ListLimit,          \* entries ls reads before it gives up, 14
    MaxFileHandles,     \* MAX_FILE_HANDLES, 10
    CacheSize,          \* FAT_CACHE_SIZE, 5
    Word,               \* 2^32
    \* The volume.
    Fat32,              \* SectorsPerFat of the boot sector is 0
    ReservedSectors, SectorsPerFat, FatCount, SectorsPerCluster,
    DirEntryCount,      \* 0 on FAT32
    RootCluster,        \* FAT32 only
    EntriesPerSector,   \* of the FAT
    EndMark,            \* entries from here on end a chain
    Fat,                \* the FAT on the disk: cluster -> next one
    DiskSectors,
    Slots,              \* sectors of directories: sector -> slot -> entry
    \* The user.
    Directories,        \* paths given to cd
    Names,              \* names given to read
    ShortNames,         \* those that one more character would change
    MaxFailures         \* bound on failing reads

NULL  == -2
ROOT_DIRECTORY_HANDLE == -1
Handles == 0 .. MaxFileHandles - 1
NoSector == -1              \* contents of a buffer never filled
Blank == [name |-> "", directory |-> FALSE, cluster |-> 0, size |-> 0]
Junk  == [Blank EXCEPT !.name = "?"]

ASSUME SizeAssumption ==
    /\ EntrySize \in Nat \ {0} /\ SectorSize \in Nat \ {0} /\ BufferSize \in Nat \ {0}
    /\ Word \in Nat \ {0} /\ SectorSize % EntrySize = 0 /\ Word % SectorSize = 0
    /\ BufferSize <= SectorSize
    /\ ListLimit \in Nat /\ MaxFileHandles \in Nat /\ CacheSize \in Nat /\ MaxFailures \in Nat

\* What the paths are made of.  "" is the name of an entry that is not used, "?"
\* that of a file's bytes.
UserNames ==
    Names \cup {"?garbled"} \cup UNION {{p[n] : n \in DOMAIN p} : p \in Directories}
ASSUME UserAssumption ==
    Directories \subseteq Seq(UserNames) /\ "" \notin UserNames /\ "?" \notin UserNames

VARIABLES
    g_Data,         \* the file system's data
    currentPath,    \* of the shell
    pc,             \* place in the running command
    command,        \* the running command, or the last one
    argument,       \* its path
    path,           \* what FAT_Open has still to walk
    name,           \* what FAT_FindFile looks for
    current,        \* the file it looks in, then the file opened
    entry,          \* the entry found
    byteCount,      \* what FAT_Read has still to copy
    i,              \* entries ls has read
    listed,         \* history: names ls has printed
    output,         \* history: units read has printed
    found,          \* history: the entry of the file opened last
    failures        \* history: reads that failed

walk == <<path, name, current, entry, found>>
work == <<byteCount, i, listed, output>>
vars == <<g_Data, currentPath, pc, command, argument, walk, work, failures>>

-----------------------------------------------------------------------------
(* The volume.                                                             *)

FirstRootOrData == ReservedSectors + SectorsPerFat * FatCount
RootSize    == EntrySize * DirEntryCount
RootSectors == (RootSize + SectorSize - 1) \div SectorSize
DataSectionLba == FirstRootOrData + IF Fat32 THEN 0 ELSE RootSectors

ClusterToLba(cluster) ==
    (DataSectionLba + (cluster - 2) * SectorsPerCluster) % Word

RootDirLba == IF Fat32 THEN ClusterToLba(RootCluster) ELSE FirstRootOrData

\* The n-th cluster of the chain that starts at a cluster, as the disk has it.
ClusterAt(first, n) ==
    LET chain[k \in 0 .. n] ==
          IF k = 0 THEN first
          ELSE IF chain[k - 1] \in DOMAIN Fat THEN Fat[chain[k - 1]] ELSE EndMark
    IN  chain[n]

\* Clusters that the FAT has an entry for and the disk has the sectors of.
Clusters ==
    {c \in DOMAIN Fat : /\ c >= 2 /\ c < EndMark
                        /\ ReservedSectors + (c \div EntriesPerSector) < DiskSectors
                        /\ DataSectionLba + (c - 1) * SectorsPerCluster <= DiskSectors}

\* What is not empty has a chain that is long enough, and that ends.
Chained(e) ==
    \E length \in 1 .. Cardinality(DOMAIN Fat) :
        /\ \A n \in 0 .. length - 1 : ClusterAt(e.cluster, n) \in Clusters
        /\ ClusterAt(e.cluster, length) >= EndMark
        /\ e.size <= length * (SectorsPerCluster * SectorSize)
        /\ length * (SectorsPerCluster * SectorSize) < Word

\* The numbers have the widths of the boot sector's, the root directory is on
\* the disk, and what can be asked for has its clusters, an empty file none.
\* An entry of FAT32 has 28 bits and four reserved ones, which are zero: its index
\* in the FAT never overflows.
\* Entries that no path names (deleted ones, parts of long names, "." and "..") may point anywhere.
ASSUME VolumeAssumption ==
    /\ Fat32 \in BOOLEAN /\ (Fat32 => DirEntryCount = 0)
    /\ SectorsPerCluster \in Nat \ {0} /\ EntriesPerSector \in Nat \ {0}
    /\ ReservedSectors \in Nat /\ SectorsPerFat \in Nat /\ FatCount \in Nat
    /\ DirEntryCount \in Nat /\ RootCluster \in Nat /\ RootSize < Word
    /\ DiskSectors \in Nat /\ DiskSectors <= Word /\ RootDirLba < DiskSectors
    /\ EndMark \in Nat \ {0} /\ EndMark <= Word - 8 /\ (Fat32 => EndMark < Word \div 16)
ASSUME FatAssumption ==
    /\ IsFiniteSet(DOMAIN Fat) /\ DOMAIN Fat \subseteq Nat
    /\ Fat \in [DOMAIN Fat -> 0 .. Word - 1]
    /\ Fat32 => \A c \in DOMAIN Fat : Fat[c] < Word \div 16
ASSUME EntriesAssumption ==
    \A lba \in DOMAIN Slots :
        /\ DOMAIN Slots[lba] = 0 .. (SectorSize \div EntrySize) - 1
        /\ \A n \in DOMAIN Slots[lba] :
              LET e == Slots[lba][n] IN
              /\ e.directory \in BOOLEAN /\ e.cluster \in 0 .. Word - 1
              /\ e.size \in 0 .. Word - 1
              /\ e.name \in UserNames =>
                    IF e.directory \/ e.size > 0 THEN Chained(e) ELSE e.cluster = 0

EntryAt(buffer, position) ==
    IF buffer \in DOMAIN Slots
    THEN Slots[buffer][(position % SectorSize) \div EntrySize]
    ELSE Junk

\* Port::Read of the first SATA drive.  A read that fails may have filled the
\* buffer or not; one past the disk fails.
readDiskSector(lba, old) ==
    IF lba < DiskSectors
    THEN {[ok |-> TRUE, buffer |-> lba, failed |-> 0],
          [ok |-> FALSE, buffer |-> old, failed |-> 1],
          [ok |-> FALSE, buffer |-> lba, failed |-> 1]}
    ELSE {[ok |-> FALSE, buffer |-> old, failed |-> 0]}

-----------------------------------------------------------------------------
(* fat.cpp: each operator gives the set of its outcomes.                   *)

FileData(d, file) ==
    IF file = ROOT_DIRECTORY_HANDLE THEN d.RootDirectory ELSE d.OpenedFiles[file]

SetFileData(d, file, fd) ==
    IF file = ROOT_DIRECTORY_HANDLE
    THEN [d EXCEPT !.RootDirectory = fd]
    ELSE [d EXCEPT !.OpenedFiles[file] = fd]

FreshRoot(buffer) ==
    [Opened |-> TRUE, IsDirectory |-> TRUE, Position |-> 0, Size |-> RootSize,
     FirstCluster |-> RootDirLba, CurrentCluster |-> RootDirLba,
     CurrentSectorInCluster |-> 0, Buffer |-> buffer]

Initialize(d) ==
    LET none == [d EXCEPT !.FatCachePosition = Word - 1]
        done(r) == [none EXCEPT
                      !.RootDirectory = FreshRoot(r.buffer),
                      !.OpenedFiles = IF r.ok THEN [h \in Handles |->
                                          [@[h] EXCEPT !.Opened = FALSE]] ELSE @]
    IN  {[data |-> d, failed |-> 1]}
        \cup {[data |-> done(r), failed |-> r.failed] :
                 r \in readDiskSector(RootDirLba, d.RootDirectory.Buffer)}

\* Mutant: the handle is taken before the first sector is read.
OpenEntryEarly(d, e) ==
    LET closed == {h \in Handles : ~d.OpenedFiles[h].Opened}
        handle == CHOOSE h \in closed : \A other \in closed : h <= other
        fd(r)  == [Opened |-> TRUE, IsDirectory |-> e.directory, Position |-> 0,
                   Size |-> e.size, FirstCluster |-> e.cluster,
                   CurrentCluster |-> e.cluster, CurrentSectorInCluster |-> 0,
                   Buffer |-> r.buffer]
    IN  IF closed = {} THEN {[data |-> d, file |-> NULL, failed |-> 0]}
        ELSE {[data |-> SetFileData(d, handle, fd(r)),
               file |-> IF r.ok THEN handle ELSE NULL, failed |-> r.failed] :
                 r \in readDiskSector(ClusterToLba(e.cluster),
                                      d.OpenedFiles[handle].Buffer)}

OpenEntry(d, e) ==
    LET closed == {h \in Handles : ~d.OpenedFiles[h].Opened}
        handle == CHOOSE h \in closed : \A other \in closed : h <= other
        fd(r)  == [Opened |-> r.ok, IsDirectory |-> e.directory, Position |-> 0,
                   Size |-> e.size, FirstCluster |-> e.cluster,
                   CurrentCluster |-> e.cluster, CurrentSectorInCluster |-> 0,
                   Buffer |-> r.buffer]
    IN  IF closed = {} THEN {[data |-> d, file |-> NULL, failed |-> 0]}
        ELSE {[data |-> SetFileData(d, handle, fd(r)),
               file |-> IF r.ok THEN handle ELSE NULL, failed |-> r.failed] :
                 r \in readDiskSector(ClusterToLba(e.cluster),
                                      d.OpenedFiles[handle].Buffer)}

\* Mutant: a sector before the cached ones counts as cached.
CachedFrom(d, sector) == sector < d.FatCachePosition + CacheSize

Cached(d, sector) ==
    /\ sector >= d.FatCachePosition
    /\ sector < d.FatCachePosition + CacheSize

\* The bytes cached are those of the FAT from sector FatCacheHolds on.
ReadFat(d, sector) ==
    IF Cached(d, sector) THEN {[data |-> d, failed |-> 0]}
    ELSE {[data |-> [d EXCEPT !.FatCachePosition = sector,
                              !.FatCacheHolds = r.buffer - ReservedSectors],
           failed |-> r.failed] :
             r \in readDiskSector(ReservedSectors + sector,
                                  ReservedSectors + d.FatCacheHolds)}

\* Mutant: a FAT16 end of chain is not widened.
WidenNever(value) == value

Widen(value) == IF ~Fat32 /\ value >= EndMark THEN Word - 1 ELSE value

\* The FAT sectors that are cached need not be those the position promises.
NextCluster(d, cluster) ==
    LET sector == cluster \div EntriesPerSector
        at(x)  == cluster + (x.FatCacheHolds - x.FatCachePosition) * EntriesPerSector
        value(x) == IF at(x) \in DOMAIN Fat THEN Fat[at(x)] ELSE 0
    IN  {[data |-> r.data, cluster |-> Widen(value(r.data)), failed |-> r.failed] :
            r \in ReadFat(d, sector)}

\* What FAT_Read does when it has emptied the buffer of a file.
RefillRoot(d) ==
    LET fd  == d.RootDirectory
        lba == (fd.CurrentCluster + 1) % Word
    IN  {[data |-> [d EXCEPT !.RootDirectory.CurrentCluster = lba,
                             !.RootDirectory.Buffer = r.buffer],
          more |-> r.ok, failed |-> r.failed] : r \in readDiskSector(lba, fd.Buffer)}

\* Mutant: the comparison with the size of a cluster is off by one.
LastSectorLate(fd) == fd.CurrentSectorInCluster + 1 > SectorsPerCluster

LastSector(fd) == fd.CurrentSectorInCluster + 1 >= SectorsPerCluster

Load(d, file, fd) ==
    IF fd.CurrentCluster >= Word - 8
    THEN {[data |-> SetFileData(d, file, [fd EXCEPT !.Size = fd.Position]),
           more |-> FALSE, failed |-> 0]}
    ELSE {[data |-> SetFileData(d, file, [fd EXCEPT !.Buffer = r.buffer]),
           more |-> r.ok, failed |-> r.failed] :
             r \in readDiskSector((ClusterToLba(fd.CurrentCluster)
                                     + fd.CurrentSectorInCluster) % Word, fd.Buffer)}

RefillFile(d, file) ==
    LET fd == FileData(d, file) IN
    IF LastSector(fd)
    THEN UNION {{[s EXCEPT !.failed = @ + r.failed] :
                    s \in Load(r.data, file,
                               [fd EXCEPT !.CurrentSectorInCluster = 0,
                                          !.CurrentCluster = r.cluster])} :
                   r \in NextCluster(d, fd.CurrentCluster)}
    ELSE Load(d, file, [fd EXCEPT !.CurrentSectorInCluster = @ + 1])

Lesser(a, b) == IF a > b THEN b ELSE a

\* Mutant: the position is not taken off the size.
LimitedBySize(fd, count) ==
    IF ~fd.IsDirectory \/ fd.Size # 0 THEN Lesser(count, fd.Size) ELSE count

\* How much FAT_Read will copy.
Limited(fd, count) ==
    IF ~fd.IsDirectory \/ fd.Size # 0
    THEN Lesser(count, (fd.Size - fd.Position) % Word)
    ELSE count

Take(fd, count) == Lesser(count, SectorSize - (fd.Position % SectorSize))

\* One turn of FAT_Read's loop.
ReadTurn(d, file, count) ==
    LET fd    == FileData(d, file)
        take  == Take(fd, count)
        moved == SetFileData(d, file, [fd EXCEPT !.Position = (@ + take) % Word])
    IN  IF (fd.Position % SectorSize) + take < SectorSize
        THEN {[data |-> moved, more |-> TRUE, failed |-> 0]}
        ELSE IF file = ROOT_DIRECTORY_HANDLE THEN RefillRoot(moved)
        ELSE RefillFile(moved, file)

Close(d, file) ==
    CASE file = NULL -> d
      [] file = ROOT_DIRECTORY_HANDLE ->
            [d EXCEPT !.RootDirectory.Position = 0,
                      !.RootDirectory.CurrentCluster = d.RootDirectory.FirstCluster]
      [] OTHER -> [d EXCEPT !.OpenedFiles[file].Opened = FALSE]

-----------------------------------------------------------------------------
(* A command is typed.                                                     *)

\* FAT_Initialize has read the boot sector and the root directory.
Init ==
    /\ g_Data = [RootDirectory |-> FreshRoot(RootDirLba),
                 OpenedFiles |-> [h \in Handles |->
                    [Opened |-> FALSE, IsDirectory |-> FALSE, Position |-> 0,
                     Size |-> 0, FirstCluster |-> 0, CurrentCluster |-> 0,
                     CurrentSectorInCluster |-> 0, Buffer |-> NoSector]],
                 FatCachePosition |-> Word - 1,
                 FatCacheHolds |-> Cardinality(DOMAIN Fat)]
    /\ currentPath = <<>>
    /\ pc = "idle" /\ command = "none" /\ argument = <<>>
    /\ path = <<>> /\ name = "" /\ current = NULL /\ entry = Blank /\ found = Blank
    /\ byteCount = 0 /\ i = 0 /\ listed = {} /\ output = <<>>
    /\ failures = 0

Begin(what, p) ==
    /\ pc = "idle"
    /\ pc' = "walk" /\ command' = what /\ argument' = p
    /\ path' = p /\ name' = "" /\ current' = ROOT_DIRECTORY_HANDLE
    /\ entry' = Blank /\ found' = Blank
    /\ byteCount' = 0 /\ i' = 0 /\ listed' = {} /\ output' = <<>>
    /\ UNCHANGED <<g_Data, currentPath, failures>>

Ls      == Begin("ls", currentPath)
Cd(p)   == Begin("cd", p)
Read(f) == Begin("read", Append(currentPath, f))

Outcome(r) ==
    /\ failures + r.failed <= MaxFailures
    /\ g_Data' = r.data
    /\ failures' = failures + r.failed

Finish ==
    /\ pc' = "idle"
    /\ path' = <<>> /\ name' = "" /\ entry' = Blank /\ current' = NULL
    /\ byteCount' = 0 /\ i' = 0

-----------------------------------------------------------------------------
(* FAT_Open.                                                               *)

\* The last name of a path that does not end in a slash is followed by a
\* character nobody wrote.
NextName ==
    /\ pc = "walk" /\ path # <<>>
    /\ pc' = "search"
    /\ name' \in {Head(path)} \cup
                 IF command = "read" /\ Len(path) = 1 /\ Head(path) \in ShortNames
                 THEN {"?garbled"} ELSE {}
    /\ path' = Tail(path)
    /\ UNCHANGED <<g_Data, currentPath, command, argument, current, entry, found,
                   work, failures>>

WalkEnds ==
    /\ pc = "walk" /\ path = <<>>
    /\ pc' = "opened"
    /\ UNCHANGED <<g_Data, currentPath, command, argument, walk, work, failures>>

\* FAT_FindFile and the directory it is given.
UsesNull ==
    /\ \/ pc = "search"
       \/ pc = "opened" /\ command = "ls"
    /\ current = NULL
    /\ pc' = "null"
    /\ UNCHANGED <<g_Data, currentPath, command, argument, walk, work, failures>>

Compare ==
    /\ pc = "search" /\ current # NULL
    /\ LET fd == FileData(g_Data, current)
           e  == EntryAt(fd.Buffer, fd.Position)
       IN  /\ Limited(fd, EntrySize) = EntrySize
           /\ \E r \in ReadTurn(g_Data, current, EntrySize) : Outcome(r)
           /\ IF e.name = name
              THEN pc' = "open" /\ entry' = e
              ELSE UNCHANGED <<pc, entry>>
    /\ UNCHANGED <<currentPath, command, argument, path, name, current, found, work>>

NotFound ==
    /\ pc = "search" /\ current # NULL
    /\ Limited(FileData(g_Data, current), EntrySize) < EntrySize
    /\ g_Data' = Close(g_Data, current)
    /\ pc' = "opened" /\ current' = NULL /\ path' = <<>> /\ found' = Blank
    /\ UNCHANGED <<currentPath, command, argument, name, entry, work, failures>>

\* The check that would refuse to walk into a file compares with 0 first and
\* never applies.
OpenFound ==
    /\ pc = "open"
    /\ \E r \in OpenEntry(Close(g_Data, current), entry) :
        /\ Outcome(r)
        /\ current' = r.file
        /\ found' = IF r.file = NULL THEN Blank ELSE entry
    /\ pc' = "walk"
    /\ UNCHANGED <<currentPath, command, argument, path, name, entry, work>>

-----------------------------------------------------------------------------
(* The commands with the file FAT_Open gave them.                          *)

IsDirectory(file) == file # NULL /\ FileData(g_Data, file).IsDirectory

ChangeDirectory ==
    /\ pc = "opened" /\ command = "cd" /\ IsDirectory(current)
    /\ currentPath' = argument
    /\ g_Data' = Close(g_Data, current)
    /\ Finish
    /\ UNCHANGED <<command, argument, found, listed, output, failures>>

ChangeFails ==
    /\ pc = "opened" /\ command = "cd" /\ ~IsDirectory(current)
    /\ \E r \in Initialize(g_Data) :
          Outcome([r EXCEPT !.data = Close(r.data, current)])
    /\ Finish
    /\ UNCHANGED <<currentPath, command, argument, found, listed, output>>

ListEntry ==
    /\ pc = "opened" /\ command = "ls" /\ current # NULL
    /\ LET fd == FileData(g_Data, current)
           e  == EntryAt(fd.Buffer, fd.Position)
       IN  /\ Limited(fd, EntrySize) = EntrySize /\ i <= ListLimit
           /\ \E r \in ReadTurn(g_Data, current, EntrySize) : Outcome(r)
           /\ i' = i + 1
           /\ listed' = IF i = ListLimit \/ e = Blank THEN listed
                        ELSE listed \cup {e.name}
    /\ UNCHANGED <<currentPath, pc, command, argument, walk, byteCount, output>>

ListEnds ==
    /\ pc = "opened" /\ command = "ls" /\ current # NULL
    /\ \/ Limited(FileData(g_Data, current), EntrySize) < EntrySize
       \/ i > ListLimit
    /\ g_Data' = Close(g_Data, current)
    /\ Finish
    /\ UNCHANGED <<currentPath, command, argument, found, listed, output, failures>>

\* The shell calls FAT_Read until it answers 0.
CallRead ==
    /\ pc = "opened" /\ command = "read" /\ current # NULL /\ ~IsDirectory(current)
    /\ byteCount = 0
    /\ byteCount' = Limited(FileData(g_Data, current), BufferSize)
    /\ byteCount' > 0
    /\ UNCHANGED <<g_Data, currentPath, pc, command, argument, walk, i, listed,
                   output, failures>>

CopyTurn ==
    /\ pc = "opened" /\ command = "read" /\ byteCount > 0
    /\ LET fd   == FileData(g_Data, current)
           take == Take(fd, byteCount)
       IN  /\ output' = output \o [n \in 1 .. take |->
                           <<fd.Buffer, (fd.Position % SectorSize) + n - 1>>]
           /\ \E r \in ReadTurn(g_Data, current, byteCount) :
                 /\ Outcome(r)
                 /\ byteCount' = IF r.more THEN byteCount - take ELSE 0
    /\ UNCHANGED <<currentPath, pc, command, argument, walk, i, listed>>

ReadEnds ==
    /\ pc = "opened" /\ command = "read" /\ byteCount = 0
    /\ current # NULL /\ ~IsDirectory(current) =>
          Limited(FileData(g_Data, current), BufferSize) = 0
    /\ g_Data' = Close(g_Data, current)
    /\ Finish
    /\ UNCHANGED <<currentPath, command, argument, found, listed, output, failures>>

CommandStep ==
    \/ NextName \/ WalkEnds \/ UsesNull \/ Compare \/ NotFound \/ OpenFound
    \/ ChangeDirectory \/ ChangeFails \/ ListEntry \/ ListEnds
    \/ CallRead \/ CopyTurn \/ ReadEnds

Next ==
    \/ Ls
    \/ \E p \in Directories : Cd(p)
    \/ \E f \in Names : Read(f)
    \/ CommandStep

\* A command runs inside the keyboard's handler: nothing stops it before it
\* ends.  Nobody has to type one.
Spec == Init /\ [][Next]_vars /\ WF_vars(CommandStep)
-----------------------------------------------------------------------------
(* Properties.                                                             *)

ChainEnd(c) == c >= EndMark

SectorAt(first, position) ==
    LET sector == position \div SectorSize IN
    ClusterToLba(ClusterAt(first, sector \div SectorsPerCluster))
        + (sector % SectorsPerCluster)

Contents(e) ==
    [n \in 1 .. e.size |-> <<SectorAt(e.cluster, n - 1), (n - 1) % SectorSize>>]

IsFileData(fd) ==
    /\ fd.Opened \in BOOLEAN /\ fd.IsDirectory \in BOOLEAN
    /\ fd.Position \in 0 .. Word - 1 /\ fd.Size \in 0 .. Word - 1
    /\ fd.CurrentCluster \in 0 .. Word - 1
    /\ fd.CurrentSectorInCluster \in 0 .. SectorsPerCluster - 1
    /\ fd.Buffer \in NoSector .. DiskSectors - 1

TypeOK ==
    /\ IsFileData(g_Data.RootDirectory)
    /\ \A h \in Handles : IsFileData(g_Data.OpenedFiles[h])
    /\ g_Data.FatCachePosition \in 0 .. Word - 1 /\ g_Data.FatCacheHolds \in Int
    /\ pc \in {"idle", "walk", "search", "open", "opened", "null"}
    /\ command \in {"none", "ls", "cd", "read"}
    /\ current \in Handles \cup {NULL, ROOT_DIRECTORY_HANDLE}
    /\ i \in 0 .. ListLimit + 1 /\ byteCount \in 0 .. BufferSize

OpenHandles == {h \in Handles : g_Data.OpenedFiles[h].Opened}

\* A command never holds more than the one file it is in, and returns it,
\* whatever reads failed: the handles never run out.
HandlesReturned ==
    OpenHandles = IF pc # "idle" /\ current \in Handles THEN {current} ELSE {}

\* The buffer of an open file is the sector of its position in its own chain of
\* clusters, wherever the last call of FAT_Read stopped and whatever FAT
\* sectors were cached then, as long as no read failed.  A directory of FAT32
\* has no size that would end its search with its chain.
BufferAtPosition ==
    failures = 0 => \A h \in {h \in OpenHandles : Fat32 => ~g_Data.OpenedFiles[h].IsDirectory} :
        LET fd == g_Data.OpenedFiles[h]
            n  == (fd.Position \div SectorSize) \div SectorsPerCluster
        IN  IF ChainEnd(ClusterAt(fd.FirstCluster, n))
            THEN fd.Position > 0 /\ fd.Size <= fd.Position
            ELSE fd.Buffer = SectorAt(fd.FirstCluster, fd.Position)

\* When read ends it has printed the file that was opened, all of it and
\* nothing else, as long as no read failed.
WholeFile ==
    failures = 0 /\ pc = "idle" /\ command = "read" =>
        output = IF found = Blank \/ found.directory THEN <<>> ELSE Contents(found)

\* However reads fail, what read prints is no longer than the file.
NeverTooLong ==
    command = "read" /\ ~found.directory /\ output # <<>> => Len(output) <= found.size

\* On a disk that answers, every command ends, unless a NULL file is used.
CommandEnds == pc # "idle" ~> pc \in {"idle", "null"} \/ failures > 0

-----------------------------------------------------------------------------
(* What the code says of itself and does not keep.                         *)

\* The directory at a path, as the disk has it: its sectors.
SectorsOf(first) ==
    {SectorAt(first, n * SectorSize) : n \in
        {n \in 0 .. SectorsPerCluster * Cardinality(DOMAIN Fat) :
            ~ChainEnd(ClusterAt(first, n \div SectorsPerCluster))}}

EntriesOf(sectors) == UNION {{Slots[lba][n] : n \in DOMAIN Slots[lba]} : lba \in sectors}

DirectoryAt(p) ==
    LET sectors[n \in 0 .. Len(p)] ==
          IF n = 0 THEN RootDirLba .. RootDirLba + RootSectors - 1
          ELSE SectorsOf((CHOOSE e \in EntriesOf(sectors[n - 1]) : e.name = p[n]).cluster)
    IN  sectors[Len(p)]

FirstEntries(p) ==
    LET first == CHOOSE lba \in DirectoryAt(p) : \A other \in DirectoryAt(p) : lba <= other
    IN  {Slots[first][n] : n \in {n \in DOMAIN Slots[first] : n < ListLimit}} \ {Blank}

\* "Lists all files and directories in current path": when ls ends, it has
\* printed at least the names among the first entries that the disk has there,
\* as many entries as ls reads, and no name from anywhere else.
ListsAll ==
    command = "ls" /\ pc \in {"idle", "null"} =>
        /\ {e.name : e \in FirstEntries(currentPath)} \subseteq listed
        /\ listed \subseteq {e.name : e \in EntriesOf(DirectoryAt(currentPath))}

\* "not a directory": only directories are searched for a name.
OnlyDirectoriesSearched ==
    pc = "search" /\ current # NULL => IsDirectory(current)
=============================================================================
