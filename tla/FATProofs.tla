------------------------------- MODULE FATProofs -------------------------------
(***************************************************************************)
(* Theorems about the file system and the commands that use it, for every  *)
(* volume that is in order, every number of handles, every size of the     *)
(* cache and every number of failing reads.                                *)
(***************************************************************************)
EXTENDS FAT, FiniteSetTheorems, SequenceTheorems, WellFoundedInduction, TLAPS

-----------------------------------------------------------------------------
(* The invariant.                                                            *)

FileDatas ==
    [Opened : BOOLEAN, IsDirectory : BOOLEAN, Position : 0 .. Word - 1,
     Size : 0 .. Word - 1, FirstCluster : 0 .. Word - 1,
     CurrentCluster : 0 .. Word - 1,
     CurrentSectorInCluster : 0 .. SectorsPerCluster - 1,
     Buffer : NoSector .. DiskSectors - 1]

Datas == [RootDirectory : FileDatas, OpenedFiles : [Handles -> FileDatas],
          FatCachePosition : 0 .. Word - 1, FatCacheHolds : Int]

Files == Handles \cup {ROOT_DIRECTORY_HANDLE}

\* Which handles are taken, and that the root directory is one.
Taken(d, S) ==
    /\ d \in Datas /\ d.RootDirectory.IsDirectory
    /\ \A h \in Handles : FileData(d, h).Opened <=> h \in S

\* A unit that was printed: of which sector, and where in it.
Outputs == Int \X Int

\* An entry of the volume that can be asked for.
IsEntry(e) ==
    /\ \E lba \in DOMAIN Slots : \E n \in DOMAIN Slots[lba] : e = Slots[lba][n]
    /\ e.name \in UserNames

Typed ==
    /\ pc \in {"idle", "walk", "search", "open", "opened", "null"}
    /\ command \in {"none", "ls", "cd", "read"}
    /\ current \in Files \cup {NULL}
    /\ i \in 0 .. ListLimit + 1 /\ byteCount \in 0 .. BufferSize /\ failures \in Nat
    /\ output \in Seq(Outputs)

\* What is looked for can only be found in a directory of the volume.
Lookup ==
    /\ currentPath \in Seq(UserNames) /\ argument \in Seq(UserNames)
    /\ path \in Seq(UserNames)
    /\ pc = "search" => name \in UserNames
    /\ pc = "open" => IsEntry(entry)
    /\ found = Blank \/ IsEntry(found)

\* The one handle that a command has is that of its file.
Handle ==
    /\ pc \in {"idle", "null"} => current = NULL
    /\ pc = "open" => current # NULL
    /\ Taken(g_Data, {current})

\* The file is the one whose entry was found.
Held ==
    /\ pc # "idle" /\ current \notin Handles => found = Blank
    /\ current \in Handles =>
         LET fd == FileData(g_Data, current) IN
         /\ IsEntry(found)
         /\ fd.IsDirectory = found.directory /\ fd.FirstCluster = found.cluster
         /\ pc = "walk" => fd.Position = 0 /\ fd.Size = found.size

\* Something is read: the position follows what was printed, and what is still
\* to be copied is there.
Reads == pc = "opened" /\ command = "read" /\ current \in Handles /\ ~found.directory

Printed ==
    /\ pc # "opened" => byteCount = 0
    /\ pc \notin {"opened", "idle"} => output = <<>>
    /\ byteCount > 0 => Reads
    /\ found.directory => output = <<>>
    /\ Len(output) <= found.size
    /\ Reads => LET fd == FileData(g_Data, current) IN
                /\ Len(output) = fd.Position
                /\ fd.Position + byteCount <= fd.Size /\ fd.Size <= found.size

Safe == Typed /\ Lookup /\ Handle /\ Held /\ Printed

\* As long as no read failed the cached sectors of the FAT are those that the
\* cache should hold, and a file's buffer and cluster are those of its position,
\* or it has been read to the end of its chain.  A search that goes on behind the
\* end of a chain of FAT32 may have moved the cache past the disk, and what it
\* holds then is used for no cluster of a chain.
CacheRight(d) ==
    d.FatCachePosition # Word - 1 /\ ReservedSectors + d.FatCachePosition < DiskSectors =>
        d.FatCacheHolds = d.FatCachePosition

ClusterSize == SectorsPerCluster * SectorSize

Chain(e, length) ==
    /\ \A n \in 0 .. length - 1 : ClusterAt(e.cluster, n) \in Clusters
    /\ ClusterAt(e.cluster, length) >= EndMark
    /\ e.size <= length * ClusterSize /\ length * ClusterSize < Word

Inside(fd, e, length) ==
    LET sector == fd.Position \div SectorSize IN
    /\ sector < length * SectorsPerCluster
    /\ fd.Size = e.size
    /\ fd.CurrentCluster = ClusterAt(e.cluster, sector \div SectorsPerCluster)
    /\ fd.CurrentSectorInCluster = sector % SectorsPerCluster
    /\ fd.Buffer = SectorAt(e.cluster, fd.Position)

AtEnd(fd, length) == fd.Position = length * ClusterSize /\ fd.Size = fd.Position

\* On FAT32 nothing is known of a directory: its search may have gone astray.
Lost(e) == Fat32 /\ e.directory

InPlace(fd, e) ==
    IF e.directory \/ e.size > 0
    THEN \E length \in Nat \ {0} :
            Chain(e, length) /\ (Inside(fd, e, length) \/ AtEnd(fd, length))
    ELSE fd.Position = 0 /\ fd.Size = 0 /\ fd.Buffer = SectorAt(e.cluster, 0)

Placed(fd, e) ==
    /\ ~e.directory => fd.Position <= fd.Size
    /\ ~Lost(e) => InPlace(fd, e)

Exact ==
    /\ CacheRight(g_Data)
    /\ current \in Handles => Placed(FileData(g_Data, current), found)
    /\ Reads => output = SubSeq(Contents(found), 1, FileData(g_Data, current).Position)
    /\ WholeFile

IInv == Safe /\ (failures = 0 => Exact)

-----------------------------------------------------------------------------
(* Lemmas about the operators of the file system.                            *)

\* A handle is none of the other values that a file may have.
LEMMA FilesDiffer ==
    /\ Handles \subseteq Nat /\ NULL \notin Files /\ ROOT_DIRECTORY_HANDLE \notin Handles
    /\ NULL # ROOT_DIRECTORY_HANDLE
BY SizeAssumption DEF Handles, Files, NULL, ROOT_DIRECTORY_HANDLE

\* A set of numbers that is not empty has a smallest one.
LEMMA Smallest ==
    ASSUME NEW S \in SUBSET Nat, S # {}
    PROVE  \E k \in S : \A m \in S : k <= m
<1> DEFINE R == OpToRel(<, Nat)
<1>1. IsWellFoundedOn(R, Nat)
  BY NatLessThanWellFounded
<1>2. \E k \in S : \A m \in S : <<m, k>> \notin R
  <2> HIDE DEF R
  <2> QED
    BY <1>1, WFMin
<1>3. PICK k \in S : \A m \in S : ~(m < k)
  BY <1>2 DEF OpToRel
<1> QED
  BY <1>3

\* What a read of a sector gives.  (readDisk.cpp)
LEMMA ReadSector ==
    ASSUME NEW lba \in Nat, NEW old, NEW r \in readDiskSector(lba, old)
    PROVE  /\ r.ok \in BOOLEAN /\ r.failed \in {0, 1}
           /\ r.buffer = old \/ (r.buffer = lba /\ lba < DiskSectors)
           /\ r.failed = 0 /\ lba < DiskSectors => r.ok /\ r.buffer = lba
           /\ r.ok => r.failed = 0 /\ r.buffer = lba
<1>1. CASE lba < DiskSectors
  <2>1. \/ r = [ok |-> TRUE, buffer |-> lba, failed |-> 0]
        \/ r = [ok |-> FALSE, buffer |-> old, failed |-> 1]
        \/ r = [ok |-> FALSE, buffer |-> lba, failed |-> 1]
    BY <1>1 DEF readDiskSector
  <2>2. CASE r = [ok |-> TRUE, buffer |-> lba, failed |-> 0]
    BY <1>1, <2>2
  <2>3. CASE r = [ok |-> FALSE, buffer |-> old, failed |-> 1]
    BY <2>3
  <2>4. CASE r = [ok |-> FALSE, buffer |-> lba, failed |-> 1]
    BY <1>1, <2>4
  <2> QED
    BY <2>1, <2>2, <2>3, <2>4
<1>2. CASE ~(lba < DiskSectors)
  <2>1. r = [ok |-> FALSE, buffer |-> old, failed |-> 0]
    BY <1>2 DEF readDiskSector
  <2> QED
    BY <1>2, <2>1
<1> QED
  BY <1>1, <1>2

\* A buffer that a read may have filled is a buffer.
LEMMA ReadBuffer ==
    ASSUME NEW lba \in Nat, NEW old \in NoSector .. DiskSectors - 1,
           NEW r \in readDiskSector(lba, old)
    PROVE  r.buffer \in NoSector .. DiskSectors - 1 /\ r.ok \in BOOLEAN /\ r.failed \in {0, 1}
<1>1. DiskSectors \in Nat
  BY VolumeAssumption
<1> QED
  BY <1>1, ReadSector DEF NoSector

\* Numbers of the volume.
LEMMA Numbers ==
    /\ Word \in Nat /\ Word >= 8 /\ SectorSize \in Nat \ {0} /\ EntrySize \in Nat \ {0}
    /\ SectorsPerCluster \in Nat \ {0} /\ DiskSectors \in Nat
    /\ FirstRootOrData \in Nat /\ RootSize \in 0 .. Word - 1 /\ DataSectionLba \in Nat
    /\ RootDirLba \in 0 .. Word - 1 /\ RootDirLba < DiskSectors
<1>1. /\ Word \in Nat \ {0} /\ SectorSize \in Nat \ {0} /\ EntrySize \in Nat \ {0}
      /\ SectorsPerCluster \in Nat \ {0} /\ DiskSectors \in Nat /\ DirEntryCount \in Nat
      /\ RootCluster \in Nat /\ DiskSectors <= Word /\ RootDirLba < DiskSectors /\ RootSize < Word
      /\ ReservedSectors \in Nat /\ SectorsPerFat \in Nat /\ FatCount \in Nat
      /\ EndMark \in Nat /\ EndMark <= Word - 8
  BY SizeAssumption, VolumeAssumption
<1>2. FirstRootOrData \in Nat /\ RootSize \in Nat
  BY <1>1 DEF FirstRootOrData, RootSize
<1>3. RootSectors \in Nat
  BY <1>1, <1>2 DEF RootSectors
<1>4. DataSectionLba \in Nat
  BY <1>1, <1>2, <1>3 DEF DataSectionLba
<1>5. ClusterToLba(RootCluster) \in Nat
  BY <1>1, <1>4 DEF ClusterToLba
<1>6. RootDirLba \in Nat
  BY <1>2, <1>5 DEF RootDirLba
<1>7. Word >= 8
  BY <1>1
<1> QED
  BY <1>1, <1>2, <1>4, <1>6, <1>7

\* A sector of the data has a number.
LEMMA LbaType ==
    ASSUME NEW cluster \in 0 .. Word - 1
    PROVE  ClusterToLba(cluster) \in 0 .. Word - 1
BY Numbers DEF ClusterToLba

\* The file system's data are records of the right fields.
LEMMA FileDataIs ==
    ASSUME NEW d \in Datas, NEW file \in Files
    PROVE  /\ FileData(d, file) \in FileDatas
           /\ file \in Handles => FileData(d, file) = d.OpenedFiles[file]
           /\ file = ROOT_DIRECTORY_HANDLE => FileData(d, file) = d.RootDirectory
BY FilesDiffer DEF Datas, FileData, Files

\* What changes when a file's data are set.
Others(d, n, file) ==
    /\ n \in Datas
    /\ \A h \in Files \ {file} : FileData(n, h) = FileData(d, h)

SameCache(d, n) ==
    n.FatCachePosition = d.FatCachePosition /\ n.FatCacheHolds = d.FatCacheHolds

\* Setting a file's data changes them and no others.
LEMMA SetFileDataIs ==
    ASSUME NEW d \in Datas, NEW file \in Files, NEW fd \in FileDatas
    PROVE  /\ Others(d, SetFileData(d, file, fd), file)
           /\ FileData(SetFileData(d, file, fd), file) = fd
           /\ SameCache(d, SetFileData(d, file, fd))
<1>1. CASE file = ROOT_DIRECTORY_HANDLE
  <2> DEFINE n == [d EXCEPT !.RootDirectory = fd]
  <2>1. SetFileData(d, file, fd) = n
    BY <1>1 DEF SetFileData
  <2>2. n \in Datas /\ n.RootDirectory = fd /\ n.OpenedFiles = d.OpenedFiles /\ SameCache(d, n)
    BY DEF Datas, SameCache
  <2> HIDE DEF n
  <2>3. \A h \in Files \ {file} : FileData(n, h) = FileData(d, h)
    BY <1>1, <2>2 DEF FileData
  <2>4. FileData(n, file) = fd
    BY <1>1, <2>2 DEF FileData
  <2> QED
    BY <2>1, <2>2, <2>3, <2>4 DEF Others
<1>2. CASE file # ROOT_DIRECTORY_HANDLE
  <2> DEFINE n == [d EXCEPT !.OpenedFiles[file] = fd]
  <2>1. SetFileData(d, file, fd) = n /\ file \in Handles
    BY <1>2 DEF SetFileData, Files
  <2>2. /\ n \in Datas /\ n.RootDirectory = d.RootDirectory /\ SameCache(d, n)
        /\ n.OpenedFiles = [d.OpenedFiles EXCEPT ![file] = fd]
        /\ d.OpenedFiles \in [Handles -> FileDatas]
    BY <2>1 DEF Datas, SameCache
  <2> HIDE DEF n
  <2>3. \A h \in Files \ {file} : FileData(n, h) = FileData(d, h)
    BY <2>1, <2>2, FilesDiffer DEF FileData, Files
  <2>4. FileData(n, file) = fd
    BY <1>2, <2>1, <2>2 DEF FileData
  <2> QED
    BY <2>1, <2>2, <2>3, <2>4 DEF Others
<1> QED
  BY <1>1, <1>2

\* Changes of the same file's data, one after the other.
LEMMA OthersTwice ==
    ASSUME NEW d, NEW m, NEW n, NEW file, Others(d, m, file), Others(m, n, file)
    PROVE  Others(d, n, file)
BY DEF Others

\* Reading the FAT changes its cache only.
LEMMA ReadFatIs ==
    ASSUME NEW d \in Datas, NEW sector \in 0 .. Word - 1, NEW r \in ReadFat(d, sector)
    PROVE  /\ r.data \in Datas /\ r.failed \in {0, 1}
           /\ \A h \in Files : FileData(r.data, h) = FileData(d, h)
<1>1. CASE Cached(d, sector)
  <2>1. r = [data |-> d, failed |-> 0]
    BY <1>1 DEF ReadFat
  <2> QED
    BY <2>1
<1>2. CASE ~Cached(d, sector)
  <2> DEFINE n(s) == [d EXCEPT !.FatCachePosition = sector,
                               !.FatCacheHolds = s.buffer - ReservedSectors]
  <2>1. PICK s \in readDiskSector(ReservedSectors + sector, ReservedSectors + d.FatCacheHolds) :
           r = [data |-> n(s), failed |-> s.failed]
    BY <1>2 DEF ReadFat
  <2>2. /\ ReservedSectors \in Nat /\ Word \in Nat /\ d.FatCacheHolds \in Int
        /\ ReservedSectors + sector \in Nat
    BY VolumeAssumption, Numbers DEF Datas
  <2>3. s.failed \in {0, 1} /\ s.buffer \in Int
    <3>1. s.failed \in {0, 1} /\ (s.buffer = ReservedSectors + d.FatCacheHolds \/ s.buffer = ReservedSectors + sector)
      BY <2>2, ReadSector
    <3> QED
      BY <2>2, <3>1
  <2>4. n(s) \in Datas /\ n(s).RootDirectory = d.RootDirectory /\ n(s).OpenedFiles = d.OpenedFiles
    <3>1. \A held \in Int : LET m == [d EXCEPT !.FatCachePosition = sector, !.FatCacheHolds = held] IN
             m \in Datas /\ m.RootDirectory = d.RootDirectory /\ m.OpenedFiles = d.OpenedFiles
      BY DEF Datas
    <3>2. s.buffer - ReservedSectors \in Int
      BY <2>2, <2>3
    <3> QED
      BY <3>1, <3>2
  <2> HIDE DEF n
  <2>5. \A h \in Files : FileData(n(s), h) = FileData(d, h)
    BY <2>4 DEF FileData
  <2> QED
    BY <2>1, <2>3, <2>4, <2>5
<1> QED
  BY <1>1, <1>2

\* So does a step along a chain, which ends at a number of 32 bits.
LEMMA NextClusterIs ==
    ASSUME NEW d \in Datas, NEW cluster \in 0 .. Word - 1, NEW r \in NextCluster(d, cluster)
    PROVE  /\ r.data \in Datas /\ r.failed \in {0, 1} /\ r.cluster \in 0 .. Word - 1
           /\ \A h \in Files : FileData(r.data, h) = FileData(d, h)
<1> DEFINE sector == cluster \div EntriesPerSector
           at(x)  == cluster + (x.FatCacheHolds - x.FatCachePosition) * EntriesPerSector
           value(x) == IF at(x) \in DOMAIN Fat THEN Fat[at(x)] ELSE 0
<1>1. PICK s \in ReadFat(d, sector) :
         r = [data |-> s.data, cluster |-> Widen(value(s.data)), failed |-> s.failed]
  BY DEF NextCluster
<1>2. sector \in 0 .. Word - 1
  BY Numbers, VolumeAssumption
<1> HIDE DEF at
<1>3. value(s.data) \in 0 .. Word - 1
  BY FatAssumption, Numbers
<1> HIDE DEF value, sector
<1>4. Widen(value(s.data)) \in 0 .. Word - 1
  BY <1>3, Numbers DEF Widen
<1>5. s.data \in Datas /\ s.failed \in {0, 1} /\ \A h \in Files : FileData(s.data, h) = FileData(d, h)
  BY <1>2, ReadFatIs
<1> QED
  BY <1>1, <1>4, <1>5

\* A file's data after a read of its next sector: only the buffer and, at the
\* end of the chain, the size are new.
Loaded(fd, new, more) ==
    /\ new.Opened = fd.Opened /\ new.IsDirectory = fd.IsDirectory
    /\ new.Position = fd.Position /\ new.FirstCluster = fd.FirstCluster
    /\ new.Size = fd.Size \/ (new.Size = fd.Position /\ ~more)

\* Loading a sector changes the file's data so, and no others.
LEMMA LoadIs ==
    ASSUME NEW d \in Datas, NEW file \in Files, NEW fd \in FileDatas, NEW r \in Load(d, file, fd)
    PROVE  /\ Others(d, r.data, file) /\ r.failed \in {0, 1} /\ r.more \in BOOLEAN
           /\ Loaded(fd, FileData(r.data, file), r.more) /\ SameCache(d, r.data)
           /\ \A n : LET m == [r EXCEPT !.failed = n] IN
                   m.data = r.data /\ m.more = r.more /\ m.failed = n
<1>1. CASE fd.CurrentCluster >= Word - 8
  <2> DEFINE new == [fd EXCEPT !.Size = fd.Position]
  <2>1. r = [data |-> SetFileData(d, file, new), more |-> FALSE, failed |-> 0]
    BY <1>1 DEF Load
  <2>2. new \in FileDatas /\ Loaded(fd, new, FALSE)
    BY DEF FileDatas, Loaded
  <2> HIDE DEF new
  <2>3. /\ Others(d, r.data, file) /\ FileData(r.data, file) = new /\ SameCache(d, r.data)
        /\ r.failed = 0 /\ r.more = FALSE
    BY <2>1, <2>2, SetFileDataIs
  <2>4. \A n : LET m == [r EXCEPT !.failed = n] IN
               m.data = r.data /\ m.more = r.more /\ m.failed = n
    BY <2>1
  <2> QED
    BY <2>2, <2>3, <2>4
<1>2. CASE ~(fd.CurrentCluster >= Word - 8)
  <2> DEFINE lba == (ClusterToLba(fd.CurrentCluster) + fd.CurrentSectorInCluster) % Word
             new(s) == [fd EXCEPT !.Buffer = s.buffer]
  <2>1. PICK s \in readDiskSector(lba, fd.Buffer) :
           r = [data |-> SetFileData(d, file, new(s)), more |-> s.ok, failed |-> s.failed]
    BY <1>2 DEF Load
  <2>2. lba \in Nat /\ fd.Buffer \in NoSector .. DiskSectors - 1
    <3>1. fd.CurrentCluster \in 0 .. Word - 1 /\ fd.CurrentSectorInCluster \in Nat
      BY Numbers DEF FileDatas
    <3>2. ClusterToLba(fd.CurrentCluster) \in Nat
      BY <3>1, LbaType, Numbers
    <3> QED
      BY <3>1, <3>2, Numbers DEF FileDatas
  <2> HIDE DEF lba
  <2>3. s.buffer \in NoSector .. DiskSectors - 1 /\ s.ok \in BOOLEAN /\ s.failed \in {0, 1}
    BY <2>2, ReadBuffer
  <2>4. new(s) \in FileDatas /\ Loaded(fd, new(s), s.ok)
    BY <2>3 DEF FileDatas, Loaded
  <2> HIDE DEF new
  <2> QED
    BY <2>1, <2>3, <2>4, SetFileDataIs
<1> QED
  BY <1>1, <1>2

\* Loading the next sector of a file, in the next cluster when it is the last
\* one of its cluster.
LEMMA RefillFileIs ==
    ASSUME NEW d \in Datas, NEW file \in Files, NEW r \in RefillFile(d, file)
    PROVE  /\ Others(d, r.data, file) /\ r.failed \in 0 .. 2 /\ r.more \in BOOLEAN
           /\ Loaded(FileData(d, file), FileData(r.data, file), r.more)
<1> DEFINE fd == FileData(d, file)
<1>1. fd \in FileDatas /\ fd.CurrentCluster \in 0 .. Word - 1
      /\ fd.CurrentSectorInCluster \in 0 .. SectorsPerCluster - 1
  BY FileDataIs DEF FileDatas
<1>2. CASE LastSector(fd)
  <2> DEFINE new(s) == [fd EXCEPT !.CurrentSectorInCluster = 0, !.CurrentCluster = s.cluster]
  <2>1. PICK s \in NextCluster(d, fd.CurrentCluster) : \E u \in Load(s.data, file, new(s)) :
           r = [u EXCEPT !.failed = @ + s.failed]
    BY <1>2 DEF RefillFile
  <2>2. PICK u \in Load(s.data, file, new(s)) : r = [u EXCEPT !.failed = @ + s.failed]
    BY <2>1
  <2>3. /\ s.data \in Datas /\ s.failed \in {0, 1} /\ s.cluster \in 0 .. Word - 1
        /\ \A h \in Files : FileData(s.data, h) = FileData(d, h)
    BY <1>1, NextClusterIs
  <2>4. new(s) \in FileDatas /\ \A to, more : Loaded(new(s), to, more) => Loaded(fd, to, more)
    <3> HIDE DEF fd
    <3>1. 0 \in 0 .. SectorsPerCluster - 1
      BY Numbers
    <3>2. \A c \in 0 .. Word - 1 :
             LET to == [fd EXCEPT !.CurrentSectorInCluster = 0, !.CurrentCluster = c] IN
             /\ to \in FileDatas /\ to.Opened = fd.Opened /\ to.IsDirectory = fd.IsDirectory
             /\ to.Position = fd.Position /\ to.FirstCluster = fd.FirstCluster /\ to.Size = fd.Size
      BY <1>1, <3>1 DEF FileDatas
    <3> QED
      BY <2>3, <3>2 DEF Loaded
  <2> HIDE DEF new
  <2>5. /\ Others(s.data, u.data, file) /\ u.failed \in {0, 1} /\ u.more \in BOOLEAN
        /\ Loaded(new(s), FileData(u.data, file), u.more)
    BY <2>3, <2>4, LoadIs
  <2>6. r.data = u.data /\ r.more = u.more /\ r.failed = u.failed + s.failed
    <3>1. r.data = u.data /\ r.more = u.more /\ r.failed = u.failed + s.failed
      BY <2>2, <2>3, <2>4, LoadIs
    <3> QED
      BY <3>1
  <2>7. Others(d, u.data, file)
    BY <2>3, <2>5 DEF Others
  <2> QED
    BY <2>3, <2>4, <2>5, <2>6, <2>7
<1>3. CASE ~LastSector(fd)
  <2> DEFINE new == [fd EXCEPT !.CurrentSectorInCluster = @ + 1]
  <2>1. r \in Load(d, file, new)
    BY <1>3 DEF RefillFile
  <2>2. fd.CurrentSectorInCluster + 1 \in 0 .. SectorsPerCluster - 1
    BY <1>1, <1>3, Numbers DEF LastSector
  <2>3. new \in FileDatas /\ \A to, more : Loaded(new, to, more) => Loaded(fd, to, more)
    BY <1>1, <2>2 DEF FileDatas, Loaded
  <2> HIDE DEF new
  <2>4. /\ Others(d, r.data, file) /\ r.failed \in {0, 1} /\ r.more \in BOOLEAN
        /\ Loaded(new, FileData(r.data, file), r.more)
    BY <2>1, <2>3, LoadIs
  <2> QED
    BY <2>3, <2>4
<1> QED
  BY <1>2, <1>3

\* The root directory's next sector is the one that follows on the disk.
LEMMA RefillRootIs ==
    ASSUME NEW d \in Datas, NEW r \in RefillRoot(d)
    PROVE  /\ Others(d, r.data, ROOT_DIRECTORY_HANDLE) /\ r.failed \in 0 .. 2 /\ r.more \in BOOLEAN
           /\ Loaded(FileData(d, ROOT_DIRECTORY_HANDLE), FileData(r.data, ROOT_DIRECTORY_HANDLE), r.more)
           /\ SameCache(d, r.data)
<1> DEFINE fd  == d.RootDirectory
           lba == (fd.CurrentCluster + 1) % Word
           new(s) == [d EXCEPT !.RootDirectory.CurrentCluster = lba,
                               !.RootDirectory.Buffer = s.buffer]
<1>1. PICK s \in readDiskSector(lba, fd.Buffer) :
         r = [data |-> new(s), more |-> s.ok, failed |-> s.failed]
  BY DEF RefillRoot
<1>2. fd \in FileDatas
  BY DEF Datas
<1>3. lba \in 0 .. Word - 1 /\ fd.Buffer \in NoSector .. DiskSectors - 1
  BY <1>2, Numbers DEF FileDatas
<1> DEFINE to(x) == [fd EXCEPT !.CurrentCluster = lba, !.Buffer = x.buffer]
<1>4. new(s) = [d EXCEPT !.RootDirectory = to(s)]
  BY <1>2 DEF Datas, FileDatas
<1> HIDE DEF lba, fd, new
<1>5. s.buffer \in NoSector .. DiskSectors - 1 /\ s.ok \in BOOLEAN /\ s.failed \in {0, 1}
  BY <1>3, Numbers, ReadBuffer
<1>6. to(s) \in FileDatas /\ Loaded(fd, to(s), s.ok)
  BY <1>2, <1>3, <1>5 DEF FileDatas, Loaded
<1> HIDE DEF to
<1>7. new(s) = SetFileData(d, ROOT_DIRECTORY_HANDLE, to(s)) /\ ROOT_DIRECTORY_HANDLE \in Files
  BY <1>4 DEF SetFileData, Files
<1>8. FileData(d, ROOT_DIRECTORY_HANDLE) = fd
  BY DEF FileData, fd
<1> QED
  BY <1>1, <1>5, <1>6, <1>7, <1>8, SetFileDataIs

\* A file's data after a turn of FAT_Read that copied something.
Turned(fd, new, take, more) ==
    /\ new.Opened = fd.Opened /\ new.IsDirectory = fd.IsDirectory
    /\ new.FirstCluster = fd.FirstCluster
    /\ new.Position = (fd.Position + take) % Word
    /\ new.Size = fd.Size \/ (new.Size = new.Position /\ ~more)

\* How much a turn copies: something, and no more than asked for.
LEMMA TakeIs ==
    ASSUME NEW fd \in FileDatas, NEW count \in Nat \ {0}
    PROVE  /\ Take(fd, count) \in 1 .. count
           /\ fd.Position % SectorSize \in 0 .. SectorSize - 1
           /\ (fd.Position % SectorSize) + Take(fd, count) <= SectorSize
<1>1. fd.Position \in Nat /\ fd.Position % SectorSize \in 0 .. SectorSize - 1 /\ SectorSize \in Nat
  BY Numbers DEF FileDatas
<1> QED
  BY <1>1 DEF Take, Lesser

\* A turn of FAT_Read moves the file's position and touches no other file.
LEMMA ReadTurnIs ==
    ASSUME NEW d \in Datas, NEW file \in Files, NEW count \in Nat \ {0},
           NEW r \in ReadTurn(d, file, count)
    PROVE  /\ Others(d, r.data, file) /\ r.failed \in 0 .. 2 /\ r.more \in BOOLEAN
           /\ Turned(FileData(d, file), FileData(r.data, file), Take(FileData(d, file), count), r.more)
           /\ file = ROOT_DIRECTORY_HANDLE => SameCache(d, r.data)
<1> DEFINE fd    == FileData(d, file)
           take  == Take(fd, count)
           to    == [fd EXCEPT !.Position = (@ + take) % Word]
           moved == SetFileData(d, file, to)
<1>1. fd \in FileDatas /\ take \in 1 .. count
  BY FileDataIs, TakeIs
<1> HIDE DEF take
<1>2. to \in FileDatas /\ Turned(fd, to, take, TRUE) /\ \A new, more : Loaded(to, new, more) => Turned(fd, new, take, more)
  <2>1. fd.Position \in 0 .. Word - 1
    BY <1>1 DEF FileDatas
  <2>2. (fd.Position + take) % Word \in 0 .. Word - 1
    BY <1>1, <2>1, Numbers
  <2>3. to.Position = (fd.Position + take) % Word /\ to \in FileDatas
    BY <1>1, <2>2 DEF FileDatas
  <2>4. /\ to.Opened = fd.Opened /\ to.IsDirectory = fd.IsDirectory
        /\ to.FirstCluster = fd.FirstCluster /\ to.Size = fd.Size
    BY <1>1 DEF FileDatas
  <2> HIDE DEF to, fd
  <2> QED
    BY <2>3, <2>4 DEF Loaded, Turned
<1> HIDE DEF to, fd
<1>3. /\ Others(d, moved, file) /\ FileData(moved, file) = to /\ SameCache(d, moved)
      /\ moved \in Datas
  BY <1>2, SetFileDataIs DEF Others
<1> HIDE DEF moved
<1>4. \/ r = [data |-> moved, more |-> TRUE, failed |-> 0]
      \/ file = ROOT_DIRECTORY_HANDLE /\ r \in RefillRoot(moved)
      \/ file # ROOT_DIRECTORY_HANDLE /\ r \in RefillFile(moved, file)
  <2>1. ReadTurn(d, file, count) =
          IF (fd.Position % SectorSize) + take < SectorSize
          THEN {[data |-> moved, more |-> TRUE, failed |-> 0]}
          ELSE IF file = ROOT_DIRECTORY_HANDLE THEN RefillRoot(moved)
          ELSE RefillFile(moved, file)
    BY DEF ReadTurn, fd, take, to, moved
  <2> QED
    BY <2>1
<1>5. CASE r = [data |-> moved, more |-> TRUE, failed |-> 0]
  <2>1. r.data = moved /\ r.more = TRUE /\ r.failed = 0
    BY <1>5
  <2>2. Turned(fd, FileData(r.data, file), take, r.more)
    BY <1>2, <1>3, <2>1
  <2> HIDE DEF moved
  <2>3. Others(d, r.data, file) /\ SameCache(d, r.data) /\ r.failed \in 0 .. 2
    BY <1>3, <2>1
  <2>4. r.more \in BOOLEAN
    BY <2>1, Zenon
  <2> QED
    BY <2>2, <2>3, <2>4 DEF fd, take
<1>6. CASE file = ROOT_DIRECTORY_HANDLE /\ r \in RefillRoot(moved)
  <2>1. /\ Others(moved, r.data, file) /\ r.failed \in 0 .. 2 /\ r.more \in BOOLEAN
        /\ Loaded(FileData(moved, file), FileData(r.data, file), r.more) /\ SameCache(moved, r.data)
    BY <1>3, <1>6, RefillRootIs
  <2>2. SameCache(d, r.data)
    BY <1>3, <2>1 DEF SameCache
  <2> QED
    BY <1>2, <1>3, <2>1, <2>2, OthersTwice DEF fd, take
<1>7. CASE file # ROOT_DIRECTORY_HANDLE /\ r \in RefillFile(moved, file)
  <2>1. /\ Others(moved, r.data, file) /\ r.failed \in 0 .. 2 /\ r.more \in BOOLEAN
        /\ Loaded(FileData(moved, file), FileData(r.data, file), r.more)
    BY <1>3, <1>7, RefillFileIs
  <2> QED
    BY <1>2, <1>3, <1>7, <2>1, OthersTwice DEF fd, take
<1> QED
  BY <1>4, <1>5, <1>6, <1>7

\* Closing a file gives its handle back and changes nothing of the others.
LEMMA CloseIs ==
    ASSUME NEW d \in Datas, NEW file \in Files \cup {NULL}
    PROVE  /\ Close(d, file) \in Datas /\ SameCache(d, Close(d, file))
           /\ \A S : Taken(d, S) => Taken(Close(d, file), S \ {file})
<1> DEFINE n == Close(d, file)
<1>1. CASE file = NULL
  <2>1. n = d
    BY <1>1, FilesDiffer DEF Close
  <2> QED
    BY <1>1, <2>1, FilesDiffer DEF SameCache, Taken, Files
<1>2. CASE file = ROOT_DIRECTORY_HANDLE
  <2> DEFINE fd == d.RootDirectory
             new == [fd EXCEPT !.Position = 0, !.CurrentCluster = d.RootDirectory.FirstCluster]
  <2>1. n = [d EXCEPT !.RootDirectory.Position = 0,
                      !.RootDirectory.CurrentCluster = d.RootDirectory.FirstCluster]
    BY <1>2, FilesDiffer DEF Close
  <2>2. fd \in FileDatas /\ n = [d EXCEPT !.RootDirectory = new]
    BY <2>1 DEF Datas, FileDatas
  <2>3. new \in FileDatas /\ new.IsDirectory = fd.IsDirectory
    <3>1. 0 \in 0 .. Word - 1 /\ d.RootDirectory.FirstCluster \in 0 .. Word - 1
      BY <2>2, Numbers DEF FileDatas
    <3> HIDE DEF fd
    <3> QED
      BY <2>2, <3>1 DEF FileDatas
  <2> HIDE DEF new, fd
  <2>4. n = SetFileData(d, file, new) /\ file \in Files
    BY <1>2, <2>2 DEF SetFileData, Files
  <2> HIDE DEF n
  <2>5. Others(d, n, file) /\ FileData(n, file) = new /\ SameCache(d, n)
    BY <2>3, <2>4, SetFileDataIs
  <2>6. n \in Datas /\ \A h \in Handles : FileData(n, h) = FileData(d, h)
    BY <1>2, <2>5, FilesDiffer DEF Others, Files
  <2>7. n.RootDirectory = new /\ d.RootDirectory = fd
    BY <1>2, <2>5 DEF FileData, fd
  <2>8. ASSUME NEW S, Taken(d, S)
        PROVE  Taken(n, S \ {file})
    BY <1>2, <2>3, <2>6, <2>7, <2>8, FilesDiffer DEF Taken
  <2> QED
    BY <2>5, <2>6, <2>8 DEF n
<1>3. CASE file \in Handles
  <2> DEFINE fd == d.OpenedFiles[file]
             new == [fd EXCEPT !.Opened = FALSE]
  <2>1. n = [d EXCEPT !.OpenedFiles[file].Opened = FALSE]
    BY <1>3, FilesDiffer DEF Close, Files
  <2>2. fd \in FileDatas /\ n = [d EXCEPT !.OpenedFiles[file] = new]
    BY <1>3, <2>1 DEF Datas, FileDatas
  <2>3. new \in FileDatas /\ new.Opened = FALSE
    BY <2>2 DEF FileDatas
  <2> HIDE DEF new, fd
  <2>4. n = SetFileData(d, file, new) /\ file \in Files /\ file # ROOT_DIRECTORY_HANDLE
    BY <1>3, <2>2, FilesDiffer DEF SetFileData, Files
  <2> HIDE DEF n
  <2>5. Others(d, n, file) /\ FileData(n, file) = new /\ SameCache(d, n)
    BY <2>3, <2>4, SetFileDataIs
  <2>6. n \in Datas /\ \A h \in Handles \ {file} : FileData(n, h) = FileData(d, h)
    BY <2>5 DEF Others, Files
  <2>7. n.RootDirectory = d.RootDirectory
    BY <2>4, <2>5 DEF Others, Files, FileData
  <2>8. ASSUME NEW S, Taken(d, S)
        PROVE  Taken(n, S \ {file})
    BY <2>3, <2>5, <2>6, <2>7, <2>8 DEF Taken
  <2> QED
    BY <2>5, <2>6, <2>8 DEF n
<1> QED
  BY <1>1, <1>2, <1>3 DEF Files

\* What an entry's file is when it has just been opened.
Entered(fd, e) ==
    /\ fd.IsDirectory = e.directory /\ fd.Position = 0 /\ fd.Size = e.size
    /\ fd.FirstCluster = e.cluster /\ fd.CurrentCluster = e.cluster
    /\ fd.CurrentSectorInCluster = 0 /\ fd.Buffer = ClusterToLba(e.cluster)

\* What there is when nothing was found.
LEMMA BlankIs == Blank.name = "" /\ Blank.directory = FALSE /\ Blank.size = 0
BY DEF Blank

\* The types of an entry of the volume.
LEMMA EntryIs ==
    ASSUME NEW e, IsEntry(e)
    PROVE  /\ e.directory \in BOOLEAN /\ e.cluster \in 0 .. Word - 1 /\ e.size \in 0 .. Word - 1
           /\ e # Blank
           /\ IF e.directory \/ e.size > 0 THEN Chained(e) ELSE e.cluster = 0
<1>1. PICK lba \in DOMAIN Slots : \E n \in DOMAIN Slots[lba] : e = Slots[lba][n]
  BY DEF IsEntry
<1>2. PICK n \in DOMAIN Slots[lba] : e = Slots[lba][n]
  BY <1>1
<1>3. /\ e.directory \in BOOLEAN /\ e.cluster \in 0 .. Word - 1 /\ e.size \in 0 .. Word - 1
      /\ IF e.directory \/ e.size > 0 THEN Chained(e) ELSE e.cluster = 0
  BY <1>2, EntriesAssumption DEF IsEntry
<1>4. e # Blank
  <2>1. Blank.name = ""
    BY DEF Blank
  <2>2. e.name # ""
    BY UserAssumption DEF IsEntry
  <2> QED
    BY <2>1, <2>2
<1> QED
  BY <1>3, <1>4

\* Opening an entry takes a handle that nobody has, or none.
LEMMA OpenEntryIs ==
    ASSUME NEW d \in Datas, NEW e, IsEntry(e), NEW r \in OpenEntry(d, e)
    PROVE  /\ r.file \in Handles \cup {NULL} /\ r.failed \in {0, 1}
           /\ r.data \in Datas /\ SameCache(d, r.data)
           /\ \A S : Taken(d, S) => Taken(r.data, S \cup ({r.file} \cap Handles))
           /\ r.file \in Handles => Entered(FileData(r.data, r.file), e)
<1> DEFINE closed == {h \in Handles : ~d.OpenedFiles[h].Opened}
           handle == CHOOSE h \in closed : \A other \in closed : h <= other
           fd(s)  == [Opened |-> s.ok, IsDirectory |-> e.directory, Position |-> 0,
                      Size |-> e.size, FirstCluster |-> e.cluster,
                      CurrentCluster |-> e.cluster, CurrentSectorInCluster |-> 0,
                      Buffer |-> s.buffer]
<1>1. CASE closed = {}
  <2>1. r = [data |-> d, file |-> NULL, failed |-> 0]
    BY <1>1 DEF OpenEntry
  <2> QED
    BY <2>1, FilesDiffer DEF SameCache, Files, Taken
<1>2. CASE closed # {}
  <2>1. handle \in closed
    <3>1. \E h \in closed : \A other \in closed : h <= other
      BY <1>2, FilesDiffer, Smallest
    <3> HIDE DEF closed
    <3> QED
      BY <3>1
  <2>2. PICK s \in readDiskSector(ClusterToLba(e.cluster), d.OpenedFiles[handle].Buffer) :
          r = [data |-> SetFileData(d, handle, fd(s)),
               file |-> IF s.ok THEN handle ELSE NULL, failed |-> s.failed]
    BY <1>2 DEF OpenEntry
  <2>3. handle \in Handles /\ ~FileData(d, handle).Opened /\ handle \in Files
        /\ d.OpenedFiles[handle].Buffer \in NoSector .. DiskSectors - 1
    BY <2>1, FileDataIs DEF Files, Datas, FileDatas
  <2> HIDE DEF handle, closed
  <2>4. ClusterToLba(e.cluster) \in Nat
    BY EntryIs, LbaType, Numbers
  <2>5. /\ s.buffer \in NoSector .. DiskSectors - 1 /\ s.ok \in BOOLEAN /\ s.failed \in {0, 1}
        /\ s.ok => s.buffer = ClusterToLba(e.cluster)
    BY <2>3, <2>4, ReadBuffer, ReadSector
  <2>6. fd(s) \in FileDatas /\ fd(s).Opened = s.ok /\ (s.ok => Entered(fd(s), e))
    <3>1. 0 \in 0 .. SectorsPerCluster - 1 /\ 0 \in 0 .. Word - 1
      BY Numbers
    <3>2. e.directory \in BOOLEAN /\ e.cluster \in 0 .. Word - 1 /\ e.size \in 0 .. Word - 1
      BY EntryIs
    <3> QED
      BY <2>5, <3>1, <3>2 DEF FileDatas, Entered
  <2> HIDE DEF fd
  <2>7. /\ Others(d, r.data, handle) /\ FileData(r.data, handle) = fd(s) /\ SameCache(d, r.data)
        /\ r.failed = s.failed /\ r.file = IF s.ok THEN handle ELSE NULL
    BY <2>2, <2>3, <2>6, SetFileDataIs
  <2>8. r.data \in Datas /\ r.data.RootDirectory = d.RootDirectory
    BY <2>3, <2>7, FilesDiffer DEF Others, Files, FileData
  <2>9. ASSUME NEW S, Taken(d, S)
        PROVE  Taken(r.data, S \cup ({r.file} \cap Handles))
    <3>1. \A h \in Handles \ {handle} : FileData(r.data, h) = FileData(d, h)
      BY <2>7 DEF Others, Files
    <3>2. handle \notin S
      BY <2>3, <2>9 DEF Taken
    <3> QED
      BY <2>3, <2>6, <2>7, <2>8, <2>9, <3>1, <3>2, FilesDiffer DEF Taken, Files
  <2> QED
    BY <2>3, <2>5, <2>6, <2>7, <2>8, <2>9, FilesDiffer DEF Files
<1> QED
  BY <1>1, <1>2

\* The root directory's data when it has just been set up.
LEMMA FreshRootIs ==
    ASSUME NEW buffer \in NoSector .. DiskSectors - 1
    PROVE  FreshRoot(buffer) \in FileDatas /\ FreshRoot(buffer).IsDirectory
<1>1. 0 \in 0 .. SectorsPerCluster - 1 /\ 0 \in 0 .. Word - 1
  BY Numbers
<1> QED
  BY <1>1, Numbers DEF FreshRoot, FileDatas

\* Initialising again closes all files or none, and forgets the cached sectors
\* unless its first read fails.
LEMMA InitializeIs ==
    ASSUME NEW d \in Datas, NEW r \in Initialize(d)
    PROVE  /\ r.data \in Datas /\ r.failed \in {0, 1}
           /\ \A S : Taken(d, S) => Taken(r.data, S) \/ Taken(r.data, {})
           /\ r.failed = 0 => r.data.FatCachePosition = Word - 1
           /\ \A data : LET m == [r EXCEPT !.data = data] IN m.data = data /\ m.failed = r.failed
<1> DEFINE none == [d EXCEPT !.FatCachePosition = Word - 1]
           closed == [h \in Handles |-> [d.OpenedFiles[h] EXCEPT !.Opened = FALSE]]
           files(s) == IF s.ok THEN closed ELSE d.OpenedFiles
           done(s) == [none EXCEPT !.RootDirectory = FreshRoot(s.buffer), !.OpenedFiles = files(s)]
<1>1. \/ r = [data |-> d, failed |-> 1]
      \/ \E s \in readDiskSector(RootDirLba, d.RootDirectory.Buffer) :
            r = [data |-> done(s), failed |-> s.failed]
  <2>1. none.OpenedFiles = d.OpenedFiles
    BY DEF Datas
  <2>2. Initialize(d) = {[data |-> d, failed |-> 1]}
          \cup {[data |-> done(s), failed |-> s.failed] :
                   s \in readDiskSector(RootDirLba, d.RootDirectory.Buffer)}
    BY <2>1 DEF Initialize
  <2> QED
    BY <2>2
<1>2. CASE r = [data |-> d, failed |-> 1]
  BY <1>2
<1>3. CASE \E s \in readDiskSector(RootDirLba, d.RootDirectory.Buffer) :
             r = [data |-> done(s), failed |-> s.failed]
  <2>1. PICK s \in readDiskSector(RootDirLba, d.RootDirectory.Buffer) :
          r = [data |-> done(s), failed |-> s.failed]
    BY <1>3
  <2>2. /\ d.RootDirectory.Buffer \in NoSector .. DiskSectors - 1
        /\ d.OpenedFiles \in [Handles -> FileDatas]
    BY DEF Datas, FileDatas
  <2>3. s.buffer \in NoSector .. DiskSectors - 1 /\ s.ok \in BOOLEAN /\ s.failed \in {0, 1}
    BY <2>2, ReadBuffer, Numbers
  <2>4. closed \in [Handles -> FileDatas] /\ \A h \in Handles : closed[h].Opened = FALSE
    BY <2>2 DEF FileDatas
  <2> HIDE DEF closed
  <2>5. files(s) \in [Handles -> FileDatas]
    BY <2>2, <2>4
  <2> HIDE DEF files
  <2>6. /\ done(s) \in Datas /\ done(s).RootDirectory = FreshRoot(s.buffer)
        /\ done(s).OpenedFiles = files(s) /\ done(s).FatCachePosition = Word - 1
    <3>1. Word - 1 \in 0 .. Word - 1
      BY Numbers
    <3>2. FreshRoot(s.buffer) \in FileDatas
      BY <2>3, FreshRootIs
    <3> HIDE DEF FreshRoot
    <3> QED
      BY <2>5, <3>1, <3>2 DEF Datas
  <2> HIDE DEF done, none
  <2>7. r.data = done(s) /\ r.failed = s.failed
        /\ \A data : LET m == [r EXCEPT !.data = data] IN m.data = data /\ m.failed = r.failed
    BY <2>1
  <2>8. ASSUME NEW S, Taken(d, S)
        PROVE  Taken(done(s), S) \/ Taken(done(s), {})
    <3>1. done(s).RootDirectory.IsDirectory
      BY <2>3, <2>6, FreshRootIs
    <3>2. CASE s.ok
      BY <2>4, <2>6, <3>1, <3>2, FilesDiffer DEF Taken, FileData, files
    <3>3. CASE ~s.ok
      BY <2>6, <2>8, <3>1, <3>3, FilesDiffer DEF Taken, FileData, files
    <3> QED
      BY <3>2, <3>3
  <2> QED
    BY <2>3, <2>6, <2>7, <2>8
<1> QED
  BY <1>1, <1>2, <1>3

\* How much FAT_Read will copy: no more than what is asked for, nor than what
\* there is between the position and the size, and nothing only when that is.
LEMMA LimitedIs ==
    ASSUME NEW fd \in FileDatas, NEW count \in Nat \ {0}
    PROVE  /\ Limited(fd, count) \in 0 .. count
           /\ (~fd.IsDirectory \/ fd.Size # 0) /\ fd.Position <= fd.Size =>
                 /\ fd.Position + Limited(fd, count) <= fd.Size
                 /\ Limited(fd, count) = 0 => fd.Position = fd.Size
<1>1. fd.Position \in 0 .. Word - 1 /\ fd.Size \in 0 .. Word - 1 /\ Word \in Nat /\ Word > 0
  BY Numbers DEF FileDatas
<1> DEFINE rest == (fd.Size - fd.Position) % Word
<1>2. rest \in Nat /\ (fd.Position <= fd.Size => rest = fd.Size - fd.Position)
  BY <1>1
<1>3. Limited(fd, count) = IF ~fd.IsDirectory \/ fd.Size # 0 THEN Lesser(count, rest) ELSE count
  BY DEF Limited
<1> HIDE DEF rest
<1> QED
  BY <1>1, <1>2, <1>3 DEF Lesser

\* A name that the user gives is found in an entry of the volume only.
LEMMA EntryAtIs ==
    ASSUME NEW buffer, NEW position \in Nat, EntryAt(buffer, position).name \in UserNames
    PROVE  IsEntry(EntryAt(buffer, position))
<1>1. buffer \in DOMAIN Slots
  BY UserAssumption DEF EntryAt, Junk, Blank
<1> DEFINE place == (position % SectorSize) \div EntrySize
<1>2. place \in 0 .. (SectorSize \div EntrySize) - 1
  <2>1. \A s \in Nat \ {0}, e \in Nat \ {0}, n \in Nat :
           n < s /\ s % e = 0 => n \div e \in 0 .. (s \div e) - 1
    OBVIOUS
  <2>2. position % SectorSize \in Nat /\ position % SectorSize < SectorSize
    BY Numbers
  <2> QED
    BY <2>1, <2>2, SizeAssumption
<1>3. EntryAt(buffer, position) = Slots[buffer][place]
  BY <1>1 DEF EntryAt
<1>4. place \in DOMAIN Slots[buffer]
  BY <1>1, <1>2, EntriesAssumption
<1> HIDE DEF place
<1> QED
  BY <1>1, <1>3, <1>4 DEF IsEntry

-----------------------------------------------------------------------------
(* The safe part of the invariant holds at every step.                       *)

\* The handles that are taken do not depend on values that are no handles.
LEMMA TakenSame ==
    ASSUME NEW d, NEW S, NEW T, Taken(d, S), S \cap Handles = T \cap Handles
    PROVE  Taken(d, T)
BY DEF Taken

\* A turn of FAT_Read leaves the handles as they are and every file its entry.
LEMMA TurnKeeps ==
    ASSUME NEW d, NEW S, Taken(d, S), NEW file \in Files, NEW count \in Nat \ {0},
           NEW r \in ReadTurn(d, file, count)
    PROVE  /\ Taken(r.data, S) /\ r.failed \in Nat
           /\ FileData(r.data, file).IsDirectory = FileData(d, file).IsDirectory
           /\ FileData(r.data, file).FirstCluster = FileData(d, file).FirstCluster
<1>1. d \in Datas
  BY DEF Taken
<1>2. /\ Others(d, r.data, file) /\ r.failed \in 0 .. 2
      /\ Turned(FileData(d, file), FileData(r.data, file), Take(FileData(d, file), count), r.more)
  BY <1>1, ReadTurnIs
<1>3. \A h \in Files : /\ FileData(r.data, h).Opened = FileData(d, h).Opened
                       /\ FileData(r.data, h).IsDirectory = FileData(d, h).IsDirectory
  BY <1>2 DEF Others, Turned
<1>4. r.data.RootDirectory.IsDirectory
  BY <1>3 DEF Taken, FileData, Files
<1> QED
  BY <1>2, <1>3, <1>4 DEF Others, Turned, Taken, Files

\* At the beginning the root directory has been read and no file is open.
LEMMA SafeInit ==
    ASSUME Init
    PROVE  Safe
<1>1. /\ Word \in Nat /\ Word >= 8 /\ 0 \in 0 .. Word - 1 /\ Word - 1 \in 0 .. Word - 1
      /\ 0 \in 0 .. SectorsPerCluster - 1 /\ DiskSectors \in Nat
      /\ 0 \in 0 .. ListLimit + 1 /\ 0 \in 0 .. BufferSize
  BY Numbers, SizeAssumption
<1>a. /\ currentPath = <<>> /\ pc = "idle" /\ command = "none" /\ argument = <<>>
      /\ path = <<>> /\ current = NULL /\ found = Blank
      /\ byteCount = 0 /\ i = 0 /\ output = <<>> /\ failures = 0
      /\ <<>> \in Seq(Outputs) /\ <<>> \in Seq(UserNames) /\ Len(<<>>) = 0
  BY EmptySeq DEF Init
<1>2. Cardinality(DOMAIN Fat) \in Int
  BY FatAssumption, FS_CardinalityType
<1>3. RootDirLba \in NoSector .. DiskSectors - 1
  BY Numbers DEF NoSector
<1>4. FreshRoot(RootDirLba) \in FileDatas /\ FreshRoot(RootDirLba).IsDirectory
  BY <1>3, FreshRootIs
<1> DEFINE closed == [Opened |-> FALSE, IsDirectory |-> FALSE, Position |-> 0,
                      Size |-> 0, FirstCluster |-> 0, CurrentCluster |-> 0,
                      CurrentSectorInCluster |-> 0, Buffer |-> NoSector]
<1>5. closed \in FileDatas /\ ~closed.Opened
  BY <1>1 DEF FileDatas, NoSector, closed
<1>6. g_Data = [RootDirectory |-> FreshRoot(RootDirLba), OpenedFiles |-> [h \in Handles |-> closed],
                FatCachePosition |-> Word - 1, FatCacheHolds |-> Cardinality(DOMAIN Fat)]
  BY Zenon DEF Init, closed
<1> HIDE DEF closed, FreshRoot
<1>7. /\ g_Data \in Datas /\ g_Data.RootDirectory = FreshRoot(RootDirLba)
      /\ g_Data.OpenedFiles = [h \in Handles |-> closed]
  BY <1>1, <1>2, <1>4, <1>5, <1>6 DEF Datas
<1>8. Taken(g_Data, {current})
  BY <1>a, <1>4, <1>5, <1>7, FilesDiffer DEF Taken, FileData, Files
<1>9. Typed
  BY <1>1, <1>a DEF Typed
<1>10. Lookup
  BY <1>a DEF Lookup
<1>11. Handle /\ Held
  BY <1>a, <1>8, FilesDiffer DEF Handle, Held, Files
<1>12. Printed
  <2>1. ~Reads
    BY <1>a DEF Reads
  <2>2. Len(output) = 0 /\ found.size = 0
    BY <1>a, BlankIs
  <2> QED
    BY <1>a, <2>1, <2>2 DEF Printed
<1> QED
  BY <1>9, <1>10, <1>11, <1>12 DEF Safe

\* A command that begins has the root directory, and nothing found or printed.
LEMMA SafeBegin ==
    ASSUME Safe, NEW what \in {"ls", "cd", "read"}, NEW p \in Seq(UserNames), Begin(what, p)
    PROVE  Safe'
<1>1. /\ 0 \in 0 .. ListLimit + 1 /\ 0 \in 0 .. BufferSize
      /\ <<>> \in Seq(Outputs) /\ Len(<<>>) = 0
  BY SizeAssumption, EmptySeq
<1> USE DEF Begin, Safe
<1>2. Typed'
  BY <1>1 DEF Typed, Files
<1>3. Lookup'
  BY DEF Lookup
<1>4. Handle'
  <2>1. Taken(g_Data, {NULL})
    BY DEF Handle
  <2>2. {NULL} \cap Handles = {ROOT_DIRECTORY_HANDLE} \cap Handles
    BY FilesDiffer DEF Files
  <2>3. Taken(g_Data, {ROOT_DIRECTORY_HANDLE})
    BY <2>1, <2>2, TakenSame
  <2> QED
    BY <2>3 DEF Handle, Taken, FileData
<1>5. Held'
  BY FilesDiffer DEF Held
<1>6. Printed'
  <2>1. ~Reads'
    BY DEF Reads
  <2>2. Len(output') = 0 /\ found'.size = 0 /\ output' = <<>> /\ byteCount' = 0 /\ pc' = "walk"
    BY <1>1, BlankIs
  <2> HIDE DEF Begin, Safe
  <2> QED
    BY <2>1, <2>2 DEF Printed
<1> QED
  BY <1>2, <1>3, <1>4, <1>5, <1>6

\* The steps that change no data and no file: the walk along the path, the use
\* of a file that is not there, and a call of FAT_Read.
LEMMA SafeNextName ==
    ASSUME Safe, NextName
    PROVE  Safe'
<1> USE DEF NextName, Safe
<1>1. Typed'
  BY DEF Typed, work
<1>2. Lookup'
  <2>1. Head(path) \in UserNames /\ Tail(path) \in Seq(UserNames)
    BY DEF Lookup
  <2>2. "?garbled" \in UserNames
    BY DEF UserNames
  <2> QED
    BY <2>1, <2>2 DEF Lookup
<1>3. Handle'
  BY DEF Handle, Taken, FileData
<1>4. Held'
  BY DEF Held, FileData
<1>5. Printed'
  BY DEF Printed, Reads, work
<1> QED
  BY <1>1, <1>2, <1>3, <1>4, <1>5

\* The path has been walked, and what was opened has its entry's size.
LEMMA SafeWalkEnds ==
    ASSUME Safe, WalkEnds
    PROVE  Safe'
<1>1. /\ pc = "walk" /\ pc' = "opened" /\ g_Data' = g_Data /\ current' = current /\ found' = found
      /\ path' = path /\ name' = name /\ entry' = entry /\ currentPath' = currentPath
      /\ argument' = argument /\ command' = command /\ byteCount' = byteCount /\ i' = i
      /\ output' = output /\ failures' = failures
  BY DEF WalkEnds, walk, work
<1>2. Typed /\ Lookup /\ Handle /\ Held /\ Printed
  BY DEF Safe
<1>3. Typed' /\ Lookup'
  BY <1>1, <1>2 DEF Typed, Lookup
<1>4. Handle'
  BY <1>1, <1>2 DEF Handle, Taken, FileData
<1>5. Held'
  BY <1>1, <1>2 DEF Held, FileData
<1>6. Printed'
  <2>1. byteCount = 0 /\ output = <<>> /\ Len(output) <= found.size /\ Len(<<>>) = 0
    BY <1>1, <1>2, EmptySeq DEF Printed
  <2>2. ASSUME Reads'
        PROVE  LET fd == FileData(g_Data, current) IN
               Len(output) = fd.Position /\ fd.Position + byteCount <= fd.Size /\ fd.Size <= found.size
    <3>1. current \in Handles
      BY <1>1, <2>2 DEF Reads
    <3>2. IsEntry(found) /\ FileData(g_Data, current).Position = 0 /\ FileData(g_Data, current).Size = found.size
      BY <1>1, <1>2, <3>1 DEF Held
    <3>3. found.size \in Nat
      BY <3>2, EntryIs, Numbers
    <3> QED
      BY <2>1, <3>2, <3>3
  <2>3. FileData(g_Data, current)' = FileData(g_Data, current)
    BY <1>1 DEF FileData
  <2>4. ~found.directory \/ output = <<>>
    BY <2>1
  <2> HIDE DEF Reads
  <2> QED
    BY <1>1, <2>1, <2>2, <2>3 DEF Printed
<1> QED
  BY <1>3, <1>4, <1>5, <1>6 DEF Safe

\* The use of a file that is not there changes nothing but the place.
LEMMA SafeUsesNull ==
    ASSUME Safe, UsesNull
    PROVE  Safe'
<1>1. /\ pc \in {"search", "opened"} /\ current = NULL /\ pc' = "null" /\ g_Data' = g_Data
      /\ current' = current /\ found' = found /\ path' = path /\ currentPath' = currentPath
      /\ argument' = argument /\ command' = command /\ byteCount' = byteCount /\ i' = i
      /\ output' = output /\ failures' = failures
  BY DEF UsesNull, walk, work
<1>2. Typed /\ Lookup /\ Handle /\ Held /\ Printed
  BY DEF Safe
<1>3. NULL \notin Handles
  BY FilesDiffer DEF Files
<1>4. Typed' /\ Lookup'
  BY <1>1, <1>2 DEF Typed, Lookup
<1>5. Handle'
  BY <1>1, <1>2 DEF Handle, Taken, FileData
<1>6. Held'
  BY <1>1, <1>2, <1>3 DEF Held, FileData
<1>7. Printed'
  <2>1. found = Blank /\ ~Reads /\ ~Reads'
    BY <1>1, <1>2, <1>3 DEF Held, Reads
  <2>2. byteCount \in Nat /\ Len(output) <= 0 /\ output \in Seq(Outputs)
    <3>1. byteCount \in Nat /\ output \in Seq(Outputs)
      BY <1>2, SizeAssumption DEF Typed
    <3>2. Len(output) <= found.size
      BY <1>2 DEF Printed
    <3> QED
      BY <2>1, <3>1, <3>2, BlankIs
  <2>3. byteCount = 0 /\ output = <<>>
    BY <1>2, <2>1, <2>2, EmptySeq DEF Printed
  <2> HIDE DEF Reads
  <2> QED
    BY <1>1, <1>2, <2>1, <2>3 DEF Printed
<1> QED
  BY <1>4, <1>5, <1>6, <1>7 DEF Safe

\* A turn of FAT_Read's loop for one entry of a directory, which is compared
\* with the name that is looked for.
LEMMA SafeCompare ==
    ASSUME Safe, Compare
    PROVE  Safe'
<1> DEFINE fd == FileData(g_Data, current)
           e  == EntryAt(fd.Buffer, fd.Position)
<1>1. /\ pc = "search" /\ current \in Files /\ current' = current /\ found' = found
      /\ path' = path /\ name' = name /\ currentPath' = currentPath
      /\ argument' = argument /\ command' = command /\ byteCount' = byteCount /\ i' = i
      /\ output' = output
      /\ \/ pc' = "open" /\ entry' = e /\ e.name = name
         \/ pc' = pc /\ entry' = entry
  BY DEF Compare, Safe, Typed, work
<1>2. PICK r \in ReadTurn(g_Data, current, EntrySize) : Outcome(r)
  BY DEF Compare
<1>3. g_Data' = r.data /\ failures' = failures + r.failed
  BY <1>2 DEF Outcome
<1>4. Typed /\ Lookup /\ Handle /\ Held /\ Printed
  BY DEF Safe
<1>5. /\ Taken(r.data, {current}) /\ r.failed \in Nat
      /\ FileData(r.data, current).IsDirectory = fd.IsDirectory
      /\ FileData(r.data, current).FirstCluster = fd.FirstCluster
  BY <1>1, <1>4, TurnKeeps, Numbers DEF Handle
<1>6. Typed'
  BY <1>1, <1>3, <1>4, <1>5 DEF Typed
<1>7. Lookup'
  <2>1. CASE pc' = pc /\ entry' = entry
    BY <1>1, <1>4, <2>1 DEF Lookup
  <2>2. CASE pc' = "open" /\ entry' = e /\ e.name = name
    <3>1. fd.Position \in Nat
      BY <1>1, <1>4, FileDataIs DEF Handle, Taken, FileDatas
    <3>2. e.name \in UserNames
      BY <1>1, <1>4, <2>2 DEF Lookup
    <3>3. IsEntry(e)
      BY <3>1, <3>2, EntryAtIs
    <3> HIDE DEF e
    <3> QED
      BY <1>1, <1>4, <2>2, <3>3 DEF Lookup
  <2> QED
    BY <1>1, <2>1, <2>2
<1>8. FileData(g_Data, current)' = FileData(r.data, current)
  BY <1>1, <1>3 DEF FileData
<1> HIDE DEF e
<1>9. Handle'
  BY <1>1, <1>3, <1>4, <1>5, FilesDiffer DEF Handle, Taken, FileData
<1>10. Held'
  BY <1>1, <1>4, <1>5, <1>8 DEF Held
<1>11. Printed'
  BY <1>1, <1>4 DEF Printed, Reads
<1> QED
  BY <1>6, <1>7, <1>9, <1>10, <1>11 DEF Safe

\* A name that is not found closes the directory.
LEMMA SafeNotFound ==
    ASSUME Safe, NotFound
    PROVE  Safe'
<1>1. /\ pc = "search" /\ pc' = "opened" /\ current \in Files /\ current' = NULL /\ path' = <<>>
      /\ found' = Blank /\ g_Data' = Close(g_Data, current) /\ currentPath' = currentPath
      /\ argument' = argument /\ command' = command /\ byteCount' = byteCount /\ i' = i
      /\ output' = output /\ failures' = failures
  BY DEF NotFound, work, Safe, Typed
<1>2. Typed /\ Lookup /\ Handle /\ Held /\ Printed
  BY DEF Safe
<1>3. NULL \notin Handles /\ ~Reads' /\ byteCount = 0 /\ output = <<>>
  BY <1>1, <1>2, FilesDiffer DEF Files, Reads, Printed
<1>4. Typed'
  BY <1>1, <1>2 DEF Typed
<1>5. Lookup'
  BY <1>1, <1>2, EmptySeq DEF Lookup
<1>6. Handle'
  <2>1. Taken(g_Data', {current} \ {current})
    BY <1>1, <1>2, CloseIs DEF Handle, Taken
  <2>2. ({current} \ {current}) \cap Handles = {NULL} \cap Handles
    BY <1>3
  <2>3. Taken(g_Data', {NULL})
    BY <2>1, <2>2, TakenSame
  <2> QED
    BY <1>1, <2>3 DEF Handle, Taken, FileData
<1>7. Held'
  BY <1>1, <1>3 DEF Held
<1>8. Printed'
  <2>1. Len(output') <= found'.size
    <3>1. output' = <<>> /\ found' = Blank
      BY <1>1, <1>3
    <3>2. Len(output') = 0 /\ found'.size = 0
      BY <3>1, EmptySeq, BlankIs
    <3> QED
      BY <3>2
  <2> HIDE DEF Reads
  <2> QED
    BY <1>1, <1>3, <2>1 DEF Printed
<1> QED
  BY <1>4, <1>5, <1>6, <1>7, <1>8 DEF Safe

\* The entry's file takes the place of the directory that it was found in.
LEMMA SafeOpenFound ==
    ASSUME Safe, OpenFound
    PROVE  Safe'
<1> DEFINE closed == Close(g_Data, current)
<1>1. /\ pc = "open" /\ pc' = "walk" /\ path' = path /\ name' = name /\ entry' = entry
      /\ currentPath' = currentPath /\ argument' = argument /\ command' = command
      /\ byteCount' = byteCount /\ i' = i /\ output' = output
  BY DEF OpenFound, work
<1>2. PICK r \in OpenEntry(closed, entry) :
         Outcome(r) /\ current' = r.file /\ found' = IF r.file = NULL THEN Blank ELSE entry
  BY DEF OpenFound
<1>3. g_Data' = r.data /\ failures' = failures + r.failed
  BY <1>2 DEF Outcome
<1>4. Typed /\ Lookup /\ Handle /\ Held /\ Printed
  BY DEF Safe
<1>5. IsEntry(entry) /\ NULL \notin Handles
  BY <1>1, <1>4, FilesDiffer DEF Lookup, Files
<1>6. closed \in Datas /\ Taken(closed, {current} \ {current})
  BY <1>4, CloseIs DEF Handle, Taken, Typed
<1> HIDE DEF closed
<1>7. /\ r.file \in Handles \cup {NULL} /\ r.failed \in {0, 1}
      /\ Taken(r.data, ({current} \ {current}) \cup ({r.file} \cap Handles))
      /\ r.file \in Handles => Entered(FileData(r.data, r.file), entry)
  BY <1>5, <1>6, OpenEntryIs
<1>8. Typed'
  BY <1>1, <1>2, <1>3, <1>4, <1>7 DEF Typed, Files
<1>9. Lookup'
  BY <1>1, <1>2, <1>4, <1>5 DEF Lookup
<1>10. Handle'
  <2>1. (({current} \ {current}) \cup ({r.file} \cap Handles)) \cap Handles = {r.file} \cap Handles
    OBVIOUS
  <2>2. Taken(r.data, {r.file})
    BY <1>7, <2>1, TakenSame
  <2> QED
    BY <1>1, <1>2, <1>3, <2>2 DEF Handle, Taken, FileData
<1>11. Held'
  <2>1. FileData(g_Data, current)' = FileData(r.data, r.file)
    BY <1>2, <1>3 DEF FileData
  <2> QED
    BY <1>1, <1>2, <1>5, <1>7, <2>1 DEF Held, Entered
<1>12. Printed'
  <2>1. output' = <<>> /\ byteCount' = 0 /\ Len(output') = 0 /\ ~Reads'
    BY <1>1, <1>4, EmptySeq DEF Printed, Reads
  <2>2. found'.size >= 0
    <3>1. entry.size \in 0 .. Word - 1
      BY <1>5, EntryIs
    <3>2. entry.size >= 0
      BY <3>1
    <3>3. Blank.size = 0
      BY BlankIs
    <3> QED
      BY <1>2, <3>2, <3>3
  <2> HIDE DEF Reads
  <2> QED
    BY <1>1, <2>1, <2>2 DEF Printed
<1> QED
  BY <1>8, <1>9, <1>10, <1>11, <1>12 DEF Safe

\* A command that ends keeps what it found and printed, and no file.
LEMMA SafeFinish ==
    ASSUME Safe, Finish, currentPath' \in {currentPath, argument},
           UNCHANGED <<command, argument, found, listed, output>>,
           Taken(g_Data', {NULL}), failures' \in Nat
    PROVE  Safe'
<1>1. /\ pc' = "idle" /\ current' = NULL /\ path' = <<>> /\ found' = found /\ argument' = argument
      /\ command' = command /\ output' = output /\ byteCount' = 0 /\ i' = 0
  BY DEF Finish
<1>2. Typed /\ Lookup /\ Handle /\ Held /\ Printed
  BY DEF Safe
<1>3. NULL \notin Handles /\ ~Reads'
  BY <1>1, FilesDiffer DEF Files, Reads
<1>4. Typed'
  BY <1>1, <1>2, SizeAssumption DEF Typed
<1>5. Lookup'
  BY <1>1, <1>2, EmptySeq DEF Lookup
<1>6. Handle'
  BY <1>1 DEF Handle, Taken, FileData
<1>7. Held'
  BY <1>1, <1>3 DEF Held
<1>8. Printed'
  <2>1. Len(output') <= found'.size /\ (found'.directory => output' = <<>>)
    BY <1>1, <1>2 DEF Printed
  <2> HIDE DEF Reads
  <2> QED
    BY <1>1, <1>3, <2>1 DEF Printed
<1> QED
  BY <1>4, <1>5, <1>6, <1>7, <1>8 DEF Safe

\* Closing the file of a command gives all handles back.
LEMMA CloseGivesBack ==
    ASSUME Safe, NEW d, Taken(d, {current}) \/ Taken(d, {})
    PROVE  Taken(Close(d, current), {NULL}) /\ Close(d, current) \in Datas
<1>1. d \in Datas /\ current \in Files \cup {NULL}
  BY DEF Taken, Safe, Typed
<1>2. Taken(Close(d, current), {current} \ {current}) \/ Taken(Close(d, current), {} \ {current})
  BY <1>1, CloseIs
<1>3. /\ ({current} \ {current}) \cap Handles = {NULL} \cap Handles
      /\ ({} \ {current}) \cap Handles = {NULL} \cap Handles
  BY FilesDiffer DEF Files
<1> QED
  BY <1>1, <1>2, <1>3, TakenSame, CloseIs

\* The ways in which a command ends.
LEMMA SafeEnds ==
    ASSUME Safe, ChangeDirectory \/ ChangeFails \/ ListEnds \/ ReadEnds
    PROVE  Safe'
<1>1. /\ Finish /\ currentPath' \in {currentPath, argument}
      /\ UNCHANGED <<command, argument, found, listed, output>>
  BY DEF ChangeDirectory, ChangeFails, ListEnds, ReadEnds
<1>2. Taken(g_Data, {current}) /\ g_Data \in Datas /\ failures \in Nat
  BY DEF Safe, Handle, Taken, Typed
<1>3. Taken(g_Data', {NULL}) /\ failures' \in Nat
  <2>1. CASE ChangeDirectory \/ ListEnds \/ ReadEnds
    <3>1. g_Data' = Close(g_Data, current) /\ failures' = failures
      BY <2>1 DEF ChangeDirectory, ListEnds, ReadEnds
    <3> QED
      BY <1>2, <3>1, CloseGivesBack
  <2>2. CASE ChangeFails
    <3>1. PICK r \in Initialize(g_Data) : Outcome([r EXCEPT !.data = Close(r.data, current)])
      BY <2>2 DEF ChangeFails
    <3>2. /\ Taken(r.data, {current}) \/ Taken(r.data, {})
          /\ r.failed \in {0, 1}
          /\ \A data : LET m == [r EXCEPT !.data = data] IN m.data = data /\ m.failed = r.failed
      BY <1>2, InitializeIs
    <3>3. g_Data' = Close(r.data, current) /\ failures' = failures + r.failed
      BY <3>1, <3>2 DEF Outcome
    <3>4. Taken(Close(r.data, current), {NULL})
      BY <3>2, CloseGivesBack
    <3> QED
      BY <1>2, <3>2, <3>3, <3>4
  <2> QED
    BY <2>1, <2>2
<1> QED
  BY <1>1, <1>3, SafeFinish

\* A turn of FAT_Read's loop for one entry that ls lists.
LEMMA SafeListEntry ==
    ASSUME Safe, ListEntry
    PROVE  Safe'
<1> DEFINE fd == FileData(g_Data, current)
<1>1. /\ pc = "opened" /\ pc' = pc /\ command = "ls" /\ current \in Files /\ current' = current
      /\ found' = found /\ path' = path /\ name' = name /\ entry' = entry
      /\ currentPath' = currentPath /\ argument' = argument /\ command' = command
      /\ byteCount' = byteCount /\ output' = output /\ i' = i + 1 /\ i <= ListLimit
  BY DEF ListEntry, Safe, Typed, walk
<1>2. PICK r \in ReadTurn(g_Data, current, EntrySize) : Outcome(r)
  BY DEF ListEntry
<1>3. g_Data' = r.data /\ failures' = failures + r.failed
  BY <1>2 DEF Outcome
<1>4. Typed /\ Lookup /\ Handle /\ Held /\ Printed
  BY DEF Safe
<1>5. /\ Taken(r.data, {current}) /\ r.failed \in Nat
      /\ FileData(r.data, current).IsDirectory = fd.IsDirectory
      /\ FileData(r.data, current).FirstCluster = fd.FirstCluster
  BY <1>1, <1>4, TurnKeeps, Numbers DEF Handle
<1>6. Typed'
  BY <1>1, <1>3, <1>4, <1>5, SizeAssumption DEF Typed
<1>7. Lookup'
  BY <1>1, <1>4 DEF Lookup
<1>8. FileData(g_Data, current)' = FileData(r.data, current)
  BY <1>1, <1>3 DEF FileData
<1>9. Handle'
  BY <1>1, <1>3, <1>4, <1>5, FilesDiffer DEF Handle, Taken, FileData
<1>10. Held'
  BY <1>1, <1>4, <1>5, <1>8 DEF Held
<1>11. Printed'
  <2>1. ~Reads /\ ~Reads'
    BY <1>1 DEF Reads
  <2> HIDE DEF Reads
  <2> QED
    BY <1>1, <1>4, <2>1 DEF Printed
<1> QED
  BY <1>6, <1>7, <1>9, <1>10, <1>11 DEF Safe

\* A file that is read is one that was opened and is no directory.
LEMMA ReadsIs ==
    ASSUME Safe, pc = "opened", command = "read", current # NULL, ~IsDirectory(current)
    PROVE  Reads
<1>1. /\ current \in Files /\ Taken(g_Data, {current}) /\ Held
  BY DEF Safe, Typed, Handle
<1>2. current \in Handles /\ ~FileData(g_Data, current).IsDirectory
  BY <1>1 DEF IsDirectory, Taken, FileData, Files
<1> QED
  BY <1>1, <1>2 DEF Held, Reads

\* A call of FAT_Read asks for no more than the file has left.
LEMMA SafeCallRead ==
    ASSUME Safe, CallRead
    PROVE  Safe'
<1> DEFINE fd == FileData(g_Data, current)
<1>1. /\ pc = "opened" /\ command = "read" /\ current # NULL /\ ~IsDirectory(current)
      /\ pc' = pc /\ g_Data' = g_Data /\ current' = current /\ found' = found
      /\ path' = path /\ name' = name /\ entry' = entry /\ currentPath' = currentPath
      /\ argument' = argument /\ command' = command /\ i' = i /\ output' = output
      /\ failures' = failures /\ byteCount' = Limited(fd, BufferSize) /\ byteCount = 0
  BY DEF CallRead, walk
<1>2. Typed /\ Lookup /\ Handle /\ Held /\ Printed
  BY DEF Safe
<1>3. Reads
  BY <1>1, ReadsIs
<1>4. /\ fd \in FileDatas /\ ~fd.IsDirectory /\ Len(output) = fd.Position
      /\ fd.Position + byteCount <= fd.Size /\ fd.Size <= found.size
  <2>1. fd \in FileDatas /\ ~fd.IsDirectory
    BY <1>2, <1>3, FileDataIs DEF Held, Handle, Taken, Reads, Files
  <2> HIDE DEF Reads
  <2> QED
    BY <1>2, <1>3, <2>1 DEF Printed
<1>5. /\ byteCount' \in 0 .. BufferSize /\ fd.Position + byteCount' <= fd.Size
  <2>1. fd.Position \in Nat /\ fd.Size \in Nat /\ fd.Position <= fd.Size
    BY <1>1, <1>4, Numbers DEF FileDatas
  <2> HIDE DEF fd
  <2> QED
    BY <1>1, <1>4, <2>1, LimitedIs, SizeAssumption
<1>6. Typed'
  BY <1>1, <1>2, <1>5 DEF Typed
<1>7. Lookup'
  BY <1>1, <1>2 DEF Lookup
<1>8. Handle'
  BY <1>1, <1>2 DEF Handle, Taken, FileData
<1>9. FileData(g_Data, current)' = fd
  BY <1>1 DEF FileData
<1>10. Held'
  BY <1>1, <1>2, <1>9 DEF Held
<1>11. Printed'
  <2>1. Reads'
    BY <1>1, <1>3 DEF Reads
  <2> HIDE DEF Reads, fd
  <2> QED
    BY <1>1, <1>2, <1>4, <1>5, <1>9, <2>1 DEF Printed
<1> QED
  BY <1>6, <1>7, <1>8, <1>10, <1>11 DEF Safe

\* What FAT_Read copies lies between the position and the size.
LEMMA SafeCopyTurn ==
    ASSUME Safe, CopyTurn
    PROVE  Safe'
<1> DEFINE fd   == FileData(g_Data, current)
           take == Take(fd, byteCount)
           copy == [n \in 1 .. take |-> <<fd.Buffer, (fd.Position % SectorSize) + n - 1>>]
<1>1. /\ pc = "opened" /\ command = "read" /\ byteCount > 0
      /\ pc' = pc /\ current' = current /\ found' = found /\ path' = path /\ name' = name
      /\ entry' = entry /\ currentPath' = currentPath /\ argument' = argument
      /\ command' = command /\ i' = i /\ output' = output \o copy
  BY DEF CopyTurn, walk
<1>2. PICK r \in ReadTurn(g_Data, current, byteCount) :
         Outcome(r) /\ byteCount' = IF r.more THEN byteCount - take ELSE 0
  BY DEF CopyTurn
<1>3. g_Data' = r.data /\ failures' = failures + r.failed
  BY <1>2 DEF Outcome
<1>4. Typed /\ Lookup /\ Handle /\ Held /\ Printed
  BY DEF Safe
<1>5. /\ Reads /\ current \in Handles /\ current \in Files /\ byteCount \in Nat \ {0}
      /\ byteCount <= BufferSize /\ BufferSize \in Nat /\ g_Data \in Datas
  BY <1>1, <1>4, SizeAssumption DEF Printed, Typed, Reads, Files, Handle, Taken
<1>6. /\ fd \in FileDatas /\ Len(output) = fd.Position /\ fd.Position + byteCount <= fd.Size
      /\ fd.Size <= found.size /\ fd.Position \in Nat /\ fd.Size \in 0 .. Word - 1
      /\ take \in 1 .. byteCount /\ found.size \in Nat
  <2>1. fd \in FileDatas
    BY <1>5, FileDataIs
  <2>2. Len(output) = fd.Position /\ fd.Position + byteCount <= fd.Size /\ fd.Size <= found.size
    BY <1>4, <1>5 DEF Printed
  <2>3. take \in 1 .. byteCount
    BY <1>5, <2>1, TakeIs
  <2>4. found.size \in 0 .. Word - 1
    BY <1>4, <1>5, EntryIs DEF Held
  <2> QED
    BY <2>1, <2>2, <2>3, <2>4 DEF FileDatas
<1>7. copy \in Seq(Outputs) /\ Len(copy) = take
  <2>1. fd.Buffer \in Int /\ fd.Position % SectorSize \in Int
    BY <1>6, Numbers DEF FileDatas, NoSector
  <2> HIDE DEF fd, take
  <2>2. ASSUME NEW n \in 1 .. take
        PROVE  <<fd.Buffer, (fd.Position % SectorSize) + n - 1>> \in Outputs
    <3>1. (fd.Position % SectorSize) + n - 1 \in Int
      BY <2>1
    <3> QED
      BY <2>1, <3>1, Zenon DEF Outputs
  <2>3. copy \in [1 .. take -> Outputs] /\ take \in Nat
    BY <1>6, <2>2
  <2> HIDE DEF copy
  <2> QED
    BY <2>3
<1>8. /\ Taken(r.data, {current}) /\ r.failed \in Nat
      /\ FileData(r.data, current).IsDirectory = fd.IsDirectory
      /\ FileData(r.data, current).FirstCluster = fd.FirstCluster
  BY <1>4, <1>5, TurnKeeps DEF Handle
<1>9. Turned(fd, FileData(r.data, current), take, r.more)
  BY <1>5, ReadTurnIs
<1>10. FileData(g_Data, current)' = FileData(r.data, current)
  BY <1>1, <1>3 DEF FileData
<1> HIDE DEF copy, fd
<1>11. output' \in Seq(Outputs) /\ Len(output') = Len(output) + take
  BY <1>1, <1>4, <1>7, ConcatProperties DEF Typed
<1>12. byteCount' \in 0 .. byteCount - take
  BY <1>2, <1>6, <1>5
<1> HIDE DEF take
<1>13. Typed'
  <2>1. byteCount' \in 0 .. BufferSize
    BY <1>5, <1>6, <1>12
  <2> QED
    BY <1>1, <1>3, <1>4, <1>8, <1>11, <2>1 DEF Typed
<1>14. Lookup'
  BY <1>1, <1>4 DEF Lookup
<1>15. Handle'
  BY <1>1, <1>3, <1>4, <1>8 DEF Handle, Taken, FileData
<1>16. Held'
  BY <1>1, <1>4, <1>8, <1>10 DEF Held, fd
<1>17. Printed'
  <2> DEFINE new == FileData(r.data, current)
  <2>1. /\ new.Position = fd.Position + take
        /\ new.Size = fd.Size \/ (new.Size = new.Position /\ byteCount' = 0)
    <3>1. fd.Position + take \in 0 .. Word - 1
      BY <1>5, <1>6, Numbers
    <3> QED
      BY <1>2, <1>9, <3>1, Numbers DEF Turned
  <2>2. /\ new.Position + byteCount' <= new.Size /\ new.Size <= found.size
        /\ Len(output') = new.Position
    <3>1. new.Size = fd.Size => new.Position + byteCount' <= new.Size
      BY <1>5, <1>6, <1>12, <2>1
    <3> QED
      BY <1>5, <1>6, <1>11, <1>12, <2>1
  <2>3. Reads' /\ ~found'.directory
    BY <1>1, <1>5 DEF Reads
  <2>4. Len(output') <= found'.size
    BY <1>1, <1>5, <1>6, <1>11, <2>2
  <2> HIDE DEF Reads, new
  <2> QED
    BY <1>1, <1>10, <2>2, <2>3, <2>4 DEF Printed, new
<1> QED
  BY <1>13, <1>14, <1>15, <1>16, <1>17 DEF Safe

\* Every step keeps the safe part of the invariant.
LEMMA SafeStep ==
    ASSUME Safe, [Next]_vars
    PROVE  Safe'
<1>1. CASE Ls
  <2>1. currentPath \in Seq(UserNames)
    BY DEF Safe, Lookup
  <2> QED
    BY <1>1, <2>1, SafeBegin DEF Ls
<1>2. ASSUME NEW p \in Directories, Cd(p)
      PROVE  Safe'
  <2>1. p \in Seq(UserNames)
    BY UserAssumption
  <2> QED
    BY <1>2, <2>1, SafeBegin DEF Cd
<1>3. ASSUME NEW f \in Names, Read(f)
      PROVE  Safe'
  <2>1. f \in UserNames
    BY DEF UserNames
  <2>2. Append(currentPath, f) \in Seq(UserNames)
    BY <2>1 DEF Safe, Lookup
  <2> QED
    BY <1>3, <2>2, SafeBegin DEF Read
<1>4. CASE CommandStep
  BY <1>4, SafeNextName, SafeWalkEnds, SafeUsesNull, SafeCompare, SafeNotFound, SafeOpenFound,
     SafeEnds, SafeListEntry, SafeCallRead, SafeCopyTurn DEF CommandStep
<1>5. CASE UNCHANGED vars
  <2>1. /\ g_Data' = g_Data /\ currentPath' = currentPath /\ pc' = pc /\ command' = command
        /\ argument' = argument /\ path' = path /\ name' = name /\ current' = current
        /\ entry' = entry /\ found' = found /\ byteCount' = byteCount /\ i' = i
        /\ output' = output /\ failures' = failures
    BY <1>5 DEF vars, walk, work
  <2>2. Typed' /\ Lookup' /\ Handle' /\ Held' /\ Printed'
    BY <2>1 DEF Safe, Typed, Lookup, Handle, Held, Printed, Reads, Taken, FileData
  <2> QED
    BY <2>2 DEF Safe
<1> QED
  BY <1>1, <1>2, <1>3, <1>4, <1>5 DEF Next

\* The files of a command, its handle and what it has printed are in order at
\* every state that the commands can reach.  (fat.cpp 202-459, keyboard.cpp 137-206)
THEOREM Safety == Spec => []Safe
<1>1. Init => Safe
  BY SafeInit
<1>2. Safe /\ [Next]_vars => Safe'
  BY SafeStep
<1> QED
  BY <1>1, <1>2, PTL DEF Spec

\* Positions, sizes and clusters keep their widths, buffers hold a sector of the
\* disk and a cluster's sectors are counted from its first one, whatever reads
\* fail.  (fat.cpp 202-349)
THEOREM TypeCorrect == Spec => []TypeOK
<1>1. ASSUME NEW fd \in FileDatas
      PROVE  IsFileData(fd)
  BY DEF FileDatas, IsFileData
<1>2. Safe => TypeOK
  <2> SUFFICES ASSUME Safe PROVE TypeOK
    OBVIOUS
  <2>1. g_Data \in Datas /\ Typed
    BY DEF Safe, Handle, Taken
  <2>2. /\ g_Data.RootDirectory \in FileDatas /\ \A h \in Handles : g_Data.OpenedFiles[h] \in FileDatas
        /\ g_Data.FatCachePosition \in 0 .. Word - 1 /\ g_Data.FatCacheHolds \in Int
    BY <2>1 DEF Datas
  <2> QED
    BY <1>1, <2>1, <2>2 DEF Typed, TypeOK, Files
<1> QED
  BY <1>2, Safety, PTL

\* A command never holds more than the one handle of the file it is in, and gives
\* it back when it ends, whatever reads failed.  (fat.cpp 202-245, 351-363, 403-459)
THEOREM HandlesComeBack == Spec => []HandlesReturned
<1>1. Safe => HandlesReturned
  <2> SUFFICES ASSUME Safe PROVE HandlesReturned
    OBVIOUS
  <2>1. \A h \in Handles : g_Data.OpenedFiles[h].Opened <=> h = current
    BY FilesDiffer, FileDataIs DEF Safe, Handle, Taken, Files
  <2>2. pc = "idle" => current \notin Handles
    BY FilesDiffer DEF Safe, Handle, Files
  <2> QED
    BY <2>1, <2>2 DEF HandlesReturned, OpenHandles
<1> QED
  BY <1>1, Safety, PTL

\* What read prints is never longer than the file, whatever reads fail.
\* (fat.cpp 287-346, keyboard.cpp 180-206)
THEOREM PrintsNoMore == Spec => []NeverTooLong
<1>1. Safe => NeverTooLong
  BY DEF Safe, Printed, NeverTooLong
<1> QED
  BY <1>1, Safety, PTL

-----------------------------------------------------------------------------
(* Chains of clusters.                                                       *)

Following(c) == IF c \in DOMAIN Fat THEN Fat[c] ELSE EndMark

\* The chain from a cluster on, up to its n-th one.
IsChain(g, first, n) ==
    g = [k \in 0 .. n |-> IF k = 0 THEN first ELSE Following(g[k - 1])]

\* There is one.
LEMMA ChainExists ==
    ASSUME NEW first, NEW n \in Nat
    PROVE  \E g : IsChain(g, first, n)
<1> DEFINE Bad == {k \in Nat : ~\E g : IsChain(g, first, k)}
<1> SUFFICES ASSUME Bad # {} PROVE FALSE
  OBVIOUS
<1>1. PICK k \in Bad : \A m \in Bad : k <= m
  BY Smallest
<1>2. k \in Nat
  OBVIOUS
<1>3. k # 0
  <2>1. IsChain([j \in 0 .. 0 |-> first], first, 0)
    BY DEF IsChain
  <2> QED
    BY <2>1
<1>4. PICK g : IsChain(g, first, k - 1)
  <2>1. k - 1 \in Nat /\ k - 1 < k
    BY <1>2, <1>3
  <2> QED
    BY <1>1, <2>1
<1> DEFINE h == [j \in 0 .. k |-> IF j < k THEN g[j] ELSE Following(g[k - 1])]
<1>5. \A j \in 0 .. k : h[j] = IF j = 0 THEN first ELSE Following(h[j - 1])
  <2> SUFFICES ASSUME NEW j \in 0 .. k PROVE h[j] = IF j = 0 THEN first ELSE Following(h[j - 1])
    OBVIOUS
  <2>1. CASE j = 0
    BY <1>2, <1>3, <1>4, <2>1 DEF IsChain
  <2>2. CASE j # 0 /\ j < k
    <3>1. j \in 0 .. k - 1 /\ j - 1 \in 0 .. k - 1 /\ j - 1 \in 0 .. k /\ j - 1 < k
      BY <1>2, <2>2
    <3>2. g[j] = Following(g[j - 1])
      BY <1>4, <2>2, <3>1 DEF IsChain
    <3> QED
      BY <2>2, <3>1, <3>2
  <2>3. CASE j # 0 /\ j = k
    BY <1>2, <2>3
  <2> QED
    BY <1>2, <2>1, <2>2, <2>3
<1>6. IsChain(h, first, k)
  <2> DEFINE f == [j \in 0 .. k |-> IF j = 0 THEN first ELSE Following(h[j - 1])]
  <2>1. h = f
    <3>1. \A j \in 0 .. k : h[j] = f[j]
      BY <1>5
    <3> HIDE DEF Bad
    <3> QED
      BY <3>1
  <2> HIDE DEF h
  <2> QED
    BY <2>1 DEF IsChain
<1> HIDE DEF h
<1> QED
  BY <1>6

\* A chain's first clusters do not depend on how far it goes.
LEMMA ChainsAgree ==
    ASSUME NEW first, NEW n \in Nat, NEW m \in Nat, n <= m,
           NEW g, NEW h, IsChain(g, first, n), IsChain(h, first, m)
    PROVE  \A k \in 0 .. n : g[k] = h[k]
<1> DEFINE Bad == {k \in 0 .. n : g[k] # h[k]}
<1> SUFFICES ASSUME Bad # {} PROVE FALSE
  OBVIOUS
<1>1. PICK k \in Bad : \A j \in Bad : k <= j
  <2>1. Bad \subseteq Nat
    OBVIOUS
  <2> HIDE DEF Bad
  <2> QED
    BY <2>1, Smallest
<1>2. k \in 0 .. n /\ k \in 0 .. m /\ g[k] # h[k]
  BY <1>1
<1>3. /\ g[k] = IF k = 0 THEN first ELSE Following(g[k - 1])
      /\ h[k] = IF k = 0 THEN first ELSE Following(h[k - 1])
  BY <1>2 DEF IsChain
<1>4. k # 0
  BY <1>2, <1>3
<1>5. g[k - 1] = h[k - 1]
  BY <1>1, <1>2, <1>4
<1> QED
  BY <1>2, <1>3, <1>4, <1>5

\* The clusters of a chain follow one another as the FAT says.
LEMMA ClusterAtIs ==
    ASSUME NEW first, NEW n \in Nat
    PROVE  ClusterAt(first, 0) = first /\ ClusterAt(first, n + 1) = Following(ClusterAt(first, n))
<1> DEFINE C(k) == CHOOSE g : IsChain(g, first, k)
<1>1. ASSUME NEW k \in Nat
      PROVE  ClusterAt(first, k) = C(k)[k] /\ IsChain(C(k), first, k)
  <2>1. ClusterAt(first, k) = C(k)[k]
    BY DEF ClusterAt, IsChain, Following
  <2>2. IsChain(C(k), first, k)
    BY ChainExists
  <2> QED
    BY <2>1, <2>2
<1> HIDE DEF C
<1>2. ClusterAt(first, 0) = first
  BY <1>1 DEF IsChain
<1>3. C(n)[n] = C(n + 1)[n]
  <2>1. n + 1 \in Nat /\ n <= n + 1 /\ n \in 0 .. n
    OBVIOUS
  <2>2. IsChain(C(n), first, n) /\ IsChain(C(n + 1), first, n + 1)
    BY <1>1, <2>1
  <2> QED
    BY <2>1, <2>2, ChainsAgree
<1>4. C(n + 1)[n + 1] = Following(C(n + 1)[n])
  <2>1. n + 1 \in 0 .. n + 1 /\ n + 1 # 0 /\ (n + 1) - 1 = n /\ n + 1 \in Nat
    OBVIOUS
  <2>2. IsChain(C(n + 1), first, n + 1)
    BY <1>1, <2>1
  <2> QED
    BY <2>1, <2>2 DEF IsChain
<1> QED
  BY <1>1, <1>2, <1>3, <1>4

-----------------------------------------------------------------------------
(* Positions in a file.                                                      *)

\* A number is what its quotient and its remainder say.
LEMMA DivMod ==
    ASSUME NEW n \in Nat, NEW d \in Nat \ {0}
    PROVE  /\ n \div d \in Nat /\ n % d \in 0 .. d - 1
           /\ n = d * (n \div d) + (n % d)
  OBVIOUS

\* They are the only numbers that fit.
LEMMA DivIs ==
    ASSUME NEW n \in Nat, NEW d \in Nat \ {0}, NEW q \in Nat, d * q <= n, n < d * (q + 1)
    PROVE  n \div d = q /\ n % d = n - d * q
<1>1. n \div d = q
  OBVIOUS
<1>2. n = d * (n \div d) + (n % d) /\ n % d \in Nat /\ d * q \in Nat
  BY DivMod
<1>3. n = d * q + (n % d)
  BY <1>1, <1>2
<1> QED
  BY <1>1, <1>2, <1>3

\* Multiplication keeps the order.
LEMMA TimesKeepsOrder ==
    ASSUME NEW d \in Nat, NEW m \in Nat, NEW n \in Nat, m <= n
    PROVE  d * m <= d * n /\ d * m \in Nat /\ d * n \in Nat
  OBVIOUS

\* What a step within a piece does to the quotient and to the remainder.
AdvanceSays(n, d, t) ==
    /\ (n % d) + t < d => (n + t) \div d = n \div d /\ (n + t) % d = (n % d) + t
    /\ (n % d) + t = d => /\ (n + t) \div d = (n \div d) + 1 /\ (n + t) % d = 0
                          /\ n + t = d * ((n \div d) + 1)

\* A step that does not pass the end of a piece stays in it or ends with it.
LEMMA Advance ==
    ASSUME NEW n \in Nat, NEW d \in Nat \ {0}, NEW t \in Nat \ {0}, (n % d) + t <= d
    PROVE  AdvanceSays(n, d, t)
<1> DEFINE q == n \div d
           p == d * q
           o == n % d
<1>1. q \in Nat /\ o \in 0 .. d - 1 /\ n = p + o
  BY DivMod
<1>2. p \in Nat /\ d * (q + 1) = p + d /\ d * ((q + 1) + 1) = p + d + d
  BY <1>1
<1> HIDE DEF q, p, o
<1>3. CASE o + t < d
  <2>1. (n + t) \div d = q /\ (n + t) % d = (n + t) - d * q
    <3>1. n + t \in Nat /\ d * q <= n + t /\ n + t < d * (q + 1)
      BY <1>1, <1>2, <1>3 DEF p
    <3> QED
      BY <1>1, <3>1, DivIs
  <2>2. (n + t) % d = o + t
    BY <1>1, <1>2, <2>1 DEF p
  <2> QED
    BY <1>3, <2>1, <2>2 DEF q, o, AdvanceSays
<1>4. CASE o + t = d
  <2>1. n + t \in Nat /\ n + t = d * (q + 1) /\ n + t < d * ((q + 1) + 1) /\ q + 1 \in Nat
    BY <1>1, <1>2, <1>4
  <2>2. (n + t) \div d = q + 1 /\ (n + t) % d = (n + t) - d * (q + 1)
    <3>1. d * (q + 1) <= n + t
      BY <2>1
    <3> QED
      BY <2>1, <3>1, DivIs
  <2>3. (n + t) % d = 0
    BY <2>1, <2>2
  <2> QED
    BY <1>4, <2>1, <2>2, <2>3 DEF q, o, AdvanceSays
<1> QED
  BY <1>3, <1>4 DEF o, AdvanceSays

\* A cluster of a chain has its sectors and its entry in the FAT on the disk.
LEMMA ClusterOnDisk ==
    ASSUME NEW c \in Clusters, NEW k \in 0 .. SectorsPerCluster - 1
    PROVE  /\ c \in Nat /\ c < Word - 8 /\ c < EndMark /\ c \in DOMAIN Fat
           /\ ClusterToLba(c) + k \in Nat /\ ClusterToLba(c) + k < DiskSectors
           /\ (ClusterToLba(c) + k) % Word = ClusterToLba(c) + k
           /\ c \div EntriesPerSector \in Nat /\ c \div EntriesPerSector < Word - 1
           /\ ReservedSectors + (c \div EntriesPerSector) < DiskSectors
<1>1. /\ c \in Nat /\ c >= 2 /\ c < EndMark /\ c \in DOMAIN Fat
      /\ ReservedSectors + (c \div EntriesPerSector) < DiskSectors
      /\ DataSectionLba + (c - 1) * SectorsPerCluster <= DiskSectors
  BY FatAssumption DEF Clusters
<1>2. /\ EndMark \in Nat /\ EndMark <= Word - 8 /\ DiskSectors <= Word
      /\ EntriesPerSector \in Nat \ {0}
  BY VolumeAssumption
<1>3. /\ Word \in Nat /\ DiskSectors \in Nat /\ DataSectionLba \in Nat
      /\ SectorsPerCluster \in Nat \ {0} /\ k \in Nat /\ k < SectorsPerCluster
  BY Numbers
<1>4. c \div EntriesPerSector \in Nat /\ c \div EntriesPerSector <= c
  <2>1. \A n \in Nat, d \in Nat \ {0} : n \div d \in Nat /\ n \div d <= n
    OBVIOUS
  <2> QED
    BY <1>1, <1>2, <2>1
<1> DEFINE rest == (c - 2) * SectorsPerCluster
<1>5. rest \in Nat /\ (c - 1) * SectorsPerCluster = rest + SectorsPerCluster
  <2>1. \A n \in Nat, s \in Nat : n * s \in Nat /\ (n + 1) * s = n * s + s
    OBVIOUS
  <2>2. c - 2 \in Nat /\ (c - 2) + 1 = c - 1
    BY <1>1
  <2> QED
    BY <1>3, <2>1, <2>2
<1>6. ClusterToLba(c) = (DataSectionLba + rest) % Word
  BY DEF ClusterToLba
<1> HIDE DEF rest
<1>7. \A n \in Nat : n < Word => n % Word = n
  BY <1>3
<1>8. DataSectionLba + rest \in Nat /\ DataSectionLba + rest + k < DiskSectors
  BY <1>1, <1>3, <1>5
<1>9. ClusterToLba(c) = DataSectionLba + rest
  BY <1>2, <1>3, <1>6, <1>7, <1>8
<1>10. ClusterToLba(c) + k \in Nat /\ ClusterToLba(c) + k < DiskSectors /\ ClusterToLba(c) + k < Word
  BY <1>2, <1>3, <1>8, <1>9
<1>11. c < Word - 8 /\ c \div EntriesPerSector < Word - 1
  BY <1>1, <1>2, <1>3, <1>4
<1> QED
  BY <1>1, <1>4, <1>7, <1>10, <1>11

\* The FAT tells the cluster that follows, as long as the sectors that are
\* cached are those that the cache should hold.
LEMMA NextClusterExact ==
    ASSUME NEW d \in Datas, CacheRight(d), NEW c \in Clusters, NEW r \in NextCluster(d, c),
           r.failed = 0
    PROVE  CacheRight(r.data) /\ r.cluster = Widen(Following(c))
<1> DEFINE sector == c \div EntriesPerSector
           at(x)  == c + (x.FatCacheHolds - x.FatCachePosition) * EntriesPerSector
           value(x) == IF at(x) \in DOMAIN Fat THEN Fat[at(x)] ELSE 0
<1>1. PICK s \in ReadFat(d, sector) :
         r = [data |-> s.data, cluster |-> Widen(value(s.data)), failed |-> s.failed]
  BY DEF NextCluster
<1>2. r.data = s.data /\ s.failed = 0 /\ r.cluster = Widen(value(s.data))
  BY <1>1
<1>3. /\ c \in Nat /\ c \in DOMAIN Fat /\ sector \in Nat /\ sector < Word - 1
      /\ ReservedSectors + sector < DiskSectors
  <2>1. 0 \in 0 .. SectorsPerCluster - 1
    BY Numbers
  <2> QED
    BY <2>1, ClusterOnDisk
<1> HIDE DEF sector
<1>4. s.data.FatCacheHolds = s.data.FatCachePosition /\ s.data.FatCachePosition \in Int
  <2>1. /\ ReservedSectors \in Nat /\ Word \in Nat /\ d.FatCacheHolds \in Int
        /\ d.FatCachePosition \in 0 .. Word - 1
    BY VolumeAssumption, Numbers DEF Datas
  <2>2. CASE Cached(d, sector)
    <3>1. s.data = d
      BY <2>2 DEF ReadFat
    <3>2. d.FatCachePosition # Word - 1 /\ ReservedSectors + d.FatCachePosition < DiskSectors
      BY <1>3, <2>1, <2>2, Numbers DEF Cached
    <3> QED
      BY <2>1, <3>1, <3>2 DEF CacheRight
  <2>3. CASE ~Cached(d, sector)
    <3> DEFINE n(u) == [d EXCEPT !.FatCachePosition = sector,
                                 !.FatCacheHolds = u.buffer - ReservedSectors]
    <3>1. PICK u \in readDiskSector(ReservedSectors + sector, ReservedSectors + d.FatCacheHolds) :
             s = [data |-> n(u), failed |-> u.failed]
      BY <2>3 DEF ReadFat
    <3>2. u.failed = 0 /\ s.data = n(u)
      BY <1>2, <3>1
    <3>3. ReservedSectors + sector \in Nat
      BY <1>3, <2>1
    <3>4. u.buffer = ReservedSectors + sector
      BY <1>3, <3>2, <3>3, ReadSector
    <3>5. u.buffer - ReservedSectors = sector
      BY <1>3, <2>1, <3>4
    <3>6. n(u).FatCachePosition = sector /\ n(u).FatCacheHolds = sector
      BY <3>5 DEF Datas
    <3> QED
      BY <1>3, <3>2, <3>6
  <2> QED
    BY <2>2, <2>3
<1>5. at(s.data) = c
  <2>1. EntriesPerSector \in Nat /\ s.data.FatCacheHolds - s.data.FatCachePosition = 0
    BY <1>4, VolumeAssumption
  <2> QED
    BY <1>3, <2>1
<1>6. value(s.data) = Following(c)
  BY <1>3, <1>5 DEF Following
<1> HIDE DEF value
<1> QED
  BY <1>2, <1>4, <1>6 DEF CacheRight

\* Whatever a lookup is for, the cached sectors stay those that the cache should
\* hold, or the cache is told to hold sectors past the disk.
LEMMA CacheKept ==
    ASSUME NEW d \in Datas, CacheRight(d), NEW c \in 0 .. Word - 1, NEW r \in NextCluster(d, c),
           r.failed = 0
    PROVE  CacheRight(r.data)
<1> DEFINE sector == c \div EntriesPerSector
<1>1. PICK s \in ReadFat(d, sector) : r.data = s.data /\ s.failed = 0
  BY DEF NextCluster
<1>2. sector \in Nat /\ ReservedSectors \in Nat /\ Word \in Nat
  BY Numbers, VolumeAssumption
<1> HIDE DEF sector
<1>3. CASE Cached(d, sector)
  BY <1>1, <1>3 DEF ReadFat
<1>4. CASE ~Cached(d, sector)
  <2> DEFINE n(u) == [d EXCEPT !.FatCachePosition = sector,
                               !.FatCacheHolds = u.buffer - ReservedSectors]
  <2>1. PICK u \in readDiskSector(ReservedSectors + sector, ReservedSectors + d.FatCacheHolds) :
           s = [data |-> n(u), failed |-> u.failed]
    BY <1>4 DEF ReadFat
  <2>2. u.failed = 0 /\ r.data = n(u)
    BY <1>1, <2>1
  <2>3. n(u).FatCachePosition = sector /\ n(u).FatCacheHolds = u.buffer - ReservedSectors
    BY DEF Datas
  <2> HIDE DEF n
  <2>4. ReservedSectors + sector < DiskSectors => u.buffer - ReservedSectors = sector
    <3>1. ReservedSectors + sector \in Nat
      BY <1>2
    <3>2. ReservedSectors + sector < DiskSectors => u.buffer = ReservedSectors + sector
      BY <2>2, <3>1, ReadSector
    <3> QED
      BY <1>2, <3>2
  <2> QED
    BY <2>2, <2>3, <2>4 DEF CacheRight
<1> QED
  BY <1>3, <1>4

\* The sector that is loaded is the next one of the cluster, which is on the
\* disk.
LEMMA LoadCluster ==
    ASSUME NEW d \in Datas, NEW file \in Files, NEW fd \in FileDatas, NEW r \in Load(d, file, fd),
           fd.CurrentCluster \in Clusters, r.failed = 0
    PROVE  /\ r.more
           /\ FileData(r.data, file) =
                [fd EXCEPT !.Buffer = ClusterToLba(fd.CurrentCluster) + fd.CurrentSectorInCluster]
<1>0. Word \in Nat /\ fd.CurrentSectorInCluster \in 0 .. SectorsPerCluster - 1
  BY Numbers DEF FileDatas
<1> DEFINE lba == ClusterToLba(fd.CurrentCluster) + fd.CurrentSectorInCluster
           new(s) == [fd EXCEPT !.Buffer = s.buffer]
<1>1. /\ lba \in Nat /\ lba < DiskSectors /\ lba % Word = lba
      /\ fd.CurrentCluster \in Nat /\ fd.CurrentCluster < Word - 8
  BY <1>0, ClusterOnDisk
<1>2. ~(fd.CurrentCluster >= Word - 8) /\ fd.CurrentCluster # Word - 1
  BY <1>0, <1>1
<1>3. PICK s \in readDiskSector(lba % Word, fd.Buffer) :
         r = [data |-> SetFileData(d, file, new(s)), more |-> s.ok, failed |-> s.failed]
  BY <1>2 DEF Load
<1>4. r.data = SetFileData(d, file, new(s)) /\ r.more = s.ok /\ s.failed = 0
  BY <1>3
<1> HIDE DEF lba
<1>5. s.ok /\ s.buffer = lba
  BY <1>1, <1>4, ReadSector
<1>6. lba \in NoSector .. DiskSectors - 1
  BY <1>1, Numbers DEF NoSector
<1>7. [fd EXCEPT !.Buffer = lba] \in FileDatas /\ new(s) = [fd EXCEPT !.Buffer = lba]
  BY <1>5, <1>6 DEF FileDatas
<1> HIDE DEF new
<1>8. FileData(r.data, file) = [fd EXCEPT !.Buffer = lba]
  BY <1>4, <1>7, SetFileDataIs
<1> QED
  BY <1>4, <1>5, <1>8 DEF lba

\* At the end of the chain there is none: it is the end of the file.
LEMMA LoadEnd ==
    ASSUME NEW d \in Datas, NEW file \in Files, NEW fd \in FileDatas, NEW r \in Load(d, file, fd),
           fd.CurrentCluster = Word - 1
    PROVE  ~r.more /\ FileData(r.data, file) = [fd EXCEPT !.Size = fd.Position]
<1>0. Word \in Nat
  BY Numbers
<1> DEFINE new == [fd EXCEPT !.Size = fd.Position]
<1>1. fd.CurrentCluster >= Word - 8
  BY <1>0
<1>2. r = [data |-> SetFileData(d, file, new), more |-> FALSE, failed |-> 0]
  BY <1>1 DEF Load
<1>3. new \in FileDatas
  BY DEF FileDatas
<1> HIDE DEF new
<1>4. ~r.more /\ FileData(r.data, file) = new
  BY <1>2, <1>3, SetFileDataIs
<1> QED
  BY <1>4 DEF new

\* A place within the first pieces is in one of them, which ends within them too.
LEMMA WithinPieces ==
    ASSUME NEW n \in Nat, NEW d \in Nat \ {0}, NEW m \in Nat, n < m * d
    PROVE  /\ n \div d \in Nat /\ n \div d < m
           /\ d * ((n \div d) + 1) <= m * d /\ d * ((n \div d) + 1) \in Nat
           /\ (n \div d) + 1 < m => d * ((n \div d) + 1) < m * d
<1> DEFINE q == n \div d
<1>1. q \in Nat /\ d * q \in Nat /\ d * q <= n /\ n < d * q + d
  BY DivMod
<1> HIDE DEF q
<1>2. m * d = d * m /\ d * (q + 1) = d * q + d
  BY <1>1
<1>3. q < m
  <2> SUFFICES ASSUME m <= q PROVE FALSE
    BY <1>1
  <2>1. d * m <= d * q
    BY <1>1, TimesKeepsOrder
  <2> QED
    BY <1>1, <1>2, <2>1
<1>4. d * (q + 1) <= d * m
  BY <1>1, <1>3, TimesKeepsOrder
<1>5. ASSUME q + 1 < m
      PROVE  d * (q + 1) < d * m
  <2>1. q + 2 <= m /\ q + 2 \in Nat /\ d * (q + 2) = d * (q + 1) + d /\ d * (q + 1) \in Nat
    BY <1>1, <1>5
  <2>2. d * (q + 2) <= d * m /\ d * m \in Nat
    BY <2>1, TimesKeepsOrder
  <2> QED
    BY <2>1, <2>2
<1> QED
  BY <1>1, <1>2, <1>3, <1>4, <1>5 DEF q

\* Where the n-th sector of a chain begins, and that there is nothing behind the
\* last one.
LEMMA SectorAtIs ==
    ASSUME NEW first, NEW n \in Nat
    PROVE  /\ (SectorSize * n) \div SectorSize = n /\ SectorSize * n \in Nat
           /\ SectorAt(first, SectorSize * n) =
                ClusterToLba(ClusterAt(first, n \div SectorsPerCluster)) + (n % SectorsPerCluster)
<1>1. SectorSize \in Nat \ {0}
  BY Numbers
<1>2. (SectorSize * n) \div SectorSize = n /\ SectorSize * n \in Nat
  BY <1>1
<1> QED
  BY <1>2 DEF SectorAt

\* What is behind the last sector of a cluster of a chain is the next cluster.
\* When the chain ends it is nothing, and FAT16 says so.
LEMMA FollowsExact ==
    ASSUME NEW e, NEW length \in Nat, Chain(e, length), NEW q \in Nat, q < length
    PROVE  /\ ClusterAt(e.cluster, q) \in Clusters
           /\ Following(ClusterAt(e.cluster, q)) = ClusterAt(e.cluster, q + 1)
           /\ q + 1 < length => /\ ClusterAt(e.cluster, q + 1) \in Clusters
                                /\ Widen(ClusterAt(e.cluster, q + 1)) = ClusterAt(e.cluster, q + 1)
           /\ ~(q + 1 < length) /\ ~Fat32 => Widen(ClusterAt(e.cluster, q + 1)) = Word - 1
<1>1. q \in 0 .. length - 1 /\ (q + 1 < length => q + 1 \in 0 .. length - 1)
      /\ (~(q + 1 < length) => q + 1 = length)
  OBVIOUS
<1>2. ClusterAt(e.cluster, q) \in Clusters /\ (q + 1 < length => ClusterAt(e.cluster, q + 1) \in Clusters)
  BY <1>1 DEF Chain
<1>3. Following(ClusterAt(e.cluster, q)) = ClusterAt(e.cluster, q + 1)
  BY ClusterAtIs
<1>4. \A c \in Clusters : Widen(c) = c
  <2>1. \A c \in Clusters : c \in Nat /\ c < EndMark /\ EndMark \in Nat
    BY FatAssumption, VolumeAssumption DEF Clusters
  <2> QED
    BY <2>1 DEF Widen
<1>5. ~(q + 1 < length) /\ ~Fat32 => Widen(ClusterAt(e.cluster, q + 1)) = Word - 1
  <2>1. ClusterAt(e.cluster, length) >= EndMark
    BY DEF Chain
  <2> QED
    BY <1>1, <2>1 DEF Widen
<1> QED
  BY <1>2, <1>3, <1>4, <1>5

\* A file whose position is behind a sector of its chain that is in its buffer.
Behind(fd, e, sector) ==
    /\ fd.Position = SectorSize * (sector + 1) /\ fd.Size = e.size
    /\ fd.CurrentCluster = ClusterAt(e.cluster, sector \div SectorsPerCluster)
    /\ fd.CurrentSectorInCluster = sector % SectorsPerCluster

\* A file that is in its chain or has been read to its end.
Stands(fd, e, length) == Inside(fd, e, length) \/ AtEnd(fd, length)

\* Loading from the next cluster of the chain brings the sector of the position,
\* and the end of the chain the end of the file.  Where FAT_Read does not notice
\* the end of the chain, as on FAT32, a file's size has ended it already.
LEMMA LoadStands ==
    ASSUME NEW d \in Datas, NEW file \in Files, NEW e, NEW length \in Nat,
           Chain(e, length), NEW sector \in Nat, sector <= length * SectorsPerCluster,
           NEW fd \in FileDatas, fd.Position = SectorSize * sector, fd.Size = e.size,
           fd.CurrentSectorInCluster = sector % SectorsPerCluster,
           IF sector < length * SectorsPerCluster
           THEN fd.CurrentCluster = ClusterAt(e.cluster, sector \div SectorsPerCluster)
           ELSE fd.CurrentCluster = Word - 1 \/ fd.Position <= fd.Size,
           NEW r \in Load(d, file, fd), r.failed = 0
    PROVE  /\ Stands(FileData(r.data, file), e, length)
           /\ FileData(r.data, file).Position = fd.Position
<1> DEFINE q == sector \div SectorsPerCluster
<1>1. /\ SectorsPerCluster \in Nat \ {0} /\ SectorSize \in Nat \ {0}
      /\ fd.Position \div SectorSize = sector
      /\ SectorAt(e.cluster, fd.Position) = ClusterToLba(ClusterAt(e.cluster, q)) + (sector % SectorsPerCluster)
  BY Numbers, SectorAtIs
<1>2. CASE sector < length * SectorsPerCluster
  <2>1. q \in Nat /\ q < length
    BY <1>1, <1>2, WithinPieces
  <2>2. fd.CurrentCluster = ClusterAt(e.cluster, q) /\ fd.CurrentCluster \in Clusters
    BY <1>2, <2>1, FollowsExact
  <2> DEFINE new == [fd EXCEPT !.Buffer = ClusterToLba(fd.CurrentCluster) + fd.CurrentSectorInCluster]
  <2>3. FileData(r.data, file) = new
    BY <2>2, LoadCluster
  <2>4. /\ new.Position = fd.Position /\ new.Size = e.size
        /\ new.CurrentCluster = ClusterAt(e.cluster, q)
        /\ new.CurrentSectorInCluster = sector % SectorsPerCluster
        /\ new.Buffer = SectorAt(e.cluster, new.Position)
    BY <1>1, <2>2 DEF FileDatas
  <2> HIDE DEF new
  <2>5. Inside(new, e, length)
    BY <1>1, <1>2, <2>4 DEF Inside
  <2> QED
    BY <2>3, <2>4, <2>5 DEF Stands
<1>3. CASE ~(sector < length * SectorsPerCluster)
  <2> DEFINE new == FileData(r.data, file)
  <2>1. Loaded(fd, new, r.more)
    BY LoadIs
  <2>2. fd.CurrentCluster = Word - 1 => new = [fd EXCEPT !.Size = fd.Position]
    BY LoadEnd
  <2> HIDE DEF new
  <2>3. new.Position = fd.Position /\ (fd.CurrentCluster = Word - 1 => new.Size = fd.Position)
    BY <2>1, <2>2 DEF FileDatas, Loaded
  <2>4. fd.Position = length * ClusterSize
    <3>1. length * SectorsPerCluster \in Nat
      BY <1>1
    <3>2. sector = length * SectorsPerCluster
      BY <1>3, <3>1
    <3>3. \A a \in Nat, b \in Nat, c \in Nat : a * (b * c) = c * (a * b)
      OBVIOUS
    <3> QED
      BY <1>1, <3>2, <3>3 DEF ClusterSize
  <2>5. fd.Position <= fd.Size => fd.Size = fd.Position
    <3>1. fd.Size <= length * ClusterSize
      BY DEF Chain
    <3>2. fd.Size \in Nat /\ fd.Position \in Nat
      BY Numbers DEF FileDatas
    <3> QED
      BY <2>4, <3>1, <3>2
  <2>6. new.Size = fd.Position
    BY <1>3, <2>1, <2>3, <2>5 DEF Loaded
  <2> QED
    BY <2>3, <2>4, <2>6 DEF AtEnd, Stands, new
<1> QED
  BY <1>2, <1>3

\* So does a refill of a file, as long as no read fails.
LEMMA RefillExact ==
    ASSUME NEW d \in Datas, CacheRight(d), NEW file \in Files, NEW e,
           NEW length \in Nat, Chain(e, length),
           Fat32 => FileData(d, file).Position <= FileData(d, file).Size,
           NEW sector \in Nat, sector < length * SectorsPerCluster,
           Behind(FileData(d, file), e, sector), NEW r \in RefillFile(d, file), r.failed = 0
    PROVE  /\ CacheRight(r.data) /\ Stands(FileData(r.data, file), e, length)
           /\ FileData(r.data, file).Position = FileData(d, file).Position
<1> DEFINE fd == FileData(d, file)
           q  == sector \div SectorsPerCluster
           k  == sector % SectorsPerCluster
<1>1. /\ fd \in FileDatas /\ fd.CurrentCluster \in 0 .. Word - 1
      /\ fd.Position = SectorSize * (sector + 1) /\ fd.Size = e.size
      /\ fd.CurrentCluster = ClusterAt(e.cluster, q) /\ fd.CurrentSectorInCluster = k
  BY FileDataIs DEF FileDatas, Behind
<1>2. /\ SectorsPerCluster \in Nat \ {0} /\ k \in 0 .. SectorsPerCluster - 1
      /\ q \in Nat /\ q < length
      /\ SectorsPerCluster * (q + 1) <= length * SectorsPerCluster
      /\ q + 1 < length => SectorsPerCluster * (q + 1) < length * SectorsPerCluster
  BY Numbers, DivMod, WithinPieces
<1>3. /\ k + 1 < SectorsPerCluster =>
            (sector + 1) \div SectorsPerCluster = q /\ (sector + 1) % SectorsPerCluster = k + 1
      /\ k + 1 = SectorsPerCluster =>
            /\ (sector + 1) \div SectorsPerCluster = q + 1 /\ (sector + 1) % SectorsPerCluster = 0
            /\ sector + 1 = SectorsPerCluster * (q + 1)
  <2>1. (sector % SectorsPerCluster) + 1 <= SectorsPerCluster
    BY <1>2
  <2> HIDE DEF q, k
  <2>2. AdvanceSays(sector, SectorsPerCluster, 1)
    BY <1>2, <2>1, Advance
  <2> QED
    BY <2>2 DEF AdvanceSays, q, k
<1>4. sector + 1 \in Nat /\ sector + 1 <= length * SectorsPerCluster
  BY <1>2
<1> HIDE DEF fd, q, k
<1>5. CASE LastSector(fd)
  <2> DEFINE new(s) == [fd EXCEPT !.CurrentSectorInCluster = 0, !.CurrentCluster = s.cluster]
  <2>1. PICK s \in NextCluster(d, fd.CurrentCluster) : \E u \in Load(s.data, file, new(s)) :
           r = [u EXCEPT !.failed = @ + s.failed]
    BY <1>5 DEF RefillFile, fd
  <2>2. PICK u \in Load(s.data, file, new(s)) : r = [u EXCEPT !.failed = @ + s.failed]
    BY <2>1
  <2>3. s.data \in Datas /\ s.failed \in {0, 1} /\ s.cluster \in 0 .. Word - 1
    BY <1>1, NextClusterIs
  <2>4. /\ new(s) \in FileDatas /\ new(s).Position = fd.Position /\ new(s).Size = fd.Size
        /\ new(s).CurrentSectorInCluster = 0 /\ new(s).CurrentCluster = s.cluster
    <3>1. 0 \in 0 .. SectorsPerCluster - 1
      BY <1>2
    <3>2. \A c \in 0 .. Word - 1 :
             LET to == [fd EXCEPT !.CurrentSectorInCluster = 0, !.CurrentCluster = c] IN
             /\ to \in FileDatas /\ to.Position = fd.Position /\ to.Size = fd.Size
             /\ to.CurrentSectorInCluster = 0 /\ to.CurrentCluster = c
      BY <1>1, <3>1 DEF FileDatas
    <3> QED
      BY <2>3, <3>2
  <2> HIDE DEF new
  <2>5. /\ r.data = u.data /\ r.more = u.more /\ r.failed = u.failed + s.failed
        /\ u.failed \in {0, 1} /\ SameCache(s.data, u.data)
    <3>1. /\ u.failed \in {0, 1} /\ SameCache(s.data, u.data)
          /\ \A n : LET m == [u EXCEPT !.failed = n] IN m.data = u.data /\ m.more = u.more /\ m.failed = n
      BY <2>3, <2>4, LoadIs
    <3> QED
      BY <2>2, <3>1
  <2>6. u.failed = 0 /\ s.failed = 0
    BY <2>3, <2>5
  <2>7. CacheRight(s.data) /\ s.cluster = Widen(ClusterAt(e.cluster, q + 1))
    BY <1>1, <1>2, <2>6, FollowsExact, NextClusterExact
  <2>8. CacheRight(u.data)
    BY <2>5, <2>7 DEF CacheRight, SameCache
  <2>9. k + 1 = SectorsPerCluster
    BY <1>1, <1>2, <1>5 DEF LastSector
  <2>10. IF sector + 1 < length * SectorsPerCluster
         THEN s.cluster = ClusterAt(e.cluster, (sector + 1) \div SectorsPerCluster)
         ELSE s.cluster = Word - 1 \/ new(s).Position <= new(s).Size
    <3>1. ~(q + 1 < length) => sector + 1 = length * SectorsPerCluster
      <4>1. ~(q + 1 < length) => q + 1 = length
        BY <1>2
      <4>2. length * SectorsPerCluster = SectorsPerCluster * length
        BY <1>2
      <4> QED
        BY <1>3, <2>9, <4>1, <4>2
    <3>2. length * SectorsPerCluster \in Nat
      BY <1>2
    <3>3. CASE q + 1 < length
      <4>1. Widen(ClusterAt(e.cluster, q + 1)) = ClusterAt(e.cluster, q + 1)
        BY <1>2, <3>3, FollowsExact
      <4>2. sector + 1 = SectorsPerCluster * (q + 1) /\ (sector + 1) \div SectorsPerCluster = q + 1
        BY <1>3, <2>9
      <4>3. sector + 1 < length * SectorsPerCluster
        BY <1>2, <3>3, <4>2
      <4> QED
        BY <2>7, <4>1, <4>2, <4>3
    <3>4. CASE ~(q + 1 < length)
      <4>1. s.cluster = Word - 1 \/ new(s).Position <= new(s).Size
        BY <1>2, <2>4, <2>7, <3>4, FollowsExact DEF fd
      <4> QED
        BY <3>1, <3>2, <3>4, <4>1
    <3> QED
      BY <3>3, <3>4
  <2>11. /\ Stands(FileData(u.data, file), e, length)
         /\ FileData(u.data, file).Position = fd.Position
    BY <1>1, <1>3, <1>4, <2>3, <2>4, <2>6, <2>9, <2>10, LoadStands
  <2> QED
    BY <2>5, <2>8, <2>11 DEF fd
<1>6. CASE ~LastSector(fd)
  <2> DEFINE new == [fd EXCEPT !.CurrentSectorInCluster = @ + 1]
  <2>1. r \in Load(d, file, new)
    BY <1>6 DEF RefillFile, fd
  <2>2. k + 1 < SectorsPerCluster /\ k + 1 \in 0 .. SectorsPerCluster - 1
    BY <1>1, <1>2, <1>6 DEF LastSector
  <2>3. /\ new \in FileDatas /\ new.Position = fd.Position /\ new.Size = fd.Size
        /\ new.CurrentSectorInCluster = k + 1 /\ new.CurrentCluster = fd.CurrentCluster
    BY <1>1, <2>2 DEF FileDatas
  <2> HIDE DEF new
  <2>4. sector + 1 < length * SectorsPerCluster
    <3>1. sector + 1 < SectorsPerCluster * (q + 1)
      <4>1. sector = SectorsPerCluster * q + k
        BY <1>2, DivMod DEF q, k
      <4>2. SectorsPerCluster * (q + 1) = SectorsPerCluster * q + SectorsPerCluster
            /\ SectorsPerCluster * q \in Nat
        BY <1>2
      <4> QED
        BY <1>2, <2>2, <4>1, <4>2
    <3>2. SectorsPerCluster * (q + 1) \in Nat /\ length * SectorsPerCluster \in Nat
      BY <1>2
    <3> QED
      BY <1>2, <1>4, <3>1, <3>2
  <2>5. /\ Stands(FileData(r.data, file), e, length)
        /\ FileData(r.data, file).Position = new.Position
    BY <1>1, <1>3, <1>4, <2>1, <2>2, <2>3, <2>4, LoadStands
  <2>6. CacheRight(r.data)
    <3>1. SameCache(d, r.data)
      BY <2>1, <2>3, LoadIs
    <3> QED
      BY <3>1 DEF CacheRight, SameCache
  <2> QED
    BY <2>3, <2>5, <2>6 DEF fd
<1> QED
  BY <1>5, <1>6

\* A refill of a file leaves the cache right, wherever the file is.
LEMMA RefillCache ==
    ASSUME NEW d \in Datas, CacheRight(d), NEW file \in Files,
           NEW r \in RefillFile(d, file), r.failed = 0
    PROVE  CacheRight(r.data)
<1> DEFINE fd == FileData(d, file)
<1>1. /\ fd \in FileDatas /\ fd.CurrentCluster \in 0 .. Word - 1
      /\ fd.CurrentSectorInCluster \in 0 .. SectorsPerCluster - 1 /\ SectorsPerCluster \in Nat \ {0}
  BY FileDataIs, Numbers DEF FileDatas
<1> HIDE DEF fd
<1>2. CASE LastSector(fd)
  <2> DEFINE new(s) == [fd EXCEPT !.CurrentSectorInCluster = 0, !.CurrentCluster = s.cluster]
  <2>1. PICK s \in NextCluster(d, fd.CurrentCluster) : \E u \in Load(s.data, file, new(s)) :
           r = [u EXCEPT !.failed = @ + s.failed]
    BY <1>2 DEF RefillFile, fd
  <2>2. PICK u \in Load(s.data, file, new(s)) : r = [u EXCEPT !.failed = @ + s.failed]
    BY <2>1
  <2>3. s.data \in Datas /\ s.failed \in {0, 1} /\ s.cluster \in 0 .. Word - 1
    BY <1>1, NextClusterIs
  <2>4. new(s) \in FileDatas
    <3>1. 0 \in 0 .. SectorsPerCluster - 1
      BY <1>1
    <3> QED
      BY <1>1, <2>3, <3>1 DEF FileDatas
  <2> HIDE DEF new
  <2>5. /\ u.failed \in {0, 1} /\ SameCache(s.data, u.data)
        /\ \A n : LET m == [u EXCEPT !.failed = n] IN m.data = u.data /\ m.more = u.more /\ m.failed = n
    BY <2>3, <2>4, LoadIs
  <2>6. r.data = u.data /\ s.failed = 0
    BY <2>2, <2>3, <2>5
  <2>7. CacheRight(s.data)
    BY <1>1, <2>6, CacheKept
  <2> QED
    BY <2>5, <2>6, <2>7 DEF CacheRight, SameCache
<1>3. CASE ~LastSector(fd)
  <2> DEFINE new == [fd EXCEPT !.CurrentSectorInCluster = @ + 1]
  <2>1. r \in Load(d, file, new)
    BY <1>3 DEF RefillFile, fd
  <2>2. new \in FileDatas
    <3>1. fd.CurrentSectorInCluster + 1 \in 0 .. SectorsPerCluster - 1
      BY <1>1, <1>3 DEF LastSector
    <3> QED
      BY <1>1, <3>1 DEF FileDatas
  <2> HIDE DEF new
  <2>3. SameCache(d, r.data)
    BY <2>1, <2>2, LoadIs
  <2> QED
    BY <2>3 DEF CacheRight, SameCache
<1> QED
  BY <1>2, <1>3

\* So does a turn of FAT_Read, in the search of a directory of FAT32 as well that
\* has left its chain.
LEMMA TurnCache ==
    ASSUME NEW d \in Datas, CacheRight(d), NEW file \in Files, NEW count \in Nat \ {0},
           NEW r \in ReadTurn(d, file, count), r.failed = 0
    PROVE  CacheRight(r.data)
<1> DEFINE fd    == FileData(d, file)
           take  == Take(fd, count)
           to    == [fd EXCEPT !.Position = (@ + take) % Word]
           moved == SetFileData(d, file, to)
<1>1. CASE file = ROOT_DIRECTORY_HANDLE
  <2>1. SameCache(d, r.data)
    BY <1>1, ReadTurnIs
  <2> QED
    BY <2>1 DEF SameCache, CacheRight
<1>2. CASE file # ROOT_DIRECTORY_HANDLE
  <2>1. fd \in FileDatas /\ fd.Position \in Nat /\ take \in 1 .. count /\ Word \in Nat \ {0}
    BY FileDataIs, TakeIs, Numbers DEF FileDatas
  <2>2. to \in FileDatas
    <3>1. (fd.Position + take) % Word \in 0 .. Word - 1
      BY <2>1
    <3> QED
      BY <2>1, <3>1 DEF FileDatas
  <2>3. moved \in Datas /\ SameCache(d, moved)
    BY <2>2, SetFileDataIs DEF Others
  <2>4. r.data = moved \/ r \in RefillFile(moved, file)
    BY <1>2 DEF ReadTurn
  <2> HIDE DEF moved
  <2>5. CacheRight(moved)
    BY <2>3 DEF SameCache, CacheRight
  <2> QED
    BY <2>3, <2>4, <2>5, RefillCache
<1> QED
  BY <1>1, <1>2

\* A turn of FAT_Read that starts in the chain of a file brings it to the next
\* place of the chain or to its end, as long as no read fails and, on FAT32, as
\* it does not pass the size.
LEMMA TurnExact ==
    ASSUME NEW d \in Datas, CacheRight(d), NEW file \in Handles, NEW e,
           NEW length \in Nat, Chain(e, length), Inside(FileData(d, file), e, length),
           NEW count \in Nat \ {0}, NEW r \in ReadTurn(d, file, count), r.failed = 0,
           Fat32 => FileData(d, file).Position + Take(FileData(d, file), count)
                      <= FileData(d, file).Size
    PROVE  /\ CacheRight(r.data) /\ Stands(FileData(r.data, file), e, length)
           /\ FileData(r.data, file).Position = FileData(d, file).Position + Take(FileData(d, file), count)
<1> DEFINE fd     == FileData(d, file)
           take   == Take(fd, count)
           to     == [fd EXCEPT !.Position = (@ + take) % Word]
           moved  == SetFileData(d, file, to)
           sector == fd.Position \div SectorSize
           o      == fd.Position % SectorSize
<1>0. file \in Files /\ file # ROOT_DIRECTORY_HANDLE
  BY FilesDiffer DEF Files
<1>1. /\ fd \in FileDatas /\ fd.Position \in 0 .. Word - 1 /\ take \in 1 .. count
      /\ o \in 0 .. SectorSize - 1 /\ o + take <= SectorSize
  BY <1>0, FileDataIs, TakeIs DEF FileDatas
<1>2. /\ sector < length * SectorsPerCluster /\ fd.Size = e.size
      /\ fd.CurrentCluster = ClusterAt(e.cluster, sector \div SectorsPerCluster)
      /\ fd.CurrentSectorInCluster = sector % SectorsPerCluster
      /\ fd.Buffer = SectorAt(e.cluster, fd.Position)
  BY DEF Inside
<1>3. /\ Word \in Nat /\ SectorSize \in Nat \ {0} /\ SectorsPerCluster \in Nat \ {0}
      /\ length * SectorsPerCluster \in Nat /\ fd.Position \in Nat /\ sector \in Nat
      /\ fd.Position = SectorSize * sector + o /\ SectorSize * sector \in Nat
  <2>1. /\ Word \in Nat /\ SectorSize \in Nat \ {0} /\ SectorsPerCluster \in Nat \ {0}
        /\ length * SectorsPerCluster \in Nat /\ fd.Position \in Nat
    BY <1>1, Numbers
  <2>2. sector \in Nat /\ fd.Position = SectorSize * sector + o
    BY <2>1, DivMod
  <2> HIDE DEF sector, o
  <2>3. SectorSize * sector \in Nat
    BY <2>1, <2>2
  <2> QED
    BY <2>1, <2>2, <2>3
<1> HIDE DEF take, sector, o
<1>4. /\ o + take < SectorSize =>
            (fd.Position + take) \div SectorSize = sector /\ (fd.Position + take) % SectorSize = o + take
      /\ o + take = SectorSize => fd.Position + take = SectorSize * (sector + 1)
  <2>1. take \in Nat \ {0} /\ (fd.Position % SectorSize) + take <= SectorSize
    BY <1>1 DEF o
  <2>2. AdvanceSays(fd.Position, SectorSize, take)
    BY <1>3, <2>1, Advance
  <2> QED
    BY <2>2 DEF AdvanceSays, sector, o
<1>5. fd.Position + take \in 0 .. Word - 1 /\ (fd.Position + take) % Word = fd.Position + take
  <2>1. sector + 1 <= length * SectorsPerCluster /\ SectorSize * (sector + 1) = SectorSize * sector + SectorSize
    BY <1>2, <1>3
  <2>2. SectorSize * (sector + 1) <= SectorSize * (length * SectorsPerCluster)
    BY <1>3, <2>1, TimesKeepsOrder
  <2>3. SectorSize * (length * SectorsPerCluster) = length * ClusterSize
    <3>1. \A a \in Nat, b \in Nat, c \in Nat : a * (b * c) = b * (c * a)
      OBVIOUS
    <3> QED
      BY <1>3, <3>1 DEF ClusterSize
  <2>4. length * ClusterSize < Word /\ length * ClusterSize \in Nat
    BY <1>3 DEF Chain, ClusterSize
  <2>5. fd.Position + take \in Nat /\ fd.Position + take < Word
    BY <1>1, <1>3, <2>1, <2>2, <2>3, <2>4
  <2> QED
    BY <1>3, <2>5
<1>6. /\ to \in FileDatas /\ to.Position = fd.Position + take /\ to.Size = fd.Size
      /\ to.CurrentCluster = fd.CurrentCluster /\ to.Buffer = fd.Buffer
      /\ to.CurrentSectorInCluster = fd.CurrentSectorInCluster
  BY <1>1, <1>5 DEF FileDatas
<1> HIDE DEF to, fd
<1>7. moved \in Datas /\ FileData(moved, file) = to /\ SameCache(d, moved)
  BY <1>0, <1>6, SetFileDataIs DEF Others
<1>8. ReadTurn(d, file, count) =
        IF o + take < SectorSize
        THEN {[data |-> moved, more |-> TRUE, failed |-> 0]}
        ELSE IF file = ROOT_DIRECTORY_HANDLE THEN RefillRoot(moved)
        ELSE RefillFile(moved, file)
  BY DEF ReadTurn, fd, take, o, to
<1> HIDE DEF moved
<1>9. CacheRight(moved)
  BY <1>7 DEF CacheRight, SameCache
<1>10. CASE o + take < SectorSize
  <2>1. r = [data |-> moved, more |-> TRUE, failed |-> 0]
    BY <1>8, <1>10
  <2>2. r.data = moved /\ r.more = TRUE
    BY <2>1
  <2>3. SectorAt(e.cluster, to.Position) = SectorAt(e.cluster, fd.Position)
    BY <1>4, <1>6, <1>10 DEF SectorAt, sector
  <2>4. Inside(to, e, length)
    BY <1>2, <1>4, <1>6, <1>10, <2>3 DEF Inside
  <2> QED
    BY <1>6, <1>7, <1>9, <2>2, <2>4 DEF Stands, fd, take
<1>11. CASE ~(o + take < SectorSize)
  <2>1. r \in RefillFile(moved, file)
    BY <1>0, <1>8, <1>11
  <2>2. o + take = SectorSize
    BY <1>1, <1>3, <1>11
  <2>3. Behind(to, e, sector)
    BY <1>2, <1>4, <1>6, <2>2 DEF Behind
  <2>4. /\ CacheRight(r.data) /\ Stands(FileData(r.data, file), e, length)
        /\ FileData(r.data, file).Position = to.Position
    <3>1. Fat32 => FileData(moved, file).Position <= FileData(moved, file).Size
      BY <1>6, <1>7 DEF fd, take
    <3> QED
      BY <1>0, <1>2, <1>3, <1>7, <1>9, <2>1, <2>3, <3>1, RefillExact
  <2> QED
    BY <1>6, <2>4 DEF fd, take
<1> QED
  BY <1>10, <1>11

-----------------------------------------------------------------------------
(* As long as no read fails the rest of the invariant holds at every step.   *)

\* The place of a file from which something can be read.
LEMMA PlacedInside ==
    ASSUME NEW fd \in FileDatas, NEW e, InPlace(fd, e), e.size \in Nat, e.directory \in BOOLEAN,
           fd.IsDirectory = e.directory, NEW count \in Nat \ {0}, Limited(fd, count) > 0
    PROVE  /\ e.directory \/ e.size > 0
           /\ \E length \in Nat \ {0} : Chain(e, length) /\ Inside(fd, e, length)
<1>1. fd.Position \in Nat /\ fd.Size \in Nat
  BY Numbers DEF FileDatas
<1>2. Limited(fd, count) \in 0 .. count
  BY LimitedIs
<1>3. ASSUME ~fd.IsDirectory \/ fd.Size # 0, fd.Position = fd.Size
      PROVE  FALSE
  <2>1. fd.Position + Limited(fd, count) <= fd.Size
    BY <1>1, <1>3, LimitedIs
  <2> QED
    BY <1>1, <1>2, <1>3, <2>1
<1>4. e.directory \/ e.size > 0
  BY <1>1, <1>3 DEF InPlace
<1>5. PICK length \in Nat \ {0} :
        Chain(e, length) /\ (Inside(fd, e, length) \/ AtEnd(fd, length))
  BY <1>4 DEF InPlace
<1>6. ~AtEnd(fd, length)
  <2> SUFFICES ASSUME AtEnd(fd, length) PROVE FALSE
    OBVIOUS
  <2>1. ClusterSize \in Nat \ {0}
    BY Numbers DEF ClusterSize
  <2>2. length * ClusterSize # 0
    BY <2>1
  <2> QED
    BY <1>3, <2>2 DEF AtEnd
<1> QED
  BY <1>4, <1>5, <1>6

\* A turn of FAT_Read leaves a file in a place of its entry.
LEMMA TurnPlaced ==
    ASSUME NEW d \in Datas, CacheRight(d), NEW file \in Handles, NEW e,
           Placed(FileData(d, file), e), e.size \in Nat, e.directory \in BOOLEAN,
           FileData(d, file).IsDirectory = e.directory,
           NEW count \in Nat \ {0}, Limited(FileData(d, file), count) = count,
           NEW r \in ReadTurn(d, file, count), r.failed = 0
    PROVE  Placed(FileData(r.data, file), e)
<1> DEFINE fd   == FileData(d, file)
           new  == FileData(r.data, file)
           take == Take(fd, count)
<1>1. file \in Files /\ fd \in FileDatas /\ fd.Position \in Nat /\ fd.Size \in Nat
  BY FileDataIs, Numbers DEF Files, FileDatas
<1>2. take \in 1 .. count
  BY <1>1, TakeIs
<1>3. ~e.directory => fd.Position + take <= fd.Size
  <2> SUFFICES ASSUME ~e.directory PROVE fd.Position + take <= fd.Size
    OBVIOUS
  <2>1. fd.Position + count <= fd.Size
    BY <1>1, LimitedIs DEF Placed
  <2> HIDE DEF fd, take
  <2> QED
    BY <1>1, <1>2, <2>1
<1>4. CASE Lost(e)
  BY <1>4 DEF Placed, Lost
<1>5. CASE ~Lost(e)
  <2>1. InPlace(fd, e) /\ Limited(fd, count) > 0
    BY <1>5 DEF Placed
  <2>2. e.directory \/ e.size > 0
    BY <1>1, <2>1, PlacedInside
  <2>3. PICK length \in Nat \ {0} : Chain(e, length) /\ Inside(fd, e, length)
    BY <1>1, <2>1, PlacedInside
  <2>4. Stands(new, e, length) /\ new.Position = fd.Position + take
    BY <1>3, <1>5, <2>3, TurnExact DEF Lost
  <2>5. ~e.directory => new.Position <= new.Size
    <3> HIDE DEF fd, new, take
    <3>1. fd.Size = e.size
      BY <2>3 DEF Inside
    <3>2. CASE Inside(new, e, length)
      BY <1>3, <2>4, <3>1, <3>2 DEF Inside
    <3>3. CASE AtEnd(new, length)
      BY <1>1, <1>2, <2>4, <3>3 DEF AtEnd
    <3> QED
      BY <2>4, <3>2, <3>3 DEF Stands
  <2> QED
    BY <2>2, <2>3, <2>4, <2>5 DEF Stands, Placed, InPlace
<1> QED
  BY <1>4, <1>5

\* A file that has just been opened is at the first place of its entry.
LEMMA EnteredPlaced ==
    ASSUME NEW fd \in FileDatas, NEW e, IsEntry(e), Entered(fd, e)
    PROVE  Placed(fd, e)
<1>1. e.cluster \in 0 .. Word - 1 /\ (e.directory \/ e.size > 0 => Chained(e)) /\ e.size \in 0 .. Word - 1
  BY EntryIs
<1>2. /\ SectorSize \in Nat \ {0} /\ SectorsPerCluster \in Nat \ {0} /\ SectorSize * 0 = 0
      /\ 0 \div SectorsPerCluster = 0 /\ 0 % SectorsPerCluster = 0 /\ 0 \div SectorSize = 0
  <2>1. \A d \in Nat \ {0} : 0 \div d = 0 /\ 0 % d = 0 /\ d * 0 = 0
    OBVIOUS
  <2> QED
    BY <2>1, Numbers
<1>3. ClusterAt(e.cluster, 0) = e.cluster
  BY ClusterAtIs
<1>4. SectorAt(e.cluster, 0) = fd.Buffer
  <2>1. ClusterToLba(e.cluster) + 0 = ClusterToLba(e.cluster)
    BY <1>1, LbaType, Numbers
  <2> QED
    BY <1>2, <1>3, <2>1 DEF SectorAt, Entered
<1>7. fd.Position <= fd.Size
  BY Numbers DEF Entered, FileDatas
<1>5. CASE e.directory \/ e.size > 0
  <2>1. PICK length \in 1 .. Cardinality(DOMAIN Fat) :
          /\ \A n \in 0 .. length - 1 : ClusterAt(e.cluster, n) \in Clusters
          /\ ClusterAt(e.cluster, length) >= EndMark
          /\ e.size <= length * (SectorsPerCluster * SectorSize)
          /\ length * (SectorsPerCluster * SectorSize) < Word
    BY <1>1, <1>5 DEF Chained
  <2>2. length \in Nat \ {0}
    <3>1. Cardinality(DOMAIN Fat) \in Nat
      BY FatAssumption, FS_CardinalityType
    <3> QED
      BY <3>1
  <2>3. Chain(e, length)
    BY <2>1 DEF Chain, ClusterSize
  <2>4. 0 < length * SectorsPerCluster
    BY <1>2, <2>2
  <2>5. Inside(fd, e, length)
    BY <1>2, <1>3, <1>4, <2>4 DEF Inside, Entered
  <2> QED
    BY <1>5, <1>7, <2>2, <2>3, <2>5 DEF Placed, InPlace
<1>6. CASE ~(e.directory \/ e.size > 0)
  <2>1. e.size = 0
    BY <1>1, <1>6, Numbers
  <2> QED
    BY <1>4, <1>6, <1>7, <2>1 DEF Placed, InPlace, Entered
<1> QED
  BY <1>5, <1>6

\* A command ends, or goes on, with what it had.
LEMMA ExactSame ==
    ASSUME Exact, CacheRight(g_Data'), output' = output, found' = found, command' = command,
           (current' = current /\ g_Data' = g_Data) \/ current' \notin Handles,
           Reads' => Reads, pc' # "idle" \/ pc = "idle", failures' = 0 => failures = 0
    PROVE  Exact'
<1>1. current' \in Handles => FileData(g_Data, current)' = FileData(g_Data, current) /\ current' = current
  BY DEF FileData
<1>2. WholeFile'
  <2> SUFFICES ASSUME failures' = 0, pc' = "idle", command' = "read"
               PROVE  output = IF found = Blank \/ found.directory THEN <<>> ELSE Contents(found)
    BY DEF WholeFile, Contents, SectorAt, Blank
  <2> QED
    BY DEF Exact, WholeFile
<1>3. Reads' => current' \in Handles
  BY DEF Reads
<1> HIDE DEF Reads, WholeFile, CacheRight, Placed
<1>4. Contents(found)' = Contents(found)
  BY DEF Contents
<1> QED
  BY <1>1, <1>2, <1>3, <1>4 DEF Exact

\* Nothing is open and nothing printed at the beginning.
LEMMA ExactInit ==
    ASSUME Init
    PROVE  Exact
<1>1. g_Data.FatCachePosition = Word - 1 /\ current = NULL /\ command = "none" /\ pc = "idle"
  BY DEF Init
<1>2. NULL \notin Handles
  BY FilesDiffer DEF Files
<1> QED
  BY <1>1, <1>2 DEF Exact, CacheRight, Reads, WholeFile

\* A command that begins is in the root directory.
LEMMA ExactBegin ==
    ASSUME Exact, NEW what, NEW p, Begin(what, p)
    PROVE  Exact'
<1>1. g_Data' = g_Data /\ pc' = "walk" /\ current' = ROOT_DIRECTORY_HANDLE
  BY DEF Begin
<1>2. current' \notin Handles
  BY <1>1, FilesDiffer
<1>3. ~Reads' /\ WholeFile' /\ CacheRight(g_Data')
  BY <1>1 DEF Exact, Reads, WholeFile
<1> HIDE DEF Reads, WholeFile
<1> QED
  BY <1>2, <1>3 DEF Exact

\* Steps that change neither files nor what was printed.  What is read is read
\* from its beginning.
LEMMA ExactQuiet ==
    ASSUME Safe, Exact, NextName \/ WalkEnds \/ UsesNull \/ CallRead
    PROVE  Exact'
<1>1. /\ g_Data' = g_Data /\ current' = current /\ found' = found /\ output' = output
      /\ command' = command /\ pc' # "idle" /\ failures' = failures
  BY DEF NextName, WalkEnds, UsesNull, CallRead, walk, work
<1>2. CacheRight(g_Data')
  BY <1>1 DEF Exact
<1>3. CASE ~WalkEnds
  <2>1. Reads' => Reads
    BY <1>1, <1>3 DEF NextName, UsesNull, CallRead, Reads
  <2> QED
    BY <1>1, <1>2, <2>1, ExactSame
<1>4. CASE WalkEnds
  <2>1. pc = "walk" /\ output = <<>>
    BY <1>4 DEF WalkEnds, Safe, Printed
  <2>2. FileData(g_Data, current)' = FileData(g_Data, current)
    BY <1>1 DEF FileData
  <2>3. Reads' => output' = SubSeq(Contents(found'), 1, FileData(g_Data, current)'.Position)
    <3> SUFFICES ASSUME Reads' PROVE output' = SubSeq(Contents(found'), 1, FileData(g_Data, current)'.Position)
      OBVIOUS
    <3>1. current \in Handles
      BY <1>1 DEF Reads
    <3>2. FileData(g_Data, current).Position = 0
      BY <2>1, <3>1 DEF Safe, Held
    <3>3. SubSeq(Contents(found'), 1, 0) = <<>>
      BY SubSeqEmpty
    <3> QED
      BY <1>1, <2>1, <2>2, <3>2, <3>3
  <2>4. WholeFile'
    BY <1>1 DEF WholeFile
  <2>5. current' \in Handles => Placed(FileData(g_Data, current)', found')
    BY <1>1, <2>2 DEF Exact
  <2>6. Contents(found)' = Contents(found') /\ Placed(FileData(g_Data, current), found)' = Placed(FileData(g_Data, current)', found')
    BY DEF Contents, Placed, InPlace, Lost, Inside, AtEnd, Chain
  <2> HIDE DEF Reads, WholeFile, CacheRight, Placed
  <2> QED
    BY <1>1, <1>2, <2>3, <2>4, <2>5, <2>6 DEF Exact
<1> QED
  BY <1>3, <1>4

\* Directories are searched and listed turn by turn.
LEMMA ExactTurn ==
    ASSUME Safe, Exact, Compare \/ ListEntry, failures' = 0
    PROVE  Exact'
<1>1. /\ current \in Files /\ current' = current /\ found' = found /\ output' = output
      /\ command' = command /\ pc' # "idle" /\ ~Reads'
      /\ Limited(FileData(g_Data, current), EntrySize) = EntrySize
  BY DEF Compare, ListEntry, Safe, Typed, walk, work, Reads
<1>2. PICK r \in ReadTurn(g_Data, current, EntrySize) : Outcome(r)
  BY DEF Compare, ListEntry
<1>3. g_Data \in Datas /\ EntrySize \in Nat \ {0} /\ failures \in Nat
  BY Numbers DEF Safe, Typed, Handle, Taken
<1>4. g_Data' = r.data /\ r.failed = 0
  <2>1. r.failed \in 0 .. 2
    BY <1>1, <1>3, ReadTurnIs
  <2> QED
    BY <1>2, <1>3, <2>1 DEF Outcome
<1>5. current \in Handles =>
        /\ Placed(FileData(g_Data, current), found) /\ found.size \in Nat /\ found.directory \in BOOLEAN
        /\ FileData(g_Data, current).IsDirectory = found.directory
  <2> SUFFICES ASSUME current \in Handles
               PROVE  /\ Placed(FileData(g_Data, current), found)
                      /\ found.size \in Nat /\ found.directory \in BOOLEAN
                      /\ FileData(g_Data, current).IsDirectory = found.directory
    OBVIOUS
  <2>1. IsEntry(found) /\ FileData(g_Data, current).IsDirectory = found.directory
    BY DEF Safe, Held
  <2>2. found.size \in 0 .. Word - 1 /\ found.directory \in BOOLEAN
    BY <2>1, EntryIs
  <2> QED
    BY <2>1, <2>2 DEF Exact
<1>6. /\ CacheRight(r.data)
      /\ current \in Handles => Placed(FileData(r.data, current), found)
  <2>1. CacheRight(g_Data)
    BY DEF Exact
  <2>2. CacheRight(r.data)
    BY <1>1, <1>3, <1>4, <2>1, TurnCache
  <2>3. current \in Handles => Placed(FileData(r.data, current), found)
    BY <1>1, <1>3, <1>4, <1>5, <2>1, TurnPlaced
  <2> QED
    BY <2>2, <2>3
<1>7. FileData(g_Data, current)' = FileData(r.data, current)
  BY <1>1, <1>4 DEF FileData
<1>8. WholeFile'
  BY <1>1 DEF WholeFile
<1>9. Placed(FileData(g_Data, current), found)' = Placed(FileData(g_Data, current)', found')
  BY DEF Placed, InPlace, Lost, Inside, AtEnd, Chain
<1> HIDE DEF Reads, WholeFile, CacheRight, Placed
<1> QED
  BY <1>1, <1>4, <1>6, <1>7, <1>8, <1>9 DEF Exact

\* A name that is not found leaves no file.
LEMMA ExactNotFound ==
    ASSUME Safe, Exact, NotFound
    PROVE  Exact'
<1>1. g_Data' = Close(g_Data, current) /\ pc' = "opened" /\ current' = NULL
  BY DEF NotFound
<1>2. current' \notin Handles /\ ~Reads' /\ WholeFile'
  BY <1>1, FilesDiffer DEF Files, Reads, WholeFile
<1>3. CacheRight(g_Data')
  <2>1. SameCache(g_Data, Close(g_Data, current))
    BY CloseIs DEF Safe, Typed, Handle, Taken
  <2> QED
    BY <1>1, <2>1 DEF Exact, CacheRight, SameCache
<1> HIDE DEF Reads, WholeFile, CacheRight
<1> QED
  BY <1>2, <1>3 DEF Exact

\* A file that is opened is at its first place.
LEMMA ExactOpenFound ==
    ASSUME Safe, Exact, OpenFound
    PROVE  Exact'
<1> DEFINE closed == Close(g_Data, current)
<1>1. PICK r \in OpenEntry(closed, entry) :
         Outcome(r) /\ current' = r.file /\ found' = IF r.file = NULL THEN Blank ELSE entry
  BY DEF OpenFound
<1>2. pc' = "walk" /\ g_Data' = r.data
  BY <1>1 DEF OpenFound, Outcome
<1>3. IsEntry(entry) /\ NULL \notin Handles
  BY FilesDiffer DEF Safe, Lookup, OpenFound, Files
<1>4. closed \in Datas /\ SameCache(g_Data, closed)
  BY CloseIs DEF Safe, Typed, Handle, Taken
<1> HIDE DEF closed
<1>5. /\ r.data \in Datas /\ SameCache(closed, r.data)
      /\ r.file \in Handles => Entered(FileData(r.data, r.file), entry)
  BY <1>3, <1>4, OpenEntryIs
<1>6. CacheRight(g_Data')
  BY <1>2, <1>4, <1>5 DEF Exact, CacheRight, SameCache
<1>7. ~Reads' /\ WholeFile'
  BY <1>2 DEF Reads, WholeFile
<1>8. FileData(g_Data, current)' = FileData(r.data, r.file)
  BY <1>1, <1>2 DEF FileData
<1>9. current' \in Handles => Placed(FileData(g_Data, current)', found')
  <2> SUFFICES ASSUME current' \in Handles PROVE Placed(FileData(g_Data, current)', found')
    OBVIOUS
  <2>1. r.file \in Handles /\ r.file \in Files /\ found' = entry
    BY <1>1, <1>3 DEF Files
  <2>2. FileData(r.data, r.file) \in FileDatas
    BY <1>5, <2>1, FileDataIs
  <2>3. Placed(FileData(r.data, r.file), entry)
    BY <1>3, <1>5, <2>1, <2>2, EnteredPlaced
  <2> QED
    BY <1>8, <2>1, <2>3
<1>10. Placed(FileData(g_Data, current), found)' = Placed(FileData(g_Data, current)', found')
  BY DEF Placed, InPlace, Lost, Inside, AtEnd, Chain
<1> HIDE DEF Reads, WholeFile, CacheRight, Placed
<1> QED
  BY <1>6, <1>7, <1>9, <1>10 DEF Exact

\* A place from which nothing more can be read is the end of the file.
LEMMA PlacedDone ==
    ASSUME NEW fd \in FileDatas, NEW e, Placed(fd, e), e.size \in Nat, ~e.directory,
           fd.IsDirectory = e.directory, fd.Position <= fd.Size, fd.Size <= e.size,
           NEW count \in Nat \ {0}, Limited(fd, count) = 0
    PROVE  fd.Position = e.size
<1>1. fd.Position \in Nat /\ fd.Size \in Nat
  BY Numbers DEF FileDatas
<1>2. fd.Position = fd.Size
  BY LimitedIs
<1>3. CASE e.size > 0
  <2>1. PICK length \in Nat \ {0} :
          Chain(e, length) /\ (Inside(fd, e, length) \/ AtEnd(fd, length))
    BY <1>3 DEF Placed, InPlace, Lost
  <2>2. e.size <= length * ClusterSize /\ length * ClusterSize \in Nat
    <3>1. ClusterSize \in Nat
      BY Numbers DEF ClusterSize
    <3> QED
      BY <2>1, <3>1 DEF Chain
  <2>3. CASE Inside(fd, e, length)
    BY <1>2, <2>3 DEF Inside
  <2>4. CASE AtEnd(fd, length)
    BY <1>1, <2>2, <2>4 DEF AtEnd
  <2> QED
    BY <2>1, <2>3, <2>4
<1>4. CASE ~(e.size > 0)
  BY <1>1, <1>2, <1>4
<1> QED
  BY <1>3, <1>4

\* The contents of a file are a sequence of its size.
LEMMA ContentsIs ==
    ASSUME NEW e, e.size \in Nat
    PROVE  /\ Contents(e) \in Seq({Contents(e)[n] : n \in 1 .. e.size})
           /\ Len(Contents(e)) = e.size
           /\ \A n \in 1 .. e.size :
                Contents(e)[n] = <<SectorAt(e.cluster, n - 1), (n - 1) % SectorSize>>
<1> DEFINE c == Contents(e)
           S == {c[n] : n \in 1 .. e.size}
<1>1. c = [n \in 1 .. e.size |-> c[n]]
  BY DEF Contents
<1>2. \A n \in 1 .. e.size : c[n] = <<SectorAt(e.cluster, n - 1), (n - 1) % SectorSize>>
  BY DEF Contents
<1> HIDE DEF c
<1>3. c \in Seq(S) /\ Len(c) = e.size
  <2>1. [n \in 1 .. e.size |-> c[n]] \in Seq(S) /\ Len([n \in 1 .. e.size |-> c[n]]) = e.size
    OBVIOUS
  <2> HIDE DEF S
  <2> QED
    BY <1>1, <2>1
<1> QED
  BY <1>2, <1>3 DEF c

\* All of a sequence is the sequence.
LEMMA SubSeqAll ==
    ASSUME NEW S, NEW s \in Seq(S)
    PROVE  SubSeq(s, 1, Len(s)) = s
<1>1. Len(s) \in Nat /\ \A n \in 1 .. Len(s) : s[n] \in S
  BY LenProperties, ElementOfSeq
<1>2. /\ SubSeq(s, 1, Len(s)) \in Seq(S) /\ Len(SubSeq(s, 1, Len(s))) = Len(s)
      /\ \A n \in 1 .. Len(s) : SubSeq(s, 1, Len(s))[n] = s[n]
  <2>1. /\ SubSeq(s, 1, Len(s)) \in Seq(S)
        /\ Len(SubSeq(s, 1, Len(s))) = IF 1 <= Len(s) THEN (Len(s) - 1) + 1 ELSE 0
        /\ \A n \in 1 .. (Len(s) - 1) + 1 : SubSeq(s, 1, Len(s))[n] = s[(1 + n) - 1]
    BY <1>1, SubSeqProperties
  <2>2. (Len(s) - 1) + 1 = Len(s) /\ \A n \in 1 .. Len(s) : (1 + n) - 1 = n
    BY <1>1
  <2> QED
    BY <1>1, <2>1, <2>2
<1> QED
  BY <1>2, SeqEqual

\* What read has printed when it ends.
LEMMA PrintedAll ==
    ASSUME Safe, Exact, ReadEnds
    PROVE  output = IF found = Blank \/ found.directory THEN <<>> ELSE Contents(found)
<1> DEFINE fd == FileData(g_Data, current)
<1>1. /\ pc = "opened" /\ command = "read" /\ byteCount = 0
      /\ current # NULL /\ ~IsDirectory(current) => Limited(fd, BufferSize) = 0
  BY DEF ReadEnds
<1>2. Typed /\ Handle /\ Held /\ Printed /\ g_Data \in Datas
  BY DEF Safe, Handle, Taken
<1>3. CASE current # NULL /\ ~IsDirectory(current)
  <2>1. Reads /\ current \in Handles /\ current \in Files
    BY <1>1, <1>3, ReadsIs DEF Reads, Files
  <2>2. IsEntry(found) /\ fd.IsDirectory = found.directory /\ ~found.directory
    BY <1>2, <2>1 DEF Held, Reads
  <2>3. found # Blank /\ found.size \in Nat /\ found.directory \in BOOLEAN
    <3>1. found # Blank /\ found.size \in 0 .. Word - 1 /\ found.directory \in BOOLEAN
      BY <2>2, EntryIs
    <3> QED
      BY <3>1
  <2>4. fd \in FileDatas
    BY <1>2, <2>1, FileDataIs
  <2>5. fd.Position <= fd.Size /\ fd.Size <= found.size
    <3>1. fd.Position + byteCount <= fd.Size /\ fd.Size <= found.size
      BY <1>2, <2>1 DEF Printed
    <3> QED
      BY <1>1, <2>4, <3>1, Numbers DEF FileDatas
  <2>6. Placed(fd, found) /\ output = SubSeq(Contents(found), 1, fd.Position)
    BY <2>1 DEF Exact
  <2> HIDE DEF fd
  <2>7. fd.Position = found.size
    BY <1>1, <1>3, <2>2, <2>3, <2>4, <2>5, <2>6, PlacedDone, SizeAssumption
  <2>8. /\ Len(Contents(found)) = found.size
        /\ Contents(found) \in Seq({Contents(found)[n] : n \in 1 .. found.size})
    BY <2>3, ContentsIs
  <2>9. SubSeq(Contents(found), 1, Len(Contents(found))) = Contents(found)
    BY <2>8, SubSeqAll
  <2> QED
    BY <2>2, <2>3, <2>6, <2>7, <2>8, <2>9
<1>4. CASE ~(current # NULL /\ ~IsDirectory(current))
  <2>1. CASE current \in Handles
    <3>1. fd.IsDirectory /\ fd.IsDirectory = found.directory
      BY <1>2, <1>4, <2>1, FilesDiffer DEF Held, IsDirectory, Files
    <3>2. output = <<>>
      BY <1>2, <3>1 DEF Printed
    <3> QED
      BY <3>1, <3>2
  <2>2. CASE current \notin Handles
    <3>1. found = Blank
      BY <1>1, <1>2, <2>2 DEF Held
    <3>2. Len(output) <= 0
      BY <1>2, <3>1, BlankIs DEF Printed
    <3>3. output = <<>>
      BY <1>2, <3>2 DEF Typed
    <3> QED
      BY <3>1, <3>3
  <2> QED
    BY <2>1, <2>2
<1> QED
  BY <1>3, <1>4

\* The ways in which a command ends: read has printed the whole file.
LEMMA ExactEnds ==
    ASSUME Safe, Exact, ChangeDirectory \/ ChangeFails \/ ListEnds \/ ReadEnds, failures' = 0
    PROVE  Exact'
<1>1. /\ pc' = "idle" /\ current' = NULL /\ found' = found /\ output' = output /\ command' = command
  BY DEF ChangeDirectory, ChangeFails, ListEnds, ReadEnds, Finish
<1>2. current' \notin Handles /\ ~Reads'
  BY <1>1, FilesDiffer DEF Files, Reads
<1>3. current \in Files \cup {NULL} /\ g_Data \in Datas /\ failures \in Nat
  BY DEF Safe, Typed, Handle, Taken
<1>4. CacheRight(g_Data')
  <2>1. CASE ChangeDirectory \/ ListEnds \/ ReadEnds
    <3>1. g_Data' = Close(g_Data, current)
      BY <2>1 DEF ChangeDirectory, ListEnds, ReadEnds
    <3>2. SameCache(g_Data, Close(g_Data, current))
      BY <1>3, CloseIs
    <3> QED
      BY <3>1, <3>2 DEF Exact, CacheRight, SameCache
  <2>2. CASE ChangeFails
    <3>1. PICK r \in Initialize(g_Data) : Outcome([r EXCEPT !.data = Close(r.data, current)])
      BY <2>2 DEF ChangeFails
    <3>2. /\ r.data \in Datas /\ r.failed \in {0, 1}
          /\ r.failed = 0 => r.data.FatCachePosition = Word - 1
          /\ \A data : LET m == [r EXCEPT !.data = data] IN m.data = data /\ m.failed = r.failed
      BY <1>3, InitializeIs
    <3>3. g_Data' = Close(r.data, current) /\ failures' = failures + r.failed
      BY <3>1, <3>2 DEF Outcome
    <3>4. r.data.FatCachePosition = Word - 1
      BY <1>3, <3>2, <3>3
    <3>5. SameCache(r.data, Close(r.data, current))
      BY <1>3, <3>2, CloseIs
    <3> QED
      BY <3>3, <3>4, <3>5 DEF CacheRight, SameCache
  <2> QED
    BY <2>1, <2>2
<1>5. WholeFile'
  <2> SUFFICES ASSUME command' = "read"
               PROVE  output = IF found = Blank \/ found.directory THEN <<>> ELSE Contents(found)
    BY <1>1 DEF WholeFile, Contents, SectorAt, Blank
  <2>1. ReadEnds
    BY <1>1 DEF ChangeDirectory, ChangeFails, ListEnds
  <2> QED
    BY <2>1, PrintedAll
<1> HIDE DEF Reads, WholeFile, CacheRight
<1> QED
  BY <1>2, <1>4, <1>5 DEF Exact

\* Units copied out of the sector of a position of a file.
Copied(e, position, take, copy) ==
    /\ position \in Nat /\ take \in Nat \ {0} /\ position + take <= e.size
    /\ (position % SectorSize) + take <= SectorSize
    /\ copy \in Seq(Outputs) /\ Len(copy) = take
    /\ \A n \in 1 .. take :
         copy[n] = <<SectorAt(e.cluster, position), (position % SectorSize) + n - 1>>

\* What was printed is the file up to a position.
Shown(e, position, out) ==
    e.size \in Nat /\ out \in Seq(Outputs) /\ out = SubSeq(Contents(e), 1, position)

\* What a turn copies out of the buffer of a file are the contents that follow
\* its position.
LEMMA CopyExact ==
    ASSUME NEW e, NEW position, NEW take, NEW out, NEW copy,
           Shown(e, position, out), Copied(e, position, take, copy)
    PROVE  Shown(e, position + take, out \o copy)
<1> DEFINE c == Contents(e)
           S == {c[n] : n \in 1 .. e.size} \cup Outputs
           whole == SubSeq(c, 1, position + take)
<1> USE DEF Copied, Shown
<1>0. /\ copy \in Seq(Outputs) /\ Len(copy) = take /\ out \in Seq(Outputs)
      /\ \A n \in 1 .. take :
            copy[n] = <<SectorAt(e.cluster, position), (position % SectorSize) + n - 1>>
      /\ e.size \in Nat /\ position \in Nat /\ take \in Nat \ {0} /\ position + take <= e.size
      /\ (position % SectorSize) + take <= SectorSize /\ out = SubSeq(Contents(e), 1, position)
  OBVIOUS
<1> HIDE DEF Copied, Shown
<1>1. /\ Len(c) = e.size
      /\ \A n \in 1 .. e.size : c[n] = <<SectorAt(e.cluster, n - 1), (n - 1) % SectorSize>>
  BY <1>0, ContentsIs
<1> HIDE DEF c
<1>2. \A n \in 1 .. position + take : c[n] \in S
  BY <1>0
<1>3. /\ whole \in Seq(S) /\ Len(whole) = position + take
      /\ \A n \in 1 .. position + take : whole[n] = c[n]
  <2>1. /\ whole \in Seq(S)
        /\ Len(whole) = IF 1 <= position + take THEN ((position + take) - 1) + 1 ELSE 0
        /\ \A n \in 1 .. ((position + take) - 1) + 1 : whole[n] = c[(1 + n) - 1]
    <3> HIDE DEF S
    <3> QED
      BY <1>0, <1>2, SubSeqProperties
  <2>2. ((position + take) - 1) + 1 = position + take /\ \A n \in 1 .. position + take : (1 + n) - 1 = n
    BY <1>0
  <2> HIDE DEF S, whole
  <2> QED
    BY <1>0, <2>1, <2>2
<1>4. /\ Len(out) = position
      /\ \A n \in 1 .. position : out[n] = c[n]
  <2>1. \A n \in 1 .. position : c[n] \in S
    BY <1>0, <1>2
  <2>2. /\ Len(SubSeq(c, 1, position)) = IF 1 <= position THEN (position - 1) + 1 ELSE 0
        /\ \A n \in 1 .. (position - 1) + 1 : SubSeq(c, 1, position)[n] = c[(1 + n) - 1]
    <3> HIDE DEF S
    <3> QED
      BY <1>0, <2>1, SubSeqProperties
  <2>3. (position - 1) + 1 = position /\ \A n \in 1 .. position : (1 + n) - 1 = n
    BY <1>0
  <2>4. out = SubSeq(c, 1, position)
    BY <1>0 DEF c
  <2> HIDE DEF S
  <2> QED
    BY <1>0, <2>2, <2>3, <2>4
<1>5. ASSUME NEW n \in 1 .. take
      PROVE  copy[n] = c[position + n]
  <2> DEFINE p == (position + n) - 1
  <2>1. p \in Nat /\ position + n \in 1 .. e.size
    BY <1>0
  <2>2. p \div SectorSize = position \div SectorSize /\ p % SectorSize = (position % SectorSize) + n - 1
    <3>1. SectorSize \in Nat \ {0} /\ position % SectorSize \in Nat
      BY <1>0, Numbers, DivMod
    <3>2. CASE n = 1
      BY <1>0, <3>1, <3>2
    <3>3. CASE n # 1
      <4>1. n - 1 \in Nat \ {0} /\ (position % SectorSize) + (n - 1) < SectorSize /\ p = position + (n - 1)
        BY <1>0, <3>1, <3>3
      <4>2. AdvanceSays(position, SectorSize, n - 1)
        BY <1>0, <3>1, <4>1, Advance
      <4>3. /\ (position + (n - 1)) \div SectorSize = position \div SectorSize
            /\ (position + (n - 1)) % SectorSize = (position % SectorSize) + (n - 1)
        BY <4>1, <4>2 DEF AdvanceSays
      <4> QED
        BY <1>0, <3>1, <4>1, <4>3
    <3> QED
      BY <3>2, <3>3
  <2> HIDE DEF p
  <2>3. SectorAt(e.cluster, p) = SectorAt(e.cluster, position)
    BY <2>2 DEF SectorAt
  <2>4. c[position + n] = <<SectorAt(e.cluster, p), p % SectorSize>>
    BY <1>0, <1>1, <2>1 DEF p
  <2> QED
    BY <1>0, <2>2, <2>3, <2>4
<1>6. /\ out \o copy \in Seq(Outputs) /\ Len(out \o copy) = position + take
      /\ \A n \in 1 .. position + take :
            (out \o copy)[n] = IF n <= position THEN out[n] ELSE copy[n - position]
  <2>1. /\ out \o copy \in Seq(Outputs) /\ Len(out \o copy) = Len(out) + Len(copy)
        /\ \A n \in 1 .. Len(out) + Len(copy) :
              (out \o copy)[n] = IF n <= Len(out) THEN out[n] ELSE copy[n - Len(out)]
    BY <1>0, ConcatProperties, Zenon
  <2>2. Len(out) = position /\ Len(copy) = take
    BY <1>0, <1>4
  <2> HIDE DEF S, whole
  <2> QED
    BY <1>0, <2>1, <2>2
<1>7. \A n \in 1 .. position + take : (out \o copy)[n] = whole[n]
  <2> SUFFICES ASSUME NEW n \in 1 .. position + take PROVE (out \o copy)[n] = c[n]
    BY <1>3
  <2> HIDE DEF whole, S
  <2>1. CASE n <= position
    BY <1>0, <1>4, <1>6, <2>1
  <2>2. CASE ~(n <= position)
    <3>1. n - position \in 1 .. take /\ position + (n - position) = n
      BY <1>0, <2>2
    <3> QED
      BY <1>0, <1>5, <1>6, <2>2, <3>1
  <2> QED
    BY <2>1, <2>2
<1>8. out \o copy \in Seq(S)
  <2>1. Outputs \subseteq S
    OBVIOUS
  <2> HIDE DEF S
  <2>2. \A n \in 1 .. Len(out \o copy) : (out \o copy)[n] \in Outputs
    BY <1>6, ElementOfSeq
  <2> QED
    BY <1>6, <2>1, <2>2
<1> HIDE DEF S, whole
<1>9. out \o copy = whole /\ out \o copy \in Seq(Outputs)
  BY <1>3, <1>6, <1>7, <1>8, SeqEqual
<1> QED
  BY <1>0, <1>9 DEF whole, c, Shown

\* What read prints follows its position in the contents of the file.
LEMMA ExactCopyTurn ==
    ASSUME Safe, Exact, CopyTurn, failures' = 0
    PROVE  Exact'
<1> DEFINE fd   == FileData(g_Data, current)
           take == Take(fd, byteCount)
           copy == [n \in 1 .. take |-> <<fd.Buffer, (fd.Position % SectorSize) + n - 1>>]
<1>1. /\ pc = "opened" /\ command = "read" /\ byteCount > 0
      /\ pc' = pc /\ current' = current /\ found' = found /\ output' = output \o copy
  BY DEF CopyTurn, walk
<1>2. PICK r \in ReadTurn(g_Data, current, byteCount) : Outcome(r)
  BY DEF CopyTurn
<1>3. Typed /\ Handle /\ Held /\ Printed /\ g_Data \in Datas /\ failures \in Nat
  BY DEF Safe, Handle, Taken, Typed
<1>4. /\ Reads /\ current \in Handles /\ current \in Files /\ byteCount \in Nat \ {0}
  BY <1>1, <1>3, SizeAssumption DEF Printed, Typed, Reads, Files
<1>5. g_Data' = r.data /\ r.failed = 0
  <2>1. r.failed \in 0 .. 2
    BY <1>3, <1>4, ReadTurnIs
  <2> QED
    BY <1>2, <1>3, <2>1 DEF Outcome
<1>6. IsEntry(found) /\ fd.IsDirectory = found.directory /\ ~found.directory
  BY <1>3, <1>4 DEF Held, Reads
<1>7. found.size \in Nat /\ found.directory \in BOOLEAN
  <2>1. found.size \in 0 .. Word - 1 /\ found.directory \in BOOLEAN
    BY <1>6, EntryIs
  <2> QED
    BY <2>1
<1>8. /\ fd \in FileDatas /\ fd.Position \in Nat /\ fd.Size \in Nat
      /\ Len(output) = fd.Position /\ fd.Position + byteCount <= fd.Size /\ fd.Size <= found.size
  <2>1. fd \in FileDatas
    BY <1>3, <1>4, FileDataIs
  <2>2. Len(output) = fd.Position /\ fd.Position + byteCount <= fd.Size /\ fd.Size <= found.size
    BY <1>3, <1>4 DEF Printed
  <2> QED
    BY <2>1, <2>2, Numbers DEF FileDatas
<1>9. /\ take \in 1 .. byteCount /\ (fd.Position % SectorSize) + take <= SectorSize
      /\ fd.Position % SectorSize \in Nat
  <2>1. /\ take \in 1 .. byteCount /\ (fd.Position % SectorSize) + take <= SectorSize
        /\ fd.Position % SectorSize \in 0 .. SectorSize - 1
    BY <1>4, <1>8, TakeIs
  <2> QED
    BY <2>1
<1>10. /\ CacheRight(g_Data) /\ Placed(fd, found)
       /\ output = SubSeq(Contents(found), 1, fd.Position)
  BY <1>4 DEF Exact
<1> HIDE DEF fd, take, copy
<1>11. PICK length \in Nat \ {0} : Chain(found, length) /\ Inside(fd, found, length)
  <2>1. found.size > 0
    BY <1>4, <1>7, <1>8
  <2>2. PICK length \in Nat \ {0} :
          Chain(found, length) /\ (Inside(fd, found, length) \/ AtEnd(fd, length))
    BY <1>6, <1>10, <2>1 DEF Placed, InPlace, Lost
  <2>3. ~AtEnd(fd, length)
    BY <1>4, <1>8 DEF AtEnd
  <2> QED
    BY <2>2, <2>3
<1>12. /\ CacheRight(r.data) /\ Stands(FileData(r.data, current), found, length)
       /\ FileData(r.data, current).Position = fd.Position + take
  <2>1. fd.Position + take <= fd.Size
    BY <1>4, <1>8, <1>9
  <2> QED
    BY <1>3, <1>4, <1>5, <1>10, <1>11, <2>1, TurnExact DEF fd, take
<1>13. Placed(FileData(r.data, current), found)
  <2>1. found.size > 0
    BY <1>4, <1>7, <1>8
  <2> DEFINE new == FileData(r.data, current)
  <2>2. new.Position <= new.Size
    <3> HIDE DEF new
    <3>1. fd.Size = found.size /\ fd.Position + take <= fd.Size
      BY <1>4, <1>8, <1>9, <1>11 DEF Inside
    <3>2. Stands(new, found, length) /\ new.Position = fd.Position + take
      BY <1>12 DEF new
    <3>3. CASE Inside(new, found, length)
      BY <3>1, <3>2, <3>3 DEF Inside
    <3>4. CASE AtEnd(new, length)
      BY <1>8, <1>9, <3>2, <3>4 DEF AtEnd
    <3> QED
      BY <3>2, <3>3, <3>4 DEF Stands
  <2> QED
    BY <1>11, <1>12, <2>1, <2>2 DEF Placed, InPlace, Stands
<1>14. output \o copy = SubSeq(Contents(found), 1, fd.Position + take)
  <2>1. fd.Buffer = SectorAt(found.cluster, fd.Position)
    BY <1>11 DEF Inside
  <2>2. \A n \in 1 .. take : <<fd.Buffer, (fd.Position % SectorSize) + n - 1>> \in Outputs
    <3>1. fd.Buffer \in Int
      BY <1>8, Numbers DEF FileDatas, NoSector
    <3> SUFFICES ASSUME NEW n \in 1 .. take
                 PROVE  <<fd.Buffer, (fd.Position % SectorSize) + n - 1>> \in Outputs
      OBVIOUS
    <3>2. (fd.Position % SectorSize) + n - 1 \in Int
      BY <1>9
    <3> QED
      BY <3>1, <3>2, Zenon DEF Outputs
  <2>3. copy \in [1 .. take -> Outputs] /\ take \in Nat \ {0}
    BY <1>9, <2>2 DEF copy
  <2>4. copy \in Seq(Outputs) /\ Len(copy) = take
    BY <2>3
  <2>5. \A n \in 1 .. take :
          copy[n] = <<SectorAt(found.cluster, fd.Position), (fd.Position % SectorSize) + n - 1>>
    BY <2>1 DEF copy
  <2>6. fd.Position + take <= found.size /\ output \in Seq(Outputs)
    BY <1>3, <1>4, <1>7, <1>8, <1>9 DEF Typed
  <2>7. Copied(found, fd.Position, take, copy)
    BY <1>8, <1>9, <2>3, <2>4, <2>5, <2>6 DEF Copied
  <2>8. Shown(found, fd.Position, output)
    BY <1>7, <1>10, <2>6 DEF Shown
  <2> QED
    <3>1. Shown(found, fd.Position + take, output \o copy)
      BY <2>7, <2>8, CopyExact, Zenon
    <3> QED
      BY <3>1 DEF Shown
<1>15. FileData(g_Data, current)' = FileData(r.data, current)
  BY <1>1, <1>5 DEF FileData
<1>16. WholeFile'
  BY <1>1 DEF WholeFile
<1>17. /\ Placed(FileData(g_Data, current), found)' = Placed(FileData(g_Data, current)', found')
       /\ Contents(found)' = Contents(found')
  BY DEF Placed, InPlace, Lost, Inside, AtEnd, Chain, Contents
<1> HIDE DEF Reads, WholeFile, CacheRight, Placed
<1> QED
  BY <1>1, <1>5, <1>12, <1>13, <1>14, <1>15, <1>16, <1>17 DEF Exact

\* Every step without a failing read keeps what holds without one.
LEMMA ExactStep ==
    ASSUME Safe, Exact, [Next]_vars, failures = 0, failures' = 0
    PROVE  Exact'
<1>1. CASE CommandStep
  BY <1>1, ExactQuiet, ExactTurn, ExactNotFound, ExactOpenFound, ExactEnds, ExactCopyTurn
     DEF CommandStep
<1>2. CASE Ls \/ (\E p \in Directories : Cd(p)) \/ (\E f \in Names : Read(f))
  BY <1>2, ExactBegin DEF Ls, Cd, Read
<1>3. CASE UNCHANGED vars
  <2>1. /\ g_Data' = g_Data /\ pc' = pc /\ command' = command /\ current' = current
        /\ found' = found /\ output' = output
    BY <1>3 DEF vars, walk, work
  <2>2. Reads' => Reads
    BY <2>1 DEF Reads
  <2>3. CacheRight(g_Data')
    BY <2>1 DEF Exact
  <2> QED
    BY <2>1, <2>2, <2>3, ExactSame
<1> QED
  BY <1>1, <1>2, <1>3 DEF Next

\* A read that failed is never forgotten.
LEMMA FailuresStay ==
    ASSUME Safe, [Next]_vars, failures' = 0
    PROVE  failures = 0
<1>1. /\ failures \in Nat /\ g_Data \in Datas /\ current \in Files \cup {NULL}
      /\ byteCount \in Nat /\ EntrySize \in Nat \ {0}
  BY Numbers, SizeAssumption DEF Safe, Typed, Handle, Taken
<1>2. CASE failures' = failures
  BY <1>2
<1>3. CASE Compare \/ ListEntry
  <2>1. current \in Files
    BY <1>1, <1>3 DEF Compare, ListEntry
  <2>2. PICK r \in ReadTurn(g_Data, current, EntrySize) : Outcome(r)
    BY <1>3 DEF Compare, ListEntry
  <2>3. r.failed \in 0 .. 2
    BY <1>1, <2>1, <2>2, ReadTurnIs
  <2> QED
    BY <1>1, <2>2, <2>3 DEF Outcome
<1>4. CASE CopyTurn
  <2>1. byteCount \in Nat \ {0} /\ current \in Files
    BY <1>1, <1>4 DEF CopyTurn, Safe, Printed, Reads, Files
  <2>2. PICK r \in ReadTurn(g_Data, current, byteCount) : Outcome(r)
    BY <1>4 DEF CopyTurn
  <2>3. r.failed \in 0 .. 2
    BY <1>1, <2>1, <2>2, ReadTurnIs
  <2> QED
    BY <1>1, <2>2, <2>3 DEF Outcome
<1>5. CASE OpenFound
  <2>1. PICK r \in OpenEntry(Close(g_Data, current), entry) : Outcome(r)
    BY <1>5 DEF OpenFound
  <2>2. IsEntry(entry) /\ Close(g_Data, current) \in Datas
    BY <1>1, <1>5, CloseIs DEF OpenFound, Safe, Lookup
  <2>3. r.failed \in {0, 1}
    BY <2>1, <2>2, OpenEntryIs
  <2> QED
    BY <1>1, <2>1, <2>3 DEF Outcome
<1>6. CASE ChangeFails
  <2>1. PICK r \in Initialize(g_Data) : Outcome([r EXCEPT !.data = Close(r.data, current)])
    BY <1>6 DEF ChangeFails
  <2>2. /\ r.failed \in {0, 1}
        /\ \A data : LET m == [r EXCEPT !.data = data] IN m.data = data /\ m.failed = r.failed
    BY <1>1, <2>1, InitializeIs
  <2>3. failures' = failures + r.failed
    BY <2>1, <2>2 DEF Outcome
  <2> QED
    BY <1>1, <2>2, <2>3
<1> QED
  BY <1>2, <1>3, <1>4, <1>5, <1>6
     DEF Next, Ls, Cd, Read, Begin, CommandStep, NextName, WalkEnds, UsesNull, NotFound,
         ChangeDirectory, ListEnds, CallRead, ReadEnds, vars

\* At every state the files of a command are in order and, as long as no read
\* failed, so are the places in the chains of clusters.
THEOREM Invariance == Spec => []IInv
<1>1. Init => IInv
  BY SafeInit, ExactInit DEF IInv
<1>2. IInv /\ [Next]_vars => IInv'
  <2> SUFFICES ASSUME IInv, [Next]_vars PROVE IInv'
    OBVIOUS
  <2>1. Safe'
    BY SafeStep DEF IInv
  <2>2. ASSUME failures' = 0
        PROVE  Exact'
    <3>1. failures = 0
      BY <2>2, FailuresStay DEF IInv
    <3> QED
      BY <2>2, <3>1, ExactStep DEF IInv
  <2> QED
    BY <2>1, <2>2 DEF IInv
<1> QED
  BY <1>1, <1>2, PTL DEF Spec

\* The buffer of an open file, and of an open directory of FAT16, is the sector of
\* its position in its own chain, whatever FAT sectors were cached, as long as no
\* read failed.  (fat.cpp 247-349)
THEOREM BufferExact == Spec => []BufferAtPosition
<1>1. ASSUME IInv
      PROVE  BufferAtPosition
  <2> SUFFICES ASSUME failures = 0, NEW h \in OpenHandles,
                      Fat32 => ~g_Data.OpenedFiles[h].IsDirectory
               PROVE  LET fd == g_Data.OpenedFiles[h]
                          n  == (fd.Position \div SectorSize) \div SectorsPerCluster
                      IN  IF ChainEnd(ClusterAt(fd.FirstCluster, n))
                          THEN fd.Position > 0 /\ fd.Size <= fd.Position
                          ELSE fd.Buffer = SectorAt(fd.FirstCluster, fd.Position)
    BY DEF BufferAtPosition
  <2> DEFINE fd == g_Data.OpenedFiles[h]
             n  == (fd.Position \div SectorSize) \div SectorsPerCluster
  <2>1. Typed /\ Handle /\ Held /\ Exact /\ g_Data \in Datas
    BY <1>1 DEF IInv, Safe, Handle, Taken
  <2>2. h \in Handles /\ h = current /\ fd = FileData(g_Data, h) /\ fd \in FileDatas
    BY <2>1, FilesDiffer, FileDataIs DEF OpenHandles, Handle, Taken, Files
  <2>3. IsEntry(found) /\ fd.FirstCluster = found.cluster /\ InPlace(fd, found)
    BY <2>1, <2>2 DEF Held, Exact, Placed, Lost
  <2>4. /\ IF found.directory \/ found.size > 0 THEN Chained(found) ELSE found.cluster = 0
        /\ found.size \in 0 .. Word - 1
    BY <2>3, EntryIs
  <2>5. /\ fd.Position \in Nat /\ fd.Size \in Nat /\ SectorSize \in Nat \ {0}
        /\ SectorsPerCluster \in Nat \ {0} /\ EndMark \in Nat \ {0}
    BY <2>2, Numbers, VolumeAssumption DEF FileDatas
  <2> HIDE DEF fd
  <2>6. CASE found.directory \/ found.size > 0
    <3>1. PICK length \in Nat \ {0} :
            Chain(found, length) /\ (Inside(fd, found, length) \/ AtEnd(fd, length))
      BY <2>3, <2>6 DEF InPlace
    <3>2. CASE Inside(fd, found, length)
      <4>1. fd.Position \div SectorSize \in Nat
            /\ fd.Position \div SectorSize < length * SectorsPerCluster
            /\ fd.Buffer = SectorAt(found.cluster, fd.Position)
        BY <2>5, <3>2, DivMod DEF Inside
      <4>2. n \in Nat /\ n < length
        BY <2>5, <4>1, WithinPieces
      <4>3. n \in 0 .. length - 1
        BY <4>2
      <4>4. ClusterAt(found.cluster, n) \in Clusters
        BY <3>1, <4>3 DEF Chain
      <4>5. ~ChainEnd(ClusterAt(found.cluster, n))
        BY <2>5, <4>4, FatAssumption DEF ChainEnd, Clusters
      <4> QED
        BY <2>3, <4>1, <4>5 DEF fd
    <3>3. CASE AtEnd(fd, length)
      <4>1. fd.Position = SectorSize * (SectorsPerCluster * length)
        <5>1. \A a \in Nat, b \in Nat, c \in Nat : c * (b * a) = a * (b * c)
          OBVIOUS
        <5> QED
          BY <2>5, <3>3, <5>1 DEF AtEnd, ClusterSize
      <4>2. \A d \in Nat \ {0}, m \in Nat : (d * m) \div d = m /\ d * m \in Nat
        OBVIOUS
      <4>3. fd.Position \div SectorSize = SectorsPerCluster * length /\ SectorsPerCluster * length \in Nat
        BY <2>5, <4>1, <4>2
      <4>4. n = length
        BY <2>5, <4>2, <4>3
      <4>5. ChainEnd(ClusterAt(found.cluster, n))
        BY <3>1, <4>4 DEF Chain, ChainEnd
      <4>6. SectorsPerCluster * length > 0
        BY <2>5
      <4>7. \A d \in Nat \ {0}, m \in Nat : m > 0 => d * m > 0
        OBVIOUS
      <4>8. fd.Position > 0 /\ fd.Size <= fd.Position
        BY <2>5, <3>3, <4>1, <4>3, <4>6, <4>7 DEF AtEnd
      <4> QED
        BY <2>3, <4>5, <4>8 DEF fd
    <3> QED
      BY <3>1, <3>2, <3>3
  <2>7. CASE ~(found.directory \/ found.size > 0)
    <3>1. /\ fd.Position = 0 /\ fd.Buffer = SectorAt(found.cluster, 0) /\ found.cluster = 0
      BY <2>3, <2>4, <2>7 DEF InPlace
    <3>2. n = 0
      <4>1. \A d \in Nat \ {0} : 0 \div d = 0
        OBVIOUS
      <4> QED
        BY <2>5, <3>1, <4>1
    <3>3. ClusterAt(found.cluster, n) = 0
      BY <3>1, <3>2, ClusterAtIs
    <3> QED
      BY <2>3, <2>5, <3>1, <3>3 DEF ChainEnd, fd
  <2> QED
    BY <2>6, <2>7 DEF fd
<1> QED
  BY <1>1, Invariance, PTL

\* On FAT16 and on FAT32 read prints the file that was opened, all of it and
\* nothing else, as long as no read failed, whatever a search of a directory has
\* left in the cache.  (fat.cpp 240-349, keyboard.cpp 180-206)
THEOREM WholeFileRead == Spec => []WholeFile
<1>1. ASSUME IInv
      PROVE  WholeFile
  BY <1>1 DEF IInv, Exact, WholeFile
<1> QED
  BY <1>1, Invariance, PTL
=============================================================================
