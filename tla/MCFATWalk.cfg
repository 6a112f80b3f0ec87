SPECIFICATION Spec
CONSTANTS
    SectorSize = 8
    EntrySize = 2
    BufferSize = 3
    ListLimit = 2
    MaxFileHandles = 2
    CacheSize = 2
    Word = 128
    Fat32 = FALSE
    ReservedSectors = 1
    SectorsPerFat = 3
    FatCount = 1
    SectorsPerCluster = 2
    DirEntryCount = 8
    RootCluster = 0
    EntriesPerSector = 4
    EndMark = 40
    Fat <- MCFat
    DiskSectors = 22
    Slots <- MCSlots
    Directories <- MCDirectories
    Names <- MCNames
    ShortNames <- MCShortNames
    MaxFailures = 0
CHECK_DEADLOCK FALSE
INVARIANTS
    OnlyDirectoriesSearched
