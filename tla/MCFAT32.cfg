SPECIFICATION Spec
CONSTANTS
    SectorSize = 8
    EntrySize = 2
    BufferSize = 3
    ListLimit = 2
    MaxFileHandles = 2
    CacheSize = 2
    Word = 1024
    Fat32 = TRUE
    ReservedSectors = 1
    SectorsPerFat = 3
    FatCount = 1
    SectorsPerCluster = 2
    DirEntryCount = 0
    RootCluster = 2
    EntriesPerSector = 4
    EndMark = 40
    Fat <- MCFat32
    DiskSectors = 22
    Slots <- MCSlots32
    Directories <- MCRootOnly
    Names <- MCNames32
    ShortNames <- MCShortNames
    MaxFailures = 0
CHECK_DEADLOCK FALSE
PROPERTIES
    CommandEnds
