SPECIFICATION Spec
CONSTANTS
    Fanout = 4
    MemoryFrames = 22
    Pools <- MCPools
    Framebuffers <- MCFramebuffers
    Devices <- MCDevices
    HeapBase = 191
    Garbage <- MCGarbage
CHECK_DEADLOCK FALSE
INVARIANTS
    TypeOK
    TranslationExact
    FramesAccounted
    TablesReachable
    HeapPagesPrivate
