SPECIFICATION Spec
CONSTANTS
    MemoryMaps <- MCMemoryMaps
    LowFrames = 3
    FrameBytes = 2
    LockTargets <- MCLockTargets
    IntFrames = 10
    WordFrames = 64
INVARIANTS
    TypeOK
    HintSound
    ProtectedKept
    CountersTrackBitmap
PROPERTIES
    PhantomsLast
    ImplementsPool
