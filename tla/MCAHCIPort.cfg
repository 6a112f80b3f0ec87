SPECIFICATION Spec
CONSTANTS
    Byte = 2
    Sectors <- MCSectors
    Counts = {1, 5}
    Slots = 3
    SlotsPerPage = 2
    SpinLimit = 2
    MaxFailures = 1
INVARIANTS
    TypeOK
PROPERTIES
    EnginesRest
    ImplementsReader
    CallsReturn
