SPECIFICATION Spec
CONSTANTS
    ASCIITable <- MCASCIITable
    LineSize = 3
    CodeBytes = {42}
    CdPrefix <- MCCdPrefix
    LastField = {1}
    PointerBytes = {0, 16}
    ShiftKeys <- MCShiftKeys
    Codes <- MCCodes
    MouseBytes = {8}
INVARIANTS
    TypeOK
    BytesInOrder
    ShiftsFollow
PROPERTIES
    ImplementsLine
    BytesFetched
