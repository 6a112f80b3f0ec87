SPECIFICATION MouseSpec
CONSTANTS
    Heads <- MCHeads
    Motions = {0, 1, 255}
    MaxX = 2
    MaxY = 1
    MaxLost = 2
INVARIANTS
    TypeOK
    Resynchronises
PROPERTIES
    PointerFollows
