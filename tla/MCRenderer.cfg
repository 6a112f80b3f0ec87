SPECIFICATION Spec
CONSTANTS
    Columns = 2
    Rows = 5
    Chars = {"a", "b"}
    PromptLength = 1
    Output = {0, 1}
    Positions <- MCPositions
    MaxLine = 4
    MaxMoves = 2
CHECK_DEADLOCK FALSE
INVARIANTS
    LineShown
