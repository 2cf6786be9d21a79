SPECIFICATION LogSpec
CONSTANTS
    Client = {c1, c2}
    MaxLog = 4
    MaxState = 3
CHECK_DEADLOCK FALSE
PROPERTIES
    UndoUndoesTheLast
