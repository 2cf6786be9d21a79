SPECIFICATION HunkSpec
CONSTANTS
    Targets = {1, 2}
    BaseLines = 3
    MaxHunks = 2
    MaxNew = 2
INVARIANT LineNumbersMatch
CHECK_DEADLOCK FALSE
