SPECIFICATION AssignmentSpec
CONSTANTS
    Branch = {a}
    None = None
    FileLines = 6
    Context = 1
    MaxEdits = 2
    MaxLines = 3
PROPERTY HunksKeepTheirBranch
