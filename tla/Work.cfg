SPECIFICATION WorkSpec
CONSTANTS
    Work = {w1, w2}
    Depth <- MCDepth
    MaxRewrites <- MCMaxRewrites
    MaxFaults <- MCMaxFaults
    Branch = {a, b}
    None = None
    FileLines <- MCFileLines
    Context <- MCContext
    MaxEdits <- MCMaxEdits
    MaxLines <- MCMaxLines
SYMMETRY Same
INVARIANTS TypeOK RecordedWorkIsHeld WorkIsHeld EditsTheRightCommit OnlyWorkIsUncommitted StacksAreBlamed EditsDepend ScansSettle
PROPERTIES LeavesWithTheWorkEntered AssignIsExact
