SPECIFICATION WorktreeSpec
CONSTANTS
    Stacks = {s1}
    Commits = {c1, c2}
    Paths <- MCPaths
    Contents = {x, y}
    None = None
    MaxLog <- MCMaxLog
    MaxChanges <- MCMaxChanges
    one = one
    another = another
    ignored = ignored
    Names <- MCNames
    Ignored <- MCIgnored
    FlushAfter = 2
    MaxEvents = 3
SYMMETRY Same
CHECK_DEADLOCK FALSE
INVARIANTS WorktreeTypeOK RestoresTheSnapshot RestoresTheBranches CanBeTakenBack RefusalLeavesWork ToldInTime
