SPECIFICATION RestoreSpec
CONSTANTS
    Stacks = {s1}
    Commits = {c1, c2}
    Paths <- MCPaths
    Contents = {x, y}
    None = None
    MaxLog <- MCMaxLog
    MaxChanges <- MCMaxChanges
SYMMETRY Alike
CHECK_DEADLOCK FALSE
INVARIANT RestoresTheFiles
