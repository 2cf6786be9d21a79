SPECIFICATION WorkspaceSpec
CONSTANTS
    app = app
    background = background
    cli = cli
    hooked = hooked
    p1 = p1
    p2 = p2
    h1 = h1
    NoThread = NoThread
    Outside = Outside
    Thread = {app, background, cli, hooked}
    Process = {p1, p2, h1}
    HookProcess = {h1}
    ProcOf <- MCProcOf
    MaxFailures = 1
    MaxCrashes = 1
    Workspaces <- MCWorkspaces
    Branches <- MCBranches
    WorkspaceRef = "ws"
    Trunk = "main"
    Merge = "W"
    Base = "m"
    New <- MCNew
    NoCommit = NoCommit
    MaxOps = 2
INVARIANTS
    WorkspaceTypeOK
    BranchesHoldTheirCommits
    RewritesAreTraced
    OrderedByParentage
    InProcessExclusion
    OverlapIsExcused
    FileLockNeverStale
PROPERTIES
    ImplementsPermission
    NothingIsLost
    ImplementsStacks
    NobodyWaitsForever
