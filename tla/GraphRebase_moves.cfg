SPECIFICATION RebaseSpec
CONSTANTS
    Workspaces <- MCMerged
    Branches <- MCBranches
    WorkspaceRef = "ws"
    Trunk = "main"
    Merge = "W"
    Base = "m"
    New <- MCNew
    NoCommit = NoCommit
    MaxOps = 2
CHECK_DEADLOCK FALSE
PROPERTY MovedCommitsStay
