SPECIFICATION FairSpec
CONSTANTS
    Files <- MCFiles
    Private <- MCPrivate
    GitFiles <- MCGitFiles
INVARIANTS TypeOK Accounted
PROPERTIES Reported
