SPECIFICATION StoresSpec
CONSTANTS
    Data = {Empty, d1, d2}
    Empty = Empty
    Missing = Missing
    Invalid = Invalid
    Idle = Idle
    Reading = Reading
    MaxTime <- MCMaxTime
    DbMayFail = FALSE
    FileMayRace = FALSE
    MaxEntries <- MCMaxEntries
    Client = {c1, c2}
    MaxLog = 5
    MaxState = 2
    Process = {p1, p2}
    Plain = Plain
    Optional = Optional
    Key = {Plain, Optional}
    Value <- MCValue
    Default <- MCDefault
    MaxChanges <- MCMaxChanges
    Null = Null
    Absent = Absent
    Broken = Broken
    NoFile = NoFile
SYMMETRY Same
INVARIANTS StoresTypeOK MirrorIsFaithful NamesTheOperation LogSurvivesTheMonth MemoryFollowsFile
PROPERTIES  ImplementsUndoStack RestoreCanBeTakenBack ImplementsAppendOnlyLog UpdatesAreExact
CHECK_DEADLOCK FALSE
