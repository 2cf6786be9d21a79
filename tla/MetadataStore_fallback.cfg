SPECIFICATION Spec
CONSTANTS
    Data = {Empty, d1}
    Empty = Empty
    Missing = Missing
    Invalid = Invalid
    Idle = Idle
    Reading = Reading
    MaxTime <- MCMaxTime
    DbMayFail = TRUE
    FileMayRace = FALSE
PROPERTIES DatabaseOutlivesFile
