SPECIFICATION SnapshotSpec
CONSTANT MaxEntries <- MCMaxEntries
INVARIANT SnapshotsSurvive
CHECK_DEADLOCK FALSE
