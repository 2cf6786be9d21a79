------------------------- MODULE MCSnapshotRestore -------------------------
(* A small instance of SnapshotRestore: one stack with one of two heads, one  *)
(* file with one of two contents, or none.                                    *)
EXTENDS SnapshotRestore, TLC

MCMaxLog == 3
MCMaxChanges == 2
MCPaths == {"file"}
Alike == Permutations(Commits) \cup Permutations(Contents)
=============================================================================
