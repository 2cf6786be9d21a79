--------------------------- MODULE MCSnapshotStore ---------------------------
(* A small instance of SnapshotStore: four calls, in which months may pass.   *)
EXTENDS SnapshotStore

MCMaxEntries == 4
=============================================================================
