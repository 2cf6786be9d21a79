--------------------------- MODULE MetadataStore ---------------------------
(* The workspace metadata lives twice: in virtual_branches.toml, which other   *)
(* tools, older versions and people edit, and in the project database.  Every  *)
(* access runs in one immediate transaction of the database that first brings  *)
(* the two in line by modification time and hash                               *)
(* (crates/but-meta/src/legacy/storage.rs).  The transaction commits after the *)
(* file was written, so that a crash may come in between.                      *)
(* Beside the accesses runs a restore of the operations log, which writes the  *)
(* file and reads it back without a transaction, and only then imports what it *)
(* has read (crates/gitbutler-oplog/src/oplog.rs).                             *)
(* A content stands for its own hash; transactions do not overlap, since       *)
(* BEGIN IMMEDIATE admits one; there is one restore at a time, under exclusive *)
(* access to the repository; MaxTime bounds the clock.                         *)
EXTENDS Naturals

CONSTANTS Data,           \* the metadata that can be stored
          Empty,          \* VirtualBranches::default()
          Missing,        \* no file
          Invalid,        \* a file that does not parse
          MaxTime,
          DbMayFail,      \* the database on disk may fail to open
          FileMayRace,    \* the file may be edited during a transaction, and
                          \* written by a restore between a write and its read back
          Idle, Reading   \* callers of the register this implements

ASSUME EmptyIsData == Empty \in Data
ASSUME NoDataIsUnreadable ==
    Missing \notin Data /\ Invalid \notin Data /\ Missing # Invalid
ASSUME MaxTimeIsNatural == MaxTime \in Nat
ASSUME FlagsAreBoolean == DbMayFail \in BOOLEAN /\ FileMayRace \in BOOLEAN
ASSUME RegisterCallers == Idle \notin Data /\ Reading \notin Data /\ Idle # Reading

VARIABLES clock,  \* what the file system stamps on a file written now
          file,   \* virtual_branches.toml: content and modification time
          db,     \* the committed row: data, and the file as last seen
          tx,     \* the access that runs
          restore \* the restore that runs, and the row it is going to import
vars == <<clock, file, db, tx, restore>>

Time == 0..MaxTime
Content == Data \cup {Missing, Invalid}
Row == [initialized : BOOLEAN, data : Data, seenAt : Time, seen : Content]
NoRow == [initialized |-> FALSE, data |-> Empty, seenAt |-> 0, seen |-> Missing]
Steps == {"idle", "sync", "mirrored", "write", "written", "commit"}
Operations == {"read", "write"}

(* The file has the right type, the row is a row, the step a step.            *)
TypeOK ==
    /\ clock \in Time
    /\ file \in [content : Content, mtime : Time]
    /\ db \in Row
    /\ tx \in [step : Steps, op : Operations, data : Data, row : Row, onDisk : BOOLEAN]
    /\ restore \in [step : {"idle", "written", "read"}, row : Row]

-----------------------------------------------------------------------------
Parses(f) == f.content \in Data

(* toml_compare: a file of the very time that was seen is newer if its hash   *)
(* differs.                                                                   *)
Newer(row, f) ==
    f.mtime > row.seenAt \/ (f.mtime = row.seenAt /\ f.content # row.seen)
Older(row, f) == f.mtime < row.seenAt

Adopts(row, f) == Parses(f) /\ (~row.initialized \/ Newer(row, f))
Mirrors(row, f) == ~Adopts(row, f) /\ (~Parses(f) \/ Older(row, f))

(* What the next reader is to see.                                            *)
InForce(row, f) == IF Adopts(row, f) THEN f.content ELSE row.data

SeenAs(d, f) == [initialized |-> TRUE, data |-> d, seenAt |-> f.mtime, seen |-> f.content]
WithData(row, d) == [initialized |-> TRUE, data |-> d, seenAt |-> row.seenAt, seen |-> row.seen]
WriteFile(d) == file' = [content |-> d, mtime |-> clock]
AfterSync == IF tx.op = "write" THEN "write" ELSE "commit"
NoTx == [step |-> "idle", op |-> "read", data |-> Empty, row |-> NoRow, onDisk |-> TRUE]
NoRestore == [step |-> "idle", row |-> NoRow]
Goto(step, row) ==
    tx' = [step |-> step, op |-> tx.op, data |-> tx.data, row |-> row, onDisk |-> tx.onDisk]

Init ==
    /\ clock = 0
    /\ file \in [content : Content, mtime : {0}]
    /\ db = NoRow
    /\ tx = NoTx
    /\ restore = NoRestore

(* read_synced_virtual_branches and write_virtual_branches_and_sync open the  *)
(* database, or, if that fails, an empty one in memory.                       *)
Begin(op, d, onDisk) ==
    /\ tx.step = "idle"
    /\ onDisk \/ DbMayFail
    /\ op = "read" => d = Empty  \* which a reader never looks at
    /\ tx' = [step |-> "sync", op |-> op, data |-> d,
              row |-> IF onDisk THEN db ELSE NoRow, onDisk |-> onDisk]
    /\ UNCHANGED <<clock, file, db, restore>>

SyncMirrorsEmpty ==  \* mutant: the file is recreated without looking at the row
    /\ tx.step = "sync"
    /\ \/ /\ Adopts(tx.row, file)
          /\ Goto(AfterSync, SeenAs(file.content, file))
          /\ UNCHANGED file
       \/ /\ ~Adopts(tx.row, file)
          /\ WriteFile(Empty)
          /\ Goto("mirrored", tx.row)
    /\ UNCHANGED <<clock, db, restore>>

(* ensure_vb_storage_in_sync *)
Sync ==
    /\ tx.step = "sync"
    /\ \/ /\ Adopts(tx.row, file)
          /\ Goto(AfterSync, SeenAs(file.content, file))
          /\ UNCHANGED file
       \/ /\ Mirrors(tx.row, file)
          /\ WriteFile(tx.row.data)
          /\ Goto("mirrored", tx.row)
       \/ /\ ~Adopts(tx.row, file) /\ ~Mirrors(tx.row, file)
          /\ Goto(AfterSync, tx.row)
          /\ UNCHANGED file
    /\ UNCHANGED <<clock, db, restore>>

(* The second half of write_toml reads back what is to be remembered.         *)
ReadBack ==
    /\ tx.step \in {"mirrored", "written"}
    /\ file.content # Missing
    /\ Goto(IF tx.step = "mirrored" THEN AfterSync ELSE "commit", SeenAs(tx.row.data, file))
    /\ UNCHANGED <<clock, file, db, restore>>

WriteFileOnly ==  \* mutant: the new data does not reach the row
    /\ tx.step = "write"
    /\ WriteFile(tx.data)
    /\ Goto("written", tx.row)
    /\ UNCHANGED <<clock, db, restore>>

Write ==
    /\ tx.step = "write"
    /\ WriteFile(tx.data)
    /\ Goto("written", WithData(tx.row, tx.data))
    /\ UNCHANGED <<clock, db, restore>>

Commit ==
    /\ tx.step = "commit"
    /\ db' = IF tx.onDisk THEN tx.row ELSE db
    /\ tx' = NoTx
    /\ UNCHANGED <<clock, file, restore>>

(* An error, or the end of the process: the transaction is rolled back.       *)
Abort ==
    /\ tx.step # "idle"
    /\ tx' = NoTx
    /\ UNCHANGED <<clock, file, db, restore>>

(* restore_legacy_metadata_from_toml writes the file, ...                     *)
RestoreFile(d) ==
    /\ restore.step = "idle"
    /\ FileMayRace \/ tx.step \notin {"mirrored", "written"}
    /\ WriteFile(d)
    /\ restore' = [step |-> "written", row |-> NoRow]
    /\ UNCHANGED <<clock, db, tx>>

(* ... import_toml_into_db reads whatever is in the file by now, ...          *)
ReadRestored ==
    /\ restore.step = "written" /\ Parses(file)
    /\ restore' = [step |-> "read", row |-> SeenAs(file.content, file)]
    /\ UNCHANGED <<clock, file, db, tx>>

(* ... and in a transaction of its own makes it the row, whatever that was.   *)
Import(onDisk) ==
    /\ restore.step = "read" /\ tx.step = "idle"
    /\ onDisk \/ DbMayFail
    /\ db' = IF onDisk THEN restore.row ELSE db
    /\ restore' = NoRestore
    /\ UNCHANGED <<clock, file, tx>>

(* An error, a file that does not parse, or the end of the process.           *)
RestoreFails ==
    /\ restore.step # "idle"
    /\ restore' = NoRestore
    /\ UNCHANGED <<clock, file, db, tx>>

(* Whoever else writes the file may also set its time back, as a backup does, *)
(* but not ahead of the clock.                                                *)
Editor(c, t) ==
    /\ FileMayRace \/ tx.step = "idle"
    /\ t <= clock
    /\ file' = [content |-> c, mtime |-> t]
    /\ UNCHANGED <<clock, db, tx, restore>>

Tick == clock < MaxTime /\ clock' = clock + 1 /\ UNCHANGED <<file, db, tx, restore>>

Next ==
    \/ \E op \in Operations, d \in Data, onDisk \in BOOLEAN : Begin(op, d, onDisk)
    \/ Sync \/ ReadBack \/ Write \/ Commit \/ Abort
    \/ \E d \in Data : RestoreFile(d)
    \/ ReadRestored \/ RestoreFails
    \/ \E onDisk \in BOOLEAN : Import(onDisk)
    \/ \E c \in Content, t \in Time : Editor(c, t)
    \/ Tick

Spec == Init /\ [][Next]_vars

-----------------------------------------------------------------------------
(* A file that is taken for the one last seen holds the data of the database: *)
(* otherwise the two differ for good, and nothing would ever notice.          *)
MirrorIsFaithful ==
    db.initialized /\ file.mtime = db.seenAt /\ file.content = db.seen /\ Parses(file)
        => file.content = db.data

(* An access commits what is in force already, and what the file says: to     *)
(* whoever comes next it makes no difference whether the process died before  *)
(* it committed, and whether a restore has written the file meanwhile.        *)
CommitsWhatIsInForce ==
    [][Commit => InForce(db', file') = file.content /\ InForce(db, file) = file.content]_vars

(* A missing or broken file never costs the metadata the database holds       *)
(* (storage.rs:20-21, "TOML is rewritten from DB state", "it is recreated     *)
(* from DB state"): only a writer or a restore replaces it.                   *)
DatabaseOutlivesFile ==
    [][db.initialized /\ ~Parses(file) /\ tx.op = "read" /\ tx.step # "idle" /\ UNCHANGED restore
        => InForce(db', file') = db.data]_vars

(* Whatever order files, rows and crashes come in, callers see one value; and *)
(* a restore ends with what it was given in force, or with what was written   *)
(* over it since.                                                             *)
CallerNow == IF tx.step = "idle" THEN Idle ELSE IF tx.op = "read" THEN Reading ELSE tx.data
Offered ==
    IF restore.step = "idle" THEN {}
    ELSE {InForce(db, file)} \cup ({file.content} \cap Data)
         \cup (IF restore.step = "read" THEN {restore.row.data} ELSE {})
Register == INSTANCE MetadataRegister WITH
    value <- InForce(db, file), caller <- CallerNow, offered <- Offered
ImplementsRegister == Register!Spec
=============================================================================
