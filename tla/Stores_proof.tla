---------------------------- MODULE Stores_proof -----------------------------
(* Proofs about the files that the program keeps beside the repository, each   *)
(* a component of its own: MetadataStore, SnapshotStore and Settings, for any  *)
(* sets of data, processes and settings and any number of calls.  What they    *)
(* rest on for Oplog is in Oplog_proof.                                        *)
EXTENDS MCStores, Oplog_proof, SequenceTheorems, TLAPS

-----------------------------------------------------------------------------
(* Proofs about MetadataStore, for every set of data and every MaxTime, when  *)
(* the database opens and no one else writes the file between a write and its *)
(* read back, nor edits it during an access.                                  *)

Undisturbed == DbMayFail = FALSE /\ FileMayRace = FALSE

(* The data of a row is what the file held when it was seen last; a writer    *)
(* looks at the file only after it has written it.                            *)
Faithful(row) ==
    IF row.initialized THEN row.seen = row.data ELSE row = NoRow
FaithfulRows ==
    Faithful(db) /\ (tx.step # "written" => Faithful(tx.row)) /\ Faithful(restore.row)

(* Nothing is stamped ahead of the clock.                                     *)
PastOnly ==
    file.mtime <= clock /\ db.seenAt <= clock /\ tx.row.seenAt <= clock /\ restore.row.seenAt <= clock

(* The row and the file say the same.                                         *)
SyncedRow(row) ==
    row.initialized /\ row.seenAt = file.mtime /\ row.seen = file.content /\ row.data = file.content

(* What the file says is in force, for the row and for whoever reads next.    *)
FileInForce(row) ==
    /\ Parses(file) /\ row.initialized
    /\ InForce(db, file) = file.content /\ InForce(row, file) = file.content

(* What each step of an access has established, whatever a restore has        *)
(* written since.                                                             *)
StepKnows ==
    /\ tx.onDisk
    /\ tx.step \in {"sync", "mirrored"} => tx.row = db
    /\ tx.step = "mirrored" => file.content = tx.row.data /\ InForce(db, file) = file.content
    /\ tx.step \in {"write", "written"} => tx.op = "write"
    /\ tx.step = "written" =>
           file.content = tx.data /\ tx.row.data = tx.data /\ InForce(db, file) = file.content
    /\ tx.step = "commit" => FileInForce(tx.row)

MetadataInv == TypeOK /\ FaithfulRows /\ PastOnly /\ StepKnows

(* A file written now is in force, whatever the row has seen: it is newer, or *)
(* it is what was seen.                                                       *)
LEMMA WrittenIsInForce ==
    ASSUME NEW row \in Row, NEW f \in [content : Content, mtime : Time],
           Faithful(row), Parses(f), f.mtime >= row.seenAt
    PROVE  InForce(row, f) = f.content
  BY MaxTimeIsNatural, EmptyIsData, NoDataIsUnreadable
     DEF InForce, Adopts, Newer, Parses, Faithful, Row, Content, NoRow, Time

(* A row that says the same as the file is in force.                          *)
LEMMA SyncedIsInForce ==
    ASSUME NEW row \in Row, NEW f \in [content : Content, mtime : Time],
           row.initialized, row.seenAt = f.mtime, row.seen = f.content
    PROVE  InForce(row, f) = row.data
  BY MaxTimeIsNatural DEF InForce, Adopts, Newer, Row, Time

(* What a sync leaves alone or mirrors was not in force, and what it mirrors  *)
(* is.                                                                        *)
LEMMA NotAdopted ==
    ASSUME NEW row \in Row, NEW f \in [content : Content, mtime : Time], ~Adopts(row, f)
    PROVE  InForce(row, f) = row.data
  BY DEF InForce

-----------------------------------------------------------------------------
(* Types, and what each step knows, hold in every reachable state.            *)
LEMMA MetadataInitInv == Undisturbed /\ Init => MetadataInv
  BY EmptyIsData, NoDataIsUnreadable, MaxTimeIsNatural
     DEF Init, MetadataInv, TypeOK, Faithful, FaithfulRows, PastOnly, StepKnows, NoRow, NoTx, NoRestore,
         Row, Time, Content, Steps, Operations

LEMMA RowsAreTyped ==
    ASSUME NEW row \in Row, NEW f \in [content : Content, mtime : Time], NEW d \in Data
    PROVE  /\ SeenAs(d, f) \in Row /\ WithData(row, d) \in Row
           /\ NoRow \in Row /\ Faithful(NoRow) /\ NoRow.seenAt = 0
  BY EmptyIsData, MaxTimeIsNatural DEF SeenAs, WithData, Row, NoRow, Faithful, Time, Content

(* What is written to the file now is in force for every row that was seen.   *)
LEMMA WriteIsInForce ==
    ASSUME MetadataInv, NEW d \in Data, WriteFile(d), NEW row \in Row, Faithful(row), row.seenAt <= clock
    PROVE  InForce(row, file') = d /\ file'.content = d /\ file'.mtime = clock
           /\ file' \in [content : Content, mtime : Time] /\ Parses(file')
  <1>1. file' = [content |-> d, mtime |-> clock] /\ clock \in Time /\ row.seenAt \in Time
    BY DEF WriteFile, MetadataInv, TypeOK, Row
  <1>2. /\ file' \in [content : Content, mtime : Time] /\ file'.mtime = clock /\ file'.content = d
        /\ Parses(file') /\ file'.mtime >= row.seenAt
    BY <1>1, MaxTimeIsNatural DEF Content, Parses, Time
  <1> QED
    BY <1>2, WrittenIsInForce

(* What an access knows stays true while neither it nor the file moves.       *)
LEMMA KnowledgeStays ==
    ASSUME StepKnows, UNCHANGED <<file, db, tx>>
    PROVE  StepKnows'
  <1>1. InForce(db, file)' = InForce(db, file) /\ InForce(tx.row, file)' = InForce(tx.row, file)
    BY DEF InForce, Adopts, Newer, Parses
  <1>2. FileInForce(tx.row) => FileInForce(tx.row)'
    BY <1>1 DEF FileInForce, Parses
  <1> QED
    BY <1>1, <1>2 DEF StepKnows

LEMMA MetadataStepInv == Undisturbed /\ MetadataInv /\ [Next]_vars => MetadataInv'
  <1> SUFFICES ASSUME Undisturbed, MetadataInv, [Next]_vars PROVE MetadataInv'
    OBVIOUS
  <1> USE MaxTimeIsNatural, EmptyIsData, NoDataIsUnreadable
  <1>0. /\ clock \in Time /\ db \in Row /\ tx.row \in Row /\ tx.data \in Data /\ restore.row \in Row
        /\ file \in [content : Content, mtime : Time]
        /\ file.content \in Content /\ file.mtime \in Time /\ tx.step \in Steps
        /\ tx.op \in Operations /\ tx.onDisk \in BOOLEAN /\ restore.step \in {"idle", "written", "read"}
        /\ clock \in Nat /\ file.mtime <= clock
    BY DEF MetadataInv, TypeOK, Row, Time, PastOnly
  <1>n. NoRow \in Row /\ Faithful(NoRow) /\ NoRow.seenAt = 0
    BY RowsAreTyped, <1>0
  <1>t. NoTx \in [step : Steps, op : Operations, data : Data, row : Row, onDisk : BOOLEAN]
        /\ NoTx.row = NoRow /\ NoTx.step = "idle" /\ NoTx.onDisk
    BY <1>n DEF NoTx, Steps, Operations
  <1>r. NoRestore \in [step : {"idle", "written", "read"}, row : Row] /\ NoRestore.row = NoRow
    BY <1>n DEF NoRestore
  <1>g. ASSUME NEW next \in Steps, NEW row \in Row, Goto(next, row)
        PROVE  /\ tx' \in [step : Steps, op : Operations, data : Data, row : Row, onDisk : BOOLEAN]
               /\ tx'.step = next /\ tx'.row = row /\ tx'.op = tx.op /\ tx'.data = tx.data /\ tx'.onDisk = tx.onDisk
    BY <1>0, <1>g DEF Goto
  <1>s. AfterSync \in {"write", "commit"} /\ (AfterSync = "write" => tx.op = "write") /\ AfterSync \in Steps
    BY DEF AfterSync, Steps
  <1>i. ASSUME UNCHANGED <<file, db>>
        PROVE  /\ InForce(db, file)' = InForce(db, file)
               /\ InForce(tx.row, file)' = InForce(tx'.row, file)
               /\ Parses(file)' = Parses(file)
    BY <1>i DEF InForce, Adopts, Newer, Parses
  <1>k. ASSUME UNCHANGED <<file, db>>, Parses(file), InForce(db, file) = file.content,
               InForce(tx'.row, file) = file.content, tx'.row.initialized
        PROVE  FileInForce(tx.row)'
    BY <1>k, <1>i DEF FileInForce
  <1>1. ASSUME NEW op \in Operations, NEW d \in Data, NEW onDisk \in BOOLEAN, Begin(op, d, onDisk)
        PROVE  MetadataInv'
    <2>1. onDisk = TRUE /\ UNCHANGED <<clock, file, db, restore>>
          /\ tx' = [step |-> "sync", op |-> op, data |-> d, row |-> db, onDisk |-> TRUE]
      BY <1>1 DEF Begin, Undisturbed
    <2>2. TypeOK'
      BY <1>0, <2>1 DEF MetadataInv, TypeOK, Steps
    <2>3. FaithfulRows'
      BY <2>1 DEF MetadataInv, FaithfulRows, Faithful
    <2>4. PastOnly'
      BY <2>1 DEF MetadataInv, PastOnly
    <2>5. StepKnows'
      BY <2>1 DEF StepKnows
    <2> QED
      BY <2>2, <2>3, <2>4, <2>5 DEF MetadataInv
  <1>2. CASE Sync
    <2>0. tx.row = db /\ tx.onDisk /\ Faithful(db) /\ UNCHANGED <<clock, db, restore>> /\ db.seenAt <= clock
      BY <1>2 DEF Sync, MetadataInv, StepKnows, FaithfulRows, PastOnly
    <2>1. CASE Adopts(tx.row, file) /\ UNCHANGED file /\ Goto(AfterSync, SeenAs(file.content, file))
      <3>1. file.content \in Data /\ InForce(db, file) = file.content /\ Parses(file)
        BY <2>0, <2>1 DEF Adopts, Parses, InForce
      <3>2. /\ SeenAs(file.content, file) \in Row /\ SeenAs(file.content, file).seenAt = file.mtime
            /\ SeenAs(file.content, file).initialized /\ SeenAs(file.content, file).seen = file.content
            /\ SeenAs(file.content, file).data = file.content /\ Faithful(SeenAs(file.content, file))
        BY <1>0, <3>1, RowsAreTyped DEF SeenAs, Faithful
      <3>3. InForce(SeenAs(file.content, file), file) = file.content
        BY <1>0, <3>2, SyncedIsInForce
      <3>4. /\ tx' \in [step : Steps, op : Operations, data : Data, row : Row, onDisk : BOOLEAN]
            /\ tx'.step = AfterSync /\ tx'.row = SeenAs(file.content, file) /\ tx'.op = tx.op /\ tx'.onDisk
        BY <1>g, <1>s, <2>0, <2>1, <3>2
      <3>5. FileInForce(tx.row)'
        BY <1>k, <2>0, <2>1, <3>1, <3>2, <3>3, <3>4
      <3>6. TypeOK'
        BY <2>0, <2>1, <3>4 DEF MetadataInv, TypeOK
      <3>7. FaithfulRows'
        BY <2>0, <3>2, <3>4 DEF MetadataInv, FaithfulRows, Faithful
      <3>8. PastOnly'
        BY <2>0, <2>1, <3>2, <3>4 DEF MetadataInv, PastOnly
      <3>9. StepKnows'
        BY <1>s, <3>4, <3>5 DEF StepKnows
      <3> QED
        BY <3>6, <3>7, <3>8, <3>9 DEF MetadataInv
    <2>2. CASE WriteFile(tx.row.data) /\ Goto("mirrored", tx.row)
      <3>1. db.data \in Data /\ WriteFile(db.data)
        BY <1>0, <2>0, <2>2 DEF Row
      <3>2. /\ InForce(db, file') = db.data /\ file'.content = db.data /\ file'.mtime = clock
            /\ file' \in [content : Content, mtime : Time]
        BY <1>0, <2>0, <3>1, WriteIsInForce
      <3>3. InForce(db, file)' = db.data
        BY <2>0, <3>2 DEF InForce, Adopts, Newer, Parses
      <3>4. /\ tx' \in [step : Steps, op : Operations, data : Data, row : Row, onDisk : BOOLEAN]
            /\ tx'.step = "mirrored" /\ tx'.row = db /\ tx'.onDisk
        BY <1>0, <1>g, <2>0, <2>2 DEF Steps
      <3>5. TypeOK'
        BY <2>0, <3>2, <3>4 DEF MetadataInv, TypeOK
      <3>6. FaithfulRows'
        BY <2>0, <3>4 DEF MetadataInv, FaithfulRows, Faithful
      <3>7. PastOnly'
        BY <1>0, <2>0, <3>2, <3>4 DEF MetadataInv, PastOnly
      <3>8. StepKnows'
        BY <2>0, <3>2, <3>3, <3>4 DEF StepKnows
      <3> QED
        BY <3>5, <3>6, <3>7, <3>8 DEF MetadataInv
    <2>3. CASE ~Adopts(tx.row, file) /\ ~Mirrors(tx.row, file) /\ Goto(AfterSync, tx.row) /\ UNCHANGED file
      <3>1. SyncedRow(db) /\ Parses(file)
        BY <1>0, <2>0, <2>3 DEF Adopts, Mirrors, Newer, Older, SyncedRow, Faithful, Row, Time, NoRow
      <3>2. InForce(db, file) = file.content /\ db.initialized
        BY <1>0, <2>0, <2>3, <3>1, NotAdopted DEF SyncedRow
      <3>3. /\ tx' \in [step : Steps, op : Operations, data : Data, row : Row, onDisk : BOOLEAN]
            /\ tx'.step = AfterSync /\ tx'.row = db /\ tx'.op = tx.op /\ tx'.onDisk
        BY <1>0, <1>g, <1>s, <2>0, <2>3
      <3>4. FileInForce(tx.row)'
        BY <1>k, <2>0, <2>3, <3>1, <3>2, <3>3
      <3>5. TypeOK'
        BY <2>0, <2>3, <3>3 DEF MetadataInv, TypeOK
      <3>6. FaithfulRows'
        BY <2>0, <3>3 DEF MetadataInv, FaithfulRows, Faithful
      <3>7. PastOnly'
        BY <2>0, <2>3, <3>3 DEF MetadataInv, PastOnly
      <3>8. StepKnows'
        BY <1>s, <3>3, <3>4 DEF StepKnows
      <3> QED
        BY <3>5, <3>6, <3>7, <3>8 DEF MetadataInv
    <2> QED
      BY <1>2, <2>1, <2>2, <2>3 DEF Sync
  <1>3. CASE ReadBack
    <2>1. /\ file.content = tx.row.data /\ tx.onDisk /\ UNCHANGED <<clock, file, db, restore>>
          /\ InForce(db, file) = file.content /\ tx.step \in {"mirrored", "written"}
          /\ file.content \in Data /\ Parses(file)
      BY <1>0, <1>3 DEF ReadBack, MetadataInv, StepKnows, Parses, Row
    <2>2. /\ SeenAs(tx.row.data, file) \in Row /\ SeenAs(tx.row.data, file).seenAt = file.mtime
          /\ SeenAs(tx.row.data, file).initialized /\ SeenAs(tx.row.data, file).seen = file.content
          /\ SeenAs(tx.row.data, file).data = file.content /\ Faithful(SeenAs(tx.row.data, file))
      BY <1>0, <2>1, RowsAreTyped DEF SeenAs, Faithful
    <2>3. InForce(SeenAs(tx.row.data, file), file) = file.content
      BY <1>0, <2>2, SyncedIsInForce
    <2>4. PICK next \in {"write", "commit"} :
              Goto(next, SeenAs(tx.row.data, file)) /\ (next = "write" => tx.op = "write")
      BY <1>3, <1>s, <2>1 DEF ReadBack
    <2>5. /\ tx' \in [step : Steps, op : Operations, data : Data, row : Row, onDisk : BOOLEAN]
          /\ tx'.step = next /\ tx'.row = SeenAs(tx.row.data, file) /\ tx'.op = tx.op /\ tx'.onDisk
      BY <1>g, <2>1, <2>2, <2>4 DEF Steps
    <2>6. FileInForce(tx.row)'
      BY <1>k, <2>1, <2>2, <2>3, <2>5
    <2>7. TypeOK'
      BY <2>1, <2>5 DEF MetadataInv, TypeOK
    <2>8. FaithfulRows'
      BY <2>1, <2>2, <2>5 DEF MetadataInv, FaithfulRows, Faithful
    <2>9. PastOnly'
      BY <2>1, <2>2, <2>5 DEF MetadataInv, PastOnly
    <2>10. StepKnows'
      BY <2>4, <2>5, <2>6 DEF StepKnows
    <2> QED
      BY <2>7, <2>8, <2>9, <2>10 DEF MetadataInv
  <1>4. CASE Write
    <2>1. /\ WriteFile(tx.data) /\ tx.step = "write" /\ tx.op = "write" /\ UNCHANGED <<clock, db, restore>> /\ tx.onDisk
          /\ Goto("written", WithData(tx.row, tx.data)) /\ Faithful(db) /\ db.seenAt <= clock
      BY <1>4 DEF Write, MetadataInv, FaithfulRows, PastOnly, StepKnows
    <2>2. /\ WithData(tx.row, tx.data) \in Row /\ WithData(tx.row, tx.data).data = tx.data
          /\ WithData(tx.row, tx.data).seenAt = tx.row.seenAt
      BY <1>0, RowsAreTyped DEF WithData
    <2>3. /\ InForce(db, file') = tx.data /\ file'.content = tx.data /\ file'.mtime = clock
          /\ file' \in [content : Content, mtime : Time]
      BY <1>0, <2>1, WriteIsInForce
    <2>4. InForce(db, file)' = tx.data
      BY <2>1, <2>3 DEF InForce, Adopts, Newer, Parses
    <2>5. /\ tx' \in [step : Steps, op : Operations, data : Data, row : Row, onDisk : BOOLEAN]
          /\ tx'.step = "written" /\ tx'.row = WithData(tx.row, tx.data)
          /\ tx'.op = tx.op /\ tx'.data = tx.data /\ tx'.onDisk
      BY <1>g, <2>1, <2>2 DEF Steps
    <2>6. TypeOK'
      BY <2>1, <2>3, <2>5 DEF MetadataInv, TypeOK
    <2>7. FaithfulRows'
      BY <2>1, <2>5 DEF MetadataInv, FaithfulRows, Faithful
    <2>8. PastOnly'
      BY <1>0, <2>1, <2>2, <2>3, <2>5 DEF MetadataInv, PastOnly
    <2>9. StepKnows'
      BY <2>1, <2>2, <2>3, <2>4, <2>5 DEF StepKnows
    <2> QED
      BY <2>6, <2>7, <2>8, <2>9 DEF MetadataInv
  <1>e. ASSUME UNCHANGED <<clock, file>>, tx' = NoTx, UNCHANGED restore, db' \in Row, Faithful(db'), db'.seenAt <= clock
        PROVE  MetadataInv'
    <2>1. TypeOK'
      BY <1>e, <1>t DEF MetadataInv, TypeOK
    <2>2. FaithfulRows'
      BY <1>e, <1>n, <1>t DEF MetadataInv, FaithfulRows, Faithful
    <2>3. PastOnly'
      BY <1>0, <1>e, <1>n, <1>t DEF MetadataInv, PastOnly
    <2>4. StepKnows'
      BY <1>e, <1>t DEF StepKnows
    <2> QED
      BY <2>1, <2>2, <2>3, <2>4 DEF MetadataInv
  <1>5. CASE Commit
    <2>1. tx.step = "commit" /\ tx.onDisk /\ db' = tx.row
      BY <1>5 DEF Commit, MetadataInv, StepKnows
    <2>2. Faithful(tx.row) /\ tx.row.seenAt <= clock
      BY <2>1 DEF MetadataInv, FaithfulRows, PastOnly
    <2> QED
      BY <1>0, <1>5, <1>e, <2>1, <2>2 DEF Commit
  <1>6. CASE Abort
    <2>1. Faithful(db) /\ db.seenAt <= clock
      BY DEF MetadataInv, FaithfulRows, PastOnly
    <2> QED
      BY <1>0, <1>6, <1>e, <2>1 DEF Abort
  <1>7. ASSUME NEW d \in Data, RestoreFile(d)
        PROVE  MetadataInv'
    <2>1. /\ WriteFile(d) /\ tx.step \notin {"mirrored", "written"} /\ UNCHANGED <<clock, db, tx>>
          /\ restore' = [step |-> "written", row |-> NoRow]
      BY <1>7 DEF RestoreFile, Undisturbed
    <2>2. Faithful(db) /\ Faithful(tx.row) /\ db.seenAt <= clock /\ tx.row.seenAt <= clock
      BY <2>1 DEF MetadataInv, FaithfulRows, PastOnly
    <2>3. /\ InForce(db, file') = d /\ file'.content = d /\ file'.mtime = clock
          /\ file' \in [content : Content, mtime : Time] /\ Parses(file')
      BY <1>0, <2>1, <2>2, WriteIsInForce
    <2>4. InForce(tx.row, file') = d
      BY <1>0, <2>1, <2>2, WriteIsInForce
    <2>5. InForce(db, file)' = d /\ InForce(tx.row, file)' = d /\ Parses(file)'
      BY <2>1, <2>3, <2>4 DEF InForce, Adopts, Newer, Parses
    <2>6. TypeOK'
      BY <1>n, <2>1, <2>3 DEF MetadataInv, TypeOK
    <2>7. FaithfulRows'
      BY <1>n, <2>1 DEF MetadataInv, FaithfulRows, Faithful
    <2>8. PastOnly'
      BY <1>0, <1>n, <2>1, <2>3 DEF MetadataInv, PastOnly
    <2>9. StepKnows'
      BY <2>1, <2>3, <2>5 DEF MetadataInv, StepKnows, FileInForce
    <2> QED
      BY <2>6, <2>7, <2>8, <2>9 DEF MetadataInv
  <1>8. CASE ReadRestored
    <2>1. UNCHANGED <<clock, file, db, tx>> /\ Parses(file) /\ file.content \in Data
          /\ restore' = [step |-> "read", row |-> SeenAs(file.content, file)]
      BY <1>8 DEF ReadRestored, Parses
    <2>2. /\ SeenAs(file.content, file) \in Row /\ SeenAs(file.content, file).seenAt = file.mtime
          /\ Faithful(SeenAs(file.content, file))
      BY <1>0, <2>1, RowsAreTyped DEF SeenAs, Faithful
    <2>3. TypeOK'
      BY <2>1, <2>2 DEF MetadataInv, TypeOK
    <2>4. FaithfulRows'
      BY <2>1, <2>2 DEF MetadataInv, FaithfulRows, Faithful
    <2>5. PastOnly'
      BY <2>1, <2>2 DEF MetadataInv, PastOnly
    <2>6. StepKnows'
      BY <2>1, KnowledgeStays DEF MetadataInv
    <2> QED
      BY <2>3, <2>4, <2>5, <2>6 DEF MetadataInv
  <1>f. ASSUME UNCHANGED <<clock, file, tx>>, restore' = NoRestore, tx.step = "idle" \/ UNCHANGED db,
               db' \in Row, Faithful(db'), db'.seenAt <= clock
        PROVE  MetadataInv'
    <2>1. TypeOK'
      BY <1>f, <1>r DEF MetadataInv, TypeOK
    <2>2. FaithfulRows'
      BY <1>f, <1>n, <1>r DEF MetadataInv, FaithfulRows, Faithful
    <2>3. PastOnly'
      BY <1>0, <1>f, <1>n, <1>r DEF MetadataInv, PastOnly
    <2>4. CASE tx.step = "idle"
      <3>1. StepKnows'
        BY <1>f, <2>4 DEF MetadataInv, StepKnows
      <3> QED
        BY <2>1, <2>2, <2>3, <3>1 DEF MetadataInv
    <2>5. CASE UNCHANGED db
      <3>1. StepKnows'
        BY <1>f, <2>5, KnowledgeStays DEF MetadataInv
      <3> QED
        BY <2>1, <2>2, <2>3, <3>1 DEF MetadataInv
    <2> QED
      BY <1>f, <2>4, <2>5
  <1>9. ASSUME NEW onDisk \in BOOLEAN, Import(onDisk)
        PROVE  MetadataInv'
    <2>1. onDisk = TRUE /\ tx.step = "idle" /\ db' = restore.row
      BY <1>9 DEF Import, Undisturbed
    <2>2. Faithful(restore.row) /\ restore.row.seenAt <= clock
      BY DEF MetadataInv, FaithfulRows, PastOnly
    <2> QED
      BY <1>0, <1>9, <1>f, <2>1, <2>2 DEF Import
  <1>10. CASE RestoreFails
    <2>1. Faithful(db) /\ db.seenAt <= clock
      BY DEF MetadataInv, FaithfulRows, PastOnly
    <2> QED
      BY <1>0, <1>10, <1>f, <2>1 DEF RestoreFails
  <1>11. ASSUME NEW c \in Content, NEW t \in Time, Editor(c, t)
        PROVE  MetadataInv'
    <2>1. tx.step = "idle" /\ t <= clock /\ file' = [content |-> c, mtime |-> t] /\ UNCHANGED <<clock, db, tx, restore>>
      BY <1>11 DEF Editor, Undisturbed
    <2>2. TypeOK'
      BY <2>1 DEF MetadataInv, TypeOK
    <2>3. FaithfulRows'
      BY <2>1 DEF MetadataInv, FaithfulRows, Faithful
    <2>4. PastOnly'
      BY <2>1 DEF MetadataInv, PastOnly
    <2>5. StepKnows'
      BY <2>1 DEF MetadataInv, StepKnows
    <2> QED
      BY <2>2, <2>3, <2>4, <2>5 DEF MetadataInv
  <1>12. CASE Tick
    <2>1. UNCHANGED <<file, db, tx, restore>> /\ clock' \in Time /\ clock' = clock + 1
      BY <1>0, <1>12 DEF Tick, Time
    <2>2. TypeOK'
      BY <2>1 DEF MetadataInv, TypeOK
    <2>3. FaithfulRows'
      BY <2>1 DEF MetadataInv, FaithfulRows, Faithful
    <2>4. db.seenAt \in Nat /\ tx.row.seenAt \in Nat /\ restore.row.seenAt \in Nat /\ file.mtime \in Nat
      BY <1>0 DEF Row, Time
    <2>5. PastOnly'
      BY <1>0, <2>1, <2>4 DEF MetadataInv, PastOnly
    <2>6. StepKnows'
      BY <2>1, KnowledgeStays DEF MetadataInv
    <2> QED
      BY <2>2, <2>3, <2>5, <2>6 DEF MetadataInv
  <1>13. CASE UNCHANGED vars
    <2>1. UNCHANGED <<clock, file, db, tx, restore>>
      BY <1>13 DEF vars
    <2>2. StepKnows'
      BY <2>1, KnowledgeStays DEF MetadataInv
    <2> QED
      BY <2>1, <2>2 DEF MetadataInv, TypeOK, FaithfulRows, Faithful, PastOnly
  <1> QED
    BY <1>1, <1>2, <1>3, <1>4, <1>5, <1>6, <1>7, <1>8, <1>9, <1>10, <1>11, <1>12, <1>13 DEF Next

-----------------------------------------------------------------------------
LEMMA MetadataInvHolds == ASSUME Undisturbed PROVE Spec => []MetadataInv
  <1>1. Init => MetadataInv
    BY MetadataInitInv
  <1>2. MetadataInv /\ [Next]_vars => MetadataInv'
    BY MetadataStepInv
  <1> QED
    BY <1>1, <1>2, PTL DEF Spec

(* Type correctness of MetadataStore.                                         *)
THEOREM MetadataTypeCorrect == ASSUME Undisturbed PROVE Spec => []TypeOK
  BY MetadataInvHolds, PTL DEF MetadataInv

(* The database and a file it takes for the one last seen never differ.       *)
THEOREM MirrorAlwaysFaithful == ASSUME Undisturbed PROVE Spec => []MirrorIsFaithful
  <1>1. MetadataInv => MirrorIsFaithful
    BY DEF MetadataInv, FaithfulRows, Faithful, MirrorIsFaithful
  <1> QED
    BY <1>1, MetadataInvHolds, PTL

(* A step that commits changes nothing for whoever reads next.                *)
LEMMA CommitStep ==
    ASSUME MetadataInv, Commit
    PROVE  /\ db' = tx.row /\ file' = file
           /\ InForce(db, file) = file.content /\ InForce(db', file') = file.content
  <1>1. tx.onDisk /\ FileInForce(tx.row)
    BY DEF Commit, MetadataInv, StepKnows
  <1>2. db' = tx.row /\ file' = file
    BY <1>1 DEF Commit
  <1> QED
    BY <1>1, <1>2 DEF FileInForce

(* What an access commits was in force before, and is what the file says,     *)
(* even one that a restore has written meanwhile.                             *)
THEOREM CommitInForce == ASSUME Undisturbed PROVE Spec => CommitsWhatIsInForce
  <1>1. MetadataInv /\ [Next]_vars
          => [Commit => InForce(db', file') = file.content /\ InForce(db, file) = file.content]_vars
    BY CommitStep
  <1> QED
    BY <1>1, MetadataInvHolds, PTL DEF Spec, CommitsWhatIsInForce

-----------------------------------------------------------------------------
(* MetadataStore implements the register: crashes, the order in which the     *)
(* file and the database are written, and a restore in several steps do not   *)
(* show.                                                                      *)
LEMMA InForceIsData == ASSUME MetadataInv PROVE InForce(db, file) \in Data
  BY DEF MetadataInv, TypeOK, InForce, Adopts, Parses, Row

(* What is written to the file now is offered beside what was, and is in      *)
(* force.                                                                     *)
LEMMA WriteOffers ==
    ASSUME MetadataInv, NEW d \in Data, WriteFile(d), UNCHANGED <<clock, db, restore>>
    PROVE  InForce(db, file)' = d /\ Register!Offering({d})
  <1>1. db \in Row /\ Faithful(db) /\ db.seenAt <= clock
    BY DEF MetadataInv, TypeOK, FaithfulRows, PastOnly
  <1>2. InForce(db, file') = d /\ file'.content = d
    BY <1>1, WriteIsInForce
  <1>3. InForce(db, file)' = d
    BY <1>2 DEF InForce, Adopts, Newer, Parses
  <1>4. CASE restore.step = "idle"
    <2>1. Offered = {} /\ Offered' = {}
      BY <1>4 DEF Offered
    <2> QED
      BY <1>3, <2>1 DEF Register!Offering
  <1>5. CASE restore.step # "idle"
    <2>1. Offered # {} /\ (restore.step = "read" => restore.row.data \in Offered)
      BY <1>5 DEF Offered
    <2>2. Offered' = {d} \cup ({d} \cap Data) \cup (IF restore.step = "read" THEN {restore.row.data} ELSE {})
      BY <1>2, <1>3, <1>5 DEF Offered
    <2>3. Offered' # {} /\ Offered' \subseteq Offered \cup {d}
      BY <2>1, <2>2
    <2> QED
      BY <1>3, <2>1, <2>3 DEF Register!Offering
  <1> QED
    BY <1>4, <1>5

LEMMA StoreStepRefines ==
    ASSUME Undisturbed, MetadataInv, [Next]_vars
    PROVE  [Register!Next]_(Register!vars)
  <1> USE EmptyIsData, NoDataIsUnreadable, RegisterCallers
  <1>0. /\ db \in Row /\ tx.row \in Row /\ tx.data \in Data /\ restore.row \in Row
        /\ file \in [content : Content, mtime : Time] /\ tx.op \in Operations
        /\ InForce(db, file) \in Data
    BY InForceIsData DEF MetadataInv, TypeOK
  <1>a. ASSUME UNCHANGED <<InForce(db, file), CallerNow, Offered>>
        PROVE  UNCHANGED Register!vars
    BY <1>a DEF Register!vars
  <1>b. ASSUME UNCHANGED <<InForce(db, file), Offered>>, CallerNow # Idle, CallerNow' = Idle
        PROVE  Register!Next
    BY <1>b DEF Register!Next, Register!Return
  <1>c. ASSUME tx.step # "idle", tx'.step # "idle", tx'.op = tx.op, tx'.data = tx.data
        PROVE  CallerNow' = CallerNow
    BY <1>c DEF CallerNow
  <1>d. ASSUME UNCHANGED <<file, db>> PROVE InForce(db, file)' = InForce(db, file)
    BY <1>d DEF InForce, Adopts, Newer, Parses
  <1>e. ASSUME UNCHANGED <<InForce(db, file), file, restore>> PROVE Offered' = Offered
    BY <1>e DEF Offered
  <1>f. tx.step # "idle" => CallerNow # Idle
    BY <1>0 DEF CallerNow
  <1>g. ASSUME UNCHANGED tx PROVE CallerNow' = CallerNow
    BY <1>g DEF CallerNow
  <1>1. ASSUME NEW op \in Operations, NEW d \in Data, NEW onDisk \in BOOLEAN, Begin(op, d, onDisk)
        PROVE  Register!Next
    <2>1. UNCHANGED <<InForce(db, file), Offered>>
      BY <1>1, <1>d, <1>e DEF Begin
    <2>2. CallerNow = Idle /\ CallerNow' \in Data \cup {Reading}
      BY <1>1 DEF Begin, CallerNow
    <2>3. Register!Call(CallerNow')
      BY <2>1, <2>2 DEF Register!Call
    <2> QED
      BY <2>2, <2>3 DEF Register!Next
  <1>2. CASE Sync
    <2>1. tx.row = db /\ tx.step = "sync" /\ UNCHANGED <<clock, db, restore>>
      BY <1>2 DEF Sync, MetadataInv, StepKnows
    <2>2. CallerNow' = CallerNow /\ CallerNow # Idle
      BY <1>2, <1>c, <1>f, <2>1 DEF Sync, Goto, AfterSync
    <2>3. CASE UNCHANGED file
      BY <2>1, <2>2, <2>3, <1>a, <1>d, <1>e
    <2>4. CASE ~Adopts(db, file) /\ WriteFile(db.data)
      <3>1. InForce(db, file) = db.data /\ db.data \in Data
        BY <1>0, <2>4, NotAdopted DEF Row
      <3>2. InForce(db, file)' = db.data /\ Register!Offering({db.data})
        BY <2>1, <2>4, <3>1, WriteOffers
      <3>3. Register!Mirror
        BY <2>2, <3>1, <3>2 DEF Register!Mirror
      <3> QED
        BY <3>3 DEF Register!Next
    <2> QED
      BY <1>2, <2>1, <2>3, <2>4 DEF Sync, Mirrors
  <1>3. CASE ReadBack
    <2>1. CallerNow' = CallerNow
      BY <1>3, <1>c DEF ReadBack, Goto, AfterSync
    <2>2. UNCHANGED <<InForce(db, file), Offered>>
      BY <1>3, <1>d, <1>e DEF ReadBack
    <2> QED
      BY <2>1, <2>2, <1>a
  <1>4. CASE Write
    <2>1. /\ WriteFile(tx.data) /\ UNCHANGED <<clock, db, restore>> /\ tx.op = "write" /\ tx.step # "idle"
          /\ tx'.step # "idle" /\ tx'.op = tx.op /\ tx'.data = tx.data
      BY <1>4 DEF Write, Goto, MetadataInv, StepKnows
    <2>2. InForce(db, file)' = tx.data /\ Register!Offering({tx.data})
      BY <1>0, <2>1, WriteOffers
    <2>3. CallerNow = tx.data /\ CallerNow' = CallerNow
      BY <2>1, <1>c DEF CallerNow
    <2>4. Register!Take
      BY <1>0, <2>2, <2>3 DEF Register!Take
    <2> QED
      BY <2>4 DEF Register!Next
  <1>5. CASE Commit
    <2>1. InForce(db', file') = InForce(db, file) /\ UNCHANGED <<file, restore>>
      BY <1>5, CommitStep DEF Commit
    <2>2. InForce(db, file)' = InForce(db', file')
      BY DEF InForce, Adopts, Newer, Parses
    <2>3. CallerNow # Idle /\ CallerNow' = Idle
      BY <1>5, <1>f DEF Commit, NoTx, CallerNow
    <2> QED
      BY <2>1, <2>2, <2>3, <1>b, <1>e
  <1>6. CASE Abort
    <2>1. CallerNow # Idle /\ CallerNow' = Idle
      BY <1>6, <1>f DEF Abort, NoTx, CallerNow
    <2>2. UNCHANGED <<InForce(db, file), Offered>>
      BY <1>6, <1>d, <1>e DEF Abort
    <2> QED
      BY <2>1, <2>2, <1>b
  <1>7. ASSUME NEW d \in Data, RestoreFile(d)
        PROVE  Register!Next
    <2>1. restore.step = "idle" /\ WriteFile(d) /\ UNCHANGED <<clock, db, tx>> /\ restore'.step = "written"
      BY <1>7 DEF RestoreFile
    <2>2. db \in Row /\ Faithful(db) /\ db.seenAt <= clock
      BY DEF MetadataInv, TypeOK, FaithfulRows, PastOnly
    <2>3. InForce(db, file') = d /\ file'.content = d
      BY <2>1, <2>2, WriteIsInForce
    <2>4. InForce(db, file)' = d
      BY <2>1, <2>3 DEF InForce, Adopts, Newer, Parses
    <2>5. Offered = {} /\ Offered' = {d}
      BY <2>1, <2>3, <2>4 DEF Offered
    <2>6. Register!Restore(d)
      BY <2>1, <2>4, <2>5, <1>g DEF Register!Restore
    <2> QED
      BY <2>6 DEF Register!Next
  <1>8. CASE ReadRestored
    <2>1. UNCHANGED <<clock, file, db, tx>> /\ restore.step = "written" /\ file.content \in Data
          /\ restore' = [step |-> "read", row |-> SeenAs(file.content, file)]
      BY <1>8 DEF ReadRestored, Parses
    <2>2. UNCHANGED InForce(db, file)
      BY <2>1, <1>d
    <2>3. restore'.step = "read" /\ restore'.row.data = file.content
      BY <2>1 DEF SeenAs
    <2>4. Offered' = Offered
      BY <2>1, <2>2, <2>3 DEF Offered
    <2> QED
      BY <2>1, <2>2, <2>4, <1>a, <1>g
  <1>9. ASSUME NEW onDisk \in BOOLEAN, Import(onDisk)
        PROVE  Register!Next
    <2>1. onDisk = TRUE /\ UNCHANGED <<file, tx>> /\ db' = restore.row /\ restore.step = "read" /\ restore' = NoRestore
      BY <1>9 DEF Import, Undisturbed
    <2>2. InForce(db, file)' = InForce(restore.row, file)
      BY <2>1 DEF InForce, Adopts, Newer, Parses
    <2>3. InForce(restore.row, file) \in {restore.row.data} \cup ({file.content} \cap Data)
      BY DEF InForce, Adopts, Parses
    <2>4. InForce(restore.row, file) \in Offered
      BY <2>1, <2>3 DEF Offered
    <2>5. Offered # {} /\ Offered' = {}
      BY <2>1 DEF Offered, NoRestore
    <2>6. Register!EndRestore
      BY <2>1, <2>2, <2>4, <2>5, <1>g DEF Register!EndRestore
    <2> QED
      BY <2>6 DEF Register!Next
  <1>10. CASE RestoreFails
    <2>1. UNCHANGED <<file, db, tx>> /\ restore.step # "idle" /\ restore' = NoRestore
      BY <1>10 DEF RestoreFails
    <2>2. Offered # {} /\ Offered' = {}
      BY <2>1 DEF Offered, NoRestore
    <2>3. Register!EndRestore
      BY <2>1, <2>2, <1>d, <1>g DEF Register!EndRestore
    <2> QED
      BY <2>3 DEF Register!Next
  <1>11. ASSUME NEW c \in Content, NEW t \in Time, Editor(c, t)
        PROVE  Register!Next
    <2>1. tx.step = "idle" /\ file'.content = c /\ UNCHANGED <<db, tx, restore>>
      BY <1>11 DEF Editor, Undisturbed
    <2>2. CallerNow = Idle /\ CallerNow' = CallerNow
      BY <2>1 DEF CallerNow
    <2>3. InForce(db, file)' \in Data
      BY <1>0, <2>1 DEF InForce, Adopts, Parses, Row
    <2>4. PICK written \in Data : {c} \cap Data \subseteq {written}
      BY <1>0
    <2>5. Register!Offering({InForce(db, file)', written})
      <3>1. CASE restore.step = "idle"
        <4>1. Offered = {} /\ Offered' = {}
          BY <2>1, <3>1 DEF Offered
        <4> QED
          BY <4>1 DEF Register!Offering
      <3>2. CASE restore.step # "idle"
        <4>1. Offered # {} /\ (restore.step = "read" => restore.row.data \in Offered)
          BY <3>2 DEF Offered
        <4>2. Offered' = {InForce(db, file)'} \cup ({c} \cap Data)
                           \cup (IF restore.step = "read" THEN {restore.row.data} ELSE {})
          BY <2>1, <3>2 DEF Offered
        <4>3. Offered' # {} /\ Offered' \subseteq Offered \cup {InForce(db, file)', written}
          BY <2>4, <4>1, <4>2
        <4> QED
          BY <4>1, <4>3 DEF Register!Offering
      <3> QED
        BY <3>1, <3>2
    <2>6. Register!Edit(InForce(db, file)', written)
      BY <2>2, <2>5 DEF Register!Edit
    <2> QED
      BY <2>3, <2>6 DEF Register!Next
  <1>12. CASE Tick
    BY <1>12, <1>a, <1>d, <1>e, <1>g DEF Tick
  <1>13. CASE UNCHANGED vars
    BY <1>13, <1>a, <1>d, <1>e, <1>g DEF vars
  <1> QED
    BY <1>1, <1>2, <1>3, <1>4, <1>5, <1>6, <1>7, <1>8, <1>9, <1>10, <1>11, <1>12, <1>13 DEF Next

(* Whatever crashes, edits and restores come between, callers see one         *)
(* register.                                                                  *)
THEOREM StoreRefinesRegister == ASSUME Undisturbed PROVE Spec => ImplementsRegister
  <1>1. Init /\ MetadataInv => Register!Init
    <2> SUFFICES ASSUME Init, MetadataInv PROVE Register!Init
      OBVIOUS
    <2>1. InForce(db, file) \in Data
      BY InForceIsData
    <2>2. CallerNow = Idle /\ Offered = {}
      BY DEF Init, NoTx, NoRestore, CallerNow, Offered
    <2> QED
      BY <2>1, <2>2 DEF Register!Init
  <1>2. MetadataInv /\ [Next]_vars => [Register!Next]_(Register!vars)
    BY StoreStepRefines
  <1> QED
    BY <1>1, <1>2, MetadataInvHolds, PTL DEF Spec, ImplementsRegister, Register!Spec

-----------------------------------------------------------------------------
(* Proofs about SnapshotStore, for any number of calls.                       *)

SnapshotCommit == Seq(Entry) \ {NoCommit}

(* The log has a limit that has not passed since its last call returned.      *)
WithinTheMonth == head = returned /\ recent

(* What is in the object database is there with all it descends from.         *)
Reachable == \A c \in objects : History(c) \subseteq objects

(* Entries have the numbers of their calls, and the one that runs has a new   *)
(* one.                                                                       *)
Numbered ==
    /\ \A i \in 1..Len(returned) : returned[i] <= taken
    /\ \A i \in 1..Len(head) : head[i] <= taken
    /\ step = "committed" => /\ \A i \in 1..Len(returned) : returned[i] < taken
                             /\ taken \in Entry

(* What is known of the commit of the call that runs.                         *)
Chained ==
    /\ step = "committed" => /\ new \in objects
                             /\ \/ new = Append(head, taken)
                                \/ ~WithinTheMonth /\ new = <<taken>>
    /\ step = "moved" => /\ head \in objects /\ head = new /\ head # returned

(* While the log is kept it is the reflog that keeps it.                      *)
Protected ==
    WithinTheMonth => reflog = head /\ (head = NoCommit \/ head \in objects)

SnapshotInv == SnapshotTypeOK /\ Reachable /\ Numbered /\ Chained /\ Protected

(* The bound on the calls is one.                                             *)
Bounded == MaxEntries \in Nat

-----------------------------------------------------------------------------
(* A commit is in its own history, and that of no commit is empty.            *)
LEMMA HistoryOfSelf ==
    ASSUME NEW c \in SnapshotCommit
    PROVE  c \in History(c)
<1>1. Len(c) \in Nat /\ Len(c) # 0 /\ c \in Seq(Entry)
  BY EmptySeq DEF SnapshotCommit, NoCommit
<1>2. SubSeq(c, 1, Len(c)) = c
  BY <1>1, SubSeqFull
<1>3. SubSeq(c, 1, Len(c)) \in History(c)
  BY <1>1 DEF History
<1> QED BY <1>2, <1>3

LEMMA HistoryOfNone == History(NoCommit) = {}
BY DEF History, NoCommit

(* A commit adds itself to the history of its parent.                         *)
LEMMA HistoryOfChild ==
    ASSUME NEW p \in Seq(Entry), NEW e \in Entry
    PROVE  History(Append(p, e)) \subseteq History(p) \cup {Append(p, e)}
<1> DEFINE c == Append(p, e)
<1>1. c \in Seq(Entry) /\ Len(c) = Len(p) + 1 /\ Len(p) \in Nat
  OBVIOUS
<1>2. c = p \o <<e>> /\ <<e>> \in Seq(Entry)
  OBVIOUS
<1>3. ASSUME NEW n \in 1..Len(c) PROVE SubSeq(c, 1, n) \in History(p) \cup {c}
  <2>1. CASE n = Len(c)
    BY <2>1, <1>1, SubSeqFull
  <2>2. CASE n # Len(c)
    <3>1. n \in 1..Len(p) /\ 1 \in 1..Len(p)
      BY <2>2, <1>1
    <3>2. SubSeq(p \o <<e>>, 1, n) = SubSeq(p, 1, n)
      BY <3>1, <1>2, SubSeqOfConcat1
    <3> QED BY <3>1, <3>2, <1>2 DEF History
  <2> QED BY <2>1, <2>2
<1> QED BY <1>3 DEF History

(* A commit of a history has a history of its own in it.                      *)
LEMMA HistoryOfHistory ==
    ASSUME NEW k \in Seq(Entry), NEW c \in History(k)
    PROVE  History(c) \subseteq History(k)
<1>1. PICK n \in 1..Len(k) : c = SubSeq(k, 1, n)
  BY DEF History
<1>2. Len(k) \in Nat /\ \A i \in 1..n : k[i] \in Entry
  BY <1>1
<1>3. c \in Seq(Entry) /\ Len(c) = n
  BY <1>1, <1>2, SubSeqProperties
<1>4. ASSUME NEW m \in 1..Len(c) PROVE SubSeq(c, 1, m) = SubSeq(k, 1, m)
  <2>1. 1 \in 1..Len(k) /\ n \in 1..Len(k) /\ 1 \in 1..(n - 1 + 1) /\ m \in 1..(n - 1 + 1)
    BY <1>2, <1>3, <1>4
  <2>2. SubSeq(SubSeq(k, 1, n), 1, m) = SubSeq(k, 1 + 1 - 1, 1 + m - 1)
    BY <2>1, <1>3, SubSeqOfSubSeq
  <2> QED BY <2>2, <1>1, <2>1
<1>5. ASSUME NEW m \in 1..Len(c) PROVE m \in 1..Len(k)
  BY <1>2, <1>3
<1> QED BY <1>4, <1>5 DEF History

(* What the limit and the objects allow to be read.                           *)
LEMMA MonthIsReadable == SnapshotInv => LogSurvivesTheMonth
<1> SUFFICES ASSUME SnapshotInv, WithinTheMonth PROVE History(head) \subseteq objects
  BY DEF LogSurvivesTheMonth, WithinTheMonth
<1>1. CASE head = NoCommit
  BY <1>1, HistoryOfNone
<1>2. CASE head \in objects
  BY <1>2 DEF SnapshotInv, Reachable
<1> QED BY <1>1, <1>2 DEF SnapshotInv, Protected

LEMMA SnapshotInitInv == Bounded /\ SnapshotInit => SnapshotInv
BY DEF Bounded, SnapshotInit, SnapshotInv, SnapshotTypeOK, Reachable, Numbered, Chained, Protected, WithinTheMonth, NoCommit, Entry

-----------------------------------------------------------------------------
(* A new commit lies on the head that can be found, with a fresh name.        *)
LEMMA CommitKeeps == Bounded /\ SnapshotInv /\ CommitSnapshot => SnapshotInv'
<1> SUFFICES ASSUME Bounded, SnapshotInv, CommitSnapshot PROVE SnapshotInv'
  OBVIOUS
<1>1. taken \in Nat /\ taken' = taken + 1 /\ taken' \in Entry /\ taken' \in 0..MaxEntries
  BY DEF SnapshotInv, SnapshotTypeOK, CommitSnapshot, Bounded, Entry
<1>2. /\ new' = Append(Parent, taken') /\ objects' = objects \cup {new'} /\ step' = "committed"
      /\ head' = head /\ reflog' = reflog /\ recent' = recent /\ returned' = returned
  BY DEF CommitSnapshot
<1>3. /\ objects \subseteq SnapshotCommit /\ head \in Seq(Entry) /\ reflog \in Seq(Entry)
      /\ returned \in Seq(Entry) /\ recent \in BOOLEAN
  BY DEF SnapshotInv, SnapshotTypeOK, SnapshotCommit
<1>4. Parent \in Seq(Entry) /\ (Parent = NoCommit \/ Parent \in objects)
  BY <1>3 DEF Parent, SnapshotCommit, NoCommit
<1>5. new' \in SnapshotCommit
  BY <1>1, <1>2, <1>4 DEF SnapshotCommit, NoCommit
<1>6. SnapshotTypeOK'
  BY <1>1, <1>2, <1>3, <1>5 DEF SnapshotTypeOK, SnapshotCommit
<1>7. History(new') \subseteq objects'
  <2>1. History(new') \subseteq History(Parent) \cup {new'}
    BY <1>1, <1>2, <1>4, HistoryOfChild
  <2>2. History(Parent) \subseteq objects
    BY <1>4, HistoryOfNone DEF SnapshotInv, Reachable
  <2> QED BY <2>1, <2>2, <1>2
<1>8. Reachable'
  BY <1>2, <1>7 DEF SnapshotInv, Reachable
<1>9. Numbered'
  <2>1. \A i \in 1..Len(returned) : returned[i] <= taken /\ returned[i] \in Entry
    BY <1>3 DEF SnapshotInv, Numbered
  <2>2. \A i \in 1..Len(head) : head[i] <= taken /\ head[i] \in Entry
    BY <1>3 DEF SnapshotInv, Numbered
  <2>3. \A n \in Entry : n <= taken => n < taken' /\ n <= taken'
    BY <1>1, Bounded DEF Bounded, Entry
  <2> QED BY <2>1, <2>2, <2>3, <1>1, <1>2 DEF Numbered
<1>10. Chained'
  <2>1. WithinTheMonth => Parent = head
    BY DEF SnapshotInv, Protected, Parent
  <2>2. Parent = head \/ Parent = <<>>
    BY DEF Parent, NoCommit
  <2>3. Append(<<>>, taken') = <<taken'>>
    OBVIOUS
  <2>4. WithinTheMonth' <=> WithinTheMonth
    BY <1>2 DEF WithinTheMonth
  <2> QED BY <2>1, <2>2, <2>3, <2>4, <1>2 DEF Chained
<1>11. Protected'
  BY <1>2 DEF SnapshotInv, Protected, WithinTheMonth
<1> QED BY <1>6, <1>8, <1>9, <1>10, <1>11 DEF SnapshotInv

(* The name that the head gets is not that of the log that was returned.      *)
LEMMA MoveKeeps == Bounded /\ SnapshotInv /\ SetOplogHead => SnapshotInv' /\ ~WithinTheMonth'
<1> SUFFICES ASSUME Bounded, SnapshotInv, SetOplogHead PROVE SnapshotInv' /\ ~WithinTheMonth'
  OBVIOUS
<1>1. /\ step = "committed" /\ head' = new /\ step' = "moved" /\ objects' = objects
      /\ reflog' = reflog /\ recent' = recent /\ new' = new /\ taken' = taken
      /\ returned' = returned
  BY DEF SetOplogHead
<1>2. /\ new \in objects /\ new \in Seq(Entry) /\ head \in Seq(Entry) /\ returned \in Seq(Entry)
      /\ taken \in Entry /\ taken \in Nat
  BY <1>1 DEF SnapshotInv, SnapshotTypeOK, Chained, Numbered, Bounded, Entry
<1>3. /\ Len(new) \in Nat /\ Len(new) # 0 /\ new[Len(new)] = taken
      /\ \A i \in 1..Len(new) : new[i] <= taken
  <2>1. CASE new = Append(head, taken)
    <3>1. /\ Len(new) = Len(head) + 1 /\ Len(head) \in Nat
          /\ \A i \in 1..Len(new) : new[i] = IF i <= Len(head) THEN head[i] ELSE taken
      BY <2>1, <1>2, AppendProperties
    <3>2. \A i \in 1..Len(head) : head[i] <= taken
      BY DEF SnapshotInv, Numbered
    <3> QED BY <3>1, <3>2, <1>2
  <2>2. CASE new = <<taken>>
    BY <2>2, <1>2
  <2> QED BY <2>1, <2>2, <1>1 DEF SnapshotInv, Chained
<1>4. new # returned
  <2>1. SUFFICES ASSUME new = returned PROVE FALSE
    OBVIOUS
  <2>2. \A i \in 1..Len(new) : new[i] < taken
    BY <2>1, <1>1 DEF SnapshotInv, Numbered
  <2>3. new[Len(new)] < taken
    BY <2>2, <1>3
  <2> QED BY <2>3, <1>3, <1>2
<1>6. SnapshotTypeOK' /\ Reachable'
  BY <1>1, <1>2 DEF SnapshotInv, SnapshotTypeOK, Reachable
<1>7. Numbered' /\ ~WithinTheMonth'
  BY <1>1, <1>3, <1>4 DEF SnapshotInv, Numbered, WithinTheMonth
<1>8. Chained' /\ Protected'
  BY <1>1, <1>2, <1>4, <1>7 DEF Chained, Protected
<1> QED BY <1>6, <1>7, <1>8 DEF SnapshotInv

(* What the reflog is given is the head, which is there.                      *)
LEMMA ReferenceKeeps == SnapshotInv /\ SetReferenceToOplog => SnapshotInv'
<1> SUFFICES ASSUME SnapshotInv, SetReferenceToOplog PROVE SnapshotInv'
  OBVIOUS
<1>1. /\ step = "moved" /\ reflog' = head /\ recent' = TRUE /\ returned' = head /\ step' = "idle"
      /\ objects' = objects /\ head' = head /\ new' = new /\ taken' = taken
  BY DEF SetReferenceToOplog
<1>2. head \in objects /\ head \in Seq(Entry)
  BY <1>1 DEF SnapshotInv, SnapshotTypeOK, Chained
<1> QED BY <1>1, <1>2 DEF SnapshotInv, SnapshotTypeOK, Reachable, Numbered, Chained, Protected

LEMMA InterruptedKeeps == SnapshotInv /\ Interrupted => SnapshotInv'
BY DEF Interrupted, SnapshotInv, SnapshotTypeOK, Reachable, Numbered, Chained, Protected, WithinTheMonth

(* What garbage collection leaves is closed, and the log is in it as long as  *)
(* the reflog names it.                                                       *)
LEMMA GcKeeps == SnapshotInv /\ Gc => SnapshotInv'
<1> SUFFICES ASSUME SnapshotInv, Gc PROVE SnapshotInv'
  OBVIOUS
<1>1. PICK young \in SUBSET objects :
        objects' = {c \in objects : \E k \in young \cup {reflog'} : c \in History(k)}
  BY DEF Gc
<1>2. /\ step = "idle" /\ reflog' = (IF recent THEN reflog ELSE NoCommit)
      /\ head' = head /\ recent' = recent /\ step' = step /\ new' = new /\ taken' = taken
      /\ returned' = returned
  BY DEF Gc
<1>3. objects \subseteq SnapshotCommit /\ reflog' \in Seq(Entry)
  BY <1>2 DEF SnapshotInv, SnapshotTypeOK, SnapshotCommit, NoCommit
<1>4. SnapshotTypeOK'
  BY <1>1, <1>2, <1>3 DEF SnapshotInv, SnapshotTypeOK
<1>5. Reachable'
  <2>1. SUFFICES ASSUME NEW c \in objects', NEW d \in History(c) PROVE d \in objects'
    BY DEF Reachable
  <2>2. PICK k \in young \cup {reflog'} : c \in History(k)
    BY <1>1
  <2>3. k \in Seq(Entry)
    BY <1>1, <1>3 DEF SnapshotCommit
  <2>4. d \in History(k)
    BY <2>2, <2>3, HistoryOfHistory
  <2>5. d \in objects
    BY <1>1 DEF SnapshotInv, Reachable
  <2> QED BY <2>4, <2>5, <1>1
<1>6. Numbered' /\ Chained'
  BY <1>2 DEF SnapshotInv, Numbered, Chained
<1>7. Protected'
  <2>1. SUFFICES ASSUME WithinTheMonth, head # NoCommit PROVE reflog' = head /\ head \in objects'
    BY <1>2 DEF Protected, WithinTheMonth, SnapshotInv
  <2>2. reflog' = head /\ head \in objects
    BY <2>1, <1>2 DEF SnapshotInv, Protected, WithinTheMonth
  <2>3. head \in History(head)
    BY <2>2, <1>3, HistoryOfSelf
  <2> QED BY <2>2, <2>3, <1>1
<1> QED BY <1>4, <1>5, <1>6, <1>7 DEF SnapshotInv

LEMMA MonthKeeps == SnapshotInv /\ MonthPasses => SnapshotInv'
BY DEF MonthPasses, SnapshotInv, SnapshotTypeOK, Reachable, Numbered, Chained, Protected, WithinTheMonth

LEMMA SnapshotStepInv == Bounded /\ SnapshotInv /\ [SnapshotNext]_snapshotVars => SnapshotInv'
<1> SUFFICES ASSUME Bounded, SnapshotInv, [SnapshotNext]_snapshotVars PROVE SnapshotInv'
  OBVIOUS
<1>1. CASE UNCHANGED snapshotVars
  BY <1>1 DEF snapshotVars, SnapshotInv, SnapshotTypeOK, Reachable, Numbered, Chained, Protected, WithinTheMonth
<1> QED BY <1>1, CommitKeeps, MoveKeeps, ReferenceKeeps, InterruptedKeeps, GcKeeps, MonthKeeps
        DEF SnapshotNext

THEOREM SnapshotInvHolds == Bounded /\ SnapshotSpec => []SnapshotInv
<1> SUFFICES ASSUME Bounded PROVE SnapshotSpec => []SnapshotInv
  OBVIOUS
<1> QED BY SnapshotInitInv, SnapshotStepInv, PTL DEF SnapshotSpec

-----------------------------------------------------------------------------
(* For a month the log of a call that returned can be read: what the reflog   *)
(* names and what it descends from is there after every garbage collection.   *)
THEOREM LogSurvives == Bounded /\ SnapshotSpec => []LogSurvivesTheMonth
BY SnapshotInvHolds, MonthIsReadable, PTL

(* A step of the store is one of the log, or leaves it as it is.              *)
LEMMA StepIsAppend == Bounded /\ SnapshotInv /\ [SnapshotNext]_snapshotVars => [AppendOnly!Next]_(AppendOnly!vars)
<1> SUFFICES ASSUME Bounded, SnapshotInv, [SnapshotNext]_snapshotVars PROVE [AppendOnly!Next]_(AppendOnly!vars)
  OBVIOUS
<1> USE DEF AppendOnly!Next, AppendOnly!vars
<1>1. CASE CommitSnapshot
  BY <1>1 DEF CommitSnapshot
<1>2. CASE SetOplogHead
  <2>1. ~WithinTheMonth' /\ head' = new /\ taken \in Entry
    BY <1>2, MoveKeeps DEF SetOplogHead, SnapshotInv, Numbered
  <2>2. CASE new = Append(head, taken)
    BY <2>1, <2>2 DEF AppendOnly!Record, WithinTheMonth
  <2>3. CASE ~WithinTheMonth /\ new = <<taken>>
    BY <2>1, <2>3 DEF AppendOnly!BeginAnew, WithinTheMonth
  <2> QED BY <1>2, <2>2, <2>3 DEF SetOplogHead, SnapshotInv, Chained
<1>3. CASE SetReferenceToOplog
  BY <1>3 DEF SetReferenceToOplog, AppendOnly!Keep, SnapshotInv, Chained
<1>4. CASE Interrupted
  BY <1>4 DEF Interrupted
<1>5. CASE Gc
  BY <1>5 DEF Gc
<1>6. CASE MonthPasses
  BY <1>6 DEF MonthPasses, AppendOnly!Lapse, SnapshotInv, SnapshotTypeOK
<1>7. CASE UNCHANGED snapshotVars
  BY <1>7 DEF snapshotVars
<1> QED BY <1>1, <1>2, <1>3, <1>4, <1>5, <1>6, <1>7 DEF SnapshotNext

(* The three writes, with every crash and garbage collection in between,      *)
(* implement a log that is appended to.                                       *)
THEOREM LogRefinesAppendOnly == Bounded /\ SnapshotSpec => ImplementsAppendOnlyLog
<1> SUFFICES ASSUME Bounded PROVE SnapshotSpec => AppendOnly!Spec
  BY DEF ImplementsAppendOnlyLog
<1>1. SnapshotInit => AppendOnly!Init
  BY DEF SnapshotInit, AppendOnly!Init, NoCommit
<1> QED BY <1>1, SnapshotInvHolds, StepIsAppend, PTL DEF SnapshotSpec, AppendOnly!Spec

-----------------------------------------------------------------------------
(* The settings of every process follow the file, and its updates touch what  *)
(* they were asked to, for any number of processes, keys and changes.         *)

(* What is merged has a value of every key.                                   *)
LEMMA EffectiveIsSettled ==
    ASSUME NEW custom \in Customizations
    PROVE  Effective(custom) \in Settled
BY DefaultsAreValues, AbsentIsNoValue DEF Customizations, Settled, Values, Effective

LEMMA NoneIsCustomizations == None \in Customizations
BY DEF None, Customizations

LEMMA CreatedIsCustomizations ==
    ASSUME settings \in Customizations \cup {Broken, NoFile}, Loadable
    PROVE  Created \in Customizations
BY NoneIsCustomizations DEF Created, Loadable

(* A file that is written holds only values that a file can have.             *)
LEMMA MergedIsCustomizations ==
    ASSUME SettingsTypeOK, NEW p \in Process
    PROVE  Merged(p) \in Customizations
<1>1. memory[p] \in Settled /\ call[p].custom \in Customizations
  BY DEF SettingsTypeOK, Calls
<1>2. \A k \in Key : Merged(p)[k] \in (Value[k] \ {Null}) \cup {Absent}
  BY <1>1 DEF Merged, Stored, Settled, Customizations
<1>3. Merged(p) \in [Key -> Values \cup {Absent}]
  BY <1>2 DEF Merged, Values
<1> QED  BY <1>2, <1>3 DEF Customizations

LEMMA WaitingIsACall ==
    ASSUME NEW k \in Key
    PROVE  Waiting(k) \in Calls
BY DefaultsAreValues, NoneIsCustomizations DEF Waiting, Calls

(* Settings that were loaded are kept until the file is watched.              *)
Loaded(c, now) == [c EXCEPT !.step = "rewatch", !.current = now]
LEMMA LoadedIsACall ==
    ASSUME NEW c \in Calls, NEW now \in Settled
    PROVE  /\ Loaded(c, now) \in Calls
           /\ Loaded(c, now).step = "rewatch" /\ Loaded(c, now).current = now
BY DEF Calls, Loaded

(* Nothing but what the types say is told to the watchers.                    *)
LEMMA TellIsTyped ==
    ASSUME SettingsTypeOK, NEW n \in {"modified", "removed"}, Tell(n)
    PROVE  /\ notices' \in [Process -> SUBSET {"modified", "removed"}]
           /\ excused' \in [Process -> SUBSET {"missed", "blind", "unsaved"}]
BY DEF SettingsTypeOK, Tell

LEMMA ReplaceIsTyped ==
    ASSUME SettingsTypeOK, NEW f \in Customizations \cup {Broken, NoFile}, Replace(f)
    PROVE  /\ settings' \in Customizations \cup {Broken, NoFile}
           /\ notices' \in [Process -> SUBSET {"modified", "removed"}]
           /\ watch' \in [Process -> {"starting", "on", "off"}]
           /\ excused' \in [Process -> SUBSET {"missed", "blind", "unsaved"}]
BY TellIsTyped DEF SettingsTypeOK, Replace

LEMMA ReloadIsTyped ==
    ASSUME SettingsTypeOK, NEW p \in Process, Loadable, Reload(p)
    PROVE  /\ settings' \in Customizations \cup {Broken, NoFile}
           /\ Effective(Created) \in Settled
           /\ excused' \in [Process -> SUBSET {"missed", "blind", "unsaved"}]
<1>1. Created \in Customizations
  BY CreatedIsCustomizations DEF SettingsTypeOK
<1> QED  BY <1>1, EffectiveIsSettled DEF SettingsTypeOK, Reload

(* The settings in memory have a value of every key, the file customizes only *)
(* with what it can hold, and a call is at one of its steps.                  *)
THEOREM SettingsTypeCorrect == SettingsSpec => []SettingsTypeOK
<1>1. SettingsInit => SettingsTypeOK
  <2> SUFFICES ASSUME SettingsInit PROVE SettingsTypeOK
    OBVIOUS
  <2>1. Effective(settings) \in Settled
    BY EffectiveIsSettled DEF SettingsInit
  <2>2. (CHOOSE k \in Key : TRUE) \in Key
    BY ThereAreKeys
  <2>3. call \in [Process -> Calls]
    BY <2>2, WaitingIsACall DEF SettingsInit
  <2> QED  BY <2>1, <2>3, MaxChangesIsNatural DEF SettingsInit, SettingsTypeOK
<1>2. SettingsTypeOK /\ [SettingsNext]_settingsVars => SettingsTypeOK'
  <2> SUFFICES ASSUME SettingsTypeOK, [SettingsNext]_settingsVars PROVE SettingsTypeOK'
    OBVIOUS
  <2>0. Change => changes' \in 0..MaxChanges
    BY MaxChangesIsNatural DEF Change, SettingsTypeOK
  <2>1. CASE Edit
    <3>1. CASE \E f \in Customizations \cup {Broken} : WriteInPlace(f)
      BY <2>0, <2>1, <3>1, TellIsTyped DEF Edit, WriteInPlace, SettingsTypeOK
    <3>2. CASE \E f \in Customizations \cup {Broken, NoFile} : Replace(f)
      BY <2>0, <2>1, <3>2, ReplaceIsTyped DEF Edit, SettingsTypeOK
    <3> QED  BY <2>1, <3>1, <3>2 DEF Edit
  <2>2. ASSUME NEW p \in Process, NEW k \in Key, NEW v \in Value[k], Update(p, k, v)
        PROVE  SettingsTypeOK'
    <3>1. memory[p] \in Settled
      BY DEF SettingsTypeOK
    <3>2. [memory[p] EXCEPT ![k] = v] \in Settled
      BY <3>1 DEF Settled, Values
    <3>3. memory' \in [Process -> Settled]
      BY <2>2, <3>2 DEF SettingsTypeOK, Calls, Update
    <3>4. call' \in [Process -> Calls]
      <4>1. Waiting(k).key = k /\ Waiting(k).current \in Settled
            /\ Waiting(k).custom \in Customizations
        BY DefaultsAreValues, NoneIsCustomizations DEF Waiting
      <4>2. [Waiting(k) EXCEPT !.step = "load", !.before = memory[p]] \in Calls
        BY <3>1, <4>1 DEF Waiting, Calls
      <4> QED  BY <2>2, <4>2 DEF SettingsTypeOK, Calls, Update, Continue
    <3> QED  BY <2>0, <2>2, <3>3, <3>4 DEF SettingsTypeOK, Calls, Update
  <2>3. ASSUME NEW p \in Process, LoadCurrent(p) PROVE SettingsTypeOK'
    <3>1. Created \in Customizations
      BY <2>3, CreatedIsCustomizations DEF SettingsTypeOK, Calls, LoadCurrent
    <3>2. Effective(Created) \in Settled
      BY <3>1, EffectiveIsSettled
    <3>3. [call[p] EXCEPT !.step = "read", !.current = Effective(Created)] \in Calls
      <4>1. call[p] \in Calls
        BY DEF SettingsTypeOK
      <4> QED  BY <3>2, <4>1 DEF Calls
    <3>4. call' \in [Process -> Calls]
      BY <2>3, <3>3 DEF SettingsTypeOK, LoadCurrent, Continue
    <3> QED  BY <2>3, <3>1, <3>4 DEF SettingsTypeOK, LoadCurrent
  <2>4. ASSUME NEW p \in Process, ReadFile(p) PROVE SettingsTypeOK'
    <3>1. [call[p] EXCEPT !.step = "write", !.custom = settings] \in Calls
      <4>1. call[p] \in Calls /\ settings \in Customizations
        BY <2>4 DEF SettingsTypeOK, ReadFile, Readable
      <4> QED  BY <4>1 DEF Calls
    <3>2. call' \in [Process -> Calls]
      BY <2>4, <3>1 DEF SettingsTypeOK, ReadFile, Continue
    <3> QED  BY <2>4, <3>2 DEF SettingsTypeOK, ReadFile
  <2>5. ASSUME NEW p \in Process, Finish(p)
        PROVE  call' \in [Process -> Calls]
    <3>1. Waiting(call[p].key) \in Calls
      BY WaitingIsACall DEF SettingsTypeOK, Calls
    <3> QED  BY <2>5, <3>1 DEF SettingsTypeOK, Calls, Finish, Continue
  <2>6. ASSUME NEW p \in Process, WriteSettings(p) PROVE SettingsTypeOK'
    <3>1. CASE Difference(p) = {}
      BY <2>5, <2>6, <3>1 DEF SettingsTypeOK, WriteSettings
    <3>2. CASE Difference(p) # {}
      <4>1. Replace(Merged(p))
        BY <2>6, <3>2 DEF WriteSettings
      <4> QED  BY <2>5, <2>6, <4>1, MergedIsCustomizations, ReplaceIsTyped
               DEF SettingsTypeOK, WriteSettings
    <3> QED  BY <3>1, <3>2
  <2>7. ASSUME NEW p \in Process, SaveFails(p) PROVE SettingsTypeOK'
    BY <2>0, <2>5, <2>7 DEF SettingsTypeOK, Calls, SaveFails
  <2>8. ASSUME NEW p \in Process, StartWatching(p) PROVE SettingsTypeOK'
    BY <2>8 DEF SettingsTypeOK, StartWatching
  <2>9. ASSUME NEW p \in Process, Modified(p) PROVE SettingsTypeOK'
    BY <2>9, ReloadIsTyped DEF SettingsTypeOK, Modified
  <2>10. ASSUME NEW p \in Process, Removed(p) PROVE SettingsTypeOK'
    <3>1. notices' \in [Process -> SUBSET {"modified", "removed"}]
      BY <2>10 DEF SettingsTypeOK, Calls, Removed
    <3>2. CASE Loadable
      <4>1. call' \in [Process -> Calls]
        <5>1. call[p] \in Calls /\ Effective(Created) \in Settled
          BY <2>10, <3>2, ReloadIsTyped DEF SettingsTypeOK, Removed
        <5>2. Loaded(call[p], Effective(Created)) \in Calls
          BY <5>1, LoadedIsACall
        <5>3. call' = [call EXCEPT ![p] = Loaded(call[p], Effective(Created))]
          BY <2>10, <3>2 DEF Removed, Continue, Loaded
        <5> QED  BY <5>2, <5>3 DEF SettingsTypeOK
      <4> QED  BY <2>10, <3>1, <3>2, <4>1, ReloadIsTyped DEF SettingsTypeOK, Calls, Removed
    <3>3. CASE ~Loadable
      BY <2>10, <3>1, <3>3 DEF SettingsTypeOK, Calls, Removed
    <3> QED  BY <3>2, <3>3
  <2>11. ASSUME NEW p \in Process, Rewatch(p) PROVE SettingsTypeOK'
    <3>1. memory' \in [Process -> Settled]
      BY <2>11 DEF SettingsTypeOK, Calls, Rewatch
    <3> QED  BY <2>5, <2>11, <3>1 DEF SettingsTypeOK, Calls, Rewatch
  <2>12. CASE UNCHANGED settingsVars
    BY <2>12 DEF SettingsTypeOK, settingsVars
  <2> QED  BY <2>1, <2>2, <2>3, <2>4, <2>6, <2>7, <2>8, <2>9, <2>10, <2>11, <2>12
           DEF SettingsNext
<1> QED  BY <1>1, <1>2, PTL DEF SettingsSpec

-----------------------------------------------------------------------------
(* A process without a notice and without an excuse has the settings of the   *)
(* file when it rests, and has loaded them when it is going to use them.      *)
Clear(p) == notices[p] = {} /\ excused[p] = {}
Follows(p) ==
    /\ settings # NoFile
    /\ call[p].step = "idle" /\ Readable => memory[p] = Effective(settings)
    /\ call[p].step \in {"read", "write", "rewatch"} =>
          Readable /\ call[p].current = Effective(settings)
Following == \A p \in Process : Clear(p) => Follows(p)

(* Whoever is told of a change has something to handle, or an excuse.         *)
LEMMA ToldIsNotClear ==
    ASSUME SettingsTypeOK, NEW n \in {"modified", "removed"}, Tell(n), NEW p \in Process
    PROVE  ~Clear(p)'
BY DEF SettingsTypeOK, Tell, Clear

(* Reloading leaves the file of the others as it is, since they know that     *)
(* there is one.                                                              *)
LEMMA ReloadFollows ==
    ASSUME SettingsTypeOK, NEW p \in Process, Loadable, Reload(p)
    PROVE  /\ settings' = Created /\ Readable'
           /\ settings # NoFile => settings' = settings
           /\ Effective(Created) = Effective(settings)'
           /\ \A q \in Process \ {p} : excused'[q] = excused[q]
<1>1. Created \in Customizations
  BY CreatedIsCustomizations DEF SettingsTypeOK
<1> QED  BY <1>1, FilesDiffer DEF SettingsTypeOK, Reload, Created, Effective, Readable

THEOREM FollowsFile == SettingsSpec => []MemoryFollowsFile
<1>1. SettingsInit => Following
  <2> SUFFICES ASSUME SettingsInit, NEW p \in Process PROVE Follows(p)
    BY DEF Following
  <2>1. settings # NoFile
    BY FilesDiffer DEF SettingsInit
  <2>2. call[p].step = "idle" /\ memory[p] = Effective(settings)
    BY DEF SettingsInit, Waiting
  <2> QED  BY <2>1, <2>2 DEF Follows
<1>2. SettingsTypeOK /\ Following /\ [SettingsNext]_settingsVars => Following'
  <2> SUFFICES ASSUME SettingsTypeOK, Following, [SettingsNext]_settingsVars,
                      NEW q \in Process, Clear(q)'
               PROVE  Follows(q)'
    BY DEF Following
  <2>0. Clear(q) => Follows(q)
    BY DEF Following
  <2> USE DEF Clear
  <2>1. CASE Edit
    BY <2>1, ToldIsNotClear DEF Edit, WriteInPlace, Replace
  <2>2. ASSUME NEW p \in Process, NEW k \in Key, NEW v \in Value[k], Update(p, k, v)
        PROVE  Follows(q)'
    <3>1. p = q => call'[q].step = "load"
      BY <2>2 DEF SettingsTypeOK, Calls, Update, Continue, Waiting
    <3>2. p # q => call'[q] = call[q] /\ memory'[q] = memory[q]
      BY <2>2 DEF SettingsTypeOK, Calls, Update, Continue
    <3> QED  BY <2>0, <2>2, <3>1, <3>2 DEF Update, Follows, Readable, Effective
  <2>3. ASSUME NEW p \in Process, LoadCurrent(p) PROVE Follows(q)'
    <3>1. settings # NoFile /\ settings' = settings
      BY <2>0, <2>3 DEF LoadCurrent, Created, Follows
    <3>2. p = q => call'[q].step = "read" /\ call'[q].current = Effective(settings)
      BY <2>3, <3>1 DEF SettingsTypeOK, Calls, LoadCurrent, Continue, Created
    <3>3. p # q => call'[q] = call[q]
      BY <2>3 DEF SettingsTypeOK, Calls, LoadCurrent, Continue
    <3> QED  BY <2>0, <2>3, <3>1, <3>2, <3>3
             DEF LoadCurrent, Loadable, Follows, Readable, Effective
  <2>4. ASSUME NEW p \in Process, ReadFile(p) PROVE Follows(q)'
    <3>1. p = q => call[q].step = "read" /\ call'[q].step = "write"
                   /\ call'[q].current = call[q].current
      BY <2>4 DEF SettingsTypeOK, Calls, ReadFile, Continue
    <3>2. p # q => call'[q] = call[q]
      BY <2>4 DEF SettingsTypeOK, Calls, ReadFile, Continue
    <3> QED  BY <2>0, <2>4, <3>1, <3>2 DEF ReadFile, Follows, Readable, Effective
  <2>5. ASSUME NEW p \in Process, Finish(p)
        PROVE  /\ p = q => call'[q].step = "idle"
               /\ p # q => call'[q] = call[q]
    BY <2>5 DEF SettingsTypeOK, Calls, Finish, Continue, Waiting
  <2>6. ASSUME NEW p \in Process, WriteSettings(p) PROVE Follows(q)'
    <3>1. Difference(p) = {}
      BY <2>6, ToldIsNotClear DEF WriteSettings, Replace
    <3>2. UNCHANGED <<settings, memory, notices, excused>> /\ Follows(q)
      BY <2>0, <2>6, <3>1 DEF WriteSettings
    <3>3. p = q => memory[q] = Effective(settings)
      <4> SUFFICES ASSUME p = q PROVE memory[q] = Effective(settings)
        OBVIOUS
      <4>1. call[q].current = Effective(settings)
        BY <2>6, <3>2 DEF WriteSettings, Follows
      <4>2. memory[q] \in [Key -> Values] /\ call[q].current \in [Key -> Values]
        BY DEF SettingsTypeOK, Calls, Settled
      <4>3. \A k \in Key : memory[q][k] = call[q].current[k]
        BY <3>1 DEF Difference
      <4> QED  BY <4>1, <4>2, <4>3
    <3> QED  BY <2>5, <2>6, <3>2, <3>3 DEF WriteSettings, Follows, Readable, Effective
  <2>7. ASSUME NEW p \in Process, SaveFails(p) PROVE Follows(q)'
    <3>1. p # q
      BY <2>7 DEF SettingsTypeOK, Calls, SaveFails
    <3>2. Clear(q) /\ UNCHANGED <<settings, memory>> /\ call'[q] = call[q]
      BY <2>5, <2>7, <3>1 DEF SettingsTypeOK, Calls, SaveFails
    <3> QED  BY <2>0, <3>2 DEF Follows, Readable, Effective
  <2>8. ASSUME NEW p \in Process, StartWatching(p) PROVE Follows(q)'
    BY <2>0, <2>8 DEF StartWatching, Follows, Readable, Effective
  <2>9. ASSUME NEW p \in Process, Modified(p) PROVE Follows(q)'
    <3>1. p # q => notices'[q] = notices[q]
      BY <2>9 DEF SettingsTypeOK, Modified
    <3>2. CASE Loadable /\ p = q
      <4>1. Reload(p) /\ call'[q].step = "idle" /\ memory'[q] = Effective(Created)
        BY <2>9, <3>2 DEF SettingsTypeOK, Modified, AtRest
      <4> QED  BY <3>2, <4>1, ReloadFollows DEF Follows, Readable
    <3>3. CASE Loadable /\ p # q
      <4>1. Reload(p) /\ call' = call /\ memory'[q] = memory[q]
        BY <2>9, <3>3 DEF SettingsTypeOK, Modified
      <4>2. Follows(q)
        BY <2>0, <3>1, <3>3, <4>1, ReloadFollows
      <4> QED  BY <3>3, <4>1, <4>2, ReloadFollows DEF Follows, Readable, Effective
    <3>4. CASE ~Loadable
      <4>1. p # q => Clear(q)
        BY <2>9, <3>1, <3>4 DEF Modified
      <4>2. settings = Broken /\ UNCHANGED <<settings, memory, call>>
        BY <2>9, <3>4 DEF Modified, Loadable
      <4>3. p = q => call'[q].step = "idle"
        BY <2>9, <4>2 DEF Modified, AtRest
      <4> QED  BY <2>0, <4>1, <4>2, <4>3, FilesDiffer DEF Follows, Readable
    <3> QED  BY <3>2, <3>3, <3>4
  <2>10. ASSUME NEW p \in Process, Removed(p) PROVE Follows(q)'
    <3>1. p # q => notices'[q] = notices[q]
      BY <2>10 DEF SettingsTypeOK, Calls, Removed
    <3>2. CASE Loadable /\ p = q
      <4>1. Reload(p) /\ call'[q].step = "rewatch" /\ call'[q].current = Effective(Created)
        <5>1. Effective(Created) \in Settled /\ call[q] \in Calls
          BY <2>10, <3>2, ReloadIsTyped DEF SettingsTypeOK, Calls, Removed
        <5>2. call'[q] = Loaded(call[q], Effective(Created))
          BY <2>10, <3>2 DEF SettingsTypeOK, Removed, Continue, Loaded
        <5>3. call'[q].step = "rewatch" /\ call'[q].current = Effective(Created)
          BY <5>1, <5>2, LoadedIsACall
        <5> QED  BY <2>10, <3>2, <5>3 DEF Removed
      <4> QED  BY <3>2, <4>1, ReloadFollows DEF Follows, Readable
    <3>3. CASE Loadable /\ p # q
      <4>1. Reload(p) /\ call'[q] = call[q] /\ memory'[q] = memory[q]
        BY <2>10, <3>3 DEF SettingsTypeOK, Calls, Removed, Continue
      <4>2. Follows(q)
        BY <2>0, <3>1, <3>3, <4>1, ReloadFollows
      <4> QED  BY <3>3, <4>1, <4>2, ReloadFollows DEF Follows, Readable, Effective
    <3>4. CASE ~Loadable
      <4>1. p # q /\ Clear(q)
        BY SMTT(40), <2>10, <3>1, <3>4 DEF SettingsTypeOK, Calls, Removed
      <4> QED  BY <2>0, <2>10, <3>4, <4>1 DEF Removed, Follows, Readable, Effective
    <3> QED  BY <3>2, <3>3, <3>4
  <2>11. ASSUME NEW p \in Process, Rewatch(p) PROVE Follows(q)'
    <3>1. Follows(q)
      BY <2>0, <2>11 DEF Rewatch
    <3>2. CASE p = q
      <4>1. memory'[q] = Effective(settings)
        BY <2>11, <3>1, <3>2 DEF SettingsTypeOK, Calls, Rewatch, Follows
      <4> QED  BY <2>5, <2>11, <3>1, <3>2, <4>1 DEF Rewatch, Follows, Readable, Effective
    <3>3. CASE p # q
      <4>1. memory'[q] = memory[q]
        BY <2>11, <3>3 DEF SettingsTypeOK, Calls, Rewatch
      <4> QED  BY <2>5, <2>11, <3>1, <3>3, <4>1 DEF Rewatch, Follows, Readable, Effective
    <3> QED  BY <3>2, <3>3
  <2>12. CASE UNCHANGED settingsVars
    BY <2>0, <2>12 DEF settingsVars, Follows, Readable, Effective
  <2> QED  BY <2>1, <2>2, <2>3, <2>4, <2>6, <2>7, <2>8, <2>9, <2>10, <2>11, <2>12
           DEF SettingsNext
<1>3. Following => MemoryFollowsFile
  BY DEF Following, Clear, Follows, MemoryFollowsFile, AtRest
<1> QED  BY <1>1, <1>2, <1>3, SettingsTypeCorrect, PTL DEF SettingsSpec

-----------------------------------------------------------------------------
(* Nobody but the call itself changes the settings in memory while it runs.   *)
Holds(p) ==
    call[p].step \in {"load", "read", "write"} =>
        \A k \in Key \ {call[p].key} : memory[p][k] = call[p].before[k]
Held == \A p \in Process : Holds(p)

THEOREM Exactly == SettingsSpec => UpdatesAreExact
<1>1. SettingsInit => Held
  BY DEF SettingsInit, Held, Holds, Waiting
<1>2. SettingsTypeOK /\ Held /\ [SettingsNext]_settingsVars => Held'
  <2> SUFFICES ASSUME SettingsTypeOK, Held, [SettingsNext]_settingsVars, NEW q \in Process
               PROVE  Holds(q)'
    BY DEF Held
  <2>0. Holds(q)
    BY DEF Held
  <2>1. CASE Edit
    BY <2>0, <2>1 DEF Edit, Holds
  <2>2. ASSUME NEW p \in Process, NEW k \in Key, NEW v \in Value[k], Update(p, k, v)
        PROVE  Holds(q)'
    <3>1. CASE p = q
      <4>1. call'[q].key = k /\ call'[q].before = memory[q]
        BY <2>2, <3>1 DEF SettingsTypeOK, Calls, Update, Continue, Waiting
      <4>2. \A j \in Key \ {k} : memory'[q][j] = memory[q][j]
        <5>1. memory[q] \in [Key -> Values]
          BY DEF SettingsTypeOK, Settled
        <5>2. memory'[q] = [memory[q] EXCEPT ![k] = v]
          BY <2>2, <3>1 DEF SettingsTypeOK, Calls, Update
        <5> QED  BY <5>1, <5>2
      <4> QED  BY <4>1, <4>2 DEF Holds
    <3>2. CASE p # q
      <4>1. call'[q] = call[q] /\ memory'[q] = memory[q]
        BY <2>2, <3>2 DEF SettingsTypeOK, Calls, Update, Continue
      <4> QED  BY <2>0, <4>1 DEF Holds
    <3> QED  BY <3>1, <3>2
  <2>3. ASSUME NEW p \in Process, LoadCurrent(p) \/ ReadFile(p) PROVE Holds(q)'
    <3>1. CASE p = q
      <4>1. CASE LoadCurrent(q)
        BY <2>0, <4>1 DEF SettingsTypeOK, Calls, LoadCurrent, Continue, Holds
      <4>2. CASE ReadFile(q)
        BY <2>0, <4>2 DEF SettingsTypeOK, Calls, ReadFile, Continue, Holds
      <4> QED  BY <2>3, <3>1, <4>1, <4>2
    <3>2. CASE p # q
      <4>1. call'[q] = call[q] /\ memory' = memory
        BY <2>3, <3>2 DEF SettingsTypeOK, Calls, LoadCurrent, ReadFile, Continue
      <4> QED  BY <2>0, <4>1 DEF Holds
    <3> QED  BY <3>1, <3>2
  <2>4. ASSUME NEW p \in Process, Finish(p), memory' = memory PROVE Holds(q)'
    BY <2>0, <2>4 DEF SettingsTypeOK, Calls, Finish, Continue, Waiting, Holds
  <2>5. ASSUME NEW p \in Process, WriteSettings(p) \/ SaveFails(p) \/ Rewatch(p)
        PROVE  Holds(q)'
    <3>1. CASE WriteSettings(p) \/ SaveFails(p)
      BY <2>4, <3>1 DEF WriteSettings, SaveFails
    <3>2. CASE Rewatch(p) /\ p = q
      BY <3>2 DEF SettingsTypeOK, Calls, Rewatch, Finish, Continue, Waiting, Holds
    <3>3. CASE Rewatch(p) /\ p # q
      <4>1. call'[q] = call[q] /\ memory'[q] = memory[q]
        BY <3>3 DEF SettingsTypeOK, Calls, Rewatch, Finish, Continue
      <4> QED  BY <2>0, <4>1 DEF Holds
    <3> QED  BY <2>5, <3>1, <3>2, <3>3
  <2>6. ASSUME NEW p \in Process, StartWatching(p) PROVE Holds(q)'
    BY <2>0, <2>6 DEF StartWatching, Holds
  <2>7. ASSUME NEW p \in Process, Modified(p) \/ Removed(p) PROVE Holds(q)'
    <3>1. CASE p = q
      <4>1. call'[q].step \in {"idle", "rewatch"}
        <5>1. call[q] \in Calls /\ call[q].step = "idle"
          BY <2>7, <3>1 DEF SettingsTypeOK, Modified, Removed, AtRest
        <5>2. CASE call' = call
          BY <5>1, <5>2
        <5>3. CASE call' # call
          <6>1. Loadable /\ Reload(q) /\ call'[q] = Loaded(call[q], Effective(Created))
            BY <2>7, <3>1, <5>3 DEF SettingsTypeOK, Modified, Removed, Continue, Loaded
          <6> QED  BY <5>1, <6>1, ReloadIsTyped, LoadedIsACall
        <5> QED  BY <5>2, <5>3
      <4> QED  BY <4>1 DEF Holds
    <3>2. CASE p # q
      <4>1. call'[q] = call[q] /\ memory'[q] = memory[q]
        BY <2>7, <3>2 DEF SettingsTypeOK, Modified, Removed, Reload, Continue
      <4> QED  BY <2>0, <4>1 DEF Holds
    <3> QED  BY <3>1, <3>2
  <2>8. CASE UNCHANGED settingsVars
    BY <2>0, <2>8 DEF settingsVars, Holds
  <2> QED  BY <2>1, <2>2, <2>3, <2>5, <2>6, <2>7, <2>8 DEF SettingsNext
<1>3. SettingsTypeOK /\ Held => \A p \in Process : WriteSettings(p) => Exact(p)
  <2> SUFFICES ASSUME SettingsTypeOK, Held, NEW p \in Process, WriteSettings(p),
                      call[p].before = call[p].current, call[p].custom = settings,
                      NEW k \in Key
               PROVE  IF k = call[p].key
                      THEN call[p].current[k] # memory[p][k] => settings'[k] = Stored(memory[p][k])
                      ELSE settings'[k] = settings[k]
    BY DEF Exact
  <2>1. call[p].step = "write"
    BY DEF WriteSettings
  <2>2. k # call[p].key => k \notin Difference(p)
    BY <2>1 DEF Held, Holds, Difference
  <2>3. CASE Difference(p) = {}
    BY <2>3 DEF WriteSettings, Difference
  <2>4. CASE Difference(p) # {}
    <3>1. settings' = Merged(p)
      BY <2>4 DEF WriteSettings, Replace
    <3>2. settings'[k] = IF k \in Difference(p) THEN Stored(memory[p][k]) ELSE settings[k]
      BY <3>1 DEF Merged
    <3> QED  BY <2>2, <3>2 DEF Difference
  <2> QED  BY <2>3, <2>4
<1>4. SettingsTypeOK /\ Held /\ [SettingsNext]_settingsVars
        => [\A p \in Process : WriteSettings(p) => Exact(p)]_settingsVars
  BY <1>3
<1> QED  BY <1>1, <1>2, <1>4, SettingsTypeCorrect, PTL DEF SettingsSpec, UpdatesAreExact

-----------------------------------------------------------------------------
(* The four together                                                          *)

(* What goes on in one of the four is what it does by itself.                 *)
THEOREM EachStoreByItself == StoresSpec => Spec /\ LogSpec /\ SnapshotSpec /\ SettingsSpec
<1>1. StoresInit => Init /\ LogInit /\ SnapshotInit /\ SettingsInit
  BY DEF StoresInit
<1>2. [StoresNext]_<<focus, vars, logVars, snapshotVars, settingsVars>> =>
        /\ [Next]_vars /\ [LogNext]_logVars
        /\ [SnapshotNext]_snapshotVars /\ [SettingsNext]_settingsVars
  BY DEF StoresNext
<1> QED
  BY <1>1, <1>2, PTL DEF StoresSpec, Spec, LogSpec, SnapshotSpec, SettingsSpec

(* All parts of the four have their types.                                    *)
THEOREM StoresTypeCorrect ==
    ASSUME Undisturbed, Bounded PROVE StoresSpec => []StoresTypeOK
<1>1. SnapshotInv => SnapshotTypeOK
  BY DEF SnapshotInv
<1>2. (Spec => []TypeOK) /\ (SnapshotSpec => []SnapshotInv)
  BY MetadataTypeCorrect, SnapshotInvHolds, PTL
<1> QED
  BY <1>1, <1>2, EachStoreByItself, LogTypeCorrect, SettingsTypeCorrect, PTL DEF StoresTypeOK
==============================================================================
