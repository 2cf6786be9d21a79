-------------------------------- MODULE Oplog --------------------------------
(***************************************************************************)
(* The operations log with its undo and redo: crates/gitbutler-oplog and   *)
(* crates/but-api/src/legacy/oplog.rs, driven by the handlers of           *)
(* crates/but/src/command/legacy/oplog.rs and the terminal interface.      *)
(*                                                                         *)
(* The log is a chain of snapshot commits, here a sequence with the oldest *)
(* first.  A snapshot holds the state of the project from before its       *)
(* operation.  A client that undoes reads the log for a target without any *)
(* lock, may wait for the user to confirm, and only then restores it under *)
(* the exclusive lock, so that other clients may act in between.           *)
(***************************************************************************)
EXTENDS Naturals, Sequences, SequencesExt

CONSTANTS
    Client,      \* the processes and views that undo and redo
    MaxLog,      \* bound: length of the log
    MaxState     \* bound: states of the project that come up

ASSUME OplogAssumption == MaxLog \in Nat /\ MaxState \in Nat

VARIABLES
    log,      \* the snapshots: kind, state before the operation, restored snapshot
    project,  \* the state of the project
    states,   \* how many states have come up, to tell a new one apart
    chosen,   \* per client: the restore it has decided on, or target 0
    stale     \* for the properties: the log has seen an undo or a redo of
              \* something else than the log held for it at that moment

logVars == <<log, project, states, chosen, stale>>

RestoreKind == {"undo", "redo", "restore"}
Nothing == [kind |-> "restore", target |-> 0]

\* A restore names an older snapshot: following them ends at an operation.
LogTypeOK ==
    /\ log \in Seq([kind : {"op"} \cup RestoreKind, state : 0..MaxState, from : 0..MaxLog])
    /\ Len(log) <= MaxLog
    /\ \A i \in 1..Len(log) : log[i].kind \in RestoreKind => log[i].from \in 1..(i - 1)
    /\ project \in 0..states
    /\ states \in 0..MaxState
    /\ chosen \in [Client -> [kind : RestoreKind, target : 0..MaxLog]]
    /\ stale \in BOOLEAN

LogInit ==
    /\ log = <<>>
    /\ project = 0
    /\ states = 0
    /\ chosen = [c \in Client |-> Nothing]
    /\ stale = FALSE

-----------------------------------------------------------------------------
\* The loop of both searches: from the newest snapshot back, every entry of this
\* kind cancels one older entry that is of another.  0 stands for None.
Scan(l, kind) ==
    LET scan[i \in 0..Len(l)] == [skip \in Nat |->
          IF i = 0 THEN 0
          ELSE IF l[i].kind = kind THEN scan[i - 1][skip + 1]
          ELSE IF skip = 0 THEN i
          ELSE scan[i - 1][skip - 1]]
    IN  scan
Uncancelled(l, kind) == Scan(l, kind)[Len(l)][0]

\* get_undo_target_snapshot
UndoTarget(l) == Uncancelled(l, "undo")

\* Mutant: a newer operation does not stop the redo.
RedoTargetAcrossOperations(l) == Uncancelled(l, "redo")

\* get_redo_target_snapshot: what the redos have left must be an undo, or there
\* is nothing to redo.
RedoTarget(l) ==
    LET i == Uncancelled(l, "redo")
    IN  IF i # 0 /\ l[i].kind = "undo" THEN i ELSE 0

\* Mutant: the restored snapshot is taken for the operation.
PeelOnce(l, target) == IF l[target].kind = "op" THEN target ELSE l[target].from

\* peel_restore_snapshot: follow the restored snapshots down to an operation.
Peel(l, target) ==
    LET peel[i \in 1..Len(l)] == IF l[i].kind = "op" THEN i ELSE peel[l[i].from]
    IN  peel[target]

-----------------------------------------------------------------------------
\* commit_snapshot on top of the current head.
Record(kind, from) == log' = Append(log, [kind |-> kind, state |-> project, from |-> from])

NewState ==
    /\ states < MaxState
    /\ states' = states + 1
    /\ project' = states + 1

\* A mutating operation with its snapshot, in one hold of the exclusive lock.
Operate ==
    /\ Len(log) < MaxLog
    /\ Record("op", 0)
    /\ NewState
    /\ UNCHANGED <<chosen, stale>>

\* create_snapshot on demand, or a legacy operation that records its restore
\* point and then fails.
RecordOnly ==
    /\ Len(log) < MaxLog
    /\ Record("op", 0)
    /\ UNCHANGED <<project, states, chosen, stale>>

\* The project changes without a snapshot: the user edits files, or the
\* snapshot of an operation could not be prepared and is skipped.
ChangeUnrecorded ==
    /\ NewState
    /\ UNCHANGED <<log, chosen, stale>>

ChooseUndo(c) ==
    /\ chosen[c] = Nothing /\ Len(log) < MaxLog
    /\ UndoTarget(log) # 0
    /\ chosen' = [chosen EXCEPT ![c] = [kind |-> "undo", target |-> UndoTarget(log)]]
    /\ UNCHANGED <<log, project, states, stale>>

ChooseRedo(c) ==
    /\ chosen[c] = Nothing /\ Len(log) < MaxLog
    /\ RedoTarget(log) # 0
    /\ chosen' = [chosen EXCEPT ![c] = [kind |-> "redo", target |-> RedoTarget(log)]]
    /\ UNCHANGED <<log, project, states, stale>>

\* The user picks a snapshot of the log.
ChooseRestore(c) ==
    /\ chosen[c] = Nothing /\ Len(log) < MaxLog
    /\ \E i \in 1..Len(log) :
          chosen' = [chosen EXCEPT ![c] = [kind |-> "restore", target |-> i]]
    /\ UNCHANGED <<log, project, states, stale>>

NoteStale(choice) ==
    stale' = (stale \/ choice.target # (CASE choice.kind = "undo" -> UndoTarget(log)
                                          [] choice.kind = "redo" -> RedoTarget(log)
                                          [] OTHER -> choice.target))

\* Mutant: the snapshot is prepared after the checkout.
RestoreThenPrepare(c) ==
    /\ chosen[c] # Nothing
    /\ Len(log) < MaxLog
    /\ project' = log[chosen[c].target].state
    /\ log' = Append(log, [kind |-> chosen[c].kind, state |-> project', from |-> chosen[c].target])
    /\ chosen' = [chosen EXCEPT ![c] = Nothing]
    /\ NoteStale(chosen[c])
    /\ UNCHANGED states

\* restore_snapshot_with_kind: under the exclusive lock, restore the chosen
\* snapshot and record the state it replaces.
Restore(c) ==
    /\ chosen[c] # Nothing
    /\ Len(log) < MaxLog
    /\ Record(chosen[c].kind, chosen[c].target)
    /\ project' = log[chosen[c].target].state
    /\ chosen' = [chosen EXCEPT ![c] = Nothing]
    /\ NoteStale(chosen[c])
    /\ UNCHANGED states

\* The user declines the confirmation.
Decline(c) ==
    /\ chosen[c] # Nothing
    /\ chosen' = [chosen EXCEPT ![c] = Nothing]
    /\ UNCHANGED <<log, project, states, stale>>

LogNext ==
    \/ Operate \/ RecordOnly \/ ChangeUnrecorded
    \/ \E c \in Client :
          \/ ChooseUndo(c) \/ ChooseRedo(c) \/ ChooseRestore(c)
          \/ Restore(c) \/ Decline(c)

LogSpec == LogInit /\ [][LogNext]_logVars

-----------------------------------------------------------------------------
(***************************************************************************)
(* Properties                                                              *)
(***************************************************************************)

OperationOnTop(stack) == IF stack = <<>> THEN 0 ELSE Last(stack).op

\* The undo and redo stacks a reader of the log would reconstruct from it.
Replayed(before, l, i) ==
    LET entry(op) == [state |-> l[i].state, op |-> op]
    IN  CASE l[i].kind = "undo" ->
               [undo |-> Front(before.undo),
                redo |-> Append(before.redo, entry(OperationOnTop(before.undo)))]
          [] l[i].kind = "redo" ->
               [undo |-> Append(before.undo, entry(OperationOnTop(before.redo))),
                redo |-> Front(before.redo)]
          [] OTHER ->
               [undo |-> Append(before.undo, entry(Peel(l, i))), redo |-> <<>>]
StacksOf(l) ==
    LET replay[i \in 0..Len(l)] ==
          IF i = 0 THEN [undo |-> <<>>, redo |-> <<>>] ELSE Replayed(replay[i - 1], l, i)
    IN  replay[Len(l)]
Stacks == StacksOf(log)

Abstract == INSTANCE UndoStack WITH
    State <- 0..MaxState, Operation <- 1..MaxLog,
    present <- project, undo <- Stacks.undo, redo <- Stacks.redo

\* Refinement: as long as no undo and no redo came too late, the backwards
\* scans of the log find what the top of an undo stack and of a redo stack
\* would hold, through any mix of operations, undos, redos and restores, and
\* however clients interleave between choosing and restoring.
ImplementsUndoStack ==
    Abstract!Init /\ [][stale' \/ Abstract!Next]_<<log, project>>

\* The operation the interface names when it asks "Undo ...?" or "Redo ...?"
\* (the chosen snapshot peeled through all restores) is the one whose effect
\* is taken back or redone.
NamesTheOperation == ~stale =>
    /\ UndoTarget(log) # 0 => Peel(log, UndoTarget(log)) = OperationOnTop(Stacks.undo)
    /\ RedoTarget(log) # 0 => Peel(log, RedoTarget(log)) = OperationOnTop(Stacks.redo)

\* Action property, with interleaved clients too: whatever restore takes the
\* project away from a state, undoing right after leads back to that state.
RestoreCanBeTakenBack ==
    [][\A c \in Client :
          (Restore(c) /\ project' # project)
              => LET back == IF chosen[c].kind = "undo" THEN RedoTarget(log')
                             ELSE UndoTarget(log')
                 IN  back # 0 /\ log'[back].state = project]_logVars

\* "An implicit restore that undoes the last snapshot": an undo restores what
\* the log says at the moment of the restore.
UndoUndoesTheLast ==
    [][\A c \in Client :
          (Restore(c) /\ chosen[c].kind = "undo")
              => chosen[c].target = UndoTarget(log)]_logVars
=============================================================================
