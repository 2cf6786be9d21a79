------------------------------ MODULE UndoStack ------------------------------
(***************************************************************************)
(* What undo and redo promise: two stacks of project states.  An operation *)
(* pushes the state it replaces on the undo stack and forgets what could   *)
(* be redone; undo and redo move one state from one stack to the other.    *)
(* Every entry carries the operation whose effect it takes back or redoes. *)
(***************************************************************************)
EXTENDS Sequences, SequencesExt

CONSTANTS State, Operation

VARIABLES present, undo, redo

vars == <<present, undo, redo>>

Init == present \in State /\ undo = <<>> /\ redo = <<>>

\* An operation, an explicit restore, or an operation that failed and left
\* the state as it was.
Do(op) ==
    /\ present' \in State
    /\ undo' = Append(undo, [state |-> present, op |-> op])
    /\ redo' = <<>>

\* The project changes without an entry in the log.
Drift == present' \in State /\ UNCHANGED <<undo, redo>>

Undo ==
    /\ undo # <<>>
    /\ present' = Last(undo).state
    /\ undo' = Front(undo)
    /\ redo' = Append(redo, [state |-> present, op |-> Last(undo).op])

Redo ==
    /\ redo # <<>>
    /\ present' = Last(redo).state
    /\ redo' = Front(redo)
    /\ undo' = Append(undo, [state |-> present, op |-> Last(redo).op])

Next ==
    \/ Drift
    \/ Undo
    \/ Redo
    \/ \E op \in Operation : Do(op)

Spec == Init /\ [][Next]_vars
=============================================================================
