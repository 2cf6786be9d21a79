------------------------------- MODULE MCWork -------------------------------
(* What the user works on, each a component of its own: a commit that is      *)
(* edited in place, the hunks of the commits, the hunks that are not          *)
(* committed.  One run takes one of them at a time, from its initial states   *)
(* through all its steps, while the others rest.                              *)
EXTENDS EditMode, HunkAssignments, TLC

VARIABLES focus,
          file, commits, hunks, ranges

rangeVars == <<file, commits, hunks, ranges>>

(* Two commits, two pieces of work, which are interchangeable.                *)
MCDepth == 2
MCMaxRewrites == 2
MCMaxFaults == 2

(* Two stacks, that cut and cover in three hunks of up to two lines what a    *)
(* file of three lines has.                                                   *)
Ranges == INSTANCE HunkRanges WITH
    Targets <- {1, 2}, BaseLines <- 3, MaxHunks <- 3, MaxNew <- 2

(* Three edits, of one line or none, of a file of four lines: hunks touch,    *)
(* meet, and part.                                                            *)
MCFileLines == 4
MCContext == 1
MCMaxEdits == 3
MCMaxLines == 1

Same == Permutations(Work) \cup Permutations(Branch)

WorkInit ==
    /\ focus \in {"edit mode", "ranges", "assignments"}
    /\ Init /\ Ranges!HunkInit /\ AssignmentInit

(* All the hunks that are made here have been made.                           *)
Complete == hunks = 3 /\ UNCHANGED <<vars, rangeVars, assignmentVars>>

WorkNext ==
    /\ UNCHANGED focus
    /\ \/ focus = "edit mode" /\ Next /\ UNCHANGED <<rangeVars, assignmentVars>>
       \/ focus = "ranges" /\ Ranges!HunkNext /\ UNCHANGED <<vars, assignmentVars>>
       \/ focus = "assignments" /\ AssignmentNext /\ UNCHANGED <<vars, rangeVars>>
       \/ Complete

WorkSpec == WorkInit /\ [][WorkNext]_<<focus, vars, rangeVars, assignmentVars>>

-----------------------------------------------------------------------------
(* What HunkRanges promises, under the names it has there; asked where it     *)
(* runs, since elsewhere it is in its initial state.                          *)
StacksAreBlamed == focus = "ranges" => Ranges!StacksAreBlamed
EditsDepend == focus = "ranges" => Ranges!EditsDepend
=============================================================================
