--------------------------- MODULE HunkAssignments ---------------------------
(* To which branch the uncommitted hunks of a file are assigned: rows of the  *)
(* database, matched with the hunks of the worktree at every scan by the      *)
(* lines they overlap (crates/but-hunk-assignment).  A branch stands for its  *)
(* stack.  The worktree is the base with places that were edited.             *)
EXTENDS Integers, FiniteSetsExt, SequencesExt

CONSTANTS Branch, None,
          FileLines,  \* lines of the file in the base
          Context,    \* lines of context of a hunk
          MaxEdits,   \* edits of the worktree
          MaxLines    \* lines that stand in an edited place

ASSUME FileAssumption == FileLines \in Nat /\ Context \in Nat /\ MaxLines \in Nat

VARIABLES changes,   \* the edited places [top, bottom, lines], in order
          edited,    \* how often it was edited
          applied,   \* the branches in the workspace
          rows       \* the table hunk_assignments, in the order of insertion
assignmentVars == <<changes, edited, applied, rows>>

-----------------------------------------------------------------------------
(* The hunks of the worktree: places with the context around them, which are  *)
(* one hunk where it meets.                                                   *)
Starts(places) ==
    {i \in DOMAIN places : i = 1 \/ places[i].top - places[i - 1].bottom > 2 * Context}
Grown(places) == FoldLeft(LAMBDA n, p : n + p.lines - (p.bottom - p.top), 0, places)
Header(places, i) ==
    LET last == Max({j \in i..Len(places) : \A k \in (i + 1)..j : k \notin Starts(places)})
        top == Max({places[i].top - Context, 0})
        end == Min({places[last].bottom + Context, FileLines})
        newLines == end - top + Grown(SubSeq(places, i, last))
        newTop == top + Grown(SubSeq(places, 1, i - 1))
    IN [oldStart |-> IF end = top THEN top ELSE top + 1, oldLines |-> end - top,
        newStart |-> IF newLines = 0 THEN newTop ELSE newTop + 1, newLines |-> newLines]
(* The n-th hunk begins with the place ...                                    *)
Hunk(places, n) ==
    CHOOSE i \in Starts(places) : Cardinality({j \in Starts(places) : j <= i}) = n

(* No header, which counts as fewer lines than any.                           *)
Whole == [oldStart |-> 0, oldLines |-> -1, newStart |-> 0, newLines |-> -1]

(* diff_to_assignments: the hunks as rows without a branch; of a binary or    *)
(* large file, or of one among many changed ones, one row for the whole file. *)
Scanned(places, eager) ==
    IF ~eager THEN <<[header |-> Whole, branch |-> None]>>
    ELSE [n \in 1..Cardinality(Starts(places)) |->
             [header |-> Header(places, Hunk(places, n)), branch |-> None]]

-----------------------------------------------------------------------------
LastOf(start, lines) == IF lines = 0 THEN start ELSE start + lines - 1
RangesMeet(s, n, t, m) == s <= LastOf(t, m) /\ t <= LastOf(s, n)
(* mutant: lines before the change are compared with lines after it.          *)
IntersectCrossed(a, b) ==
    \/ Whole \in {a.header, b.header}
    \/ /\ RangesMeet(a.header.oldStart, a.header.oldLines, b.header.newStart, b.header.newLines)
       /\ RangesMeet(a.header.newStart, a.header.newLines, b.header.oldStart, b.header.oldLines)
Intersect(a, b) ==
    \/ Whole \in {a.header, b.header} \/ a.header = b.header
    \/ /\ RangesMeet(a.header.oldStart, a.header.oldLines, b.header.oldStart, b.header.oldLines)
       /\ RangesMeet(a.header.newStart, a.header.newLines, b.header.newStart, b.header.newLines)

Met(row, old) == {i \in DOMAIN old : Intersect(old[i], row)}

(* The last of these rows that have the most lines.                           *)
Lines(row) == row.header.newLines
Biggest(old, met) ==
    old[CHOOSE i \in met : \A j \in met :
          Lines(old[j]) < Lines(old[i]) \/ (Lines(old[j]) = Lines(old[i]) /\ j <= i)]

(* mutant: only a row without a branch takes one.                             *)
SetFromOnce(row, other) ==
    [row EXCEPT !.branch = IF @ # None THEN @
                           ELSE IF other.branch \in applied THEN other.branch ELSE None]
SetFrom(row, other) ==
    [row EXCEPT !.branch = IF other.branch \in applied THEN other.branch ELSE None]

Reconcile(new, old) ==
    [i \in DOMAIN new |->
        LET met == Met(new[i], old)
        IN IF met = {} THEN new[i] ELSE SetFrom(new[i], Biggest(old, met))]

-----------------------------------------------------------------------------
AssignmentInit ==
    /\ changes = <<>> /\ edited = 0 /\ rows = <<>>
    /\ applied = Branch

(* A new place is edited, apart from the others; an edited one grows; or it   *)
(* is reverted, as it is when its change is committed.                        *)
Places == {p \in [top : 0..FileLines, bottom : 0..FileLines, lines : 0..MaxLines] :
              p.top <= p.bottom /\ (p.top = p.bottom => p.lines > 0)}
EditWorktree ==
    /\ edited < MaxEdits /\ edited' = edited + 1
    /\ \/ \E p \in Places, n \in 0..Len(changes) :
            /\ \A i \in 1..n : changes[i].bottom < p.top
            /\ \A i \in (n + 1)..Len(changes) : p.bottom < changes[i].top
            /\ changes' = SubSeq(changes, 1, n) \o <<p>>
                             \o SubSeq(changes, n + 1, Len(changes))
       \/ \E i \in DOMAIN changes :
            /\ changes[i].lines < MaxLines
            /\ changes' = [changes EXCEPT ![i].lines = @ + 1]
       \/ \E i \in DOMAIN changes : changes' = RemoveAt(changes, i)
    /\ UNCHANGED <<applied, rows>>

(* A branch is applied, or leaves the workspace.                              *)
ChangeWorkspace ==
    /\ \E b \in Branch : applied' \in {applied \cup {b}, applied \ {b}}
    /\ UNCHANGED <<changes, edited, rows>>

(* reconcile_worktree_changes_with_worktree: without any change the rows are  *)
(* left as they are.                                                          *)
Scan ==
    /\ changes # <<>>
    /\ \E eager \in BOOLEAN : rows' = Reconcile(Scanned(changes, eager), rows)
    /\ UNCHANGED <<changes, edited, applied>>

(* assign: the hunks of the moment first take what the rows say, then what is *)
(* requested for one that a client was shown.  The scan always takes hunks.   *)
Assign(header, branch) ==
    /\ rows' = Reconcile(Reconcile(Scanned(changes, TRUE), rows),
                         <<[header |-> header, branch |-> branch]>>)
    /\ UNCHANGED <<changes, edited, applied>>

(* assign_ids_to_stack: the rows are changed as they are, without a scan.     *)
AssignIds(ids, branch) ==
    /\ branch \in applied /\ ids # {}
    /\ rows' = [i \in DOMAIN rows |-> IF i \in ids THEN [rows[i] EXCEPT !.branch = branch]
                                                   ELSE rows[i]]
    /\ UNCHANGED <<changes, edited, applied>>

AssignmentNext ==
    \/ EditWorktree \/ ChangeWorkspace \/ Scan
    \/ \E i \in DOMAIN rows, b \in Branch \cup {None} : Assign(rows[i].header, b)
    \/ \E ids \in SUBSET DOMAIN rows, b \in Branch : AssignIds(ids, b)

AssignmentSpec == AssignmentInit /\ [][AssignmentNext]_assignmentVars

-----------------------------------------------------------------------------
(* What a scan decides is what every further scan decides, until the worktree *)
(* or the workspace changes: no assignment wanders from hunk to hunk, or to a *)
(* branch that is not applied.                                                *)
ScansSettle ==
    \A eager \in BOOLEAN :
        LET once == Reconcile(Scanned(changes, eager), rows)
        IN changes # <<>> =>
             /\ Reconcile(Scanned(changes, eager), once) = once
             /\ \A i \in DOMAIN once : once[i].branch \in applied \cup {None}

(* A request for a hunk that is still there assigns that hunk and no other.   *)
AssignIsExact ==
    [][\A i \in DOMAIN rows, b \in applied \cup {None} :
          LET header == rows[i].header
              before == Reconcile(Scanned(changes, TRUE), rows)
          IN Assign(header, b) /\ header \in {before[j].header : j \in DOMAIN before}
               => rows' = [j \in DOMAIN before |->
                             IF before[j].header = header
                             THEN [before[j] EXCEPT !.branch = b] ELSE before[j]]]_assignmentVars

(* "hunks that were previously assigned and now in they have been modified in *)
(* the worktree are still assigned to the same stack" (lib.rs:557): a hunk    *)
(* that stays as it was, while others are edited, keeps its branch.           *)
HunksKeepTheirBranch ==
    [][\A i \in DOMAIN rows, j \in DOMAIN rows' :
         (/\ Scan
          /\ rows[i].header # Whole /\ rows'[j].header # Whole
          /\ rows'[j].header.oldStart = rows[i].header.oldStart
          /\ rows'[j].header.oldLines = rows[i].header.oldLines
          /\ rows'[j].header.newLines = rows[i].header.newLines
          /\ rows[i].branch \in applied)
            => rows'[j].branch = rows[i].branch]_assignmentVars
=============================================================================
