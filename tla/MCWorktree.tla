----------------------------- MODULE MCWorktree -----------------------------
(* What happens to the files of the worktree: a restore writes them, and the  *)
(* debouncer notes that they have changed.  The two share nothing, so that    *)
(* one run takes one of them at a time while the other rests.                 *)
EXTENDS MCSnapshotRestore, Debouncer

VARIABLE focus

(* Two files that are shown and one that is ignored.                          *)
CONSTANTS one, another, ignored
MCNames == {one, another, ignored}
MCIgnored == {ignored}
Same == Alike \cup Permutations({one, another})

WorktreeInit ==
    /\ focus \in {"restore", "events"}
    /\ RestoreInit /\ (focus = "events" => repo.worktree = Blank /\ \A s \in Stacks : repo.meta[s] = None)
    /\ DebouncerInit /\ (focus = "restore" => \A p \in Names : disk[p] = "none")

WorktreeNext ==
    /\ UNCHANGED focus
    /\ \/ focus = "restore" /\ RestoreNext /\ UNCHANGED debouncerVars
       \/ focus = "events" /\ DebouncerNext /\ UNCHANGED restoreVars

WorktreeSpec == WorktreeInit /\ [][WorktreeNext]_<<focus, restoreVars, debouncerVars>>

-----------------------------------------------------------------------------
(* The type invariants of the two.                                            *)
WorktreeTypeOK == RestoreTypeOK /\ DebouncerTypeOK
=============================================================================
