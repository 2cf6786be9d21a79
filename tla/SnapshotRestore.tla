-------------------------- MODULE SnapshotRestore --------------------------
(* Taking a snapshot of the repository and restoring it                       *)
(* (crates/gitbutler-oplog/src/oplog.rs), with the restore broken into the    *)
(* writes it makes, any of which may fail or be the last before a crash.      *)
(* The oplog's choice of what to restore is module Oplog; here every entry    *)
(* may be chosen.  A file's content is atomic: a checkout that would merge    *)
(* edits of different lines of one file is one that conflicts.                *)
EXTENDS Integers, Sequences, FiniteSets

CONSTANTS Stacks,        \* stacks, each with its one branch
          Commits,       \* what a branch may point to
          Paths, Contents,
          None,          \* no file, no branch head, no snapshot, no workspace
          MaxLog,        \* bound on the operations log
          MaxChanges     \* bound on what happens outside of restores

ASSUME NoneIsNoValue == None \notin Commits
ASSUME BoundsAreNatural == MaxLog \in Nat /\ MaxChanges \in Nat

VARIABLES repo,     \* what a snapshot is about, see Repo
          objects,  \* commits that are in the object database
          log,      \* the snapshots, oldest first
          call,     \* the restore that runs
          changes   \* how often the rest of the world acted
restoreVars == <<repo, objects, log, call, changes>>

Trees == [Paths -> Contents \cup {None}]
BranchHead == Commits \cup {None}
Repo == [worktree : Trees, index : Trees, conflicts : BOOLEAN,
         meta : [Stacks -> BranchHead],      \* None: not in the workspace
         ref : [Stacks -> BranchHead],       \* None: no such reference
         workspace : Trees,            \* the commit of gitbutler/workspace
         head : {"workspace", "elsewhere", "detached"}]
Snapshot == [worktree : Trees, index : Trees, conflicts : BOOLEAN,
             meta : [Stacks -> BranchHead], workspace : Trees, onWorkspace : BOOLEAN]
Steps == {"idle", "conflicts", "reconstitute", "check", "checkout", "metadata",
          "refs", "index", "record", "done", "failed"}

(* safe is the feature flag cv3.  For the properties only: began, the         *)
(* repository at the start of the call, with entries in the log; raced, others*)
(* changed files or HEAD during the call; ignored, a reference was not set.   *)
Call == [step : Steps, target : Snapshot, before : Snapshot, prepared : BOOLEAN,
         safe : BOOLEAN, began : Repo, entries : Nat, raced : BOOLEAN, ignored : BOOLEAN]

(* The parts have the right types: no head is a branch's that has none.       *)
RestoreTypeOK ==
    /\ repo \in Repo
    /\ objects \in SUBSET Commits
    /\ log \in Seq(Snapshot)
    /\ call \in Call
    /\ changes \in 0..MaxChanges

-----------------------------------------------------------------------------
(* prepare_snapshot_with_target                                               *)

InWorkspace(meta) == {s \in Stacks : meta[s] # None}

(* A branch whose reference is gone gets it back from the metadata.           *)
Recreated(r, S) == [s \in Stacks |->
    IF s \in S \cap InWorkspace(r.meta) /\ r.ref[s] = None THEN r.meta[s] ELSE r.ref[s]]

(* "If the references are out of sync, now is a good time to update them"     *)
Synced(r) == [s \in Stacks |->
    IF r.meta[s] # None /\ r.ref[s] # None THEN r.ref[s] ELSE r.meta[s]]

Resolvable(r) == \A s \in InWorkspace(r.meta) : Synced(r)[s] \in objects

SnapshotOf(r) ==
    [worktree |-> r.worktree, index |-> r.index, conflicts |-> r.conflicts,
     meta |-> Synced(r), workspace |-> r.workspace,
     onWorkspace |-> r.head = "workspace"]

Prepared(r) == [r EXCEPT !.ref = Recreated(r, Stacks), !.meta = Synced(r)]

(* The metadata is written last, before the tree of the worktree.             *)
HalfPrepared(r) ==
    {[r EXCEPT !.ref = Recreated(r, S)] : S \in SUBSET Stacks} \cup {Prepared(r)}

-----------------------------------------------------------------------------
Goto(step) == call' = [call EXCEPT !.step = step]
Running == call.step \notin {"idle", "done", "failed"}
At(step) == call.step = step

Blank == [p \in Paths |-> None]
BlankRepo == [worktree |-> Blank, index |-> Blank, conflicts |-> FALSE,
              meta |-> [s \in Stacks |-> None], ref |-> [s \in Stacks |-> None],
              workspace |-> Blank, head |-> "workspace"]
NoCall == [step |-> "idle", target |-> SnapshotOf(BlankRepo),
           before |-> SnapshotOf(BlankRepo), prepared |-> TRUE, safe |-> FALSE,
           began |-> BlankRepo, entries |-> 0, raced |-> FALSE, ignored |-> FALSE]

RestoreInit ==
    /\ \E c \in Commits, t \in Trees, S \in SUBSET Stacks :
        /\ repo = [worktree |-> t, index |-> t, conflicts |-> FALSE,
                   meta |-> [s \in Stacks |-> IF s \in S THEN c ELSE None],
                   ref |-> [s \in Stacks |-> c],
                   workspace |-> t, head |-> "workspace"]
        /\ objects = {c}
    /\ log = <<>>
    /\ call = NoCall
    /\ changes = 0

(* restore_snapshot: the state before is prepared first, but whether that     *)
(* succeeded is looked at only when all else is done.                         *)
BeginRestore ==
    /\ At("idle") /\ Len(log) < MaxLog
    /\ \E i \in DOMAIN log, ok \in BOOLEAN, safe \in BOOLEAN :
        /\ ok => Resolvable(repo)
        /\ repo' \in IF ok THEN {Prepared(repo)} ELSE HalfPrepared(repo)
        /\ call' = [step |-> "conflicts", target |-> log[i], before |-> SnapshotOf(repo),
                    prepared |-> ok, safe |-> safe, began |-> repo, entries |-> Len(log),
                    raced |-> FALSE, ignored |-> FALSE]
    /\ UNCHANGED <<objects, log, changes>>

(* restore_conflicts_tree, an error of which is ignored; or the snapshot      *)
(* turns out to lack a part.                                                  *)
RestoreConflicts ==
    /\ At("conflicts")
    /\ \/ repo' = [repo EXCEPT !.conflicts = call.target.conflicts] /\ Goto("reconstitute")
       \/ UNCHANGED repo /\ Goto("reconstitute")
       \/ UNCHANGED repo /\ Goto("failed")
    /\ UNCHANGED <<objects, log, changes>>

HeadsOfAll(snapshot) ==  \* mutant: stacks outside of the workspace too
    {snapshot.meta[s] : s \in Stacks}
HeadsOf(snapshot) == {snapshot.meta[s] : s \in InWorkspace(snapshot.meta)}

ReconstituteAnyway ==  \* mutant: does not look where HEAD is
    /\ At("reconstitute")
    /\ objects' = objects \cup HeadsOf(call.target)
    /\ repo' = [repo EXCEPT !.workspace = call.target.workspace]
    /\ Goto("check")
    /\ UNCHANGED <<log, changes>>

(* Commits that are gone are written again; the workspace reference follows   *)
(* if HEAD is on it.                                                          *)
Reconstitute ==
    /\ At("reconstitute")
    /\ objects' = objects \cup HeadsOf(call.target)
    /\ IF call.target.onWorkspace /\ repo.head = "workspace"
       THEN repo' = [repo EXCEPT !.workspace = call.target.workspace]
       ELSE UNCHANGED repo
    /\ Goto(IF call.target.onWorkspace /\ repo.head = "detached" THEN "failed" ELSE "check")
    /\ UNCHANGED <<log, changes>>

(* "We will not change a worktree which for some reason isn't on the          *)
(* workspace branch"                                                          *)
CheckHead ==
    /\ At("check")
    /\ Goto(IF repo.head = "workspace" THEN "checkout" ELSE "failed")
    /\ UNCHANGED <<repo, objects, log, changes>>

-----------------------------------------------------------------------------
(* safe_checkout_from_head touches the paths in which HEAD differs from what  *)
(* it is to check out, and refuses if a change there would be overwritten.    *)
Touched(source, destination) == {p \in Paths : source[p] # destination[p]}

Overwrites(source, destination, worktree) ==
    \E p \in Touched(source, destination) :
        worktree[p] \notin {source[p], destination[p], None}

CheckedOut(source, destination, tree) == [p \in Paths |->
    IF p \in Touched(source, destination) THEN destination[p] ELSE tree[p]]

SafeCheckout(r, destination) ==
    [r EXCEPT !.worktree = CheckedOut(r.workspace, destination, r.worktree),
              !.index = CheckedOut(r.workspace, destination, r.index)]

ForceCheckoutTracked(r, destination) ==  \* mutant: untracked files stay
    [r EXCEPT !.worktree = [p \in Paths |->
                  IF destination[p] = None THEN r.worktree[p] ELSE destination[p]],
              !.index = destination]

(* checkout_workdir_tree: forced, and untracked files are removed.            *)
ForceCheckout(r, destination) == [r EXCEPT !.worktree = destination, !.index = destination]

(* HEAD's tree, when HEAD has been moved away during the call, may be any.    *)
Source(r) == IF r.head = "workspace" THEN {r.workspace} ELSE Trees

Checkout ==
    /\ At("checkout")
    /\ \E source \in Source(repo) :
        LET destination == call.target.worktree
            r == [repo EXCEPT !.workspace = source]
            out == IF call.safe THEN [SafeCheckout(r, destination) EXCEPT !.workspace = repo.workspace]
                                ELSE ForceCheckout(repo, destination)
            refused == call.safe /\ Overwrites(source, destination, repo.worktree)
        IN \/ ~refused /\ repo' = out /\ Goto("metadata")
           \/ refused /\ UNCHANGED repo /\ Goto("failed")
           \/ /\ ~refused
              /\ \E P \in SUBSET Paths :
                    repo' = [repo EXCEPT !.worktree =
                        [p \in Paths |-> IF p \in P THEN out.worktree[p] ELSE repo.worktree[p]]]
              /\ Goto("failed")
    /\ UNCHANGED <<objects, log, changes>>

(* restore_legacy_metadata_from_toml: the file, then its import.              *)
RestoreMetadata ==
    /\ At("metadata")
    /\ \/ repo' = [repo EXCEPT !.meta = call.target.meta] /\ Goto("refs")
       \/ repo' \in {repo, [repo EXCEPT !.meta = call.target.meta]} /\ Goto("failed")
    /\ UNCHANGED <<objects, log, changes>>

RestoreMissingRefs ==  \* mutant: PreviousValue::MustNotExist
    /\ At("refs")
    /\ repo' = [repo EXCEPT !.ref = [s \in Stacks |->
                    IF repo.ref[s] = None THEN call.target.meta[s] ELSE repo.ref[s]]]
    /\ Goto("index")
    /\ UNCHANGED <<objects, log, changes>>

(* set_reference_to_stored_head, an error of which is ignored.                *)
RestoreRefs ==
    /\ At("refs")
    /\ \E S \in SUBSET InWorkspace(call.target.meta) :
        /\ repo' = [repo EXCEPT !.ref =
                        [s \in Stacks |-> IF s \in S THEN call.target.meta[s] ELSE repo.ref[s]]]
        /\ call' = [call EXCEPT !.step = "index",
                                !.ignored = S # InWorkspace(call.target.meta)]
    /\ UNCHANGED <<objects, log, changes>>

(* reset_index_to_tree                                                        *)
RestoreIndex ==
    /\ At("index")
    /\ \/ repo' = [repo EXCEPT !.index = call.target.index] /\ Goto("record")
       \/ UNCHANGED repo /\ Goto("failed")
    /\ UNCHANGED <<objects, log, changes>>

RecordRestoreLate ==  \* mutant: the snapshot is prepared when it is committed
    /\ At("record")
    /\ log' = Append(log, SnapshotOf(repo))
    /\ Goto("done")
    /\ UNCHANGED <<repo, objects, changes>>

(* The state before is committed to the log, if it could be prepared; the log *)
(* may have it even if the reflog could not be written.                       *)
RecordRestore ==
    /\ At("record")
    /\ \/ call.prepared /\ log' = Append(log, call.before) /\ Goto("done")
       \/ ~call.prepared /\ UNCHANGED log /\ Goto("failed")
       \/ call.prepared /\ log' \in {log, Append(log, call.before)} /\ Goto("failed")
    /\ UNCHANGED <<repo, objects, changes>>

BreakOff ==
    /\ Running
    /\ Goto("failed")
    /\ UNCHANGED <<repo, objects, log, changes>>

Return ==
    /\ At("done") \/ At("failed")
    /\ call' = NoCall
    /\ UNCHANGED <<repo, objects, log, changes>>

RestoreStep ==
    \/ RestoreConflicts \/ Reconstitute \/ CheckHead \/ Checkout \/ RestoreMetadata
    \/ RestoreRefs \/ RestoreIndex \/ RecordRestore

-----------------------------------------------------------------------------
(* The rest of the world                                                      *)
Change == changes < MaxChanges /\ changes' = changes + 1
Race == IF Running THEN call' = [call EXCEPT !.raced = TRUE] ELSE UNCHANGED call

(* The stacks have these heads, in a workspace with this tree.                *)
Reworked(r, heads, t, w) ==
    [worktree |-> w, index |-> t, conflicts |-> r.conflicts, meta |-> heads,
     ref |-> [s \in Stacks |-> IF heads[s] = None THEN r.ref[s] ELSE heads[s]],
     workspace |-> t, head |-> r.head]

(* An operation of the application: create_snapshot, and then it leaves the   *)
(* workspace in some other orderly state, or fails.                           *)
Operate ==
    /\ At("idle") /\ Change /\ Len(log) < MaxLog
    /\ repo.head = "workspace" /\ Resolvable(repo)
    /\ log' = Append(log, SnapshotOf(repo))
    /\ \E heads \in [Stacks -> BranchHead], t \in Trees : \E w \in {repo.worktree, t} :
        /\ repo' = Reworked(Prepared(repo), heads, t, w)
        /\ objects' = objects \cup ({heads[s] : s \in Stacks} \ {None})
    /\ UNCHANGED call

Edit ==
    /\ At("idle") \/ Running
    /\ Change /\ Race
    /\ \E p \in Paths, c \in Contents \cup {None} : repo' = [repo EXCEPT !.worktree[p] = c]
    /\ UNCHANGED <<objects, log>>

SwitchHead ==
    /\ At("idle") \/ Running
    /\ Change /\ Race
    /\ \E h \in {"workspace", "elsewhere", "detached"} \ {repo.head} :
        repo' = [repo EXCEPT !.head = h]
    /\ UNCHANGED <<objects, log>>

MoveRef ==
    /\ At("idle") /\ Change
    /\ \E s \in Stacks, c \in objects \cup {None} : repo' = [repo EXCEPT !.ref[s] = c]
    /\ UNCHANGED <<objects, log, call>>

(* A conflict left by a merge outside of the application.                     *)
Conflict ==
    /\ At("idle") /\ Change
    /\ repo' = [repo EXCEPT !.conflicts = ~@]
    /\ UNCHANGED <<objects, log, call>>

(* git gc: what no reference points to may go; the snapshots in the log hold  *)
(* the data of their commits, but as trees.                                   *)
CollectGarbage ==
    /\ At("idle") /\ Change
    /\ objects' = {repo.ref[s] : s \in Stacks} \cap objects
    /\ UNCHANGED <<repo, log, call>>

World == Operate \/ Edit \/ SwitchHead \/ MoveRef \/ Conflict \/ CollectGarbage
RestoreNext == BeginRestore \/ RestoreStep \/ BreakOff \/ Return \/ World
RestoreSpec == RestoreInit /\ [][RestoreNext]_restoreVars

-----------------------------------------------------------------------------
(* A restore that reports success leaves the files, the index and the         *)
(* metadata as the snapshot has them, and so the workspace reference if the   *)
(* snapshot was taken on it: no step is undone by one after it, in whatever   *)
(* state the repository was.  (Without the flag, and if nobody interferes.)   *)
RestoresTheSnapshot ==
    At("done") /\ ~call.safe /\ ~call.raced =>
        /\ repo.worktree = call.target.worktree
        /\ repo.index = call.target.index
        /\ repo.meta = call.target.meta
        /\ call.target.onWorkspace => repo.workspace = call.target.workspace

(* "The state of the working directory is checked out", with the flag too.    *)
RestoresTheFiles ==
    At("done") /\ ~call.raced => repo.worktree = call.target.worktree

(* ... and every branch in the workspace points to its head, which exists     *)
(* even if it had been collected as garbage, so that the next snapshot does   *)
(* not pull the metadata back to where the references still are.              *)
RestoresTheBranches ==
    At("done") /\ ~call.ignored =>
        /\ repo.meta = call.target.meta
        /\ Synced(repo) = call.target.meta
        /\ Resolvable(repo)

(* "Upon success, a new snapshot is created representing the state right      *)
(* before this call": restoring the newest entry takes the restore back.      *)
CanBeTakenBack ==
    At("done") =>
        /\ Len(log) = call.entries + 1
        /\ log[Len(log)] = SnapshotOf(call.began)

(* A restore that fails after having found HEAD off the workspace has changed *)
(* no file, no index, not the workspace reference nor the log.                *)
RefusalLeavesWork ==
    At("failed") /\ call.began.head # "workspace" /\ ~call.raced =>
        /\ repo.worktree = call.began.worktree
        /\ repo.index = call.began.index
        /\ repo.workspace = call.began.workspace
        /\ Len(log) = call.entries
=============================================================================
