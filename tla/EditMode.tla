------------------------------ MODULE EditMode ------------------------------
(* Editing a commit of the workspace in place: crates/gitbutler-edit-mode on  *)
(* the modes of crates/gitbutler-operating-modes.  Entering sets the          *)
(* uncommitted changes aside under a reference and checks the commit out;     *)
(* saving rebases the workspace onto what the commit has become, aborting     *)
(* does not, and both bring the changes back.  Each call is broken into its   *)
(* writes, any of which may be the last before a crash.                       *)
(* A tree is the committed tree it started from and the pieces of work that   *)
(* were added since, each typed once.  The stack is one line of commits; a    *)
(* commit made by git in edit mode changes no tree and is not a step.         *)
EXTENDS Naturals

CONSTANTS Work,        \* what the user may type
          Depth,       \* the number of commits in the stack, 1 is the lowest
          MaxRewrites, \* bound on how often the workspace is rewritten
          MaxFaults    \* bound on crashes and errors

ASSUME BoundsAreNatural ==
    Depth \in Nat \ {0} /\ MaxRewrites \in Nat /\ MaxFaults \in Nat

VARIABLES head,      \* what HEAD refers to
          worktree,
          saved,     \* refs/gitbutler/edit-uncommitted-changes, a tree
          metadata,  \* the commit in edit_mode_metadata.toml, or NoCommit
          branch,    \* the commit gitbutler/edit was made for, or NoCommit
          made,      \* per commit of the stack, the rewrite that made it
          rewrites,
          committed, \* the work in the commits of the stack
          recorded,  \* the work in the snapshots of the operations log
          call,      \* the call that runs
          faults,
          typed, risked, entered, strayed  \* for the properties, see there
repository == <<head, worktree, saved, metadata, branch, made, rewrites, committed>>
history == <<typed, risked, entered, strayed>>
vars == <<repository, recorded, call, faults, history>>

Positions == 1..Depth
Commit == [at : Positions, made : 0..MaxRewrites]
NoCommit == [at |-> 0, made |-> 0]
CommitOrNone == Commit \cup {NoCommit}
Base == [of : {"workspace"}, version : 0..MaxRewrites] \cup
        [of : {"commit"}, version : CommitOrNone] \cup [of : {"other", "mixed"}, version : {0}]
Tree == [base : Base, work : SUBSET Work]
Steps == {"idle", "set aside", "describe", "branch", "head", "check out", "record",
          "leave", "bring back", "saved", "clean", "reapply"}

(* Trees, commits and steps are such.                                         *)
TypeOK ==
    /\ head \in {"workspace", "edit", "elsewhere"}
    /\ worktree \in Tree /\ saved \in Tree /\ entered \in Tree
    /\ metadata \in CommitOrNone /\ branch \in CommitOrNone
    /\ made \in [Positions -> 0..MaxRewrites]
    /\ rewrites \in 0..MaxRewrites
    /\ committed \subseteq Work /\ recorded \subseteq Work
    /\ typed \subseteq Work /\ risked \subseteq Work /\ strayed \in BOOLEAN
    /\ call \in [step : Steps, commit : CommitOrNone, snapshot : SUBSET Work,
                 workspace : Base]
    /\ faults \in 0..MaxFaults

-----------------------------------------------------------------------------
Workspace(version) == [of |-> "workspace", version |-> version]
CommitTree(c) == [of |-> "commit", version |-> c]
Other == [of |-> "other", version |-> 0]
Mixed == [of |-> "mixed", version |-> 0]
Clean(base) == [base |-> base, work |-> {}]

InStack(c) == c \in Commit /\ made[c.at] = c.made
OpenWorkspace == head = "workspace"
Editing == head = "edit" /\ metadata # NoCommit

TreeOf(h) == CASE h = "workspace" -> Workspace(rewrites)
               [] h = "edit" -> CommitTree(branch)
               [] h = "elsewhere" -> Other

At(step) == call.step = step
Goto(step) == call' = [step |-> step, commit |-> call.commit,
                       snapshot |-> call.snapshot, workspace |-> call.workspace]
Begin(step, workspace) == call' = [step |-> step, commit |-> NoCommit,
                                   snapshot |-> {}, workspace |-> workspace]
NoCall == [step |-> "idle", commit |-> NoCommit, snapshot |-> {}, workspace |-> Other]

Init ==
    /\ head = "workspace"
    /\ worktree = Clean(Workspace(0)) /\ saved = Clean(Other) /\ entered = Clean(Other)
    /\ metadata = NoCommit /\ branch = NoCommit
    /\ made = [p \in Positions |-> 0] /\ rewrites = 0
    /\ committed = {} /\ recorded = {} /\ typed = {} /\ risked = {}
    /\ call = NoCall /\ faults = 0 /\ strayed = FALSE

-----------------------------------------------------------------------------
(* enter_edit_mode: a snapshot is prepared; what follows may then leave the   *)
(* commit that is to be edited without it.                                    *)
Enter ==
    /\ At("idle") /\ OpenWorkspace
    /\ \E p \in Positions :
        call' = [step |-> "set aside", commit |-> [at |-> p, made |-> made[p]],
                 snapshot |-> worktree.work, workspace |-> Other]
    /\ risked' = risked \cup worktree.work
    /\ entered' = worktree
    /\ UNCHANGED <<repository, recorded, faults, typed, strayed>>

SetAsideOnce ==  \* mutant: PreviousValue::MustNotExist
    /\ At("set aside")
    /\ saved' = IF saved = Clean(Other) THEN worktree ELSE saved
    /\ Goto("describe")
    /\ UNCHANGED <<head, worktree, metadata, branch, made, rewrites, committed,
                   recorded, faults, history>>

(* commit_uncommited_changes, over what the reference held before.            *)
SetAside ==
    /\ At("set aside")
    /\ saved' = worktree
    /\ Goto("describe")
    /\ UNCHANGED <<head, worktree, metadata, branch, made, rewrites, committed,
                   recorded, faults, history>>

WriteMetadataOnce ==  \* mutant: a file that exists is kept
    /\ At("describe")
    /\ metadata' = IF metadata = NoCommit THEN call.commit ELSE metadata
    /\ Goto("branch")
    /\ UNCHANGED <<head, worktree, saved, branch, made, rewrites, committed,
                   recorded, faults, history>>

WriteMetadata ==
    /\ At("describe")
    /\ metadata' = call.commit
    /\ Goto("branch")
    /\ UNCHANGED <<head, worktree, saved, branch, made, rewrites, committed,
                   recorded, faults, history>>

MakeBranch ==
    /\ At("branch")
    /\ branch' = call.commit
    /\ Goto("head")
    /\ UNCHANGED <<head, worktree, saved, metadata, made, rewrites, committed,
                   recorded, faults, history>>

MoveHeadDetached ==  \* mutant: HEAD gets the commit, not the branch
    /\ At("head")
    /\ head' = "detached"
    /\ Goto("check out")
    /\ UNCHANGED <<worktree, saved, metadata, branch, made, rewrites, committed,
                   recorded, faults, history>>

MoveHead ==
    /\ At("head")
    /\ head' = "edit"
    /\ Goto("check out")
    /\ UNCHANGED <<worktree, saved, metadata, branch, made, rewrites, committed,
                   recorded, faults, history>>

(* Forced, and untracked files are removed.                                   *)
CheckOutCommit ==
    /\ At("check out")
    /\ worktree' = Clean(CommitTree(call.commit))
    /\ Goto("record")
    /\ UNCHANGED <<head, saved, metadata, branch, made, rewrites, committed,
                   recorded, faults, history>>

(* commit_snapshot, an error of which is ignored.                             *)
RecordEntry ==
    /\ At("record")
    /\ \/ recorded' = recorded \cup call.snapshot /\ UNCHANGED faults
       \/ faults < MaxFaults /\ faults' = faults + 1 /\ UNCHANGED recorded
    /\ call' = NoCall
    /\ UNCHANGED <<repository, history>>

-----------------------------------------------------------------------------
ChangesFromInitial == worktree # Clean(CommitTree(metadata))

AbortUnchecked ==  \* mutant: changes_from_initial is not looked at
    /\ At("idle") /\ Editing
    /\ Begin("leave", Other)
    /\ UNCHANGED <<repository, recorded, faults, history>>

(* abort_and_return_to_workspace: the user forces it if there are changes,    *)
(* and so gives them up.                                                      *)
Abort ==
    /\ At("idle") /\ Editing
    /\ \E force \in BOOLEAN :
        /\ force \/ ~ChangesFromInitial
        /\ Begin("leave", Other)
        /\ typed' = IF force THEN typed \ (worktree.work \ saved.work) ELSE typed
    /\ UNCHANGED <<repository, recorded, faults, risked, entered, strayed>>

Leave ==
    /\ At("leave")
    /\ head' = "workspace"
    /\ Goto("bring back")
    /\ UNCHANGED <<worktree, saved, metadata, branch, made, rewrites, committed,
                   recorded, faults, history>>

BringBackOverUntracked ==  \* mutant: untracked files are not removed
    /\ At("bring back")
    /\ worktree' = [base |-> saved.base, work |-> saved.work \cup worktree.work]
    /\ call' = NoCall
    /\ UNCHANGED <<head, saved, metadata, branch, made, rewrites, committed,
                   recorded, faults, history>>

BringBack ==
    /\ At("bring back")
    /\ worktree' = saved
    /\ call' = NoCall
    /\ UNCHANGED <<head, saved, metadata, branch, made, rewrites, committed,
                   recorded, faults, history>>

-----------------------------------------------------------------------------
(* Commits from a position on are made anew when that one is replaced.        *)
Rewrite(p) ==
    /\ rewrites' = rewrites + 1
    /\ made' = [q \in Positions |-> IF q >= p THEN rewrites + 1 ELSE made[q]]

(* save_and_return_to_workspace up to materialize_without_checkout: all that  *)
(* is in the worktree becomes the commit.                                     *)
Save ==
    /\ At("idle") /\ Editing
    /\ InStack(metadata) /\ rewrites < MaxRewrites
    /\ Rewrite(metadata.at)
    /\ committed' = committed \cup worktree.work
    /\ Begin("saved", Workspace(rewrites))
    /\ UNCHANGED <<head, worktree, saved, metadata, branch, recorded, faults, history>>

ReturnToWorkspace ==
    /\ At("saved")
    /\ head' = "workspace"
    /\ Goto("clean")
    /\ UNCHANGED <<worktree, saved, metadata, branch, made, rewrites, committed,
                   recorded, faults, history>>

CheckOutHead ==
    /\ At("clean")
    /\ worktree' = Clean(Workspace(rewrites))
    /\ Goto("reapply")
    /\ UNCHANGED <<head, saved, metadata, branch, made, rewrites, committed,
                   recorded, faults, history>>

(* move_tree_between_workspaces: what the tree set aside has over the old     *)
(* workspace is put on top of the new one.                                    *)
Moved(tree, old, new) ==
    [base |-> IF tree.base = old THEN new ELSE Mixed, work |-> tree.work]

ReapplyAsIs ==  \* mutant: the tree set aside is checked out as it is
    /\ At("reapply")
    /\ worktree' = saved
    /\ call' = NoCall
    /\ UNCHANGED <<head, saved, metadata, branch, made, rewrites, committed,
                   recorded, faults, history>>

Reapply ==
    /\ At("reapply")
    /\ worktree' = Moved(saved, call.workspace, Workspace(rewrites))
    /\ call' = NoCall
    /\ UNCHANGED <<head, saved, metadata, branch, made, rewrites, committed,
                   recorded, faults, history>>

(* A crash, or an error on which the call returns; a checkout may have been   *)
(* under way, of a tree that is kept elsewhere.                               *)
Target == CASE At("check out") -> Clean(CommitTree(call.commit))
            [] At("bring back") -> saved
            [] At("clean") -> Clean(Workspace(rewrites))
            [] At("reapply") -> Moved(saved, call.workspace, Workspace(rewrites))
            [] OTHER -> worktree
HalfCheckedOut == {[base |-> Mixed, work |-> W] :
                    W \in SUBSET (worktree.work \cup Target.work)}

Crash ==
    /\ ~At("idle") /\ faults < MaxFaults /\ faults' = faults + 1
    /\ call' = NoCall
    /\ worktree' \in {worktree} \cup
            (IF At("check out") \/ At("bring back") \/ At("clean") \/ At("reapply")
             THEN HalfCheckedOut ELSE {})
    /\ UNCHANGED <<head, saved, metadata, branch, made, rewrites, committed,
                   recorded, history>>

-----------------------------------------------------------------------------
(* The user types into the worktree, in any mode.                             *)
Type ==
    /\ At("idle")
    /\ \E w \in Work \ typed :
        /\ w \notin risked \cup committed \cup worktree.work \cup saved.work
        /\ worktree' = [base |-> worktree.base, work |-> worktree.work \cup {w}]
        /\ typed' = typed \cup {w}
    /\ UNCHANGED <<head, saved, metadata, branch, made, rewrites, committed,
                   recorded, call, faults, risked, entered, strayed>>

(* The workspace takes up the changes as a commit on top.                     *)
CommitWork ==
    /\ At("idle") /\ OpenWorkspace
    /\ worktree.work # {} /\ rewrites < MaxRewrites
    /\ Rewrite(Depth)
    /\ committed' = committed \cup worktree.work
    /\ worktree' = Clean(IF worktree.base = Workspace(rewrites)
                         THEN Workspace(rewrites + 1) ELSE Mixed)
    /\ UNCHANGED <<head, saved, metadata, branch, recorded, call, faults, history>>

(* git switch, which takes changes along.                                     *)
Switch ==
    /\ At("idle")
    /\ \E h \in {"workspace", "edit", "elsewhere"} \ {head} :
        /\ h = "edit" => branch # NoCommit
        /\ head' = h
        /\ worktree' = [base |-> IF worktree.base = TreeOf(head) THEN TreeOf(h) ELSE Mixed,
                        work |-> worktree.work]
    /\ strayed' = TRUE
    /\ UNCHANGED <<saved, metadata, branch, made, rewrites, committed,
                   recorded, call, faults, typed, risked, entered>>

EnterStep == SetAside \/ WriteMetadata \/ MakeBranch \/ MoveHead \/ CheckOutCommit \/ RecordEntry
AbortStep == Leave \/ BringBack
SaveStep == ReturnToWorkspace \/ CheckOutHead \/ Reapply
Next ==
    \/ Enter \/ EnterStep
    \/ Abort \/ AbortStep
    \/ Save \/ SaveStep
    \/ Crash \/ Type \/ CommitWork \/ Switch
Spec == Init /\ [][Next]_vars

-----------------------------------------------------------------------------
(* typed is the work the user has not given up; risked is the work that was   *)
(* in a worktree when edit mode was entered; entered is the worktree then;    *)
(* strayed says that the user has switched branches with git.                 *)
Held == worktree.work \cup saved.work \cup recorded \cup committed

(* However many faults there are, and whatever the user does with git: work   *)
(* is lost only if the snapshot of an entry into edit mode was not recorded,  *)
(* although the reference for it is overwritten by every entry.               *)
RecordedWorkIsHeld == typed \ (risked \ recorded) \subseteq Held

(* One crash or error at any point of any call, in any order of calls, loses  *)
(* no work: it is in the worktree, set aside, in the log or committed.        *)
WorkIsHeld == faults <= 1 /\ ~strayed => typed \subseteq Held

(* Whoever is in edit mode, if by way of this code, edits the commit that is  *)
(* going to be replaced, and has set aside what the worktree held before.     *)
EditsTheRightCommit ==
    ~strayed /\ Editing => branch = metadata /\ saved = entered

(* Without a crash, a worktree differs from HEAD, after every call, by what   *)
(* the user has not committed, and by nothing else.                           *)
OnlyWorkIsUncommitted ==
    At("idle") /\ faults = 0 /\ ~strayed => worktree.base = TreeOf(head)

(* Leaving edit mode, saved or aborted, puts back the work it was entered     *)
(* with, whatever failed on the way.                                          *)
LeavesWithTheWorkEntered ==
    [][~strayed /\ (Reapply \/ BringBack) => worktree'.work = entered.work]_vars
=============================================================================
