----------------------------- MODULE Work_proof ------------------------------
(* Proofs about what the user works on, each a component of its own: EditMode  *)
(* and HunkAssignments, for every length of the stack and any amount of work,  *)
(* for a file of any length and any edits.                                     *)
EXTENDS MCWork, SequenceTheorems, Induction, TLAPS

-----------------------------------------------------------------------------
(* Edit mode loses no work, edits the commit it names and gives back what it  *)
(* set aside, for every length of the stack and any amount of work.           *)

(* While a call runs, what was typed since the entries into edit mode is      *)
(* committed, or else nothing of it is left to be overwritten; what is set    *)
(* aside was there at an entry.                                               *)
TypedIsSafe ==
    /\ At("idle") => typed \ risked \subseteq worktree.work \cup committed
    /\ ~At("idle") => typed \ risked \subseteq committed
    /\ saved.work \subseteq risked
    /\ At("set aside") => worktree.work \subseteq risked

(* The steps of a call that enters, once the work is set aside, and of one    *)
(* that leaves.                                                               *)
Entering == {"describe", "branch", "head", "check out", "record"}
Leaving == {"leave", "bring back", "saved", "clean", "reapply"}

(* Entering writes the reference, the metadata and the branch before HEAD.    *)
InOrder ==
    /\ head \in {"workspace", "edit"}
    /\ call.step \in {"set aside", "describe", "branch", "head"} => head = "workspace"
    /\ call.step = "set aside" => worktree = entered
    /\ call.step \in Entering \cup Leaving => saved = entered
    /\ call.step \in {"branch", "head", "check out", "record"} => metadata = call.commit
    /\ call.step \in {"head", "check out", "record"} => branch = call.commit
    /\ Editing => branch = metadata /\ saved = entered
EntryInOrder == ~strayed => InOrder

(* Before HEAD moves, and after it is back, the worktree has what was typed;  *)
(* in between, what is set aside has it.  As long as nothing has failed, the  *)
(* log has what is set aside too: it outlives a crash of the way back.        *)
WorkKept ==
    /\ At("idle") => typed \subseteq Held
    /\ (At("idle") /\ OpenWorkspace) \/ call.step \in {"set aside", "describe", "branch", "head"}
          => typed \subseteq worktree.work \cup recorded \cup committed
    /\ call.step \in Entering \cup Leaving
          => typed \subseteq saved.work \cup recorded \cup committed
    /\ call.step \in {"check out", "record"} => ~OpenWorkspace
    /\ At("set aside") => worktree.work \subseteq call.snapshot
    /\ call.step \in Entering => saved.work \subseteq call.snapshot
    /\ faults = 0 /\ ((At("idle") /\ ~OpenWorkspace) \/ call.step \in Leaving)
          => saved.work \subseteq recorded
WorkKeptSoFar == faults <= 1 /\ ~strayed => WorkKept

(* As long as nothing fails, the worktree is on top of the tree of HEAD and   *)
(* what is set aside on top of the workspace, or of what it was before a save.*)
OnTop ==
    /\ At("idle") => worktree.base = TreeOf(head)
    /\ call.step \in {"set aside", "describe", "branch", "head"}
          => worktree.base = Workspace(rewrites)
    /\ At("record") => worktree.base = CommitTree(call.commit)
    /\ call.step \in Entering \cup {"leave", "bring back"} \/ (At("idle") /\ head = "edit")
          => saved.base = Workspace(rewrites)
    /\ call.step \in {"saved", "clean", "reapply"} => saved.base = call.workspace
    /\ call.step \in {"check out", "record"} => head = "edit"
    /\ call.step \in {"bring back", "clean", "reapply"} => head = "workspace"
OnTopSoFar == faults = 0 /\ ~strayed => OnTop

-----------------------------------------------------------------------------
LEMMA GotoType ==
    ASSUME TypeOK, NEW step \in Steps, Goto(step)
    PROVE  call' \in [step : Steps, commit : CommitOrNone, snapshot : SUBSET Work,
                      workspace : Base]
BY DEF TypeOK, Goto

LEMMA NoCallType ==
    /\ NoCall \in [step : Steps, commit : CommitOrNone, snapshot : SUBSET Work,
                   workspace : Base]
    /\ NoCall.step = "idle"
BY DEF NoCall, Steps, CommitOrNone, Base, Other

LEMMA GotoKeeps ==
    ASSUME NEW step, Goto(step)
    PROVE  call'.step = step /\ call'.commit = call.commit
BY DEF Goto

LEMMA BeginType ==
    ASSUME NEW step \in Steps, NEW workspace \in Base, Begin(step, workspace)
    PROVE  /\ call' \in [step : Steps, commit : CommitOrNone, snapshot : SUBSET Work,
                          workspace : Base]
           /\ call'.step = step
BY DEF Begin, CommitOrNone

LEMMA EnterStarts ==
    ASSUME Enter
    PROVE  call.step = "idle" /\ head = "workspace" /\ call'.step = "set aside"
<1>1. PICK p \in Positions :
        call' = [step |-> "set aside", commit |-> [at |-> p, made |-> made[p]],
                 snapshot |-> worktree.work, workspace |-> Other]
  BY DEF Enter
<1>2. call'.step = "set aside"  BY <1>1
<1> QED  BY <1>2 DEF Enter, At, OpenWorkspace

LEMMA TreeTypes ==
    /\ \A v \in 0..MaxRewrites : Workspace(v) \in Base /\ Clean(Workspace(v)) \in Tree
    /\ \A c \in CommitOrNone : CommitTree(c) \in Base /\ Clean(CommitTree(c)) \in Tree
    /\ Other \in Base /\ Mixed \in Base /\ Clean(Other) \in Tree /\ Clean(Mixed) \in Tree
    /\ \A b \in Base, W \in SUBSET Work : [base |-> b, work |-> W] \in Tree
BY DEF Workspace, CommitTree, Other, Mixed, Clean, Tree, Base

(* Trees, commits and steps stay such.                                        *)
THEOREM TypeCorrect == Spec => []TypeOK
<1>1. Init => TypeOK
  <2> SUFFICES ASSUME Init PROVE TypeOK  OBVIOUS
  <2>1. 0 \in 0..MaxRewrites /\ 0 \in 0..MaxFaults  BY BoundsAreNatural
  <2>2. worktree \in Tree /\ saved \in Tree /\ entered \in Tree
    BY <2>1, TreeTypes DEF Init
  <2>3. made \in [Positions -> 0..MaxRewrites] /\ metadata \in CommitOrNone
            /\ branch \in CommitOrNone
    BY <2>1 DEF Init, CommitOrNone
  <2> QED  BY <2>1, <2>2, <2>3, NoCallType DEF Init, TypeOK
<1>2. TypeOK /\ [Next]_vars => TypeOK'
  <2> SUFFICES ASSUME TypeOK, [Next]_vars PROVE TypeOK'  OBVIOUS
  <2> USE DEF TypeOK, repository, history
  <2>1. CASE Enter
    <3>1. PICK p \in Positions :
            call' = [step |-> "set aside", commit |-> [at |-> p, made |-> made[p]],
                     snapshot |-> worktree.work, workspace |-> Other]
      BY <2>1 DEF Enter
    <3>2. [at |-> p, made |-> made[p]] \in CommitOrNone  BY DEF CommitOrNone, Commit
    <3>3. worktree.work \subseteq Work  BY DEF Tree
    <3> QED  BY <2>1, <3>1, <3>2, <3>3, TreeTypes DEF Enter, Steps
  <2>2. CASE SetAside
    BY <2>2, GotoType DEF SetAside, Steps
  <2>3. CASE WriteMetadata
    BY <2>3, GotoType DEF WriteMetadata, Steps
  <2>4. CASE MakeBranch
    BY <2>4, GotoType DEF MakeBranch, Steps
  <2>5. CASE MoveHead
    BY <2>5, GotoType DEF MoveHead, Steps
  <2>6. CASE CheckOutCommit
    BY <2>6, GotoType, TreeTypes DEF CheckOutCommit, Steps
  <2>7. CASE RecordEntry
    BY <2>7, NoCallType, BoundsAreNatural DEF RecordEntry
  <2>8. CASE Abort
    <3>1. typed' \subseteq Work
      <4>1. \E force \in BOOLEAN :
              typed' = IF force THEN typed \ (worktree.work \ saved.work) ELSE typed
        BY <2>8 DEF Abort
      <4> QED  BY <4>1
    <3>2. call' \in [step : Steps, commit : CommitOrNone, snapshot : SUBSET Work,
                     workspace : Base]
      BY <2>8, BeginType, TreeTypes DEF Abort, Steps
    <3> QED  BY <2>8, <3>1, <3>2 DEF Abort
  <2>9. CASE Leave
    BY <2>9, GotoType DEF Leave, Steps
  <2>10. CASE BringBack
    BY <2>10, NoCallType DEF BringBack
  <2>11. CASE Save
    <3>1. call' \in [step : Steps, commit : CommitOrNone, snapshot : SUBSET Work,
                     workspace : Base]
      BY <2>11, BeginType, TreeTypes DEF Save, Steps
    <3>2. rewrites' \in 0..MaxRewrites /\ made' \in [Positions -> 0..MaxRewrites]
      BY <2>11, BoundsAreNatural DEF Save, Rewrite
    <3>3. committed' \subseteq Work
      <4>1. worktree.work \subseteq Work  BY DEF Tree
      <4> QED  BY <2>11, <4>1 DEF Save
    <3> QED  BY <2>11, <3>1, <3>2, <3>3 DEF Save
  <2>12. CASE ReturnToWorkspace
    BY <2>12, GotoType DEF ReturnToWorkspace, Steps
  <2>13. CASE CheckOutHead
    BY <2>13, GotoType, TreeTypes DEF CheckOutHead, Steps
  <2>14. CASE Reapply
    <3>1. Moved(saved, call.workspace, Workspace(rewrites)) \in Tree
      BY TreeTypes DEF Moved, Tree
    <3> QED  BY <2>14, <3>1, NoCallType DEF Reapply
  <2>15. CASE Crash
    <3>1. Target.work \subseteq Work /\ worktree.work \subseteq Work
      <4>1. Target.work \in {{}, saved.work, worktree.work}
        BY DEF Target, Clean, Moved
      <4> QED  BY <4>1 DEF Tree
    <3>2. HalfCheckedOut \subseteq Tree  BY <3>1, TreeTypes DEF HalfCheckedOut
    <3>3. worktree' \in Tree  BY <2>15, <3>2 DEF Crash
    <3>4. faults' \in 0..MaxFaults
      <4>1. faults < MaxFaults /\ faults' = faults + 1  BY <2>15 DEF Crash
      <4> QED  BY <4>1, BoundsAreNatural
    <3> QED  BY <2>15, <3>3, <3>4, NoCallType DEF Crash
  <2>16. CASE Type
    <3>1. worktree' \in Tree /\ typed' \subseteq Work  BY <2>16 DEF Type, Tree
    <3> QED  BY <2>16, <3>1 DEF Type
  <2>17. CASE CommitWork
    <3>1. rewrites' \in 0..MaxRewrites /\ made' \in [Positions -> 0..MaxRewrites]
      BY <2>17, BoundsAreNatural DEF CommitWork, Rewrite
    <3>2. rewrites + 1 \in 0..MaxRewrites  BY <2>17, <3>1 DEF CommitWork, Rewrite
    <3>3. worktree' \in Tree  BY <2>17, <3>2, TreeTypes DEF CommitWork
    <3>4. committed' \subseteq Work  BY <2>17 DEF CommitWork, Tree
    <3> QED  BY <2>17, <3>1, <3>3, <3>4 DEF CommitWork
  <2>18. CASE Switch
    <3>1. PICK h \in {"workspace", "edit", "elsewhere"} :
            /\ head' = h
            /\ worktree' = [base |-> IF worktree.base = TreeOf(head) THEN TreeOf(h) ELSE Mixed,
                            work |-> worktree.work]
      BY <2>18 DEF Switch
    <3>2. TreeOf(h) \in Base /\ Mixed \in Base  BY TreeTypes DEF TreeOf
    <3>3. worktree' \in Tree  BY <3>1, <3>2 DEF Tree
    <3> QED  BY <2>18, <3>1, <3>3 DEF Switch
  <2>19. CASE UNCHANGED vars
    BY <2>19 DEF vars
  <2> QED
    BY <2>1, <2>2, <2>3, <2>4, <2>5, <2>6, <2>7, <2>8, <2>9, <2>10, <2>11, <2>12, <2>13,
       <2>14, <2>15, <2>16, <2>17, <2>18, <2>19 DEF Next, EnterStep, AbortStep, SaveStep
<1> QED  BY <1>1, <1>2, PTL DEF Spec
-----------------------------------------------------------------------------
(* However many crashes and errors there are: work is lost only if the        *)
(* snapshot of an entry into edit mode was not recorded.                      *)
THEOREM RecordedWorkSafe == Spec => []RecordedWorkIsHeld
<1>1. Init => TypedIsSafe
  BY NoCallType DEF Init, TypedIsSafe, At, Clean
<1>2. TypeOK /\ TypedIsSafe /\ [Next]_vars => TypedIsSafe'
  <2> SUFFICES ASSUME TypeOK, TypedIsSafe, [Next]_vars PROVE TypedIsSafe'  OBVIOUS
  <2> USE DEF At, repository, history
  <2>1. CASE Enter
    <3>1. call.step = "idle" /\ call'.step = "set aside"  BY <2>1, EnterStarts
    <3> QED  BY <2>1, <3>1 DEF Enter, TypedIsSafe
  <2>2. CASE SetAside
    <3>1. call.step = "set aside" /\ call'.step = "describe"
      BY <2>2, GotoKeeps DEF SetAside
    <3> QED  BY <2>2, <3>1 DEF SetAside, TypedIsSafe
  <2>3. CASE WriteMetadata \/ MakeBranch \/ MoveHead \/ Leave \/ ReturnToWorkspace
                \/ CheckOutCommit \/ CheckOutHead
    <3> USE DEF WriteMetadata, MakeBranch, MoveHead, Leave, ReturnToWorkspace,
                CheckOutCommit, CheckOutHead
    <3>1. call.step # "idle"  BY <2>3
    <3>2. call'.step \notin {"idle", "set aside"}
      <4>1. call'.step \in {"branch", "head", "check out", "bring back", "clean",
                            "record", "reapply"}
        BY <2>3, GotoKeeps
      <4> QED  BY <4>1
    <3>3. UNCHANGED <<saved, committed, typed, risked>>  BY <2>3
    <3> QED  BY <3>1, <3>2, <3>3 DEF TypedIsSafe
  <2>4. CASE RecordEntry \/ BringBack \/ Reapply
    <3> USE DEF RecordEntry, BringBack, Reapply
    <3>1. call.step # "idle"  BY <2>4
    <3>2. call'.step = "idle"  BY <2>4, NoCallType
    <3>3. UNCHANGED <<saved, committed, typed, risked>>  BY <2>4
    <3> QED  BY <3>1, <3>2, <3>3 DEF TypedIsSafe
  <2>5. CASE Abort
    <3>1. PICK force \in BOOLEAN :
            /\ force \/ ~ChangesFromInitial
            /\ Begin("leave", Other)
            /\ typed' = IF force THEN typed \ (worktree.work \ saved.work) ELSE typed
      BY <2>5 DEF Abort
    <3>2. call.step = "idle" /\ call'.step = "leave"
      BY <2>5, <3>1 DEF Abort, Begin
    <3>3. UNCHANGED <<saved, committed, risked, worktree>>  BY <2>5 DEF Abort
    <3>4. ~force => worktree.work = {}  BY <3>1 DEF ChangesFromInitial, Clean
    <3>5. typed' \ risked \subseteq committed
      BY <3>1, <3>2, <3>4 DEF TypedIsSafe
    <3> QED  BY <3>2, <3>3, <3>5 DEF TypedIsSafe
  <2>6. CASE Save
    <3>1. call.step = "idle" /\ call'.step = "saved"  BY <2>6 DEF Save, Begin
    <3> QED  BY <2>6, <3>1 DEF Save, TypedIsSafe
  <2>7. CASE Crash
    <3>1. call.step # "idle" /\ call'.step = "idle"  BY <2>7, NoCallType DEF Crash
    <3>2. UNCHANGED <<saved, committed, typed, risked>>  BY <2>7 DEF Crash
    <3> QED  BY <3>1, <3>2 DEF TypedIsSafe
  <2>8. CASE Type
    <3>1. PICK w \in Work :
            /\ worktree' = [base |-> worktree.base, work |-> worktree.work \cup {w}]
            /\ typed' = typed \cup {w}
      BY <2>8 DEF Type
    <3>2. worktree'.work = worktree.work \cup {w}  BY <3>1
    <3>3. call.step = "idle" /\ UNCHANGED <<saved, committed, risked, call>>
      BY <2>8 DEF Type
    <3> QED  BY <3>1, <3>2, <3>3 DEF TypedIsSafe
  <2>9. CASE CommitWork
    <3>1. call.step = "idle" /\ UNCHANGED <<saved, typed, risked, call>>
            /\ committed' = committed \cup worktree.work
      BY <2>9 DEF CommitWork
    <3> QED  BY <3>1 DEF TypedIsSafe
  <2>10. CASE Switch
    <3>1. worktree'.work = worktree.work  BY <2>10 DEF Switch
    <3>2. call.step = "idle" /\ UNCHANGED <<saved, committed, typed, risked, call>>
      BY <2>10 DEF Switch
    <3> QED  BY <3>1, <3>2 DEF TypedIsSafe
  <2>11. CASE UNCHANGED vars
    BY <2>11 DEF vars, TypedIsSafe
  <2> QED
    BY <2>1, <2>2, <2>3, <2>4, <2>5, <2>6, <2>7, <2>8, <2>9, <2>10, <2>11
    DEF Next, EnterStep, AbortStep, SaveStep
<1>3. TypedIsSafe => RecordedWorkIsHeld
  BY DEF TypedIsSafe, RecordedWorkIsHeld, Held
<1> QED  BY <1>1, <1>2, <1>3, TypeCorrect, PTL DEF Spec

-----------------------------------------------------------------------------
LEMMA EntryAlwaysInOrder == Spec => []EntryInOrder
<1>1. Init => EntryInOrder
  BY NoCallType DEF Init, EntryInOrder, InOrder, Editing, Entering, Leaving
<1>2. TypeOK /\ EntryInOrder /\ [Next]_vars => EntryInOrder'
  <2>1. ASSUME [Next]_vars, ~Switch
         PROVE  strayed' = strayed
    BY <2>1 DEF Next, EnterStep, AbortStep, SaveStep, Enter, SetAside, WriteMetadata,
           MakeBranch, MoveHead, CheckOutCommit, RecordEntry, Abort, Leave, BringBack, Save,
           ReturnToWorkspace, CheckOutHead, Reapply, Crash, Type, CommitWork, vars, history
  <2>2. Switch => strayed'  BY DEF Switch
  <2> SUFFICES ASSUME InOrder, [Next]_vars, ~Switch PROVE InOrder'
    BY <2>1, <2>2 DEF EntryInOrder
  <2> USE DEF At, Entering, Leaving, repository, history
  <2>3. CASE Enter
    <3>1. head = "workspace" /\ call'.step = "set aside"  BY <2>3, EnterStarts
    <3>2. UNCHANGED <<head, worktree, saved, metadata, branch>> /\ entered' = worktree
      BY <2>3 DEF Enter
    <3> QED  BY <3>1, <3>2 DEF InOrder, Editing
  <2>4. CASE SetAside
    <3>1. call.step = "set aside" /\ call'.step = "describe"
      BY <2>4, GotoKeeps DEF SetAside
    <3>2. UNCHANGED <<head, metadata, branch, entered>> /\ saved' = worktree
      BY <2>4 DEF SetAside
    <3>3. worktree = entered  BY <3>1 DEF InOrder
    <3> QED  BY <3>1, <3>2, <3>3 DEF InOrder, Editing
  <2>5. CASE WriteMetadata
    <3>1. call.step = "describe" /\ call'.step = "branch" /\ call'.commit = call.commit
      BY <2>5, GotoKeeps DEF WriteMetadata
    <3>2. UNCHANGED <<head, saved, branch, entered>> /\ metadata' = call.commit
      BY <2>5 DEF WriteMetadata
    <3> QED  BY <3>1, <3>2 DEF InOrder, Editing
  <2>6. CASE MakeBranch
    <3>1. call.step = "branch" /\ call'.step = "head" /\ call'.commit = call.commit
      BY <2>6, GotoKeeps DEF MakeBranch
    <3>2. UNCHANGED <<head, saved, metadata, entered>> /\ branch' = call.commit
      BY <2>6 DEF MakeBranch
    <3> QED  BY <3>1, <3>2 DEF InOrder, Editing
  <2>7. CASE MoveHead
    <3>1. call.step = "head" /\ call'.step = "check out" /\ call'.commit = call.commit
      BY <2>7, GotoKeeps DEF MoveHead
    <3>2. UNCHANGED <<saved, metadata, branch, entered>> /\ head' = "edit"
      BY <2>7 DEF MoveHead
    <3> QED  BY <3>1, <3>2 DEF InOrder, Editing
  <2>8. CASE CheckOutCommit
    <3>1. call.step = "check out" /\ call'.step = "record" /\ call'.commit = call.commit
      BY <2>8, GotoKeeps DEF CheckOutCommit
    <3>2. UNCHANGED <<head, saved, metadata, branch, entered>>
      BY <2>8 DEF CheckOutCommit
    <3> QED  BY <3>1, <3>2 DEF InOrder, Editing
  <2>9. CASE RecordEntry \/ BringBack \/ Reapply \/ Crash
    <3> USE DEF RecordEntry, BringBack, Reapply, Crash
    <3>1. call'.step = "idle"  BY <2>9, NoCallType
    <3>2. UNCHANGED <<head, saved, metadata, branch, entered>>  BY <2>9
    <3> QED  BY <3>1, <3>2 DEF InOrder, Editing
  <2>10. CASE Leave \/ ReturnToWorkspace
    <3> USE DEF Leave, ReturnToWorkspace
    <3>1. /\ call.step \in Leaving /\ call'.step \in {"bring back", "clean"}
          /\ head' = "workspace" /\ UNCHANGED <<saved, entered>>
      BY <2>10, GotoKeeps
    <3> QED  BY <3>1 DEF InOrder, Editing
  <2>11. CASE Abort \/ Save \/ CheckOutHead
    <3> USE DEF Abort, Save, CheckOutHead
    <3>1. call'.step \in {"leave", "saved", "reapply"} /\ (Editing \/ call.step = "clean")
      BY <2>11, GotoKeeps DEF Begin
    <3>2. UNCHANGED <<head, saved, metadata, branch, entered>>  BY <2>11
    <3> QED  BY <3>1, <3>2 DEF InOrder, Editing
  <2>12. CASE Type \/ CommitWork
    <3>1. call.step = "idle" /\ UNCHANGED <<head, saved, metadata, branch, entered, call>>
      BY <2>12 DEF Type, CommitWork
    <3> QED  BY <3>1 DEF InOrder, Editing
  <2>13. CASE UNCHANGED vars
    BY <2>13 DEF vars, InOrder, Editing
  <2> QED
    BY <2>3, <2>4, <2>5, <2>6, <2>7, <2>8, <2>9, <2>10, <2>11, <2>12, <2>13
    DEF Next, EnterStep, AbortStep, SaveStep
<1> QED  BY <1>1, <1>2, TypeCorrect, PTL DEF Spec
(* If nobody switches branches with git, edit mode is only ever on the branch *)
(* of the commit that is going to be replaced, with the worktree of that very *)
(* entry set aside, through every crash.                                      *)
THEOREM RightCommit == Spec => []EditsTheRightCommit
<1>1. EntryInOrder => EditsTheRightCommit
  BY DEF EntryInOrder, InOrder, EditsTheRightCommit
<1> QED  BY <1>1, EntryAlwaysInOrder, PTL

(* Leaving edit mode puts back the work that was there when it was entered.   *)
THEOREM WorkComesBack == Spec => LeavesWithTheWorkEntered
<1>1. EntryInOrder /\ [Next]_vars
        => [~strayed /\ (Reapply \/ BringBack) => worktree'.work = entered.work]_vars
  <2> SUFFICES ASSUME InOrder, Reapply \/ BringBack PROVE worktree'.work = entered.work
    BY DEF EntryInOrder
  <2>1. saved = entered  BY DEF InOrder, Reapply, BringBack, At, Leaving
  <2>2. CASE BringBack  BY <2>1, <2>2 DEF BringBack
  <2>3. CASE Reapply
    <3>1. worktree' = Moved(saved, call.workspace, Workspace(rewrites))  BY <2>3 DEF Reapply
    <3> QED  BY <2>1, <3>1 DEF Moved
  <2> QED  BY <2>2, <2>3
<1> QED  BY <1>1, EntryAlwaysInOrder, PTL DEF Spec, LeavesWithTheWorkEntered

-----------------------------------------------------------------------------
LEMMA GotoKeepsAll ==
    ASSUME NEW step, Goto(step)
    PROVE  /\ call'.step = step /\ call'.commit = call.commit
           /\ call'.snapshot = call.snapshot /\ call'.workspace = call.workspace
BY DEF Goto

(* Faults are never undone, nor is a switch by the user.                      *)
LEMMA PastStays ==
    ASSUME TypeOK, [Next]_vars
    PROVE  /\ faults \in Nat /\ faults' \in {faults, faults + 1}
           /\ Crash => faults' = faults + 1
           /\ ~strayed' => ~strayed /\ ~Switch
<1> USE DEF repository, history
<1>1. faults \in Nat  BY BoundsAreNatural DEF TypeOK
<1>2. faults' \in {faults, faults + 1} /\ (Crash => faults' = faults + 1)
  BY DEF Next, EnterStep, AbortStep, SaveStep, Enter, SetAside, WriteMetadata, MakeBranch,
         MoveHead, CheckOutCommit, RecordEntry, Abort, Leave, BringBack, Save,
         ReturnToWorkspace, CheckOutHead, Reapply, Crash, Type, CommitWork, Switch, vars
<1>3. Switch => strayed'  BY DEF Switch
<1>4. ~Switch => strayed' = strayed
  BY DEF Next, EnterStep, AbortStep, SaveStep, Enter, SetAside, WriteMetadata, MakeBranch,
         MoveHead, CheckOutCommit, RecordEntry, Abort, Leave, BringBack, Save,
         ReturnToWorkspace, CheckOutHead, Reapply, Crash, Type, CommitWork, vars
<1> QED  BY <1>1, <1>2, <1>3, <1>4

(* One crash or error anywhere, in any order of calls, loses no work.         *)
THEOREM WorkSafe == Spec => []WorkIsHeld
<1>1. Init => WorkKeptSoFar
  BY NoCallType DEF Init, WorkKeptSoFar, WorkKept, At, OpenWorkspace, Entering, Leaving
<1>2. TypeOK /\ WorkKeptSoFar /\ [Next]_vars => WorkKeptSoFar'
  <2> SUFFICES ASSUME TypeOK, WorkKept, [Next]_vars, ~Switch,
                      faults \in Nat, faults' \in {faults, faults + 1}, faults' <= 1
               PROVE  WorkKept'
    BY PastStays DEF WorkKeptSoFar
  <2> USE DEF At, OpenWorkspace, Held, Entering, Leaving, repository, history
  <2>1. CASE Enter
    <3>1. call.step = "idle" /\ head = "workspace" /\ call'.step = "set aside"
      BY <2>1, EnterStarts
    <3>2. call'.snapshot = worktree.work
      <4>1. PICK p \in Positions :
              call' = [step |-> "set aside", commit |-> [at |-> p, made |-> made[p]],
                       snapshot |-> worktree.work, workspace |-> Other]
        BY <2>1 DEF Enter
      <4> QED  BY <4>1
    <3>3. UNCHANGED <<head, worktree, recorded, committed, typed>>  BY <2>1 DEF Enter
    <3> QED  BY <3>1, <3>2, <3>3 DEF WorkKept
  <2>2. CASE SetAside
    <3>1. call.step = "set aside" /\ call'.step = "describe" /\ call'.snapshot = call.snapshot
      BY <2>2, GotoKeepsAll DEF SetAside
    <3>2. UNCHANGED <<worktree, recorded, committed, typed>> /\ saved' = worktree
      BY <2>2 DEF SetAside
    <3> QED  BY <3>1, <3>2 DEF WorkKept
  <2>3. CASE WriteMetadata \/ MakeBranch
    <3> USE DEF WriteMetadata, MakeBranch
    <3>1. call.step \in {"describe", "branch"} /\ call'.step \in {"branch", "head"}
            /\ call'.snapshot = call.snapshot
      BY <2>3, GotoKeepsAll
    <3>2. UNCHANGED <<worktree, saved, recorded, committed, typed>>  BY <2>3
    <3> QED  BY <3>1, <3>2 DEF WorkKept
  <2>4. CASE MoveHead \/ CheckOutCommit
    <3> USE DEF MoveHead, CheckOutCommit
    <3>1. call.step \in {"head", "check out"} /\ call'.step \in {"check out", "record"}
            /\ call'.snapshot = call.snapshot
      BY <2>4, GotoKeepsAll
    <3>2. UNCHANGED <<saved, recorded, committed, typed>>  BY <2>4
    <3>3. head' # "workspace"  BY <2>4 DEF WorkKept
    <3> QED  BY <3>1, <3>2, <3>3 DEF WorkKept
  <2>5. CASE RecordEntry
    <3>1. call.step = "record" /\ call'.step = "idle"  BY <2>5, NoCallType DEF RecordEntry
    <3>2. UNCHANGED <<head, worktree, saved, committed, typed>>  BY <2>5 DEF RecordEntry
    <3>3. recorded \subseteq recorded'  BY <2>5 DEF RecordEntry
    <3>4. faults' = 0 => saved.work \subseteq recorded'
      BY <2>5, <3>1 DEF RecordEntry, WorkKept
    <3> QED  BY <3>1, <3>2, <3>3, <3>4 DEF WorkKept
  <2>6. CASE Abort
    <3>1. PICK force \in BOOLEAN :
            /\ force \/ ~ChangesFromInitial
            /\ Begin("leave", Other)
            /\ typed' = IF force THEN typed \ (worktree.work \ saved.work) ELSE typed
      BY <2>6 DEF Abort
    <3>2. call.step = "idle" /\ head = "edit" /\ call'.step = "leave"
      BY <2>6, <3>1 DEF Abort, Begin, Editing
    <3>3. UNCHANGED <<head, saved, recorded, committed, faults>>  BY <2>6 DEF Abort
    <3>4. ~force => worktree.work = {}  BY <3>1 DEF ChangesFromInitial, Clean
    <3>5. typed' \subseteq saved.work \cup recorded \cup committed
      BY <3>1, <3>2, <3>4 DEF WorkKept
    <3> QED  BY <3>2, <3>3, <3>5 DEF WorkKept
  <2>7. CASE Save
    <3>1. call.step = "idle" /\ head = "edit" /\ call'.step = "saved"
      BY <2>7 DEF Save, Begin, Editing
    <3>2. UNCHANGED <<head, saved, recorded, typed, faults>>
            /\ committed' = committed \cup worktree.work
      BY <2>7 DEF Save
    <3> QED  BY <3>1, <3>2 DEF WorkKept
  <2>8. CASE Leave \/ ReturnToWorkspace \/ CheckOutHead
    <3> USE DEF Leave, ReturnToWorkspace, CheckOutHead
    <3>1. call.step \in Leaving /\ call'.step \in {"bring back", "clean", "reapply"}
      BY <2>8, GotoKeepsAll
    <3>2. UNCHANGED <<saved, recorded, committed, typed, faults>>  BY <2>8
    <3> QED  BY <3>1, <3>2 DEF WorkKept
  <2>9. CASE BringBack \/ Reapply
    <3> USE DEF BringBack, Reapply
    <3>1. call.step \in Leaving /\ call'.step = "idle"  BY <2>9, NoCallType
    <3>2. UNCHANGED <<head, saved, recorded, committed, typed, faults>>  BY <2>9
    <3>3. worktree'.work = saved.work
      <4>1. CASE BringBack  BY <4>1
      <4>2. CASE Reapply
        <5>1. worktree' = Moved(saved, call.workspace, Workspace(rewrites))  BY <4>2
        <5> QED  BY <5>1 DEF Moved
      <4> QED  BY <2>9, <4>1, <4>2
    <3> QED  BY <3>1, <3>2, <3>3 DEF WorkKept
  <2>10. CASE Crash
    <3>1. call.step # "idle" /\ call'.step = "idle"  BY <2>10, NoCallType DEF Crash
    <3>2. UNCHANGED <<head, saved, recorded, committed, typed>> /\ faults' = faults + 1
      BY <2>10 DEF Crash
    <3>3. faults = 0 /\ faults' # 0  BY <3>2
    <3>4. CASE call.step \in Leaving
      <4>1. typed \subseteq recorded \cup committed  BY <3>3, <3>4 DEF WorkKept
      <4> QED  BY <3>1, <3>2, <3>3, <4>1 DEF WorkKept
    <3>5. CASE call.step \in {"check out", "record"}
      BY <3>1, <3>2, <3>3, <3>5 DEF WorkKept
    <3>6. CASE call.step \in {"set aside", "describe", "branch", "head"}
      <4>1. worktree' = worktree  BY <2>10, <3>6 DEF Crash
      <4> QED  BY <3>1, <3>2, <3>3, <3>6, <4>1 DEF WorkKept
    <3>7. call.step \in Steps  BY DEF TypeOK
    <3> QED  BY <3>1, <3>4, <3>5, <3>6, <3>7 DEF Steps
  <2>11. CASE Type
    <3>1. PICK w \in Work :
            /\ worktree' = [base |-> worktree.base, work |-> worktree.work \cup {w}]
            /\ typed' = typed \cup {w}
      BY <2>11 DEF Type
    <3>2. worktree'.work = worktree.work \cup {w}  BY <3>1
    <3>3. call.step = "idle" /\ UNCHANGED <<head, saved, recorded, committed, call, faults>>
      BY <2>11 DEF Type
    <3> QED  BY <3>1, <3>2, <3>3 DEF WorkKept
  <2>12. CASE CommitWork
    <3>1. call.step = "idle" /\ UNCHANGED <<head, saved, recorded, typed, call, faults>>
            /\ head = "workspace" /\ committed' = committed \cup worktree.work
      BY <2>12 DEF CommitWork
    <3> QED  BY <3>1 DEF WorkKept
  <2>13. CASE UNCHANGED vars
    BY <2>13 DEF vars, WorkKept
  <2> QED
    BY <2>1, <2>2, <2>3, <2>4, <2>5, <2>6, <2>7, <2>8, <2>9, <2>10, <2>11, <2>12, <2>13
    DEF Next, EnterStep, AbortStep, SaveStep
<1>3. TypeOK /\ WorkKeptSoFar => WorkIsHeld
  <2> SUFFICES ASSUME TypeOK, WorkKept PROVE typed \subseteq Held
    BY DEF WorkKeptSoFar, WorkIsHeld
  <2>1. call.step \in Steps  BY DEF TypeOK
  <2> QED  BY <2>1 DEF WorkKept, Steps, Held, At, Entering, Leaving
<1> QED  BY <1>1, <1>2, <1>3, TypeCorrect, PTL DEF Spec

LEMMA TreesOfHeads ==
    /\ TreeOf("workspace") = Workspace(rewrites)
    /\ TreeOf("edit") = CommitTree(branch)
    /\ TreeOf("workspace")' = Workspace(rewrites)'
    /\ TreeOf("edit")' = CommitTree(branch)'
BY DEF TreeOf

(* Without a crash, what differs from HEAD after every call is work.          *)
THEOREM OnlyWork == Spec => []OnlyWorkIsUncommitted
<1>1. Init => OnTopSoFar
  <2> SUFFICES ASSUME Init PROVE OnTop  BY DEF OnTopSoFar
  <2> QED  BY NoCallType, TreesOfHeads DEF Init, OnTop, At, Entering, Clean
<1>2. TypeOK /\ EntryInOrder /\ OnTopSoFar /\ [Next]_vars => OnTopSoFar'
  <2> SUFFICES ASSUME TypeOK, InOrder, OnTop, [Next]_vars, ~Switch, ~Crash, faults' = 0
               PROVE  OnTop'
    BY PastStays DEF OnTopSoFar, EntryInOrder
  <2> USE DEF At, Entering, repository, history
  <2>1. CASE Enter
    <3>1. call.step = "idle" /\ head = "workspace" /\ call'.step = "set aside"
      BY <2>1, EnterStarts
    <3>2. UNCHANGED <<head, worktree, saved, rewrites>>  BY <2>1 DEF Enter
    <3>3. worktree.base = Workspace(rewrites)  BY <3>1, TreesOfHeads DEF OnTop
    <3> QED  BY <3>1, <3>2, <3>3 DEF OnTop, Workspace
  <2>2. CASE SetAside
    <3>1. call.step = "set aside" /\ call'.step = "describe"  BY <2>2, GotoKeepsAll DEF SetAside
    <3>2. UNCHANGED <<head, worktree, rewrites>> /\ saved' = worktree  BY <2>2 DEF SetAside
    <3> QED  BY <3>1, <3>2 DEF OnTop, Workspace
  <2>3. CASE WriteMetadata \/ MakeBranch
    <3> USE DEF WriteMetadata, MakeBranch
    <3>1. call.step \in {"describe", "branch"} /\ call'.step \in {"branch", "head"}
      BY <2>3, GotoKeepsAll
    <3>2. UNCHANGED <<head, worktree, saved, rewrites>>  BY <2>3
    <3> QED  BY <3>1, <3>2 DEF OnTop, Workspace
  <2>4. CASE MoveHead
    <3>1. call.step = "head" /\ call'.step = "check out" /\ head' = "edit"
            /\ UNCHANGED <<saved, rewrites>>
      BY <2>4, GotoKeepsAll DEF MoveHead
    <3> QED  BY <3>1 DEF OnTop, Workspace
  <2>5. CASE CheckOutCommit
    <3>1. /\ call.step = "check out" /\ call'.step = "record" /\ call'.commit = call.commit
          /\ UNCHANGED <<head, saved, rewrites>>
      BY <2>5, GotoKeepsAll DEF CheckOutCommit
    <3>2. worktree'.base = CommitTree(call.commit)  BY <2>5 DEF CheckOutCommit, Clean
    <3> QED  BY <3>1, <3>2 DEF OnTop, Workspace, CommitTree
  <2>6. CASE RecordEntry
    <3>1. call.step = "record" /\ call'.step = "idle"  BY <2>6, NoCallType DEF RecordEntry
    <3>2. UNCHANGED <<head, worktree, saved, branch, rewrites>>  BY <2>6 DEF RecordEntry
    <3>3. head = "edit" /\ worktree.base = CommitTree(branch)  BY <3>1 DEF OnTop, InOrder
    <3>4. worktree'.base = TreeOf(head)'  BY <3>2, <3>3, TreesOfHeads DEF TreeOf
    <3> QED  BY <3>1, <3>2, <3>4 DEF OnTop, Workspace
  <2>7. CASE Abort
    <3>1. Begin("leave", Other)  BY <2>7 DEF Abort
    <3>2. call.step = "idle" /\ head = "edit" /\ call'.step = "leave"
      BY <2>7, <3>1 DEF Abort, Begin, Editing
    <3>3. UNCHANGED <<head, saved, rewrites>>  BY <2>7 DEF Abort
    <3> QED  BY <3>2, <3>3 DEF OnTop, Workspace
  <2>8. CASE Save
    <3>1. /\ call.step = "idle" /\ head = "edit"
          /\ call'.step = "saved" /\ call'.workspace = Workspace(rewrites)
      BY <2>8 DEF Save, Begin, Editing
    <3>2. UNCHANGED <<head, saved>>  BY <2>8 DEF Save
    <3> QED  BY <3>1, <3>2 DEF OnTop
  <2>9. CASE Leave
    <3>1. call.step = "leave" /\ call'.step = "bring back" /\ head' = "workspace"
            /\ UNCHANGED <<saved, rewrites>>
      BY <2>9, GotoKeepsAll DEF Leave
    <3> QED  BY <3>1 DEF OnTop, Workspace
  <2>10. CASE ReturnToWorkspace \/ CheckOutHead
    <3> USE DEF ReturnToWorkspace, CheckOutHead
    <3>1. /\ call.step \in {"saved", "clean"} /\ call'.step \in {"clean", "reapply"}
          /\ call'.workspace = call.workspace /\ UNCHANGED saved
      BY <2>10, GotoKeepsAll
    <3>2. head' = "workspace"  BY <2>10 DEF OnTop
    <3> QED  BY <3>1, <3>2 DEF OnTop
  <2>11. CASE BringBack \/ Reapply
    <3> USE DEF BringBack, Reapply
    <3>1. call.step \in {"bring back", "reapply"} /\ call'.step = "idle"  BY <2>11, NoCallType
    <3>2. UNCHANGED <<head, rewrites>> /\ head = "workspace"  BY <2>11, <3>1 DEF OnTop
    <3>3. worktree'.base = Workspace(rewrites)
      <4>1. CASE BringBack  BY <4>1 DEF OnTop
      <4>2. CASE Reapply
        <5>1. worktree' = Moved(saved, call.workspace, Workspace(rewrites))  BY <4>2
        <5>2. saved.base = call.workspace  BY <4>2 DEF OnTop
        <5> QED  BY <5>1, <5>2 DEF Moved
      <4> QED  BY <2>11, <4>1, <4>2
    <3>4. worktree'.base = TreeOf(head)'  BY <3>2, <3>3, TreesOfHeads DEF TreeOf, Workspace
    <3> QED  BY <3>1, <3>2, <3>4 DEF OnTop
  <2>12. CASE Type
    <3>1. worktree'.base = worktree.base  BY <2>12 DEF Type
    <3>2. call.step = "idle" /\ UNCHANGED <<head, saved, branch, rewrites, call>>
      BY <2>12 DEF Type
    <3> QED  BY <3>1, <3>2 DEF OnTop, TreeOf, Workspace, CommitTree
  <2>13. CASE CommitWork
    <3>1. call.step = "idle" /\ head = "workspace" /\ UNCHANGED <<head, call>>
            /\ rewrites' = rewrites + 1
      BY <2>13 DEF CommitWork, OpenWorkspace, Rewrite
    <3>2. worktree.base = Workspace(rewrites)  BY <3>1, TreesOfHeads DEF OnTop
    <3>3. worktree'.base = Workspace(rewrites + 1)  BY <2>13, <3>2 DEF CommitWork, Clean
    <3>4. worktree'.base = TreeOf(head)'  BY <3>1, <3>3, TreesOfHeads DEF TreeOf, Workspace
    <3> QED  BY <3>1, <3>4 DEF OnTop
  <2>14. CASE UNCHANGED vars
    BY <2>14 DEF vars, OnTop, TreeOf, Workspace, CommitTree
  <2> QED
    BY <2>1, <2>2, <2>3, <2>4, <2>5, <2>6, <2>7, <2>8, <2>9, <2>10, <2>11, <2>12, <2>13, <2>14
    DEF Next, EnterStep, AbortStep, SaveStep
<1>3. OnTopSoFar => OnlyWorkIsUncommitted
  BY DEF OnTopSoFar, OnTop, OnlyWorkIsUncommitted
<1> QED  BY <1>1, <1>2, <1>3, TypeCorrect, EntryAlwaysInOrder, PTL DEF Spec

-----------------------------------------------------------------------------
(* Proofs about HunkAssignments, for a file of any length, any lines of       *)
(* context and any edits: the hunks of one scan stand apart in the base, and  *)
(* that is why a scan repeated decides the same and a request reaches one     *)
(* hunk only, whatever rows earlier scans have left.                          *)

-----------------------------------------------------------------------------
(* The edited places are in order and do not touch.                           *)
Ordered(places) ==
    /\ places \in Seq(Places)
    /\ \A i, j \in 1..Len(places) : i < j => places[i].bottom < places[j].top

LEMMA PlaceTypes ==
    ASSUME NEW places, Ordered(places), NEW i \in 1..Len(places)
    PROVE  /\ places[i] \in Places
           /\ places[i].top \in 0..FileLines /\ places[i].bottom \in 0..FileLines
           /\ places[i].top <= places[i].bottom
<1>1. places[i] \in Places
  BY DEF Ordered
<1> QED
  BY <1>1 DEF Places

LEMMA MaxOfTwo == \A a, b \in Int : Max({a, b}) = IF a >= b THEN a ELSE b
<1> SUFFICES ASSUME NEW a \in Int, NEW b \in Int PROVE Max({a, b}) = IF a >= b THEN a ELSE b
  OBVIOUS
<1> DEFINE m == IF a >= b THEN a ELSE b
<1>1. m \in {a, b} /\ \A y \in {a, b} : m >= y
  OBVIOUS
<1>2. \A x \in {a, b} : (\A y \in {a, b} : x >= y) => x = m
  OBVIOUS
<1> HIDE DEF m
<1>3. (CHOOSE x \in {a, b} : \A y \in {a, b} : x >= y) = m
  BY <1>1, <1>2
<1> QED
  BY <1>3 DEF Max, m

LEMMA MinOfTwo == \A a, b \in Int : Min({a, b}) = IF a <= b THEN a ELSE b
<1> SUFFICES ASSUME NEW a \in Int, NEW b \in Int PROVE Min({a, b}) = IF a <= b THEN a ELSE b
  OBVIOUS
<1> DEFINE m == IF a <= b THEN a ELSE b
<1>1. m \in {a, b} /\ \A y \in {a, b} : m <= y
  OBVIOUS
<1>2. \A x \in {a, b} : (\A y \in {a, b} : x <= y) => x = m
  OBVIOUS
<1> HIDE DEF m
<1>3. (CHOOSE x \in {a, b} : \A y \in {a, b} : x <= y) = m
  BY <1>1, <1>2
<1> QED
  BY <1>3 DEF Min, m

-----------------------------------------------------------------------------
(* The old side of a hunk                                                     *)

LastPlace(places, i) ==
    Max({j \in i..Len(places) : \A k \in (i + 1)..j : k \notin Starts(places)})
OldTop(places, i) == Max({places[i].top - Context, 0})
OldEnd(places, i) == Min({places[LastPlace(places, i)].bottom + Context, FileLines})

(* A hunk ends before the next one begins.                                    *)
LEMMA LastOfHunk ==
    ASSUME NEW places, Ordered(places), NEW i \in 1..Len(places)
    PROVE  /\ Starts(places) \in SUBSET (1..Len(places))
           /\ LastPlace(places, i) \in i..Len(places)
           /\ \A k \in Starts(places) : i < k => LastPlace(places, i) < k
<1> DEFINE J == {j \in i..Len(places) : \A k \in (i + 1)..j : k \notin Starts(places)}
<1>1. Len(places) \in Nat /\ DOMAIN places = 1..Len(places)
  BY DEF Ordered
<1>2. Starts(places) \in SUBSET (1..Len(places))
  BY <1>1 DEF Starts
<1>3. i \in J /\ J \in SUBSET (0..Len(places))
  BY <1>1
<1>4. \E m \in J : \A k \in J : m >= k
  <2> HIDE DEF J
  <2> QED
    BY <1>1, <1>3, Greatest
<1>5. LastPlace(places, i) \in J
  BY <1>4 DEF LastPlace, Max
<1>6. ASSUME NEW k \in Starts(places), i < k PROVE LastPlace(places, i) < k
  <2>1. k \in 1..Len(places)
    BY <1>2
  <2> QED
    BY <1>1, <1>5, <1>6, <2>1
<1> QED
  BY <1>2, <1>5, <1>6

LEMMA OldSide ==
    ASSUME NEW places, Ordered(places), NEW i \in 1..Len(places)
    PROVE  /\ Header(places, i).oldStart =
                IF OldEnd(places, i) = OldTop(places, i) THEN OldTop(places, i) ELSE OldTop(places, i) + 1
           /\ Header(places, i).oldLines = OldEnd(places, i) - OldTop(places, i)
           /\ OldTop(places, i) \in Int /\ OldEnd(places, i) \in Int
           /\ OldTop(places, i) >= places[i].top - Context
           /\ OldEnd(places, i) <= places[LastPlace(places, i)].bottom + Context
           /\ OldTop(places, i) <= OldEnd(places, i)
<1> DEFINE last == LastPlace(places, i)
<1>1. last \in i..Len(places) /\ last \in 1..Len(places)
  BY LastOfHunk
<1>2. /\ places[i].top \in 0..FileLines /\ places[i].bottom \in 0..FileLines
      /\ places[i].top <= places[i].bottom
      /\ places[last].top \in 0..FileLines /\ places[last].bottom \in 0..FileLines
      /\ places[last].top <= places[last].bottom
  BY <1>1, PlaceTypes
<1>3. places[i].top <= places[last].bottom
  <2>1. CASE i = last
    BY <1>2, <2>1
  <2>2. CASE i # last
    <3>1. i < last
      BY <1>1, <2>2
    <3>2. places[i].bottom < places[last].top
      BY <1>1, <3>1 DEF Ordered
    <3> QED
      BY <1>2, <3>2, FileAssumption
  <2> QED
    BY <2>1, <2>2
<1>4. OldTop(places, i) = IF places[i].top - Context >= 0 THEN places[i].top - Context ELSE 0
  BY <1>2, MaxOfTwo, FileAssumption DEF OldTop
<1>5. OldEnd(places, i) = IF places[last].bottom + Context <= FileLines
                          THEN places[last].bottom + Context ELSE FileLines
  BY <1>2, MinOfTwo, FileAssumption DEF OldEnd
<1>6. /\ Header(places, i).oldStart =
           IF OldEnd(places, i) = OldTop(places, i) THEN OldTop(places, i) ELSE OldTop(places, i) + 1
      /\ Header(places, i).oldLines = OldEnd(places, i) - OldTop(places, i)
  BY DEF Header, OldTop, OldEnd, LastPlace
<1> DEFINE t == places[i].top  b == places[last].bottom
<1>7. t \in 0..FileLines /\ b \in 0..FileLines /\ t <= b
  BY <1>2, <1>3
<1> HIDE DEF last, t, b
<1>8. OldTop(places, i) = IF t - Context >= 0 THEN t - Context ELSE 0
  BY <1>4 DEF t
<1>9. OldEnd(places, i) = IF b + Context <= FileLines THEN b + Context ELSE FileLines
  BY <1>5 DEF b
<1>10. /\ OldTop(places, i) \in Int /\ OldEnd(places, i) \in Int
       /\ OldTop(places, i) >= t - Context /\ OldEnd(places, i) <= b + Context
       /\ OldTop(places, i) <= OldEnd(places, i)
  BY <1>7, <1>8, <1>9, FileAssumption
<1> QED
  BY <1>6, <1>10 DEF last, t, b

(* Two hunks do not meet in the base.                                         *)
LEMMA HunksStandApart ==
    ASSUME NEW places, Ordered(places), NEW i \in Starts(places), NEW k \in Starts(places), i < k
    PROVE  /\ Header(places, i).oldStart \in Int /\ Header(places, k).oldStart \in Int
           /\ LastOf(Header(places, i).oldStart, Header(places, i).oldLines) < Header(places, k).oldStart
           /\ Header(places, i).oldStart <= LastOf(Header(places, i).oldStart, Header(places, i).oldLines)
<1> DEFINE last == LastPlace(places, i)
<1>1. /\ i \in 1..Len(places) /\ k \in 1..Len(places) /\ Len(places) \in Nat
      /\ last \in i..Len(places) /\ last < k
  <2>1. Starts(places) \in SUBSET (1..Len(places)) /\ Len(places) \in Nat
    BY DEF Ordered, Starts
  <2> QED
    BY <2>1, LastOfHunk
<1>2. k - 1 \in 1..Len(places) /\ last \in 1..Len(places) /\ last <= k - 1 /\ k # 1
  BY <1>1
<1>3. places[k].top - places[k - 1].bottom > 2 * Context
  BY <1>2 DEF Starts
<1>4. /\ places[k].top \in 0..FileLines
      /\ places[last].bottom \in 0..FileLines
      /\ places[k - 1].top \in 0..FileLines /\ places[k - 1].bottom \in 0..FileLines
      /\ places[k - 1].top <= places[k - 1].bottom
  BY <1>1, <1>2, PlaceTypes
<1>5. places[last].bottom <= places[k - 1].bottom
  <2>1. CASE last = k - 1
    BY <1>4, <2>1
  <2>2. CASE last # k - 1
    <3>1. last < k - 1
      BY <1>1, <1>2, <2>2
    <3>2. places[last].bottom < places[k - 1].top
      BY <1>2, <3>1 DEF Ordered
    <3> QED
      BY <1>4, <3>2, FileAssumption
  <2> QED
    BY <2>1, <2>2
<1>6. places[last].bottom + Context < places[k].top - Context
  BY <1>3, <1>4, <1>5, FileAssumption
<1> DEFINE ti == OldTop(places, i)  ei == OldEnd(places, i)
           tk == OldTop(places, k)  ek == OldEnd(places, k)
<1>7. /\ Header(places, i).oldStart = (IF ei = ti THEN ti ELSE ti + 1)
      /\ Header(places, i).oldLines = ei - ti
      /\ ti \in Int /\ ei \in Int /\ ti <= ei /\ ei <= places[last].bottom + Context
  BY <1>1, OldSide
<1>8. /\ Header(places, k).oldStart = (IF ek = tk THEN tk ELSE tk + 1)
      /\ tk \in Int /\ ek \in Int /\ tk >= places[k].top - Context
  BY <1>1, OldSide
<1> HIDE DEF ti, ei, tk, ek, last
<1>9. ei < tk
  BY <1>4, <1>6, <1>7, <1>8, FileAssumption
<1>10. /\ LastOf(Header(places, i).oldStart, Header(places, i).oldLines) = ei
       /\ Header(places, i).oldStart \in Int /\ Header(places, i).oldStart <= ei
       /\ Header(places, k).oldStart \in Int /\ Header(places, k).oldStart >= tk
  BY <1>7, <1>8 DEF LastOf
<1> QED
  BY <1>7, <1>8, <1>9, <1>10

LEMMA HeadersStandApart ==
    ASSUME NEW places, Ordered(places), NEW i \in Starts(places), NEW k \in Starts(places), i # k
    PROVE  LET a == Header(places, i)
               b == Header(places, k)
           IN  a # b /\ ~RangesMeet(a.oldStart, a.oldLines, b.oldStart, b.oldLines)
<1>1. ASSUME NEW x \in Starts(places), NEW y \in Starts(places), x < y
      PROVE  LET a == Header(places, x)
                 b == Header(places, y)
             IN  /\ a # b
                 /\ ~RangesMeet(a.oldStart, a.oldLines, b.oldStart, b.oldLines)
                 /\ ~RangesMeet(b.oldStart, b.oldLines, a.oldStart, a.oldLines)
  <2> DEFINE a == Header(places, x)  b == Header(places, y)
             end == LastOf(a.oldStart, a.oldLines)
  <2>1. a.oldStart \in Int /\ b.oldStart \in Int /\ end < b.oldStart /\ a.oldStart <= end /\ end \in Int
    <3>1. x \in 1..Len(places)
      BY DEF Ordered, Starts
    <3>2. a.oldLines \in Int
      BY <3>1, OldSide
    <3> QED
      BY <1>1, <3>2, HunksStandApart DEF LastOf
  <2> HIDE DEF a, b, end
  <2>2. ~(b.oldStart <= end) /\ a.oldStart # b.oldStart
    BY <2>1
  <2>3. ~RangesMeet(a.oldStart, a.oldLines, b.oldStart, b.oldLines)
        /\ ~RangesMeet(b.oldStart, b.oldLines, a.oldStart, a.oldLines)
    BY <2>2 DEF RangesMeet, end
  <2> QED
    BY <2>2, <2>3 DEF a, b
<1>2. i \in Int /\ k \in Int
  BY DEF Ordered, Starts
<1> QED
  BY <1>1, <1>2, i < k \/ k < i

-----------------------------------------------------------------------------
(* Rows that stand apart                                                      *)

(* Rows of no branch, of which none meets another.                            *)
Apart(new) ==
    /\ \A i \in DOMAIN new : new[i] = [header |-> new[i].header, branch |-> None]
    /\ \A i, j \in DOMAIN new : i # j => ~Intersect(new[i], new[j])

(* Only the headers decide whether two rows meet.                             *)
LEMMA HeadersMeet ==
    ASSUME NEW a, NEW b, NEW c, NEW d, a.header = c.header, b.header = d.header
    PROVE  Intersect(a, b) <=> Intersect(c, d)
BY DEF Intersect

LEMMA MeetsItself == \A a, b : a.header = b.header => Intersect(a, b)
BY DEF Intersect

LEMMA HunkOfRank ==
    ASSUME NEW places, Ordered(places), NEW n \in 1..Cardinality(Starts(places))
    PROVE  Hunk(places, n) \in Starts(places) /\ Rank(Starts(places), Hunk(places, n)) = n
<1>1. Starts(places) \in SUBSET (1..Len(places)) /\ Len(places) \in Nat
  BY DEF Ordered, Starts
<1>2. IsFiniteSet(Starts(places)) /\ Starts(places) \in SUBSET Int
  <2>1. IsFiniteSet(1..Len(places))
    BY <1>1, FS_Interval
  <2> QED
    BY <1>1, <2>1, FS_Subset
<1>3. \E i \in Starts(places) : Rank(Starts(places), i) = n
  BY <1>2, RankExists
<1> QED
  BY <1>3 DEF Hunk, Rank

LEMMA ScannedApart ==
    ASSUME NEW places, Ordered(places), NEW eager \in BOOLEAN
    PROVE  /\ Apart(Scanned(places, eager))
           /\ Scanned(places, eager) = [i \in DOMAIN Scanned(places, eager) |-> Scanned(places, eager)[i]]
<1> DEFINE new == Scanned(places, eager)
<1>1. CASE ~eager
  <2>1. new = <<[header |-> Whole, branch |-> None]>>
    BY <1>1 DEF Scanned
  <2>2. DOMAIN new = {1} /\ new[1] = [header |-> Whole, branch |-> None] /\ new = [i \in DOMAIN new |-> new[i]]
    BY <2>1
  <2> HIDE DEF new
  <2>3. Apart(new)
    BY <2>2 DEF Apart
  <2> QED
    BY <2>2, <2>3 DEF new
<1>2. CASE eager
  <2> DEFINE N == 1..Cardinality(Starts(places))
             H(n) == Header(places, Hunk(places, n))
  <2>1. new = [n \in N |-> [header |-> H(n), branch |-> None]]
    BY <1>2 DEF Scanned
  <2>2. DOMAIN new = N /\ (\A n \in N : new[n] = [header |-> H(n), branch |-> None]) /\ new = [i \in DOMAIN new |-> new[i]]
    BY <2>1
  <2> HIDE DEF new
  <2>3. ASSUME NEW n \in N, NEW m \in N, n # m PROVE ~Intersect(new[n], new[m])
    <3>1. /\ Hunk(places, n) \in Starts(places) /\ Hunk(places, m) \in Starts(places)
          /\ Hunk(places, n) # Hunk(places, m)
      BY <2>3, HunkOfRank
    <3>2. new[n].header = H(n) /\ new[m].header = H(m)
      BY <2>2
    <3>3. H(n) # Whole /\ H(m) # Whole
      <4>1. \A i \in Starts(places) : Header(places, i) # Whole
        <5> SUFFICES ASSUME NEW i \in Starts(places) PROVE Header(places, i).oldLines # Whole.oldLines
          OBVIOUS
        <5>1. i \in 1..Len(places)
          BY DEF Ordered, Starts
        <5>2. Header(places, i).oldLines >= 0
          BY <5>1, OldSide
        <5> QED
          BY <5>2 DEF Whole
      <4> QED
        BY <3>1, <4>1
    <3>4. H(n) # H(m) /\ ~RangesMeet(H(n).oldStart, H(n).oldLines, H(m).oldStart, H(m).oldLines)
      BY <3>1, HeadersStandApart
    <3> QED
      BY <3>2, <3>3, <3>4 DEF Intersect
  <2>4. Apart(new)
    BY <2>2, <2>3 DEF Apart
  <2> QED
    BY <2>2, <2>4 DEF new
<1> QED
  BY <1>1, <1>2

-----------------------------------------------------------------------------
(* What a reconciliation gives                                                *)

(* Every row keeps its header, and has a branch that is applied, or none.     *)
LEMMA Reconciled ==
    ASSUME NEW new, Apart(new), NEW old, NEW i \in DOMAIN new
    PROVE  /\ DOMAIN Reconcile(new, old) = DOMAIN new
           /\ Reconcile(new, old)[i] = [header |-> new[i].header, branch |-> Reconcile(new, old)[i].branch]
           /\ Reconcile(new, old)[i].header = new[i].header
           /\ Reconcile(new, old)[i].branch \in applied \cup {None}
<1> DEFINE met == Met(new[i], old)
           row == IF met = {} THEN new[i] ELSE SetFrom(new[i], Biggest(old, met))
<1>1. DOMAIN Reconcile(new, old) = DOMAIN new /\ Reconcile(new, old)[i] = row
  BY DEF Reconcile
<1>2. new[i] = [header |-> new[i].header, branch |-> None]
  BY DEF Apart
<1>3. /\ row = [header |-> new[i].header, branch |-> row.branch] /\ row.header = new[i].header
      /\ row.branch \in applied \cup {None}
  <2>1. CASE met = {}
    BY <1>2, <2>1
  <2>2. CASE met # {}
    <3> DEFINE taken == Biggest(old, met).branch
    <3>1. row = [new[i] EXCEPT !.branch = IF taken \in applied THEN taken ELSE None]
      BY <2>2 DEF SetFrom
    <3> HIDE DEF row, met, taken
    <3> QED
      BY <1>2, <3>1
  <2> QED
    BY <2>1, <2>2
<1> QED
  BY <1>1, <1>3

LEMMA BiggestOfOne == \A old, i : i \in Nat => Biggest(old, {i}) = old[i]
<1> SUFFICES ASSUME NEW old, NEW i \in Nat PROVE Biggest(old, {i}) = old[i]
  OBVIOUS
<1> DEFINE P(k) == \A j \in {i} : Lines(old[j]) < Lines(old[k]) \/ (Lines(old[j]) = Lines(old[k]) /\ j <= k)
<1>1. P(i)
  OBVIOUS
<1> HIDE DEF P
<1>2. (CHOOSE k \in {i} : P(k)) = i
  BY <1>1
<1> QED
  BY <1>2 DEF Biggest, P

(* Against what the same rows have become, every row meets itself alone.      *)
LEMMA ReconcileSettles ==
    ASSUME NEW new, Apart(new), DOMAIN new \subseteq Nat, NEW old
    PROVE  Reconcile(new, Reconcile(new, old)) = Reconcile(new, old)
<1> DEFINE once == Reconcile(new, old)
           again == Reconcile(new, once)
<1>1. DOMAIN once = DOMAIN new /\ DOMAIN again = DOMAIN new
      /\ once = [i \in DOMAIN new |-> once[i]] /\ again = [i \in DOMAIN new |-> again[i]]
  BY DEF Reconcile
<1>2. ASSUME NEW i \in DOMAIN new PROVE again[i] = once[i]
  <2>1. \A j \in DOMAIN new : /\ once[j] = [header |-> new[j].header, branch |-> once[j].branch]
                              /\ once[j].header = new[j].header
                              /\ once[j].branch \in applied \cup {None}
    BY Reconciled
  <2> HIDE DEF once
  <2>2. \A j \in DOMAIN new : once[j].header = new[j].header
    BY <2>1
  <2>3. \A j \in DOMAIN new : Intersect(once[j], new[i]) <=> j = i
    <3> TAKE j \in DOMAIN new
    <3>1. Intersect(once[j], new[i]) <=> Intersect(new[j], new[i])
      BY <2>2, HeadersMeet
    <3> QED
      BY <3>1, MeetsItself DEF Apart
  <2>4. Met(new[i], once) = {i}
    BY <1>1, <2>3 DEF Met
  <2>5. again[i] = SetFrom(new[i], once[i])
    <3>1. Biggest(once, {i}) = once[i]
      BY BiggestOfOne
    <3> QED
      BY <2>4, <3>1 DEF Reconcile
  <2>6. SetFrom(new[i], once[i]) = [new[i] EXCEPT !.branch = once[i].branch]
    BY <2>1 DEF SetFrom
  <2>7. [new[i] EXCEPT !.branch = once[i].branch] = [header |-> new[i].header, branch |-> once[i].branch]
    <3>1. new[i] = [header |-> new[i].header, branch |-> None]
      BY DEF Apart
    <3> QED
      BY <3>1
  <2> QED
    BY <2>1, <2>5, <2>6, <2>7
<1> HIDE DEF once, again
<1>3. again = once
  BY <1>1, <1>2
<1> QED
  BY <1>3 DEF once, again

(* A request for one of the headers reaches its row and no other.             *)
LEMMA RequestReachesOne ==
    ASSUME NEW new, Apart(new), NEW old, NEW b \in applied \cup {None}, NEW k \in DOMAIN new
    PROVE  LET before == Reconcile(new, old)
               header == before[k].header
           IN  Reconcile(before, <<[header |-> header, branch |-> b]>>)
                 = [j \in DOMAIN before |-> IF before[j].header = header
                                            THEN [before[j] EXCEPT !.branch = b] ELSE before[j]]
<1> DEFINE before == Reconcile(new, old)
           header == before[k].header
           row == [header |-> header, branch |-> b]
           request == <<row>>
           after == Reconcile(before, request)
<1>1. DOMAIN before = DOMAIN new /\ \A j \in DOMAIN new : before[j].header = new[j].header
  <2>1. DOMAIN before = DOMAIN new
    BY DEF Reconcile
  <2>2. \A j \in DOMAIN new : before[j] = [header |-> new[j].header, branch |-> before[j].branch]
    BY Reconciled
  <2> HIDE DEF before
  <2> QED
    BY <2>1, <2>2
<1>2. DOMAIN request = {1} /\ request[1] = row /\ row.header = header /\ row.branch = b
  OBVIOUS
<1>3. after = [j \in DOMAIN before |->
                 IF Met(before[j], request) = {} THEN before[j]
                 ELSE SetFrom(before[j], Biggest(request, Met(before[j], request)))]
  BY DEF Reconcile
<1> HIDE DEF before, row, request, after
<1>4. ASSUME NEW j \in DOMAIN new
      PROVE  Met(before[j], request) = IF before[j].header = header THEN {1} ELSE {}
  <2>1. Intersect(request[1], before[j]) <=> Intersect(new[k], new[j])
    BY <1>1, <1>2, HeadersMeet
  <2>2. Intersect(new[k], new[j]) <=> before[j].header = header
    <3>1. before[j].header = header => Intersect(new[k], new[j])
      BY <1>1, MeetsItself
    <3>2. Intersect(new[k], new[j]) => j = k
      BY DEF Apart
    <3> QED
      BY <3>1, <3>2
  <2> QED
    BY <1>2, <2>1, <2>2 DEF Met
<1>5. Biggest(request, {1}) = row
  BY <1>2, BiggestOfOne
<1>6. ASSUME NEW j \in DOMAIN new PROVE SetFrom(before[j], row) = [before[j] EXCEPT !.branch = b]
  BY <1>2 DEF SetFrom
<1>7. after = [j \in DOMAIN before |-> IF before[j].header = header
                                       THEN [before[j] EXCEPT !.branch = b] ELSE before[j]]
  BY <1>1, <1>3, <1>4, <1>5, <1>6
<1> QED
  BY <1>7 DEF before, row, request, after

-----------------------------------------------------------------------------
(* The edited places stay in order                                            *)

AssignmentInv == Ordered(changes)

LEMMA PlaceInserted ==
    ASSUME NEW places, Ordered(places), NEW p \in Places, NEW n \in 0..Len(places),
           \A i \in 1..n : places[i].bottom < p.top,
           \A i \in (n + 1)..Len(places) : p.bottom < places[i].top
    PROVE  Ordered(SubSeq(places, 1, n) \o <<p>> \o SubSeq(places, n + 1, Len(places)))
<1> DEFINE l == Len(places)
           above == SubSeq(places, 1, n)
           below == SubSeq(places, n + 1, l)
           new == above \o <<p>> \o below
<1>1. places \in Seq(Places) /\ l \in Nat /\ n \in 0..l /\ n \in Nat
  BY DEF Ordered
<1>2. /\ above \in Seq(Places) /\ Len(above) = n
      /\ \A i \in 1..n : above[i] = places[i]
  BY <1>1
<1>3. /\ below \in Seq(Places) /\ Len(below) = l - n
      /\ \A i \in 1..(l - n) : below[i] = places[n + i]
  BY <1>1
<1> HIDE DEF l, above, below
<1>4. new \in Seq(Places) /\ Len(new) = l + 1
  BY <1>1, <1>2, <1>3
<1>5. ASSUME NEW i \in 1..(l + 1)
      PROVE  new[i] = IF i <= n THEN places[i] ELSE IF i = n + 1 THEN p ELSE places[i - 1]
  <2>1. CASE i <= n
    BY <1>1, <1>2, <1>3, <2>1
  <2>2. CASE i = n + 1
    BY <1>1, <1>2, <1>3, <2>2
  <2>3. CASE i > n + 1
    <3>1. i - (n + 1) \in 1..(l - n) /\ n + (i - (n + 1)) = i - 1
      BY <1>1, <2>3
    <3>2. new[i] = below[i - (n + 1)]
      BY <1>1, <1>2, <1>3, <2>3, <3>1
    <3>3. below[i - (n + 1)] = places[i - 1]
      BY <1>3, <3>1
    <3> HIDE DEF new
    <3> QED
      BY <1>1, <2>3, <3>2, <3>3
  <2> HIDE DEF new
  <2> QED
    BY <1>1, <2>1, <2>2, <2>3
<1> HIDE DEF new
<1>6. ASSUME NEW i \in 1..(l + 1), NEW j \in 1..(l + 1), i < j
      PROVE  new[i].bottom < new[j].top
  <2>1. CASE i = n + 1
    <3>1. j - 1 \in (n + 1)..l /\ new[i] = p /\ new[j] = places[j - 1]
      BY <1>1, <1>5, <1>6, <2>1
    <3> QED
      BY <3>1 DEF l
  <2>2. CASE j = n + 1
    <3>1. i \in 1..n /\ new[i] = places[i] /\ new[j] = p
      BY <1>1, <1>5, <1>6, <2>2
    <3> QED
      BY <3>1
  <2>3. CASE i # n + 1 /\ j # n + 1
    <3> DEFINE x == IF i <= n THEN i ELSE i - 1
               y == IF j <= n THEN j ELSE j - 1
    <3>1. x \in 1..l /\ y \in 1..l /\ x < y
      BY <1>1, <1>6, <2>3 DEF l
    <3>2. new[i] = places[x] /\ new[j] = places[y]
      BY <1>5, <2>3
    <3> HIDE DEF x, y
    <3> QED
      BY <3>1, <3>2 DEF Ordered, l
  <2> QED
    BY <2>1, <2>2, <2>3
<1> QED
  BY <1>4, <1>6 DEF Ordered, new, above, below, l

LEMMA PlaceGrown ==
    ASSUME NEW places, Ordered(places), NEW i \in 1..Len(places), places[i].lines < MaxLines
    PROVE  Ordered([places EXCEPT ![i].lines = @ + 1])
<1> DEFINE new == [places EXCEPT ![i].lines = @ + 1]
<1>1. places \in Seq(Places) /\ Len(places) \in Nat
  BY DEF Ordered
<1>2. places[i] \in Places
  BY <1>1
<1>3. [places[i] EXCEPT !.lines = @ + 1] \in Places
  <2>1. /\ places[i] \in [top : 0..FileLines, bottom : 0..FileLines, lines : 0..MaxLines]
        /\ places[i].top <= places[i].bottom
    BY <1>2 DEF Places
  <2>2. places[i].lines + 1 \in 0..MaxLines /\ places[i].lines + 1 > 0
    BY <2>1, FileAssumption
  <2>3. [places[i] EXCEPT !.lines = @ + 1] \in [top : 0..FileLines, bottom : 0..FileLines, lines : 0..MaxLines]
    BY <2>1, <2>2
  <2> QED
    BY <2>1, <2>2, <2>3 DEF Places
<1>4. new \in Seq(Places) /\ Len(new) = Len(places)
  BY <1>1, <1>3
<1>5. \A j \in 1..Len(places) : new[j].top = places[j].top /\ new[j].bottom = places[j].bottom
  BY <1>1, <1>2 DEF Places
<1> HIDE DEF new
<1>6. Ordered(new)
  BY <1>4, <1>5 DEF Ordered
<1> QED
  BY <1>6 DEF new

LEMMA PlaceReverted ==
    ASSUME NEW places, Ordered(places), NEW n \in 1..Len(places)
    PROVE  Ordered(RemoveAt(places, n))
<1> DEFINE l == Len(places)
           new == SubSeq(places, 1, n - 1) \o SubSeq(places, n + 1, l)
<1>1. places \in Seq(Places) /\ l \in Nat
  BY DEF Ordered
<1>2. /\ SubSeq(places, 1, n - 1) \in Seq(Places) /\ Len(SubSeq(places, 1, n - 1)) = n - 1
      /\ \A i \in 1..(n - 1) : SubSeq(places, 1, n - 1)[i] = places[i]
  BY <1>1
<1>3. /\ SubSeq(places, n + 1, l) \in Seq(Places) /\ Len(SubSeq(places, n + 1, l)) = l - n
      /\ \A i \in 1..(l - n) : SubSeq(places, n + 1, l)[i] = places[n + i]
  BY <1>1
<1> HIDE DEF l
<1>4. new \in Seq(Places) /\ Len(new) = l - 1
  BY <1>1, <1>2, <1>3
<1>5. ASSUME NEW i \in 1..(l - 1) PROVE new[i] = IF i < n THEN places[i] ELSE places[i + 1]
  BY <1>1, <1>2, <1>3
<1> HIDE DEF new
<1>6. ASSUME NEW i \in 1..(l - 1), NEW j \in 1..(l - 1), i < j
      PROVE  new[i].bottom < new[j].top
  <2> DEFINE x == IF i < n THEN i ELSE i + 1
             y == IF j < n THEN j ELSE j + 1
  <2>1. x \in 1..l /\ y \in 1..l /\ x < y
    BY <1>1, <1>6 DEF l
  <2>2. new[i] = places[x] /\ new[j] = places[y]
    BY <1>5
  <2> HIDE DEF x, y
  <2> QED
    BY <2>1, <2>2 DEF Ordered, l
<1>7. Ordered(new)
  BY <1>1, <1>4, <1>6 DEF Ordered
<1> QED
  BY <1>7 DEF RemoveAt, new, l

(* The edited places are always in order and apart, as a diff shows them.     *)
THEOREM PlacesOrdered == AssignmentSpec => []AssignmentInv
<1>1. AssignmentInit => AssignmentInv
  BY DEF AssignmentInit, AssignmentInv, Ordered
<1>2. AssignmentInv /\ [AssignmentNext]_assignmentVars => AssignmentInv'
  <2> SUFFICES ASSUME AssignmentInv, [AssignmentNext]_assignmentVars PROVE AssignmentInv'
    OBVIOUS
  <2>1. Ordered(changes) /\ DOMAIN changes = 1..Len(changes)
    BY DEF AssignmentInv, Ordered
  <2>2. CASE EditWorktree
    <3>1. CASE \E p \in Places, n \in 0..Len(changes) :
                 /\ \A i \in 1..n : changes[i].bottom < p.top
                 /\ \A i \in (n + 1)..Len(changes) : p.bottom < changes[i].top
                 /\ changes' = SubSeq(changes, 1, n) \o <<p>> \o SubSeq(changes, n + 1, Len(changes))
      BY <2>1, <3>1, PlaceInserted DEF AssignmentInv
    <3>2. CASE \E i \in DOMAIN changes :
                 /\ changes[i].lines < MaxLines
                 /\ changes' = [changes EXCEPT ![i].lines = @ + 1]
      <4>1. PICK i \in 1..Len(changes) : /\ changes[i].lines < MaxLines
                                        /\ changes' = [changes EXCEPT ![i].lines = @ + 1]
        BY <2>1, <3>2
      <4>2. Ordered([changes EXCEPT ![i].lines = @ + 1])
        BY <2>1, <4>1, PlaceGrown
      <4>3. Ordered(changes')
        BY <4>1, <4>2
      <4> QED
        BY <4>3 DEF AssignmentInv
    <3>3. CASE \E i \in DOMAIN changes : changes' = RemoveAt(changes, i)
      BY <2>1, <3>3, PlaceReverted DEF AssignmentInv
    <3> QED
      BY <2>2, <3>1, <3>2, <3>3 DEF EditWorktree
  <2>3. CASE UNCHANGED changes
    BY <2>1, <2>3 DEF AssignmentInv
  <2> QED
    BY <2>2, <2>3 DEF AssignmentNext, ChangeWorkspace, Scan, Assign, AssignIds, assignmentVars
<1> QED
  BY <1>1, <1>2, PTL DEF AssignmentSpec

LEMMA OrderedScan ==
    ASSUME AssignmentInv, NEW eager \in BOOLEAN
    PROVE  Apart(Scanned(changes, eager)) /\ DOMAIN Scanned(changes, eager) \subseteq Nat
<1>1. Apart(Scanned(changes, eager))
  BY ScannedApart DEF AssignmentInv
<1>2. DOMAIN Scanned(changes, eager) \subseteq Nat
  <2>1. CASE ~eager
    BY <2>1 DEF Scanned
  <2>2. CASE eager
    BY <2>2 DEF Scanned
  <2> QED
    BY <2>1, <2>2
<1> QED
  BY <1>1, <1>2

(* What a scan decides, every further scan decides, and no row is left with a *)
(* branch that is not applied, for any rows that the table may hold.          *)
THEOREM Settles == AssignmentSpec => []ScansSettle
<1>1. AssignmentInv => ScansSettle
  <2> SUFFICES ASSUME AssignmentInv, NEW eager \in BOOLEAN
               PROVE  LET once == Reconcile(Scanned(changes, eager), rows)
                      IN  /\ Reconcile(Scanned(changes, eager), once) = once
                          /\ \A i \in DOMAIN once : once[i].branch \in applied \cup {None}
    BY DEF ScansSettle
  <2> DEFINE new == Scanned(changes, eager)
  <2>1. Apart(new) /\ DOMAIN new \subseteq Nat
    BY OrderedScan
  <2> HIDE DEF new
  <2>2. Reconcile(new, Reconcile(new, rows)) = Reconcile(new, rows)
    BY <2>1, ReconcileSettles
  <2>3. \A i \in DOMAIN Reconcile(new, rows) : Reconcile(new, rows)[i].branch \in applied \cup {None}
    <3>1. DOMAIN Reconcile(new, rows) = DOMAIN new
      BY DEF Reconcile
    <3> QED
      BY <2>1, <3>1, Reconciled
  <2> QED
    BY <2>2, <2>3 DEF new
<1> QED
  BY <1>1, PlacesOrdered, PTL

(* A request for a hunk that is still there assigns that hunk and no other.   *)
THEOREM Exact == AssignmentSpec => AssignIsExact
<1> DEFINE Step ==
      \A i \in DOMAIN rows, b \in applied \cup {None} :
          LET header == rows[i].header
              before == Reconcile(Scanned(changes, TRUE), rows)
          IN Assign(header, b) /\ header \in {before[j].header : j \in DOMAIN before}
               => rows' = [j \in DOMAIN before |->
                             IF before[j].header = header
                             THEN [before[j] EXCEPT !.branch = b] ELSE before[j]]
<1>1. AssignmentInv => Step
  <2> SUFFICES ASSUME AssignmentInv, NEW i \in DOMAIN rows, NEW b \in applied \cup {None}
               PROVE  LET header == rows[i].header
                          before == Reconcile(Scanned(changes, TRUE), rows)
                      IN Assign(header, b) /\ header \in {before[j].header : j \in DOMAIN before}
                           => rows' = [j \in DOMAIN before |->
                                         IF before[j].header = header
                                         THEN [before[j] EXCEPT !.branch = b] ELSE before[j]]
    OBVIOUS
  <2> DEFINE header == rows[i].header
             new == Scanned(changes, TRUE)
             before == Reconcile(new, rows)
  <2> SUFFICES ASSUME Assign(header, b), NEW k \in DOMAIN before, header = before[k].header
               PROVE  rows' = [j \in DOMAIN before |->
                                 IF before[j].header = header
                                 THEN [before[j] EXCEPT !.branch = b] ELSE before[j]]
    OBVIOUS
  <2>1. Apart(new) /\ k \in DOMAIN new
    BY OrderedScan DEF Reconcile
  <2>2. rows' = Reconcile(before, <<[header |-> header, branch |-> b]>>)
    BY DEF Assign
  <2> HIDE DEF new, header
  <2>3. Reconcile(before, <<[header |-> before[k].header, branch |-> b]>>)
          = [j \in DOMAIN before |-> IF before[j].header = before[k].header
                                     THEN [before[j] EXCEPT !.branch = b] ELSE before[j]]
    <3> HIDE DEF before
    <3>1. \A m \in DOMAIN new :
            Reconcile(Reconcile(new, rows), <<[header |-> Reconcile(new, rows)[m].header, branch |-> b]>>)
              = [j \in DOMAIN Reconcile(new, rows) |->
                   IF Reconcile(new, rows)[j].header = Reconcile(new, rows)[m].header
                   THEN [Reconcile(new, rows)[j] EXCEPT !.branch = b] ELSE Reconcile(new, rows)[j]]
      BY <2>1, RequestReachesOne
    <3> QED
      BY <2>1, <3>1 DEF before
  <2> HIDE DEF before
  <2> QED
    BY <2>2, <2>3
<1> HIDE DEF Step
<1>2. AssignmentInv /\ [AssignmentNext]_assignmentVars => [Step]_assignmentVars
  BY <1>1
<1>3. AssignmentSpec => [][Step]_assignmentVars
  BY <1>2, PlacesOrdered, PTL DEF AssignmentSpec
<1> QED
  BY <1>3, PTL DEF AssignIsExact, Step

-----------------------------------------------------------------------------
(* What goes on in one of the three is what it does by itself.                *)
THEOREM EachByItself == WorkSpec => Spec /\ Ranges!HunkSpec /\ AssignmentSpec
<1>1. WorkInit => Init /\ Ranges!HunkInit /\ AssignmentInit
  BY DEF WorkInit
<1>2. [WorkNext]_<<focus, vars, rangeVars, assignmentVars>> =>
        [Next]_vars /\ [Ranges!HunkNext]_(Ranges!hunkVars) /\ [AssignmentNext]_assignmentVars
  BY DEF WorkNext, Complete, rangeVars, Ranges!hunkVars
<1> QED
  BY <1>1, <1>2, PTL DEF WorkSpec, Spec, Ranges!HunkSpec, AssignmentSpec
==============================================================================
