----------------------- MODULE SnapshotRestore_proof -----------------------
(* What a restore that reports success, or refuses, has done to a repository, *)
(* for every number of stacks, commits and files, wherever a fault strikes    *)
(* and whoever interferes.                                                    *)
EXTENDS SnapshotRestore, TLAPS

Acting == {"conflicts", "reconstitute", "check", "checkout", "metadata", "refs",
           "index", "record"}

(* Each step leaves behind what no later step changes.                        *)
MetadataKnown ==
    call.step \in {"refs", "index", "record", "done"} => repo.meta = call.target.meta

BranchesKnown ==
    call.step \in {"index", "record", "done"} /\ ~call.ignored =>
        \A s \in InWorkspace(call.target.meta) : repo.ref[s] = call.target.meta[s]

CommitsKnown ==
    call.step \in (Acting \ {"conflicts", "reconstitute"}) \cup {"done"} =>
        HeadsOf(call.target) \subseteq objects

BeforeKnown ==
    /\ call.step \in Acting \cup {"done"} => call.before = SnapshotOf(call.began)
    /\ call.step \in Acting => Len(log) = call.entries
    /\ At("done") => Len(log) = call.entries + 1 /\ log[Len(log)] = call.before

FilesKnown == ~call.safe /\ ~call.raced =>
    /\ call.step \in {"metadata", "refs", "index", "record", "done"} =>
            repo.worktree = call.target.worktree
    /\ call.step \in {"record", "done"} => repo.index = call.target.index

WorkspaceKnown == ~call.raced =>
    /\ At("check") => (call.target.onWorkspace /\ repo.head = "workspace" =>
                            repo.workspace = call.target.workspace)
    /\ call.step \in (Acting \ {"conflicts", "reconstitute", "check"}) \cup {"done"} =>
            (call.target.onWorkspace => repo.workspace = call.target.workspace)

(* Until HEAD was checked, and if that fails, all is as it was.               *)
WorkKnown == ~call.raced =>
    /\ call.step \in Acting => repo.head = call.began.head
    /\ call.step \in Acting \ {"conflicts", "reconstitute", "check"} =>
            call.began.head = "workspace"
    /\ (call.step \in {"conflicts", "reconstitute", "check", "failed"}
            /\ call.began.head # "workspace") =>
            /\ repo.worktree = call.began.worktree
            /\ repo.index = call.began.index
            /\ repo.workspace = call.began.workspace
            /\ Len(log) = call.entries

-----------------------------------------------------------------------------
(* A snapshot of a repository is a snapshot, and syncing keeps the types.     *)
LEMMA SnapshotType == ASSUME NEW r \in Repo PROVE SnapshotOf(r) \in Snapshot
<1>1. Synced(r) \in [Stacks -> BranchHead]  BY DEF Synced, Repo
<1> QED  BY <1>1 DEF SnapshotOf, Snapshot, Repo

LEMMA PreparedType == ASSUME NEW r \in Repo PROVE Prepared(r) \in Repo
<1>1. Synced(r) \in [Stacks -> BranchHead]  BY DEF Synced, Repo
<1>2. Recreated(r, Stacks) \in [Stacks -> BranchHead]  BY DEF Recreated, Repo
<1> QED  BY <1>1, <1>2 DEF Prepared, Repo

LEMMA HalfPreparedType == ASSUME NEW r \in Repo PROVE HalfPrepared(r) \subseteq Repo
<1> SUFFICES ASSUME NEW S \in SUBSET Stacks
             PROVE  [r EXCEPT !.ref = Recreated(r, S)] \in Repo
  BY PreparedType DEF HalfPrepared
<1>1. Recreated(r, S) \in [Stacks -> BranchHead]  BY DEF Recreated, Repo
<1> QED  BY <1>1 DEF Repo

(* Preparing a snapshot touches references and metadata only.                 *)
LEMMA PreparingKeepsWork ==
    ASSUME NEW r \in Repo, NEW q \in {Prepared(r)} \cup HalfPrepared(r)
    PROVE  /\ q.worktree = r.worktree /\ q.index = r.index
           /\ q.workspace = r.workspace /\ q.head = r.head
BY DEF Prepared, HalfPrepared, Repo

LEMMA TreesOf ==
    ASSUME NEW a \in Trees, NEW b \in Trees, NEW c \in Trees
    PROVE  CheckedOut(a, b, c) \in Trees
BY DEF CheckedOut, Trees

(* What a restore may leave in the worktree and the index when it checks out. *)
LEMMA CheckoutType ==
    ASSUME RestoreTypeOK, NEW source \in Source(repo)
    PROVE  /\ ForceCheckout(repo, call.target.worktree) \in Repo
           /\ [SafeCheckout([repo EXCEPT !.workspace = source], call.target.worktree)
                    EXCEPT !.workspace = repo.workspace] \in Repo
<1>1. source \in Trees /\ repo \in Repo /\ call.target.worktree \in Trees
  BY DEF RestoreTypeOK, Source, Repo, Call, Snapshot
<1> DEFINE r == [repo EXCEPT !.workspace = source]
<1>2. r \in Repo /\ r.workspace = source  BY <1>1 DEF Repo
<1>3. /\ CheckedOut(r.workspace, call.target.worktree, r.worktree) \in Trees
      /\ CheckedOut(r.workspace, call.target.worktree, r.index) \in Trees
  BY <1>1, <1>2, TreesOf DEF Repo
<1>4. SafeCheckout(r, call.target.worktree) \in Repo
  BY <1>2, <1>3 DEF SafeCheckout, Repo
<1>5. [SafeCheckout(r, call.target.worktree) EXCEPT !.workspace = repo.workspace] \in Repo
  BY <1>1, <1>4 DEF Repo
<1> QED  BY <1>1, <1>5 DEF ForceCheckout, Repo

LEMMA GotoType ==
    ASSUME RestoreTypeOK, NEW step \in Steps, Goto(step) PROVE call' \in Call
BY DEF RestoreTypeOK, Goto, Call

(* Going on changes the step, and nothing that the call knows.                *)
LEMMA GotoKeeps ==
    ASSUME RestoreTypeOK, NEW step, Goto(step)
    PROVE  /\ call'.step = step /\ call'.target = call.target
           /\ call'.before = call.before /\ call'.prepared = call.prepared
           /\ call'.safe = call.safe /\ call'.raced = call.raced
           /\ call'.ignored = call.ignored
           /\ call'.began = call.began /\ call'.entries = call.entries
BY DEF RestoreTypeOK, Goto, Call

(* So does a race, which the call only remembers to have happened.            *)
LEMMA RaceKeeps ==
    ASSUME RestoreTypeOK, Race
    PROVE  /\ call' \in Call /\ call'.step = call.step /\ call'.target = call.target
           /\ call'.before = call.before /\ call'.ignored = call.ignored
           /\ call'.began = call.began /\ call'.entries = call.entries
           /\ call.step \in Acting => call'.raced
BY DEF RestoreTypeOK, Race, Running, Call, Acting

LEMMA RefsGoOn ==
    ASSUME RestoreTypeOK, RestoreRefs
    PROVE  /\ call' \in Call /\ call.step = "refs" /\ call'.step = "index"
           /\ call'.target = call.target /\ call'.before = call.before
           /\ call'.safe = call.safe /\ call'.raced = call.raced
           /\ call'.began = call.began /\ call'.entries = call.entries
<1>1. PICK S \in SUBSET InWorkspace(call.target.meta) :
        call' = [call EXCEPT !.step = "index", !.ignored = S # InWorkspace(call.target.meta)]
  BY DEF RestoreRefs
<1> QED  BY <1>1 DEF RestoreTypeOK, Call, Steps, RestoreRefs, At

LEMMA NoCallType == NoCall \in Call
<1>1. Blank \in Trees  BY DEF Blank, Trees
<1>2. BlankRepo \in Repo  BY <1>1 DEF BlankRepo, Repo, BranchHead
<1> QED  BY <1>2, SnapshotType DEF NoCall, Call, Steps
-----------------------------------------------------------------------------
(* Whatever fails, and whoever interferes, every part keeps its type.         *)
THEOREM TypeCorrect == RestoreSpec => []RestoreTypeOK
<1>1. RestoreInit => RestoreTypeOK
  <2> SUFFICES ASSUME RestoreInit PROVE RestoreTypeOK  OBVIOUS
  <2>1. repo \in Repo /\ objects \in SUBSET Commits
    BY DEF RestoreInit, Repo, BranchHead
  <2> QED  BY <2>1, NoCallType, BoundsAreNatural DEF RestoreInit, RestoreTypeOK
<1>2. RestoreTypeOK /\ [RestoreNext]_restoreVars => RestoreTypeOK'
  <2> SUFFICES ASSUME RestoreTypeOK, [RestoreNext]_restoreVars PROVE RestoreTypeOK'  OBVIOUS
  <2> USE DEF RestoreTypeOK
  <2>1. CASE BeginRestore
    <3>1. PICK i \in DOMAIN log, ok \in BOOLEAN, safe \in BOOLEAN :
            /\ repo' \in IF ok THEN {Prepared(repo)} ELSE HalfPrepared(repo)
            /\ call' = [step |-> "conflicts", target |-> log[i], before |-> SnapshotOf(repo),
                        prepared |-> ok, safe |-> safe, began |-> repo, entries |-> Len(log),
                        raced |-> FALSE, ignored |-> FALSE]
      BY <2>1 DEF BeginRestore
    <3>2. repo' \in Repo  BY <3>1, PreparedType, HalfPreparedType
    <3>3. call' \in Call  BY <3>1, SnapshotType DEF Call, Steps
    <3> QED  BY <2>1, <3>2, <3>3 DEF BeginRestore
  <2>2. CASE RestoreConflicts
    <3>1. repo' \in Repo
      <4>1. call.target.conflicts \in BOOLEAN  BY DEF Call, Snapshot
      <4>2. repo' = repo \/ repo' = [repo EXCEPT !.conflicts = call.target.conflicts]
        BY <2>2 DEF RestoreConflicts
      <4>3. [repo EXCEPT !.conflicts = call.target.conflicts] \in Repo
        BY <4>1 DEF Repo
      <4> QED  BY <4>2, <4>3
    <3>2. call' \in Call  BY <2>2, GotoType DEF RestoreConflicts, Steps
    <3> QED  BY <2>2, <3>1, <3>2 DEF RestoreConflicts
  <2>3. CASE Reconstitute
    <3>1. repo' \in Repo
      <4>1. call.target.workspace \in Trees  BY DEF Call, Snapshot
      <4>2. repo' = repo \/ repo' = [repo EXCEPT !.workspace = call.target.workspace]
        BY <2>3 DEF Reconstitute
      <4> QED  BY <4>1, <4>2 DEF Repo
    <3>2. call' \in Call
      <4>1. Goto("check") \/ Goto("failed")  BY <2>3 DEF Reconstitute
      <4> QED  BY <4>1, GotoType DEF Steps
    <3>3. HeadsOf(call.target) \subseteq Commits
      BY DEF HeadsOf, InWorkspace, Call, Snapshot, BranchHead
    <3> QED  BY <2>3, <3>1, <3>2, <3>3 DEF Reconstitute
  <2>4. CASE CheckHead
    BY <2>4, GotoType DEF CheckHead, Steps
  <2>5. CASE Checkout
    <3>1. call' \in Call  BY <2>5, GotoType DEF Checkout, Steps
    <3>2. repo' \in Repo
      <4>1. PICK source \in Source(repo) :
              LET r == [repo EXCEPT !.workspace = source]
                  out == IF call.safe THEN [SafeCheckout(r, call.target.worktree)
                                                EXCEPT !.workspace = repo.workspace]
                                      ELSE ForceCheckout(repo, call.target.worktree)
              IN \/ repo' = out
                 \/ UNCHANGED repo
                 \/ \E P \in SUBSET Paths : repo' = [repo EXCEPT !.worktree =
                        [p \in Paths |-> IF p \in P THEN out.worktree[p] ELSE repo.worktree[p]]]
        BY <2>5 DEF Checkout
      <4> DEFINE out == IF call.safe
                        THEN [SafeCheckout([repo EXCEPT !.workspace = source], call.target.worktree)
                                 EXCEPT !.workspace = repo.workspace]
                        ELSE ForceCheckout(repo, call.target.worktree)
      <4>2. out \in Repo  BY CheckoutType
      <4> HIDE DEF out
      <4>3. ASSUME NEW P \in SUBSET Paths
            PROVE  [repo EXCEPT !.worktree =
                        [p \in Paths |-> IF p \in P THEN out.worktree[p] ELSE repo.worktree[p]]]
                        \in Repo
        <5>1. [p \in Paths |-> IF p \in P THEN out.worktree[p] ELSE repo.worktree[p]] \in Trees
          BY <4>2 DEF Repo, Trees
        <5> QED  BY <5>1 DEF Repo
      <4>4. \/ repo' = out
            \/ UNCHANGED repo
            \/ \E P \in SUBSET Paths : repo' = [repo EXCEPT !.worktree =
                    [p \in Paths |-> IF p \in P THEN out.worktree[p] ELSE repo.worktree[p]]]
        BY <4>1 DEF out
      <4> QED  BY <4>2, <4>3, <4>4
    <3> QED  BY <2>5, <3>1, <3>2 DEF Checkout
  <2>6. CASE RestoreMetadata
    <3>1. repo' \in Repo  BY <2>6 DEF RestoreMetadata, Repo, Call, Snapshot
    <3>2. call' \in Call  BY <2>6, GotoType DEF RestoreMetadata, Steps
    <3> QED  BY <2>6, <3>1, <3>2 DEF RestoreMetadata
  <2>7. CASE RestoreRefs
    <3>1. PICK S \in SUBSET InWorkspace(call.target.meta) :
            repo' = [repo EXCEPT !.ref =
                        [s \in Stacks |-> IF s \in S THEN call.target.meta[s] ELSE repo.ref[s]]]
      BY <2>7 DEF RestoreRefs
    <3>2. repo' \in Repo  BY <3>1 DEF Repo, Call, Snapshot
    <3>3. call' \in Call  BY <2>7, RefsGoOn
    <3> QED  BY <2>7, <3>2, <3>3 DEF RestoreRefs
  <2>8. CASE RestoreIndex
    <3>1. repo' \in Repo  BY <2>8 DEF RestoreIndex, Repo, Call, Snapshot
    <3>2. call' \in Call  BY <2>8, GotoType DEF RestoreIndex, Steps
    <3> QED  BY <2>8, <3>1, <3>2 DEF RestoreIndex
  <2>9. CASE RecordRestore
    <3>1. call' \in Call  BY <2>9, GotoType DEF RecordRestore, Steps
    <3>2. call.before \in Snapshot  BY DEF Call
    <3>3. Append(log, call.before) \in Seq(Snapshot)  BY <3>2
    <3>4. log' = log \/ log' = Append(log, call.before)  BY <2>9 DEF RecordRestore
    <3>5. log' \in Seq(Snapshot)  BY <3>3, <3>4
    <3>6. UNCHANGED <<repo, objects, changes>>  BY <2>9 DEF RecordRestore
    <3> QED  BY <3>1, <3>5, <3>6
  <2>10. CASE BreakOff
    BY <2>10, GotoType DEF BreakOff, Steps
  <2>11. CASE Return
    BY <2>11, NoCallType DEF Return
  <2>12. CASE Operate
    <3>1. PICK heads \in [Stacks -> BranchHead], t \in Trees, w \in Trees :
        /\ repo' = Reworked(Prepared(repo), heads, t, w)
        /\ objects' = objects \cup ({heads[s] : s \in Stacks} \ {None})
      BY <2>12 DEF Operate, Repo
    <3>2. repo' \in Repo  BY <3>1, PreparedType DEF Reworked, Repo
    <3>3. objects' \in SUBSET Commits  BY <3>1 DEF BranchHead
    <3>4. log' \in Seq(Snapshot)  BY <2>12, SnapshotType DEF Operate
    <3> QED  BY <2>12, <3>2, <3>3, <3>4, BoundsAreNatural DEF Operate, Change
  <2>13. CASE Edit
    <3>1. repo' \in Repo  BY <2>13 DEF Edit, Repo, Trees
    <3>2. call' \in Call  BY <2>13, RaceKeeps DEF Edit
    <3> QED  BY <2>13, <3>1, <3>2, BoundsAreNatural DEF Edit, Change
  <2>14. CASE SwitchHead
    <3>1. repo' \in Repo  BY <2>14 DEF SwitchHead, Repo
    <3>2. call' \in Call  BY <2>14, RaceKeeps DEF SwitchHead
    <3> QED  BY <2>14, <3>1, <3>2, BoundsAreNatural DEF SwitchHead, Change
  <2>15. CASE MoveRef
    <3>1. PICK s \in Stacks, c \in objects \cup {None} : repo' = [repo EXCEPT !.ref[s] = c]
      BY <2>15 DEF MoveRef
    <3>2. c \in BranchHead  BY DEF BranchHead
    <3>3. [repo.ref EXCEPT ![s] = c] \in [Stacks -> BranchHead]  BY <3>2 DEF Repo
    <3>4. repo' = [repo EXCEPT !.ref = [repo.ref EXCEPT ![s] = c]]  BY <3>1
    <3>5. repo' \in Repo  BY <3>3, <3>4 DEF Repo
    <3> QED  BY <2>15, <3>5, BoundsAreNatural DEF MoveRef, Change
  <2>16. CASE Conflict
    <3>1. repo' \in Repo  BY <2>16 DEF Conflict, Repo
    <3> QED  BY <2>16, <3>1, BoundsAreNatural DEF Conflict, Change
  <2>17. CASE CollectGarbage
    BY <2>17, BoundsAreNatural DEF CollectGarbage, Change
  <2>18. CASE UNCHANGED restoreVars
    BY <2>18 DEF restoreVars
  <2> QED
    BY <2>1, <2>2, <2>3, <2>4, <2>5, <2>6, <2>7, <2>8, <2>9, <2>10, <2>11, <2>12, <2>13,
       <2>14, <2>15, <2>16, <2>17, <2>18 DEF RestoreNext, RestoreStep, World
<1> QED  BY <1>1, <1>2, PTL DEF RestoreSpec
-----------------------------------------------------------------------------
(* The restore that succeeded can be taken back: the newest entry is the      *)
(* state of the repository right before the call.                             *)
THEOREM TakenBack == RestoreSpec => []CanBeTakenBack
<1>1. RestoreInit => BeforeKnown
  BY DEF RestoreInit, NoCall, BeforeKnown, At, Acting
<1>2. RestoreTypeOK /\ BeforeKnown /\ [RestoreNext]_restoreVars => BeforeKnown'
  <2> SUFFICES ASSUME RestoreTypeOK, BeforeKnown, [RestoreNext]_restoreVars PROVE BeforeKnown'  OBVIOUS
  <2>1. CASE BeginRestore
    BY <2>1 DEF BeginRestore, BeforeKnown, At, Acting
  <2>2. ASSUME NEW step \in Acting \cup {"failed"}, call.step \in Acting,
               Goto(step), UNCHANGED log
        PROVE  BeforeKnown'
    BY <2>2, GotoKeeps DEF BeforeKnown, At, Acting
  <2>3. CASE RestoreConflicts \/ Reconstitute \/ CheckHead \/ Checkout
    <3>1. /\ Goto("reconstitute") \/ Goto("check") \/ Goto("checkout")
                \/ Goto("metadata") \/ Goto("failed")
          /\ call.step \in Acting /\ UNCHANGED log
      BY <2>3 DEF RestoreConflicts, Reconstitute, CheckHead, Checkout, At, Running, Acting
    <3> QED  BY <3>1, <2>2 DEF Acting
  <2>10. CASE RestoreRefs
    <3>1. UNCHANGED log  BY <2>10 DEF RestoreRefs
    <3> QED  BY <2>10, <3>1, RefsGoOn DEF BeforeKnown, At, Acting
  <2>4. CASE RestoreMetadata \/ RestoreIndex \/ BreakOff
    <3>1. /\ Goto("refs") \/ Goto("record") \/ Goto("failed")
          /\ call.step \in Acting /\ UNCHANGED log
      BY <2>4 DEF RestoreMetadata, RestoreIndex, BreakOff, At, Running, Acting,
                  RestoreTypeOK, Call, Steps
    <3> QED  BY <3>1, <2>2 DEF Acting
  <2>5. CASE RecordRestore
    <3>1. CASE call.prepared /\ log' = Append(log, call.before) /\ Goto("done")
      <4>1. Len(log') = Len(log) + 1 /\ log'[Len(log')] = call.before
        BY <3>1 DEF RestoreTypeOK, Call
      <4>2. call.step = "record"  BY <2>5 DEF RecordRestore, At
      <4>3. Len(log) = call.entries /\ call.before = SnapshotOf(call.began)
        BY <4>2 DEF BeforeKnown, Acting
      <4>4. /\ call'.step = "done" /\ call'.before = call.before
            /\ call'.began = call.began /\ call'.entries = call.entries
        BY <3>1, GotoKeeps
      <4> QED  BY <4>1, <4>3, <4>4 DEF BeforeKnown, At, Acting
    <3>2. CASE Goto("failed")
      BY <3>2, GotoKeeps DEF BeforeKnown, At, Acting
    <3> QED  BY <2>5, <3>1, <3>2 DEF RecordRestore
  <2>6. CASE Return
    BY <2>6 DEF Return, NoCall, BeforeKnown, At, Acting
  <2>7. CASE Operate
    BY <2>7 DEF Operate, BeforeKnown, At, Acting
  <2>8. CASE MoveRef \/ Conflict \/ CollectGarbage
    BY <2>8 DEF MoveRef, Conflict, CollectGarbage, BeforeKnown, At
  <2>11. CASE Edit \/ SwitchHead
    <3>1. Race /\ UNCHANGED log  BY <2>11 DEF Edit, SwitchHead
    <3> QED  BY <3>1, RaceKeeps DEF BeforeKnown, At
  <2>9. CASE UNCHANGED restoreVars
    BY <2>9 DEF restoreVars, BeforeKnown, At
  <2> QED
    BY <2>1, <2>3, <2>4, <2>5, <2>6, <2>7, <2>8, <2>9, <2>10, <2>11
    DEF RestoreNext, RestoreStep, World
<1>3. BeforeKnown => CanBeTakenBack
  BY DEF BeforeKnown, CanBeTakenBack, At
<1> QED  BY <1>1, <1>2, <1>3, TypeCorrect, PTL DEF RestoreSpec
-----------------------------------------------------------------------------
(* The restore that succeeded left the branches of the workspace where the    *)
(* snapshot had them, on commits that exist, if no error of setting a         *)
(* reference was ignored.                                                     *)
THEOREM BranchesRestored == RestoreSpec => []RestoresTheBranches
<1> DEFINE Known == MetadataKnown /\ BranchesKnown /\ CommitsKnown
<1> USE DEF Acting
<1>1. RestoreInit => Known
  BY DEF RestoreInit, NoCall, MetadataKnown, BranchesKnown, CommitsKnown
<1>2. RestoreTypeOK /\ Known /\ [RestoreNext]_restoreVars => Known'
  <2> SUFFICES ASSUME RestoreTypeOK, Known, [RestoreNext]_restoreVars PROVE Known'  OBVIOUS
  <2>1. CASE BeginRestore
    BY <2>1 DEF BeginRestore, MetadataKnown, BranchesKnown, CommitsKnown
  <2>2. CASE RestoreConflicts
    BY <2>2, GotoKeeps DEF RestoreConflicts, MetadataKnown, BranchesKnown, CommitsKnown, At
  <2>3. CASE Reconstitute
    <3>1. call'.step \in {"check", "failed"} /\ call'.target = call.target
      BY <2>3, GotoKeeps DEF Reconstitute
    <3>2. HeadsOf(call.target) \subseteq objects'  BY <2>3 DEF Reconstitute
    <3> QED  BY <3>1, <3>2 DEF MetadataKnown, BranchesKnown, CommitsKnown
  <2>4. CASE CheckHead
    <3>1. /\ call.step = "check" /\ call'.step \in {"checkout", "failed"}
          /\ call'.target = call.target /\ call'.ignored = call.ignored /\ objects' = objects
      BY <2>4, GotoKeeps DEF CheckHead, At
    <3> QED  BY <3>1 DEF MetadataKnown, BranchesKnown, CommitsKnown
  <2>5. CASE Checkout
    <3>1. /\ call.step = "checkout" /\ call'.step \in {"metadata", "failed"}
          /\ call'.target = call.target /\ call'.ignored = call.ignored /\ objects' = objects
      BY <2>5, GotoKeeps DEF Checkout, At
    <3> QED  BY <3>1 DEF MetadataKnown, BranchesKnown, CommitsKnown
  <2>6. CASE RestoreMetadata
    <3>1. /\ call.step = "metadata" /\ call'.step \in {"refs", "failed"}
          /\ call'.target = call.target /\ call'.ignored = call.ignored /\ objects' = objects
      BY <2>6, GotoKeeps DEF RestoreMetadata, At
    <3>2. call'.step = "refs" => repo'.meta = call.target.meta
      BY <2>6, GotoKeeps DEF RestoreMetadata, RestoreTypeOK, Repo
    <3> QED  BY <3>1, <3>2 DEF MetadataKnown, BranchesKnown, CommitsKnown
  <2>7. CASE RestoreRefs
    <3>1. PICK S \in SUBSET InWorkspace(call.target.meta) :
            /\ repo' = [repo EXCEPT !.ref =
                    [s \in Stacks |-> IF s \in S THEN call.target.meta[s] ELSE repo.ref[s]]]
            /\ call' = [call EXCEPT !.step = "index",
                                    !.ignored = S # InWorkspace(call.target.meta)]
      BY <2>7 DEF RestoreRefs
    <3>2. ~call'.ignored => S = InWorkspace(call.target.meta)
      BY <3>1 DEF RestoreTypeOK, Call
    <3>3. repo'.meta = repo.meta
      BY <3>1 DEF RestoreTypeOK, Repo
    <3>4. ~call'.ignored =>
            \A s \in InWorkspace(call.target.meta) : repo'.ref[s] = call.target.meta[s]
      BY <3>1, <3>2 DEF RestoreTypeOK, Repo, InWorkspace
    <3>5. objects' = objects  BY <2>7 DEF RestoreRefs
    <3> QED  BY <2>7, RefsGoOn, <3>3, <3>4, <3>5 DEF MetadataKnown, BranchesKnown, CommitsKnown
  <2>8. CASE RestoreIndex
    <3>1. /\ call.step = "index" /\ call'.step \in {"record", "failed"}
          /\ call'.target = call.target /\ call'.ignored = call.ignored /\ objects' = objects
      BY <2>8, GotoKeeps DEF RestoreIndex, At
    <3>2. repo'.meta = repo.meta /\ repo'.ref = repo.ref
      BY <2>8 DEF RestoreIndex, RestoreTypeOK, Repo
    <3> QED  BY <3>1, <3>2 DEF MetadataKnown, BranchesKnown, CommitsKnown
  <2>9. CASE RecordRestore
    <3>1. /\ call.step = "record" /\ call'.step \in {"done", "failed"}
          /\ call'.target = call.target /\ call'.ignored = call.ignored /\ objects' = objects /\ repo' = repo
      BY <2>9, GotoKeeps DEF RecordRestore, At
    <3> QED  BY <3>1 DEF MetadataKnown, BranchesKnown, CommitsKnown
  <2>10. CASE BreakOff
    BY <2>10, GotoKeeps DEF BreakOff, MetadataKnown, BranchesKnown, CommitsKnown
  <2>11. CASE Return
    BY <2>11 DEF Return, NoCall, MetadataKnown, BranchesKnown, CommitsKnown
  <2>12. CASE Operate \/ MoveRef \/ Conflict \/ CollectGarbage
    BY <2>12 DEF Operate, MoveRef, Conflict, CollectGarbage, At,
                 MetadataKnown, BranchesKnown, CommitsKnown
  <2>13. CASE Edit \/ SwitchHead
    <3>1. repo'.meta = repo.meta /\ repo'.ref = repo.ref
      BY <2>13 DEF Edit, SwitchHead, RestoreTypeOK, Repo
    <3>2. Race /\ objects' = objects  BY <2>13 DEF Edit, SwitchHead
    <3> QED  BY <3>1, <3>2, RaceKeeps DEF MetadataKnown, BranchesKnown, CommitsKnown
  <2>14. CASE UNCHANGED restoreVars
    BY <2>14 DEF restoreVars, MetadataKnown, BranchesKnown, CommitsKnown
  <2> QED
    BY <2>1, <2>2, <2>3, <2>4, <2>5, <2>6, <2>7, <2>8, <2>9, <2>10, <2>11, <2>12, <2>13,
       <2>14 DEF RestoreNext, RestoreStep, World
<1>3. RestoreTypeOK /\ Known => RestoresTheBranches
  <2> SUFFICES ASSUME RestoreTypeOK, Known, At("done"), ~call.ignored PROVE RestoresTheBranches
    BY DEF RestoresTheBranches
  <2>1. repo.meta = call.target.meta  BY DEF MetadataKnown, At
  <2>2. \A s \in InWorkspace(repo.meta) : repo.ref[s] = repo.meta[s]
    BY <2>1 DEF BranchesKnown, At
  <2>3. \A s \in Stacks : Synced(repo)[s] = repo.meta[s]
    BY <2>2 DEF Synced, InWorkspace
  <2>4. Synced(repo) = repo.meta
    BY <2>3 DEF Synced, RestoreTypeOK, Repo
  <2>5. Resolvable(repo)
    BY <2>1, <2>4 DEF CommitsKnown, At, Resolvable, HeadsOf
  <2> QED  BY <2>1, <2>4, <2>5 DEF RestoresTheBranches
<1> QED  BY <1>1, <1>2, <1>3, TypeCorrect, PTL DEF RestoreSpec
-----------------------------------------------------------------------------
(* The restore that succeeded left files, index, metadata and the workspace   *)
(* reference as the snapshot has them, with the forced checkout and nobody    *)
(* interfering, whatever error was ignored on the way.                        *)
THEOREM SnapshotRestored == RestoreSpec => []RestoresTheSnapshot
<1> DEFINE Known == MetadataKnown /\ FilesKnown /\ WorkspaceKnown
<1> USE DEF Acting
<1>1. RestoreInit => Known
  BY DEF RestoreInit, NoCall, MetadataKnown, FilesKnown, WorkspaceKnown, At
<1>2. RestoreTypeOK /\ Known /\ [RestoreNext]_restoreVars => Known'
  <2> SUFFICES ASSUME RestoreTypeOK, Known, [RestoreNext]_restoreVars PROVE Known'  OBVIOUS
  <2>1. CASE BeginRestore
    BY <2>1 DEF BeginRestore, MetadataKnown, FilesKnown, WorkspaceKnown, At
  <2>2. CASE RestoreConflicts
    BY <2>2, GotoKeeps DEF RestoreConflicts, MetadataKnown, FilesKnown, WorkspaceKnown, At
  <2>3. CASE Reconstitute
    <3>1. call'.step \in {"check", "failed"} /\ call'.target = call.target
            /\ call'.raced = call.raced
      BY <2>3, GotoKeeps DEF Reconstitute
    <3>2. (call.target.onWorkspace /\ repo'.head = "workspace") =>
             repo'.workspace = call.target.workspace
      BY <2>3 DEF Reconstitute, RestoreTypeOK, Repo
    <3> QED  BY <3>1, <3>2 DEF MetadataKnown, FilesKnown, WorkspaceKnown, At
  <2>4. CASE CheckHead
    <3>1. /\ call.step = "check" /\ call'.step \in {"checkout", "failed"}
          /\ call'.step = "checkout" => repo.head = "workspace"
          /\ call'.target = call.target /\ repo' = repo
          /\ call'.safe = call.safe /\ call'.raced = call.raced
      BY <2>4, GotoKeeps DEF CheckHead, At
    <3> QED  BY <3>1 DEF MetadataKnown, FilesKnown, WorkspaceKnown, At
  <2>5. CASE Checkout
    <3>1. /\ call.step = "checkout" /\ call'.step \in {"metadata", "failed"}
          /\ call'.target = call.target
          /\ call'.safe = call.safe /\ call'.raced = call.raced
      BY <2>5, GotoKeeps DEF Checkout, At
    <3>2. call'.step = "metadata" /\ ~call.safe =>
            repo' = ForceCheckout(repo, call.target.worktree)
      BY <2>5, GotoKeeps DEF Checkout
    <3>3. /\ call'.step = "metadata" /\ ~call.safe => repo'.worktree = call.target.worktree
          /\ call'.step = "metadata" => repo'.workspace = repo.workspace
      <4>1. ASSUME NEW source \in Source(repo)
            PROVE  [SafeCheckout([repo EXCEPT !.workspace = source], call.target.worktree)
                        EXCEPT !.workspace = repo.workspace].workspace = repo.workspace
        BY DEF SafeCheckout, RestoreTypeOK, Repo
      <4>2. call'.step = "metadata" =>
                \/ repo' = ForceCheckout(repo, call.target.worktree)
                \/ \E source \in Source(repo) :
                        repo' = [SafeCheckout([repo EXCEPT !.workspace = source],
                                              call.target.worktree)
                                     EXCEPT !.workspace = repo.workspace]
        BY <2>5, GotoKeeps DEF Checkout
      <4> QED  BY <3>2, <4>1, <4>2 DEF ForceCheckout, RestoreTypeOK, Repo
    <3> QED  BY <3>1, <3>3 DEF MetadataKnown, FilesKnown, WorkspaceKnown, At
  <2>6. CASE RestoreMetadata
    <3>1. /\ call.step = "metadata" /\ call'.step \in {"refs", "failed"}
          /\ call'.target = call.target
          /\ call'.safe = call.safe /\ call'.raced = call.raced
      BY <2>6, GotoKeeps DEF RestoreMetadata, At
    <3>2. call'.step = "refs" => repo' = [repo EXCEPT !.meta = call.target.meta]
      BY <2>6, GotoKeeps DEF RestoreMetadata
    <3>3. call'.step = "refs" =>
            /\ repo'.meta = call.target.meta
            /\ repo'.worktree = repo.worktree /\ repo'.workspace = repo.workspace
      BY <3>2 DEF RestoreTypeOK, Repo
    <3> QED  BY <3>1, <3>3 DEF MetadataKnown, FilesKnown, WorkspaceKnown, At
  <2>7. CASE RestoreRefs
    <3>1. /\ call.step = "refs" /\ call'.step = "index" /\ call'.target = call.target
          /\ call'.safe = call.safe /\ call'.raced = call.raced
      BY <2>7, RefsGoOn
    <3>2. /\ repo'.meta = repo.meta /\ repo'.worktree = repo.worktree
          /\ repo'.workspace = repo.workspace
      BY <2>7 DEF RestoreRefs, RestoreTypeOK, Repo
    <3> QED  BY <3>1, <3>2 DEF MetadataKnown, FilesKnown, WorkspaceKnown, At
  <2>8. CASE RestoreIndex
    <3>1. /\ call.step = "index" /\ call'.step \in {"record", "failed"}
          /\ call'.target = call.target
          /\ call'.safe = call.safe /\ call'.raced = call.raced
      BY <2>8, GotoKeeps DEF RestoreIndex, At
    <3>2. call'.step = "record" => repo' = [repo EXCEPT !.index = call.target.index]
      BY <2>8, GotoKeeps DEF RestoreIndex
    <3>3. call'.step = "record" =>
            /\ repo'.index = call.target.index /\ repo'.meta = repo.meta
            /\ repo'.worktree = repo.worktree /\ repo'.workspace = repo.workspace
      BY <3>2 DEF RestoreTypeOK, Repo
    <3> QED  BY <3>1, <3>3 DEF MetadataKnown, FilesKnown, WorkspaceKnown, At
  <2>9. CASE RecordRestore
    <3>1. /\ call.step = "record" /\ call'.step \in {"done", "failed"}
          /\ call'.target = call.target /\ repo' = repo
          /\ call'.safe = call.safe /\ call'.raced = call.raced
      BY <2>9, GotoKeeps DEF RecordRestore, At
    <3> QED  BY <3>1 DEF MetadataKnown, FilesKnown, WorkspaceKnown, At
  <2>10. CASE BreakOff
    BY <2>10, GotoKeeps DEF BreakOff, MetadataKnown, FilesKnown, WorkspaceKnown, At
  <2>11. CASE Return
    BY <2>11 DEF Return, NoCall, MetadataKnown, FilesKnown, WorkspaceKnown, At
  <2>12. CASE World
    <3>1. CASE call.step = "idle" /\ call'.step = "idle"
      BY <3>1 DEF MetadataKnown, FilesKnown, WorkspaceKnown, At
    <3>2. CASE (Edit \/ SwitchHead) /\ call.step \in Acting
      <4>1. Race  BY <3>2 DEF Edit, SwitchHead
      <4>2. call'.raced /\ call'.step = call.step /\ call'.target = call.target
        BY <3>2, <4>1, RaceKeeps
      <4>3. UNCHANGED <<repo, call>> \/ repo'.meta = repo.meta
        BY <3>2 DEF Edit, SwitchHead, RestoreTypeOK, Repo
      <4> QED  BY <4>2, <4>3 DEF MetadataKnown, FilesKnown, WorkspaceKnown, At
    <3>3. call.step \in Acting \/ call.step = "idle"
      BY <2>12 DEF World, Operate, Edit, SwitchHead, MoveRef, Conflict, CollectGarbage, At,
                  Running, RestoreTypeOK, Call, Steps
    <3>4. call.step \in Acting => Edit \/ SwitchHead
      BY <2>12 DEF World, Operate, MoveRef, Conflict, CollectGarbage, At
    <3>5. call.step = "idle" => call'.step = "idle"
      BY <2>12, RaceKeeps DEF World, Operate, Edit, SwitchHead, MoveRef, Conflict,
                              CollectGarbage
    <3> QED  BY <3>1, <3>2, <3>3, <3>4, <3>5
  <2>13. CASE UNCHANGED restoreVars
    BY <2>13 DEF restoreVars, MetadataKnown, FilesKnown, WorkspaceKnown, At
  <2> QED
    BY <2>1, <2>2, <2>3, <2>4, <2>5, <2>6, <2>7, <2>8, <2>9, <2>10, <2>11, <2>12, <2>13
    DEF RestoreNext, RestoreStep
<1>3. Known => RestoresTheSnapshot
  BY DEF MetadataKnown, FilesKnown, WorkspaceKnown, RestoresTheSnapshot, At
<1> QED  BY <1>1, <1>2, <1>3, TypeCorrect, PTL DEF RestoreSpec

-----------------------------------------------------------------------------
(* A call that found HEAD off the workspace fails, and has left the files,    *)
(* the index, the workspace reference and the log alone.                      *)
THEOREM RefusalSafe == RestoreSpec => []RefusalLeavesWork
<1> USE DEF Acting
<1>1. RestoreInit => WorkKnown
  BY DEF RestoreInit, NoCall, WorkKnown, At
<1>2. RestoreTypeOK /\ WorkKnown /\ [RestoreNext]_restoreVars => WorkKnown'
  <2> SUFFICES ASSUME RestoreTypeOK, WorkKnown, [RestoreNext]_restoreVars PROVE WorkKnown'  OBVIOUS
  <2>1. CASE BeginRestore
    <3>1. /\ repo'.worktree = repo.worktree /\ repo'.index = repo.index
          /\ repo'.workspace = repo.workspace /\ repo'.head = repo.head
      BY <2>1, PreparingKeepsWork DEF BeginRestore, RestoreTypeOK
    <3> QED  BY <2>1, <3>1 DEF BeginRestore, WorkKnown, At
  <2>2. CASE RestoreConflicts
    <3>1. /\ repo'.worktree = repo.worktree /\ repo'.index = repo.index
          /\ repo'.workspace = repo.workspace /\ repo'.head = repo.head
      BY <2>2 DEF RestoreConflicts, RestoreTypeOK, Repo
    <3>2. /\ call.step = "conflicts" /\ call'.step \in {"reconstitute", "failed"}
          /\ call'.raced = call.raced
          /\ call'.began = call.began /\ call'.entries = call.entries /\ log' = log
      BY <2>2, GotoKeeps DEF RestoreConflicts, At
    <3> QED  BY <3>1, <3>2 DEF WorkKnown
  <2>3. CASE Reconstitute
    <3>1. /\ repo'.worktree = repo.worktree /\ repo'.index = repo.index
          /\ repo'.head = repo.head
          /\ repo.head # "workspace" => repo'.workspace = repo.workspace
      BY <2>3 DEF Reconstitute, RestoreTypeOK, Repo
    <3>2. /\ call.step = "reconstitute" /\ call'.step \in {"check", "failed"}
          /\ call'.raced = call.raced
          /\ call'.began = call.began /\ call'.entries = call.entries /\ log' = log
      BY <2>3, GotoKeeps DEF Reconstitute, At
    <3> QED  BY <3>1, <3>2 DEF WorkKnown
  <2>4. CASE CheckHead
    <3>1. /\ call.step = "check" /\ call'.step \in {"checkout", "failed"}
          /\ call'.step = "checkout" => repo.head = "workspace"
          /\ call'.raced = call.raced
          /\ call'.began = call.began /\ call'.entries = call.entries
          /\ log' = log /\ repo' = repo
      BY <2>4, GotoKeeps DEF CheckHead, At
    <3> QED  BY <3>1 DEF WorkKnown
  <2>5. CASE Checkout \/ RestoreMetadata \/ RestoreRefs \/ RestoreIndex \/ RecordRestore
    <3>1. /\ call.step \in {"checkout", "metadata", "refs", "index", "record"}
          /\ call'.step \in {"metadata", "refs", "index", "record", "done", "failed"}
          /\ call'.began = call.began /\ call'.raced = call.raced
      BY <2>5, GotoKeeps, RefsGoOn DEF Checkout, RestoreMetadata, RestoreIndex,
                                       RecordRestore, At
    <3>2. ~call.raced => call.began.head = "workspace" /\ repo.head = call.began.head
      BY <3>1 DEF WorkKnown
    <3>3. repo'.head = repo.head
      <4>1. CASE Checkout
        BY <4>1 DEF Checkout, SafeCheckout, ForceCheckout, RestoreTypeOK, Repo
      <4>2. CASE RestoreMetadata
        BY <4>2 DEF RestoreMetadata, RestoreTypeOK, Repo
      <4>3. CASE RestoreRefs \/ RestoreIndex \/ RecordRestore
        BY <4>3 DEF RestoreRefs, RestoreIndex, RecordRestore, RestoreTypeOK, Repo
      <4> QED  BY <2>5, <4>1, <4>2, <4>3
    <3> QED  BY <3>1, <3>2, <3>3 DEF WorkKnown
  <2>6. CASE BreakOff
    <3>1. /\ call.step \in Acting /\ call'.step = "failed" /\ call'.began = call.began
          /\ call'.raced = call.raced /\ call'.entries = call.entries /\ log' = log /\ repo' = repo
      BY <2>6, GotoKeeps DEF BreakOff, Running, RestoreTypeOK, Call, Steps
    <3> QED  BY <3>1 DEF WorkKnown
  <2>7. CASE Return
    BY <2>7 DEF Return, NoCall, WorkKnown
  <2>8. CASE World
    <3>1. CASE call.step = "idle" /\ call'.step = "idle"
      BY <3>1 DEF WorkKnown
    <3>2. CASE (Edit \/ SwitchHead) /\ call.step \in Acting
      <4>1. Race  BY <3>2 DEF Edit, SwitchHead
      <4>2. call'.raced /\ call'.step = call.step /\ call'.target = call.target
        BY <3>2, <4>1, RaceKeeps
      <4> QED  BY <4>2 DEF WorkKnown
    <3>3. call.step \in Acting \/ call.step = "idle"
      BY <2>8 DEF World, Operate, Edit, SwitchHead, MoveRef, Conflict, CollectGarbage, At,
                  Running, RestoreTypeOK, Call, Steps
    <3>4. call.step \in Acting => Edit \/ SwitchHead
      BY <2>8 DEF World, Operate, MoveRef, Conflict, CollectGarbage, At
    <3>5. call.step = "idle" => call'.step = "idle"
      BY <2>8, RaceKeeps DEF World, Operate, Edit, SwitchHead, MoveRef, Conflict,
                              CollectGarbage
    <3> QED  BY <3>1, <3>2, <3>3, <3>4, <3>5
  <2>9. CASE UNCHANGED restoreVars
    BY <2>9 DEF restoreVars, WorkKnown
  <2> QED
    BY <2>1, <2>2, <2>3, <2>4, <2>5, <2>6, <2>7, <2>8, <2>9 DEF RestoreNext, RestoreStep
<1>3. WorkKnown => RefusalLeavesWork
  BY DEF WorkKnown, RefusalLeavesWork, At
<1> QED  BY <1>1, <1>2, <1>3, TypeCorrect, PTL DEF RestoreSpec
=============================================================================
