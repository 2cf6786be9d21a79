------------------------------ MODULE Watcher ------------------------------
(* From a change on disk to what the interface shows: the file monitor        *)
(* (crates/gitbutler-filemonitor/src/file_monitor.rs), the task that collects *)
(* its events and lets one at a time be handled                               *)
(* (crates/gitbutler-watcher/src/lib.rs), and the handler                     *)
(* (crates/gitbutler-watcher/src/handler.rs).                                 *)
(* Contents are left out: a part of what the interface shows is stale, or not.*)
EXTENDS Naturals

CONSTANTS Files,     \* files of the worktree
          Private,   \* those of gitbutler.localignoredpath
          GitFiles   \* watched files of the git directory

ASSUME PrivateAreFiles == Private \subseteq Files

WatchedNames == {"FETCH_HEAD", "HEAD", "index", "logs/HEAD", "refs/remotes"}
ASSUME GitFilesAreWatched == GitFiles \subseteq WatchedNames
ASSUME FilesAreNotOfGit == Files \cap WatchedNames = {}

VARIABLES
    head,      \* what HEAD is
    stale,     \* parts of which the interface does not show the present state
    pending,   \* files whose change is noted, but not received from the channel
    phase,     \* what the task does
    batch,     \* the files it has received and not handled
    resting,   \* the quiet period runs since the last event that was received
    read,      \* the handler knows the commit HEAD is at
    unity,     \* a lock file of the Unity editor exists
    busy,      \* someone else has access to the repository
    lost       \* for the properties: stale parts of which the notice was dropped
world == <<head, unity, busy>>
vars == <<head, stale, pending, phase, batch, resting, read, unity, busy, lost>>

Paths == Files \cup GitFiles
Parts == {"worktree", "head", "activity", "fetch", "remote"}

PartOf(p) == CASE p \in Files \cup {"index"} -> "worktree"
               [] p = "HEAD" -> "head"
               [] p = "logs/HEAD" -> "activity"
               [] p = "FETCH_HEAD" -> "fetch"
               [] p = "refs/remotes" -> "remote"

(* Ignored files are no part of the worktree that is shown.                   *)
PartsOf(P) == {PartOf(p) : p \in P \ Private}

(* The parts have the right types, and no event is about nothing.             *)
TypeOK ==
    /\ head \in {"branch", "detached", "unborn"}
    /\ stale \subseteq Parts /\ lost \subseteq stale
    /\ pending \subseteq Paths /\ batch \subseteq Paths
    /\ phase \in {"idle", "parked", "git", "reporting", "project"}
    /\ resting \in BOOLEAN /\ read \in BOOLEAN /\ unity \in BOOLEAN /\ busy \in BOOLEAN
    /\ phase = "idle" <=> batch = {}
    /\ phase \in {"git", "reporting"} => batch \cap GitFiles # {}
    /\ phase = "project" => batch \subseteq Files
    /\ resting => phase = "parked"

Init ==
    /\ head = "branch" /\ stale = {} /\ pending = {} /\ phase = "idle" /\ batch = {}
    /\ resting = FALSE /\ read = FALSE /\ unity \in BOOLEAN /\ busy = FALSE /\ lost = {}

-----------------------------------------------------------------------------
(* The rest of the world                                                      *)
Write(p) ==
    /\ stale' = stale \cup PartsOf({p})
    /\ lost' = lost \ PartsOf({p})
    /\ pending' = pending \cup {p}
    /\ IF p = "HEAD" THEN head' \in {"branch", "detached", "unborn"} ELSE UNCHANGED head
    /\ read' = (read /\ p # "logs/HEAD")
    /\ UNCHANGED <<phase, batch, resting, unity, busy>>

Writes == \E p \in Paths : Write(p)

Unity ==
    /\ unity' = ~unity
    /\ UNCHANGED <<head, stale, pending, phase, batch, resting, read, busy, lost>>

OtherAccess ==
    /\ ~busy /\ phase # "reporting"
    /\ busy' = TRUE
    /\ UNCHANGED <<head, stale, pending, phase, batch, resting, read, unity, lost>>

OtherDone ==
    /\ busy
    /\ busy' = FALSE
    /\ UNCHANGED <<head, stale, pending, phase, batch, resting, read, unity, lost>>

Others == Unity \/ OtherAccess \/ OtherDone

-----------------------------------------------------------------------------
(* Collecting events.  The debouncer lets go of some of the files, and the    *)
(* channel holds on to them: here both are pending.                           *)

RefreshesAnyway(P) == "index" \in P
MayPark(P) == P \cap Files # {} /\ ~RefreshesAnyway(P) /\ unity

DispatchGitFirst(P) ==  \* mutant: git events are taken to refresh the worktree
    /\ batch' = IF P \cap GitFiles # {} THEN P \ Files ELSE P
    /\ phase' = IF P \cap GitFiles # {} THEN "git" ELSE "project"

DispatchAsGit(P) ==  \* mutant: an event about no file of git
    /\ batch' = IF RefreshesAnyway(P) THEN P \ Files ELSE P
    /\ phase' = "git"

(* into_events: a change of the index refreshes the worktree as well.         *)
Dispatch(P) ==
    /\ batch' = IF RefreshesAnyway(P) THEN P \ Files ELSE P
    /\ phase' = IF P \cap GitFiles # {} THEN "git" ELSE "project"

Receive ==
    /\ phase = "idle"
    /\ \E P \in (SUBSET pending) \ {{}} :
        /\ pending' = pending \ P
        /\ IF MayPark(P) THEN phase' = "parked" /\ batch' = P ELSE Dispatch(P)
    /\ UNCHANGED <<stale, resting, read, lost, world>>

ReceiveParked ==
    /\ phase = "parked"
    /\ \E P \in (SUBSET pending) \ {{}} :
        /\ pending' = pending \ P
        /\ IF RefreshesAnyway(P) THEN Dispatch(batch \cup P)
                                 ELSE batch' = batch \cup P /\ UNCHANGED phase
    /\ resting' = FALSE
    /\ UNCHANGED <<stale, read, lost, world>>

RestForFilesOnly ==  \* mutant: an event of git does not begin the period anew
    /\ phase = "parked" /\ ~resting /\ batch \subseteq Files
    /\ resting' = TRUE
    /\ UNCHANGED <<stale, pending, phase, batch, read, lost, world>>

(* The quiet period begins anew with every event, and has passed when no      *)
(* event came for as long.                                                    *)
Rest ==
    /\ phase = "parked" /\ ~resting
    /\ resting' = TRUE
    /\ UNCHANGED <<stale, pending, phase, batch, read, lost, world>>

QuietPassed ==
    /\ phase = "parked" /\ resting /\ ~unity
    /\ Dispatch(batch)
    /\ resting' = FALSE
    /\ UNCHANGED <<stale, pending, read, lost, world>>

-----------------------------------------------------------------------------
(* Handling them, in the order of their names                                 *)

Rank(p) == CASE p = "FETCH_HEAD" -> 1 [] p = "HEAD" -> 2 [] p = "index" -> 3
             [] p = "logs/HEAD" -> 4 [] OTHER -> 5
First(P) == CHOOSE p \in P : \A q \in P : Rank(p) <= Rank(q)

Report(part) == stale' = stale \ {part} /\ lost' = lost \ {part}
Lose(parts) == UNCHANGED stale /\ lost' = lost \cup (parts \cap stale)

(* The git event is over, the one about project files is left.                *)
AfterGit == batch' = batch \cap Files /\ phase' = IF batch' = {} THEN "idle" ELSE "project"

(* GitFilesChange waits for exclusive access, and begins with head_info, which*)
(* fails on an unborn HEAD.                                                   *)
BeginGit ==
    /\ phase = "git"
    /\ \/ /\ ~busy /\ head # "unborn"
          /\ phase' = "reporting" /\ read' = TRUE
          /\ UNCHANGED <<stale, batch, lost>>
       \/ Lose(PartsOf(batch \cap GitFiles)) /\ AfterGit /\ UNCHANGED read
    /\ UNCHANGED <<pending, resting, world>>

Handled(P) ==
    /\ batch' = P
    /\ phase' = CASE P = {} -> "idle" [] P \cap GitFiles # {} -> "reporting" [] OTHER -> "project"

(* One file of the git event: a refresh of the worktree that fails is         *)
(* ignored, anything else that fails ends the event; nobody is told of a      *)
(* detached HEAD; the commit reported is the one head_info has read.          *)
ReportGit ==
    /\ phase = "reporting"
    /\ LET p == First(batch \cap GitFiles)
           told == (p = "HEAD" => head # "detached") /\ (p = "logs/HEAD" => read)
       IN \/ told /\ Report(PartOf(p)) /\ Handled(batch \ {p})
          \/ p = "logs/HEAD" /\ ~read /\ UNCHANGED <<stale, lost>> /\ Handled(batch \ {p})
          \/ p = "HEAD" /\ ~told /\ Lose({"head"}) /\ Handled(batch \ {p})
          \/ p = "index" /\ Lose({"worktree"}) /\ Handled(batch \ {p})
          \/ p # "index" /\ Lose(PartsOf(batch \cap GitFiles)) /\ AfterGit
    /\ UNCHANGED <<pending, resting, read, world>>

(* ProjectFilesChange is skipped if the repository is busy.                   *)
ReportProject ==
    /\ phase = "project"
    /\ \/ ~busy /\ ~(batch \subseteq Private) /\ Report("worktree")
       \/ ~busy /\ batch \subseteq Private /\ UNCHANGED <<stale, lost>>
       \/ Lose(PartsOf(batch))
    /\ Handled({})
    /\ UNCHANGED <<pending, resting, read, world>>

Task == Receive \/ ReceiveParked \/ Rest \/ QuietPassed \/ BeginGit \/ ReportGit \/ ReportProject
Next == Writes \/ Others \/ Task
Spec == Init /\ [][Next]_vars

(* The debouncer lets go of everything when nothing was written for some      *)
(* ticks, timers run, others finish.  Who waits for exclusive access waits    *)
(* for other processes too, of whose lock no fairness is guaranteed           *)
(* (but-core/src/sync.rs:104-105), and gets it only if the repository stays   *)
(* free.                                                                      *)
Fairness ==
    /\ WF_vars((Receive \/ ReceiveParked) /\ pending' = {})
    /\ WF_vars(Rest) /\ WF_vars(QuietPassed) /\ WF_vars(OtherDone)
    /\ WF_vars(~busy /\ BeginGit) /\ WF_vars(ReportGit) /\ WF_vars(ReportProject)
FairSpec == Spec /\ Fairness

-----------------------------------------------------------------------------
(* Whatever the interface does not show as it is will be reported, or the     *)
(* notice was dropped because the repository was busy, a report failed, or    *)
(* HEAD is detached: no change falls between the batches, the parked events   *)
(* and the two events of a batch.                                             *)
Accounted == stale \ lost \subseteq PartsOf(pending \cup batch)

(* Once the editor is closed and nothing changes, everything is reported,     *)
(* unless others take the repository again and again while a git event waits  *)
(* for it.                                                                    *)
Reported ==
    (<>[]~unity /\ <>[][~Writes]_vars)
        => <>[](stale \subseteq lost) \/ (<>[](phase = "git") /\ []<>busy)
=============================================================================
