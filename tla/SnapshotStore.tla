--------------------------- MODULE SnapshotStore ---------------------------
(* How an entry of the operations log is stored: a commit on top of the last  *)
(* one, its name in operations-log.toml, and its name in the reflog of the    *)
(* branch gitbutler/target, which is all that keeps Git from pruning it, since *)
(* no branch leads there (crates/gitbutler-oplog/src/{oplog,state,reflog}.rs). *)
(* Three writes, each of which may fail or be the last of the process.        *)
(* The name of a commit is the hash of its content and its parents, so that a *)
(* commit is the sequence of entries that leads to it, and <<>> is no commit. *)
(* Oplog takes the three writes as one.  MaxEntries bounds the calls.         *)
EXTENDS Naturals, Sequences

CONSTANT MaxEntries  \* calls of commit_snapshot

VARIABLES objects,   \* the snapshot commits in the object database
          head,      \* head_sha of operations-log.toml
          reflog,    \* the snapshot named in the reflog of gitbutler/target
          recent,    \* that line of the reflog is younger than thirty days
          step,      \* of the call that runs
          new,       \* the commit it has made
          taken,     \* calls made so far
          returned   \* history: the log as the last call that succeeded left it
snapshotVars == <<objects, head, reflog, recent, step, new, taken, returned>>

NoCommit == <<>>
Entry == 1..MaxEntries
(* A commit and all it descends from; what can be read from a head.           *)
History(c) == {SubSeq(c, 1, n) : n \in 1..Len(c)}

SnapshotTypeOK ==
    /\ objects \subseteq Seq(Entry) \ {NoCommit}
    /\ {head, reflog, new, returned} \subseteq Seq(Entry)
    /\ recent \in BOOLEAN
    /\ step \in {"idle", "committed", "moved"}
    /\ taken \in 0..MaxEntries

SnapshotInit ==
    /\ objects = {} /\ head = NoCommit /\ reflog = NoCommit /\ recent = TRUE
    /\ step = "idle" /\ new = NoCommit /\ taken = 0 /\ returned = NoCommit

-----------------------------------------------------------------------------
(* mutant: the commit is made on top of what the reflog keeps.                *)
ParentFromReflog == reflog

(* The head that cannot be found is taken for no head: the log begins anew.   *)
Parent == IF head \in objects THEN head ELSE NoCommit

CommitSnapshot ==
    /\ step = "idle" /\ taken < MaxEntries
    /\ taken' = taken + 1
    /\ new' = Append(Parent, taken')
    /\ objects' = objects \cup {new'}
    /\ step' = "committed"
    /\ UNCHANGED <<head, reflog, recent, returned>>

SetOplogHead ==
    /\ step = "committed"
    /\ head' = new /\ step' = "moved"
    /\ UNCHANGED <<objects, reflog, recent, new, taken, returned>>

(* mutant: the head is moved only after the reflog was written, whose content *)
(* is read from the head.                                                     *)
SetReferenceToPreviousHead ==
    /\ step = "moved"
    /\ reflog' = SubSeq(head, 1, Len(head) - 1) /\ recent' = TRUE
    /\ returned' = head /\ step' = "idle"
    /\ UNCHANGED <<objects, head, new, taken>>

(* The lines of the reflog are stamped with the present time.                 *)
SetReferenceToOplog ==
    /\ step = "moved"
    /\ reflog' = head /\ recent' = TRUE
    /\ returned' = head /\ step' = "idle"
    /\ UNCHANGED <<objects, head, new, taken>>

(* A write fails, or the process ends.                                        *)
Interrupted ==
    /\ step # "idle" /\ step' = "idle"
    /\ UNCHANGED <<objects, head, reflog, recent, new, taken, returned>>

(* git gc drops lines of a reflog that are thirty days old and name a commit  *)
(* the branch does not lead to, then commits that nothing leads to, except    *)
(* those of the last two weeks and what they lead to.                         *)
Gc ==
    /\ step = "idle"
    /\ reflog' = IF recent THEN reflog ELSE NoCommit
    /\ \E young \in SUBSET objects :
         objects' = {c \in objects : \E k \in young \cup {reflog'} : c \in History(k)}
    /\ UNCHANGED <<head, recent, step, new, taken, returned>>

MonthPasses ==
    /\ step = "idle" /\ recent' = FALSE
    /\ UNCHANGED <<objects, head, reflog, step, new, taken, returned>>

SnapshotNext ==
    \/ CommitSnapshot \/ SetOplogHead \/ SetReferenceToOplog \/ Interrupted
    \/ Gc \/ MonthPasses

SnapshotSpec == SnapshotInit /\ [][SnapshotNext]_snapshotVars

-----------------------------------------------------------------------------
(* For a month the log of a call that returned can be read, however often Git *)
(* collects garbage, unless a later call was interrupted.                     *)
LogSurvivesTheMonth == head = returned /\ recent => History(head) \subseteq objects

(* The three writes implement the one step that Oplog takes: an entry is      *)
(* added at the end of the log, and a log whose last call returned, less than *)
(* a month ago, is not cut.                                                   *)
AppendOnly == INSTANCE AppendOnlyLog WITH
    Entries <- Entry, log <- head, kept <- (head = returned /\ recent)
ImplementsAppendOnlyLog == AppendOnly!Spec

(* "snapshots are reachable and will not be garbage collected" (reflog.rs:38): *)
(* the same without a limit of time.                                          *)
SnapshotsSurvive == head = returned => History(head) \subseteq objects
=============================================================================
