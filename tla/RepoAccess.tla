----------------------------- MODULE RepoAccess -----------------------------
(***************************************************************************)
(* Access to one repository: the in-process reader-writer lock and the     *)
(* best-effort file lock between processes of crates/but-core/src/sync.rs. *)
(*                                                                         *)
(* A thread asks for a shared or an exclusive guard, or tries for an       *)
(* exclusive one.  An exclusive guard takes the fair in-process lock       *)
(* first, then the lock on gitbutler.write-lock; the second may fail, may  *)
(* be busy, and is skipped by a process that runs inside a Git commit hook *)
(* when somebody already holds it.  A thread holding an exclusive guard    *)
(* may run a commit hook, which starts another process that asks for the   *)
(* same repository while the launching thread waits for it to exit.        *)
(***************************************************************************)
EXTENDS Naturals, Sequences

CONSTANTS
    Thread,        \* the threads of all processes
    Process,       \* the processes that work on the repository
    HookProcess,   \* those that run with Git's commit-hook environment
    ProcOf,        \* the process a thread belongs to
    NoThread,      \* no owner
    Outside,       \* the launcher of a hook process that no guard waits for
    MaxFailures,   \* bound: failures to create, open or lock the lock file
    MaxCrashes     \* bound: processes that die

ASSUME AccessAssumption ==
    /\ ProcOf \in [Thread -> Process]
    /\ HookProcess \subseteq Process
    /\ NoThread \notin Thread
    /\ Outside \notin Thread
    /\ Outside # NoThread
    /\ MaxFailures \in Nat
    /\ MaxCrashes \in Nat

VARIABLES
    pc,         \* what each thread is doing with its guard
    writer,     \* the in-process lock: its writer, per process
    readers,    \* the in-process lock: its readers, per process
    queue,      \* the in-process lock: threads parked on it, oldest first
    guard,      \* what became of the file lock of an exclusive guard
    fileLock,   \* the owner of the lock on gitbutler.write-lock
    launcher,   \* who started a hook process and waits for it
    failures, crashes

lockVars == <<writer, readers, queue>>
vars == <<pc, writer, readers, queue, guard, fileLock, launcher, failures, crashes>>

Parked == {"queuedRead", "queuedWrite"}
\* The thread has its RepoExclusiveGuard; "inHook" while it waits for a hook.
Exclusive == {"exclusive", "inHook"}
\* The thread has the in-process write lock, with or without its guard.
HasWriteLock == {"wantFile", "tryFile", "fileReleased"} \cup Exclusive

TypeOK ==
    /\ pc \in [Thread -> {"idle", "shared"} \cup Parked \cup HasWriteLock]
    /\ writer \in [Process -> Thread \cup {NoThread}]
    /\ readers \in [Process -> SUBSET Thread]
    /\ queue \in [Process -> Seq(Thread)]
    /\ guard \in [Thread -> {"none", "file", "failed", "skipped"}]
    /\ fileLock \in Thread \cup {NoThread}
    /\ launcher \in [Process -> Thread \cup {NoThread, Outside}]
    /\ failures \in 0..MaxFailures
    /\ crashes \in 0..MaxCrashes

Init ==
    /\ pc = [t \in Thread |-> "idle"]
    /\ writer = [p \in Process |-> NoThread]
    /\ readers = [p \in Process |-> {}]
    /\ queue = [p \in Process |-> <<>>]
    /\ guard = [t \in Thread |-> "none"]
    /\ fileLock = NoThread
    /\ launcher = [p \in Process |-> NoThread]
    /\ failures = 0
    /\ crashes = 0

Alive(p) == p \in HookProcess => launcher[p] # NoThread

(***************************************************************************)
(* The in-process lock                                                     *)
(***************************************************************************)

Request(t, parked) ==
    /\ pc[t] = "idle"
    /\ Alive(ProcOf[t])
    /\ pc' = [pc EXCEPT ![t] = parked]
    /\ queue' = [queue EXCEPT ![ProcOf[t]] = Append(@, t)]
    /\ UNCHANGED <<writer, readers, guard, fileLock, launcher, failures, crashes>>

RequestShared(t) == Request(t, "queuedRead")
RequestExclusive(t) == Request(t, "queuedWrite")

\* The lock is fair: whoever waits longest is next, and a writer at the head
\* of the queue keeps the readers behind it waiting.
FirstInLine(t) ==
    /\ queue[ProcOf[t]] # <<>>
    /\ t = Head(queue[ProcOf[t]])

\* Mutant: a reader does not look for a writer.
GrantSharedNextToWriter(t) ==
    /\ pc[t] = "queuedRead"
    /\ FirstInLine(t)
    /\ pc' = [pc EXCEPT ![t] = "shared"]
    /\ readers' = [readers EXCEPT ![ProcOf[t]] = @ \cup {t}]
    /\ queue' = [queue EXCEPT ![ProcOf[t]] = Tail(@)]
    /\ UNCHANGED <<writer, guard, fileLock, launcher, failures, crashes>>

\* Mutant: readers overtake a waiting writer.
GrantSharedUnfair(t) ==
    /\ pc[t] = "queuedRead"
    /\ writer[ProcOf[t]] = NoThread
    /\ pc' = [pc EXCEPT ![t] = "shared"]
    /\ readers' = [readers EXCEPT ![ProcOf[t]] = @ \cup {t}]
    /\ queue' = [queue EXCEPT ![ProcOf[t]] = SelectSeq(@, LAMBDA u : u # t)]
    /\ UNCHANGED <<writer, guard, fileLock, launcher, failures, crashes>>

GrantShared(t) ==
    /\ pc[t] = "queuedRead"
    /\ FirstInLine(t)
    /\ writer[ProcOf[t]] = NoThread
    /\ pc' = [pc EXCEPT ![t] = "shared"]
    /\ readers' = [readers EXCEPT ![ProcOf[t]] = @ \cup {t}]
    /\ queue' = [queue EXCEPT ![ProcOf[t]] = Tail(@)]
    /\ UNCHANGED <<writer, guard, fileLock, launcher, failures, crashes>>

GrantExclusive(t) ==
    /\ pc[t] = "queuedWrite"
    /\ FirstInLine(t)
    /\ writer[ProcOf[t]] = NoThread
    /\ readers[ProcOf[t]] = {}
    /\ pc' = [pc EXCEPT ![t] = "wantFile"]
    /\ writer' = [writer EXCEPT ![ProcOf[t]] = t]
    /\ queue' = [queue EXCEPT ![ProcOf[t]] = Tail(@)]
    /\ UNCHANGED <<readers, guard, fileLock, launcher, failures, crashes>>

\* Mutant: the try looks for a writer only.
TryExclusiveAmongReaders(t) ==
    /\ pc[t] = "idle"
    /\ Alive(ProcOf[t])
    /\ writer[ProcOf[t]] = NoThread
    /\ pc' = [pc EXCEPT ![t] = "tryFile"]
    /\ writer' = [writer EXCEPT ![ProcOf[t]] = t]
    /\ UNCHANGED <<readers, queue, guard, fileLock, launcher, failures, crashes>>

\* try_exclusive_repo_access: returns None, changing nothing, unless the
\* in-process lock is free and nobody waits for it.
TryExclusive(t) ==
    /\ pc[t] = "idle"
    /\ Alive(ProcOf[t])
    /\ writer[ProcOf[t]] = NoThread
    /\ readers[ProcOf[t]] = {}
    /\ queue[ProcOf[t]] = <<>>
    /\ pc' = [pc EXCEPT ![t] = "tryFile"]
    /\ writer' = [writer EXCEPT ![ProcOf[t]] = t]
    /\ UNCHANGED <<readers, queue, guard, fileLock, launcher, failures, crashes>>

ReleaseShared(t) ==
    /\ pc[t] = "shared"
    /\ pc' = [pc EXCEPT ![t] = "idle"]
    /\ readers' = [readers EXCEPT ![ProcOf[t]] = @ \ {t}]
    /\ UNCHANGED <<writer, queue, guard, fileLock, launcher, failures, crashes>>

(***************************************************************************)
(* The file lock                                                           *)
(***************************************************************************)

AcquireFile(t) ==
    /\ pc[t] \in {"wantFile", "tryFile"}
    /\ fileLock = NoThread
    /\ fileLock' = t
    /\ guard' = [guard EXCEPT ![t] = "file"]
    /\ pc' = [pc EXCEPT ![t] = "exclusive"]
    /\ UNCHANGED <<lockVars, launcher, failures, crashes>>

\* The directory or the file cannot be created or opened, locking fails, or
\* the filesystem has no locks and the lock is only pretended.
FileUnavailable(t) ==
    /\ pc[t] \in {"wantFile", "tryFile"}
    /\ failures < MaxFailures
    /\ failures' = failures + 1
    /\ guard' = [guard EXCEPT ![t] = "failed"]
    /\ pc' = [pc EXCEPT ![t] = "exclusive"]
    /\ UNCHANGED <<lockVars, fileLock, launcher, crashes>>

\* Mutant: nobody waits for a file lock that is held.
AnyoneContinues(t) ==
    /\ pc[t] = "wantFile"
    /\ fileLock # NoThread
    /\ guard' = [guard EXCEPT ![t] = "skipped"]
    /\ pc' = [pc EXCEPT ![t] = "exclusive"]
    /\ UNCHANGED <<lockVars, fileLock, launcher, failures, crashes>>

\* A commit hook does not wait for the file lock, whoever holds it.
HookContinues(t) ==
    /\ pc[t] = "wantFile"
    /\ ProcOf[t] \in HookProcess
    /\ fileLock # NoThread
    /\ guard' = [guard EXCEPT ![t] = "skipped"]
    /\ pc' = [pc EXCEPT ![t] = "exclusive"]
    /\ UNCHANGED <<lockVars, fileLock, launcher, failures, crashes>>

\* try_exclusive_repo_access gives its in-process lock back.
TryFileBusy(t) ==
    /\ pc[t] = "tryFile"
    /\ fileLock # NoThread
    /\ pc' = [pc EXCEPT ![t] = "idle"]
    /\ writer' = [writer EXCEPT ![ProcOf[t]] = NoThread]
    /\ UNCHANGED <<readers, queue, guard, fileLock, launcher, failures, crashes>>

\* Mutant: the file is not unlocked.
ReleaseFileForgotten(t) ==
    /\ pc[t] = "exclusive"
    /\ pc' = [pc EXCEPT ![t] = "fileReleased"]
    /\ guard' = [guard EXCEPT ![t] = "none"]
    /\ UNCHANGED <<lockVars, fileLock, launcher, failures, crashes>>

\* Dropping a RepoExclusiveGuard unlocks the file first ...
ReleaseFile(t) ==
    /\ pc[t] = "exclusive"
    /\ pc' = [pc EXCEPT ![t] = "fileReleased"]
    /\ fileLock' = IF guard[t] = "file" THEN NoThread ELSE fileLock
    /\ guard' = [guard EXCEPT ![t] = "none"]
    /\ UNCHANGED <<lockVars, launcher, failures, crashes>>

\* ... and the in-process lock after it.
ReleaseExclusive(t) ==
    /\ pc[t] = "fileReleased"
    /\ pc' = [pc EXCEPT ![t] = "idle"]
    /\ writer' = [writer EXCEPT ![ProcOf[t]] = NoThread]
    /\ UNCHANGED <<readers, queue, guard, fileLock, launcher, failures, crashes>>

(***************************************************************************)
(* Commit hooks and crashes (Git and the operating system)                 *)
(***************************************************************************)

\* The holder of an exclusive guard commits; Git runs a hook that runs "but".
LaunchHook(t, p) ==
    /\ pc[t] = "exclusive"
    /\ p \in HookProcess
    /\ launcher[p] = NoThread
    /\ launcher' = [launcher EXCEPT ![p] = t]
    /\ pc' = [pc EXCEPT ![t] = "inHook"]
    /\ UNCHANGED <<lockVars, guard, fileLock, failures, crashes>>

\* The user runs "git commit" in a terminal, whose hook runs "but".
LaunchFromGit(p) ==
    /\ p \in HookProcess
    /\ launcher[p] = NoThread
    /\ launcher' = [launcher EXCEPT ![p] = Outside]
    /\ UNCHANGED <<pc, lockVars, guard, fileLock, failures, crashes>>

\* The waiting launcher continues when its hook process is gone.
Resumed(p) == IF launcher[p] \in Thread
              THEN [pc EXCEPT ![launcher[p]] = "exclusive"]
              ELSE pc

HookExits(p) ==
    /\ launcher[p] # NoThread
    /\ \A t \in Thread : ProcOf[t] = p => pc[t] = "idle"
    /\ pc' = Resumed(p)
    /\ launcher' = [launcher EXCEPT ![p] = NoThread]
    /\ UNCHANGED <<lockVars, guard, fileLock, failures, crashes>>

\* A process dies and may be started again.  The operating system drops its
\* file lock; the hooks it was waiting for go on without it.
Crash(p) ==
    /\ Alive(p)
    /\ crashes < MaxCrashes
    /\ crashes' = crashes + 1
    /\ pc' = [t \in Thread |-> IF ProcOf[t] = p THEN "idle" ELSE Resumed(p)[t]]
    /\ guard' = [t \in Thread |-> IF ProcOf[t] = p THEN "none" ELSE guard[t]]
    /\ writer' = [writer EXCEPT ![p] = NoThread]
    /\ readers' = [readers EXCEPT ![p] = {}]
    /\ queue' = [queue EXCEPT ![p] = <<>>]
    /\ fileLock' = IF \E t \in Thread : t = fileLock /\ ProcOf[t] = p
                   THEN NoThread ELSE fileLock
    /\ launcher' = [q \in Process |->
                      IF q = p THEN NoThread
                      ELSE IF \E t \in Thread : t = launcher[q] /\ ProcOf[t] = p
                           THEN Outside ELSE launcher[q]]
    /\ UNCHANGED failures

-----------------------------------------------------------------------------
\* What a thread does once it has asked: it is granted, finishes and releases.
Progress(t) ==
    \/ GrantShared(t) \/ GrantExclusive(t)
    \/ AcquireFile(t) \/ HookContinues(t) \/ TryFileBusy(t)
    \/ ReleaseShared(t) \/ ReleaseFile(t) \/ ReleaseExclusive(t)

ThreadStep(t) ==
    \/ RequestShared(t) \/ RequestExclusive(t) \/ TryExclusive(t)
    \/ FileUnavailable(t)
    \/ Progress(t)

ProcessStep(p) ==
    \/ \E t \in Thread : LaunchHook(t, p)
    \/ LaunchFromGit(p)
    \/ HookExits(p)
    \/ Crash(p)

Next ==
    \/ \E t \in Thread : ThreadStep(t)
    \/ \E p \in Process : ProcessStep(p)

Spec == Init /\ [][Next]_vars

\* Every holder finishes its work after finitely many hooks, and a hook process
\* runs finitely many commands.  Of the lock between processes no fairness is
\* guaranteed (sync.rs:104-105): a waiter for it goes on only if it stays free.
Fairness ==
    /\ \A t \in Thread : WF_vars(Progress(t)) /\ SF_vars(ReleaseFile(t))
    /\ \A p \in Process : SF_vars(HookExits(p))

FairSpec == Spec /\ Fairness

-----------------------------------------------------------------------------
(***************************************************************************)
(* Properties                                                              *)
(***************************************************************************)

\* Within a process, a thread that has an exclusive guard (or the in-process
\* lock it will get one from) is alone: no second writer and no reader, whatever
\* the interleaving of blocking requests, tries, releases, hooks and crashes.
InProcessExclusion ==
    \A t, u \in Thread :
        (t # u /\ ProcOf[t] = ProcOf[u] /\ pc[t] \in HasWriteLock)
            => pc[u] \notin HasWriteLock \cup {"shared"}

\* Two processes write at the same time only when one of them could not use
\* the lock file at all, or runs in a commit hook and found it held.  A thread
\* that only tried never writes next to a holder of the file lock.
OverlapIsExcused ==
    \A t, u \in Thread :
        (t # u /\ pc[t] \in Exclusive /\ pc[u] \in Exclusive)
            => \E w \in {t, u} :
                  \/ guard[w] = "failed"
                  \/ guard[w] = "skipped" /\ ProcOf[w] \in HookProcess

\* The file lock never goes stale: its owner is a live guard that will unlock
\* it, also after a crash, a busy try or a hook.
FileLockNeverStale ==
    \A t \in Thread : fileLock = t => pc[t] \in Exclusive /\ guard[t] = "file"

\* While a hook works for a guard that owns the file lock, that guard waits
\* and still owns it: the hook that skipped the lock is covered by its parent.
HookCoveredByParent ==
    \A p \in Process : \A t \in Thread :
        launcher[p] = t => /\ pc[t] = "inHook"
                           /\ guard[t] = "file" => fileLock = t

\* Action property: a guard's file lock status is settled while it lives; a
\* guard that started without the file lock never acquires it, and one that
\* has it keeps it until the guard is dropped or the process dies.
GuardSettled ==
    [][\A t \in Thread :
          (pc[t] \in Exclusive /\ pc'[t] \in Exclusive) => guard'[t] = guard[t]]_vars

\* No deadlock on hook re-entry: a hook process started by the holder of an
\* exclusive guard finishes, although it asks for the same repository.
HookFinishes ==
    \A p \in Process : (launcher[p] \in Thread) ~> (launcher[p] \notin Thread)

\* Nobody starves on the in-process lock: a thread parked on it gets its turn
\* (or its process dies), and readers cannot overtake a waiting writer forever;
\* unless the process itself waits for good on the lock between processes,
\* which others may take again and again.
NoStarvation ==
    \A t \in Thread :
        (\A u \in Thread : ProcOf[u] = ProcOf[t] => []<>(pc[u] # "wantFile"))
            => (pc[t] \in Parked) ~> (pc[t] \notin Parked)

\* The permission token of a thread: it exists from the moment a guard is
\* returned until its drop begins, not while the thread is after the file lock.
TokenOf(state) ==
    IF state = "shared" THEN "shared" ELSE IF state \in Exclusive THEN "exclusive" ELSE "none"

Permission == INSTANCE RepoPermission WITH permission <- [t \in Thread |-> TokenOf(pc[t])]

\* Refinement: taken as permission tokens, the guards behave as RepoPermission
\* says.
ImplementsPermission == Permission!Spec

=============================================================================
