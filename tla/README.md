# A verification of the UnityButler core

UnityButler is a fork of GitButler for Unity projects: a Rust workspace
(`src/crates`, 280k lines), a desktop application on Tauri (`src/apps/desktop`,
`src/crates/gitbutler-tauri`), an HTTP server (`src/crates/but-server`), a command
line with a terminal interface (`src/crates/but`) and web front ends
(`src/apps/web`, `src/apps/lite`). All of them work on one Git repository, often
several at once, next to Git itself, editors, and the Unity editor.

This directory holds TLA+ models of the parts of the Rust core in which several
threads, processes, callbacks or failures meet; the TLC instances that check
them; and proofs, checked by TLAPS, that the properties hold for every value of
the constants. `PROJECT.json` lists components, runs, the source lines behind
every definition, hazards, findings and theorems in a form tools can read.

    tlc -workers 2 -config Watcher.cfg MCWatcher     # check a run
    tlapm Watcher_proof.tla                          # check the proofs of a module

## 1. Inventory

What follows groups the crates by what they keep and do. The modules of each part
are in section 2; what is left out is in section 8 with the reason.

| Part (crates) | State it keeps | Operations | What is hard |
|---|---|---|---|
| Repository access (`but-core/sync.rs`) | an in-process reader-writer lock per repository, a lock on `gitbutler.write-lock` | shared, exclusive, try; drop; commit hooks that call back | threads and processes interleave; a hook under its parent's lock; files that cannot be locked; crashes |
| Operations log, choice of target (`gitbutler-oplog`, `but-oplog`, `but-api/legacy/oplog.rs`, `but/command/legacy/oplog.rs`) | a chain of snapshot commits | record, undo, redo, restore | counting undo entries backwards; targets chosen before the lock is taken |
| Operations log, restoring (`gitbutler-oplog/oplog.rs`, `but-core/worktree/checkout`) | worktree, index, references, metadata, the log | `prepare_snapshot`, `restore_snapshot` | eight writes, each of which may fail or be the last |
| Snapshot store (`gitbutler-oplog/{oplog,state,reflog}.rs`) | snapshot commits, `operations-log.toml`, the reflog of `gitbutler/target` | `commit_snapshot` | three writes; only the reflog keeps the log from garbage collection |
| Workspace metadata (`but-meta/legacy/storage.rs`, `but-db`) | `virtual_branches.toml` and a database row that mirror each other | read, write, import | other programs edit the file; modification times; a crash between file and commit |
| Settings (`but-settings`) | `settings.json`, a copy in the memory of every process, a watcher | load, `update_*`, reload | a read, merge and write that others interleave; a replaced file is no longer watched |
| Edit mode (`gitbutler-edit-mode`, `gitbutler-operating-modes`) | HEAD, `refs/gitbutler/edit-uncommitted-changes`, `edit_mode_metadata.toml`, branch `gitbutler/edit` | enter, save, abort | six writes per call; work that exists in one place only; `git switch` in between |
| Interactive rebase (`but-rebase/graph_rebase`, `but-workspace/commit`, `but-workspace/branch/move_branch.rs`) | a graph of steps, references, a mapping of rewritten commits | move, discard, squash, insert, reword, move and tear off a branch; rebase, materialize | edges rewired among several parents and children; several operations on one editor |
| Hunk dependencies (`but-hunk-dependency`) | ranges of lines per commit and stack | add the hunks of a commit, combine stacks, intersect | ranges cut and covered; line numbers of different files |
| Hunk assignments (`but-hunk-assignment`) | rows: a hunk and its branch | scan, assign, assign by row | hunks move, meet and part between two scans |
| File watcher (`gitbutler-filemonitor`, `gitbutler-watcher`) | pending and parked events, what was reported | classify, debounce, collect, park, handle, report | events arrive while others are handled; parking for Unity; a busy repository |
| Workspace transaction (`but-transaction`) | an in-memory rebase, a mapping of rewritten commits | chain of edits, commit or roll back | one step of several failing |
| Commit graph, workspace, stacks (`but-graph`, the rest of `but-workspace`, `gitbutler-stack`, `gitbutler-branch-actions`) | commits, references, stack metadata | apply, unapply, commit, integrate upstream | large case analyses on graphs; sequential |
| Hosts (`gitbutler-tauri`, `but-server`, `but`) | windows, active projects, broadcast channels | route calls, deliver events | order of delivery; which window holds exclusive access |
| Projects (`gitbutler-project`), database (`but-db`) | a JSON file, SQLite | load, store | - |
| IRC (`but-irc`), forges, language models, agents, credentials | connections, caches, prompts | requests to services | reconnects, late answers |

How they interact. Every API call gets an access guard and under it changes the
repository. A mutating call records a snapshot in the log; to do that it reads the
metadata, which first brings file and database in line. `undo`, `redo` and `restore`
choose an entry of the log and restore it, which writes worktree, index, references
and metadata. Operations on commits and branches make an editor for the workspace,
rewire its graph, rebase it and materialize the result. Edit mode does that when it
is saved, records its entry into the same log and moves HEAD. All these writes, and
those of editors and Git, are seen by the file monitor; the watcher takes access
itself to compute what it reports, and skips a refresh when the repository is busy.
Uncommitted hunks are assigned to branches by every scan of the worktree, and
depend on the commits whose lines they touch. The settings are shared by processes
through their file alone.

What makes each part correct:

* Repository access: one writer per process; two processes write at once only
  where the code says they may; within a process everybody is served in turn, and a
  hook never waits for its own parent.
* Log: undo and redo behave as two stacks; what the interface names is what is
  undone; every restore can be taken back.
* Restoring: success means the snapshot's state, whatever the state before;
  refusal means nothing was touched.
* Snapshot store: the log grows at its end only and is never lost.
* Metadata: two copies, one value; what is committed is what the next reader
  sees, through any crash.
* Settings: memory follows the file; an update changes one setting.
* Edit mode: no work is lost; the right commit is rewritten; nothing but the
  user's work is uncommitted afterwards.
* Rebase: stacks are what the user asked for; no commit is lost; branches and
  metadata follow the commits.
* Hunks: every line is blamed on the commit that wrote it; a hunk keeps its branch.
* Watcher: every change is reported or was knowingly dropped.
* Not modelled yet: a transaction leaves one entry or none; reports of the server
  arrive in order.

The 40 places where this code can go wrong in ways a test hardly reaches are
under "hazards" in `PROJECT.json`, each at its line and with the properties that
watch over it, or, where none does, the reason.

## 2. Modules

| Component module | Abstract specification | TLC instance | Proofs |
|---|---|---|---|
| `RepoAccess` | `RepoPermission` | `MCWorkspace` | `Workspace_proof` |
| `GraphRebase` | `BranchStacks` | `MCGraphRebase`, `MCWorkspace` | `Workspace_proof` |
| `SnapshotRestore` | (in its properties) | `MCSnapshotRestore`, `MCWorktree` | `SnapshotRestore_proof` |
| `Oplog` | `UndoStack` | `MCStores` | `Oplog_proof` |
| `SnapshotStore` | `AppendOnlyLog` | `MCSnapshotStore`, `MCStores` | `Stores_proof` |
| `MetadataStore` | `MetadataRegister` | `MCMetadataStore`, `MCStores` | `Stores_proof` |
| `Settings` | (in its properties) | `MCStores` | `Stores_proof` |
| `EditMode` | (in its properties) | `MCWork` | `Work_proof` |
| `HunkRanges` | (in its properties) | `MCWork` | - |
| `HunkAssignments` | (in its properties) | `MCWork` | `Work_proof` |
| `Debouncer` | (in its properties) | `MCWorktree` | `Worktree_proof` |
| `Watcher` | (in its properties) | `MCWatcher` | `Watcher_proof` |

`Induction` has what the proofs need of induction: see section 5.

How they fit together: Oplog chooses an entry and takes the restore as one step, and
the storing of an entry too; SnapshotRestore takes any choice and breaks the restore
into its writes, of which the metadata is one and the new entry another;
MetadataStore breaks the former into file, read back and row (`RestoreFile`,
`ReadRestored`, `Import`), with other accesses in between,
SnapshotStore the latter into commit, head and reflog, and shows that together
they are the appending that Oplog relies on. All of these, and GraphRebase,
run under the exclusive guard of RepoAccess, which is why the application itself
does nothing else between their steps, while Git, editors and crashes do. EditMode
takes the rebase of a save as one step, which GraphRebase breaks up (the reword of a
commit with others on top). Debouncer releases what Watcher has as `pending`: there
all that is pending may be taken at any time, and nothing is taken back. Watcher's
`busy` is RepoAccess seen from outside.

`MCWorkspace`, `MCStores`, `MCWork` and `MCWorktree` each take several components that share no
state into one run. Their variable `focus`, chosen at first, says which of them a
behaviour is about; the others rest in their initial states.

In every component module definitions marked "mutant" are plausible bugs of the
code; they are no part of the specification and serve to show that each property
notices one.

### RepoAccess

`pc` says what a thread does with its guard; `writer`, `readers`, `queue` are
the fair `parking_lot` lock of one process; `guard` and `fileLock` are the lock
file; `launcher` says which thread waits for which hook process.
`RequestShared/RequestExclusive ... GrantShared/GrantExclusive` are the blocking
calls, `TryExclusive` with `AcquireFile` or `TryFileBusy` is
`try_exclusive_repo_access`, and dropping a guard is `ReleaseFile` then
`ReleaseExclusive`, in the order in which the fields are dropped.
`FileUnavailable` is every error of the lock file, which the code turns into a
guard without it; `HookContinues` is the bypass for processes with Git's
commit-hook environment. `LaunchHook`, `LaunchFromGit`, `HookExits` and `Crash`
are Git and the operating system.

### GraphRebase and BranchStacks

`graph` has a step for every node (a commit to pick, a reference, or nothing, where
a commit was removed) and its edges with their orders; `refs` are the references of
the repository, `mapping` the pairs of new and old commits that are handed to the
caller. A commit is the set of changes it makes, how often its message was edited,
and its parents as commits, so that a commit picked again onto the same parents is
the same commit, as with hashes. `Created` is `Editor::create`, `ParentsOf`
`collect_ordered_parents`, `Disconnected` and the `Inserted` operators are
`disconnect_segment_from` and `insert_segment_into` with all their edge orders,
`ToPick` and `Rebased` are `Editor::rebase`, `Ranked` is
`order_commit_selectors_by_parentage`. The actions are the operations of
`but-workspace` on commits and branches, each followed by its rebase, and
`Materialize`; `latest` is the kind of the last one. Nothing keeps the anchor of a move
from being one of the commits that are moved, as in the API (`moveOntoItself`).
`BranchStacks` is what users see: sequences of branch and commit
names, with commits and branches taken out of one place and put into another. The
refinement mapping `StacksOf` follows first parents from the workspace commit down.

### Oplog and UndoStack

`log` is the chain of snapshots, oldest first, each with its kind, the state
before, and for restores the entry restored. `UndoTarget`, `RedoTarget` and
`Peel` are `get_undo_target_snapshot`, `get_redo_target_snapshot` and
`peel_restore_snapshot`, loops written as recursive functions. A client chooses
(`ChooseUndo/Redo/Restore`) without a lock and restores later (`Restore`), as the
command line and the terminal interface do. `UndoStack` is what users think they
have: two stacks. The refinement mapping `Stacks` replays the log.
`stale` is a history variable: it becomes true when an undo or redo was carried
out whose target was no longer what the log would give; the refinement and
`NamesTheOperation` are claimed up to then, `RestoreCanBeTakenBack` always.

### SnapshotRestore

`repo` has worktree, index, conflict files, metadata, references, the commit of
`gitbutler/workspace` and what HEAD is on; `objects` are the commits that exist.
`restore_snapshot` is `BeginRestore` (the state before is prepared, which itself
repairs references and metadata), `RestoreConflicts`, `Reconstitute` (commits that
garbage collection took are written again; the workspace reference moves),
`CheckHead`, `Checkout` (forced, or safe with the feature flag `cv3`),
`RestoreMetadata`, `RestoreRefs`, `RestoreIndex`, `RecordRestore`. Each may fail,
with part of its effect; `BreakOff` may come between any two. The world edits files
and switches HEAD during a call, and moves references, leaves conflicts and
collects garbage between calls. `began`, `entries`, `raced`, `ignored` in `call`
are history for the properties. A stack has one branch, a file one content.

### SnapshotStore and AppendOnlyLog

A commit is the sequence of entries that leads to it, which is what its hash stands
for. `CommitSnapshot`, `SetOplogHead` and `SetReferenceToOplog` are the writes of
`commit_snapshot`; `Interrupted` is an error of one of them, or the end of the
process. A head that names no commit is taken for none (`Parent`). `Gc` is
`git gc`: a line of a reflog that is older than thirty days (`MonthPasses`) and
names what its branch does not lead to is dropped, then everything that nothing
leads to, but for what is young. `AppendOnlyLog` is what Oplog takes for granted.
`returned` is history: the log when a call last succeeded.

### MetadataStore and MetadataRegister

`file` has a content and a modification time, `db` is the committed row with the
file as last seen, `tx` the one transaction that runs (BEGIN IMMEDIATE admits
one). `Sync` is `ensure_vb_storage_in_sync`; `ReadBack` is the second half of
`write_toml`; `Write` and `Commit` are the rest; `Abort` is an error or the end of
the process at any step. `restore` is the restore of the operations log that runs
beside: it writes the file (`RestoreFile`) and reads it back (`ReadRestored`,
`storage.rs:53`) with no transaction open, so that accesses come in between, and what
it has read becomes the row in a transaction of its own (`Import`, `:58-67`).
`RestoreFails` ends it in between. `Editor` is any other program. A content is its
own hash. `MetadataRegister` is one value that callers read and write and that
editors may set: `InForce` maps the two copies to it. A restore puts its value in
force with its first step, and its last step may put in force again what was offered
to it: its own value, or what a writer, a mirroring reader or an editor has written
since (`offered`).

### Settings

`settings` is a function from keys (leaves of the JSON) to customizations, or broken,
or missing; `memory` has the settings of each process. `Update` changes one in memory
under the write lock; `LoadCurrent`, `ReadFile` and `WriteSettings` are
`AppSettings::save`, which loads the file, reads it once more, and writes it with the
difference merged in, a null removing its key (`Merged`). `Modified` and `Removed`
are the two events the watcher handles; `Rewatch` is the second half of the latter.
A file that is replaced, as every save does, is loaded, then watched again, and only
then in force; it is not watched again if it does not load, and not put in force if
it cannot be watched. `excused` is history: a process has missed a change while it
did not watch ("missed"), cannot see the next one ("blind"), or has a setting in
memory that it failed to save ("unsaved"), until it loads the file again. The comment
at `watch.rs:16` promises memory in sync with the disk without these excuses;
"missed" contradicts it as plainly in the code as in the model, and no run repeats
it.

### EditMode

`Enter` with `SetAside, WriteMetadata, MakeBranch, MoveHead, CheckOutCommit,
RecordEntry`; `Save` with `ReturnToWorkspace, CheckOutHead, Reapply`; `Abort` with
`Leave, BringBack`: one action per write, in the order of the code. A tree is a
committed tree and the set of pieces of work typed on it. `Crash` stops a call
anywhere, in the middle of a checkout as well. `CommitWork`, `Type` and `Switch`
are the user, in the application, in an editor and with `git switch`. History:
`typed` (work not given up), `risked` (in a worktree when edit mode was entered),
`entered` (the worktree then), `strayed` (the user switched with Git).

### HunkRanges

`file` is the one file of every stack as a sequence of lines, each of the base or of
the commit that added it; `ranges` is what `PathRanges` keeps of it. A `Commit` makes
hunks out of an edit, and `Add` takes them into the ranges: what they cover is
removed, what they touch is cut, with its net shift handed on (`Receive`), and what
is below is shifted. `Combined` is `combine_path_ranges`, over the stacks;
`Intersection` the ranges that an uncommitted hunk depends on, where a comparison that
ends in an error (the last line of an empty range at line 0) counts as no. `Workspace` is the
file with the changes of all stacks, merged by their base lines, which is the
reference definition the combined ranges are compared with.

### HunkAssignments

`changes` are the edited places of the one file, in order and apart, `rows` what the database holds:
a hunk as it was at the last scan, and its branch. `Scanned` makes hunks of the
places, which join when their context touches, or one whole-file row where the scan
is not asked for hunks. `Reconcile` matches new hunks with rows by their overlap,
the biggest of several winning; `Scan`, `Assign` and `AssignIds` are the calls that
use it. `ChangeWorkspace` applies branches or takes them away.

### Debouncer

`queues` are the events of every path and `arriving` is a rename whose second half
inotify has not delivered. The actions of `Changes` are what may happen to a file,
each with its event: `Pushed`, `Removed` and `Moved` are `push_event`,
`push_remove_event` and `push_rename_event` on queues. `Sleep` and `Tick` are the
thread: it reads the request for a flush, sleeps, counts the queued events, and
releases all (`ReleaseAll`) or what is older than a minute (`ReleaseOld`). Time is
the number of things that have happened, `expired` the time a minute ago, which any
tick may move on. `Tells` are the kinds of event and the files that the monitor does
not leave out; with one of them the interface is shown the files as they are
(`told`). `quiet` and `forgotten` are history. A removal takes back the queue of a
file that counts as new. Where the file was there all the same (`NewIn`: it has
replaced another, or a refresh for another file has shown it since), where the
origin of a rename is lost (`Origins` of what is removed or replaced, `LeftOut` of
what is moved on), and where the system drops events (`Overflow`: the event that says
so has no path and no kind that the monitor lets pass), the interface may show what
is no longer there until something else happens. The files to which this has happened
are `forgotten`, one by one, until the interface looks again, and `Kept` speaks of all
others. They are defects of the code as much as of the model: `mv new known; rm
known` is told to nobody.

### Watcher

`pending` are files whose change is in the debouncer (module Debouncer) or the channel, `batch` what
the task has received, `phase` what it does with it, `stale` the parts of the
interface that do not show the present. `Receive` is one turn of the task's loop,
`MayPark`, `ReceiveParked`, `Rest`, `QuietPassed` are
`drain_until_project_quiet`, `Dispatch` is `into_events`, `BeginGit`, `ReportGit`,
`ReportProject` are `Handler::handle`. `lost` is history: stale parts whose notice
the code dropped on purpose (repository busy, a report that failed, a detached
HEAD).

## 3. Runs

Twelve runs. Distinct states and time are of a run with two workers.

| Run | Question | Result |
|---|---|---|
| `workspace` | Do guards exclude as they should among three processes with four threads, one of them a hook, with one failure and one crash; and, without those, does every hook finish and everybody get a guard in turn, unless the process waits for good for the file lock? Does a sequence of two operations on a workspace leave the stacks that were asked for, with all commits, branches and mappings? | holds, 36k states, 1.5 min |
| `worktree` | Is a restore that succeeds complete, reversible, and one that refuses harmless, with failures, crashes and races at each step? Is what differs from what is shown still going to be told of, and in time? | holds, 4.1M states, 3 min |
| `stores` | Are metadata file and database one register? Do the scans of the log implement two stacks, and can every restore be taken back? Does the stored log only grow? Do memory and file of the settings agree, and are updates exact? | holds, 613k states, 2 min |
| `work` | Is work kept, and the right commit edited, with two faults at any step and `git switch` at any time? Do hunk ranges blame every line? Are assignments exact and settled? | holds, 1.8M states, 1.5 min |
| `watcher` | Is every change reported or accounted for, under fairness? | holds, 311k states, 1.5 min |
| `oplog_stale` | Does an undo always undo the last operation? | violated, see section 6 |
| `restore_cv3` | Does a restore bring back the files with the safe checkout too? | violated |
| `metadata_fallback` | Does a database outlive a broken file when it cannot be opened for once? | violated |
| `snapshot_expiry` | Are snapshots safe from garbage collection without a limit of time? | violated |
| `hunk_lines` | Do combined ranges have the line numbers of the workspace? | violated |
| `assignment_moves` | Does a hunk that nobody touched keep its branch? | violated |
| `rebase_moves` | Does a commit that is moved stay in the graph? | violated |

Between them the passing runs take every action and every disjunct.

### Bounds

* `Thread`, `Process` (RepoAccess): a process with two threads, one with one,
  a hook process with one. Two threads are needed for the in-process lock, a
  second process for the file lock, a hook for the bypass. `MaxFailures = 1`,
  `MaxCrashes = 1`: one of each is enough to meet every combination with the
  others; the proofs have no bound. For liveness (focus "progress") the second
  process rests and nothing fails, which would only help progress.
* `MaxOps = 2` on two workspaces (GraphRebase): a stack of two branches beside
  another stack, and a stack with a merge in it beside another. Two operations, because
  the second meets orders of edges, removed steps and mappings that only the first
  can have left; every operation with every choice of one or two commits, anchor
  and side. `rebase_moves` needs the workspace with the merge only.
* `MaxLog = 5`, `MaxState = 2` (Oplog): the shortest log in which undo, redo,
  operation and restore follow one another in every order and a restore of a
  restore is undone has five entries; two new states next to the first tell a
  wrong target from a right one. The two clients are symmetric.
* `MaxLog = 3`, `MaxChanges = 2` (SnapshotRestore): an entry, a restore, the
  restore of that restore; two changes of the world (move a reference and collect
  garbage, race twice) around and during them. One stack with two possible heads,
  one file with two contents or none: the steps treat stacks and files alike, and
  the proofs are for any number. Commits and contents are symmetric.
* `MaxEntries = 4` (SnapshotStore): a log, a call that is interrupted, one that
  begins anew, and one after it. The proofs are for any number.
* `MaxTime = 2`, three contents (MetadataStore): before, at and after the time
  last seen; empty, and two others. `FileMayRace` and `DbMayFail` are off in
  `stores`: see section 5 and finding 3.
* Settings: two processes, one setting that always has a value and one that may have
  none, three updates, edits or failures in all; fewer meet no update between
  the steps of another.
* `Depth = 2`, `MaxRewrites = 2`, `MaxFaults = 2`, two pieces of work (EditMode):
  a commit below and one on top; an edit after an edit; the loss that one fault
  cannot cause and two can. Pieces are symmetric.
* HunkRanges: two stacks, a file of three lines, three hunks of up to two new lines:
  a hunk on a hunk on a hunk, in one stack or in two. HunkAssignments: a file of four
  lines with one line of context, three edits that leave a line or none, two
  branches, which are symmetric: hunks touch, join and part. The two counterexamples need less.
* `FlushAfter = 2`, `MaxEvents = 3` (Debouncer): the code has three ticks; two are
  enough to meet a count that a tick with events has not begun anew, and the proof is
  for any number. Two files that are shown, which are symmetric, and one that is
  ignored: a file that is renamed to a name over which the ignored one is then
  renamed is what takes most of them. Three events around any number of ticks, so that
  a file is replaced, read or shown before it is renamed or removed.
* Watcher: a file that is shown and one on the ignore list; HEAD, the index and
  `logs/HEAD`, one handled before the index and one after. Nothing bounds the
  length of a run.

`CHECK_DEADLOCK FALSE` is set where only a bound stops the system: in `stores`
and `worktree`, and in runs for a counterexample.

### What every property notices

For each property of a passing run `PROJECT.json` names a mutant: one definition
changed the way a bug would change it (a dropped guard, a missing reset, an order
swapped), under which TLC finds that property violated.

## 4. Fairness

* RepoAccess (`NobodyWaitsForever`): `WF Progress(t)`: a thread that was
  granted something goes on, a holder finishes, and a thread that waits for a file lock
  which stays free takes it. `SF ReleaseFile(t)`: a holder launches finitely many
  hooks. `SF HookExits(p)`: a hook process runs finitely many commands. Nothing is
  assumed of requests, launches, failures or crashes, nor of the file lock when it is
  taken and freed again and again: "as a filesystem lock, no fairness is guaranteed"
  (`but-core/src/sync.rs:105`). A waiter may then starve, and with it everybody who
  waits in the queue of its process, so that `NobodyWaitsForever` is of a thread in whose
  process every wait for the file lock ends; TLC finds it violated without that
  premise. The fairness of the in-process lock is not assumed but modelled: the guards
  unlock with `unlock_fair`, so that whoever waits longest is next.
* Watcher (`Reported`): `WF` of taking all that is pending (the debouncer releases
  everything after quiet ticks and its flush; the channel loses nothing), of `Rest`
  and `QuietPassed` (timers run), of `OtherDone` (other calls end), of the reports,
  and of `BeginGit` while the repository stays free. The handler of a git event blocks
  for exclusive access, which includes the file lock: others that come and go may keep
  it waiting for good, and `Reported` says that this is the only way in which something
  stays unreported. The Unity editor and writes are free: `Reported` speaks of
  behaviours in which they come to rest.

The other models have safety properties only and no fairness.

## 5. Proofs

All theorems are of a specification and for every value of the constants that the
named assumptions allow (sets disjoint where a value must be told apart, bounds
natural numbers; each ASSUME is evaluated by TLC in a run). 49 of them are listed in
`PROJECT.json`. Those of MetadataStore are for `Undisturbed` (the database opens; nobody edits the file
during a transaction, and no restore writes it between a write and its read back): without
the former `metadata_fallback` shows what happens; without the latter what comes
between `write_toml`'s write and its read back (`storage.rs:221`) is taken for the
program's own, and never imported. A restore may write between
all other steps of an access.

* `Workspace_proof`, RepoAccess. `InProcessExclusion`, `OverlapIsExcused`, `FileLockNeverStale`
  and `HookCoveredByParent` are not inductive: a parked thread or a lock owner says
  nothing about the records of others. The strengthening is `TypeOK` with
  `LockLinked` (a thread whose `pc` says it has the in-process lock is recorded in
  it, and a writer excludes readers), `FileLinked` (whoever has `guard = "file"` owns
  the file lock and the other way round, and skipping is for hooks) and `HookLinked`
  (who launched a hook is in it, and in no other). It is kept by each action; the four
  invariants follow from it; `GuardSettled` and the refinement of `RepoPermission`
  follow step by step.
* `Workspace_proof`, GraphRebase, for any workspaces and any number of operations.
  `RebaseAssumption` says of a workspace what `Editor::create` has from Git and
  but-graph: finitely many nodes, no cycle, a commit below every reference; and that
  commits to come are new. The searches of the code are loops that the model runs for
  a number of rounds (`Repeat`); that this is a function, and stays among the nodes, is
  an induction over the rounds (`IterateExists`). `RebaseTypeOK` needs `RebaseInv`: the
  graph is `WellMade`, that is, its edges are finite sequences that lead to nodes which
  are not removed, a name of a reference is at a reference, a pick has a commit, and no
  node lies above itself. Cutting a segment out and putting it in elsewhere is only shown
  to leave edges among the nodes: it may close a cycle (as finding 7 does, and a move of a commit next to itself), but the rebase
  keeps of any graph what can be picked from the lowest on, and the order in which it does
  so is a rank without cycles (`RebasedIsGraph`). `RewritesAreTraced` speaks of the commits at
  first, which no variable keeps; `TraceInv` says that for one of the workspaces no node
  has been added but new ones, the references are as they were created, and the mapping is
  `Traced`: the commit of a node changes what the node stands for, and no other commit
  does; a pair whose new commit changes that leads to what the node's commit was at first;
  and a commit that is not what it was has a pair. An operation replaces some steps, with
  pairs of its own, and then rebases (`OperationsAreEdits`); the former keeps the trace
  (`EditIsTraced`), and the latter does so whatever the edges are, and gives every commit
  its pair (`RebasedIsTraced`). That the history of the workspace commit, which the property
  goes through, is made of the first commits of nodes follows from how `Created` picks
  them (`CreatedIsGraph`, `HistoryType`). `OrderedByParentage` follows from `RebaseInv`
  through two searches. That the rounds are enough for either is part of the claim: what
  is left to do gets less by every round (`RunsDry`), for the parents of a commit the
  stack and the nodes not seen, for the order the same with every node counted for the
  most parents one can have. Of the search for parents, `Searched` says that what has
  been seen is on the stack, found, or led to what has been seen, so that everything
  between a commit and its parents lies in one set that it does not leave
  (`ParentsOfReaches`). Of the search for the order, `SearchInv` says that the parents
  of an expanded node are in order already or above it on the stack
  (`ParentsAwaited`), that ranks fall from an expanded node upwards (`Descends`), so
  that a parent which is skipped as seen cannot be waiting further down, and that heads and
  parents of what has been seen are seen or on the stack (`NothingMissed`). At the end no
  node is out of reach: one of the greatest rank would have a child (`AllAreSeen`).
* `Induction`. The operators of several modules are recursive functions and folds over
  sequences, of which nothing can be proved but by induction. Induction over formulas
  is out of reach of the provers; induction over sets of numbers is not: that `<` is
  well founded on the naturals is a fact about a relation, and from it follows that a
  set of numbers has a least member (`Least`) and that a set with 0 that is closed
  under successor has them all (`Inductive`). A proof by induction forms the set of
  the numbers for which the claim holds. That a recursive function is what its
  equation says (that it exists at all) is such a claim too.
* `Oplog_proof`. The searches (`Scan`), the peeling of a restore (`Peel`) and the
  replay of the log (`StacksOf`) are shown to exist and to satisfy their equations, and
  then what each becomes when an entry is appended: the entries below are found as
  before, an undo shifts what the search finds by one. The invariant is `Linked`: the
  n-th entry from the top of the replayed undo stack is the one the search for an undo
  finds when it skips n, with the state it would restore and the operation it peels to,
  and likewise for the redos; beneath, there is nothing to find. With it the searches
  of the code are the tops of two stacks (`LogImplementsUndoStack`), and what is named
  is what is undone (`NamedOperation`). `TakenBack` does not need `Linked`: it holds of
  stale targets too.
* `SnapshotRestore_proof`. Each property is carried through the call by an
  invariant that says what is known at each step ("files are the snapshot's from
  the checkout on", "the commits exist from the second step on"), so that what is
  proved is that no later step undoes an earlier one. `CanBeTakenBack` and
  `RestoresTheBranches` hold with races; `RestoresTheSnapshot` and
  `RefusalLeavesWork` leave raced calls out, because the code takes no lock
  against Git.
* `Stores_proof`, SnapshotStore. `LogSurvivesTheMonth` needs to know why the log is there.
  The invariant has `Closed` (a commit is stored with all it descends from; garbage
  collection keeps that), `Fresh` (entries are numbered by their calls, so that the
  commit of the call that runs is not the log that last returned), `Linked` (that
  commit continues the head, unless the head had lapsed) and `Protected` (while the
  log is kept the reflog names its head). The refinement of `AppendOnlyLog` follows
  action by action.
* `Stores_proof`, MetadataStore. The invariant has `Faithful` (a file taken for the one
  last seen has the data of the row), `PastOnly` (no time seen lies ahead of the
  clock) and `StepKnows` (what is known at each step of an access, whatever a restore has
  written since: that committing it makes no difference, because what the file says is
  in force for the old row and for the new one). From it every step maps to a step of
  the register or to none; `CommitInForce` is that of the commit.
* `Work_proof`, EditMode. `RecordedWorkIsHeld` needs only that a snapshot taken at the
  entry holds the work that was in the worktree (`TypedIsSafe`). `WorkIsHeld`, that
  one fault anywhere loses nothing, needs `Kept`: where the work is at each step, and
  that as long as nothing has failed the log has all that is set aside, which is
  what saves it when the way back breaks off and the next entry overwrites the
  reference. `EditsTheRightCommit` and `LeavesWithTheWorkEntered` need the order of
  the writes: `InOrder` says for each step of the entry what is already about the new
  commit and what still about the old one. `OnlyWorkIsUncommitted` needs `OnTop`: the
  tree under the worktree, and under what is set aside, at each step.
* `Stores_proof`, Settings. `MemoryFollowsFile` needs to know what a running call has read:
  a process without notice and excuse, whose call is past loading, has loaded the file
  as it is (`Follows`), since whoever writes tells it, or excuses it. `UpdatesAreExact`
  needs that nothing but the call itself changes the memory while it runs (`Holds`),
  which is what the write lock is for. It is of updates that find memory and file equal
  and whose file is not written between reading and writing it: what an update does from
  a memory that lags behind, which may revert the change of another process, it leaves
  out.
* `Work_proof`, HunkAssignments. `ScansSettle` and `AssignIsExact` are about rows that
  match hunks by overlap, and hold because hunks of one diff never overlap: that needs
  that the edited places stay in order and apart under every edit (`PlacesOrdered`),
  that what their context joins ends where the last place of it does, and that of two
  hunks in a row the first ends before the second begins, in the old file and in the
  new one, where what earlier places have added or removed is a fold over them
  (`HeadersStandApart`). So a hunk meets itself and no other, and the second scan and
  the request find just the row they are about. Nothing is assumed of the rows that are
  in the table.
* `Worktree_proof`, Debouncer. `InTime`, the half of `ToldInTime` that bounds the wait,
  needs `Counted`: after the first quiet tick the number of events is noted, and the
  idle count lags behind the quiet ticks by that one tick at most. That the count is not
  begun anew by a tick with events makes it larger, never smaller. `Kept`, the other
  half, needs to know of every queue that its events are of its path and that only an
  overriding event stands before a rename (`OfPath`), that the first half of a rename
  which is on its way is still the last of its queue, or gone (`HalfWay`), and where it
  is said that a file is not as it was shown: of other contents the queue of the file
  itself speaks (`ContentsTold`), of a removal that queue, or the one of the file that
  was renamed from there (`RemovalTold`). The lemmas about queues say what of this
  `Pushed`, `Removed` and the parts of `Moved` leave. The proof has changed the model:
  with an excuse for the whole rather than for single files, `Kept` was wrong for three
  files (one renamed to a second, over which an ignored third was renamed and moved
  on), which two did not show; the excuses are now counted file by file, and the run
  has the three files.
* Where a run takes several components at a time, `EachStoreByItself` and
  `EachByItself` (for `workspace`: `WorkspaceStep`) say that it does in each of them what the component does by itself;
  so the theorems about a component hold of the run, and the type invariants of the
  runs (`StoresTypeCorrect`, `WorktreeTypeCorrect`, `WorkspaceTypeCorrect`) follow.
* `Watcher_proof`. `Accounted` needs `Overtaken`: while the git event is handled
  without having read the commit that HEAD is at, a change of `logs/HEAD` is
  pending again.

Only model-checked: liveness (`NobodyWaitsForever`, `Reported`), which the prover does
not handle under fairness; what GraphRebase says of stacks; HunkRanges.
`BranchesHoldTheirCommits`, `NothingIsLost` and `ImplementsStacks` are about
where a walk along first parents arrives: that the order of
edges which an insertion leaves makes a certain parent the first, through references and
removed steps in between, holds of the shapes a workspace has and not of every graph, and an
inductive invariant would have to describe these shapes.
`StacksAreBlamed` and `EditsDepend` of HunkRanges are about folds
of folds: the hunks of a commit over the ranges that all earlier commits have left.

## 6. Findings

Seven places where the code does not do what its own comments, documentation or
tests say. Each is a run that ends in a counterexample.

1. `oplog_stale` / `UndoUndoesTheLast`. `but undo` reads its target without a lock
   and restores it later; what another process records in between is undone with
   it, silently ("An implicit restore that undoes the last snapshot",
   `gitbutler-oplog/src/oplog.rs:670`).
2. `restore_cv3` / `RestoresTheFiles`. With the flag `cv3` the workspace reference
   moves before the checkout compares HEAD with the snapshot; files in which the
   two agree keep later changes, and the call succeeds. Two ignored tests
   (`but/tests/but/command/undo.rs:159`, `:174`) describe it.
3. `metadata_fallback` / `DatabaseOutlivesFile`. If the database fails to open
   while the file is missing or broken, an empty file is written that is newer
   than the database, and the next access empties the database
   (`storage.rs:20-21` says it is rewritten from DB state).
4. `snapshot_expiry` / `SnapshotsSurvive`. The snapshots are kept by a line of a
   reflog "such that snapshots are reachable and will not be garbage collected"
   (`gitbutler-oplog/src/reflog.rs:38`). The line bears the present time (`:109`)
   and names what its branch does not lead to: after thirty days without a snapshot
   `git gc` drops it, and the log is pruned.
5. `hunk_lines` / `LineNumbersMatch`. The ranges of all stacks are combined "with line
   numbers that should match the workspace commit"
   (`but-hunk-dependency/src/ranges/mod.rs:89`), by starts that are counted in
   different files (`:294`): a line may be blamed on a commit that did not write it.
   `EditsDepend` shows that the result is right where the starts have the order of
   the workspace.
6. `assignment_moves` / `HunksKeepTheirBranch`. Hunks are matched with rows by line
   numbers (`but-hunk-assignment/src/lib.rs:396`); when a hunk above grows, one that
   nobody touched may take over a neighbour's branch, although hunks are "still
   assigned to the same stack" (`:557`).
7. `rebase_moves` / `MovedCommitsStay`. A merge commit that is moved leaves one parent
   only and keeps the other (`but-workspace/src/commit/move_commit.rs:59`, documented
   at `:19`); moved again below that one it becomes its own ancestor, and
   `order_steps_picking` (`graph_rebase/rebase.rs:286`) leaves the cycle out without
   an error: the commit and what was merged in drop out of the history.

Three more disagreements are in the models, left out of the properties by name, and
have no run of their own:

* A commit that the API moves next to itself (`but-api/src/commit/move_commit.rs:82`)
  becomes its own parent, and drops out of its branch as the commits of 7 do. It is to
  be "inserted relative" to the anchor (`but-workspace/src/commit/move_commit.rs:19`); the
  command line knows that there is "Nothing to do" (`but/src/command/commit/move.rs:175`).
  In GraphRebase it is a move of the kind `moveOntoItself`, which `NothingIsLost`,
  `ImplementsStacks` and `MovedCommitsStay` leave out.
* `write_toml` replaces the metadata file and opens it again to remember its time and hash
  (`storage.rs:221`). What another program writes in between is remembered as the file
  last seen, with the data written before, and never imported, although it is valid and
  newer (`storage.rs:19`). `FileMayRace` admits it in MetadataStore.
* A settings file that is replaced and changed again before it is watched again
  (`but-settings/src/watch.rs:159`), or repaired when it was not watched again at all, is
  not in memory, although that is to be "in sync" (`:16`). It is the excuse "missed" or
  "blind" of Settings.

## 7. Plan

Done, in this order: RepoAccess, Oplog, MetadataStore, SnapshotRestore, EditMode,
Watcher, SnapshotStore, Settings, HunkRanges, HunkAssignments, GraphRebase,
Debouncer, each with its instance, and the proofs of section 5.

Next, the most important first:

1. `Transaction`: `but-transaction` on top of GraphRebase, one entry of the log or
   none; the mapping of commits through several editors.
2. Delivery of reports by the server's tasks, on top of Watcher.
3. Upstream integration on the graphs of GraphRebase; order and archiving of the
   heads in `gitbutler-stack`.
4. Other lock files (background refresh, project lock); which window holds exclusive
   access.
5. Proofs: that one hunk received by one range hands its net shift on (HunkRanges); the
   shapes of workspaces, which `BranchesHoldTheirCommits` needs (GraphRebase).
6. IRC connection manager.

The runs stay few: a new module joins the passing run of its kind, and a
counterexample run is added only where the code and its documentation disagree.

## 8. Not modelled, and why

Within modelled parts:

* RepoAccess. Readers take no file lock, by design, so that nothing is said of a
  reader next to a writer of another process. A thread asks for access only when it
  has none (the permission tokens that callers pass see to that).
* SnapshotRestore has one branch per stack, and does not look into merges within one
  file. What an editor writes between the snapshot and the forced checkout is lost
  in the code as in the model, and nothing promises otherwise.
* MetadataStore takes one access as one transaction; metadata handles that keep data
  between a read and a write (`but-meta/legacy/mod.rs:583`) belong to their callers.
  An editor never sets a modification time ahead of the clock there: the code has no
  answer to it, and the register would not be implemented.
* SnapshotStore leaves out that the same reflog also names the target commit, to which
  the workspace leads anyway.
* Settings: the migration of the settings of older versions, the reactions to a
  changed setting, and file systems other than Linux's, whose watchers tell more.
* EditMode has a linear stack, and a commit made with Git in edit mode, which changes
  no tree, is not a step.
* GraphRebase: trees and conflicts, history cut off below the workspace
  (`preserved_parents`), immutable and extra references, and what `move_branch`
  writes into the workspace metadata. `NothingIsLost` and `ImplementsStacks` are
  about workspaces without a merge inside a stack, and about moves to an anchor that
  is not moved itself: otherwise what section 6 describes is in the way. The order of the stacks in the workspace
  commit is left open: a branch that is torn off gets an edge of the order another
  one may have (`move_branch.rs:126`).
* HunkRanges and HunkAssignments have one file: renames, identifiers of hunks and the
  rules of `but-rules` are left out. A scan of a worktree without changes returns
  early and keeps its rows (`but-hunk-assignment/src/lib.rs:526`), and a scan of whole
  files lets hunks that come later adopt one branch; the model has both, and no
  property speaks against it.
* Debouncer has files only, without the queues below a directory that is removed, no
  cache of file identities (the monitor uses none), the events of Linux, and neither
  the errors of the system nor the order among the events of one release, of which
  nothing is made.
* Watcher has a main worktree with a static watch plan, and no branches beside the one
  that is checked out. What becomes of a report on its way to the clients
  (`but-server/src/projects.rs:109`, `gitbutler-tauri/src/window.rs:157`) is not part of it.

Whole parts: the commit graph, the workspace projection and the branch actions are
sequential computations on graphs, larger than all the rest, and covered by the
snapshot tests of their crates; the operations that rewrite history are in
GraphRebase. The API layer and the command line forward calls. The database is
taken to give atomic transactions, as SQLite does. Projects, forges, language
models, agents, credentials, installation and update talk to files or services
with no protocol of their own. Conversions, bindings, test and debug crates have
no state. The front ends show what the core reports. `PROJECT.json` has one entry
for each.
