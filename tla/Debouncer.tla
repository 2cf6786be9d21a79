----------------------------- MODULE Debouncer -----------------------------
(* The debouncer below the file monitor: it queues the events of every path,  *)
(* joins the two halves of a rename, takes back what has come to nothing, and *)
(* lets go of what is old enough, or of everything after some quiet ticks     *)
(* (crates/gitbutler-filemonitor/vendor/debouncer/src/lib.rs), for the        *)
(* monitor, which leaves out some kinds of event and the ignored files        *)
(* (crates/gitbutler-filemonitor/src/file_monitor.rs).                        *)
(* The events are those of Linux: a rename comes in two halves with the same  *)
(* tracker, one right after the other; there is no cache of file identities.  *)
(* Of contents only one thing is kept: whether they are those last shown.     *)
EXTENDS Naturals, Sequences, Functions, FiniteSets

CONSTANTS Names,       \* paths of the worktree
          Ignored,     \* those that git ignores
          FlushAfter,  \* flush_after, in ticks
          MaxEvents    \* bound on what happens to the files

ASSUME IgnoredAreNames == Ignored \subseteq Names /\ IsFiniteSet(Names)
ASSUME FlushAfterIsPositive == FlushAfter \in Nat \ {0}

VARIABLES
    disk,      \* of every path: no file, the contents that were shown, or others
    told,      \* the files that were shown last
    now,       \* the time: how much has happened so far
    queues,    \* queues: the events of every path
    arriving,  \* rename_event: a rename of which the second half is on its way
    expired,   \* the time that lies DEBOUNCE_TIMEOUT back
    flush,     \* a flush is requested
    asked,     \* should_flush, as it is read before the thread sleeps
    sleeping,  \* the thread sleeps
    idle,      \* idle_count
    previous,  \* prev_queue_count
    quiet,     \* for the properties: ticks since the last event, or release
    forgotten  \* for the properties: files of which a needed event was taken back
files == <<disk, now>>
thread == <<asked, sleeping, idle, previous>>
debouncerVars == <<files, told, queues, arriving, expired, flush, thread, quiet, forgotten>>

Shown == Names \ Ignored
Kinds == {"create", "modify", "access", "remove", "override", "from", "to", "both"}
Events == [kind : Kinds, paths : Seq(Names), time : Nat]
Event(kind, paths) == [kind |-> kind, paths |-> paths, time |-> now']

(* The parts have the right types, and a queue holds at most one rename, of   *)
(* two paths, of which the second is its own.                                 *)
DebouncerTypeOK ==
    /\ disk \in [Names -> {"none", "same", "other"}] /\ told \subseteq Shown
    /\ now \in Nat /\ expired \in 0..now
    /\ queues \in [Names -> Seq(Events)]
    /\ \A p \in Names : \A i, j \in DOMAIN queues[p] :
           LET e == queues[p][i] IN
           /\ e.kind = "both" => Len(e.paths) = 2 /\ e.paths[2] = p
           /\ e.kind # "both" => e.paths = <<p>>
           /\ e.kind = "both" /\ queues[p][j].kind = "both" => i = j
    /\ flush \in BOOLEAN /\ asked \in BOOLEAN /\ sleeping \in BOOLEAN
    /\ idle \in 0..FlushAfter /\ previous \in Nat /\ quiet \in Nat /\ forgotten \subseteq Names

DebouncerInit ==
    /\ \E F \in SUBSET Names :
        /\ disk = [p \in Names |-> IF p \in F THEN "same" ELSE "none"]
        /\ told = F \ Ignored
    /\ now = 0 /\ queues = [p \in Names |-> <<>>] /\ arriving = {} /\ expired = 0
    /\ flush = FALSE /\ asked = FALSE /\ sleeping = FALSE /\ idle = 0 /\ previous = 0
    /\ quiet = 0 /\ forgotten = {}

-----------------------------------------------------------------------------
(* Queues, see Queue.                                                         *)
Begins(q, kinds) == q # <<>> /\ Head(q).kind \in kinds
WasCreated(q) == Begins(q, {"create", "to"})
WasRemoved(q) == Begins(q, {"remove", "override", "from"})
Front(q, n) == SubSeq(q, 1, n)

PushedUnlessQueued(q, e) ==  \* mutant: anything that is queued stands for a change
    IF q # <<>> /\ e.kind \in {"modify", "create"} THEN q ELSE Append(q, e)

(* push_event: a new file and what is written to it are one event.            *)
Pushed(q, e) == IF WasCreated(q) /\ e.kind \in {"modify", "create"} THEN q ELSE Append(q, e)

(* push_remove_event: a new file that is removed has never been.              *)
Removed(q, e) == IF WasCreated(q) THEN <<>> ELSE <<e>>

(* push_rename_event: where the file was at first, if an earlier rename of it *)
(* is still queued; what has happened to it; and what goes before.            *)
IsRename(e) == e.kind = "both"
Renames(q) == {i \in DOMAIN q : IsRename(q[i])}
RenameAt(q) == CHOOSE i \in Renames(q) : \A j \in Renames(q) : i <= j
Origin(q, first) ==
    IF Renames(q) = {} THEN first
    ELSE [first EXCEPT !.paths = <<q[RenameAt(q)].paths[1]>>, !.time = q[RenameAt(q)].time]
WithoutRename(q) ==
    IF Renames(q) = {} THEN q
    ELSE Front(q, RenameAt(q) - 1) \o SubSeq(q, RenameAt(q) + 1, Len(q))
LeftBehind(q) == IF WasRemoved(q) THEN <<Head(q)>> ELSE <<>>
Carried(q, p) ==
    LET moved == IF WasRemoved(q) THEN Tail(q) ELSE q
    IN [i \in DOMAIN moved |-> [moved[i] EXCEPT !.paths = <<p>>]]
Joined(q, origin, p) ==
    IF WasCreated(q) THEN q
    ELSE <<[origin EXCEPT !.kind = "both", !.paths = Append(@, p)]>> \o q
Overriding(q, origin, p) ==
    IF q = <<>> \/ WasCreated(q) THEN <<>>
    ELSE <<[origin EXCEPT !.kind = "override", !.paths = <<p>>]>>

(* The file at path p, whose queue without the first half of the rename is q, *)
(* is now at r.to.                                                            *)
Moved(p, q, r) ==
    LET origin == Origin(q, r.first)
    IN [queues EXCEPT
          ![p]    = LeftBehind(WithoutRename(q)),
          ![r.to] = Overriding(@, origin, r.to)
                      \o Joined(Carried(WithoutRename(q), r.to), origin, r.to)]

-----------------------------------------------------------------------------
(* What happens to the files, and the event of it.                            *)
(* For the properties: of a file that is shown it may be forgotten that it is *)
(* gone.  Its removal takes back what counts as new; or it was renamed, and   *)
(* its new place is removed or replaced, or the file there is renamed on and  *)
(* counts as new, or as one that was elsewhere before.                        *)
Origins(q) == {q[i].paths[1] : i \in Renames(q)}
Forget(names) == forgotten' = forgotten \cup (names \cap told)
NewIn(q, p) == IF WasCreated(q) THEN {p} ELSE {}
LeftOut(q, p) ==
    LET new == WasCreated(Carried(WithoutRename(q), p))
        renamed == IF new THEN {} ELSE IF Origins(q) = {} THEN {p} ELSE Origins(q)
        gone == IF Begins(q, {"remove", "from"}) THEN {p} ELSE {}
    IN (Origins(q) \cup {p}) \ (renamed \cup gone)

Becomes(p, contents) == disk' = [disk EXCEPT ![p] = contents]
Happens ==
    /\ now < MaxEvents /\ arriving = {}
    /\ now' = now + 1 /\ quiet' = 0
    /\ UNCHANGED <<told, expired, flush, thread>>
Push(p, kind) == queues' = [queues EXCEPT ![p] = Pushed(@, Event(kind, <<p>>))]

Create(p) ==
    /\ disk[p] = "none" /\ Happens
    /\ Becomes(p, "other") /\ Push(p, "create")
    /\ UNCHANGED <<arriving, forgotten>>

Modify(p) ==
    /\ disk[p] # "none" /\ Happens
    /\ Becomes(p, "other") /\ Push(p, "modify")
    /\ UNCHANGED <<arriving, forgotten>>

Read(p) ==
    /\ disk[p] # "none" /\ Happens
    /\ Push(p, "access")
    /\ UNCHANGED <<disk, arriving, forgotten>>

Remove(p) ==
    /\ disk[p] # "none" /\ Happens
    /\ Becomes(p, "none")
    /\ queues' = [queues EXCEPT ![p] = Removed(@, Event("remove", <<p>>))]
    /\ Forget(Origins(queues[p]) \cup NewIn(queues[p], p))
    /\ UNCHANGED arriving

(* From and to a place that is not watched.                                   *)
MoveOut(p) ==
    /\ disk[p] # "none" /\ Happens
    /\ Becomes(p, "none") /\ Push(p, "from")
    /\ UNCHANGED <<arriving, forgotten>>

MoveIn(p) ==
    /\ Happens
    /\ Becomes(p, "other") /\ Push(p, "to")
    /\ UNCHANGED <<arriving, forgotten>>

(* The first half of a rename; the second is the next event.                  *)
Rename(p, q) ==
    /\ disk[p] # "none" /\ p # q /\ Happens
    /\ disk' = [disk EXCEPT ![p] = "none", ![q] = "other"]
    /\ Push(p, "from")
    /\ arriving' = {[first |-> Event("from", <<p>>), to |-> q]}
    /\ UNCHANGED forgotten

Arrive == \E r \in arriving : \E p \in Range(r.first.paths) :
    /\ arriving' = {} /\ quiet' = 0
    /\ LET before == Front(queues[p], Len(queues[p]) - 1)
       IN queues' = Moved(p, before, r) /\ Forget(Origins(queues[r.to]) \cup LeftOut(before, p))
    /\ UNCHANGED <<files, told, expired, flush, thread>>

(* Too much happens at once for the system, which tells the debouncer to look *)
(* itself (rescan_event): the event has no path, and nobody looks.            *)
Overflow(p) ==
    /\ Happens
    /\ disk' \in {[disk EXCEPT ![p] = contents] : contents \in {"none", "other"}}
    /\ forgotten' = forgotten \cup {p}
    /\ UNCHANGED <<queues, arriving>>

Changes ==
    \/ \E p \in Names : Create(p) \/ Modify(p) \/ Read(p) \/ Remove(p) \/ MoveOut(p) \/ MoveIn(p) \/ Overflow(p)
    \/ \E p, q \in Names : Rename(p, q)
    \/ Arrive

-----------------------------------------------------------------------------
(* The thread                                                                 *)

(* A window gets the focus.                                                   *)
RequestFlush ==
    /\ flush' = TRUE
    /\ UNCHANGED <<files, told, queues, arriving, expired, thread, quiet, forgotten>>

Sleep ==
    /\ ~sleeping
    /\ asked' = flush /\ sleeping' = TRUE
    /\ UNCHANGED <<files, told, queues, arriving, expired, flush, idle, previous, quiet, forgotten>>

Count == Cardinality(UNION {{p} \X DOMAIN queues[p] : p \in Names})
Waiting == \E p \in Names : queues[p] # <<>>

(* debounced_events: the events of a queue before the first that is too young.*)
Due(q) ==
    CHOOSE n \in 0..Len(q) :
      /\ \A i \in 1..n : q[i].time <= expired'
      /\ n < Len(q) => q[n + 1].time > expired'

(* is_interesting_kind, and the ignored paths of the monitor: whether the     *)
(* interface is told to look at the files.                                    *)
Tells(e) == e.kind \notin {"override", "access"} /\ Range(e.paths) \cap Shown # {}

Tell ==
    /\ told' = {p \in Shown : disk[p] # "none"}
    /\ disk' = [p \in Names |-> IF disk[p] = "other" THEN "same" ELSE disk[p]]
    /\ forgotten' = {}

TellOf(released) ==
    IF \E p \in Names : \E e \in Range(released[p]) : Tells(e)
    THEN Tell ELSE UNCHANGED <<told, disk, forgotten>>

ReleaseAll ==
    /\ queues' = [p \in Names |-> <<>>] /\ TellOf(queues)
    /\ flush' = FALSE

ReleaseOld ==
    /\ queues' = [p \in Names |-> SubSeq(queues[p], Due(queues[p]) + 1, Len(queues[p]))]
    /\ TellOf([p \in Names |-> Front(queues[p], Due(queues[p]))])
    /\ UNCHANGED flush

(* A tick that finds as many events as the one before is counted, but others  *)
(* do not begin the count anew.                                               *)
Idle == IF previous = Count THEN idle + 1 ELSE idle

Tick ==
    /\ sleeping /\ sleeping' = FALSE
    /\ expired' \in expired..now
    /\ IF Idle >= FlushAfter
       THEN idle' = 0 /\ previous' = 0 /\ ReleaseAll
       ELSE idle' = Idle /\ previous' = Count /\ IF asked THEN ReleaseAll ELSE ReleaseOld
    /\ quiet' = IF Waiting /\ queues' = queues THEN quiet + 1 ELSE 0
    /\ UNCHANGED <<now, arriving, asked>>

DebouncerNext == Changes \/ RequestFlush \/ Sleep \/ Tick
DebouncerSpec == DebouncerInit /\ [][DebouncerNext]_debouncerVars

-----------------------------------------------------------------------------
Differs(p) == disk[p] = "other" \/ (disk[p] = "none") = (p \in told)
TellsOf(e, p) == e.kind \notin {"override", "access"} /\ p \in Range(e.paths)
Queued(p) == \E q \in Names : \E i \in DOMAIN queues[q] : TellsOf(queues[q][i], p)
OnItsWay(p) == \E r \in arriving : r.to = p

(* A file that is not as it was last shown will be told of, unless what told  *)
(* of it was taken back or dropped by the system ...                          *)
Kept == \A p \in Shown \ forgotten : Differs(p) => Queued(p) \/ OnItsWay(p)
(* ... at the latest at the tick that follows on FlushAfter quiet ones.       *)
InTime == quiet <= FlushAfter
(* The two together: a change on disk is told of, in time.                    *)
ToldInTime == Kept /\ InTime
=============================================================================
