--------------------------- MODULE Worktree_proof ----------------------------
(* Proofs about what happens to the files of the worktree.  Those about a      *)
(* restore are in SnapshotRestore_proof, these are about Debouncer.            *)
EXTENDS MCWorktree, SnapshotRestore_proof, SequenceTheorems, Induction, TLAPS

-----------------------------------------------------------------------------
(* Whatever is queued is let go of at the tick after FlushAfter quiet ones,   *)
(* for all sets of paths and any number of ticks, although the count of idle  *)
(* ticks is not begun anew by a tick with events: it is never less than the   *)
(* quiet ticks but the first, the one that has found the events.              *)

Counted ==
    /\ quiet \in Nat /\ idle \in Nat /\ idle < FlushAfter
    /\ quiet > 0 => previous = Count /\ quiet <= idle + 1

LEMMA CountedInTime ==
    Counted => InTime
  BY FlushAfterIsPositive DEF Counted, InTime

(* An event begins the quiet ticks anew.                                      *)
LEMMA HappensCounted ==
    ASSUME Counted, quiet' = 0, UNCHANGED thread PROVE Counted'
  BY DEF Counted, thread

LEMMA ChangesCounted ==
    ASSUME Counted, Changes PROVE Counted'
<1>1. ASSUME NEW p \in Names,
             Create(p) \/ Modify(p) \/ Read(p) \/ Remove(p) \/ MoveOut(p) \/ MoveIn(p) \/ Overflow(p)
      PROVE Counted'
  <2>1. Happens
    BY <1>1 DEF Create, Modify, Read, Remove, MoveOut, MoveIn, Overflow
  <2> QED
    BY <2>1, HappensCounted DEF Happens
<1>2. ASSUME NEW p \in Names, NEW q \in Names, Rename(p, q) PROVE Counted'
  BY <1>2, HappensCounted DEF Rename, Happens
<1>3. CASE Arrive
  BY <1>3, HappensCounted DEF Arrive
<1> QED
  BY <1>1, <1>2, <1>3 DEF Changes

(* Neither a request nor falling asleep lets go of anything.                  *)
LEMMA UnchangedCounted ==
    ASSUME Counted, UNCHANGED <<queues, idle, previous, quiet>> PROVE Counted'
<1>1. Count' = Count
  BY DEF Count
<1> QED
  BY <1>1 DEF Counted

(* All is let go of, so that nothing waits; or the number of events is noted, *)
(* which the next tick finds again if nothing happens.                        *)
LEMMA TickCounted ==
    ASSUME Counted, Tick PROVE Counted'
<1> USE FlushAfterIsPositive
<1>1. CASE ReleaseAll
  <2>1. ~(Waiting /\ queues' = queues)
    BY <1>1 DEF ReleaseAll, Waiting
  <2>2. quiet' = 0
    BY <2>1 DEF Tick
  <2>3. idle' \in Nat /\ idle' < FlushAfter
    BY DEF Tick, Idle, Counted
  <2> QED
    BY <2>2, <2>3 DEF Counted
<1>2. CASE ~(Waiting /\ queues' = queues)
  <2>1. quiet' = 0
    BY <1>2 DEF Tick
  <2>2. idle' \in Nat /\ idle' < FlushAfter
    BY DEF Tick, Idle, Counted
  <2> QED
    BY <2>1, <2>2 DEF Counted
<1>3. CASE Waiting /\ queues' = queues /\ ~ReleaseAll
  <2>1. quiet' = quiet + 1 /\ Idle < FlushAfter /\ idle' = Idle /\ previous' = Count
    BY <1>3 DEF Tick, Idle, Counted
  <2>2. Count' = Count
    BY <1>3 DEF Count
  <2>3. quiet <= Idle
    BY DEF Counted, Idle
  <2>4. Idle \in Nat
    BY DEF Counted, Idle
  <2> QED
    BY <2>1, <2>2, <2>3, <2>4 DEF Counted
<1> QED
  BY <1>1, <1>2, <1>3
-----------------------------------------------------------------------------
(* Queues                                                                      *)

(* The queue of a path: events of it, or a rename to it, before which there is *)
(* at most the event of what has been replaced.                                *)
OfPath(q, p) ==
    /\ q \in Seq(Events)
    /\ \A i \in 1..Len(q) : IF q[i].kind = "both" THEN Len(q[i].paths) = 2 /\ q[i].paths[2] = p
                            ELSE q[i].paths = <<p>>
    /\ \A i, j \in 1..Len(q) : q[i].kind = "both" /\ j < i => q[j].kind = "override"
NoRename(q) == \A i \in 1..Len(q) : q[i].kind # "both"
(* An event that the monitor takes an interest in.                             *)
Speaks(q) == \E i \in 1..Len(q) : q[i].kind \notin {"override", "access"}

LEMMA EmptyOfPath == \A p : OfPath(<<>>, p) /\ NoRename(<<>>)
BY EmptySeq DEF OfPath, NoRename

LEMMA DomainOfPath ==
    ASSUME NEW p, NEW q, OfPath(q, p)
    PROVE  DOMAIN q = 1..Len(q) /\ Len(q) \in Nat /\ \A i \in 1..Len(q) : q[i] \in Events
BY LenProperties, ElementOfSeq DEF OfPath

LEMMA OneOfPath ==
    ASSUME NEW p, NEW e \in Events, e.kind # "both", e.paths = <<p>>
    PROVE  OfPath(<<e>>, p) /\ NoRename(<<e>>)
BY DEF OfPath, NoRename

LEMMA RenamesOf ==
    ASSUME NEW p, NEW q, OfPath(q, p)
    PROVE  /\ Renames(q) = {i \in 1..Len(q) : q[i].kind = "both"}
           /\ Renames(q) = {} <=> NoRename(q)
           /\ Renames(q) # {} =>
                 /\ RenameAt(q) \in 1..Len(q) /\ Renames(q) = {RenameAt(q)}
                 /\ q[RenameAt(q)].kind = "both"
<1>1. Renames(q) = {i \in 1..Len(q) : q[i].kind = "both"}
  BY DomainOfPath DEF Renames, IsRename
<1>2. \A i, j \in Renames(q) : i = j
  <2> SUFFICES ASSUME NEW i \in Renames(q), NEW j \in Renames(q), i < j PROVE FALSE
    BY <1>1, DomainOfPath
  <2> QED
    BY <1>1 DEF OfPath
<1>3. ASSUME Renames(q) # {} PROVE RenameAt(q) \in Renames(q)
  <2>1. PICK i \in Renames(q) : TRUE
    BY <1>3
  <2>2. \A j \in Renames(q) : i <= j
    BY <1>1, <1>2, <2>1, DomainOfPath
  <2> QED
    BY <2>1, <2>2 DEF RenameAt
<1> QED
  BY <1>1, <1>2, <1>3 DEF NoRename

LEMMA AppendOfPath ==
    ASSUME NEW p, NEW q, OfPath(q, p), NEW e \in Events, e.kind # "both", e.paths = <<p>>
    PROVE  /\ OfPath(Append(q, e), p)
           /\ Origins(q) \subseteq Origins(Append(q, e))
           /\ Speaks(q) => Speaks(Append(q, e))
           /\ e.kind \notin {"override", "access"} => Speaks(Append(q, e))
           /\ Append(q, e) # <<>> /\ Append(q, e)[Len(Append(q, e))] = e
<1> DEFINE r == Append(q, e)
<1>1. /\ r \in Seq(Events) /\ Len(r) = Len(q) + 1 /\ Len(q) \in Nat
      /\ \A i \in 1..Len(q) : r[i] = q[i]
      /\ r[Len(q) + 1] = e
      /\ r # <<>>
  BY AppendProperties, LenProperties DEF OfPath
<1> HIDE DEF r
<1>2. OfPath(r, p)
  <2>1. \A i \in 1..Len(r) : i \in 1..Len(q) \/ i = Len(q) + 1
    BY <1>1
  <2> QED
    BY <1>1, <2>1 DEF OfPath
<1>3. Origins(q) \subseteq Origins(r)
  BY <1>1, <1>2, RenamesOf DEF Origins
<1> QED
  BY <1>1, <1>2, <1>3 DEF r, Speaks

LEMMA PushedOfPath ==
    ASSUME NEW p, NEW q, OfPath(q, p), NEW e \in Events, e.kind # "both", e.paths = <<p>>
    PROVE  /\ OfPath(Pushed(q, e), p)
           /\ Origins(q) \subseteq Origins(Pushed(q, e))
           /\ Speaks(q) => Speaks(Pushed(q, e))
           /\ e.kind \notin {"override", "access"} => Speaks(Pushed(q, e))
           /\ e.kind = "from" => Pushed(q, e) = Append(q, e)
<1>1. ASSUME WasCreated(q) PROVE Speaks(q)
  BY <1>1, DomainOfPath, EmptySeq, LenProperties DEF WasCreated, Begins, Speaks, OfPath
<1> QED
  BY <1>1, AppendOfPath DEF Pushed

LEMMA RemovedOfPath ==
    ASSUME NEW p, NEW q, OfPath(q, p), NEW e \in Events, e.kind = "remove", e.paths = <<p>>
    PROVE  OfPath(Removed(q, e), p) /\ (~WasCreated(q) => Speaks(Removed(q, e)))
BY OneOfPath, EmptyOfPath DEF Removed, Speaks

(* The part of a queue from some event on, or before it.                       *)
LEMMA PartOfPath ==
    ASSUME NEW p, NEW q, OfPath(q, p), NEW m \in 1..(Len(q) + 1), NEW n \in 0..Len(q)
    PROVE  /\ OfPath(SubSeq(q, m, n), p)
           /\ Len(SubSeq(q, m, n)) = IF m <= n THEN n - m + 1 ELSE 0
           /\ \A i \in 1..Len(SubSeq(q, m, n)) : SubSeq(q, m, n)[i] = q[m + i - 1]
           /\ NoRename(q) => NoRename(SubSeq(q, m, n))
<1> DEFINE r == SubSeq(q, m, n)
<1>1. /\ r \in Seq(Events) /\ Len(r) = IF m <= n THEN n - m + 1 ELSE 0
      /\ \A i \in 1..(n - m + 1) : r[i] = q[m + i - 1]
  BY DomainOfPath, SubSeqProperties DEF OfPath
<1>2. \A i \in 1..Len(r) : r[i] = q[m + i - 1] /\ m + i - 1 \in 1..Len(q)
  BY <1>1, DomainOfPath
<1> HIDE DEF r
<1>3. OfPath(r, p)
  <2>1. ASSUME NEW i \in 1..Len(r), NEW j \in 1..Len(r), r[i].kind = "both", j < i
        PROVE  r[j].kind = "override"
    <3>1. m + j - 1 < m + i - 1
      BY <1>1, <2>1, DomainOfPath
    <3> QED
      BY <1>2, <2>1, <3>1 DEF OfPath
  <2> QED
    BY <1>1, <1>2, <2>1 DEF OfPath
<1> QED
  BY <1>1, <1>2, <1>3 DEF r, NoRename

LEMMA ConcatOfPath ==
    ASSUME NEW p, NEW q, OfPath(q, p), NEW r, OfPath(r, p),
           NoRename(r) \/ \A i \in 1..Len(q) : q[i].kind = "override"
    PROVE  /\ OfPath(q \o r, p)
           /\ Len(q \o r) = Len(q) + Len(r)
           /\ \A i \in 1..Len(q \o r) :
                 (q \o r)[i] = IF i <= Len(q) THEN q[i] ELSE r[i - Len(q)]
           /\ NoRename(q) /\ NoRename(r) => NoRename(q \o r)
<1> DEFINE s == q \o r
<1>1. /\ s \in Seq(Events) /\ Len(s) = Len(q) + Len(r) /\ Len(q) \in Nat /\ Len(r) \in Nat
      /\ \A i \in 1..Len(s) : s[i] = IF i <= Len(q) THEN q[i] ELSE r[i - Len(q)]
  BY ConcatProperties, DomainOfPath DEF OfPath
<1> HIDE DEF s
<1>2. \A i \in 1..Len(s) : i \in 1..Len(q) \/ (i > Len(q) /\ i - Len(q) \in 1..Len(r))
  BY <1>1
<1>3. OfPath(s, p)
  <2>1. ASSUME NEW i \in 1..Len(s), NEW j \in 1..Len(s), s[i].kind = "both", j < i
        PROVE  s[j].kind = "override"
    <3>1. CASE i \in 1..Len(q)
      BY <1>1, <2>1, <3>1 DEF OfPath
    <3>2. CASE i > Len(q) /\ j > Len(q)
      <4>1. s[i] = r[i - Len(q)] /\ s[j] = r[j - Len(q)]
        BY <1>1, <3>2
      <4>2. i - Len(q) \in 1..Len(r) /\ j - Len(q) \in 1..Len(r) /\ j - Len(q) < i - Len(q)
        BY <1>1, <1>2, <2>1, <3>2
      <4> QED
        BY <2>1, <4>1, <4>2 DEF OfPath
    <3>3. CASE i > Len(q) /\ j <= Len(q)
      <4>1. s[i] = r[i - Len(q)] /\ s[j] = q[j] /\ i - Len(q) \in 1..Len(r) /\ j \in 1..Len(q)
        BY <1>1, <1>2, <3>3
      <4> QED
        BY <2>1, <4>1 DEF NoRename
    <3> QED
      BY <1>1, <1>2, <3>1, <3>2, <3>3
  <2> QED
    BY <1>1, <1>2, <2>1 DEF OfPath
<1> QED
  BY <1>1, <1>2, <1>3 DEF s, NoRename

-----------------------------------------------------------------------------
(* A rename                                                                    *)

LEMMA WithoutRenameOfPath ==
    ASSUME NEW p, NEW q, OfPath(q, p)
    PROVE  OfPath(WithoutRename(q), p) /\ NoRename(WithoutRename(q))
<1>1. CASE Renames(q) = {}
  BY <1>1, RenamesOf DEF WithoutRename
<1>2. CASE Renames(q) # {}
  <2> DEFINE k == RenameAt(q)
             before == SubSeq(q, 1, k - 1)
             after == SubSeq(q, k + 1, Len(q))
  <2>1. k \in 1..Len(q) /\ Len(q) \in Nat /\ Renames(q) = {k}
    BY <1>2, RenamesOf, DomainOfPath
  <2>2. \A i \in 1..Len(q) : i # k => q[i].kind # "both"
    BY <2>1, RenamesOf
  <2> HIDE DEF k
  <2>3. /\ OfPath(before, p) /\ Len(before) = k - 1
        /\ \A i \in 1..Len(before) : before[i] = q[i]
    <3>1. 1 \in 1..(Len(q) + 1) /\ k - 1 \in 0..Len(q)
      BY <2>1
    <3> QED
      BY <2>1, <3>1, PartOfPath
  <2>4. /\ OfPath(after, p) /\ Len(after) = Len(q) - k
        /\ \A i \in 1..Len(after) : after[i] = q[k + i]
    <3>1. k + 1 \in 1..(Len(q) + 1) /\ Len(q) \in 0..Len(q)
      BY <2>1
    <3>2. \A i \in 1..Len(after) : (k + 1) + i - 1 = k + i
      BY <2>1
    <3> QED
      BY <2>1, <3>1, <3>2, PartOfPath
  <2> HIDE DEF before, after
  <2>5. NoRename(before) /\ NoRename(after)
    <3>1. \A i \in 1..Len(before) : i \in 1..Len(q) /\ i # k
      BY <2>1, <2>3
    <3>2. \A i \in 1..Len(after) : k + i \in 1..Len(q) /\ k + i # k
      BY <2>1, <2>4
    <3> QED
      BY <2>2, <2>3, <2>4, <3>1, <3>2 DEF NoRename
  <2>6. WithoutRename(q) = before \o after
    BY <1>2 DEF WithoutRename, Front, before, after, k
  <2> QED
    BY <2>3, <2>4, <2>5, <2>6, ConcatOfPath
<1> QED
  BY <1>1, <1>2

LEMMA LeftOfPath ==
    ASSUME NEW p, NEW q, OfPath(q, p), NoRename(q)
    PROVE  /\ OfPath(LeftBehind(q), p)
           /\ Begins(q, {"remove", "from"}) => Speaks(LeftBehind(q))
<1>1. CASE WasRemoved(q)
  <2>1. Len(q) \in Nat /\ 1 \in 1..Len(q) /\ Head(q) = q[1] /\ q[1] \in Events
    BY <1>1, DomainOfPath, EmptySeq, LenProperties DEF WasRemoved, Begins, OfPath
  <2>2. q[1].kind # "both" /\ q[1].paths = <<p>>
    BY <2>1 DEF NoRename, OfPath
  <2> QED
    BY <1>1, <2>1, <2>2, OneOfPath DEF LeftBehind, Begins, Speaks
<1>2. CASE ~WasRemoved(q)
  BY <1>2, EmptyOfPath DEF LeftBehind, WasRemoved, Begins
<1> QED
  BY <1>1, <1>2

LEMMA EventMoved ==
    ASSUME NEW e \in Events, NEW x \in Names
    PROVE  /\ [e EXCEPT !.paths = <<x>>] \in Events
           /\ [e EXCEPT !.paths = <<x>>].kind = e.kind
           /\ [e EXCEPT !.paths = <<x>>].paths = <<x>>
<1> DEFINE names == <<x>>
<1>1. names \in Seq(Names)
  OBVIOUS
<1> HIDE DEF names
<1>2. /\ [e EXCEPT !.paths = names] \in Events
      /\ [e EXCEPT !.paths = names].kind = e.kind
      /\ [e EXCEPT !.paths = names].paths = names
  BY <1>1 DEF Events
<1> QED
  BY <1>2 DEF names

LEMMA EventReplaced ==
    ASSUME NEW e \in Events, NEW x \in Names
    PROVE  LET f == [e EXCEPT !.kind = "override", !.paths = <<x>>]
           IN f \in Events /\ f.kind = "override" /\ f.paths = <<x>>
<1> DEFINE names == <<x>>
<1>1. names \in Seq(Names) /\ "override" \in Kinds
  BY DEF Kinds
<1> HIDE DEF names
<1>2. LET f == [e EXCEPT !.kind = "override", !.paths = names]
      IN f \in Events /\ f.kind = "override" /\ f.paths = names
  BY <1>1 DEF Events
<1> QED
  BY <1>2 DEF names

LEMMA AppendToOne ==
    ASSUME NEW s \in Seq(Names), Len(s) = 1, NEW t \in Names
    PROVE  /\ Append(s, t) \in Seq(Names) /\ Len(Append(s, t)) = 2
           /\ Append(s, t)[1] = s[1] /\ Append(s, t)[2] = t
<1>1. Append(s, t) \in Seq(Names) /\ Len(Append(s, t)) = Len(s) + 1
  BY AppendProperties
<1>2. Append(s, t)[Len(s) + 1] = t
  BY AppendProperties
<1>3. Append(s, t)[1] = s[1]
  BY AppendProperties
<1>4. Len(s) + 1 = 2
  OBVIOUS
<1> QED
  BY <1>1, <1>2, <1>3, <1>4

RenameEvent(e, t) == [e EXCEPT !.kind = "both", !.paths = Append(@, t)]
LEMMA EventJoined ==
    ASSUME NEW e \in Events, NEW x \in Names, NEW t \in Names,
           Len(e.paths) = 1, e.paths[1] = x
    PROVE  /\ RenameEvent(e, t) \in Events /\ RenameEvent(e, t).kind = "both"
           /\ Len(RenameEvent(e, t).paths) = 2
           /\ RenameEvent(e, t).paths[1] = x /\ RenameEvent(e, t).paths[2] = t
<1> DEFINE names == Append(e.paths, t)
<1>1. e.paths \in Seq(Names) /\ Len(e.paths) = 1 /\ e.paths[1] = x /\ "both" \in Kinds
  BY DEF Events, Kinds
<1>2. names \in Seq(Names) /\ Len(names) = 2 /\ names[1] = x /\ names[2] = t
  <2> DEFINE s == e.paths
  <2>1. s \in Seq(Names) /\ Len(s) = 1 /\ s[1] = x
    BY <1>1
  <2> HIDE DEF s
  <2>2. /\ Append(s, t) \in Seq(Names) /\ Len(Append(s, t)) = 2
        /\ Append(s, t)[1] = x /\ Append(s, t)[2] = t
    BY <2>1, AppendToOne
  <2> QED
    BY <2>2 DEF s
<1> HIDE DEF names
<1>3. LET f == [e EXCEPT !.kind = "both", !.paths = names]
      IN f \in Events /\ f.kind = "both" /\ f.paths = names
  BY <1>1, <1>2 DEF Events
<1> QED
  BY <1>2, <1>3 DEF names, RenameEvent

LEMMA CarriedOfPath ==
    ASSUME NEW p, NEW q, OfPath(q, p), NoRename(q), NEW t \in Names
    PROVE  OfPath(Carried(q, t), t) /\ NoRename(Carried(q, t))
<1> DEFINE m == IF WasRemoved(q) THEN Tail(q) ELSE q
           Placed(i) == [m[i] EXCEPT !.paths = <<t>>]
<1>1. m \in Seq(Events) /\ Len(m) \in Nat /\ \A i \in 1..Len(m) : m[i] \in Events /\ m[i].kind # "both"
  <2>1. CASE WasRemoved(q)
    <3>1. q # <<>> /\ Len(q) \in Nat
      BY <2>1, DomainOfPath DEF WasRemoved, Begins
    <3>2. /\ Tail(q) \in Seq(Events) /\ Len(Tail(q)) = Len(q) - 1 /\ Len(Tail(q)) \in Nat
          /\ \A i \in 1..Len(Tail(q)) : Tail(q)[i] = q[i + 1]
      BY <3>1, HeadTailProperties, LenProperties DEF OfPath
    <3>3. \A i \in 1..Len(Tail(q)) : i + 1 \in 1..Len(q)
      BY <3>1, <3>2
    <3>4. \A i \in 1..Len(Tail(q)) : Tail(q)[i] \in Events /\ Tail(q)[i].kind # "both"
      BY <3>2, <3>3, DomainOfPath DEF NoRename
    <3> QED
      BY <2>1, <3>2, <3>4
  <2>2. CASE ~WasRemoved(q)
    BY <2>2, DomainOfPath DEF NoRename, OfPath
  <2> QED
    BY <2>1, <2>2
<1> HIDE DEF m
<1>2. \A i \in 1..Len(m) : Placed(i) \in Events /\ Placed(i).kind # "both" /\ Placed(i).paths = <<t>>
  <2> SUFFICES ASSUME NEW i \in 1..Len(m)
               PROVE  Placed(i) \in Events /\ Placed(i).kind # "both" /\ Placed(i).paths = <<t>>
    OBVIOUS
  <2> QED
    BY <1>1, EventMoved
<1>3. Carried(q, t) = [i \in 1..Len(m) |-> Placed(i)]
  <2>1. DOMAIN m = 1..Len(m)
    BY <1>1, LenProperties
  <2> QED
    BY <2>1 DEF Carried, m
<1> HIDE DEF Placed
<1>4. Carried(q, t) \in Seq(Events) /\ Len(Carried(q, t)) = Len(m)
  <2>1. [i \in 1..Len(m) |-> Placed(i)] \in Seq(Events)
    BY <1>1, <1>2, IsASeq
  <2>2. DOMAIN Carried(q, t) = 1..Len(Carried(q, t)) /\ Len(Carried(q, t)) \in Nat
    BY <1>3, <2>1, LenProperties
  <2>3. 1..Len(Carried(q, t)) = 1..Len(m)
    BY <1>3, <2>2
  <2> QED
    BY <1>1, <1>3, <2>1, <2>2, <2>3
<1>5. \A i \in 1..Len(m) : Carried(q, t)[i] = Placed(i)
  BY <1>3
<1> QED
  BY <1>2, <1>4, <1>5 DEF OfPath, NoRename

(* Whether it counts as new does not depend on where it is.                    *)
LEMMA CarriedCreated ==
    ASSUME NEW p \in Names, NEW q, OfPath(q, p), NoRename(q), NEW t \in Names
    PROVE  WasCreated(Carried(q, t)) <=> WasCreated(Carried(q, p))
<1> DEFINE m == IF WasRemoved(q) THEN Tail(q) ELSE q
<1>1. ASSUME NEW x \in Names
      PROVE  WasCreated(Carried(q, x)) <=> 1 \in DOMAIN m /\ m[1].kind \in {"create", "to"}
  <2> DEFINE c == Carried(q, x)
  <2>1. OfPath(c, x)
    BY CarriedOfPath
  <2>2. DOMAIN c = DOMAIN m /\ \A i \in DOMAIN m : c[i].kind = m[i].kind
    <3>1. \A i \in DOMAIN m : [m[i] EXCEPT !.paths = <<x>>].kind = m[i].kind
      <4>1. \A i \in DOMAIN m : m[i] \in Events
        BY DomainOfPath, HeadTailProperties, ElementOfSeq, LenProperties DEF OfPath, WasRemoved, Begins
      <4> QED
        BY <4>1 DEF Events
    <3> QED
      BY <3>1 DEF Carried
  <2>3. WasCreated(c) <=> 1 \in DOMAIN c /\ c[1].kind \in {"create", "to"}
    BY <2>1, DomainOfPath, EmptySeq, LenProperties DEF WasCreated, Begins, OfPath
  <2> QED
    BY <2>2, <2>3
<1> QED
  BY <1>1

(* Where the file was at first: at the origin of the earlier rename, if there  *)
(* is one.                                                                     *)
LEMMA OriginOfPath ==
    ASSUME NEW p \in Names, NEW q, OfPath(q, p), NEW first \in Events, first.paths = <<p>>
    PROVE  \E x \in Names :
              /\ Origin(q, first) \in Events
              /\ Len(Origin(q, first).paths) = 1 /\ Origin(q, first).paths[1] = x
              /\ Renames(q) = {} => x = p /\ Origins(q) = {}
              /\ Renames(q) # {} => Origins(q) = {x}
<1>1. CASE Renames(q) = {}
  BY <1>1 DEF Origin, Origins
<1>2. CASE Renames(q) # {}
  <2> DEFINE e == q[RenameAt(q)]
  <2>1. e \in Events /\ Len(e.paths) = 2 /\ Renames(q) = {RenameAt(q)}
    BY <1>2, RenamesOf, DomainOfPath DEF OfPath
  <2>2. e.paths \in Seq(Names) /\ e.time \in Nat
    BY <2>1 DEF Events
  <2>3. e.paths[1] \in Names
    BY <2>1, <2>2, ElementOfSeq
  <2>4. Origins(q) = {e.paths[1]}
    BY <2>1 DEF Origins
  <2>5. Origin(q, first) = [first EXCEPT !.paths = <<e.paths[1]>>, !.time = e.time]
    BY <1>2 DEF Origin
  <2>6. <<e.paths[1]>> \in Seq(Names)
    BY <2>3
  <2> HIDE DEF e
  <2>7. Origin(q, first) \in Events /\ Origin(q, first).paths = <<e.paths[1]>>
    BY <2>2, <2>5, <2>6 DEF Events
  <2> QED
    BY <1>2, <2>3, <2>4, <2>7
<1> QED
  BY <1>1, <1>2

LEMMA CreatedHasNoRename ==
    ASSUME NEW p, NEW q, OfPath(q, p), WasCreated(q) \/ Begins(q, {"remove", "from"})
    PROVE  NoRename(q) /\ Speaks(q)
<1>1. /\ Len(q) \in Nat /\ 1 \in 1..Len(q) /\ Head(q) = q[1]
      /\ q[1].kind \in {"create", "to", "remove", "from"}
  BY DomainOfPath, EmptySeq, LenProperties DEF WasCreated, Begins, OfPath
<1>2. ASSUME NEW i \in 1..Len(q), q[i].kind = "both" PROVE FALSE
  <2>1. i # 1 /\ 1 < i
    BY <1>1, <1>2
  <2> QED
    BY <1>1, <1>2, <2>1 DEF OfPath
<1> QED
  BY <1>1, <1>2 DEF NoRename, Speaks

(* What the new place has queued: the event of what is replaced, the rename,   *)
(* unless the file counts as new, and what has happened to it.                 *)
LEMMA ArrivedOfPath ==
    ASSUME NEW t \in Names, NEW x \in Names, NEW c, OfPath(c, t), NoRename(c), NEW d, OfPath(d, t),
           NEW origin \in Events, Len(origin.paths) = 1, origin.paths[1] = x
    PROVE  /\ OfPath(Overriding(d, origin, t) \o Joined(c, origin, t), t)
           /\ Speaks(Overriding(d, origin, t) \o Joined(c, origin, t))
           /\ ~WasCreated(c) => x \in Origins(Overriding(d, origin, t) \o Joined(c, origin, t))
<1> DEFINE o == Overriding(d, origin, t)
           j == Joined(c, origin, t)
           e == RenameEvent(origin, t)
<1>1. OfPath(o, t) /\ \A i \in 1..Len(o) : o[i].kind = "override"
  <2>1. CASE d = <<>> \/ WasCreated(d)
    BY <2>1, EmptyOfPath DEF Overriding
  <2>2. CASE ~(d = <<>> \/ WasCreated(d))
    <3> DEFINE f == [origin EXCEPT !.kind = "override", !.paths = <<t>>]
    <3>1. f \in Events /\ f.kind = "override" /\ f.paths = <<t>>
      BY EventReplaced
    <3>2. o = <<f>>
      BY <2>2 DEF Overriding
    <3> HIDE DEF f, o
    <3> QED
      BY <3>1, <3>2, OneOfPath
  <2> QED
    BY <2>1, <2>2
<1>2. CASE WasCreated(c)
  <2>1. j = c
    BY <1>2 DEF Joined
  <2>2. OfPath(j, t) /\ Speaks(j)
    BY <1>2, <2>1, CreatedHasNoRename
  <2> HIDE DEF o, j
  <2>3. OfPath(o \o j, t) /\ Len(o \o j) = Len(o) + Len(j)
        /\ \A i \in 1..Len(o \o j) : (o \o j)[i] = IF i <= Len(o) THEN o[i] ELSE j[i - Len(o)]
    BY <1>1, <2>2, ConcatOfPath
  <2>4. PICK i \in 1..Len(j) : j[i].kind \notin {"override", "access"}
    BY <2>2 DEF Speaks
  <2>5. /\ Len(o) + i \in 1..Len(o \o j) /\ ~(Len(o) + i <= Len(o)) /\ (Len(o) + i) - Len(o) = i
    BY <1>1, <2>2, <2>3, <2>4, DomainOfPath
  <2>6. (o \o j)[Len(o) + i] = j[i]
    BY <2>3, <2>5
  <2>7. Speaks(o \o j)
    BY <2>4, <2>5, <2>6 DEF Speaks
  <2> QED
    BY <1>2, <2>3, <2>7 DEF o, j
<1>3. CASE ~WasCreated(c)
  <2>1. e \in Events /\ e.kind = "both" /\ Len(e.paths) = 2 /\ e.paths[1] = x /\ e.paths[2] = t
    BY EventJoined
  <2>2. j = <<e>> \o c
    BY <1>3 DEF Joined, RenameEvent
  <2> HIDE DEF o, j, e
  <2>3. OfPath(<<e>>, t) /\ Len(<<e>>) = 1
    BY <2>1 DEF OfPath
  <2>4. /\ OfPath(j, t) /\ Len(j) = 1 + Len(c) /\ j[1] = e /\ Len(c) \in Nat
    BY <2>2, <2>3, ConcatOfPath, DomainOfPath
  <2>5. OfPath(o \o j, t) /\ Len(o \o j) = Len(o) + Len(j)
        /\ \A i \in 1..Len(o \o j) : (o \o j)[i] = IF i <= Len(o) THEN o[i] ELSE j[i - Len(o)]
    <3>1. OfPath(o, t) /\ OfPath(j, t) /\ \A i \in 1..Len(o) : o[i].kind = "override"
      BY <1>1, <2>4
    <3> QED
      BY ONLY <3>1, ConcatOfPath
  <2>6. Len(o) + 1 \in 1..Len(o \o j) /\ ~(Len(o) + 1 <= Len(o)) /\ (Len(o) + 1) - Len(o) = 1
    BY <1>1, <2>4, <2>5, DomainOfPath
  <2>7. (o \o j)[Len(o) + 1] = e
    BY <2>4, <2>5, <2>6
  <2>8. Speaks(o \o j)
    BY <2>1, <2>6, <2>7 DEF Speaks
  <2>9. Len(o) + 1 \in Renames(o \o j)
    BY <2>1, <2>5, <2>6, <2>7, RenamesOf
  <2>10. x \in Origins(o \o j)
    BY <2>1, <2>7, <2>9 DEF Origins
  <2> QED
    BY <2>5, <2>8, <2>10 DEF o, j
<1> QED
  BY <1>2, <1>3

-----------------------------------------------------------------------------
(* Nothing that is shown changes unnoticed                                     *)

FilesTyped ==
    /\ disk \in [Names -> {"none", "same", "other"}] /\ told \subseteq Shown
    /\ now \in Nat /\ expired \in 0..now /\ forgotten \subseteq Names
QueuesTyped == queues \in [Names -> Seq(Events)] /\ \A p \in Names : OfPath(queues[p], p)
(* Of a rename that is halfway the first half is still queued, or is let go of. *)
HalfWay == arriving # {} =>
    \E p, t \in Names, r \in arriving :
        /\ arriving = {r} /\ r.to = t /\ r.first \in Events /\ r.first.paths = <<p>> /\ p # t
        /\ disk[p] = "none" /\ disk[t] # "none"
        /\ queues[p] # <<>> => queues[p][Len(queues[p])].kind = "from"
SameIsTold == \A x \in Shown : disk[x] = "same" => x \in told
(* Of other contents the queue of the path speaks itself ...                   *)
ContentsTold == \A x \in Shown \ forgotten :
    disk[x] = "other" => Speaks(queues[x]) \/ OnItsWay(x)
(* ... and so it does of a file that is gone, or another has a rename from it.  *)
RenamedFrom(x) == \E y \in Names : x \in Origins(queues[y])
RemovalTold == \A x \in told \ forgotten :
    disk[x] = "none" => Speaks(queues[x]) \/ RenamedFrom(x)
ToldInv == FilesTyped /\ QueuesTyped /\ HalfWay /\ SameIsTold /\ ContentsTold /\ RemovalTold

LEMMA EventTyped ==
    ASSUME now' \in Nat, NEW p \in Names, NEW kind \in Kinds
    PROVE  /\ Event(kind, <<p>>) \in Events
           /\ Event(kind, <<p>>).kind = kind /\ Event(kind, <<p>>).paths = <<p>>
<1> DEFINE names == <<p>>
<1>1. names \in Seq(Names)
  OBVIOUS
<1> HIDE DEF names
<1>2. Event(kind, names) \in Events /\ Event(kind, names).kind = kind /\ Event(kind, names).paths = names
  BY <1>1 DEF Event, Events
<1> QED
  BY <1>2 DEF names

LEMMA SpeaksOf ==
    ASSUME NEW x \in Names, NEW q, OfPath(q, x), Speaks(q)
    PROVE  \E i \in DOMAIN q : TellsOf(q[i], x)
<1>1. PICK i \in 1..Len(q) : q[i].kind \notin {"override", "access"}
  BY DEF Speaks
<1>2. DOMAIN q = 1..Len(q) /\ q[i] \in Events
  BY DomainOfPath
<1>3. q[i].paths \in Seq(Names)
  BY <1>2 DEF Events
<1>4. x \in Range(q[i].paths)
  <2>1. Range(q[i].paths) = {q[i].paths[k] : k \in 1..Len(q[i].paths)}
    BY <1>3, RangeEquality
  <2>2. CASE q[i].kind = "both"
    <3>1. q[i].paths[2] = x /\ 2 \in 1..Len(q[i].paths)
      BY <2>2, <1>1 DEF OfPath
    <3> QED
      BY <2>1, <3>1
  <2>3. CASE q[i].kind # "both"
    <3>1. q[i].paths = <<x>>
      BY <2>3, <1>1 DEF OfPath
    <3> QED
      BY <3>1 DEF Range
  <2> QED
    BY <2>2, <2>3
<1> QED
  BY <1>1, <1>2, <1>4 DEF TellsOf

LEMMA RenameSpeaksOf ==
    ASSUME NEW y \in Names, NEW q, OfPath(q, y), NEW x \in Origins(q)
    PROVE  \E i \in DOMAIN q : TellsOf(q[i], x)
<1>1. PICK i \in Renames(q) : q[i].paths[1] = x
  BY DEF Origins
<1>2. i \in 1..Len(q) /\ q[i].kind = "both" /\ DOMAIN q = 1..Len(q) /\ q[i] \in Events
  BY <1>1, RenamesOf, DomainOfPath
<1>3. q[i].paths \in Seq(Names) /\ 1 \in 1..Len(q[i].paths)
  <2>1. Len(q[i].paths) = 2
    BY <1>2 DEF OfPath
  <2> QED
    BY <1>2, <2>1 DEF Events
<1>4. x \in Range(q[i].paths)
  BY <1>1, <1>3, RangeEquality
<1> QED
  BY <1>2, <1>4 DEF TellsOf

LEMMA ToldIsKept == ASSUME ToldInv PROVE Kept
<1> SUFFICES ASSUME NEW x \in Shown, x \notin forgotten, Differs(x)
             PROVE  Queued(x) \/ OnItsWay(x)
  BY DEF Kept
<1>1. x \in Names /\ disk[x] \in {"none", "same", "other"}
  BY DEF Shown, ToldInv, FilesTyped
<1>2. ASSUME Speaks(queues[x]) PROVE Queued(x)
  BY <1>1, <1>2, SpeaksOf DEF Queued, ToldInv, QueuesTyped
<1>3. ASSUME RenamedFrom(x) PROVE Queued(x)
  <2>1. PICK y \in Names : x \in Origins(queues[y])
    BY <1>3 DEF RenamedFrom
  <2> QED
    BY <2>1, RenameSpeaksOf DEF Queued, ToldInv, QueuesTyped
<1>4. CASE disk[x] = "other"
  BY <1>2, <1>4 DEF ToldInv, ContentsTold
<1>5. CASE disk[x] = "none" /\ x \in told
  BY <1>2, <1>3, <1>5 DEF ToldInv, RemovalTold
<1>6. ~(disk[x] = "same" /\ x \notin told)
  BY DEF ToldInv, SameIsTold
<1> QED
  BY <1>1, <1>4, <1>5, <1>6 DEF Differs

(* An event that is pushed leaves what the queues say, and says what happens.  *)
LEMMA PushTells ==
    ASSUME ToldInv, Happens, NEW p \in Names, NEW kind \in {"create", "modify", "access", "from", "to"},
           Push(p, kind)
    PROVE  /\ QueuesTyped'
           /\ \A x \in Names : Speaks(queues[x]) => Speaks(queues'[x])
           /\ \A x : RenamedFrom(x) => RenamedFrom(x)'
           /\ kind # "access" => Speaks(queues'[p])
           /\ kind = "from" => queues'[p] # <<>> /\ queues'[p][Len(queues'[p])].kind = "from"
<1> DEFINE e == Event(kind, <<p>>)
<1>1. e \in Events /\ e.kind = kind /\ e.paths = <<p>> /\ kind # "both"
  <2>1. now' \in Nat /\ kind \in Kinds
    BY DEF ToldInv, FilesTyped, Happens, Kinds
  <2> QED
    BY <2>1, EventTyped
<1> HIDE DEF e
<1>2. /\ OfPath(queues[p], p) /\ queues \in [Names -> Seq(Events)]
      /\ queues' = [queues EXCEPT ![p] = Pushed(queues[p], e)]
  BY DEF ToldInv, QueuesTyped, Push, e
<1>3. /\ OfPath(Pushed(queues[p], e), p)
      /\ Origins(queues[p]) \subseteq Origins(Pushed(queues[p], e))
      /\ Speaks(queues[p]) => Speaks(Pushed(queues[p], e))
      /\ e.kind \notin {"override", "access"} => Speaks(Pushed(queues[p], e))
      /\ e.kind = "from" => Pushed(queues[p], e) = Append(queues[p], e)
  BY <1>1, <1>2, PushedOfPath
<1>4. queues'[p] = Pushed(queues[p], e) /\ \A x \in Names \ {p} : queues'[x] = queues[x]
  BY <1>2
<1>5. QueuesTyped'
  <2>1. Pushed(queues[p], e) \in Seq(Events)
    BY <1>3 DEF OfPath
  <2>2. queues' \in [Names -> Seq(Events)]
    BY <1>2, <2>1
  <2> QED
    BY <1>3, <1>4, <2>2 DEF ToldInv, QueuesTyped
<1>6. \A x : RenamedFrom(x) => RenamedFrom(x)'
  BY <1>3, <1>4 DEF RenamedFrom
<1>7. kind = "from" => queues'[p] # <<>> /\ queues'[p][Len(queues'[p])].kind = "from"
  BY <1>1, <1>2, <1>3, <1>4, AppendOfPath
<1> QED
  BY <1>1, <1>3, <1>4, <1>5, <1>6, <1>7

LEMMA HappensTyped ==
    ASSUME ToldInv, Happens PROVE now' \in Nat /\ expired' \in 0..now' /\ told' = told /\ arriving = {}
BY DEF ToldInv, FilesTyped, Happens

LEMMA PushKeepsTold ==
    ASSUME ToldInv, Happens, NEW p \in Names, NEW kind \in {"create", "modify", "access", "from", "to"},
           Push(p, kind), UNCHANGED <<arriving, forgotten>>,
           NEW contents \in {"none", "same", "other"}, disk' = [disk EXCEPT ![p] = contents],
           contents = disk[p] \/ (contents # "same" /\ kind # "access")
    PROVE  ToldInv'
<1>1. FilesTyped'
  BY HappensTyped DEF ToldInv, FilesTyped
<1>2. /\ QueuesTyped'
      /\ \A x \in Names : Speaks(queues[x]) => Speaks(queues'[x])
      /\ \A x : RenamedFrom(x) => RenamedFrom(x)'
      /\ kind # "access" => Speaks(queues'[p])
  BY PushTells
<1>3. HalfWay'
  BY HappensTyped DEF HalfWay
<1>4. \A x \in Names : disk'[x] = IF x = p THEN contents ELSE disk[x]
  BY DEF ToldInv, FilesTyped
<1>5. Shown \subseteq Names /\ told \subseteq Names
  BY DEF Shown, ToldInv, FilesTyped
<1>6. SameIsTold'
  BY <1>4, <1>5, HappensTyped DEF ToldInv, SameIsTold
<1>7. ContentsTold'
  BY <1>2, <1>4, <1>5 DEF ToldInv, ContentsTold, OnItsWay
<1>8. RemovalTold'
  BY <1>2, <1>4, <1>5, HappensTyped DEF ToldInv, RemovalTold
<1> QED
  BY <1>1, <1>2, <1>3, <1>6, <1>7, <1>8 DEF ToldInv

LEMMA RemoveKeepsTold ==
    ASSUME ToldInv, NEW p \in Names, Remove(p) PROVE ToldInv'
<1> DEFINE e == Event("remove", <<p>>)
           gone == Origins(queues[p]) \cup NewIn(queues[p], p)
<1>1. Happens /\ disk' = [disk EXCEPT ![p] = "none"] /\ arriving' = arriving
      /\ queues' = [queues EXCEPT ![p] = Removed(queues[p], e)]
      /\ forgotten' = forgotten \cup (gone \cap told)
  BY DEF Remove, Becomes, Forget
<1>2. e \in Events /\ e.kind = "remove" /\ e.paths = <<p>>
  BY <1>1, HappensTyped, EventTyped DEF Kinds
<1> HIDE DEF e
<1>3. queues \in [Names -> Seq(Events)] /\ OfPath(queues[p], p)
  BY DEF ToldInv, QueuesTyped
<1>4. OfPath(Removed(queues[p], e), p) /\ (~WasCreated(queues[p]) => Speaks(Removed(queues[p], e)))
  BY <1>2, <1>3, RemovedOfPath
<1>5. queues'[p] = Removed(queues[p], e) /\ \A x \in Names \ {p} : queues'[x] = queues[x]
  BY <1>1, <1>3
<1>6. QueuesTyped'
  <2>1. Removed(queues[p], e) \in Seq(Events)
    BY <1>4 DEF OfPath
  <2>2. queues' \in [Names -> Seq(Events)]
    BY <1>1, <1>3, <2>1
  <2> QED
    BY <1>4, <1>5, <2>2 DEF ToldInv, QueuesTyped
<1>7. FilesTyped'
  BY <1>1, HappensTyped DEF ToldInv, FilesTyped, Shown
<1>8. HalfWay'
  BY <1>1, HappensTyped DEF HalfWay
<1>9. \A x \in Names : disk'[x] = IF x = p THEN "none" ELSE disk[x]
  BY <1>1 DEF ToldInv, FilesTyped
<1>10. Shown \subseteq Names /\ told \subseteq Names /\ told' = told
  BY <1>1, HappensTyped DEF Shown, ToldInv, FilesTyped
<1>11. SameIsTold'
  BY <1>9, <1>10 DEF ToldInv, SameIsTold
<1>12. ContentsTold'
  BY <1>1, <1>5, <1>9, <1>10 DEF ToldInv, ContentsTold, OnItsWay
<1>13. RemovalTold'
  <2> SUFFICES ASSUME NEW x \in told, x \notin forgotten', disk'[x] = "none"
               PROVE  Speaks(queues'[x]) \/ RenamedFrom(x)'
    BY <1>10 DEF RemovalTold
  <2>1. x \in Names /\ x \notin forgotten /\ x \notin gone
    BY <1>1, <1>10
  <2>2. CASE x = p
    BY <1>4, <1>5, <2>1, <2>2 DEF NewIn
  <2>3. CASE x # p
    <3>1. Speaks(queues[x]) \/ RenamedFrom(x)
      BY <1>9, <2>1, <2>3 DEF ToldInv, RemovalTold
    <3>2. CASE Speaks(queues[x])
      BY <1>5, <2>1, <2>3, <3>2
    <3>3. CASE RenamedFrom(x)
      <4>1. PICK y \in Names : x \in Origins(queues[y])
        BY <3>3 DEF RenamedFrom
      <4>2. y # p
        BY <2>1, <4>1
      <4> QED
        BY <1>5, <4>1, <4>2 DEF RenamedFrom
    <3> QED
      BY <3>1, <3>2, <3>3
  <2> QED
    BY <2>2, <2>3
<1> QED
  BY <1>6, <1>7, <1>8, <1>11, <1>12, <1>13 DEF ToldInv

LEMMA RenameKeepsTold ==
    ASSUME ToldInv, NEW p \in Names, NEW t \in Names, Rename(p, t) PROVE ToldInv'
<1>1. /\ Happens /\ disk[p] # "none" /\ p # t /\ forgotten' = forgotten
      /\ disk' = [disk EXCEPT ![p] = "none", ![t] = "other"]
      /\ Push(p, "from") /\ arriving' = {[first |-> Event("from", <<p>>), to |-> t]}
  BY DEF Rename
<1>0. p # t /\ Happens /\ arriving = {} /\ told' = told
  BY <1>1, HappensTyped
<1>2. \A x \in Names : disk'[x] = IF x = t THEN "other" ELSE IF x = p THEN "none" ELSE disk[x]
  BY <1>1 DEF ToldInv, FilesTyped
<1>3. FilesTyped'
  BY <1>1, HappensTyped DEF ToldInv, FilesTyped
<1>4. /\ QueuesTyped'
      /\ \A x \in Names : Speaks(queues[x]) => Speaks(queues'[x])
      /\ \A x : RenamedFrom(x) => RenamedFrom(x)'
      /\ Speaks(queues'[p])
      /\ queues'[p] # <<>> /\ queues'[p][Len(queues'[p])].kind = "from"
  BY <1>1, PushTells
<1>5. HalfWay'
  <2>1. Event("from", <<p>>) \in Events /\ Event("from", <<p>>).paths = <<p>>
    BY <1>1, HappensTyped, EventTyped DEF Kinds
  <2> DEFINE r == [first |-> Event("from", <<p>>), to |-> t]
  <2>2. r \in arriving' /\ arriving' = {r} /\ r.to = t /\ r.first \in Events /\ r.first.paths = <<p>>
    BY <1>1, <2>1
  <2> HIDE DEF r
  <2>3. disk'[p] = "none" /\ disk'[t] # "none"
    BY <1>0, <1>2
  <2> QED
    BY <1>0, <1>4, <2>2, <2>3 DEF HalfWay
<1>6. Shown \subseteq Names /\ told \subseteq Names /\ told' = told
  BY <1>1, HappensTyped DEF Shown, ToldInv, FilesTyped
<1>7. SameIsTold'
  BY <1>2, <1>6 DEF ToldInv, SameIsTold
<1>8. ContentsTold'
  <2> SUFFICES ASSUME NEW x \in Shown, x \notin forgotten, disk'[x] = "other"
               PROVE  Speaks(queues'[x]) \/ OnItsWay(x)'
    BY <1>1 DEF ContentsTold
  <2>1. CASE x = t
    BY <1>1, <2>1 DEF OnItsWay
  <2>2. CASE x # t
    <3>1. x \in Names /\ disk[x] = "other" /\ arriving = {}
      <4>1. x \in Names /\ x # p
        BY <1>0, <1>2, <1>6, <2>2
      <4> QED
        BY <1>0, <1>2, <2>2, <4>1
    <3>2. Speaks(queues[x])
      BY <3>1 DEF ToldInv, ContentsTold, OnItsWay
    <3> QED
      BY <1>4, <3>1, <3>2
  <2> QED
    BY <2>1, <2>2
<1>9. RemovalTold'
  BY <1>1, <1>2, <1>4, <1>6 DEF ToldInv, RemovalTold
<1> QED
  BY <1>3, <1>4, <1>5, <1>7, <1>8, <1>9 DEF ToldInv

(* The first half, which is the last event of its queue, is taken out.         *)
LEMMA FrontOfPath ==
    ASSUME NEW p, NEW q, OfPath(q, p), q # <<>> => q[Len(q)].kind = "from"
    PROVE  /\ OfPath(Front(q, Len(q) - 1), p)
           /\ Origins(Front(q, Len(q) - 1)) = Origins(q)
<1>1. CASE q = <<>>
  <2>1. Front(q, Len(q) - 1) = <<>>
    <3>1. Len(q) = 0
      BY <1>1
    <3> QED
      BY <1>1, <3>1, SubSeqEmpty DEF Front
  <2> QED
    BY <1>1, <2>1, EmptyOfPath
<1>2. CASE q # <<>>
  <2> DEFINE f == Front(q, Len(q) - 1)
  <2>1. Len(q) \in Nat /\ Len(q) > 0
    BY <1>2, EmptySeq, LenProperties DEF OfPath
  <2>2. /\ OfPath(f, p) /\ Len(f) = Len(q) - 1
        /\ \A i \in 1..Len(f) : f[i] = q[i]
    <3>1. 1 \in 1..(Len(q) + 1) /\ Len(q) - 1 \in 0..Len(q)
      BY <2>1
    <3>2. OfPath(f, p) /\ Len(f) = IF 1 <= Len(q) - 1 THEN Len(q) - 1 - 1 + 1 ELSE 0
      BY <3>1, PartOfPath DEF Front
    <3>3. Len(f) = Len(q) - 1 /\ \A i \in 1..Len(f) : f[i] = q[1 + i - 1]
      <4>1. Len(f) = Len(q) - 1
        BY <2>1, <3>2
      <4> QED
        BY <3>1, <4>1, PartOfPath DEF Front
    <3>4. \A i \in 1..Len(f) : 1 + i - 1 = i
      BY <3>2
    <3> QED
      BY <3>2, <3>3, <3>4
  <2> HIDE DEF f
  <2>3. Renames(f) = {i \in 1..Len(f) : f[i].kind = "both"}
        /\ Renames(q) = {i \in 1..Len(q) : q[i].kind = "both"}
    BY <2>2, RenamesOf
  <2>4. \A i : i \in 1..Len(q) <=> i \in 1..Len(f) \/ i = Len(q)
    BY <2>1, <2>2
  <2>5. Renames(f) = Renames(q)
    BY <1>2, <2>2, <2>3, <2>4
  <2>6. Origins(f) = Origins(q)
    BY <2>2, <2>3, <2>5 DEF Origins
  <2> QED
    BY <2>2, <2>6 DEF f
<1> QED
  BY <1>1, <1>2

(* A rename that arrives tells of its new place; of the old one its queue      *)
(* tells, or the rename does, unless the file is left out.                     *)
LEMMA MovedTells ==
    ASSUME NEW p \in Names, NEW t \in Names, p # t, QueuesTyped, NEW q, OfPath(q, p),
           NEW r, r.to = t, r.first \in Events, r.first.paths = <<p>>,
           queues' = Moved(p, q, r)
    PROVE  /\ QueuesTyped'
           /\ \A x \in Names \ {p, t} : queues'[x] = queues[x]
           /\ Speaks(queues'[t])
           /\ \A x \in Origins(q) : x \notin LeftOut(q, p) => x \in Origins(queues'[t]) \/ x = p
           /\ p \notin LeftOut(q, p) => Speaks(queues'[p]) \/ p \in Origins(queues'[t])
<1> DEFINE w == WithoutRename(q)
           origin == Origin(q, r.first)
           c == Carried(w, t)
           there == Overriding(queues[t], origin, t) \o Joined(c, origin, t)
<1>1. OfPath(w, p) /\ NoRename(w)
  BY WithoutRenameOfPath
<1>2. PICK x \in Names :
         /\ origin \in Events /\ Len(origin.paths) = 1 /\ origin.paths[1] = x
         /\ Renames(q) = {} => x = p /\ Origins(q) = {}
         /\ Renames(q) # {} => Origins(q) = {x}
  BY OriginOfPath
<1>3. OfPath(c, t) /\ NoRename(c)
  BY <1>1, CarriedOfPath
<1>4. OfPath(LeftBehind(w), p) /\ (Begins(w, {"remove", "from"}) => Speaks(LeftBehind(w)))
  BY <1>1, LeftOfPath
<1>5. OfPath(queues[t], t) /\ queues \in [Names -> Seq(Events)]
  BY DEF QueuesTyped
<1>6. queues' = [queues EXCEPT ![p] = LeftBehind(w), ![t] = there]
  BY <1>5 DEF Moved
<1>7. WasCreated(c) <=> WasCreated(Carried(w, p))
  BY <1>1, CarriedCreated
<1> HIDE DEF w, origin, c
<1>8. /\ OfPath(there, t) /\ Speaks(there)
      /\ ~WasCreated(c) => x \in Origins(there)
  BY <1>2, <1>3, <1>5, ArrivedOfPath
<1> HIDE DEF there
<1>9. /\ queues'[p] = LeftBehind(w) /\ queues'[t] = there
      /\ \A y \in Names \ {p, t} : queues'[y] = queues[y]
  BY <1>5, <1>6
<1>10. QueuesTyped'
  <2>1. LeftBehind(w) \in Seq(Events) /\ there \in Seq(Events)
    BY <1>4, <1>8 DEF OfPath
  <2>2. queues' \in [Names -> Seq(Events)]
    BY <1>5, <1>6, <2>1
  <2>3. \A y \in Names : OfPath(queues'[y], y)
    BY <1>4, <1>8, <1>9 DEF QueuesTyped
  <2> QED
    BY <2>2, <2>3 DEF QueuesTyped
<1>11. LeftOut(q, p) = (Origins(q) \cup {p}) \
            ((IF WasCreated(c) THEN {} ELSE IF Origins(q) = {} THEN {p} ELSE Origins(q))
             \cup IF Begins(q, {"remove", "from"}) THEN {p} ELSE {})
  BY <1>7 DEF LeftOut, w
<1>12. Renames(q) # {} => Origins(q) # {}
  BY <1>2
<1>13. ASSUME NEW y \in Origins(q), y \notin LeftOut(q, p), y # p PROVE y \in Origins(there)
  BY <1>2, <1>8, <1>11, <1>13
<1>14. ASSUME p \notin LeftOut(q, p) PROVE Speaks(LeftBehind(w)) \/ p \in Origins(there)
  <2>1. CASE Begins(q, {"remove", "from"})
    <3>1. Renames(q) = {}
      BY <2>1, CreatedHasNoRename, RenamesOf
    <3>2. w = q
      BY <3>1 DEF w, WithoutRename
    <3> QED
      BY <1>4, <2>1, <3>2
  <2>2. CASE ~Begins(q, {"remove", "from"})
    <3>1. ~WasCreated(c) /\ (Origins(q) = {} \/ p \in Origins(q))
      BY <1>11, <1>14, <2>2
    <3>2. x = p
      BY <1>2, <3>1
    <3> QED
      BY <1>8, <3>1, <3>2
  <2> QED
    BY <2>1, <2>2
<1> QED
  BY <1>8, <1>9, <1>10, <1>13, <1>14

LEMMA ArriveKeepsTold ==
    ASSUME ToldInv, Arrive PROVE ToldInv'
<1>0. PICK r \in arriving : \E p \in Range(r.first.paths) :
         /\ arriving' = {}
         /\ queues' = Moved(p, Front(queues[p], Len(queues[p]) - 1), r)
         /\ Forget(Origins(queues[r.to]) \cup LeftOut(Front(queues[p], Len(queues[p]) - 1), p))
         /\ UNCHANGED <<files, told, expired, flush, thread>>
  BY DEF Arrive
<1>1. PICK p \in Range(r.first.paths) :
         /\ arriving' = {}
         /\ queues' = Moved(p, Front(queues[p], Len(queues[p]) - 1), r)
         /\ Forget(Origins(queues[r.to]) \cup LeftOut(Front(queues[p], Len(queues[p]) - 1), p))
         /\ UNCHANGED <<files, told, expired, flush, thread>>
  BY <1>0
<1>2. PICK s, t \in Names :
         /\ arriving = {r} /\ r.to = t /\ r.first \in Events /\ r.first.paths = <<s>> /\ s # t
         /\ disk[s] = "none" /\ disk[t] # "none"
         /\ queues[s] # <<>> => queues[s][Len(queues[s])].kind = "from"
  BY <1>1 DEF ToldInv, HalfWay
<1>3. p = s
  BY <1>1, <1>2 DEF Range
<1> DEFINE q == Front(queues[p], Len(queues[p]) - 1)
           gone == Origins(queues[t]) \cup LeftOut(q, p)
<1>4. OfPath(q, p) /\ Origins(q) = Origins(queues[p])
  BY <1>2, <1>3, FrontOfPath DEF ToldInv, QueuesTyped
<1>5. queues' = Moved(p, q, r) /\ forgotten' = forgotten \cup (gone \cap told)
      /\ disk' = disk /\ now' = now /\ told' = told /\ expired' = expired
  BY <1>1, <1>2 DEF Forget, files
<1> HIDE DEF q
<1>6. /\ QueuesTyped'
      /\ \A x \in Names \ {p, t} : queues'[x] = queues[x]
      /\ Speaks(queues'[t])
      /\ \A x \in Origins(q) : x \notin LeftOut(q, p) => x \in Origins(queues'[t]) \/ x = p
      /\ p \notin LeftOut(q, p) => Speaks(queues'[p]) \/ p \in Origins(queues'[t])
  BY <1>2, <1>3, <1>4, <1>5, MovedTells DEF ToldInv
<1>7. Shown \subseteq Names /\ told \subseteq Names
  BY DEF Shown, ToldInv, FilesTyped
<1>8. FilesTyped'
  BY <1>5, <1>7 DEF ToldInv, FilesTyped
<1>9. HalfWay'
  BY <1>1 DEF HalfWay
<1>10. SameIsTold'
  BY <1>5 DEF ToldInv, SameIsTold
<1>11. ContentsTold'
  <2> SUFFICES ASSUME NEW x \in Shown, x \notin forgotten, disk[x] = "other", x # t
               PROVE  Speaks(queues'[x])
    BY <1>5, <1>6 DEF ContentsTold
  <2>1. x \in Names \ {p, t}
    BY <1>2, <1>3, <1>7
  <2>2. ~OnItsWay(x)
    BY <1>2 DEF OnItsWay
  <2> QED
    BY <1>6, <2>1, <2>2 DEF ToldInv, ContentsTold
<1>12. RemovalTold'
  <2> SUFFICES ASSUME NEW x \in told, x \notin forgotten, x \notin gone, disk[x] = "none"
               PROVE  Speaks(queues'[x]) \/ RenamedFrom(x)'
    BY <1>5 DEF RemovalTold
  <2>1. x \in Names \ {t} /\ t \in Names
    BY <1>2, <1>7
  <2>2. CASE x = p
    BY <1>6, <2>1, <2>2 DEF RenamedFrom
  <2>3. CASE x # p /\ Speaks(queues[x])
    BY <1>6, <2>1, <2>3
  <2>4. CASE x # p /\ RenamedFrom(x)
    <3>1. PICK y \in Names : x \in Origins(queues[y])
      BY <2>4 DEF RenamedFrom
    <3>2. y # t
      BY <3>1
    <3>3. CASE y = p
      BY <1>4, <1>6, <2>1, <2>4, <3>1, <3>3 DEF RenamedFrom
    <3>4. CASE y # p
      BY <1>6, <3>1, <3>2, <3>4 DEF RenamedFrom
    <3> QED
      BY <3>3, <3>4
  <2> QED
    BY <2>2, <2>3, <2>4 DEF ToldInv, RemovalTold
<1> QED
  BY <1>6, <1>8, <1>9, <1>10, <1>11, <1>12 DEF ToldInv

LEMMA OverflowKeepsTold ==
    ASSUME ToldInv, NEW p \in Names, Overflow(p) PROVE ToldInv'
<1>1. PICK contents \in {"none", "other"} : disk' = [disk EXCEPT ![p] = contents]
  BY DEF Overflow
<1>2. Happens /\ forgotten' = forgotten \cup {p} /\ queues' = queues /\ arriving' = arriving
  BY DEF Overflow
<1>3. now' \in Nat /\ expired' \in 0..now' /\ told' = told /\ arriving = {}
  BY <1>2, HappensTyped
<1>4. \A x \in Names : disk'[x] = IF x = p THEN contents ELSE disk[x]
  BY <1>1 DEF ToldInv, FilesTyped
<1>5. Shown \subseteq Names /\ told \subseteq Shown
  BY DEF Shown, ToldInv, FilesTyped
<1>6. FilesTyped'
  BY <1>1, <1>2, <1>3 DEF ToldInv, FilesTyped
<1>7. QueuesTyped' /\ HalfWay'
  BY <1>2, <1>3 DEF ToldInv, QueuesTyped, HalfWay
<1>8. SameIsTold'
  BY <1>1, <1>3, <1>4, <1>5 DEF ToldInv, SameIsTold
<1>9. ContentsTold'
  BY <1>2, <1>4, <1>5 DEF ToldInv, ContentsTold, OnItsWay
<1>10. RemovalTold'
  BY <1>2, <1>3, <1>4, <1>5 DEF ToldInv, RemovalTold, RenamedFrom
<1> QED
  BY <1>6, <1>7, <1>8, <1>9, <1>10 DEF ToldInv

LEMMA ChangesKeepTold == ASSUME ToldInv, Changes PROVE ToldInv'
<1>1. ASSUME NEW p \in Names, Create(p) PROVE ToldInv'
  BY <1>1, PushKeepsTold DEF Create, Becomes
<1>2. ASSUME NEW p \in Names, Modify(p) PROVE ToldInv'
  BY <1>2, PushKeepsTold DEF Modify, Becomes
<1>3. ASSUME NEW p \in Names, Read(p) PROVE ToldInv'
  <2>1. disk[p] \in {"none", "same", "other"} /\ disk' = [disk EXCEPT ![p] = disk[p]]
    BY <1>3 DEF Read, ToldInv, FilesTyped
  <2> QED
    BY <1>3, <2>1, PushKeepsTold DEF Read
<1>4. ASSUME NEW p \in Names, MoveOut(p) PROVE ToldInv'
  BY <1>4, PushKeepsTold DEF MoveOut, Becomes
<1>5. ASSUME NEW p \in Names, MoveIn(p) PROVE ToldInv'
  BY <1>5, PushKeepsTold DEF MoveIn, Becomes
<1> QED
  BY <1>1, <1>2, <1>3, <1>4, <1>5, RemoveKeepsTold, OverflowKeepsTold, RenameKeepsTold, ArriveKeepsTold
     DEF Changes

-----------------------------------------------------------------------------
(* The thread                                                                  *)

(* There is a first event that is too young, or none.                          *)
LEMMA DueInRange ==
    ASSUME NEW p, NEW q, OfPath(q, p), expired' \in Nat PROVE Due(q) \in 0..Len(q)
<1> DEFINE Stops(n) == n < Len(q) => q[n + 1].time > expired'
           T == {n \in 0..Len(q) : Stops(n)}
<1>1. Len(q) \in Nat /\ \A i \in 1..Len(q) : q[i].time \in Nat
  BY DomainOfPath DEF Events
<1>2. T \in SUBSET Nat /\ Len(q) \in T
  BY <1>1
<1> HIDE DEF T
<1>3. PICK n \in T : \A m \in T : n <= m
  BY <1>2, Least
<1>4. n \in 0..Len(q) /\ Stops(n)
  BY <1>3 DEF T
<1>5. \A i \in 1..n : q[i].time <= expired'
  <2> SUFFICES ASSUME NEW i \in 1..n, q[i].time > expired' PROVE FALSE
    BY <1>1, <1>4
  <2>1. i - 1 \in T
    BY <1>1, <1>4 DEF T
  <2> QED
    BY <1>1, <1>3, <1>4, <2>1
<1> QED
  BY <1>4, <1>5 DEF Due

(* Some events of each queue are let go of, the oldest: if one of them is of   *)
(* interest the interface looks at the files, or else nothing was said.        *)
LEMMA ReleaseKeepsTold ==
    ASSUME ToldInv, NEW n \in [Names -> Nat], \A p \in Names : n[p] \in 0..Len(queues[p]),
           NEW released, \A p \in Names : released[p] = Front(queues[p], n[p]),
           queues' = [p \in Names |-> SubSeq(queues[p], n[p] + 1, Len(queues[p]))],
           TellOf(released), UNCHANGED <<now, arriving>>, expired' \in expired..now
    PROVE  ToldInv'
<1>1. \A p \in Names : OfPath(queues[p], p) /\ Len(queues[p]) \in Nat
  BY DomainOfPath DEF ToldInv, QueuesTyped
<1>2. ASSUME NEW p \in Names
      PROVE  /\ OfPath(queues'[p], p) /\ Len(queues'[p]) = Len(queues[p]) - n[p]
             /\ \A i \in 1..Len(queues'[p]) : queues'[p][i] = queues[p][n[p] + i]
             /\ Len(released[p]) = n[p] /\ DOMAIN released[p] = 1..n[p]
             /\ \A i \in 1..n[p] : released[p][i] = queues[p][i]
  <2> DEFINE q == queues[p]
             k == n[p]
  <2>1. OfPath(q, p) /\ k \in 0..Len(q) /\ Len(q) \in Nat
    BY <1>1
  <2>2. queues'[p] = SubSeq(q, k + 1, Len(q)) /\ released[p] = SubSeq(q, 1, k)
    BY DEF Front
  <2> DEFINE m == k + 1
             l == Len(q)
  <2>3. m = k + 1 /\ m \in 1..(Len(q) + 1) /\ l = Len(q) /\ l \in 0..Len(q) /\ 1 \in 1..(Len(q) + 1)
    BY <2>1
  <2> HIDE DEF q, k, m, l
  <2>4. /\ OfPath(SubSeq(q, m, l), p)
        /\ Len(SubSeq(q, m, l)) = IF m <= l THEN l - m + 1 ELSE 0
        /\ \A i \in 1..Len(SubSeq(q, m, l)) : SubSeq(q, m, l)[i] = q[m + i - 1]
    <3>1. OfPath(q, p)
      BY <2>1
    <3>2. m \in 1..(Len(q) + 1)
      BY <2>3
    <3>3. l \in 0..Len(q)
      BY <2>3
    <3> QED
      BY <3>1, <3>2, <3>3, PartOfPath
  <2>5. /\ OfPath(SubSeq(q, 1, k), p)
        /\ Len(SubSeq(q, 1, k)) = IF 1 <= k THEN k - 1 + 1 ELSE 0
        /\ \A i \in 1..Len(SubSeq(q, 1, k)) : SubSeq(q, 1, k)[i] = q[1 + i - 1]
    BY <2>1, <2>3, PartOfPath
  <2>6. Len(SubSeq(q, m, l)) = l - k /\ Len(SubSeq(q, 1, k)) = k
    BY <2>1, <2>3, <2>4, <2>5
  <2>7. \A i \in 1..(l - k) : m + i - 1 = k + i
    BY <2>1, <2>3
  <2>8. \A i \in 1..k : 1 + i - 1 = i
    BY <2>1
  <2>9. DOMAIN SubSeq(q, 1, k) = 1..k
    BY <2>5, <2>6, DomainOfPath
  <2>10. queues'[p] = SubSeq(q, m, l)
    BY <2>2, <2>3
  <2>11. \A i \in 1..(l - k) : SubSeq(q, m, l)[i] = q[k + i]
    BY <2>4, <2>6, <2>7
  <2>12. \A i \in 1..k : SubSeq(q, 1, k)[i] = q[i]
    BY <2>5, <2>6, <2>8
  <2> QED
    BY <2>2, <2>3, <2>4, <2>5, <2>6, <2>9, <2>10, <2>11, <2>12 DEF q, k
<1>3. QueuesTyped'
  <2>1. \A p \in Names : queues'[p] \in Seq(Events)
    BY <1>2 DEF OfPath
  <2> QED
    BY <1>2, <2>1 DEF QueuesTyped
<1>4. Shown \subseteq Names /\ told \subseteq Shown /\ disk \in [Names -> {"none", "same", "other"}]
  BY DEF Shown, ToldInv, FilesTyped
<1>5. now' \in Nat /\ expired' \in 0..now'
  BY DEF ToldInv, FilesTyped
<1>6. ASSUME disk' \in [Names -> {"none", "same", "other"}],
             \A x \in Names : disk'[x] = "none" <=> disk[x] = "none"
      PROVE HalfWay'
  <2> SUFFICES ASSUME arriving # {}
               PROVE  \E p, t \in Names, r \in arriving :
                  /\ arriving = {r} /\ r.to = t /\ r.first \in Events /\ r.first.paths = <<p>> /\ p # t
                  /\ disk'[p] = "none" /\ disk'[t] # "none"
                  /\ queues'[p] # <<>> => queues'[p][Len(queues'[p])].kind = "from"
    BY DEF HalfWay
  <2>1. PICK p, t \in Names, r \in arriving :
        /\ arriving = {r} /\ r.to = t /\ r.first \in Events /\ r.first.paths = <<p>> /\ p # t
        /\ disk[p] = "none" /\ disk[t] # "none"
        /\ queues[p] # <<>> => queues[p][Len(queues[p])].kind = "from"
    BY DEF ToldInv, HalfWay
  <2>2. ASSUME queues'[p] # <<>> PROVE queues'[p][Len(queues'[p])].kind = "from"
    <3>1. Len(queues'[p]) \in Nat /\ Len(queues'[p]) > 0
      BY <1>2, <2>2, EmptySeq, LenProperties DEF OfPath
    <3>2. queues[p] # <<>> /\ n[p] + Len(queues'[p]) = Len(queues[p])
      <4>1. Len(queues[p]) > 0 /\ n[p] + Len(queues'[p]) = Len(queues[p])
        BY <1>1, <1>2, <3>1
      <4> QED
        BY <4>1
    <3>3. Len(queues'[p]) \in 1..Len(queues'[p])
      BY <3>1
    <3>4. queues'[p][Len(queues'[p])] = queues[p][Len(queues[p])]
      <4> DEFINE l == Len(queues'[p])
      <4>1. l \in 1..Len(queues'[p]) /\ n[p] + l = Len(queues[p])
        BY <3>2, <3>3
      <4> HIDE DEF l
      <4>2. queues'[p][l] = queues[p][n[p] + l]
        BY <1>2, <4>1
      <4>3. queues'[p][l] = queues[p][Len(queues[p])]
        BY <4>1, <4>2
      <4> QED
        BY <4>3 DEF l
    <3> QED
      BY <2>1, <3>2, <3>4
  <2> QED
    BY <1>6, <2>1, <2>2
<1>7. CASE Tell
  <2>1. told' = {p \in Shown : disk[p] # "none"} /\ forgotten' = {}
        /\ disk' = [p \in Names |-> IF disk[p] = "other" THEN "same" ELSE disk[p]]
    BY <1>7 DEF Tell
  <2>2. disk' \in [Names -> {"none", "same", "other"}]
        /\ \A x \in Names : (disk'[x] = "none" <=> disk[x] = "none") /\ disk'[x] # "other"
    BY <1>4, <2>1
  <2>3. FilesTyped'
    BY <1>5, <2>1, <2>2 DEF FilesTyped
  <2>4. SameIsTold' /\ ContentsTold'
    BY <1>4, <2>1, <2>2 DEF SameIsTold, ContentsTold
  <2>5. RemovalTold'
    BY <1>4, <2>1, <2>2 DEF RemovalTold
  <2> QED
    BY <1>3, <1>6, <2>2, <2>3, <2>4, <2>5 DEF ToldInv
<1>8. CASE ~Tell
  <2>1. UNCHANGED <<told, disk, forgotten>>
        /\ \A p \in Names : \A e \in Range(released[p]) : ~Tells(e)
    BY <1>8 DEF TellOf
  <2>2. ASSUME NEW p \in Names, NEW i \in 1..n[p] PROVE ~Tells(queues[p][i])
    BY <1>2, <2>1 DEF Range
  <2>3. ASSUME NEW x \in Shown, NEW p \in Names, NEW i \in 1..Len(queues[p]),
               TellsOf(queues[p][i], x)
        PROVE  i - n[p] \in 1..Len(queues'[p]) /\ queues'[p][i - n[p]] = queues[p][i]
    <3>1. Tells(queues[p][i])
      BY <2>3 DEF TellsOf, Tells
    <3>2. i > n[p]
      BY <1>1, <2>2, <3>1
    <3>3. i - n[p] \in 1..Len(queues'[p]) /\ n[p] + (i - n[p]) = i
      BY <1>1, <1>2, <3>2
    <3> QED
      BY <1>2, <3>3
  <2>4. ASSUME NEW x \in Shown, Speaks(queues[x]) PROVE Speaks(queues'[x])
    <3>1. x \in Names /\ OfPath(queues[x], x)
      BY <1>1, <1>4
    <3>2. PICK i \in DOMAIN queues[x] : TellsOf(queues[x][i], x)
      BY <2>4, <3>1, SpeaksOf
    <3>3. i \in 1..Len(queues[x])
      BY <3>1, <3>2, DomainOfPath
    <3> QED
      BY <2>3, <3>1, <3>2, <3>3 DEF Speaks, TellsOf
  <2>5. ASSUME NEW x \in Shown, RenamedFrom(x) PROVE RenamedFrom(x)'
    <3>1. PICK p \in Names : x \in Origins(queues[p])
      BY <2>5 DEF RenamedFrom
    <3>2. PICK i \in Renames(queues[p]) : queues[p][i].paths[1] = x
      BY <3>1 DEF Origins
    <3>3. i \in 1..Len(queues[p]) /\ queues[p][i].kind = "both" /\ queues[p][i] \in Events
      BY <1>1, <3>2, RenamesOf, DomainOfPath
    <3>4. queues[p][i].paths \in Seq(Names) /\ 1 \in 1..Len(queues[p][i].paths)
      <4>1. Len(queues[p][i].paths) = 2
        BY <1>1, <3>3 DEF OfPath
      <4> QED
        BY <3>3, <4>1 DEF Events
    <3>5. TellsOf(queues[p][i], x)
      BY <3>2, <3>3, <3>4, RangeEquality DEF TellsOf
    <3>6. i - n[p] \in 1..Len(queues'[p]) /\ queues'[p][i - n[p]] = queues[p][i]
      BY <2>3, <3>3, <3>5
    <3>7. i - n[p] \in Renames(queues'[p])
      <4>1. Renames(queues'[p]) = {j \in 1..Len(queues'[p]) : queues'[p][j].kind = "both"}
        BY <1>2, RenamesOf
      <4> DEFINE k == i - n[p]
      <4>2. k \in 1..Len(queues'[p]) /\ queues'[p][k].kind = "both"
        BY <3>3, <3>6
      <4> HIDE DEF k
      <4>3. k \in Renames(queues'[p])
        BY <4>1, <4>2
      <4> QED
        BY <4>3 DEF k
    <3>8. x \in Origins(queues'[p])
      BY <3>2, <3>6, <3>7 DEF Origins
    <3> QED
      BY <3>8 DEF RenamedFrom
  <2>6. FilesTyped'
    BY <1>5, <2>1 DEF ToldInv, FilesTyped
  <2>7. HalfWay'
    BY <1>4, <1>6, <2>1
  <2>8. SameIsTold' /\ ContentsTold'
    BY <2>1, <2>4 DEF ToldInv, SameIsTold, ContentsTold, OnItsWay
  <2>9. RemovalTold'
    BY <1>4, <2>1, <2>4, <2>5 DEF ToldInv, RemovalTold
  <2> QED
    BY <1>3, <2>6, <2>7, <2>8, <2>9 DEF ToldInv
<1> QED
  BY <1>7, <1>8

LEMMA TickKeepsTold == ASSUME ToldInv, Tick PROVE ToldInv'
<1>1. UNCHANGED <<now, arriving>> /\ expired' \in expired..now /\ (ReleaseAll \/ ReleaseOld)
  BY DEF Tick
<1>2. \A p \in Names : OfPath(queues[p], p) /\ queues[p] \in Seq(Events) /\ Len(queues[p]) \in Nat
  BY DomainOfPath DEF ToldInv, QueuesTyped, OfPath
<1>3. CASE ReleaseAll
  <2> DEFINE n == [p \in Names |-> Len(queues[p])]
  <2>1. n \in [Names -> Nat] /\ \A p \in Names : n[p] \in 0..Len(queues[p])
    BY <1>2
  <2>2. \A p \in Names : queues[p] = Front(queues[p], n[p])
    BY <1>2, SubSeqFull DEF Front
  <2>3. \A p \in Names : SubSeq(queues[p], n[p] + 1, Len(queues[p])) = <<>>
    <3> SUFFICES ASSUME NEW p \in Names
                 PROVE  SubSeq(queues[p], Len(queues[p]) + 1, Len(queues[p])) = <<>>
      OBVIOUS
    <3>1. Len(queues[p]) \in Int /\ Len(queues[p]) + 1 \in Int /\ Len(queues[p]) < Len(queues[p]) + 1
      BY <1>2
    <3> QED
      BY <3>1, SubSeqEmpty
  <2>4. queues' = [p \in Names |-> SubSeq(queues[p], n[p] + 1, Len(queues[p]))] /\ TellOf(queues)
    BY <1>3, <2>3 DEF ReleaseAll
  <2> HIDE DEF n
  <2> QED
    BY <1>1, <2>1, <2>2, <2>4, ReleaseKeepsTold
<1>4. CASE ReleaseOld
  <2> DEFINE n == [p \in Names |-> Due(queues[p])]
             released == [p \in Names |-> Front(queues[p], Due(queues[p]))]
  <2>1. expired' \in Nat
    BY <1>1 DEF ToldInv, FilesTyped
  <2>2. \A p \in Names : Due(queues[p]) \in 0..Len(queues[p])
    BY <1>2, <2>1, DueInRange
  <2>3. n \in [Names -> Nat] /\ \A p \in Names : n[p] \in 0..Len(queues[p])
    BY <1>2, <2>2
  <2>4. \A p \in Names : released[p] = Front(queues[p], n[p])
    OBVIOUS
  <2>5. queues' = [p \in Names |-> SubSeq(queues[p], n[p] + 1, Len(queues[p]))] /\ TellOf(released)
    BY <1>4 DEF ReleaseOld
  <2> HIDE DEF n, released
  <2> QED
    BY <1>1, <2>3, <2>4, <2>5, ReleaseKeepsTold
<1> QED
  BY <1>1, <1>3, <1>4

LEMMA ToldUnchanged ==
    ASSUME ToldInv, UNCHANGED <<disk, told, now, expired, queues, arriving, forgotten>> PROVE ToldInv'
BY DEF ToldInv, FilesTyped, QueuesTyped, HalfWay, SameIsTold, ContentsTold, RemovalTold, OnItsWay, RenamedFrom

LEMMA InitIsTold == DebouncerInit => ToldInv
<1> SUFFICES ASSUME DebouncerInit PROVE ToldInv
  OBVIOUS
<1>1. PICK F \in SUBSET Names :
         /\ disk = [p \in Names |-> IF p \in F THEN "same" ELSE "none"]
         /\ told = F \ Ignored
  BY DEF DebouncerInit
<1>2. queues = [p \in Names |-> <<>>] /\ now = 0 /\ arriving = {} /\ expired = 0 /\ forgotten = {}
  BY DEF DebouncerInit
<1>3. \A p \in Names : OfPath(queues[p], p) /\ queues[p] \in Seq(Events)
  BY <1>2, EmptyOfPath DEF OfPath
<1>4. \A x \in Names : (disk[x] = "same" <=> x \in F) /\ (disk[x] = "none" <=> x \notin F)
        /\ disk[x] # "other"
  BY <1>1
<1>5. FilesTyped
  BY <1>1, <1>2 DEF FilesTyped, Shown
<1>6. QueuesTyped /\ HalfWay
  BY <1>2, <1>3 DEF QueuesTyped, HalfWay
<1>7. SameIsTold /\ ContentsTold /\ RemovalTold
  BY <1>1, <1>4 DEF SameIsTold, ContentsTold, RemovalTold, Shown
<1> QED
  BY <1>5, <1>6, <1>7 DEF ToldInv

-----------------------------------------------------------------------------
(* The thread counts what is queued, which is a number as there are finitely   *)
(* many files.                                                                 *)
LEMMA CountIsNatural == ASSUME QueuesTyped PROVE Count \in Nat
<1> DEFINE of == [p \in Names |-> {p} \X DOMAIN queues[p]]
           T == {{p} \X DOMAIN queues[p] : p \in Names}
<1>1. of \in Surjection(Names, T)
  BY DEF Surjection
<1>2. IsFiniteSet(T)
  BY <1>1, IgnoredAreNames, FS_Surjection
<1>3. ASSUME NEW p \in Names PROVE IsFiniteSet({p} \X DOMAIN queues[p])
  <2>1. DOMAIN queues[p] = 1..Len(queues[p]) /\ Len(queues[p]) \in Nat
    BY DomainOfPath DEF QueuesTyped
  <2>2. IsFiniteSet(DOMAIN queues[p]) /\ IsFiniteSet({p})
    <3>1. 1 \in Int /\ Len(queues[p]) \in Int
      BY <2>1
    <3>2. IsFiniteSet(1..Len(queues[p]))
      BY <3>1, FS_Interval
    <3> QED
      BY <2>1, <3>2, FS_Singleton
  <2> QED
    BY <2>2, FS_Product
<1>4. \A S \in T : IsFiniteSet(S)
  BY <1>3
<1> HIDE DEF T
<1>5. IsFiniteSet(UNION T)
  BY <1>2, <1>4, FS_UNION
<1> QED
  BY <1>5, FS_CardinalityType DEF Count, T

ThreadTyped ==
    flush \in BOOLEAN /\ asked \in BOOLEAN /\ sleeping \in BOOLEAN /\ previous \in Nat
DebouncerInv == ToldInv /\ Counted /\ ThreadTyped

LEMMA DebouncerInvInit == DebouncerInit => DebouncerInv
<1>1. DebouncerInit => Counted
  BY FlushAfterIsPositive DEF DebouncerInit, Counted
<1>2. DebouncerInit => ThreadTyped
  <2>1. DebouncerInit => flush = FALSE /\ asked = FALSE /\ sleeping = FALSE /\ previous = 0
    BY DEF DebouncerInit
  <2>2. 0 \in Nat
    OBVIOUS
  <2> QED
    BY <2>1, <2>2, Zenon DEF ThreadTyped
<1> QED
  BY <1>1, <1>2, InitIsTold DEF DebouncerInv

LEMMA DebouncerInvStep ==
    ASSUME DebouncerInv, [DebouncerNext]_debouncerVars PROVE DebouncerInv'
<1> USE DEF DebouncerInv
<1>1. CASE Changes
  <2>1. UNCHANGED <<flush, thread>>
    <3>1. ASSUME Happens PROVE UNCHANGED <<flush, thread>>
      BY <3>1 DEF Happens
    <3> QED
      BY <1>1, <3>1 DEF Changes, Create, Modify, Read, Remove, MoveOut, MoveIn, Overflow, Rename, Arrive
  <2>2. ThreadTyped'
    BY <2>1 DEF ThreadTyped, thread
  <2> QED
    BY <1>1, <2>2, ChangesKeepTold, ChangesCounted
<1>2. CASE RequestFlush
  <2>1. ToldInv'
    BY <1>2, ToldUnchanged DEF RequestFlush, files
  <2>2. Counted' /\ ThreadTyped'
    BY <1>2, UnchangedCounted DEF RequestFlush, thread, ThreadTyped
  <2> QED
    BY <2>1, <2>2
<1>3. CASE Sleep
  <2>1. ToldInv'
    BY <1>3, ToldUnchanged DEF Sleep, files
  <2>2. Counted' /\ ThreadTyped'
    BY <1>3, UnchangedCounted DEF Sleep, ThreadTyped
  <2> QED
    BY <2>1, <2>2
<1>4. CASE Tick
  <2>1. Count \in Nat
    BY CountIsNatural DEF ToldInv
  <2>2. sleeping' = FALSE /\ asked' = asked /\ previous' \in {0, Count} /\ flush' \in {FALSE, flush}
    BY <1>4 DEF Tick, ReleaseAll, ReleaseOld
  <2>3. ThreadTyped'
    <3>1. previous' \in Nat
      BY <2>1, <2>2
    <3>2. flush' \in BOOLEAN /\ asked' \in BOOLEAN /\ sleeping' \in BOOLEAN
      BY <2>2, Zenon DEF ThreadTyped
    <3> QED
      BY <3>1, <3>2 DEF ThreadTyped
  <2> QED
    BY <1>4, <2>3, TickKeepsTold, TickCounted
<1>5. CASE UNCHANGED debouncerVars
  <2>1. ToldInv'
    BY <1>5, ToldUnchanged DEF debouncerVars, files
  <2>2. Counted' /\ ThreadTyped'
    BY <1>5, UnchangedCounted DEF debouncerVars, thread, ThreadTyped
  <2> QED
    BY <2>1, <2>2
<1> QED
  BY <1>1, <1>2, <1>3, <1>4, <1>5 DEF DebouncerNext

LEMMA DebouncerInvHolds == DebouncerSpec => []DebouncerInv
BY DebouncerInvInit, DebouncerInvStep, PTL DEF DebouncerSpec

(* Of every file that is not as it was last shown a queue still holds what is  *)
(* of interest, or the second half of its rename is on its way, and that is    *)
(* let go of in time; but of the files in forgotten: those are exactly the     *)
(* cases in which the queues forget.                                           *)
THEOREM AllIsTold == DebouncerSpec => []ToldInTime
<1>1. DebouncerInv => ToldInTime
  BY ToldIsKept, CountedInTime DEF DebouncerInv, ToldInTime
<1> QED
  BY <1>1, DebouncerInvHolds, PTL

(* The parts have their types, and a queue holds at most one rename, to its    *)
(* own path.                                                                   *)
THEOREM DebouncerTypeCorrect == DebouncerSpec => []DebouncerTypeOK
<1>1. ASSUME DebouncerInv PROVE DebouncerTypeOK
  <2> USE DEF DebouncerInv
  <2>1. ASSUME NEW p \in Names, NEW i \in DOMAIN queues[p], NEW j \in DOMAIN queues[p]
        PROVE  LET e == queues[p][i] IN
               /\ e.kind = "both" => Len(e.paths) = 2 /\ e.paths[2] = p
               /\ e.kind # "both" => e.paths = <<p>>
               /\ e.kind = "both" /\ queues[p][j].kind = "both" => i = j
    <3>1. OfPath(queues[p], p) /\ DOMAIN queues[p] = 1..Len(queues[p]) /\ Len(queues[p]) \in Nat
      BY <1>1, DomainOfPath DEF ToldInv, QueuesTyped
    <3>2. ASSUME queues[p][i].kind = "both", queues[p][j].kind = "both" PROVE i = j
      <4>1. ~(i < j) /\ ~(j < i)
        BY <3>1, <3>2 DEF OfPath
      <4> QED
        BY <3>1, <4>1
    <3> QED
      BY <3>1, <3>2 DEF OfPath
  <2>2. idle \in 0..FlushAfter /\ quiet \in Nat
    BY <1>1, FlushAfterIsPositive DEF Counted
  <2>3. ThreadTyped
    BY <1>1
  <2>4. flush \in BOOLEAN /\ asked \in BOOLEAN /\ sleeping \in BOOLEAN
    BY <2>3 DEF ThreadTyped
  <2>5. previous \in Nat /\ FilesTyped /\ QueuesTyped
    BY <1>1 DEF ThreadTyped, ToldInv
  <2> QED
    BY <2>1, <2>2, <2>4, <2>5 DEF DebouncerTypeOK, FilesTyped, QueuesTyped
<1> QED
  BY <1>1, DebouncerInvHolds, PTL

(* What was queued is let go of at the latest at the tick that follows on      *)
(* FlushAfter ticks without an event.                                          *)
THEOREM ReleasedInTime == DebouncerSpec => []InTime
<1>1. DebouncerInv => InTime
  BY CountedInTime DEF DebouncerInv
<1> QED
  BY <1>1, DebouncerInvHolds, PTL

-----------------------------------------------------------------------------
(* The two together                                                            *)

(* What goes on in one of the two is what it does by itself.                   *)
THEOREM EachByItself == WorktreeSpec => RestoreSpec /\ DebouncerSpec
<1>1. WorktreeInit => RestoreInit /\ DebouncerInit
  BY DEF WorktreeInit
<1>2. [WorktreeNext]_<<focus, restoreVars, debouncerVars>> =>
        [RestoreNext]_restoreVars /\ [DebouncerNext]_debouncerVars
  BY DEF WorktreeNext
<1> QED
  BY <1>1, <1>2, PTL DEF WorktreeSpec, RestoreSpec, DebouncerSpec

(* All parts of the two have their types.                                      *)
THEOREM WorktreeTypeCorrect == WorktreeSpec => []WorktreeTypeOK
BY EachByItself, TypeCorrect, DebouncerTypeCorrect, PTL DEF WorktreeTypeOK
==============================================================================
