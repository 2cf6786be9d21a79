----------------------------- MODULE Oplog_proof -----------------------------
(* Proofs about Oplog, for any number of clients, entries and states.  The    *)
(* searches of the log, the peeling of a restore and the replay are           *)
(* recursive functions over the log.  Of each it is shown, by induction, that *)
(* it exists and what it becomes when an entry is appended; the rest of the   *)
(* proofs uses only that.                                                     *)
EXTENDS Oplog, SequenceTheorems, Induction, TLAPS

-----------------------------------------------------------------------------
(* The searches                                                               *)

ScanBody(f, l, kind, i) ==
    [skip \in Nat |-> IF i = 0 THEN 0
                      ELSE IF l[i].kind = kind THEN f[i - 1][skip + 1]
                      ELSE IF skip = 0 THEN i
                      ELSE f[i - 1][skip - 1]]
IsScan(f, l, kind, n) == f = [i \in 0..n |-> ScanBody(f, l, kind, i)]

LEMMA ScanExists ==
    ASSUME NEW l, NEW kind, NEW n \in Nat
    PROVE  \E f : IsScan(f, l, kind, n)
<1> DEFINE S == {m \in Nat : \E f : IsScan(f, l, kind, m)}
<1>1. 0 \in S
  <2> DEFINE f == [i \in 0..0 |-> [skip \in Nat |-> 0]]
  <2>1. \A i \in 0..0 : ScanBody(f, l, kind, i) = [skip \in Nat |-> 0]
    BY DEF ScanBody
  <2>2. IsScan(f, l, kind, 0)
    BY <2>1 DEF IsScan
  <2> QED
    BY <2>2
<1>2. ASSUME NEW m \in Nat, m \in S PROVE m + 1 \in S
  <2>1. PICK f : IsScan(f, l, kind, m)
    BY <1>2
  <2> DEFINE g == [i \in 0..(m + 1) |-> IF i <= m THEN f[i] ELSE ScanBody(f, l, kind, i)]
  <2>2. \A i \in 0..(m + 1) : ScanBody(g, l, kind, i) = ScanBody(f, l, kind, i)
    <3> TAKE i \in 0..(m + 1)
    <3>1. CASE i = 0
      BY <3>1 DEF ScanBody
    <3>2. CASE i # 0
      <4>1. g[i - 1] = f[i - 1]
        BY <3>2
      <4> HIDE DEF g
      <4> QED
        BY <4>1, <3>2 DEF ScanBody
    <3> QED
      BY <3>1, <3>2
  <2>3. \A i \in 0..(m + 1) : g[i] = ScanBody(f, l, kind, i)
    <3> TAKE i \in 0..(m + 1)
    <3>1. CASE i <= m
      <4>1. i \in 0..m
        BY <3>1
      <4>2. f[i] = ScanBody(f, l, kind, i)
        BY <4>1, <2>1 DEF IsScan
      <4> QED
        BY <4>2, <3>1
    <3> QED
      BY <3>1
  <2>4. g = [i \in 0..(m + 1) |-> ScanBody(g, l, kind, i)]
    BY <2>2, <2>3
  <2> HIDE DEF g
  <2>5. IsScan(g, l, kind, m + 1)
    BY <2>4 DEF IsScan
  <2> QED
    BY <2>5
<1> HIDE DEF S
<1>3. n \in S
  BY <1>1, <1>2, Inductive
<1> QED
  BY <1>3 DEF S

LEMMA ScanEquation ==
    ASSUME NEW l, NEW kind, Len(l) \in Nat
    PROVE  IsScan(Scan(l, kind), l, kind, Len(l))
<1>1. PICK f : IsScan(f, l, kind, Len(l))
  BY ScanExists
<1> QED
  BY <1>1 DEF IsScan, Scan, ScanBody

LEMMA ScanStart ==
    ASSUME NEW l, NEW kind, Len(l) \in Nat, NEW k \in Nat
    PROVE  Scan(l, kind)[0][k] = 0
<1>1. Scan(l, kind)[0] = ScanBody(Scan(l, kind), l, kind, 0)
  BY ScanEquation DEF IsScan
<1> QED
  BY <1>1 DEF ScanBody

(* What a search finds from the entry after the first n on.                   *)
ScanNext(f, l, kind, n, k) ==
    IF l[n + 1].kind = kind THEN f[n][k + 1] ELSE IF k = 0 THEN n + 1 ELSE f[n][k - 1]

LEMMA ScanStep ==
    ASSUME NEW l, NEW kind, Len(l) \in Nat, NEW n \in Nat, n < Len(l), NEW k \in Nat
    PROVE  Scan(l, kind)[n + 1][k] = ScanNext(Scan(l, kind), l, kind, n, k)
<1>1. n + 1 \in 0..Len(l) /\ n + 1 # 0 /\ (n + 1) - 1 = n
  OBVIOUS
<1>2. Scan(l, kind)[n + 1] = ScanBody(Scan(l, kind), l, kind, n + 1)
  BY <1>1, ScanEquation DEF IsScan
<1> QED
  BY <1>1, <1>2 DEF ScanBody, ScanNext

LEMMA ScanRange ==
    ASSUME NEW l, NEW kind, Len(l) \in Nat
    PROVE  \A i \in 0..Len(l), k \in Nat : Scan(l, kind)[i][k] \in 0..i
<1> DEFINE S == {n \in Nat : n <= Len(l) => \A k \in Nat : Scan(l, kind)[n][k] \in 0..n}
<1>1. 0 \in S
  BY ScanStart
<1>2. ASSUME NEW n \in Nat, n \in S PROVE n + 1 \in S
  <2> SUFFICES ASSUME n + 1 <= Len(l), NEW k \in Nat PROVE Scan(l, kind)[n + 1][k] \in 0..(n + 1)
    OBVIOUS
  <2>1. \A j \in Nat : Scan(l, kind)[n][j] \in 0..n
    BY <1>2
  <2>2. Scan(l, kind)[n + 1][k] = ScanNext(Scan(l, kind), l, kind, n, k)
    BY ScanStep, n < Len(l)
  <2>3. k + 1 \in Nat /\ (k # 0 => k - 1 \in Nat)
    OBVIOUS
  <2> QED
    BY <2>1, <2>2, <2>3 DEF ScanNext
<1> HIDE DEF S
<1>3. Nat \subseteq S
  BY <1>1, <1>2, Inductive
<1> QED
  BY <1>3 DEF S

(* What is appended does not change the search of what was there.             *)
LEMMA ScanOfAppend ==
    ASSUME NEW T, NEW l \in Seq(T), NEW e \in T, NEW kind
    PROVE  \A i \in 0..Len(l), k \in Nat : Scan(Append(l, e), kind)[i][k] = Scan(l, kind)[i][k]
<1> DEFINE m == Append(l, e)
           S == {n \in Nat : n <= Len(l) => \A k \in Nat : Scan(m, kind)[n][k] = Scan(l, kind)[n][k]}
<1>1. Len(m) = Len(l) + 1 /\ Len(l) \in Nat /\ \A i \in 1..Len(l) : m[i] = l[i]
  OBVIOUS
<1> HIDE DEF m
<1>2. 0 \in S
  BY <1>1, ScanStart
<1>3. ASSUME NEW n \in Nat, n \in S PROVE n + 1 \in S
  <2> SUFFICES ASSUME n + 1 <= Len(l), NEW k \in Nat
               PROVE  Scan(m, kind)[n + 1][k] = Scan(l, kind)[n + 1][k]
    OBVIOUS
  <2>1. \A j \in Nat : Scan(m, kind)[n][j] = Scan(l, kind)[n][j]
    BY <1>3
  <2>2. n < Len(l) /\ n < Len(m) /\ Len(m) \in Nat /\ m[n + 1] = l[n + 1]
    BY <1>1
  <2>3. Scan(l, kind)[n + 1][k] = ScanNext(Scan(l, kind), l, kind, n, k)
    BY ScanStep, <2>2, <1>1
  <2>4. Scan(m, kind)[n + 1][k] = ScanNext(Scan(m, kind), m, kind, n, k)
    BY ScanStep, <2>2
  <2>5. ScanNext(Scan(m, kind), m, kind, n, k) = ScanNext(Scan(l, kind), l, kind, n, k)
    <3>1. k + 1 \in Nat /\ (k # 0 => k - 1 \in Nat)
      OBVIOUS
    <3> QED
      BY <2>1, <2>2, <3>1 DEF ScanNext
  <2> QED
    BY <2>3, <2>4, <2>5
<1> HIDE DEF S
<1>4. Nat \subseteq S
  BY <1>2, <1>3, Inductive
<1>5. \A i \in 0..Len(l), k \in Nat : Scan(m, kind)[i][k] = Scan(l, kind)[i][k]
  BY <1>1, <1>4 DEF S
<1> QED
  BY <1>5 DEF m

(* The entry that is found when this many have been skipped: the target of    *)
(* the next undo or redo, of the one after it, and so on.                     *)
Target(l, kind, skip) == Scan(l, kind)[Len(l)][skip]

LEMMA TargetRange ==
    ASSUME NEW l, NEW kind, Len(l) \in Nat, NEW k \in Nat
    PROVE  Target(l, kind, k) \in 0..Len(l)
BY ScanRange DEF Target

LEMMA TargetOfNone ==
    ASSUME NEW kind, NEW k \in Nat PROVE Target(<<>>, kind, k) = 0
<1>1. Len(<<>>) = 0
  OBVIOUS
<1> QED
  BY <1>1, TargetRange

(* An entry of the kind uncovers the next target; any other entry becomes the *)
(* target, before the others.                                                 *)
LEMMA TargetOfAppend ==
    ASSUME NEW T, NEW l \in Seq(T), NEW e \in T, NEW kind, NEW k \in Nat
    PROVE  Target(Append(l, e), kind, k) = IF e.kind = kind THEN Target(l, kind, k + 1)
                                           ELSE IF k = 0 THEN Len(l) + 1
                                           ELSE Target(l, kind, k - 1)
<1> DEFINE m == Append(l, e)  n == Len(l)
<1>1. Len(m) = n + 1 /\ n \in Nat /\ m[n + 1] = e
  OBVIOUS
<1>2. \A j \in Nat : Scan(m, kind)[n][j] = Scan(l, kind)[n][j]
  BY ScanOfAppend, <1>1, n \in 0..n
<1> HIDE DEF m, n
<1>3. Scan(m, kind)[n + 1][k] = ScanNext(Scan(m, kind), m, kind, n, k)
  BY ScanStep, <1>1, n < Len(m), Len(m) \in Nat
<1>4. k + 1 \in Nat /\ (k # 0 => k - 1 \in Nat)
  OBVIOUS
<1>5. Target(m, kind, k) = Scan(m, kind)[n + 1][k]
  BY <1>1 DEF Target
<1>6. Target(m, kind, k) = IF e.kind = kind THEN Scan(l, kind)[n][k + 1]
                           ELSE IF k = 0 THEN n + 1 ELSE Scan(l, kind)[n][k - 1]
  BY <1>1, <1>2, <1>3, <1>4, <1>5 DEF ScanNext
<1> QED
  BY <1>6 DEF m, n, Target

-----------------------------------------------------------------------------
(* Peeling a restore                                                          *)

(* A restore names an older entry, as LogTypeOK says of the log.              *)
Descends(l) == \A i \in 1..Len(l) : l[i].kind \in RestoreKind => l[i].from \in 1..(i - 1)
Kinds(l) == \A i \in 1..Len(l) : l[i].kind \in {"op"} \cup RestoreKind

IsPeel(f, l, n) == f = [i \in 1..n |-> IF l[i].kind = "op" THEN i ELSE f[l[i].from]]

LEMMA PeelExists ==
    ASSUME NEW l, Len(l) \in Nat, Descends(l), Kinds(l)
    PROVE  \E f : IsPeel(f, l, Len(l))
<1> DEFINE S == {n \in Nat : n <= Len(l) => \E f : IsPeel(f, l, n)}
<1>1. 0 \in S
  <2> DEFINE f == [i \in 1..0 |-> 0]
  <2>1. f = [i \in 1..0 |-> IF l[i].kind = "op" THEN i ELSE f[l[i].from]]
    OBVIOUS
  <2> HIDE DEF f
  <2>2. IsPeel(f, l, 0)
    BY <2>1 DEF IsPeel
  <2> QED
    BY <2>2
<1>2. ASSUME NEW n \in Nat, n \in S PROVE n + 1 \in S
  <2> SUFFICES ASSUME n + 1 <= Len(l) PROVE \E f : IsPeel(f, l, n + 1)
    OBVIOUS
  <2>1. PICK f : IsPeel(f, l, n)
    BY <1>2
  <2> DEFINE Body(h, i) == IF l[i].kind = "op" THEN i ELSE h[l[i].from]
             g == [i \in 1..(n + 1) |-> IF i <= n THEN f[i] ELSE Body(f, i)]
  <2>2. \A i \in 1..(n + 1) : l[i].kind # "op" => l[i].from \in 1..n /\ l[i].from < i
    BY DEF Descends, Kinds, RestoreKind
  <2>3. \A i \in 1..(n + 1) : Body(g, i) = Body(f, i)
    BY <2>2
  <2>4. \A i \in 1..n : f[i] = Body(f, i)
    BY <2>1 DEF IsPeel
  <2>5. \A i \in 1..(n + 1) : g[i] = Body(f, i)
    BY <2>4
  <2>6. g = [i \in 1..(n + 1) |-> Body(g, i)]
    BY <2>3, <2>5
  <2> HIDE DEF g
  <2>7. IsPeel(g, l, n + 1)
    BY <2>6 DEF IsPeel
  <2> QED
    BY <2>7
<1> HIDE DEF S
<1>3. Nat \subseteq S
  BY <1>1, <1>2, Inductive
<1> QED
  BY <1>3 DEF S

LEMMA PeelStep ==
    ASSUME NEW l, Len(l) \in Nat, Descends(l), Kinds(l), NEW i \in 1..Len(l)
    PROVE  Peel(l, i) = IF l[i].kind = "op" THEN i ELSE Peel(l, l[i].from)
<1> DEFINE p == CHOOSE f : IsPeel(f, l, Len(l))
<1>1. IsPeel(p, l, Len(l))
  BY PeelExists
<1>2. \A j : Peel(l, j) = p[j]
  BY DEF Peel, IsPeel
<1> HIDE DEF p
<1>3. p[i] = IF l[i].kind = "op" THEN i ELSE p[l[i].from]
  BY <1>1 DEF IsPeel
<1> QED
  BY <1>2, <1>3

LEMMA PeelRange ==
    ASSUME NEW l, Len(l) \in Nat, Descends(l), Kinds(l), NEW i \in 1..Len(l)
    PROVE  Peel(l, i) \in 1..i
<1> DEFINE S == {n \in 1..Len(l) : Peel(l, n) \notin 1..n}
<1>1. CASE S = {}
  BY <1>1
<1>2. CASE S # {}
  <2>1. PICK n \in S : \A k \in S : n <= k
    BY <1>2, Least, S \in SUBSET Nat
  <2>2. n \in 1..Len(l) /\ Peel(l, n) \notin 1..n
    OBVIOUS
  <2>3. Peel(l, n) = IF l[n].kind = "op" THEN n ELSE Peel(l, l[n].from)
    BY <2>2, PeelStep
  <2>4. l[n].kind # "op"
    BY <2>2, <2>3
  <2>5. l[n].from \in 1..(n - 1)
    BY <2>2, <2>4 DEF Descends, Kinds
  <2>6. l[n].from \notin S
    BY <2>1, <2>5
  <2>7. Peel(l, l[n].from) \in 1..l[n].from
    BY <2>2, <2>5, <2>6
  <2> QED
    BY <2>2, <2>3, <2>4, <2>5, <2>7
<1> QED
  BY <1>1, <1>2

LEMMA PeelOfAppend ==
    ASSUME NEW T, NEW l \in Seq(T), NEW e \in T, Descends(Append(l, e)), Kinds(Append(l, e)),
           NEW i \in 1..Len(l)
    PROVE  Peel(Append(l, e), i) = Peel(l, i)
<1> DEFINE m == Append(l, e)
           S == {n \in 1..Len(l) : Peel(m, n) # Peel(l, n)}
<1>1. Len(m) = Len(l) + 1 /\ Len(l) \in Nat /\ \A n \in 1..Len(l) : m[n] = l[n]
  OBVIOUS
<1>2. Descends(m) /\ Kinds(m) /\ Len(m) \in Nat
  BY <1>1
<1> HIDE DEF m
<1>3. Descends(l) /\ Kinds(l)
  BY <1>1, <1>2 DEF Descends, Kinds
<1>4. CASE S = {}
  BY <1>4 DEF m
<1>5. CASE S # {}
  <2>1. PICK n \in S : \A k \in S : n <= k
    BY <1>1, <1>5, Least, S \in SUBSET Nat
  <2>2. n \in 1..Len(l) /\ n \in 1..Len(m) /\ Peel(m, n) # Peel(l, n) /\ m[n] = l[n]
    BY <1>1
  <2>3. Peel(l, n) = IF l[n].kind = "op" THEN n ELSE Peel(l, l[n].from)
    BY <1>1, <1>3, <2>2, PeelStep
  <2>4. Peel(m, n) = IF m[n].kind = "op" THEN n ELSE Peel(m, m[n].from)
    BY <1>2, <2>2, PeelStep
  <2>5. l[n].kind # "op"
    BY <2>2, <2>3, <2>4
  <2>6. l[n].from \in 1..(n - 1)
    BY <1>3, <2>2, <2>5 DEF Descends, Kinds
  <2>7. l[n].from \notin S
    BY <2>1, <2>6
  <2>8. Peel(m, l[n].from) = Peel(l, l[n].from)
    BY <2>2, <2>6, <2>7, <1>1
  <2> QED
    BY <2>2, <2>3, <2>4, <2>5, <2>8
<1> QED
  BY <1>4, <1>5

-----------------------------------------------------------------------------
(* The replay                                                                 *)

EmptyStacks == [undo |-> <<>>, redo |-> <<>>]
ReplayBody(f, l, i) == IF i = 0 THEN EmptyStacks ELSE Replayed(f[i - 1], l, i)
IsReplay(f, l, n) == f = [i \in 0..n |-> ReplayBody(f, l, i)]

LEMMA ReplayExists ==
    ASSUME NEW l, NEW n \in Nat
    PROVE  \E f : IsReplay(f, l, n)
<1> DEFINE S == {m \in Nat : \E f : IsReplay(f, l, m)}
<1>1. 0 \in S
  <2> DEFINE f == [i \in 0..0 |-> EmptyStacks]
  <2>1. \A i \in 0..0 : ReplayBody(f, l, i) = EmptyStacks
    BY DEF ReplayBody
  <2>2. IsReplay(f, l, 0)
    BY <2>1 DEF IsReplay
  <2> QED
    BY <2>2
<1>2. ASSUME NEW m \in Nat, m \in S PROVE m + 1 \in S
  <2>1. PICK f : IsReplay(f, l, m)
    BY <1>2
  <2> DEFINE g == [i \in 0..(m + 1) |-> IF i <= m THEN f[i] ELSE ReplayBody(f, l, i)]
  <2>2. \A i \in 0..(m + 1) : ReplayBody(g, l, i) = ReplayBody(f, l, i)
    <3> TAKE i \in 0..(m + 1)
    <3>1. CASE i = 0
      BY <3>1 DEF ReplayBody
    <3>2. CASE i # 0
      <4>1. g[i - 1] = f[i - 1]
        BY <3>2
      <4> HIDE DEF g
      <4> QED
        BY <4>1, <3>2 DEF ReplayBody
    <3> QED
      BY <3>1, <3>2
  <2>3. \A i \in 0..m : f[i] = ReplayBody(f, l, i)
    BY <2>1 DEF IsReplay
  <2>4. \A i \in 0..(m + 1) : g[i] = ReplayBody(f, l, i)
    BY <2>3
  <2>5. g = [i \in 0..(m + 1) |-> ReplayBody(g, l, i)]
    BY <2>2, <2>4
  <2> HIDE DEF g
  <2>6. IsReplay(g, l, m + 1)
    BY <2>5 DEF IsReplay
  <2> QED
    BY <2>6
<1> HIDE DEF S
<1>3. n \in S
  BY <1>1, <1>2, Inductive
<1> QED
  BY <1>3 DEF S

Replay(l) == CHOOSE f : IsReplay(f, l, Len(l))

LEMMA ReplayEquation ==
    ASSUME NEW l, Len(l) \in Nat
    PROVE  IsReplay(Replay(l), l, Len(l)) /\ StacksOf(l) = Replay(l)[Len(l)]
<1>1. IsReplay(Replay(l), l, Len(l))
  BY ReplayExists DEF Replay
<1>2. StacksOf(l) = Replay(l)[Len(l)]
  BY DEF StacksOf, Replay, IsReplay, ReplayBody, EmptyStacks
<1> QED
  BY <1>1, <1>2

LEMMA StacksOfNone == StacksOf(<<>>) = EmptyStacks
<1>1. Len(<<>>) = 0
  OBVIOUS
<1>2. IsReplay(Replay(<<>>), <<>>, 0) /\ StacksOf(<<>>) = Replay(<<>>)[0]
  BY <1>1, ReplayEquation
<1> QED
  BY <1>2 DEF IsReplay, ReplayBody

(* The replay of an entry depends on it and on what its peeling gives.        *)
LEMMA ReplayedCongruence ==
    ASSUME NEW before, NEW l, NEW m, NEW i, l[i] = m[i], Peel(l, i) = Peel(m, i)
    PROVE  Replayed(before, l, i) = Replayed(before, m, i)
BY DEF Replayed

LEMMA StacksOfAppend ==
    ASSUME NEW T, NEW l \in Seq(T), NEW e \in T, Descends(Append(l, e)), Kinds(Append(l, e))
    PROVE  StacksOf(Append(l, e)) = Replayed(StacksOf(l), Append(l, e), Len(l) + 1)
<1> DEFINE m == Append(l, e)
           f == Replay(l)
           g == Replay(m)
           S == {n \in Nat : n <= Len(l) => g[n] = f[n]}
<1>1. Len(m) = Len(l) + 1 /\ Len(l) \in Nat /\ \A i \in 1..Len(l) : m[i] = l[i]
  OBVIOUS
<1>2. \A i \in 1..Len(l) : Peel(m, i) = Peel(l, i)
  BY PeelOfAppend
<1>3. IsReplay(f, l, Len(l)) /\ StacksOf(l) = f[Len(l)]
  BY <1>1, ReplayEquation
<1>4. IsReplay(g, m, Len(l) + 1) /\ StacksOf(m) = g[Len(l) + 1]
  <2>1. Len(m) \in Nat /\ Len(m) = Len(l) + 1
    BY <1>1
  <2> HIDE DEF m
  <2>2. IsReplay(g, m, Len(m)) /\ StacksOf(m) = g[Len(m)]
    BY <2>1, ReplayEquation
  <2> QED
    BY <2>1, <2>2
<1> HIDE DEF m, f, g
<1>5. 0 \in S
  BY <1>1, <1>3, <1>4 DEF IsReplay, ReplayBody
<1>6. ASSUME NEW n \in Nat, n \in S PROVE n + 1 \in S
  <2> SUFFICES ASSUME n + 1 <= Len(l) PROVE g[n + 1] = f[n + 1]
    OBVIOUS
  <2>1. n + 1 \in 1..Len(l) /\ n + 1 \in 0..Len(l) /\ n + 1 \in 0..(Len(l) + 1) /\ n + 1 # 0 /\ (n + 1) - 1 = n
    BY <1>1
  <2>2. f[n + 1] = Replayed(f[n], l, n + 1)
    BY <1>3, <2>1 DEF IsReplay, ReplayBody
  <2>3. g[n + 1] = Replayed(g[n], m, n + 1)
    BY <1>4, <2>1 DEF IsReplay, ReplayBody
  <2>4. g[n] = f[n]
    BY <1>6, <2>1
  <2>5. Replayed(f[n], m, n + 1) = Replayed(f[n], l, n + 1)
    BY <1>1, <1>2, <2>1, ReplayedCongruence
  <2> QED
    BY <2>2, <2>3, <2>4, <2>5
<1> HIDE DEF S
<1>7. Nat \subseteq S
  BY <1>5, <1>6, Inductive
<1>8. g[Len(l)] = f[Len(l)]
  BY <1>1, <1>7 DEF S
<1>9. g[Len(l) + 1] = Replayed(g[Len(l)], m, Len(l) + 1)
  BY <1>1, <1>4, Len(l) + 1 \in 0..(Len(l) + 1), Len(l) + 1 # 0, (Len(l) + 1) - 1 = Len(l) DEF IsReplay, ReplayBody
<1>10. StacksOf(m) = Replayed(StacksOf(l), m, Len(l) + 1)
  BY <1>3, <1>4, <1>8, <1>9
<1> QED
  BY <1>10 DEF m

-----------------------------------------------------------------------------
(* The stacks and the log                                                     *)

LogEntry == [kind : {"op"} \cup RestoreKind, state : 0..MaxState, from : 0..MaxLog]
StackEntry == [state : 0..MaxState, op : 1..MaxLog]
EntryAt(l, i) == [state |-> l[i].state, op |-> Peel(l, i)]

(* The stacks hold, from their tops down, what the searches of the log find   *)
(* when nothing, one, two, ... are skipped; below the redo stack there is     *)
(* nothing that was undone.                                                   *)
UndoLinked(u, l) ==
    /\ u \in Seq(StackEntry)
    /\ \A k \in 0..(Len(u) - 1) : /\ Target(l, "undo", k) \in 1..Len(l)
                                  /\ u[Len(u) - k] = EntryAt(l, Target(l, "undo", k))
    /\ \A k \in Nat : k >= Len(u) => Target(l, "undo", k) = 0
RedoLinked(r, l) ==
    /\ r \in Seq(StackEntry)
    /\ \A k \in 0..(Len(r) - 1) : /\ Target(l, "redo", k) \in 1..Len(l)
                                  /\ l[Target(l, "redo", k)].kind = "undo"
                                  /\ r[Len(r) - k] = EntryAt(l, Target(l, "redo", k))
    /\ Target(l, "redo", Len(r)) # 0 => l[Target(l, "redo", Len(r))].kind # "undo"
Linked(l) == UndoLinked(StacksOf(l).undo, l) /\ RedoLinked(StacksOf(l).redo, l)

WellFormed(l) == l \in Seq(LogEntry) /\ Len(l) <= MaxLog /\ Descends(l)

LEMMA WellFormedKinds == \A l : WellFormed(l) => Kinds(l) /\ Len(l) \in Nat
<1> SUFFICES ASSUME NEW l, WellFormed(l) PROVE Kinds(l) /\ Len(l) \in Nat
  OBVIOUS
<1>1. \A i \in 1..Len(l) : l[i] \in LogEntry
  BY DEF WellFormed
<1> QED
  BY <1>1 DEF WellFormed, Kinds, LogEntry

(* What an entry says stays true when another is appended.                    *)
LEMMA EntryOfAppend ==
    ASSUME NEW l, NEW e \in LogEntry, WellFormed(l), WellFormed(Append(l, e))
    PROVE  /\ Len(Append(l, e)) = Len(l) + 1 /\ Append(l, e)[Len(l) + 1] = e
           /\ \A i \in 1..Len(l) : EntryAt(Append(l, e), i) = EntryAt(l, i) /\ Append(l, e)[i] = l[i]
           /\ e.kind # "op" => e.from \in 1..Len(l) /\ Peel(Append(l, e), Len(l) + 1) = Peel(l, e.from)
           /\ e.kind = "op" => Peel(Append(l, e), Len(l) + 1) = Len(l) + 1
           /\ EntryAt(Append(l, e), Len(l) + 1) \in StackEntry
<1> DEFINE m == Append(l, e)
<1>1. l \in Seq(LogEntry) /\ Len(l) \in Nat
  BY DEF WellFormed
<1>2. Len(m) = Len(l) + 1 /\ m[Len(l) + 1] = e /\ \A i \in 1..Len(l) : m[i] = l[i]
  BY <1>1
<1>3. Descends(m) /\ Kinds(m) /\ Len(m) \in Nat /\ Len(m) <= MaxLog /\ Descends(l) /\ Kinds(l)
  BY WellFormedKinds DEF WellFormed
<1>4. \A i \in 1..Len(l) : Peel(m, i) = Peel(l, i)
  BY <1>1, <1>3, PeelOfAppend
<1> HIDE DEF m
<1>5. e.kind # "op" => e.from \in 1..Len(l)
  <2>1. Len(l) + 1 \in 1..Len(m) /\ (Len(l) + 1) - 1 = Len(l)
    BY <1>1, <1>2
  <2>2. m[Len(l) + 1].kind \in {"op"} \cup RestoreKind
    BY <1>3, <2>1 DEF Kinds
  <2> QED
    BY <1>2, <1>3, <2>1, <2>2 DEF Descends
<1>6. Peel(m, Len(l) + 1) = IF e.kind = "op" THEN Len(l) + 1 ELSE Peel(m, e.from)
  <2>1. Len(l) + 1 \in 1..Len(m)
    BY <1>1, <1>2
  <2> QED
    BY <1>2, <1>3, <2>1, PeelStep
<1>7. Peel(m, Len(l) + 1) \in 1..MaxLog
  <2>1. Peel(m, Len(l) + 1) \in 1..(Len(l) + 1)
    BY <1>1, <1>2, <1>3, PeelRange, Len(l) + 1 \in 1..Len(m)
  <2> QED
    BY <1>1, <1>2, <1>3, <2>1, OplogAssumption
<1>8. EntryAt(m, Len(l) + 1) \in StackEntry
  BY <1>2, <1>7 DEF EntryAt, StackEntry, LogEntry
<1>9. \A i \in 1..Len(l) : EntryAt(m, i) = EntryAt(l, i)
  BY <1>2, <1>4 DEF EntryAt
<1> QED
  BY <1>2, <1>4, <1>5, <1>6, <1>8, <1>9 DEF m

(* An entry that is no undo is the next to be undone.                         *)
LEMMA UndoPushed ==
    ASSUME NEW l, NEW e \in LogEntry, WellFormed(l), WellFormed(Append(l, e)), NEW u,
           UndoLinked(u, l), e.kind # "undo"
    PROVE  UndoLinked(Append(u, EntryAt(Append(l, e), Len(l) + 1)), Append(l, e))
<1> DEFINE m == Append(l, e)
           new == EntryAt(m, Len(l) + 1)
           v == Append(u, new)
<1>1. l \in Seq(LogEntry) /\ Len(l) \in Nat /\ u \in Seq(StackEntry) /\ Len(u) \in Nat
  BY DEF WellFormed, UndoLinked
<1>2. new \in StackEntry /\ Len(m) = Len(l) + 1 /\ \A i \in 1..Len(l) : EntryAt(m, i) = EntryAt(l, i)
  BY EntryOfAppend
<1>3. \A k \in Nat : Target(m, "undo", k) = IF k = 0 THEN Len(l) + 1 ELSE Target(l, "undo", k - 1)
  BY <1>1, TargetOfAppend
<1>4. v \in Seq(StackEntry) /\ Len(v) = Len(u) + 1 /\ v[Len(u) + 1] = new /\ \A i \in 1..Len(u) : v[i] = u[i]
  BY <1>1, <1>2
<1> HIDE DEF m, new, v
<1>5. ASSUME NEW k \in 0..(Len(v) - 1)
      PROVE  Target(m, "undo", k) \in 1..Len(m) /\ v[Len(v) - k] = EntryAt(m, Target(m, "undo", k))
  <2>1. CASE k = 0
    BY <1>1, <1>2, <1>3, <1>4, <2>1 DEF new
  <2>2. CASE k # 0
    <3>1. k \in Nat /\ k - 1 \in 0..(Len(u) - 1) /\ Len(v) - k = Len(u) - (k - 1) /\ Len(v) - k \in 1..Len(u)
      BY <1>1, <1>4, <2>2
    <3>2. Target(m, "undo", k) = Target(l, "undo", k - 1)
      BY <1>3, <2>2, <3>1
    <3>3. Target(l, "undo", k - 1) \in 1..Len(l) /\ u[Len(u) - (k - 1)] = EntryAt(l, Target(l, "undo", k - 1))
      BY <3>1 DEF UndoLinked
    <3> QED
      BY <1>1, <1>2, <1>4, <3>1, <3>2, <3>3
  <2> QED
    BY <2>1, <2>2
<1>6. ASSUME NEW k \in Nat, k >= Len(v) PROVE Target(m, "undo", k) = 0
  <2>1. k # 0 /\ k - 1 \in Nat /\ k - 1 >= Len(u)
    BY <1>1, <1>4, <1>6
  <2> QED
    BY <1>3, <2>1 DEF UndoLinked
<1>7. UndoLinked(v, m)
  BY <1>4, <1>5, <1>6 DEF UndoLinked
<1> QED
  BY <1>7 DEF v, new, m

LEMMA FrontOf ==
    ASSUME NEW T, NEW u \in Seq(T), Len(u) > 0
    PROVE  /\ Front(u) \in Seq(T) /\ Len(Front(u)) = Len(u) - 1
           /\ \A i \in 1..(Len(u) - 1) : Front(u)[i] = u[i]
           /\ Last(u) = u[Len(u)]
<1> DEFINE n == Len(u) - 1
<1>1. n \in Nat /\ n <= Len(u) /\ n - 1 + 1 = n /\ n \in Int /\ 1 \in Int /\ \A i \in 1..n : u[i] \in T
  OBVIOUS
<1> HIDE DEF n
<1>2. /\ SubSeq(u, 1, n) \in Seq(T) /\ Len(SubSeq(u, 1, n)) = n
      /\ \A i \in 1..n : SubSeq(u, 1, n)[i] = u[i]
  BY <1>1, SubSeqProperties
<1> QED
  BY <1>2 DEF Front, Last, n

(* An undo of what is found uncovers the next.                                *)
LEMMA UndoPopped ==
    ASSUME NEW l, NEW e \in LogEntry, WellFormed(l), WellFormed(Append(l, e)), NEW u,
           UndoLinked(u, l), e.kind = "undo", Target(l, "undo", 0) # 0
    PROVE  UndoLinked(Front(u), Append(l, e)) /\ u # <<>> /\ Last(u) = EntryAt(l, Target(l, "undo", 0))
<1> DEFINE m == Append(l, e)
           v == Front(u)
<1>1. l \in Seq(LogEntry) /\ Len(l) \in Nat /\ u \in Seq(StackEntry) /\ Len(u) \in Nat
  BY DEF WellFormed, UndoLinked
<1>2. Len(m) = Len(l) + 1 /\ \A i \in 1..Len(l) : EntryAt(m, i) = EntryAt(l, i)
  BY EntryOfAppend
<1>3. \A k \in Nat : Target(m, "undo", k) = Target(l, "undo", k + 1)
  BY <1>1, TargetOfAppend
<1>4. Len(u) > 0
  BY <1>1 DEF UndoLinked
<1>5. v \in Seq(StackEntry) /\ Len(v) = Len(u) - 1 /\ Last(u) = u[Len(u)] /\ \A i \in 1..(Len(u) - 1) : v[i] = u[i]
  BY <1>1, <1>4, FrontOf
<1>6. Last(u) = EntryAt(l, Target(l, "undo", 0))
  <2>1. u[Len(u) - 0] = EntryAt(l, Target(l, "undo", 0))
    BY <1>1, <1>4, 0 \in 0..(Len(u) - 1) DEF UndoLinked
  <2> QED
    BY <1>1, <1>5, <2>1, Len(u) - 0 = Len(u)
<1> HIDE DEF m, v
<1>7. ASSUME NEW k \in 0..(Len(v) - 1)
      PROVE  Target(m, "undo", k) \in 1..Len(m) /\ v[Len(v) - k] = EntryAt(m, Target(m, "undo", k))
  <2>1. k \in Nat /\ k + 1 \in 0..(Len(u) - 1) /\ Len(v) - k = Len(u) - (k + 1) /\ Len(v) - k \in 1..(Len(u) - 1)
    BY <1>1, <1>5
  <2>2. Target(l, "undo", k + 1) \in 1..Len(l) /\ u[Len(u) - (k + 1)] = EntryAt(l, Target(l, "undo", k + 1))
    BY <2>1 DEF UndoLinked
  <2>3. Target(m, "undo", k) = Target(l, "undo", k + 1)
    BY <1>3, <2>1
  <2>4. v[Len(v) - k] = u[Len(u) - (k + 1)]
    BY <1>5, <2>1
  <2> QED
    BY <1>1, <1>2, <2>2, <2>3, <2>4
<1>8. ASSUME NEW k \in Nat, k >= Len(v) PROVE Target(m, "undo", k) = 0
  <2>1. k + 1 \in Nat /\ k + 1 >= Len(u)
    BY <1>1, <1>5, <1>8
  <2> QED
    BY <1>3, <2>1 DEF UndoLinked
<1>9. UndoLinked(v, m)
  BY <1>5, <1>7, <1>8 DEF UndoLinked
<1> QED
  BY <1>4, <1>6, <1>9 DEF v, m

(* An undo is the next to be redone.                                          *)
LEMMA RedoPushed ==
    ASSUME NEW l, NEW e \in LogEntry, WellFormed(l), WellFormed(Append(l, e)), NEW r,
           RedoLinked(r, l), e.kind = "undo"
    PROVE  RedoLinked(Append(r, EntryAt(Append(l, e), Len(l) + 1)), Append(l, e))
<1> DEFINE m == Append(l, e)
           new == EntryAt(m, Len(l) + 1)
           v == Append(r, new)
<1>1. l \in Seq(LogEntry) /\ Len(l) \in Nat /\ r \in Seq(StackEntry) /\ Len(r) \in Nat
  BY DEF WellFormed, RedoLinked
<1>2. /\ new \in StackEntry /\ Len(m) = Len(l) + 1 /\ m[Len(l) + 1] = e
      /\ \A i \in 1..Len(l) : EntryAt(m, i) = EntryAt(l, i) /\ m[i] = l[i]
  BY EntryOfAppend
<1>3. \A k \in Nat : Target(m, "redo", k) = IF k = 0 THEN Len(l) + 1 ELSE Target(l, "redo", k - 1)
  BY <1>1, TargetOfAppend
<1>4. v \in Seq(StackEntry) /\ Len(v) = Len(r) + 1 /\ v[Len(r) + 1] = new /\ \A i \in 1..Len(r) : v[i] = r[i]
  BY <1>1, <1>2
<1> HIDE DEF m, new, v
<1>5. ASSUME NEW k \in 0..(Len(v) - 1)
      PROVE  /\ Target(m, "redo", k) \in 1..Len(m) /\ m[Target(m, "redo", k)].kind = "undo"
             /\ v[Len(v) - k] = EntryAt(m, Target(m, "redo", k))
  <2>1. CASE k = 0
    BY <1>1, <1>2, <1>3, <1>4, <2>1 DEF new
  <2>2. CASE k # 0
    <3>1. k \in Nat /\ k - 1 \in 0..(Len(r) - 1) /\ Len(v) - k = Len(r) - (k - 1) /\ Len(v) - k \in 1..Len(r)
      BY <1>1, <1>4, <2>2
    <3>2. Target(m, "redo", k) = Target(l, "redo", k - 1)
      BY <1>3, <2>2, <3>1
    <3>3. /\ Target(l, "redo", k - 1) \in 1..Len(l) /\ l[Target(l, "redo", k - 1)].kind = "undo"
          /\ r[Len(r) - (k - 1)] = EntryAt(l, Target(l, "redo", k - 1))
      BY <3>1 DEF RedoLinked
    <3>4. v[Len(v) - k] = r[Len(r) - (k - 1)]
      BY <1>4, <3>1
    <3> QED
      BY <1>1, <1>2, <3>2, <3>3, <3>4
  <2> QED
    BY <2>1, <2>2
<1>6. Target(m, "redo", Len(v)) # 0 => m[Target(m, "redo", Len(v))].kind # "undo"
  <2>1. Len(v) \in Nat /\ Len(v) # 0 /\ Len(v) - 1 = Len(r)
    BY <1>1, <1>4
  <2>2. Target(m, "redo", Len(v)) = Target(l, "redo", Len(r))
    BY <1>3, <2>1
  <2>3. Target(l, "redo", Len(r)) \in 0..Len(l)
    BY <1>1, TargetRange
  <2> QED
    BY <1>1, <1>2, <2>2, <2>3 DEF RedoLinked
<1>7. RedoLinked(v, m)
  BY <1>4, <1>5, <1>6 DEF RedoLinked
<1> QED
  BY <1>7 DEF v, new, m

(* A redo of what is found uncovers the next.                                 *)
LEMMA RedoPopped ==
    ASSUME NEW l, NEW e \in LogEntry, WellFormed(l), WellFormed(Append(l, e)), NEW r,
           RedoLinked(r, l), e.kind = "redo",
           Target(l, "redo", 0) # 0, l[Target(l, "redo", 0)].kind = "undo"
    PROVE  RedoLinked(Front(r), Append(l, e)) /\ r # <<>> /\ Last(r) = EntryAt(l, Target(l, "redo", 0))
<1> DEFINE m == Append(l, e)
           v == Front(r)
<1>1. l \in Seq(LogEntry) /\ Len(l) \in Nat /\ r \in Seq(StackEntry) /\ Len(r) \in Nat
  BY DEF WellFormed, RedoLinked
<1>2. Len(m) = Len(l) + 1 /\ \A i \in 1..Len(l) : EntryAt(m, i) = EntryAt(l, i) /\ m[i] = l[i]
  BY EntryOfAppend
<1>3. \A k \in Nat : Target(m, "redo", k) = Target(l, "redo", k + 1)
  BY <1>1, TargetOfAppend
<1>4. Len(r) > 0
  BY <1>1 DEF RedoLinked
<1>5. v \in Seq(StackEntry) /\ Len(v) = Len(r) - 1 /\ Last(r) = r[Len(r)] /\ \A i \in 1..(Len(r) - 1) : v[i] = r[i]
  BY <1>1, <1>4, FrontOf
<1>6. Last(r) = EntryAt(l, Target(l, "redo", 0))
  <2>1. r[Len(r) - 0] = EntryAt(l, Target(l, "redo", 0))
    BY <1>1, <1>4, 0 \in 0..(Len(r) - 1) DEF RedoLinked
  <2> QED
    BY <1>1, <1>5, <2>1, Len(r) - 0 = Len(r)
<1> HIDE DEF m, v
<1>7. ASSUME NEW k \in 0..(Len(v) - 1)
      PROVE  /\ Target(m, "redo", k) \in 1..Len(m) /\ m[Target(m, "redo", k)].kind = "undo"
             /\ v[Len(v) - k] = EntryAt(m, Target(m, "redo", k))
  <2>1. k \in Nat /\ k + 1 \in 0..(Len(r) - 1) /\ Len(v) - k = Len(r) - (k + 1) /\ Len(v) - k \in 1..(Len(r) - 1)
    BY <1>1, <1>5
  <2>2. /\ Target(l, "redo", k + 1) \in 1..Len(l) /\ l[Target(l, "redo", k + 1)].kind = "undo"
        /\ r[Len(r) - (k + 1)] = EntryAt(l, Target(l, "redo", k + 1))
    BY <2>1 DEF RedoLinked
  <2>3. Target(m, "redo", k) = Target(l, "redo", k + 1)
    BY <1>3, <2>1
  <2>4. v[Len(v) - k] = r[Len(r) - (k + 1)]
    BY <1>5, <2>1
  <2> QED
    BY <1>1, <1>2, <2>2, <2>3, <2>4
<1>8. Target(m, "redo", Len(v)) # 0 => m[Target(m, "redo", Len(v))].kind # "undo"
  <2>1. Len(v) \in Nat /\ Len(v) + 1 = Len(r)
    BY <1>1, <1>4, <1>5
  <2>2. Target(m, "redo", Len(v)) = Target(l, "redo", Len(r))
    BY <1>3, <2>1
  <2>3. Target(l, "redo", Len(r)) \in 0..Len(l)
    BY <1>1, TargetRange
  <2> QED
    BY <1>1, <1>2, <2>2, <2>3 DEF RedoLinked
<1>9. RedoLinked(v, m)
  BY <1>5, <1>7, <1>8 DEF RedoLinked
<1> QED
  BY <1>4, <1>6, <1>9 DEF v, m

(* After any other entry there is nothing to redo.                            *)
LEMMA RedoCleared ==
    ASSUME NEW l, NEW e \in LogEntry, WellFormed(l), WellFormed(Append(l, e)), e.kind \notin {"undo", "redo"}
    PROVE  RedoLinked(<<>>, Append(l, e))
<1>1. l \in Seq(LogEntry) /\ Len(l) \in Nat
  BY DEF WellFormed
<1>2. Append(l, e)[Len(l) + 1] = e
  BY <1>1
<1>3. Target(Append(l, e), "redo", 0) = Len(l) + 1
  BY <1>1, TargetOfAppend
<1> QED
  BY <1>2, <1>3 DEF RedoLinked

(* The three kinds of entry, as steps of the two stacks.                      *)
Appendable(l, e) == WellFormed(l) /\ e \in LogEntry /\ WellFormed(Append(l, e))

LEMMA StacksReplay ==
    ASSUME NEW l, NEW e, Appendable(l, e)
    PROVE  StacksOf(Append(l, e)) = Replayed(StacksOf(l), Append(l, e), Len(l) + 1)
<1>1. l \in Seq(LogEntry) /\ e \in LogEntry /\ Descends(Append(l, e)) /\ Kinds(Append(l, e))
  BY WellFormedKinds DEF Appendable, WellFormed
<1> QED
  BY <1>1, StacksOfAppend

LEMMA DoneIsLinked ==
    ASSUME NEW l, NEW e, Appendable(l, e), Linked(l), e.kind \notin {"undo", "redo"}
    PROVE  /\ Linked(Append(l, e))
           /\ StacksOf(Append(l, e)).undo = Append(StacksOf(l).undo, EntryAt(Append(l, e), Len(l) + 1))
           /\ StacksOf(Append(l, e)).redo = <<>>
<1> DEFINE m == Append(l, e)
<1>1. m[Len(l) + 1] = e
  BY EntryOfAppend DEF Appendable
<1>2. StacksOf(m) = Replayed(StacksOf(l), m, Len(l) + 1)
  BY StacksReplay
<1>3. UndoLinked(Append(StacksOf(l).undo, EntryAt(m, Len(l) + 1)), m)
  BY UndoPushed DEF Appendable, Linked
<1>4. RedoLinked(<<>>, m)
  BY RedoCleared DEF Appendable
<1> HIDE DEF m
<1>5. Replayed(StacksOf(l), m, Len(l) + 1) =
        [undo |-> Append(StacksOf(l).undo, EntryAt(m, Len(l) + 1)), redo |-> <<>>]
  BY <1>1 DEF Replayed, EntryAt
<1>6. /\ StacksOf(m).undo = Append(StacksOf(l).undo, EntryAt(m, Len(l) + 1))
      /\ StacksOf(m).redo = <<>>
  BY <1>2, <1>5
<1>7. Linked(m)
  BY <1>3, <1>4, <1>6 DEF Linked
<1> QED
  BY <1>6, <1>7 DEF m

LEMMA UndoneIsLinked ==
    ASSUME NEW l, NEW e, Appendable(l, e), Linked(l), e.kind = "undo", e.from = UndoTarget(l)
    PROVE  /\ Linked(Append(l, e))
           /\ StacksOf(l).undo # <<>>
           /\ Last(StacksOf(l).undo).state = l[e.from].state
           /\ StacksOf(Append(l, e)).undo = Front(StacksOf(l).undo)
           /\ StacksOf(Append(l, e)).redo =
                Append(StacksOf(l).redo, [state |-> e.state, op |-> Last(StacksOf(l).undo).op])
<1> DEFINE m == Append(l, e)
           u == StacksOf(l).undo
           r == StacksOf(l).redo
<1>1. /\ m[Len(l) + 1] = e /\ e.from \in 1..Len(l) /\ Peel(m, Len(l) + 1) = Peel(l, e.from)
  BY EntryOfAppend DEF Appendable
<1>2. StacksOf(m) = Replayed(StacksOf(l), m, Len(l) + 1)
  BY StacksReplay
<1>3. e.from = Target(l, "undo", 0) /\ Target(l, "undo", 0) # 0
  BY <1>1 DEF UndoTarget, Uncancelled, Target
<1>4. UndoLinked(Front(u), m) /\ u # <<>> /\ Last(u) = EntryAt(l, e.from)
  BY <1>3, UndoPopped DEF Appendable, Linked
<1>5. RedoLinked(Append(r, EntryAt(m, Len(l) + 1)), m)
  BY RedoPushed DEF Appendable, Linked
<1>6. EntryAt(m, Len(l) + 1) = [state |-> e.state, op |-> Last(u).op] /\ Last(u).state = l[e.from].state
  BY <1>1, <1>4 DEF EntryAt
<1> HIDE DEF m
<1>7. Replayed(StacksOf(l), m, Len(l) + 1) =
        [undo |-> Front(u), redo |-> Append(r, [state |-> e.state, op |-> Last(u).op])]
  BY <1>1, <1>4 DEF Replayed, OperationOnTop
<1>8. /\ StacksOf(m).undo = Front(u)
      /\ StacksOf(m).redo = Append(r, [state |-> e.state, op |-> Last(u).op])
  BY <1>2, <1>7
<1>9. Linked(m)
  BY <1>4, <1>5, <1>6, <1>8 DEF Linked
<1> QED
  BY <1>4, <1>6, <1>8, <1>9 DEF m

LEMMA RedoneIsLinked ==
    ASSUME NEW l, NEW e, Appendable(l, e), Linked(l), e.kind = "redo", e.from = RedoTarget(l)
    PROVE  /\ Linked(Append(l, e))
           /\ StacksOf(l).redo # <<>>
           /\ Last(StacksOf(l).redo).state = l[e.from].state
           /\ StacksOf(Append(l, e)).redo = Front(StacksOf(l).redo)
           /\ StacksOf(Append(l, e)).undo =
                Append(StacksOf(l).undo, [state |-> e.state, op |-> Last(StacksOf(l).redo).op])
<1> DEFINE m == Append(l, e)
           u == StacksOf(l).undo
           r == StacksOf(l).redo
<1>1. /\ m[Len(l) + 1] = e /\ e.from \in 1..Len(l) /\ Peel(m, Len(l) + 1) = Peel(l, e.from)
  BY EntryOfAppend DEF Appendable
<1>2. StacksOf(m) = Replayed(StacksOf(l), m, Len(l) + 1)
  BY StacksReplay
<1>3. /\ e.from = Target(l, "redo", 0) /\ Target(l, "redo", 0) # 0
      /\ l[Target(l, "redo", 0)].kind = "undo"
  BY <1>1 DEF RedoTarget, Uncancelled, Target
<1>4. RedoLinked(Front(r), m) /\ r # <<>> /\ Last(r) = EntryAt(l, e.from)
  BY <1>3, RedoPopped DEF Appendable, Linked
<1>5. UndoLinked(Append(u, EntryAt(m, Len(l) + 1)), m)
  BY UndoPushed DEF Appendable, Linked
<1>6. EntryAt(m, Len(l) + 1) = [state |-> e.state, op |-> Last(r).op] /\ Last(r).state = l[e.from].state
  BY <1>1, <1>4 DEF EntryAt
<1> HIDE DEF m
<1>7. Replayed(StacksOf(l), m, Len(l) + 1) =
        [undo |-> Append(u, [state |-> e.state, op |-> Last(r).op]), redo |-> Front(r)]
  BY <1>1, <1>4 DEF Replayed, OperationOnTop
<1>8. /\ StacksOf(m).redo = Front(r)
      /\ StacksOf(m).undo = Append(u, [state |-> e.state, op |-> Last(r).op])
  BY <1>2, <1>7
<1>9. Linked(m)
  BY <1>4, <1>5, <1>6, <1>8 DEF Linked
<1> QED
  BY <1>4, <1>6, <1>8, <1>9 DEF m

-----------------------------------------------------------------------------
(* The invariant: the types, that a client has chosen what the log holds, that *)
(* no snapshot holds a state that has not come up, and that the log and the stacks are linked until an undo or a redo comes late. *)
ChosenFromLog == \A c \in Client :
    /\ chosen[c].target <= Len(log)
    /\ chosen[c] # Nothing => chosen[c].target # 0
ComeUp == \A i \in 1..Len(log) : log[i].state <= states
LogInv == LogTypeOK /\ ChosenFromLog /\ ComeUp /\ (stale \/ Linked(log))

LEMMA TypedLogIsWellFormed == LogTypeOK => WellFormed(log) /\ Len(log) \in 0..MaxLog
<1> SUFFICES ASSUME LogTypeOK PROVE WellFormed(log) /\ Len(log) \in 0..MaxLog
  OBVIOUS
<1>1. log \in Seq(LogEntry) /\ Len(log) <= MaxLog
  BY DEF LogTypeOK, LogEntry
<1>2. Descends(log)
  BY DEF LogTypeOK, Descends
<1> QED
  BY <1>1, <1>2, OplogAssumption DEF WellFormed

LEMMA LogStates == WellFormed(log) => \A i \in 1..Len(log) : log[i].state \in Nat
<1> SUFFICES ASSUME WellFormed(log), NEW i \in 1..Len(log) PROVE log[i].state \in Nat
  OBVIOUS
<1>1. log[i] \in LogEntry
  BY DEF WellFormed
<1>2. log[i].state \in 0..MaxState
  BY <1>1 DEF LogEntry
<1> QED
  BY <1>2, OplogAssumption

LEMMA LogInitInv == LogInit => LogInv
<1> SUFFICES ASSUME LogInit PROVE LogInv
  OBVIOUS
<1>1. log = <<>> /\ Len(log) = 0
  BY DEF LogInit
<1>2. Nothing \in [kind : RestoreKind, target : 0..MaxLog] /\ Nothing.target = 0
  BY OplogAssumption DEF Nothing, RestoreKind
<1>3. LogTypeOK
  <2>1. chosen \in [Client -> [kind : RestoreKind, target : 0..MaxLog]]
    BY <1>2 DEF LogInit
  <2>2. log \in Seq([kind : {"op"} \cup RestoreKind, state : 0..MaxState, from : 0..MaxLog])
    BY <1>1
  <2>3. project \in 0..states /\ states \in 0..MaxState
    BY OplogAssumption DEF LogInit
  <2>4. stale \in BOOLEAN
    BY DEF LogInit
  <2> QED
    BY <1>1, <2>1, <2>2, <2>3, <2>4, OplogAssumption DEF LogTypeOK
<1>4. ChosenFromLog
  BY <1>1, <1>2 DEF LogInit, ChosenFromLog
<1>5. StacksOf(log).undo = <<>> /\ StacksOf(log).redo = <<>>
  BY <1>1, StacksOfNone DEF EmptyStacks
<1>6. UndoLinked(<<>>, log)
  BY <1>1, TargetOfNone DEF UndoLinked
<1>7. RedoLinked(<<>>, log)
  BY <1>1, TargetOfNone DEF RedoLinked
<1> QED
  BY <1>1, <1>3, <1>4, <1>5, <1>6, <1>7 DEF LogInv, Linked, ComeUp

(* Recording an entry whose restored snapshot the log holds.                  *)
LEMMA RecordKeepsTheLog ==
    ASSUME LogTypeOK, Len(log) < MaxLog, NEW kind \in {"op"} \cup RestoreKind, NEW from \in 0..Len(log),
           kind # "op" => from # 0, Record(kind, from)
    PROVE  /\ log' = Append(log, [kind |-> kind, state |-> project, from |-> from])
           /\ log' \in Seq(LogEntry) /\ Len(log') = Len(log) + 1 /\ Len(log') <= MaxLog
           /\ \A i \in 1..Len(log') : log'[i].kind \in RestoreKind => log'[i].from \in 1..(i - 1)
           /\ Appendable(log, [kind |-> kind, state |-> project, from |-> from])
<1> DEFINE e == [kind |-> kind, state |-> project, from |-> from]
<1>1. WellFormed(log) /\ Len(log) \in 0..MaxLog
  BY TypedLogIsWellFormed
<1>2. e \in LogEntry
  <2>1. project \in 0..MaxState /\ from \in 0..MaxLog
    BY <1>1, OplogAssumption DEF LogTypeOK
  <2> QED
    BY <2>1 DEF LogEntry
<1>3. log' = Append(log, e)
  BY DEF Record
<1>4. e.kind = kind /\ e.from = from
  OBVIOUS
<1> HIDE DEF e
<1>5. /\ log' \in Seq(LogEntry) /\ Len(log') = Len(log) + 1 /\ log'[Len(log) + 1] = e
      /\ \A i \in 1..Len(log) : log'[i] = log[i]
  BY <1>1, <1>2, <1>3 DEF WellFormed
<1>6. Len(log') <= MaxLog
  BY <1>1, <1>5, OplogAssumption
<1>7. ASSUME NEW i \in 1..Len(log'), log'[i].kind \in RestoreKind PROVE log'[i].from \in 1..(i - 1)
  <2>1. CASE i = Len(log) + 1
    <3>1. kind # "op"
      BY <1>4, <1>5, <1>7, <2>1 DEF RestoreKind
    <3> QED
      BY <1>1, <1>4, <1>5, <2>1, <3>1
  <2>2. CASE i # Len(log) + 1
    <3>1. i \in 1..Len(log)
      BY <1>1, <1>5, <2>2
    <3> QED
      BY <1>1, <1>5, <1>7, <3>1 DEF WellFormed, Descends
  <2> QED
    BY <2>1, <2>2
<1>8. Appendable(log, e)
  BY <1>1, <1>2, <1>3, <1>5, <1>6, <1>7 DEF Appendable, WellFormed, Descends
<1> QED
  BY <1>3, <1>5, <1>6, <1>7, <1>8 DEF e

(* What an entry does to the link, by its kind.                               *)
OnTime(kind, from) ==
    /\ kind = "undo" => from = UndoTarget(log)
    /\ kind = "redo" => from = RedoTarget(log)

LEMMA RecordKeepsTheLink ==
    ASSUME LogInv, Len(log) < MaxLog, NEW kind \in {"op"} \cup RestoreKind, NEW from \in 0..Len(log),
           kind # "op" => from # 0, Record(kind, from), stale \/ OnTime(kind, from)
    PROVE  stale \/ Linked(log')
<1> DEFINE e == [kind |-> kind, state |-> project, from |-> from]
<1> SUFFICES ASSUME ~stale PROVE Linked(log')
  OBVIOUS
<1>1. log' = Append(log, e) /\ Appendable(log, e) /\ Linked(log)
  BY RecordKeepsTheLog DEF LogInv
<1>2. e.kind = kind /\ e.from = from
  OBVIOUS
<1> HIDE DEF e
<1>3. CASE kind = "undo"
  BY <1>1, <1>2, <1>3, UndoneIsLinked DEF OnTime
<1>4. CASE kind = "redo"
  BY <1>1, <1>2, <1>4, RedoneIsLinked DEF OnTime
<1>5. CASE kind \notin {"undo", "redo"}
  BY <1>1, <1>2, <1>5, DoneIsLinked
<1> QED
  BY <1>3, <1>4, <1>5

(* A restore, at the moment it takes place.                                   *)
LEMMA RestoredIsChosen ==
    ASSUME LogInv, NEW c \in Client, Restore(c)
    PROVE  /\ chosen[c].kind \in RestoreKind
           /\ chosen[c].target \in 1..Len(log)
           /\ log[chosen[c].target].state \in 0..states
           /\ Record(chosen[c].kind, chosen[c].target)
           /\ stale' \in BOOLEAN
           /\ ~stale' => ~stale /\ OnTime(chosen[c].kind, chosen[c].target)
<1>1. chosen[c] \in [kind : RestoreKind, target : 0..MaxLog] /\ stale \in BOOLEAN
  BY DEF LogInv, LogTypeOK
<1>2. Len(log) \in Nat /\ log \in Seq(LogEntry)
  BY TypedLogIsWellFormed, OplogAssumption DEF LogInv, WellFormed
<1>3. chosen[c].target \in 1..Len(log)
  BY <1>1, <1>2, OplogAssumption DEF LogInv, ChosenFromLog, Restore
<1>4. log[chosen[c].target].state \in 0..states
  BY <1>2, <1>3, LogStates, TypedLogIsWellFormed DEF LogInv, ComeUp, LogTypeOK
<1>5. NoteStale(chosen[c])
  BY DEF Restore
<1>6. stale' \in BOOLEAN
  BY <1>5 DEF NoteStale
<1>7. ~stale' => ~stale /\ OnTime(chosen[c].kind, chosen[c].target)
  BY <1>1, <1>5 DEF NoteStale, OnTime, RestoreKind
<1> QED
  BY <1>1, <1>3, <1>4, <1>6, <1>7 DEF Restore

(* The parts of the invariant that an action may disturb, each for itself.    *)
LEMMA LogInvParts ==
    ASSUME LogInv,
           WellFormed(log') /\ (log' = log \/ Len(log') = Len(log) + 1),
           states' \in 0..MaxState, project' \in 0..states',
           \A i \in 1..Len(log') : log'[i].state <= states',
           chosen' \in [Client -> [kind : RestoreKind, target : 0..MaxLog]],
           \A c \in Client : chosen'[c] = chosen[c] \/ chosen'[c] = Nothing \/ chosen'[c].target \in 1..Len(log),
           stale' \in BOOLEAN, stale' \/ Linked(log')
    PROVE  LogInv'
<1>1. Len(log) \in Nat /\ Len(log') \in Nat /\ Len(log) <= Len(log')
  BY TypedLogIsWellFormed, OplogAssumption DEF LogInv, WellFormed
<1>2. LogTypeOK'
  BY DEF LogTypeOK, WellFormed, Descends, LogEntry
<1>3. ChosenFromLog'
  <2> SUFFICES ASSUME NEW c \in Client
               PROVE  chosen'[c].target <= Len(log') /\ (chosen'[c] # Nothing => chosen'[c].target # 0)
    BY DEF ChosenFromLog
  <2>1. chosen[c].target \in Nat /\ chosen[c].target <= Len(log) /\ (chosen[c] # Nothing => chosen[c].target # 0)
    BY OplogAssumption DEF LogInv, LogTypeOK, ChosenFromLog
  <2>2. Nothing.target = 0
    BY DEF Nothing
  <2> QED
    BY <1>1, <2>1, <2>2
<1> QED
  BY <1>2, <1>3 DEF LogInv, ComeUp

LEMMA LogStepInv == LogInv /\ [LogNext]_logVars => LogInv'
<1> SUFFICES ASSUME LogInv, [LogNext]_logVars PROVE LogInv'
  OBVIOUS
<1>1. /\ WellFormed(log) /\ Len(log) \in Nat /\ states \in 0..MaxState /\ project \in 0..states
      /\ \A i \in 1..Len(log) : log[i].state \in Nat /\ log[i].state <= states
      /\ chosen \in [Client -> [kind : RestoreKind, target : 0..MaxLog]]
      /\ stale \in BOOLEAN /\ (stale \/ Linked(log))
  <2>1. WellFormed(log) /\ Len(log) \in Nat
    BY TypedLogIsWellFormed, OplogAssumption DEF LogInv
  <2>2. \A i \in 1..Len(log) : log[i].state \in Nat
    BY <2>1, LogStates
  <2> QED
    BY <2>1, <2>2 DEF LogInv, LogTypeOK, ComeUp
<1>2. ASSUME NEW kind \in {"op"} \cup RestoreKind, NEW from \in 0..Len(log), kind # "op" => from # 0,
             Len(log) < MaxLog, Record(kind, from), states' \in 0..MaxState, states <= states'
      PROVE  /\ WellFormed(log') /\ Len(log') = Len(log) + 1
             /\ \A i \in 1..Len(log') : log'[i].state <= states'
  <2> DEFINE e == [kind |-> kind, state |-> project, from |-> from]
  <2>1. log' = Append(log, e) /\ Appendable(log, e) /\ Len(log') = Len(log) + 1
    BY <1>2, RecordKeepsTheLog DEF LogInv
  <2>2. e.state = project
    OBVIOUS
  <2> HIDE DEF e
  <2>3. WellFormed(log') /\ log'[Len(log) + 1] = e /\ \A i \in 1..Len(log) : log'[i] = log[i]
    BY <2>1, EntryOfAppend DEF Appendable
  <2>4. \A i \in 1..Len(log') : i \in 1..Len(log) \/ i = Len(log) + 1
    BY <1>1, <2>1
  <2>5. \A i \in 1..Len(log) : log'[i].state <= states'
    BY <1>1, <1>2, <2>3, OplogAssumption
  <2>6. log'[Len(log) + 1].state <= states'
    BY <1>1, <1>2, <2>2, <2>3, OplogAssumption
  <2> QED
    BY <2>1, <2>3, <2>4, <2>5, <2>6
<1>3. CASE Operate
  <2>1. Record("op", 0) /\ states' \in 0..MaxState /\ project' \in 0..states' /\ states <= states'
    BY <1>1, <1>3, OplogAssumption DEF Operate, NewState
  <2>2. stale \/ Linked(log')
    BY <1>1, <1>3, <2>1, RecordKeepsTheLink DEF Operate, OnTime
  <2> QED
    BY <1>1, <1>2, <1>3, <2>1, <2>2, LogInvParts DEF Operate
<1>4. CASE RecordOnly
  <2>1. Record("op", 0) /\ states' \in 0..MaxState /\ project' \in 0..states' /\ states <= states'
    BY <1>1, <1>4, OplogAssumption DEF RecordOnly
  <2>2. stale \/ Linked(log')
    BY <1>1, <1>4, <2>1, RecordKeepsTheLink DEF RecordOnly, OnTime
  <2> QED
    BY <1>1, <1>2, <1>4, <2>1, <2>2, LogInvParts DEF RecordOnly
<1>5. CASE ChangeUnrecorded
  <2>1. states' \in 0..MaxState /\ project' \in 0..states' /\ states <= states'
    BY <1>1, <1>5, OplogAssumption DEF ChangeUnrecorded, NewState
  <2>2. \A i \in 1..Len(log) : log[i].state <= states'
    BY <1>1, <2>1, OplogAssumption
  <2>3. log' = log /\ chosen' = chosen /\ stale' = stale
    BY <1>5 DEF ChangeUnrecorded
  <2> QED
    BY <1>1, <2>1, <2>2, <2>3, LogInvParts
<1>6. ASSUME NEW c \in Client, NEW choice \in [kind : RestoreKind, target : 1..Len(log)],
             chosen' = [chosen EXCEPT ![c] = choice], UNCHANGED <<log, project, states, stale>>
      PROVE  LogInv'
  <2>1. choice \in [kind : RestoreKind, target : 0..MaxLog] /\ choice.target \in 1..Len(log)
    BY <1>1, OplogAssumption DEF WellFormed
  <2>2. /\ chosen' \in [Client -> [kind : RestoreKind, target : 0..MaxLog]]
        /\ \A d \in Client : chosen'[d] = chosen[d] \/ chosen'[d].target \in 1..Len(log)
    BY <1>1, <1>6, <2>1
  <2> QED
    BY <1>1, <1>6, <2>2, LogInvParts
<1>7. ASSUME NEW c \in Client, ChooseUndo(c) PROVE LogInv'
  <2>1. UndoTarget(log) \in 1..Len(log)
    BY <1>1, <1>7, TargetRange DEF ChooseUndo, UndoTarget, Uncancelled, Target
  <2>2. [kind |-> "undo", target |-> UndoTarget(log)] \in [kind : RestoreKind, target : 1..Len(log)]
    BY <2>1 DEF RestoreKind
  <2> QED
    BY <1>6, <1>7, <2>2 DEF ChooseUndo
<1>8. ASSUME NEW c \in Client, ChooseRedo(c) PROVE LogInv'
  <2>1. RedoTarget(log) \in 1..Len(log)
    BY <1>1, <1>8, TargetRange DEF ChooseRedo, RedoTarget, Uncancelled, Target
  <2>2. [kind |-> "redo", target |-> RedoTarget(log)] \in [kind : RestoreKind, target : 1..Len(log)]
    BY <2>1 DEF RestoreKind
  <2> QED
    BY <1>6, <1>8, <2>2 DEF ChooseRedo
<1>9. ASSUME NEW c \in Client, ChooseRestore(c) PROVE LogInv'
  <2>1. PICK i \in 1..Len(log) : chosen' = [chosen EXCEPT ![c] = [kind |-> "restore", target |-> i]]
    BY <1>9 DEF ChooseRestore
  <2>2. [kind |-> "restore", target |-> i] \in [kind : RestoreKind, target : 1..Len(log)]
    BY DEF RestoreKind
  <2> QED
    BY <1>6, <1>9, <2>1, <2>2 DEF ChooseRestore
<1>10. ASSUME NEW c \in Client, chosen' \in {[chosen EXCEPT ![c] = Nothing]}
       PROVE  /\ chosen' \in [Client -> [kind : RestoreKind, target : 0..MaxLog]]
              /\ \A d \in Client : chosen'[d] = chosen[d] \/ chosen'[d] = Nothing
  <2>1. Nothing \in [kind : RestoreKind, target : 0..MaxLog]
    BY OplogAssumption DEF Nothing, RestoreKind
  <2> QED
    BY <1>1, <1>10, <2>1
<1>11. ASSUME NEW c \in Client, Restore(c) PROVE LogInv'
  <2>1. /\ chosen[c].kind \in RestoreKind /\ chosen[c].target \in 1..Len(log)
        /\ log[chosen[c].target].state \in 0..states /\ Record(chosen[c].kind, chosen[c].target)
        /\ stale' \in BOOLEAN /\ (~stale' => ~stale /\ OnTime(chosen[c].kind, chosen[c].target))
    BY <1>11, RestoredIsChosen
  <2>2. chosen[c].kind \in {"op"} \cup RestoreKind /\ chosen[c].target \in 0..Len(log) /\ chosen[c].target # 0
    BY <1>1, <2>1
  <2>3. Len(log) < MaxLog /\ states' = states /\ project' = log[chosen[c].target].state
    BY <1>11 DEF Restore
  <2>4. stale' \/ Linked(log')
    BY <2>1, <2>2, <2>3, RecordKeepsTheLink
  <2>5. /\ WellFormed(log') /\ Len(log') = Len(log) + 1
        /\ \A i \in 1..Len(log') : log'[i].state <= states'
    <3>1. states' \in 0..MaxState /\ states <= states'
      BY <1>1, <2>3
    <3> QED
      BY <1>2, <2>1, <2>2, <2>3, <3>1
  <2>6. /\ chosen' \in [Client -> [kind : RestoreKind, target : 0..MaxLog]]
        /\ \A d \in Client : chosen'[d] = chosen[d] \/ chosen'[d] = Nothing
    BY <1>10, <1>11 DEF Restore
  <2> QED
    BY <1>1, <2>1, <2>3, <2>4, <2>5, <2>6, LogInvParts
<1>12. ASSUME NEW c \in Client, Decline(c) PROVE LogInv'
  <2>1. /\ chosen' \in [Client -> [kind : RestoreKind, target : 0..MaxLog]]
        /\ \A d \in Client : chosen'[d] = chosen[d] \/ chosen'[d] = Nothing
    BY <1>10, <1>12 DEF Decline
  <2> QED
    BY <1>1, <1>12, <2>1, LogInvParts DEF Decline
<1>13. CASE UNCHANGED logVars
  BY <1>1, <1>13, LogInvParts DEF logVars
<1> QED
  BY <1>3, <1>4, <1>5, <1>7, <1>8, <1>9, <1>11, <1>12, <1>13 DEF LogNext

THEOREM LogInvHolds == LogSpec => []LogInv
BY LogInitInv, LogStepInv, PTL DEF LogSpec

-----------------------------------------------------------------------------
(* The theorems                                                               *)

(* Every state is of its types: a snapshot of a restore names an older one,   *)
(* so that peeling ends, and no client waits to restore what the log does not *)
(* hold.                                                                      *)
THEOREM LogTypeCorrect == LogSpec => []LogTypeOK
<1>1. LogInv => LogTypeOK
  BY DEF LogInv
<1> QED
  BY <1>1, LogInvHolds, PTL

(* The backwards loops find nothing exactly if the stack has nothing, for a   *)
(* log of any length and any mix of operations, undos, redos and restores.    *)
SearchesEndWithTheStacks == ~stale =>
    /\ UndoTarget(log) = 0 <=> Stacks.undo = <<>>
    /\ RedoTarget(log) = 0 <=> Stacks.redo = <<>>

LEMMA LinkedTops ==
    ASSUME LogTypeOK, Linked(log)
    PROVE  LET u == Stacks.undo
               r == Stacks.redo
           IN  /\ UndoTarget(log) = 0 <=> u = <<>>
               /\ RedoTarget(log) = 0 <=> r = <<>>
               /\ UndoTarget(log) # 0 => Last(u) = EntryAt(log, UndoTarget(log))
               /\ RedoTarget(log) # 0 => Last(r) = EntryAt(log, RedoTarget(log))
<1> DEFINE u == Stacks.undo  r == Stacks.redo
<1>1. UndoLinked(u, log) /\ RedoLinked(r, log)
  BY DEF Linked, Stacks
<1>2. /\ UndoTarget(log) = Target(log, "undo", 0)
      /\ RedoTarget(log) = IF Target(log, "redo", 0) # 0 /\ log[Target(log, "redo", 0)].kind = "undo"
                           THEN Target(log, "redo", 0) ELSE 0
  BY DEF UndoTarget, RedoTarget, Uncancelled, Target
<1> HIDE DEF u, r
<1>3. u \in Seq(StackEntry) /\ r \in Seq(StackEntry) /\ Len(u) \in Nat /\ Len(r) \in Nat
  BY <1>1 DEF UndoLinked, RedoLinked
<1>4. (u = <<>> <=> Len(u) = 0) /\ (r = <<>> <=> Len(r) = 0)
  BY <1>3
<1>5. Len(u) # 0 => Target(log, "undo", 0) \in 1..Len(log) /\ u[Len(u)] = EntryAt(log, Target(log, "undo", 0))
  <2> SUFFICES ASSUME Len(u) # 0
               PROVE  Target(log, "undo", 0) \in 1..Len(log) /\ u[Len(u)] = EntryAt(log, Target(log, "undo", 0))
    OBVIOUS
  <2>1. 0 \in 0..(Len(u) - 1) /\ Len(u) - 0 = Len(u)
    BY <1>3
  <2> QED
    BY <1>1, <2>1 DEF UndoLinked
<1>6. Len(u) = 0 => Target(log, "undo", 0) = 0
  BY <1>1 DEF UndoLinked
<1>7. Len(r) # 0 => /\ Target(log, "redo", 0) \in 1..Len(log) /\ log[Target(log, "redo", 0)].kind = "undo"
                    /\ r[Len(r)] = EntryAt(log, Target(log, "redo", 0))
  <2> SUFFICES ASSUME Len(r) # 0
               PROVE  /\ Target(log, "redo", 0) \in 1..Len(log) /\ log[Target(log, "redo", 0)].kind = "undo"
                      /\ r[Len(r)] = EntryAt(log, Target(log, "redo", 0))
    OBVIOUS
  <2>1. 0 \in 0..(Len(r) - 1) /\ Len(r) - 0 = Len(r)
    BY <1>3
  <2> QED
    BY <1>1, <2>1 DEF RedoLinked
<1>8. Len(r) = 0 => RedoTarget(log) = 0
  BY <1>1, <1>2 DEF RedoLinked
<1>9. UndoTarget(log) = 0 <=> Len(u) = 0
  BY <1>2, <1>5, <1>6
<1>10. RedoTarget(log) = 0 <=> Len(r) = 0
  BY <1>2, <1>7, <1>8
<1>11. UndoTarget(log) # 0 => Last(u) = EntryAt(log, UndoTarget(log))
  BY <1>2, <1>5, <1>9 DEF Last
<1>12. RedoTarget(log) # 0 => Last(r) = EntryAt(log, RedoTarget(log))
  BY <1>2, <1>7, <1>10 DEF Last
<1> QED
  BY <1>4, <1>9, <1>10, <1>11, <1>12 DEF u, r

THEOREM SearchesEnd == LogSpec => []SearchesEndWithTheStacks
<1>1. LogInv => SearchesEndWithTheStacks
  BY LinkedTops DEF LogInv, SearchesEndWithTheStacks
<1> QED
  BY <1>1, LogInvHolds, PTL

(* What the interface names, by peeling the chosen snapshot, is the operation *)
(* that the undo takes back or the redo does again.                           *)
THEOREM NamedOperation == LogSpec => []NamesTheOperation
<1>1. LogInv => NamesTheOperation
  <2> SUFFICES ASSUME LogInv, ~stale
               PROVE  /\ UndoTarget(log) # 0 => Peel(log, UndoTarget(log)) = OperationOnTop(Stacks.undo)
                      /\ RedoTarget(log) # 0 => Peel(log, RedoTarget(log)) = OperationOnTop(Stacks.redo)
    BY DEF NamesTheOperation
  <2>1. LogTypeOK /\ Linked(log)
    BY DEF LogInv
  <2>2. \A i : EntryAt(log, i).op = Peel(log, i)
    BY DEF EntryAt
  <2> QED
    BY <2>1, <2>2, LinkedTops DEF OperationOnTop
<1> QED
  BY <1>1, LogInvHolds, PTL

(* Undoing a restore, or redoing an undo, right after it leads back to the    *)
(* state it replaced, also of a restore that another client had overtaken.    *)
THEOREM TakenBack == LogSpec => RestoreCanBeTakenBack
<1>1. ASSUME LogInv, [LogNext]_logVars, NEW c \in Client, Restore(c)
      PROVE  LET back == IF chosen[c].kind = "undo" THEN RedoTarget(log') ELSE UndoTarget(log')
             IN  back # 0 /\ log'[back].state = project
  <2> DEFINE e == [kind |-> chosen[c].kind, state |-> project, from |-> chosen[c].target]
             n == Len(log) + 1
  <2>1. /\ chosen[c].kind \in RestoreKind /\ chosen[c].target \in 1..Len(log)
        /\ Record(chosen[c].kind, chosen[c].target) /\ Len(log) < MaxLog /\ Len(log) \in Nat
    <3>1. Len(log) \in Nat
      BY <1>1, TypedLogIsWellFormed, OplogAssumption DEF LogInv
    <3>2. Len(log) < MaxLog
      BY <1>1 DEF Restore
    <3> QED
      BY <1>1, <3>1, <3>2, RestoredIsChosen
  <2>2. log' = Append(log, e) /\ Appendable(log, e)
    <3>1. /\ chosen[c].kind \in {"op"} \cup RestoreKind /\ chosen[c].target \in 0..Len(log)
          /\ chosen[c].target # 0
      BY <2>1
    <3> QED
      BY <1>1, <2>1, <3>1, RecordKeepsTheLog DEF LogInv
  <2>3. e.kind = chosen[c].kind /\ e.state = project
    OBVIOUS
  <2> HIDE DEF e
  <2>4. log'[n] = e /\ n # 0 /\ log \in Seq(LogEntry) /\ e \in LogEntry
    BY <2>1, <2>2, EntryOfAppend DEF Appendable, WellFormed
  <2>5. \A kind : e.kind # kind => Target(log', kind, 0) = n
    BY <2>2, <2>4, TargetOfAppend
  <2>6. chosen[c].kind = "undo" => RedoTarget(log') = n
    BY <2>3, <2>4, <2>5 DEF RedoTarget, Uncancelled, Target
  <2>7. chosen[c].kind # "undo" => UndoTarget(log') = n
    BY <2>3, <2>5 DEF UndoTarget, Uncancelled, Target
  <2> QED
    BY <2>3, <2>4, <2>6, <2>7
<1>2. LogInv /\ [LogNext]_logVars =>
        [\A c \in Client :
            (Restore(c) /\ project' # project)
                => LET back == IF chosen[c].kind = "undo" THEN RedoTarget(log') ELSE UndoTarget(log')
                   IN  back # 0 /\ log'[back].state = project]_logVars
  BY <1>1
<1> QED
  BY <1>2, LogInvHolds, PTL DEF LogSpec, RestoreCanBeTakenBack

(* The log implements the pair of stacks: until an undo or a redo restores    *)
(* something else than the log then holds for it, every step of the log is a  *)
(* step of the stacks, or changes neither.                                    *)
LEMMA InitOfStacks == LogInit => Abstract!Init
<1> SUFFICES ASSUME LogInit PROVE Abstract!Init
  OBVIOUS
<1>1. project \in 0..MaxState
  BY OplogAssumption DEF LogInit
<1>2. Stacks.undo = <<>> /\ Stacks.redo = <<>>
  BY StacksOfNone DEF Stacks, EmptyStacks, LogInit
<1> QED
  BY <1>1, <1>2 DEF Abstract!Init

LEMMA SameEnds == \A s : Abstract!Last(s) = Last(s) /\ Abstract!Front(s) = Front(s)
BY DEF Abstract!Last, Abstract!Front, Last, Front

LEMMA RecordIsAStep ==
    ASSUME LogInv, LogInv', ~stale, Len(log) < MaxLog, NEW kind \in {"op"} \cup RestoreKind,
           NEW from \in 0..Len(log), kind # "op" => from # 0, Record(kind, from), OnTime(kind, from),
           kind # "op" => project' = log[from].state
    PROVE  Abstract!Next
<1> DEFINE e == [kind |-> kind, state |-> project, from |-> from]
<1>1. log' = Append(log, e) /\ Appendable(log, e) /\ Linked(log)
  BY RecordKeepsTheLog DEF LogInv
<1>2. e.kind = kind /\ e.from = from /\ e.state = project
  OBVIOUS
<1> HIDE DEF e
<1>3. project' \in 0..MaxState
  BY OplogAssumption DEF LogInv, LogTypeOK
<1>4. Stacks = StacksOf(log) /\ Stacks' = StacksOf(log')
  BY DEF Stacks
<1>5. CASE kind = "undo"
  <2>1. /\ Stacks.undo # <<>> /\ project' = Last(Stacks.undo).state
        /\ Stacks'.undo = Front(Stacks.undo)
        /\ Stacks'.redo = Append(Stacks.redo, [state |-> project, op |-> Last(Stacks.undo).op])
    BY <1>1, <1>2, <1>4, <1>5, UndoneIsLinked DEF OnTime
  <2> QED
    BY <2>1, SameEnds DEF Abstract!Next, Abstract!Undo
<1>6. CASE kind = "redo"
  <2>1. /\ Stacks.redo # <<>> /\ project' = Last(Stacks.redo).state
        /\ Stacks'.redo = Front(Stacks.redo)
        /\ Stacks'.undo = Append(Stacks.undo, [state |-> project, op |-> Last(Stacks.redo).op])
    BY <1>1, <1>2, <1>4, <1>6, RedoneIsLinked DEF OnTime
  <2> QED
    BY <2>1, SameEnds DEF Abstract!Next, Abstract!Redo
<1>7. CASE kind \notin {"undo", "redo"}
  <2> DEFINE op == Peel(log', Len(log) + 1)
  <2>1. /\ Stacks'.undo = Append(Stacks.undo, EntryAt(log', Len(log) + 1))
        /\ Stacks'.redo = <<>>
    BY <1>1, <1>2, <1>4, <1>7, DoneIsLinked
  <2>2. EntryAt(log', Len(log) + 1) = [state |-> project, op |-> op] /\ op \in 1..MaxLog
    BY <1>1, <1>2, EntryOfAppend DEF Appendable, EntryAt, StackEntry
  <2> HIDE DEF op
  <2>3. Abstract!Do(op)
    BY <1>3, <2>1, <2>2 DEF Abstract!Do
  <2> QED
    BY <2>2, <2>3 DEF Abstract!Next
<1> QED
  BY <1>5, <1>6, <1>7

THEOREM LogImplementsUndoStack == LogSpec => ImplementsUndoStack
<1>1. ASSUME LogInv, LogInv', [LogNext]_logVars PROVE [stale' \/ Abstract!Next]_<<log, project>>
  <2> SUFFICES ASSUME ~stale' PROVE Abstract!Next \/ UNCHANGED <<log, project>>
    OBVIOUS
  <2>1. Len(log) \in Nat /\ project' \in 0..MaxState
    BY <1>1, TypedLogIsWellFormed, OplogAssumption DEF LogInv, LogTypeOK
  <2>2. CASE Operate \/ RecordOnly
    <3>1. Record("op", 0) /\ Len(log) < MaxLog /\ ~stale
      BY <2>2 DEF Operate, RecordOnly
    <3>2. OnTime("op", 0)
      BY DEF OnTime
    <3> QED
      BY <1>1, <2>1, <3>1, <3>2, RecordIsAStep
  <2>3. CASE ChangeUnrecorded
    <3>1. Stacks' = Stacks
      BY <2>3 DEF ChangeUnrecorded, Stacks
    <3>2. Abstract!Drift
      BY <2>1, <3>1 DEF Abstract!Drift
    <3> QED
      BY <3>2 DEF Abstract!Next
  <2>4. ASSUME NEW c \in Client, Restore(c) PROVE Abstract!Next
    <3>1. /\ chosen[c].kind \in RestoreKind /\ chosen[c].target \in 1..Len(log)
          /\ Record(chosen[c].kind, chosen[c].target)
          /\ ~stale /\ OnTime(chosen[c].kind, chosen[c].target)
      BY <1>1, <2>4, RestoredIsChosen
    <3>2. /\ chosen[c].kind \in {"op"} \cup RestoreKind /\ chosen[c].target \in 0..Len(log)
          /\ chosen[c].target # 0
      BY <2>1, <3>1
    <3>3. Len(log) < MaxLog /\ project' = log[chosen[c].target].state
      BY <2>4 DEF Restore
    <3> QED
      BY <1>1, <3>1, <3>2, <3>3, RecordIsAStep
  <2>5. CASE UNCHANGED logVars
    BY <2>5 DEF logVars
  <2>6. ASSUME NEW c \in Client, ChooseUndo(c) \/ ChooseRedo(c) \/ ChooseRestore(c) \/ Decline(c)
        PROVE  UNCHANGED <<log, project>>
    BY <2>6 DEF ChooseUndo, ChooseRedo, ChooseRestore, Decline
  <2> QED
    BY <1>1, <2>2, <2>3, <2>4, <2>5, <2>6 DEF LogNext
<1>2. LogInv /\ LogInv' /\ [LogNext]_logVars => [stale' \/ Abstract!Next]_<<log, project>>
  BY <1>1
<1>3. LogSpec => Abstract!Init
  BY InitOfStacks DEF LogSpec
<1> QED
  BY <1>2, <1>3, LogInvHolds, PTL DEF LogSpec, ImplementsUndoStack
=============================================================================
