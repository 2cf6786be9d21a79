-------------------------- MODULE Workspace_proof --------------------------
(* Proofs about the two parts of MCWorkspace: RepoAccess, for every set of    *)
(* threads, processes and hook processes and every bound on failures and      *)
(* crashes, and GraphRebase, for every set of workspaces and every number of  *)
(* operations.                                                                *)
EXTENDS MCWorkspace, SequenceTheorems, Induction, TLAPS

-----------------------------------------------------------------------------
(* The lock.                                                                  *)

\* The state of the in-process lock agrees with what the threads believe.
LockLinked ==
    /\ \A t \in Thread : pc[t] \in HasWriteLock => writer[ProcOf[t]] = t
    /\ \A t \in Thread : pc[t] = "shared" => t \in readers[ProcOf[t]]
    /\ \A p \in Process : writer[p] # NoThread => readers[p] = {}

\* The file lock agrees with the guards, and every live guard knows how it
\* got past the file lock.
FileLinked ==
    /\ \A t \in Thread : guard[t] = "file" <=> fileLock = t
    /\ \A t \in Thread : pc[t] \in Exclusive <=> guard[t] # "none"
    /\ \A t \in Thread : guard[t] = "skipped" => ProcOf[t] \in HookProcess

\* A launcher waits for exactly one hook process.
HookLinked ==
    \A p \in Process : \A t \in Thread :
        launcher[p] = t => /\ pc[t] = "inHook"
                           /\ \A q \in Process : launcher[q] = t => q = p

IInv == TypeOK /\ LockLinked /\ FileLinked /\ HookLinked

-----------------------------------------------------------------------------
LEMMA AccessStep ==
    ASSUME TypeOK, [Next]_vars
    PROVE  TypeOK'
<1> USE AccessAssumption
<1> USE DEF TypeOK, Parked, HasWriteLock, Exclusive
<1>1. ASSUME NEW t \in Thread, RequestShared(t) \/ RequestExclusive(t) PROVE TypeOK'
  <2>1. ProcOf[t] \in Process /\ Append(queue[ProcOf[t]], t) \in Seq(Thread)
    OBVIOUS
  <2>2. CASE RequestShared(t)
    BY <2>1, <2>2 DEF RequestShared, Request
  <2>3. CASE RequestExclusive(t)
    BY <2>1, <2>3 DEF RequestExclusive, Request
  <2> QED
    BY <1>1, <2>2, <2>3
<1>2. ASSUME NEW t \in Thread, TryExclusive(t) PROVE TypeOK'
  BY <1>2 DEF TryExclusive
<1>3. ASSUME NEW t \in Thread, GrantShared(t) PROVE TypeOK'
  BY <1>3 DEF GrantShared, FirstInLine
<1>4. ASSUME NEW t \in Thread, GrantExclusive(t) PROVE TypeOK'
  BY <1>4 DEF GrantExclusive, FirstInLine
<1>5. ASSUME NEW t \in Thread, ReleaseShared(t) PROVE TypeOK'
  BY <1>5 DEF ReleaseShared
<1>6. ASSUME NEW t \in Thread, AcquireFile(t) \/ FileUnavailable(t) \/ HookContinues(t)
      PROVE TypeOK'
  <2>1. CASE AcquireFile(t)
    BY <2>1 DEF AcquireFile, lockVars
  <2>2. CASE FileUnavailable(t)
    BY <2>2 DEF FileUnavailable, lockVars
  <2>3. CASE HookContinues(t)
    BY <2>3 DEF HookContinues, lockVars
  <2> QED
    BY <1>6, <2>1, <2>2, <2>3
<1>7. ASSUME NEW t \in Thread, TryFileBusy(t) \/ ReleaseFile(t) \/ ReleaseExclusive(t)
      PROVE TypeOK'
  <2>1. CASE TryFileBusy(t)
    BY <2>1 DEF TryFileBusy, lockVars
  <2>2. CASE ReleaseFile(t)
    BY <2>2 DEF ReleaseFile, lockVars
  <2>3. CASE ReleaseExclusive(t)
    BY <2>3 DEF ReleaseExclusive, lockVars
  <2> QED
    BY <1>7, <2>1, <2>2, <2>3
<1>8. ASSUME NEW p \in Process, NEW t \in Thread, LaunchHook(t, p) PROVE TypeOK'
  BY <1>8 DEF LaunchHook, lockVars
<1>9. ASSUME NEW p \in Process, LaunchFromGit(p) \/ HookExits(p) PROVE TypeOK'
  BY <1>9 DEF LaunchFromGit, HookExits, Resumed, lockVars
<1>10. ASSUME NEW p \in Process, Crash(p) PROVE TypeOK'
  BY <1>10 DEF Crash, Resumed
<1>11. CASE UNCHANGED vars
  BY <1>11 DEF vars
<1> QED
  BY <1>1, <1>2, <1>3, <1>4, <1>5, <1>6, <1>7, <1>8, <1>9, <1>10, <1>11
     DEF Next, ThreadStep, Progress, ProcessStep

\* Every variable keeps its type, whatever the threads, hooks and crashes do.
THEOREM TypeCorrect == Spec => []TypeOK
<1>1. Init => TypeOK
  BY AccessAssumption DEF Init, TypeOK
<1>2. TypeOK /\ [Next]_vars => TypeOK'
  BY AccessStep
<1> QED
  BY <1>1, <1>2, PTL DEF Spec

-----------------------------------------------------------------------------
\* Steps of a thread keep the in-process lock and the threads in agreement.
LEMMA ThreadKeepsLock ==
    ASSUME TypeOK, LockLinked, NEW t \in Thread, ThreadStep(t)
    PROVE  LockLinked'
<1> USE AccessAssumption DEF TypeOK, LockLinked, HasWriteLock, Exclusive, lockVars
<1>1. CASE RequestShared(t) \/ RequestExclusive(t)
  BY <1>1 DEF RequestShared, RequestExclusive, Request, Parked
<1>2. CASE TryExclusive(t)
  BY <1>2 DEF TryExclusive
<1>3. CASE GrantShared(t)
  BY <1>3 DEF GrantShared
<1>4. CASE GrantExclusive(t)
  BY <1>4 DEF GrantExclusive
<1>5. CASE ReleaseShared(t)
  BY <1>5 DEF ReleaseShared
<1>6. CASE AcquireFile(t) \/ FileUnavailable(t) \/ HookContinues(t) \/ ReleaseFile(t)
  BY <1>6 DEF AcquireFile, FileUnavailable, HookContinues, ReleaseFile
<1>7. CASE TryFileBusy(t)
  BY <1>7 DEF TryFileBusy
<1>8. CASE ReleaseExclusive(t)
  BY <1>8 DEF ReleaseExclusive
<1> QED
  BY <1>1, <1>2, <1>3, <1>4, <1>5, <1>6, <1>7, <1>8 DEF ThreadStep, Progress

\* Hooks and crashes keep them in agreement too: a crash frees the lock of
\* its own process only, and a resumed launcher never lost its lock.
LEMMA ProcessKeepsLock ==
    ASSUME TypeOK, LockLinked, HookLinked, NEW p \in Process, ProcessStep(p)
    PROVE  LockLinked'
<1> USE AccessAssumption DEF TypeOK, LockLinked, HookLinked, HasWriteLock, Exclusive, lockVars
<1>1. CASE \E t \in Thread : LaunchHook(t, p)
  BY <1>1 DEF LaunchHook
<1>2. CASE LaunchFromGit(p)
  BY <1>2 DEF LaunchFromGit
<1>3. CASE HookExits(p)
  BY <1>3 DEF HookExits, Resumed
<1>4. CASE Crash(p)
  BY <1>4 DEF Crash, Resumed
<1> QED
  BY <1>1, <1>2, <1>3, <1>4 DEF ProcessStep

\* Steps of a thread keep the file lock and the guards in agreement.
LEMMA ThreadKeepsFile ==
    ASSUME TypeOK, FileLinked, NEW t \in Thread, ThreadStep(t)
    PROVE  FileLinked'
<1> USE AccessAssumption DEF TypeOK, FileLinked, Exclusive, lockVars
<1>1. CASE RequestShared(t) \/ RequestExclusive(t)
  BY <1>1 DEF RequestShared, RequestExclusive, Request
<1>2. CASE TryExclusive(t) \/ GrantShared(t) \/ GrantExclusive(t) \/ ReleaseShared(t)
  BY <1>2 DEF TryExclusive, GrantShared, GrantExclusive, ReleaseShared
<1>3. CASE AcquireFile(t)
  BY <1>3 DEF AcquireFile
<1>4. CASE FileUnavailable(t)
  BY <1>4 DEF FileUnavailable
<1>5. CASE HookContinues(t)
  BY <1>5 DEF HookContinues
<1>6. CASE TryFileBusy(t) \/ ReleaseExclusive(t)
  BY <1>6 DEF TryFileBusy, ReleaseExclusive
<1>7. CASE ReleaseFile(t)
  BY <1>7 DEF ReleaseFile
<1> QED
  BY <1>1, <1>2, <1>3, <1>4, <1>5, <1>6, <1>7 DEF ThreadStep, Progress

\* Hooks and crashes keep the file lock and the guards in agreement.
LEMMA ProcessKeepsFile ==
    ASSUME TypeOK, FileLinked, HookLinked, NEW p \in Process, ProcessStep(p)
    PROVE  FileLinked'
<1> USE AccessAssumption DEF TypeOK, FileLinked, HookLinked, Exclusive, lockVars
<1>1. CASE \E t \in Thread : LaunchHook(t, p)
  BY <1>1 DEF LaunchHook
<1>2. CASE LaunchFromGit(p)
  BY <1>2 DEF LaunchFromGit
<1>3. CASE HookExits(p)
  BY <1>3 DEF HookExits, Resumed
<1>4. CASE Crash(p)
  BY <1>4 DEF Crash, Resumed
<1> QED
  BY <1>1, <1>2, <1>3, <1>4 DEF ProcessStep

\* A thread that waits for a hook takes no step, so its hook stays its own.
LEMMA ThreadKeepsHooks ==
    ASSUME TypeOK, HookLinked, NEW t \in Thread, ThreadStep(t)
    PROVE  HookLinked'
BY DEF TypeOK, HookLinked, ThreadStep, Progress, RequestShared, RequestExclusive, Request,
       TryExclusive, GrantShared, GrantExclusive, ReleaseShared, AcquireFile,
       FileUnavailable, HookContinues, TryFileBusy, ReleaseFile, ReleaseExclusive

\* Launching, exiting and crashing leave each launcher with one hook process.
LEMMA ProcessKeepsHooks ==
    ASSUME TypeOK, HookLinked, NEW p \in Process, ProcessStep(p)
    PROVE  HookLinked'
<1> USE AccessAssumption DEF TypeOK, HookLinked
<1>1. CASE \E t \in Thread : LaunchHook(t, p)
  BY <1>1 DEF LaunchHook
<1>2. CASE LaunchFromGit(p)
  BY <1>2 DEF LaunchFromGit
<1>3. CASE HookExits(p)
  BY <1>3 DEF HookExits, Resumed
<1>4. CASE Crash(p)
  BY <1>4 DEF Crash, Resumed
<1> QED
  BY <1>1, <1>2, <1>3, <1>4 DEF ProcessStep

\* The strengthened invariant holds in every reachable state.
THEOREM AccessInductive == Spec => []IInv
<1>1. Init => IInv
  BY AccessAssumption
     DEF Init, IInv, TypeOK, LockLinked, FileLinked, HookLinked, HasWriteLock, Exclusive
<1>2. TypeOK /\ TypeOK' /\ IInv /\ [Next]_vars => IInv'
  <2> SUFFICES ASSUME TypeOK', IInv, [Next]_vars PROVE IInv'
    OBVIOUS
  <2>1. ASSUME NEW t \in Thread, ThreadStep(t) PROVE IInv'
    BY <2>1, ThreadKeepsLock, ThreadKeepsFile, ThreadKeepsHooks DEF IInv
  <2>2. ASSUME NEW p \in Process, ProcessStep(p) PROVE IInv'
    BY <2>2, ProcessKeepsLock, ProcessKeepsFile, ProcessKeepsHooks DEF IInv
  <2>3. CASE UNCHANGED vars
    BY <2>3 DEF vars, IInv, TypeOK, LockLinked, FileLinked, HookLinked
  <2> QED
    BY <2>1, <2>2, <2>3 DEF Next
<1> QED
  BY <1>1, <1>2, TypeCorrect, PTL DEF Spec

\* Mutual exclusion within a process: a thread that has the in-process write
\* lock of exclusive_repo_access is alone there.
THEOREM MutualExclusion == Spec => []InProcessExclusion
<1>1. IInv => InProcessExclusion
  BY AccessAssumption
     DEF IInv, TypeOK, LockLinked, InProcessExclusion, HasWriteLock, Exclusive
<1> QED
  BY <1>1, AccessInductive, PTL

\* Two exclusive guards exist at once only when one of them was excused from
\* the file lock.
THEOREM OverlapExcused == Spec => []OverlapIsExcused
<1>1. IInv => OverlapIsExcused
  BY AccessAssumption DEF IInv, TypeOK, FileLinked, OverlapIsExcused, Exclusive
<1> QED
  BY <1>1, AccessInductive, PTL

\* The owner of gitbutler.write-lock is always a live guard.
THEOREM NeverStale == Spec => []FileLockNeverStale
<1>1. IInv => FileLockNeverStale
  BY DEF IInv, FileLinked, FileLockNeverStale
<1> QED
  BY <1>1, AccessInductive, PTL

\* A hook started under a guard runs while that guard keeps its file lock.
THEOREM HookCovered == Spec => []HookCoveredByParent
<1>1. IInv => HookCoveredByParent
  BY DEF IInv, FileLinked, HookLinked, HookCoveredByParent
<1> QED
  BY <1>1, AccessInductive, PTL

-----------------------------------------------------------------------------
\* The permission tokens of a state, as the refinement mapping reads them.
Token == [t \in Thread |-> TokenOf(pc[t])]

\* When one thread moves, its token changes and no other.
LEMMA TokenChanges ==
    ASSUME TypeOK, NEW t \in Thread, NEW state, pc' = [pc EXCEPT ![t] = state]
    PROVE  Token' = [Token EXCEPT ![t] = TokenOf(state)]
BY DEF TypeOK, Token

\* Steps of a thread map to taking a token, giving it back, or nothing: a
\* token is taken only when no other thread of the process rules it out.
LEMMA ThreadRefines ==
    ASSUME IInv, TypeOK', NEW t \in Thread, ThreadStep(t)
    PROVE  [Permission!Next]_Token
<1> USE AccessAssumption DEF TokenOf, HasWriteLock, Exclusive, Parked
<1>1. ASSUME NEW state, pc' = [pc EXCEPT ![t] = state], TokenOf(state) = TokenOf(pc[t])
      PROVE  UNCHANGED Token
  BY <1>1 DEF Token, IInv, TypeOK
<1>2. CASE RequestShared(t) \/ RequestExclusive(t)
  BY <1>1, <1>2 DEF RequestShared, RequestExclusive, Request
<1>3. CASE TryExclusive(t) \/ GrantExclusive(t)
  BY <1>1, <1>3 DEF TryExclusive, GrantExclusive
<1>4. CASE TryFileBusy(t) \/ ReleaseExclusive(t)
  BY <1>1, <1>4 DEF TryFileBusy, ReleaseExclusive
<1>5. CASE GrantShared(t)
  <2>1. pc[t] = "queuedRead" /\ pc' = [pc EXCEPT ![t] = "shared"]
    BY <1>5 DEF GrantShared
  <2>2. Token[t] = "none" /\ Token' = [Token EXCEPT ![t] = "shared"]
    BY <2>1, TokenChanges DEF IInv, Token
  <2>3. \A u \in Permission!Others(t) : Token[u] # "exclusive"
    BY <1>5 DEF GrantShared, IInv, TypeOK, LockLinked, Permission!Others, Token
  <2> QED
    BY <2>2, <2>3 DEF Permission!Next, Permission!TakeShared, Token
<1>6. CASE AcquireFile(t) \/ FileUnavailable(t) \/ HookContinues(t)
  <2>1. pc[t] \in {"wantFile", "tryFile"} /\ pc' = [pc EXCEPT ![t] = "exclusive"]
    BY <1>6 DEF AcquireFile, FileUnavailable, HookContinues
  <2>2. Token[t] = "none" /\ Token' = [Token EXCEPT ![t] = "exclusive"]
    BY <2>1, TokenChanges DEF IInv, Token
  <2>3. ASSUME NEW u \in Permission!Others(t) PROVE Token[u] = "none"
    <3>1. u \in Thread /\ u # t /\ ProcOf[u] = ProcOf[t] /\ ProcOf[t] \in Process
      BY DEF Permission!Others
    <3>2. writer[ProcOf[u]] = t /\ readers[ProcOf[u]] = {}
      BY <2>1, <3>1 DEF IInv, LockLinked
    <3>3. pc[u] \notin HasWriteLock /\ pc[u] # "shared"
      BY <3>1, <3>2 DEF IInv, LockLinked
    <3> QED
      BY <3>1, <3>3 DEF Token
  <2> QED
    BY <2>2, <2>3 DEF Permission!Next, Permission!TakeExclusive, Token
<1>7. CASE ReleaseShared(t) \/ ReleaseFile(t)
  <2>1. /\ pc[t] \in {"shared", "exclusive"}
        /\ \E state \in {"idle", "fileReleased"} : pc' = [pc EXCEPT ![t] = state]
    BY <1>7 DEF ReleaseShared, ReleaseFile
  <2>2. Token[t] # "none" /\ Token' = [Token EXCEPT ![t] = "none"]
    BY <2>1, TokenChanges DEF IInv, Token
  <2> QED
    BY <2>2 DEF Permission!Next, Permission!GiveBack, Token
<1> QED
  BY <1>2, <1>3, <1>4, <1>5, <1>6, <1>7 DEF ThreadStep, Progress

\* Launching a hook, leaving it and resuming its launcher change no token; a
\* crash takes away those of one process.
LEMMA ProcessRefines ==
    ASSUME IInv, NEW p \in Process, ProcessStep(p)
    PROVE  [Permission!Next]_Token
<1> USE AccessAssumption DEF Token, TokenOf, TypeOK, HasWriteLock, Exclusive, IInv, HookLinked
<1>1. CASE \E t \in Thread : LaunchHook(t, p)
  <2>1. UNCHANGED Token
    BY <1>1 DEF LaunchHook
  <2> QED
    BY <2>1
<1>2. CASE LaunchFromGit(p)
  BY <1>2 DEF LaunchFromGit
<1>3. CASE HookExits(p)
  <2>1. UNCHANGED Token
    BY <1>3 DEF HookExits, Resumed
  <2> QED
    BY <2>1
<1>4. CASE Crash(p)
  <2>1. Token' = [t \in Thread |-> IF ProcOf[t] = p THEN "none" ELSE Token[t]]
    BY <1>4 DEF Crash, Resumed
  <2> QED
    BY <2>1 DEF Permission!Next, Permission!ProcessEnds
<1> QED
  BY <1>1, <1>2, <1>3, <1>4 DEF ProcessStep

\* The guards of sync.rs implement the permission tokens they hand out.
THEOREM Refinement == Spec => ImplementsPermission
<1>1. Init => Permission!Init
  BY AccessAssumption DEF Init, Permission!Init, TokenOf, Exclusive
<1>2. IInv /\ TypeOK' /\ [Next]_vars => [Permission!Next]_Token
  <2> SUFFICES ASSUME IInv, TypeOK', [Next]_vars PROVE [Permission!Next]_Token
    OBVIOUS
  <2>1. CASE UNCHANGED vars
    BY <2>1 DEF vars, Token
  <2> QED
    BY <2>1, ThreadRefines, ProcessRefines DEF Next
<1> QED
  BY <1>1, <1>2, AccessInductive, TypeCorrect, PTL
     DEF Spec, ImplementsPermission, Permission!Spec, Token

\* A guard's file lock status never changes while it lives.
THEOREM Settled == Spec => GuardSettled
<1>1. IInv /\ [Next]_vars
        => \A t \in Thread : pc[t] \in Exclusive /\ pc'[t] \in Exclusive => guard'[t] = guard[t]
  <2> SUFFICES ASSUME IInv, [Next]_vars, NEW t \in Thread,
                      pc[t] \in Exclusive, pc'[t] \in Exclusive
               PROVE  guard'[t] = guard[t]
    OBVIOUS
  <2> USE AccessAssumption DEF IInv, TypeOK, Exclusive
  <2>1. ASSUME NEW u \in Thread, ThreadStep(u) PROVE guard'[t] = guard[t]
    BY <2>1
       DEF ThreadStep, Progress, RequestShared, RequestExclusive, Request, TryExclusive,
           GrantShared, GrantExclusive, ReleaseShared, AcquireFile, FileUnavailable,
           HookContinues, TryFileBusy, ReleaseFile, ReleaseExclusive
  <2>2. ASSUME NEW p \in Process, ProcessStep(p) PROVE guard'[t] = guard[t]
    BY <2>2 DEF ProcessStep, LaunchHook, LaunchFromGit, HookExits, Crash
  <2>3. CASE UNCHANGED vars
    BY <2>3 DEF vars
  <2> QED
    BY <2>1, <2>2, <2>3 DEF Next
<1> QED
  BY <1>1, AccessInductive, PTL DEF Spec, GuardSettled

-----------------------------------------------------------------------------
(* The rebase.                                                                *)
-----------------------------------------------------------------------------
(* What is repeated on the members of a set.                                  *)
IsIterate(f, F, start, times) ==
    f = [k \in 0..times |-> IF k = 0 THEN start ELSE F[f[k - 1]]]

LEMMA Stays ==
    ASSUME NEW T, NEW times \in Nat, NEW f, f[0] \in T,
           \A k \in 1..times : f[k - 1] \in T => f[k] \in T
    PROVE  \A k \in 0..times : f[k] \in T
<1> DEFINE S == {n \in Nat : n <= times => f[n] \in T}
<1>1. 0 \in S
  OBVIOUS
<1>2. ASSUME NEW n \in Nat, n \in S PROVE n + 1 \in S
  <2> SUFFICES ASSUME n + 1 <= times PROVE f[n + 1] \in T
    OBVIOUS
  <2>1. n + 1 \in 1..times /\ (n + 1) - 1 = n /\ f[n] \in T
    BY <1>2
  <2> QED
    BY <2>1
<1> HIDE DEF S
<1>3. Nat \subseteq S
  BY <1>1, <1>2, Inductive
<1> QED
  BY <1>3 DEF S

LEMMA IterateExists ==
    ASSUME NEW T, NEW F \in [T -> T], NEW start \in T, NEW times \in Nat
    PROVE  \E f : IsIterate(f, F, start, times) /\ \A k \in 0..times : f[k] \in T
<1> DEFINE S == {n \in Nat : \E f : IsIterate(f, F, start, n)}
<1>1. 0 \in S
  <2>1. IsIterate([k \in 0..0 |-> start], F, start, 0)
    BY DEF IsIterate
  <2> QED
    BY <2>1
<1>2. ASSUME NEW n \in Nat, n \in S PROVE n + 1 \in S
  <2>1. PICK f : IsIterate(f, F, start, n)
    BY <1>2
  <2> DEFINE g == [k \in 0..(n + 1) |-> IF k = 0 THEN start ELSE F[f[k - 1]]]
  <2>2. \A k \in 0..n : g[k] = f[k]
    BY <2>1 DEF IsIterate
  <2>3. ASSUME NEW k \in 0..(n + 1) PROVE g[k] = IF k = 0 THEN start ELSE F[g[k - 1]]
    <3> HIDE DEF S
    <3>1. g[k] = IF k = 0 THEN start ELSE F[f[k - 1]]
      OBVIOUS
    <3> HIDE DEF g
    <3>2. k # 0 => k - 1 \in 0..n
      OBVIOUS
    <3>3. k # 0 => g[k - 1] = f[k - 1]
      BY <2>2, <3>2
    <3> QED
      BY <3>1, <3>3
  <2>4. g = [k \in 0..(n + 1) |-> g[k]]
    OBVIOUS
  <2> HIDE DEF g
  <2>5. IsIterate(g, F, start, n + 1)
    BY <2>3, <2>4 DEF IsIterate
  <2> QED
    BY <2>5
<1> HIDE DEF S
<1>3. Nat \subseteq S
  BY <1>1, <1>2, Inductive
<1>4. PICK f : IsIterate(f, F, start, times)
  BY <1>3 DEF S
<1>5. f[0] \in T /\ \A k \in 1..times : f[k] = F[f[k - 1]]
  BY <1>4 DEF IsIterate
<1>6. \A k \in 0..times : f[k] \in T
  BY <1>5, Stays
<1> QED
  BY <1>4, <1>6

-----------------------------------------------------------------------------
(* Ranks in a sequence.                                                       *)
LEMMA SeqFacts ==
    ASSUME NEW T, NEW s \in Seq(T)
    PROVE  /\ DOMAIN s = 1..Len(s) /\ Len(s) \in Nat
           /\ \A i \in 1..Len(s) : s[i] \in T
           /\ IsFiniteSet(1..Len(s)) /\ Cardinality(1..Len(s)) = Len(s)
<1>1. DOMAIN s = 1..Len(s) /\ Len(s) \in Nat /\ \A i \in 1..Len(s) : s[i] \in T
  OBVIOUS
<1>2. IsFiniteSet(1..Len(s)) /\ Cardinality(1..Len(s)) = Len(s)
  <2>1. \A n \in Nat : IsFiniteSet(1..n) /\ Cardinality(1..n) = n
    BY FS_Interval
  <2> QED
    BY <1>1, <2>1
<1> QED
  BY <1>1, <1>2

LEMMA AtType ==
    ASSUME NEW T, NEW s \in Seq(T), NEW places \in SUBSET (1..Len(s))
    PROVE  /\ At(s, places) \in Seq(T)
           /\ \A k \in DOMAIN At(s, places) : \E i \in places : At(s, places)[k] = s[i]
<1>1. IsFiniteSet(1..Len(s)) /\ Len(s) \in Nat
  BY FS_Interval
<1>2. IsFiniteSet(places) /\ Cardinality(places) \in Nat
  BY <1>1, FS_Subset, FS_CardinalityType
<1> DEFINE c == Cardinality(places)
           p == [k \in 1..c |-> CHOOSE i \in places : Rank(places, i) = k]
<1>3. \A k \in 1..c : p[k] \in places
  BY <1>2, RankExists, places \in SUBSET Int
<1>4. At(s, places) = [k \in 1..c |-> s[p[k]]]
  BY DEF At, Rank
<1> HIDE DEF p
<1>5. \A i \in places : s[i] \in T
  BY \A i \in 1..Len(s) : s[i] \in T
<1>6. [k \in 1..c |-> s[p[k]]] \in Seq(T)
  <2> SUFFICES \A k \in 1..c : s[p[k]] \in T
    BY <1>2
  <2> QED
    BY <1>3, <1>5
<1>7. \A j \in DOMAIN [k \in 1..c |-> s[p[k]]] : \E i \in places : [k \in 1..c |-> s[p[k]]][j] = s[i]
  BY <1>3
<1> QED
  BY <1>4, <1>6, <1>7

-----------------------------------------------------------------------------
(* The stable sort by order.                                                  *)
EdgesIn(A) == [to : A, order : Nat]
Precedes(e, i, j) ==
    \/ e[i].order < e[j].order
    \/ e[i].order = e[j].order /\ i < j
Place(e, i) == Cardinality({j \in DOMAIN e : Precedes(e, j, i)}) + 1

LEMMA EdgeFacts ==
    ASSUME NEW A, NEW e \in EdgesIn(A)
    PROVE  e.to \in A /\ e.order \in Nat /\ e = Edge(e.to, e.order)
BY DEF EdgesIn, Edge

LEMMA EdgeInto ==
    ASSUME NEW A, NEW e \in EdgesIn(A), NEW B, e.to \in B
    PROVE  e \in EdgesIn(B)
BY DEF EdgesIn

LEMMA PlaceIsInjective ==
    ASSUME NEW A, NEW e \in Seq(EdgesIn(A)), NEW i \in 1..Len(e), NEW k \in 1..Len(e), Place(e, i) = Place(e, k)
    PROVE  i = k
<1> DEFINE D == 1..Len(e)
           Less(x) == {j \in D : Precedes(e, j, x)}
<1>1. DOMAIN e = D /\ IsFiniteSet(D) /\ \A j \in D : e[j].order \in Nat /\ j \in Nat
  BY SeqFacts, EdgeFacts
<1>2. \A x \in D : Place(e, x) = Cardinality(Less(x)) + 1 /\ IsFiniteSet(Less(x)) /\ Cardinality(Less(x)) \in Nat
  <2> TAKE x \in D
  <2>1. IsFiniteSet(Less(x)) /\ Cardinality(Less(x)) \in Nat
    BY <1>1, FS_Subset, FS_CardinalityType, Less(x) \subseteq D
  <2> QED
    BY <1>1, <2>1 DEF Place
<1>3. ASSUME NEW x \in D, NEW y \in D, Precedes(e, x, y) PROVE Place(e, x) # Place(e, y)
  <2>1. Less(x) \subseteq Less(y) /\ x \in Less(y) /\ x \notin Less(x)
    BY <1>1, <1>3 DEF Precedes
  <2>2. Cardinality(Less(x)) < Cardinality(Less(y))
    <3> HIDE DEF Less
    <3>1. Less(x) # Less(y)
      BY <2>1
    <3>2. Cardinality(Less(x)) <= Cardinality(Less(y)) /\ Cardinality(Less(x)) # Cardinality(Less(y))
      BY <1>2, <2>1, <3>1, FS_Subset
    <3> QED
      BY <1>2, <3>2
  <2> HIDE DEF Less
  <2> QED
    BY <1>2, <2>2
<1>4. i = k \/ Precedes(e, i, k) \/ Precedes(e, k, i)
  BY <1>1 DEF Precedes
<1> QED
  BY <1>3, <1>4

LEMMA PlaceRange ==
    ASSUME NEW A, NEW e \in Seq(EdgesIn(A)), NEW i \in 1..Len(e)
    PROVE  Place(e, i) \in 1..Len(e)
<1> DEFINE D == 1..Len(e)
           L == {j \in D : Precedes(e, j, i)}
<1>1. DOMAIN e = D /\ IsFiniteSet(D) /\ Cardinality(D) = Len(e) /\ Len(e) \in Nat
  BY SeqFacts
<1>2. e[i].order \in Nat
  BY SeqFacts, EdgeFacts
<1>3. i \notin L
  BY <1>2 DEF Precedes
<1>4. IsFiniteSet(L) /\ Cardinality(L) \in Nat /\ Cardinality(L) <= Len(e) /\ Cardinality(L) # Len(e)
  <2>1. L \subseteq D /\ L # D
    BY <1>3
  <2> HIDE DEF L, D
  <2> QED
    BY <1>1, <2>1, FS_Subset, FS_CardinalityType
<1> QED
  BY <1>1, <1>4 DEF Place

LEMMA PlaceExists ==
    ASSUME NEW A, NEW e \in Seq(EdgesIn(A)), NEW k \in 1..Len(e)
    PROVE  \E i \in 1..Len(e) : Place(e, i) = k
<1> SUFFICES ASSUME \A i \in 1..Len(e) : Place(e, i) # k PROVE FALSE
  OBVIOUS
<1> DEFINE D == 1..Len(e)
           T == D \ {k}
           f == [i \in D |-> Place(e, i)]
<1>1. IsFiniteSet(D) /\ Cardinality(D) = Len(e) /\ Len(e) \in Nat
  BY SeqFacts
<1>2. IsFiniteSet(T) /\ Cardinality(T) = Len(e) - 1
  BY <1>1, FS_RemoveElement
<1>3. f \in [D -> T]
  BY PlaceRange
<1>4. \E x, y \in D : x # y /\ f[x] = f[y]
  <2>1. Cardinality(T) < Cardinality(D)
    BY <1>1, <1>2
  <2> HIDE DEF f, T, D
  <2> QED
    BY <1>1, <1>2, <1>3, <2>1, FS_PigeonHole
<1> QED
  BY <1>4, PlaceIsInjective

LEMMA OrderedType ==
    ASSUME NEW A, NEW e \in Seq(EdgesIn(A))
    PROVE  /\ Ordered(e) \in Seq(EdgesIn(A)) /\ Len(Ordered(e)) = Len(e)
           /\ \A k \in DOMAIN Ordered(e) : \E i \in DOMAIN e : Ordered(e)[k] = e[i]
<1> DEFINE p == [k \in 1..Len(e) |-> CHOOSE i \in 1..Len(e) : Place(e, i) = k]
<1>1. \A k \in 1..Len(e) : p[k] \in 1..Len(e)
  BY PlaceExists
<1>2. Ordered(e) = [k \in 1..Len(e) |-> e[p[k]]]
  <2>1. DOMAIN e = 1..Len(e)
    BY SeqFacts
  <2>2. Ordered(e) = [k \in DOMAIN e |-> e[CHOOSE i \in DOMAIN e : Place(e, i) = k]]
    BY Zenon DEF Ordered, Place, Precedes
  <2> QED
    BY <2>1, <2>2
<1> HIDE DEF p
<1>3. \A k \in 1..Len(e) : e[p[k]] \in EdgesIn(A)
  BY <1>1
<1> QED
  BY <1>1, <1>2, <1>3

-----------------------------------------------------------------------------
(* Sequences that are joined.                                                 *)
IsFlat(f, seqs, n) == f = [i \in 1..n |-> IF i = 1 THEN seqs[i] ELSE f[i - 1] \o seqs[i]]

LEMMA FlatExists ==
    ASSUME NEW seqs, NEW n \in Nat
    PROVE  \E f : IsFlat(f, seqs, n)
<1> DEFINE S == {m \in Nat : \E f : IsFlat(f, seqs, m)}
<1>1. 0 \in S
  <2>1. IsFlat([i \in 1..0 |-> seqs[i]], seqs, 0)
    BY DEF IsFlat
  <2> QED
    BY <2>1
<1>2. ASSUME NEW m \in Nat, m \in S PROVE m + 1 \in S
  <2>1. PICK f : IsFlat(f, seqs, m)
    BY <1>2
  <2> DEFINE Body(i) == IF i = 1 THEN seqs[i] ELSE f[i - 1] \o seqs[i]
             g == [i \in 1..(m + 1) |-> Body(i)]
  <2>2. \A i \in 1..m : g[i] = f[i]
    <3>1. \A i \in 1..m : f[i] = Body(i)
      BY <2>1 DEF IsFlat
    <3> HIDE DEF Body
    <3> QED
      BY <3>1
  <2>3. \A i \in 1..(m + 1) : i # 1 => i - 1 \in 1..m
    OBVIOUS
  <2>4. \A i \in 1..(m + 1) : g[i] = IF i = 1 THEN seqs[i] ELSE g[i - 1] \o seqs[i]
    BY <2>2, <2>3
  <2>5. g = [i \in 1..(m + 1) |-> g[i]]
    OBVIOUS
  <2> HIDE DEF g
  <2>6. IsFlat(g, seqs, m + 1)
    BY <2>4, <2>5 DEF IsFlat
  <2> QED
    BY <2>6
<1> HIDE DEF S
<1>3. Nat \subseteq S
  BY <1>1, <1>2, Inductive
<1> QED
  BY <1>3 DEF S

LEMMA FlattenSeqType ==
    ASSUME NEW T, NEW seqs \in Seq(Seq(T))
    PROVE  FlattenSeq(seqs) \in Seq(T)
<1> DEFINE n == Len(seqs)
           f == CHOOSE h : IsFlat(h, seqs, n)
           S == {m \in Nat : m + 1 <= n => f[m + 1] \in Seq(T)}
<1>1. IsFlat(f, seqs, n)
  <2>1. n \in Nat
    OBVIOUS
  <2> HIDE DEF n
  <2> QED
    BY <2>1, FlatExists
<1>2. FlattenSeq(seqs) = IF n = 0 THEN seqs ELSE f[n]
  BY DEF FlattenSeq, IsFlat
<1>3. n \in Nat /\ \A i \in 1..n : seqs[i] \in Seq(T)
  OBVIOUS
<1> HIDE DEF f, n
<1>4. 0 \in S
  BY <1>1, <1>3 DEF IsFlat
<1>5. ASSUME NEW m \in Nat, m \in S PROVE m + 1 \in S
  <2> SUFFICES ASSUME (m + 1) + 1 <= n PROVE f[(m + 1) + 1] \in Seq(T)
    OBVIOUS
  <2>1. (m + 1) + 1 \in 1..n /\ (m + 1) + 1 # 1 /\ ((m + 1) + 1) - 1 = m + 1 /\ m + 1 <= n
    BY <1>3
  <2>2. f[(m + 1) + 1] = f[m + 1] \o seqs[(m + 1) + 1]
    BY <1>1, <2>1 DEF IsFlat
  <2>3. f[m + 1] \in Seq(T) /\ seqs[(m + 1) + 1] \in Seq(T)
    BY <1>3, <1>5, <2>1
  <2> QED
    BY <2>2, <2>3
<1> HIDE DEF S
<1>6. Nat \subseteq S
  BY <1>4, <1>5, Inductive
<1>7. CASE n = 0
  BY <1>2, <1>7 DEF n
<1>8. CASE n # 0
  <2>1. n - 1 \in S
    BY <1>3, <1>6, <1>8
  <2> QED
    BY <1>2, <1>3, <1>8, <2>1 DEF S
<1> QED
  BY <1>7, <1>8

-----------------------------------------------------------------------------
(* Graphs whose edges lead to A.                                              *)
IsGraph(g, A) ==
    /\ g = [step |-> g.step, edges |-> g.edges]
    /\ g.step = [n \in Nodes(g) |-> g.step[n]]
    /\ g.edges \in [Nodes(g) -> Seq(EdgesIn(A))]
    /\ IsFiniteSet(Nodes(g)) /\ A \subseteq Nodes(g)

LEMMA EdgesWithin ==
    ASSUME NEW A, NEW g, IsGraph(g, A), NEW n \in Nodes(g), NEW D, Targets(g, n) \subseteq D
    PROVE  g.edges[n] \in Seq(EdgesIn(D)) /\ Ordered(g.edges[n]) \in Seq(EdgesIn(D))
<1> DEFINE e == g.edges[n]
<1>1. e \in Seq(EdgesIn(A))
  BY DEF IsGraph
<1>2. \A i \in 1..Len(e) : e[i].to \in D
  <2>1. DOMAIN e = 1..Len(e)
    BY <1>1, SeqFacts
  <2> QED
    BY <2>1 DEF Targets
<1> HIDE DEF e
<1>3. \A i \in 1..Len(e) : e[i] \in EdgesIn(D)
  <2>1. \A i \in 1..Len(e) : e[i] \in EdgesIn(A)
    BY <1>1, SeqFacts
  <2> QED
    BY <1>2, <2>1 DEF EdgesIn
<1>4. e \in Seq(EdgesIn(D))
  BY <1>1, <1>3, IsASeq
<1> QED
  BY <1>4, OrderedType DEF e

Visits(g, D) ==
    [stack : Seq(EdgesIn(D)), seen : SUBSET D, parents : Seq(Picks(g) \cap D)]

LEMMA VisitType ==
    ASSUME NEW A, NEW g, IsGraph(g, A), NEW D \in SUBSET Nodes(g), \A m \in D : Targets(g, m) \subseteq D,
           NEW s \in Visits(g, D)
    PROVE  Visit(g, s) \in Visits(g, D)
<1> DEFINE node == s.stack[1].to
           further == Ordered(g.edges[node])
           Fresh(i) == /\ further[i].to \notin s.seen
                       /\ \A j \in DOMAIN further : j > i => further[j].to # further[i].to
           deeper == At(further, {i \in DOMAIN further : Fresh(i)})
           picked == [s EXCEPT !.stack = Tail(@), !.parents = Append(@, node)]
           entered == [s EXCEPT !.stack = deeper \o Tail(@), !.seen = @ \cup {e.to : e \in ToSet(deeper)}]
<1>1. Visit(g, s) = IF s.stack = <<>> THEN s ELSE IF g.step[node].kind = "Pick" THEN picked ELSE entered
  BY DEF Visit
<1>2. s.stack \in Seq(EdgesIn(D)) /\ s.seen \in SUBSET D /\ s.parents \in Seq(Picks(g) \cap D)
  BY DEF Visits
<1>3. CASE s.stack = <<>>
  BY <1>1, <1>3
<1>4. CASE s.stack # <<>>
  <2>1. node \in D /\ Tail(s.stack) \in Seq(EdgesIn(D))
    <3>1. Len(s.stack) \in Nat /\ Len(s.stack) # 0
      BY <1>2, <1>4, EmptySeq
    <3>2. s.stack[1] \in EdgesIn(D)
      BY <1>2, <3>1, SeqFacts
    <3> QED
      BY <1>2, <1>4, <3>2, EdgeFacts
  <2>2. node \in Nodes(g) /\ further \in Seq(EdgesIn(D))
    <3>1. node \in Nodes(g)
      BY <2>1 DEF IsGraph
    <3> HIDE DEF node
    <3> QED
      BY <2>1, <3>1, EdgesWithin
  <2> HIDE DEF node, further
  <2>3. deeper \in Seq(EdgesIn(D))
    <3> DEFINE places == {i \in DOMAIN further : Fresh(i)}
    <3>1. places \in SUBSET (1..Len(further))
      BY <2>2, SeqFacts
    <3> HIDE DEF places
    <3>2. At(further, places) \in Seq(EdgesIn(D))
      BY <2>2, <3>1, AtType
    <3> QED
      BY <3>2 DEF places
  <2> HIDE DEF deeper
  <2>4. CASE g.step[node].kind = "Pick"
    <3>1. node \in Picks(g) \cap D
      BY <2>1, <2>2, <2>4 DEF Picks
    <3>2. Append(s.parents, node) \in Seq(Picks(g) \cap D)
      BY <1>2, <3>1
    <3>3. picked \in Visits(g, D)
      BY <2>1, <3>2 DEF Visits
    <3> QED
      BY <1>1, <1>4, <2>4, <3>3
  <2>5. CASE g.step[node].kind # "Pick"
    <3>1. \A e \in ToSet(deeper) : e.to \in D
      BY <2>3, SeqFacts, EdgeFacts DEF ToSet
    <3>2. deeper \o Tail(s.stack) \in Seq(EdgesIn(D))
      BY <2>1, <2>3
    <3>3. s.seen \cup {e.to : e \in ToSet(deeper)} \in SUBSET D
      BY <1>2, <3>1
    <3>4. entered \in Visits(g, D)
      BY <3>2, <3>3 DEF Visits
    <3> QED
      BY <1>1, <1>4, <2>5, <3>4
  <2> QED
    BY <2>4, <2>5
<1> QED
  BY <1>3, <1>4

IsVisited(f, g, start, times) ==
    f = [k \in 0..times |->
            IF k = 0 THEN start ELSE CHOOSE y \in {Visit(g, x) : x \in {f[k - 1]}} : TRUE]

(* The search for the parents of a commit, from what it leads to.             *)
Start(g, n) == [stack |-> Ordered(g.edges[n]), seen |-> Targets(g, n), parents |-> <<>>]
IsSought(g, n, f, times) ==
    /\ times \in Nat /\ times = Len(Ordered(g.edges[n])) + Cardinality(Nodes(g))
    /\ f[0] = Start(g, n) /\ f[times].parents = ParentsOf(g, n)
    /\ \A k \in 1..times : f[k] = Visit(g, f[k - 1])

LEMMA ParentsSought ==
    ASSUME NEW A, NEW g, IsGraph(g, A), NEW D \in SUBSET Nodes(g), \A m \in D : Targets(g, m) \subseteq D,
           NEW n \in Nodes(g), Targets(g, n) \subseteq D
    PROVE  /\ Start(g, n) \in Visits(g, D)
           /\ \E f, times : IsSought(g, n, f, times)
<1> DEFINE first == Ordered(g.edges[n])
           start == [stack |-> first, seen |-> Targets(g, n), parents |-> <<>>]
           times == Len(first) + Cardinality(Nodes(g))
           F == [s \in Visits(g, D) |-> Visit(g, s)]
           f == CHOOSE h : IsVisited(h, g, start, times)
<1>1. F \in [Visits(g, D) -> Visits(g, D)]
  BY VisitType
<1>2. start \in Visits(g, D)
  BY EdgesWithin DEF Visits
<1>3. times \in Nat
  <2>1. first \in Seq(EdgesIn(D)) /\ Cardinality(Nodes(g)) \in Nat
    BY EdgesWithin, FS_CardinalityType DEF IsGraph
  <2> HIDE DEF first
  <2> QED
    BY <2>1
<1>4. ParentsOf(g, n) = f[times].parents
  BY DEF ParentsOf, Repeat, IsVisited
<1>5. start = Start(g, n) /\ times = Len(Ordered(g.edges[n])) + Cardinality(Nodes(g))
  BY DEF Start
<1> HIDE DEF start, times, F
<1>6. IsVisited(f, g, start, times)
  <2>1. PICK h : IsIterate(h, F, start, times) /\ \A k \in 0..times : h[k] \in Visits(g, D)
    BY <1>1, <1>2, <1>3, IterateExists
  <2> DEFINE Following(k) == CHOOSE y \in {Visit(g, x) : x \in {h[k - 1]}} : TRUE
  <2>2. \A k \in 1..times : F[h[k - 1]] = Following(k)
    BY <1>3, <2>1 DEF F
  <2> HIDE DEF Following
  <2>3. h = [k \in 0..times |-> IF k = 0 THEN start ELSE Following(k)]
    BY <1>3, <2>1, <2>2 DEF IsIterate
  <2>4. IsVisited(h, g, start, times)
    BY <2>3 DEF IsVisited, Following
  <2> QED
    BY <2>4
<1> HIDE DEF f
<1>7. f[0] = start /\ \A k \in 1..times : f[k] = Visit(g, f[k - 1])
  BY <1>3, <1>6 DEF IsVisited
<1>8. IsSought(g, n, f, times)
  BY <1>3, <1>4, <1>5, <1>7 DEF IsSought
<1> QED
  BY <1>2, <1>5, <1>8

(* What the search finds are commits among what lies below.                   *)
LEMMA ParentsOfType ==
    ASSUME NEW A, NEW g, IsGraph(g, A), NEW D \in SUBSET Nodes(g), \A m \in D : Targets(g, m) \subseteq D,
           NEW n \in Nodes(g), Targets(g, n) \subseteq D
    PROVE  ParentsOf(g, n) \in Seq(Picks(g) \cap D)
<1>1. PICK f, times : IsSought(g, n, f, times)
  BY ParentsSought
<1>2. Start(g, n) \in Visits(g, D)
  BY ParentsSought
<1>3. f[times] \in Visits(g, D)
  <2>1. /\ times \in Nat /\ f[0] \in Visits(g, D)
        /\ \A k \in 1..times : f[k] = Visit(g, f[k - 1])
    BY <1>1, <1>2 DEF IsSought
  <2> QED
    BY <2>1, VisitType, Stays
<1> QED
  BY <1>1, <1>3 DEF Visits, IsSought

-----------------------------------------------------------------------------
(* What lies below, and the order of picking.                                 *)
Lowered(g, S) == S \cup UNION {Targets(g, n) : n \in S}
IsLowered(f, g, start, times) ==
    f = [k \in 0..times |->
            IF k = 0 THEN start ELSE CHOOSE y \in {Lowered(g, S) : S \in {f[k - 1]}} : TRUE]

LEMMA TargetsType ==
    ASSUME NEW A, NEW g, IsGraph(g, A), NEW n \in Nodes(g)
    PROVE  Targets(g, n) \in SUBSET A
<1>1. g.edges[n] \in Seq(EdgesIn(A))
  BY DEF IsGraph
<1>2. \A i \in DOMAIN g.edges[n] : g.edges[n][i].to \in A
  BY <1>1, SeqFacts, EdgeFacts
<1> QED
  BY <1>2 DEF Targets

LEMMA BelowType ==
    ASSUME NEW A, NEW g, IsGraph(g, A), NEW nodes \in SUBSET Nodes(g)
    PROVE  Below(g, nodes) \in SUBSET Nodes(g)
<1> DEFINE times == Cardinality(Nodes(g))
           T == SUBSET Nodes(g)
           F == [S \in T |-> Lowered(g, S)]
           f == CHOOSE h : IsLowered(h, g, nodes, times)
<1>1. \A S \in T : Lowered(g, S) \in T
  BY TargetsType DEF IsGraph, Lowered
<1>2. F \in [T -> T] /\ nodes \in T
  BY <1>1
<1>3. times \in Nat
  BY FS_CardinalityType DEF IsGraph
<1>4. Below(g, nodes) = f[times]
  BY DEF Below, Repeat, IsLowered, Lowered
<1> HIDE DEF times, F, T
<1>5. IsLowered(f, g, nodes, times)
  <2>1. PICK h : IsIterate(h, F, nodes, times) /\ \A k \in 0..times : h[k] \in T
    BY <1>2, <1>3, IterateExists
  <2> DEFINE Following(k) == CHOOSE y \in {Lowered(g, S) : S \in {h[k - 1]}} : TRUE
  <2>2. \A k \in 1..times : F[h[k - 1]] = Following(k)
    BY <1>3, <2>1 DEF F
  <2> HIDE DEF Following
  <2>3. h = [k \in 0..times |-> IF k = 0 THEN nodes ELSE Following(k)]
    BY <1>3, <2>1, <2>2 DEF IsIterate
  <2>4. IsLowered(h, g, nodes, times)
    BY <2>3 DEF IsLowered, Following
  <2> QED
    BY <2>4
<1> HIDE DEF f
<1>6. f[0] = nodes /\ \A k \in 1..times : f[k] = Lowered(g, f[k - 1])
  BY <1>3, <1>5 DEF IsLowered
<1>7. \A k \in 0..times : f[k] \in T
  BY <1>1, <1>2, <1>3, <1>6, Stays
<1> QED
  BY <1>3, <1>4, <1>7 DEF T

Raised(g, reached, S) == S \cup {n \in reached : Targets(g, n) \subseteq S}
IsRaised(f, g, reached, start, times) ==
    f = [k \in 0..times |->
            IF k = 0 THEN start ELSE CHOOSE y \in {Raised(g, reached, S) : S \in {f[k - 1]}} : TRUE]

(* The steps to pick come in levels, each of which leads to lower ones only.  *)
Levels(f, g, times) ==
    /\ times \in Nat /\ f[0] = {} /\ f[times] = ToPick(g)
    /\ \A k \in 0..times : f[k] \subseteq Nodes(g)
    /\ \A k \in 1..times : f[k - 1] \subseteq f[k] /\ \A n \in f[k] : Targets(g, n) \subseteq f[k - 1]

LEMMA ToPickLevels ==
    ASSUME NEW A, NEW g, IsGraph(g, A)
    PROVE  \E f, times : Levels(f, g, times)
<1> DEFINE heads == {n \in Nodes(g) : Children(g, n) = {}}
           reached == Below(g, heads)
           times == Cardinality(reached)
           start == {}
           Closed == {S \in SUBSET reached : \A n \in S : Targets(g, n) \subseteq S}
           F == [S \in Closed |-> Raised(g, reached, S)]
           f == CHOOSE h : IsRaised(h, g, reached, start, times)
<1>1. reached \in SUBSET Nodes(g)
  BY BelowType
<1>2. times \in Nat
  BY <1>1, FS_Subset, FS_CardinalityType DEF IsGraph
<1>3. ToPick(g) = f[times]
  BY DEF ToPick, Repeat, IsRaised, Raised
<1> HIDE DEF reached, times
<1>4. \A S \in Closed : Raised(g, reached, S) \in Closed
  BY DEF Raised
<1>5. F \in [Closed -> Closed] /\ start \in Closed
  BY <1>4
<1> HIDE DEF Closed, F, start
<1>6. IsRaised(f, g, reached, start, times)
  <2>1. PICK h : IsIterate(h, F, start, times) /\ \A k \in 0..times : h[k] \in Closed
    BY <1>2, <1>5, IterateExists
  <2> DEFINE Following(k) == CHOOSE y \in {Raised(g, reached, S) : S \in {h[k - 1]}} : TRUE
  <2>2. \A k \in 1..times : F[h[k - 1]] = Following(k)
    BY <1>2, <2>1 DEF F
  <2> HIDE DEF Following
  <2>3. h = [k \in 0..times |-> IF k = 0 THEN start ELSE Following(k)]
    BY <1>2, <2>1, <2>2 DEF IsIterate
  <2>4. IsRaised(h, g, reached, start, times)
    BY <2>3 DEF IsRaised, Following
  <2> QED
    BY <2>4
<1> HIDE DEF f
<1>7. f[0] = start /\ \A k \in 1..times : f[k] = Raised(g, reached, f[k - 1])
  BY <1>2, <1>6 DEF IsRaised
<1>8. \A k \in 0..times : f[k] \in Closed
  BY <1>2, <1>4, <1>5, <1>7, Stays
<1>9. ASSUME NEW k \in 1..times PROVE f[k - 1] \subseteq f[k] /\ \A n \in f[k] : Targets(g, n) \subseteq f[k - 1]
  <2>1. f[k] = Raised(g, reached, f[k - 1]) /\ f[k - 1] \in Closed
    BY <1>2, <1>7, <1>8
  <2> QED
    BY <2>1 DEF Closed, Raised
<1>10. \A k \in 0..times : f[k] \subseteq Nodes(g)
  BY <1>1, <1>8 DEF Closed
<1>11. Levels(f, g, times)
  BY <1>2, <1>3, <1>7, <1>9, <1>10 DEF Levels, start
<1> QED
  BY <1>11

-----------------------------------------------------------------------------
(* The rebase.                                                                *)
IsCommit(c) == c = [changes |-> c.changes, edit |-> c.edit, parents |-> c.parents]
Kinds(g) ==
    \A n \in Nodes(g) :
        IF n \in References THEN g.step[n] = Reference
        ELSE \/ g.step[n] = Nothing
             \/ /\ g.step[n] = Pick(g.step[n].commit, g.step[n].tracked)
                /\ IsCommit(g.step[n].commit)

LEMMA PickFacts ==
    ASSUME NEW c, NEW t, NEW x
    PROVE  /\ Pick(c, t).kind = "Pick" /\ Pick(c, t).commit = c /\ Pick(c, t).tracked = t
           /\ [Pick(c, t) EXCEPT !.commit = x] = Pick(x, t)
BY DEF Pick

LEMMA CommitFacts ==
    ASSUME NEW x, NEW y, NEW z
    PROVE  IsCommit([changes |-> x, edit |-> y, parents |-> z])
BY DEF IsCommit

LEMMA StepKinds ==
    ASSUME NEW g, Kinds(g), NEW n \in Nodes(g)
    PROVE  /\ n \in Picks(g) => /\ n \notin References
                                /\ g.step[n] = Pick(g.step[n].commit, g.step[n].tracked)
                                /\ IsCommit(g.step[n].commit)
           /\ n \notin Picks(g) => IF n \in References THEN g.step[n] = Reference ELSE g.step[n] = Nothing
<1>1. IF n \in References THEN g.step[n] = Reference
      ELSE \/ g.step[n] = Nothing
           \/ g.step[n] = Pick(g.step[n].commit, g.step[n].tracked) /\ IsCommit(g.step[n].commit)
  BY DEF Kinds
<1>2. n \in Picks(g) <=> g.step[n].kind = "Pick"
  BY DEF Picks
<1>3. Reference.kind # "Pick" /\ Nothing.kind # "Pick"
  BY DEF Reference, Nothing
<1>4. Pick(g.step[n].commit, g.step[n].tracked).kind = "Pick"
  BY PickFacts
<1> QED
  BY <1>1, <1>2, <1>3, <1>4, Zenon

Onto(g, f, n) == [i \in DOMAIN ParentsOf(g, n) |-> f[ParentsOf(g, n)[i]]]
Repicked(g, f, n) ==
    IF Unmoved(g.step[n].commit, Onto(g, f, n)) THEN g.step[n].commit
    ELSE [g.step[n].commit EXCEPT !.parents = Onto(g, f, n)]
IsNew(f, g, S) == f = [n \in Picks(g) \cap S |-> Repicked(g, f, n)]

LEMMA RepickedCongruence ==
    ASSUME NEW g, NEW f, NEW h, NEW n, NEW S, NEW p, p = ParentsOf(g, n), p \in Seq(S), \A m \in S : f[m] = h[m]
    PROVE  Repicked(g, f, n) = Repicked(g, h, n)
<1>1. \A i \in DOMAIN p : p[i] \in S
  OBVIOUS
<1>2. Onto(g, f, n) = Onto(g, h, n)
  BY <1>1 DEF Onto
<1> QED
  BY <1>2 DEF Repicked

LEMMA NewExists ==
    ASSUME NEW A, NEW g, IsGraph(g, A)
    PROVE  \E f : IsNew(f, g, ToPick(g))
<1>1. PICK lv, times : Levels(lv, g, times)
  BY ToPickLevels
<1> DEFINE S == {k \in Nat : k <= times => \E f : IsNew(f, g, lv[k])}
<1>2. 0 \in S
  <2>1. Picks(g) \cap lv[0] = {}
    BY <1>1 DEF Levels
  <2>2. IsNew([n \in {} |-> 0], g, lv[0])
    BY <2>1 DEF IsNew
  <2> QED
    BY <2>2
<1>3. ASSUME NEW k \in Nat, k \in S PROVE k + 1 \in S
  <2> SUFFICES ASSUME k + 1 <= times PROVE \E f : IsNew(f, g, lv[k + 1])
    OBVIOUS
  <2>1. times \in Nat /\ k \in 0..times /\ k + 1 \in 1..times /\ (k + 1) - 1 = k
    BY <1>1 DEF Levels
  <2>2. PICK f : IsNew(f, g, lv[k])
    BY <1>3, <2>1
  <2>3. /\ lv[k] \subseteq lv[k + 1] /\ lv[k] \in SUBSET Nodes(g) /\ lv[k + 1] \subseteq Nodes(g)
        /\ \A n \in lv[k + 1] : Targets(g, n) \subseteq lv[k]
    BY <1>1, <2>1 DEF Levels
  <2> DEFINE h == [n \in Picks(g) \cap lv[k + 1] |-> Repicked(g, f, n)]
  <2>4. \A m \in Picks(g) \cap lv[k] : f[m] = h[m]
    BY <2>2, <2>3 DEF IsNew
  <2>5. ASSUME NEW n \in Picks(g) \cap lv[k + 1] PROVE Repicked(g, f, n) = Repicked(g, h, n)
    <3>1. ParentsOf(g, n) \in Seq(Picks(g) \cap lv[k])
      BY <2>3, ParentsOfType
    <3> HIDE DEF h
    <3> QED
      BY <2>4, <3>1, RepickedCongruence
  <2>6. \A n \in Picks(g) \cap lv[k + 1] : h[n] = Repicked(g, h, n)
    BY <2>5
  <2>7. h = [n \in Picks(g) \cap lv[k + 1] |-> h[n]]
    OBVIOUS
  <2> HIDE DEF h
  <2>8. IsNew(h, g, lv[k + 1])
    BY <2>6, <2>7 DEF IsNew
  <2> QED
    BY <2>8
<1> HIDE DEF S
<1>4. Nat \subseteq S
  BY <1>2, <1>3, Inductive
<1>5. times \in S /\ lv[times] = ToPick(g) /\ times \in Nat
  BY <1>1, <1>4 DEF Levels
<1> QED
  BY <1>5 DEF S

(* No node comes before itself: ranks grow along the edges.                   *)
Acyclic(g) ==
    \E rank \in [Nodes(g) -> Nat] : \A n \in Nodes(g) : \A m \in Targets(g, n) : rank[m] < rank[n]

LEMMA ToPickClosed ==
    ASSUME NEW A, NEW g, IsGraph(g, A)
    PROVE  /\ ToPick(g) \in SUBSET Nodes(g)
           /\ \A n \in ToPick(g) : Targets(g, n) \subseteq ToPick(g)
           /\ \E rank \in [ToPick(g) -> Nat] : \A n \in ToPick(g) : \A m \in Targets(g, n) : rank[m] < rank[n]
<1>1. PICK lv, times : Levels(lv, g, times)
  BY ToPickLevels
<1>2. times \in Nat /\ ToPick(g) = lv[times] /\ lv[times] \subseteq Nodes(g)
  BY <1>1 DEF Levels
<1>3. ASSUME NEW n \in ToPick(g)
      PROVE  \E k \in 1..times : n \in lv[k] /\ n \notin lv[k - 1]
  <2> DEFINE S == {k \in Nat : k <= times /\ n \in lv[k]}
  <2>1. PICK k \in S : \A j \in S : k <= j
    <3>1. times \in S /\ S \in SUBSET Nat
      BY <1>2
    <3> HIDE DEF S
    <3> QED
      BY <3>1, Least
  <2>2. k # 0
    BY <1>1, <2>1 DEF Levels
  <2>3. k \in 1..times /\ n \in lv[k] /\ k - 1 \in Nat /\ k - 1 <= times /\ ~(k <= k - 1)
    BY <1>2, <2>2
  <2>4. n \notin lv[k - 1]
    BY <2>1, <2>3
  <2> QED
    BY <2>3, <2>4
<1> DEFINE rank == [n \in ToPick(g) |-> CHOOSE k \in 1..times : n \in lv[k] /\ n \notin lv[k - 1]]
<1>0. rank = [n \in ToPick(g) |-> rank[n]]
  OBVIOUS
<1>4. \A n \in ToPick(g) : rank[n] \in 1..times /\ n \in lv[rank[n]] /\ n \notin lv[rank[n] - 1]
  BY <1>3
<1> HIDE DEF rank
<1>5. \A k \in 1..times : lv[k - 1] \subseteq lv[k] /\ \A n \in lv[k] : Targets(g, n) \subseteq lv[k - 1]
  BY <1>1 DEF Levels
<1>6. \A j, k \in 0..times : j <= k => lv[j] \subseteq lv[k]
  <2> TAKE j \in 0..times
  <2> DEFINE S == {k \in Nat : j + k <= times => lv[j] \subseteq lv[j + k]}
  <2>1. 0 \in S
    OBVIOUS
  <2>2. ASSUME NEW k \in Nat, k \in S PROVE k + 1 \in S
    <3> SUFFICES ASSUME j + (k + 1) <= times PROVE lv[j] \subseteq lv[j + (k + 1)]
      OBVIOUS
    <3>1. j + (k + 1) \in 1..times /\ (j + (k + 1)) - 1 = j + k /\ j + k <= times
      BY <1>2
    <3> QED
      BY <1>5, <2>2, <3>1
  <2> HIDE DEF S
  <2>3. Nat \subseteq S
    BY <2>1, <2>2, Inductive
  <2> TAKE k \in 0..times
  <2>4. j <= k => k - j \in S /\ j + (k - j) = k
    BY <2>3, k - j \in Int
  <2> QED
    BY <1>2, <2>4 DEF S
<1>7. ASSUME NEW n \in ToPick(g), NEW m \in Targets(g, n) PROVE m \in ToPick(g) /\ rank[m] < rank[n]
  <2>1. rank[n] \in 1..times /\ rank[n] - 1 \in 0..times /\ m \in lv[rank[n] - 1] /\ times \in 0..times
    BY <1>2, <1>4, <1>5
  <2>2. m \in ToPick(g)
    BY <1>2, <1>6, <2>1
  <2>3. rank[m] \in 1..times /\ rank[m] - 1 \in 0..times /\ m \notin lv[rank[m] - 1]
    BY <1>2, <1>4, <2>2
  <2>4. ~(rank[n] - 1 <= rank[m] - 1)
    BY <1>6, <2>1, <2>3
  <2> QED
    BY <2>1, <2>2, <2>3, <2>4
<1>8. rank \in [ToPick(g) -> Nat]
  <2>1. \A n \in ToPick(g) : rank[n] \in Nat
    BY <1>2, <1>4
  <2> QED
    BY <1>0, <2>1
<1> QED
  BY <1>2, <1>7, <1>8

LEMMA RebasedShape ==
    ASSUME NEW A, NEW g, IsGraph(g, A)
    PROVE  \E f : /\ IsNew(f, g, ToPick(g))
                  /\ Rebased(g) = [step |-> [n \in ToPick(g) |->
                                                IF n \in Picks(g) \cap ToPick(g) THEN [g.step[n] EXCEPT !.commit = f[n]]
                                                ELSE g.step[n]],
                                   edges |-> KeptEdges(g, ToPick(g))]
<1> DEFINE f == CHOOSE h : IsNew(h, g, ToPick(g))
<1>1. IsNew(f, g, ToPick(g))
  BY NewExists
<1>2. Rebased(g) = [step |-> [n \in ToPick(g) |->
                                 IF n \in Picks(g) \cap ToPick(g) THEN [g.step[n] EXCEPT !.commit = f[n]]
                                 ELSE g.step[n]],
                    edges |-> KeptEdges(g, ToPick(g))]
  BY DEF Rebased, IsNew, Repicked, Onto
<1> QED
  BY <1>1, <1>2

(* A rebased graph is a part of the graph, no node of it comes before itself, *)
(* and every commit is what it was, on what its parents have become.          *)
LEMMA RebasedIsGraph ==
    ASSUME NEW A, NEW g, IsGraph(g, A), NEW r, r = Rebased(g)
    PROVE  /\ IsGraph(r, A \cap Nodes(r)) /\ Nodes(r) = ToPick(g) /\ Nodes(r) \subseteq Nodes(g)
           /\ Acyclic(r)
<1>1. PICK f : r = [step |-> [n \in ToPick(g) |->
                                 IF n \in Picks(g) \cap ToPick(g) THEN [g.step[n] EXCEPT !.commit = f[n]]
                                 ELSE g.step[n]],
                    edges |-> KeptEdges(g, ToPick(g))]
  BY RebasedShape
<1>2. Nodes(r) = ToPick(g) /\ ToPick(g) \in SUBSET Nodes(g)
  BY <1>1, ToPickClosed DEF Nodes
<1>3. r.edges = [n \in ToPick(g) |-> Ordered(g.edges[n])]
  BY <1>1 DEF KeptEdges
<1>4. \A n \in ToPick(g) : Targets(g, n) \subseteq A \cap ToPick(g)
  BY <1>2, ToPickClosed, TargetsType
<1>5. \A n \in ToPick(g) : r.edges[n] \in Seq(EdgesIn(A \cap ToPick(g)))
  BY <1>2, <1>3, <1>4, EdgesWithin
<1>6. \A n \in ToPick(g) : Targets(r, n) \subseteq Targets(g, n)
  <2> SUFFICES ASSUME NEW n \in ToPick(g) PROVE Targets(r, n) \subseteq Targets(g, n)
    OBVIOUS
  <2>1. g.edges[n] \in Seq(EdgesIn(A))
    BY <1>2 DEF IsGraph
  <2>2. \A k \in DOMAIN Ordered(g.edges[n]) : \E i \in DOMAIN g.edges[n] : Ordered(g.edges[n])[k] = g.edges[n][i]
    BY <2>1, OrderedType
  <2>3. r.edges[n] = Ordered(g.edges[n])
    BY <1>3
  <2> QED
    BY <2>2, <2>3 DEF Targets
<1>7. IsGraph(r, A \cap Nodes(r))
  <2>1. IsFiniteSet(ToPick(g))
    BY <1>2, FS_Subset DEF IsGraph
  <2>2. r = [step |-> r.step, edges |-> r.edges]
    BY <1>1
  <2>3. r.step = [n \in Nodes(r) |-> r.step[n]]
    BY <1>1, <1>2
  <2>4. r.edges \in [ToPick(g) -> Seq(EdgesIn(A \cap ToPick(g)))]
    BY <1>3, <1>5
  <2> QED
    BY <1>2, <2>1, <2>2, <2>3, <2>4 DEF IsGraph
<1>8. Acyclic(r)
  BY <1>2, <1>6, ToPickClosed DEF Acyclic
<1> QED
  BY <1>2, <1>7, <1>8

IsRebased(g, r) ==
    /\ Kinds(r) /\ Picks(r) = Picks(g) \cap Nodes(r)
    /\ \A n \in Nodes(r) : r.step[n].kind = g.step[n].kind
    /\ \A n \in Picks(r) :
          /\ r.step[n].tracked = g.step[n].tracked
          /\ ParentsOf(g, n) \in Seq(Picks(r))
          /\ r.step[n].commit =
                [changes |-> g.step[n].commit.changes, edit |-> g.step[n].commit.edit,
                 parents |-> [i \in DOMAIN ParentsOf(g, n) |-> r.step[ParentsOf(g, n)[i]].commit]]

LEMMA RebasedSteps ==
    ASSUME NEW A, NEW g, IsGraph(g, A), Kinds(g), NEW r, r = Rebased(g)
    PROVE  IsRebased(g, r)
<1>1. PICK f : /\ IsNew(f, g, ToPick(g))
               /\ r = [step |-> [n \in ToPick(g) |->
                                   IF n \in Picks(g) \cap ToPick(g) THEN [g.step[n] EXCEPT !.commit = f[n]]
                                   ELSE g.step[n]],
                       edges |-> KeptEdges(g, ToPick(g))]
  BY RebasedShape
<1>2. Nodes(r) = ToPick(g) /\ ToPick(g) \in SUBSET Nodes(g)
  BY <1>1, ToPickClosed DEF Nodes
<1>3. \A n \in ToPick(g) : r.step[n] = IF n \in Picks(g) THEN [g.step[n] EXCEPT !.commit = f[n]] ELSE g.step[n]
  BY <1>1
<1>4. \A n \in Nodes(g) : g.step[n].kind = "Pick" <=> n \in Picks(g)
  BY DEF Picks
<1>5. \A n \in Picks(g) : /\ n \in Nodes(g) /\ n \notin References
                          /\ g.step[n] = Pick(g.step[n].commit, g.step[n].tracked) /\ IsCommit(g.step[n].commit)
  BY StepKinds DEF Picks
<1>6. \A n \in Picks(g) \cap ToPick(g) : r.step[n] = Pick(f[n], g.step[n].tracked)
  BY <1>2, <1>3, <1>5, PickFacts
<1>7. \A n \in Nodes(r) : r.step[n].kind = g.step[n].kind
  BY <1>2, <1>3, <1>4, <1>6 DEF Pick
<1>8. Picks(r) = Picks(g) \cap Nodes(r)
  BY <1>2, <1>7 DEF Picks
<1>9. ASSUME NEW n \in Picks(r)
      PROVE  /\ ParentsOf(g, n) \in Seq(Picks(r)) /\ IsCommit(f[n])
             /\ f[n] = [changes |-> g.step[n].commit.changes, edit |-> g.step[n].commit.edit,
                        parents |-> [i \in DOMAIN ParentsOf(g, n) |-> r.step[ParentsOf(g, n)[i]].commit]]
  <2> DEFINE c == g.step[n].commit
             p == ParentsOf(g, n)
  <2>1. n \in Picks(g) /\ n \in ToPick(g) /\ n \in Nodes(g) /\ IsCommit(c)
    BY <1>2, <1>5, <1>8
  <2>2. p \in Seq(Picks(g) \cap ToPick(g))
    BY <2>1, ToPickClosed, ParentsOfType
  <2>3. p \in Seq(Picks(r))
    BY <1>2, <1>8, <2>2
  <2>4. \A i \in DOMAIN p : p[i] \in Picks(g) \cap ToPick(g)
    BY <2>2, SeqFacts
  <2>5. \A i \in DOMAIN p : r.step[p[i]].commit = f[p[i]]
    BY <1>6, <2>4, PickFacts
  <2>6. Onto(g, f, n) = [i \in DOMAIN p |-> r.step[p[i]].commit]
    BY <2>5 DEF Onto
  <2>7. f[n] = Repicked(g, f, n)
    BY <1>1, <2>1 DEF IsNew
  <2> HIDE DEF p
  <2>8. f[n] = [changes |-> c.changes, edit |-> c.edit, parents |-> Onto(g, f, n)]
    BY <2>1, <2>7 DEF Repicked, Unmoved, IsCommit
  <2>9. IsCommit(f[n])
    BY <2>8, CommitFacts
  <2> QED
    BY <2>3, <2>6, <2>8, <2>9 DEF p
<1>10. \A n \in Picks(r) : r.step[n] = Pick(f[n], g.step[n].tracked)
  BY <1>2, <1>6, <1>8
<1>11. Kinds(r)
  <2> SUFFICES ASSUME NEW n \in Nodes(r)
               PROVE  IF n \in References THEN r.step[n] = Reference
                      ELSE \/ r.step[n] = Nothing
                           \/ /\ r.step[n] = Pick(r.step[n].commit, r.step[n].tracked)
                              /\ IsCommit(r.step[n].commit)
    BY DEF Kinds
  <2>1. CASE n \in Picks(r)
    <3>1. n \notin References /\ r.step[n] = Pick(f[n], g.step[n].tracked)
      BY <1>5, <1>8, <1>10, <2>1
    <3>3. IsCommit(f[n])
      BY <1>9, <2>1
    <3> QED
      BY <3>1, <3>3, PickFacts
  <2>2. CASE n \notin Picks(r)
    <3>1. n \notin Picks(g) /\ n \in Nodes(g) /\ r.step[n] = g.step[n]
      BY <1>2, <1>3, <1>8, <2>2
    <3>2. IF n \in References THEN g.step[n] = Reference ELSE g.step[n] = Nothing
      BY <3>1, StepKinds
    <3> QED
      BY <3>1, <3>2
  <2> QED
    BY <2>1, <2>2
<1>12. \A n \in Picks(r) : r.step[n].tracked = g.step[n].tracked /\ r.step[n].commit = f[n]
  BY <1>10, PickFacts
<1> QED
  BY <1>7, <1>8, <1>9, <1>11, <1>12 DEF IsRebased

-----------------------------------------------------------------------------
(* The rewiring.                                                              *)
LEMMA ImageFinite ==
    ASSUME NEW S, IsFiniteSet(S), NEW f, f = [x \in S |-> f[x]]
    PROVE  IsFiniteSet({f[x] : x \in S})
<1>1. f \in Surjection(S, {f[x] : x \in S})
  BY DEF Surjection
<1> QED
  BY <1>1, FS_Surjection

LEMMA GreatestOfFinite ==
    ASSUME NEW S \in SUBSET Nat, IsFiniteSet(S), S # {}
    PROVE  Max(S) \in S /\ \A x \in S : x <= Max(S)
<1> DEFINE c == Cardinality(S)
<1>1. c \in Nat /\ c # 0
  BY FS_CardinalityType, FS_EmptySet
<1>2. PICK m \in S : Rank(S, m) = c
  <2>1. c \in 1..c
    BY <1>1
  <2> QED
    BY <2>1, RankExists, S \in SUBSET Int
<1>3. {j \in S : j <= m} = S
  BY <1>2, FS_Subset, {j \in S : j <= m} \subseteq S DEF Rank
<1>4. \A j \in S : m >= j
  BY <1>3
<1>5. \E x \in S : \A y \in S : x >= y
  BY <1>4
<1>6. Max(S) \in S /\ \A y \in S : Max(S) >= y
  BY <1>5, Zenon DEF Max
<1> QED
  BY <1>6

LEMMA ToSetFacts ==
    ASSUME NEW T, NEW s \in Seq(T)
    PROVE  IsFiniteSet(ToSet(s)) /\ ToSet(s) \in SUBSET T
<1>1. DOMAIN s = 1..Len(s) /\ IsFiniteSet(1..Len(s)) /\ \A i \in 1..Len(s) : s[i] \in T
  BY SeqFacts
<1>2. s = [i \in 1..Len(s) |-> s[i]]
  OBVIOUS
<1>3. IsFiniteSet({s[i] : i \in 1..Len(s)})
  BY <1>1, <1>2, ImageFinite
<1> QED
  BY <1>1, <1>3 DEF ToSet

LEMMA BeyondType ==
    ASSUME NEW A, NEW edges \in SUBSET EdgesIn(A), IsFiniteSet(edges)
    PROVE  Beyond(edges) \in Nat
<1> DEFINE f == [e \in edges |-> e.order + 1]
           S == {f[e] : e \in edges} \cup {0}
<1>1. IsFiniteSet({f[e] : e \in edges})
  BY ImageFinite
<1>2. IsFiniteSet(S)
  BY <1>1, FS_AddElement
<1>3. S \in SUBSET Nat
  BY DEF EdgesIn
<1>4. S = {e.order + 1 : e \in edges} \cup {0}
  OBVIOUS
<1>5. S # {}
  OBVIOUS
<1> HIDE DEF S
<1>6. Max(S) \in S
  BY <1>2, <1>3, <1>5, GreatestOfFinite
<1> QED
  BY <1>3, <1>4, <1>6 DEF Beyond

LEMMA EdgesToType ==
    ASSUME NEW A, NEW e \in Seq(EdgesIn(A)), NEW S, NEW B,
           \A i \in DOMAIN e : e[i].to \in S => e[i].to \in B
    PROVE  EdgesTo(e, S) \in Seq(EdgesIn(B))
<1> DEFINE places == {i \in DOMAIN e : e[i].to \in S}
           t == At(e, places)
<1>1. places \in SUBSET (1..Len(e))
  BY SeqFacts
<1>2. \A i \in places : e[i] \in EdgesIn(B)
  <2>1. \A i \in places : e[i] \in EdgesIn(A) /\ e[i].to \in B
    BY <1>1, SeqFacts
  <2> QED
    BY <2>1, EdgeInto
<1>3. t \in Seq(EdgesIn(A)) /\ \A k \in DOMAIN t : \E i \in places : t[k] = e[i]
  <2> HIDE DEF places
  <2> QED
    BY <1>1, AtType
<1> HIDE DEF places, t
<1>4. \A k \in 1..Len(t) : t[k] \in EdgesIn(B)
  BY <1>2, <1>3, SeqFacts
<1>5. t \in Seq(EdgesIn(B))
  BY <1>3, <1>4, IsASeq
<1> QED
  BY <1>5 DEF EdgesTo, t, places

LEMMA EdgesNotToType ==
    ASSUME NEW A, NEW e \in Seq(EdgesIn(A)), NEW S, NEW B,
           \A i \in DOMAIN e : e[i].to \notin S => e[i].to \in B
    PROVE  EdgesNotTo(e, S) \in Seq(EdgesIn(B))
<1> DEFINE places == {i \in DOMAIN e : e[i].to \notin S}
           t == At(e, places)
<1>1. places \in SUBSET (1..Len(e))
  BY SeqFacts
<1>2. \A i \in places : e[i] \in EdgesIn(B)
  <2>1. \A i \in places : e[i] \in EdgesIn(A) /\ e[i].to \in B
    BY <1>1, SeqFacts
  <2> QED
    BY <2>1, EdgeInto
<1>3. t \in Seq(EdgesIn(A)) /\ \A k \in DOMAIN t : \E i \in places : t[k] = e[i]
  <2> HIDE DEF places
  <2> QED
    BY <1>1, AtType
<1> HIDE DEF places, t
<1>4. \A k \in 1..Len(t) : t[k] \in EdgesIn(B)
  BY <1>2, <1>3, SeqFacts
<1>5. t \in Seq(EdgesIn(B))
  BY <1>3, <1>4, IsASeq
<1> QED
  BY <1>5 DEF EdgesNotTo, t, places

LEMMA ReverseType ==
    ASSUME NEW T, NEW s \in Seq(T)
    PROVE  Reverse(s) \in Seq(T)
<1>1. Len(s) \in Nat /\ \A i \in 1..Len(s) : s[i] \in T
  BY SeqFacts
<1>2. \A i \in 1..Len(s) : (Len(s) - i) + 1 \in 1..Len(s)
  BY <1>1
<1>3. \A i \in 1..Len(s) : s[(Len(s) - i) + 1] \in T
  BY <1>1, <1>2
<1>4. [i \in 1..Len(s) |-> s[(Len(s) - i) + 1]] \in Seq(T)
  BY <1>1, <1>3
<1> QED
  BY <1>4 DEF Reverse

LEMMA IncomingType ==
    ASSUME NEW A, NEW g, IsGraph(g, A), NEW n
    PROVE  Incoming(g, n) \in SUBSET EdgesIn(A) /\ IsFiniteSet(Incoming(g, n))
<1> DEFINE f == [m \in Nodes(g) |-> ToSet(EdgesTo(g.edges[m], {n}))]
<1>1. \A m \in Nodes(g) : EdgesTo(g.edges[m], {n}) \in Seq(EdgesIn(A))
  <2> TAKE m \in Nodes(g)
  <2>1. g.edges[m] \in Seq(EdgesIn(A))
    BY DEF IsGraph
  <2>2. \A i \in DOMAIN g.edges[m] : g.edges[m][i].to \in A
    BY <2>1, SeqFacts, EdgeFacts
  <2> QED
    BY <2>1, <2>2, EdgesToType
<1>2. \A m \in Nodes(g) : f[m] \in SUBSET EdgesIn(A) /\ IsFiniteSet(f[m])
  BY <1>1, ToSetFacts
<1>3. IsFiniteSet({f[m] : m \in Nodes(g)})
  <2>1. IsFiniteSet(Nodes(g)) /\ f = [m \in Nodes(g) |-> f[m]]
    BY DEF IsGraph
  <2> HIDE DEF f
  <2> QED
    BY <2>1, ImageFinite
<1>4. Incoming(g, n) = UNION {f[m] : m \in Nodes(g)}
  BY DEF Incoming
<1> HIDE DEF f
<1>5. IsFiniteSet(UNION {f[m] : m \in Nodes(g)})
  BY <1>2, <1>3, FS_UNION
<1> QED
  BY <1>2, <1>4, <1>5

(* A graph with other edges is one when these lead to where they may.         *)
LEMMA RewiredIsGraph ==
    ASSUME NEW A, NEW g, IsGraph(g, A), NEW h, NEW B, B \subseteq Nodes(g),
           h = [step |-> g.step, edges |-> h.edges], h.edges \in [Nodes(g) -> Seq(EdgesIn(B))]
    PROVE  IsGraph(h, B) /\ Nodes(h) = Nodes(g) /\ h.step = g.step
<1>1. h.step = g.step
  OBVIOUS
<1>2. Nodes(h) = Nodes(g)
  BY <1>1 DEF Nodes
<1> QED
  BY <1>1, <1>2 DEF IsGraph

LEMMA RecordFacts ==
    ASSUME NEW s, NEW e, NEW f
    PROVE  [[step |-> s, edges |-> e] EXCEPT !.edges = f] = [step |-> s, edges |-> f]
OBVIOUS

LEMMA AddEdgeForm ==
    ASSUME NEW s, NEW e, NEW from, NEW to, NEW order
    PROVE  AddEdge([step |-> s, edges |-> e], from, to, order) =
              [step |-> s, edges |-> [e EXCEPT ![from] = <<Edge(to, order)>> \o @]]
BY DEF AddEdge

LEMMA AddEdgeIsGraph ==
    ASSUME NEW A, NEW g, IsGraph(g, A), NEW from, NEW to \in A, NEW order \in Nat
    PROVE  LET h == AddEdge(g, from, to, order)
           IN IsGraph(h, A) /\ Nodes(h) = Nodes(g) /\ h.step = g.step
<1> DEFINE h == AddEdge(g, from, to, order)
           new == Edge(to, order)
           f == [g.edges EXCEPT ![from] = <<new>> \o @]
<1>1. new \in EdgesIn(A)
  BY DEF Edge, EdgesIn
<1>2. g = [step |-> g.step, edges |-> g.edges] /\ g.edges \in [Nodes(g) -> Seq(EdgesIn(A))] /\ A \subseteq Nodes(g)
  BY DEF IsGraph
<1>3. h = [step |-> g.step, edges |-> f]
  <2> DEFINE R == [step |-> g.step, edges |-> g.edges]
  <2>1. h = AddEdge(R, from, to, order)
    BY <1>2
  <2>2. AddEdge(R, from, to, order) = [step |-> g.step, edges |-> [g.edges EXCEPT ![from] = <<Edge(to, order)>> \o @]]
    BY AddEdgeForm
  <2> HIDE DEF h
  <2> QED
    BY <2>1, <2>2
<1> HIDE DEF new
<1>4. from \in Nodes(g) => <<new>> \o g.edges[from] \in Seq(EdgesIn(A))
  <2> SUFFICES ASSUME from \in Nodes(g) PROVE <<new>> \o g.edges[from] \in Seq(EdgesIn(A))
    OBVIOUS
  <2>1. g.edges[from] \in Seq(EdgesIn(A)) /\ <<new>> \in Seq(EdgesIn(A))
    BY <1>1, <1>2
  <2> QED
    BY <2>1
<1>5. f \in [Nodes(g) -> Seq(EdgesIn(A))]
  <2> DEFINE S == Seq(EdgesIn(A))
  <2> HIDE DEF S
  <2>1. g.edges \in [Nodes(g) -> S] /\ (from \in Nodes(g) => <<new>> \o g.edges[from] \in S)
    BY <1>2, <1>4 DEF S
  <2>2. f \in [Nodes(g) -> S]
    BY <2>1
  <2> QED
    BY <2>2 DEF S
<1> HIDE DEF f
<1>6. h.edges = f /\ h = [step |-> g.step, edges |-> h.edges]
  BY <1>3
<1> HIDE DEF h
<1>7. IsGraph(h, A) /\ Nodes(h) = Nodes(g) /\ h.step = g.step
  BY <1>2, <1>5, <1>6, RewiredIsGraph
<1> QED
  BY <1>7 DEF h

(* A detached segment: where the edges of each node lead afterwards.          *)
GivenTo(e, parent, parents, skip) == IF skip THEN <<>> ELSE Reverse(EdgesTo(e[parent], parents))
Loosened(e, parent, parents) == [e EXCEPT ![parent] = EdgesNotTo(@, parents)]
Reconnected(edges, child, given) ==
    FlattenSeq([i \in DOMAIN EdgesTo(edges, {child}) |-> given]) \o EdgesNotTo(edges, {child})
Detached(e, child, children, given) ==
    [n \in DOMAIN e |-> IF n \notin children THEN e[n] ELSE Reconnected(e[n], child, given)]

LEMMA DisconnectedForm ==
    ASSUME NEW s, NEW e, NEW child, NEW parent, NEW children, NEW parents, NEW skip
    PROVE  Disconnected([step |-> s, edges |-> e], child, parent, children, parents, skip) =
              [step |-> s, edges |-> Detached(Loosened(e, parent, parents), child, children,
                                              GivenTo(e, parent, parents, skip))]
<1> DEFINE g == [step |-> s, edges |-> e]
           cut == [step |-> s, edges |-> Loosened(e, parent, parents)]
<1>1. g.edges = e
  OBVIOUS
<1>2. [g EXCEPT !.edges[parent] = EdgesNotTo(@, parents)] = cut
  BY SMTT(30) DEF Loosened
<1>3. Disconnected(g, child, parent, children, parents, skip) =
         [cut EXCEPT !.edges = Detached(cut.edges, child, children, GivenTo(g.edges, parent, parents, skip))]
  BY <1>2, ZenonT(40) DEF Disconnected, Detached, GivenTo, Reconnected
<1>4. cut.edges = Loosened(e, parent, parents)
  OBVIOUS
<1> QED
  BY <1>1, <1>3, <1>4, RecordFacts

LEMMA DisconnectedEdges ==
    ASSUME NEW A, NEW g, IsGraph(g, A), NEW child, NEW parent \in Nodes(g), NEW children, NEW parents, NEW skip,
           NEW m \in Nodes(g), NEW B,
           \A t \in Targets(g, m) : \/ m \in children /\ t = child
                                    \/ m = parent /\ t \in parents
                                    \/ t \in B,
           m \in children => \A t \in Targets(g, parent) : t \in parents => t \in B
    PROVE  LET h == Disconnected(g, child, parent, children, parents, skip)
           IN /\ h = [step |-> g.step, edges |-> h.edges] /\ h.edges = [n \in Nodes(g) |-> h.edges[n]]
              /\ h.edges[m] \in Seq(EdgesIn(B))
<1> DEFINE given == GivenTo(g.edges, parent, parents, skip)
           cut == Loosened(g.edges, parent, parents)
           Given(n) == FlattenSeq([i \in DOMAIN EdgesTo(cut[n], {child}) |-> given])
           Body(n) == IF n \notin children THEN cut[n] ELSE Reconnected(cut[n], child, given)
           h == Disconnected(g, child, parent, children, parents, skip)
<1>1. g = [step |-> g.step, edges |-> g.edges] /\ g.edges \in [Nodes(g) -> Seq(EdgesIn(A))]
  BY DEF IsGraph
<1>2. h = [step |-> g.step, edges |-> [n \in Nodes(g) |-> Body(n)]]
  <2>1. h = Disconnected([step |-> g.step, edges |-> g.edges], child, parent, children, parents, skip)
    BY <1>1
  <2>2. h = [step |-> g.step, edges |-> Detached(cut, child, children, given)]
    <3>1. Disconnected([step |-> g.step, edges |-> g.edges], child, parent, children, parents, skip) =
             [step |-> g.step, edges |-> Detached(Loosened(g.edges, parent, parents), child, children,
                                                  GivenTo(g.edges, parent, parents, skip))]
      BY DisconnectedForm
    <3> HIDE DEF h
    <3> QED
      BY <2>1, <3>1
  <2>3. DOMAIN cut = Nodes(g)
    BY <1>1 DEF Loosened
  <2>4. Detached(cut, child, children, given) = [n \in Nodes(g) |-> Body(n)]
    BY <2>3, Zenon DEF Detached
  <2> QED
    BY <2>2, <2>4, Zenon
<1> HIDE DEF h
<1>3. h = [step |-> g.step, edges |-> h.edges] /\ h.edges = [n \in Nodes(g) |-> h.edges[n]] /\ h.edges[m] = Body(m)
  <2> HIDE DEF Body
  <2> QED
    BY <1>2
<1>4. \A n \in Nodes(g) : \A i \in DOMAIN g.edges[n] : g.edges[n][i].to \in Targets(g, n)
  BY DEF Targets
<1>5. cut[m] = IF m = parent THEN EdgesNotTo(g.edges[m], parents) ELSE g.edges[m]
  BY <1>1 DEF Loosened
<1> HIDE DEF cut
<1>6. cut[m] \in Seq(EdgesIn(B \cup IF m \in children THEN {child} ELSE {}))
  <2> DEFINE C == B \cup IF m \in children THEN {child} ELSE {}
  <2>0. g.edges[m] \in Seq(EdgesIn(A))
    BY <1>1
  <2>1. \A t \in Targets(g, m) : t \in C \/ (m = parent /\ t \in parents)
    OBVIOUS
  <2> HIDE DEF C
  <2>2. CASE m = parent
    <3>1. \A i \in DOMAIN g.edges[m] : g.edges[m][i].to \notin parents => g.edges[m][i].to \in C
      BY <1>4, <2>1
    <3>2. EdgesNotTo(g.edges[m], parents) \in Seq(EdgesIn(C))
      BY <2>0, <3>1, EdgesNotToType
    <3> QED
      BY <1>5, <2>2, <3>2 DEF C
  <2>3. CASE m # parent
    <3>1. Targets(g, m) \subseteq C
      BY <2>1, <2>3
    <3>2. g.edges[m] \in Seq(EdgesIn(C))
      BY <3>1, EdgesWithin
    <3> QED
      BY <1>5, <2>3, <3>2 DEF C
  <2> QED
    BY <2>2, <2>3
<1>7. CASE m \notin children
  <2>1. Body(m) = cut[m]
    BY <1>7
  <2> QED
    BY <1>3, <1>6, <1>7, <2>1 DEF h
<1>8. CASE m \in children
  <2>1. given \in Seq(EdgesIn(B))
    <3>1. g.edges[parent] \in Seq(EdgesIn(A))
      BY <1>1
    <3>2. \A i \in DOMAIN g.edges[parent] : g.edges[parent][i].to \in parents => g.edges[parent][i].to \in B
      BY <1>4, <1>8
    <3>3. EdgesTo(g.edges[parent], parents) \in Seq(EdgesIn(B))
      BY <3>1, <3>2, EdgesToType
    <3>4. Reverse(EdgesTo(g.edges[parent], parents)) \in Seq(EdgesIn(B))
      BY <3>3, ReverseType
    <3> QED
      BY <3>4 DEF GivenTo
  <2> HIDE DEF given
  <2>2. cut[m] \in Seq(EdgesIn(B \cup {child}))
    BY <1>6, <1>8
  <2>3. \A i \in DOMAIN cut[m] : cut[m][i].to \in B \cup {child}
    BY <2>2, SeqFacts, EdgeFacts
  <2>4. EdgesNotTo(cut[m], {child}) \in Seq(EdgesIn(B))
    BY <2>2, <2>3, EdgesNotToType
  <2>5. EdgesTo(cut[m], {child}) \in Seq(EdgesIn(B \cup {child}))
    BY <2>2, <2>3, EdgesToType
  <2>6. Given(m) \in Seq(EdgesIn(B))
    <3> DEFINE to == EdgesTo(cut[m], {child})
               seqs == [i \in DOMAIN to |-> given]
    <3>1. DOMAIN to = 1..Len(to) /\ Len(to) \in Nat
      BY <2>5, SeqFacts
    <3> HIDE DEF to
    <3>2. seqs \in Seq(Seq(EdgesIn(B)))
      BY <2>1, <3>1
    <3> HIDE DEF seqs
    <3>3. FlattenSeq(seqs) \in Seq(EdgesIn(B))
      BY <3>2, FlattenSeqType
    <3> QED
      BY <3>3 DEF seqs, to
  <2>7. Body(m) = Given(m) \o EdgesNotTo(cut[m], {child})
    BY <1>8 DEF Reconnected
  <2> HIDE DEF Given, Body
  <2>8. Body(m) \in Seq(EdgesIn(B))
    BY <2>4, <2>6, <2>7
  <2> QED
    BY <1>3, <2>8 DEF h
<1> QED
  BY <1>7, <1>8

LEMMA DisconnectedIsGraph ==
    ASSUME NEW A, NEW g, IsGraph(g, A), NEW child, NEW parent \in Nodes(g), NEW children, NEW parents, NEW skip
    PROVE  LET h == Disconnected(g, child, parent, children, parents, skip)
           IN IsGraph(h, A) /\ Nodes(h) = Nodes(g) /\ h.step = g.step
<1> DEFINE h == Disconnected(g, child, parent, children, parents, skip)
<1>1. \A m \in Nodes(g) : Targets(g, m) \subseteq A
  BY TargetsType
<1>2. \A m \in Nodes(g) : /\ h = [step |-> g.step, edges |-> h.edges] /\ h.edges = [n \in Nodes(g) |-> h.edges[n]]
                          /\ h.edges[m] \in Seq(EdgesIn(A))
  BY <1>1, DisconnectedEdges
<1> HIDE DEF h
<1>3. h = [step |-> g.step, edges |-> h.edges] /\ h.edges \in [Nodes(g) -> Seq(EdgesIn(A))]
  BY <1>2
<1>4. A \subseteq Nodes(g)
  BY DEF IsGraph
<1>5. IsGraph(h, A) /\ Nodes(h) = Nodes(g) /\ h.step = g.step
  BY <1>3, <1>4, RewiredIsGraph
<1> QED
  BY <1>5 DEF h

(* Edges that are handed on.                                                  *)
Shifted(edges, by, to) == Reverse([i \in DOMAIN edges |-> Edge(to, edges[i].order + by)])
Delayed(edges, by) == Reverse([i \in DOMAIN edges |-> Edge(edges[i].to, edges[i].order + by)])
Taken(e, target, child, by) ==
    [n \in DOMAIN e |-> Shifted(EdgesTo(e[n], {target}), by, child) \o EdgesNotTo(e[n], {target})]
Handed(e, target, parent, by) ==
    [[e EXCEPT ![target] = <<>>] EXCEPT ![parent] = Delayed(e[target], by) \o @]

LEMMA InsertedAboveForm ==
    ASSUME NEW s, NEW e, NEW target, NEW child, NEW parent, NEW g, g = [step |-> s, edges |-> e],
           NEW by, by = Beyond(Incoming(g, child)), NEW taken, taken = Taken(e, target, child, by)
    PROVE  InsertedAbove(g, target, child, parent) =
              AddEdge([step |-> s, edges |-> taken], parent, target, Beyond(ToSet(taken[parent])))
<1>1. [g EXCEPT !.edges = Taken(g.edges, target, child, by)] = [step |-> s, edges |-> taken]
  BY RecordFacts
<1>2. InsertedAbove(g, target, child, parent) =
        LET h == [g EXCEPT !.edges = Taken(g.edges, target, child, by)]
        IN AddEdge(h, parent, target, Beyond(ToSet(h.edges[parent])))
  BY Zenon DEF InsertedAbove, Taken, Shifted, Moved
<1>3. [step |-> s, edges |-> taken].edges = taken
  OBVIOUS
<1> QED
  BY <1>1, <1>2, <1>3

LEMMA InsertedBelowForm ==
    ASSUME NEW s, NEW e, NEW target, NEW child, NEW parent, NEW g, g = [step |-> s, edges |-> e],
           NEW by, by = Beyond(ToSet(e[parent])), NEW taken, taken = [step |-> s, edges |-> Handed(e, target, parent, by)]
    PROVE  InsertedBelow(g, target, child, parent) =
              AddEdge(taken, target, child, Beyond(Incoming(taken, child)))
<1> DEFINE bare == [g EXCEPT !.edges[target] = <<>>]
           h == [bare EXCEPT !.edges[parent] = Delayed(g.edges[target], by) \o @]
<1>1. g.edges = e
  OBVIOUS
<1>2. bare = [step |-> s, edges |-> [e EXCEPT ![target] = <<>>]]
  OBVIOUS
<1>3. h = taken
  <2> DEFINE b == [e EXCEPT ![target] = <<>>]
             d == Delayed(e[target], by)
  <2>1. bare = [step |-> s, edges |-> b]
    BY <1>2
  <2>2. h = [bare EXCEPT !.edges[parent] = d \o @]
    BY <1>1
  <2>3. taken = [step |-> s, edges |-> [b EXCEPT ![parent] = d \o @]]
    BY DEF Handed
  <2> HIDE DEF b, d, bare, h
  <2>4. [[step |-> s, edges |-> b] EXCEPT !.edges[parent] = d \o @] = [step |-> s, edges |-> [b EXCEPT ![parent] = d \o @]]
    <3> DEFINE v == d \o b[parent]
    <3>1. ([step |-> s, edges |-> b].edges)[parent] = b[parent]
      OBVIOUS
    <3>2. [[step |-> s, edges |-> b] EXCEPT !.edges[parent] = d \o @] = [[step |-> s, edges |-> b] EXCEPT !.edges[parent] = v]
      BY <3>1
    <3> HIDE DEF v
    <3>3. [[step |-> s, edges |-> b] EXCEPT !.edges[parent] = v] = [step |-> s, edges |-> [b EXCEPT ![parent] = v]]
      OBVIOUS
    <3> QED
      BY <3>2, <3>3 DEF v
  <2> QED
    BY <2>1, <2>2, <2>3, <2>4
<1>4. InsertedBelow(g, target, child, parent) = AddEdge(h, target, child, Beyond(Incoming(h, child)))
  BY <1>1, Zenon DEF InsertedBelow, Delayed, Moved
<1> HIDE DEF h
<1> QED
  BY <1>3, <1>4

LEMMA ShiftedType ==
    ASSUME NEW A, NEW e \in Seq(EdgesIn(A)), NEW by \in Nat, NEW B, NEW to \in B
    PROVE  /\ Shifted(e, by, to) \in Seq(EdgesIn(B))
           /\ Delayed(e, by) \in Seq(EdgesIn(A))
<1>1. DOMAIN e = 1..Len(e) /\ Len(e) \in Nat /\ \A i \in 1..Len(e) : e[i].to \in A /\ e[i].order + by \in Nat
  BY SeqFacts, EdgeFacts
<1>2. \A i \in 1..Len(e) : Edge(to, e[i].order + by) \in EdgesIn(B) /\ Edge(e[i].to, e[i].order + by) \in EdgesIn(A)
  BY <1>1 DEF Edge, EdgesIn
<1>3. [i \in DOMAIN e |-> Edge(to, e[i].order + by)] \in Seq(EdgesIn(B))
  BY <1>1, <1>2
<1>4. [i \in DOMAIN e |-> Edge(e[i].to, e[i].order + by)] \in Seq(EdgesIn(A))
  BY <1>1, <1>2
<1> QED
  BY <1>3, <1>4, ReverseType DEF Shifted, Delayed

LEMMA JoinedType ==
    ASSUME NEW T, NEW s \in Seq(T), NEW t \in Seq(T)
    PROVE  s \o t \in Seq(T)
OBVIOUS

LEMMA InsertedAboveIsGraph ==
    ASSUME NEW A, NEW g, IsGraph(g, A), NEW target \in A, NEW child \in A, NEW parent \in Nodes(g)
    PROVE  LET h == InsertedAbove(g, target, child, parent)
           IN IsGraph(h, A) /\ Nodes(h) = Nodes(g) /\ h.step = g.step
<1> DEFINE by == Beyond(Incoming(g, child))
           f == Taken(g.edges, target, child, by)
           taken == [step |-> g.step, edges |-> f]
           h == InsertedAbove(g, target, child, parent)
<1>1. /\ g = [step |-> g.step, edges |-> g.edges] /\ g.edges \in [Nodes(g) -> Seq(EdgesIn(A))]
      /\ A \subseteq Nodes(g)
  BY DEF IsGraph
<1>2. by \in Nat
  BY IncomingType, BeyondType
<1>3. h = AddEdge(taken, parent, target, Beyond(ToSet(f[parent])))
  BY <1>1, InsertedAboveForm
<1> HIDE DEF by, h
<1>4. ASSUME NEW n \in Nodes(g)
      PROVE  Shifted(EdgesTo(g.edges[n], {target}), by, child) \o EdgesNotTo(g.edges[n], {target}) \in Seq(EdgesIn(A))
  <2> DEFINE e == g.edges[n]
  <2>1. e \in Seq(EdgesIn(A))
    BY <1>1
  <2> HIDE DEF e
  <2>2. \A i \in DOMAIN e : e[i].to \in A
    BY <2>1, SeqFacts, EdgeFacts
  <2>3. EdgesTo(e, {target}) \in Seq(EdgesIn(A)) /\ EdgesNotTo(e, {target}) \in Seq(EdgesIn(A))
    BY <2>1, <2>2, EdgesToType, EdgesNotToType
  <2>4. Shifted(EdgesTo(e, {target}), by, child) \in Seq(EdgesIn(A))
    BY <1>2, <2>3, ShiftedType
  <2> QED
    BY <2>3, <2>4, JoinedType DEF e
<1>5. f \in [Nodes(g) -> Seq(EdgesIn(A))]
  <2>1. DOMAIN g.edges = Nodes(g)
    BY <1>1
  <2>2. f = [n \in Nodes(g) |-> Shifted(EdgesTo(g.edges[n], {target}), by, child) \o EdgesNotTo(g.edges[n], {target})]
    BY <2>1, Zenon DEF Taken
  <2> QED
    BY <1>4, <2>2
<1> HIDE DEF f
<1>6. IsGraph(taken, A) /\ Nodes(taken) = Nodes(g) /\ taken.step = g.step
  <2>1. taken = [step |-> g.step, edges |-> taken.edges] /\ taken.edges = f
    OBVIOUS
  <2> HIDE DEF taken
  <2> QED
    BY <1>1, <1>5, <2>1, RewiredIsGraph
<1>7. Beyond(ToSet(f[parent])) \in Nat
  BY <1>5, ToSetFacts, BeyondType
<1> HIDE DEF taken
<1>8. IsGraph(h, A) /\ Nodes(h) = Nodes(g) /\ h.step = g.step
  BY <1>3, <1>6, <1>7, AddEdgeIsGraph
<1> QED
  BY <1>8 DEF h

LEMMA ConnectedAboveIsGraph ==
    ASSUME NEW A, NEW g, IsGraph(g, A), NEW target \in A, NEW child \in A, NEW parent \in Nodes(g), NEW node
    PROVE  LET h == ConnectedAbove(g, target, child, parent, node)
           IN IsGraph(h, A) /\ Nodes(h) = Nodes(g) /\ h.step = g.step
<1> DEFINE by == Beyond(Incoming(g, child))
           connected == AddEdge(g, node, child, by)
           h == ConnectedAbove(g, target, child, parent, node)
<1>1. by \in Nat
  BY IncomingType, BeyondType
<1>2. h = AddEdge(connected, parent, target, Beyond(ToSet(connected.edges[parent])))
  BY DEF ConnectedAbove
<1> HIDE DEF by, h
<1>3. IsGraph(connected, A) /\ Nodes(connected) = Nodes(g) /\ connected.step = g.step
  BY <1>1, AddEdgeIsGraph
<1> HIDE DEF connected
<1>4. Beyond(ToSet(connected.edges[parent])) \in Nat
  <2>1. connected.edges[parent] \in Seq(EdgesIn(A))
    BY <1>3 DEF IsGraph
  <2> QED
    BY <2>1, ToSetFacts, BeyondType
<1>5. IsGraph(h, A) /\ Nodes(h) = Nodes(g) /\ h.step = g.step
  BY <1>2, <1>3, <1>4, AddEdgeIsGraph
<1> QED
  BY <1>5 DEF h

LEMMA InsertedBelowIsGraph ==
    ASSUME NEW A, NEW g, IsGraph(g, A), NEW target \in Nodes(g), NEW child \in A, NEW parent \in Nodes(g)
    PROVE  LET h == InsertedBelow(g, target, child, parent)
           IN IsGraph(h, A) /\ Nodes(h) = Nodes(g) /\ h.step = g.step
<1> DEFINE by == Beyond(ToSet(g.edges[parent]))
           S == Seq(EdgesIn(A))
           d == Delayed(g.edges[target], by)
           bare == [g.edges EXCEPT ![target] = <<>>]
           f == Handed(g.edges, target, parent, by)
           taken == [step |-> g.step, edges |-> f]
           h == InsertedBelow(g, target, child, parent)
<1>1. /\ g = [step |-> g.step, edges |-> g.edges] /\ g.edges \in [Nodes(g) -> S]
      /\ A \subseteq Nodes(g)
  BY DEF IsGraph
<1>2. by \in Nat
  <2>1. g.edges[parent] \in S
    BY <1>1
  <2> QED
    BY <2>1, ToSetFacts, BeyondType
<1>3. h = AddEdge(taken, target, child, Beyond(Incoming(taken, child)))
  BY <1>1, InsertedBelowForm
<1> HIDE DEF by, h
<1>4. d \in S
  <2>1. g.edges[target] \in S
    BY <1>1
  <2> QED
    BY <1>2, <2>1, ShiftedType
<1>5. f = [bare EXCEPT ![parent] = d \o @]
  BY DEF Handed
<1>6. bare \in [Nodes(g) -> S]
  <2>1. <<>> \in S
    OBVIOUS
  <2> HIDE DEF S
  <2> QED
    BY <1>1, <2>1
<1> HIDE DEF bare, d, f
<1>7. d \o bare[parent] \in S
  <2>1. bare[parent] \in S
    BY <1>6
  <2> QED
    BY <1>4, <2>1, JoinedType
<1>8. f \in [Nodes(g) -> S]
  <2> HIDE DEF S
  <2> QED
    BY <1>5, <1>6, <1>7
<1>9. IsGraph(taken, A) /\ Nodes(taken) = Nodes(g) /\ taken.step = g.step
  <2>1. taken = [step |-> g.step, edges |-> taken.edges] /\ taken.edges = f
    OBVIOUS
  <2> HIDE DEF taken
  <2> QED
    BY <1>1, <1>8, <2>1, RewiredIsGraph
<1> HIDE DEF taken
<1>10. Beyond(Incoming(taken, child)) \in Nat
  BY <1>9, IncomingType, BeyondType
<1>11. IsGraph(h, A) /\ Nodes(h) = Nodes(g) /\ h.step = g.step
  BY <1>3, <1>9, <1>10, AddEdgeIsGraph
<1> QED
  BY <1>11 DEF h

LEMMA InsertSegmentIsGraph ==
    ASSUME NEW A, NEW g, IsGraph(g, A), NEW target \in A, NEW child \in A, NEW parent \in Nodes(g), NEW side
    PROVE  LET h == InsertSegment(g, target, child, parent, side)
           IN IsGraph(h, A) /\ Nodes(h) = Nodes(g) /\ h.step = g.step
<1>1. target \in Nodes(g)
  BY DEF IsGraph
<1> QED
  BY <1>1, InsertedAboveIsGraph, InsertedBelowIsGraph DEF InsertSegment

LEMMA MovedCommitIsGraph ==
    ASSUME NEW A, NEW g, IsGraph(g, A), NEW subject \in A, NEW anchor \in A, NEW side
    PROVE  LET h == MovedCommit(g, subject, anchor, side)
           IN IsGraph(h, A) /\ Nodes(h) = Nodes(g) /\ h.step = g.step
<1> DEFINE skip == FALSE
           cut == Disconnected(g, subject, subject, Children(g, subject), PreferredParents(g, subject), skip)
<1>1. subject \in Nodes(g)
  BY DEF IsGraph
<1>2. IsGraph(cut, A) /\ Nodes(cut) = Nodes(g) /\ cut.step = g.step
  <2> HIDE DEF skip
  <2> QED
    BY <1>1, DisconnectedIsGraph
<1> HIDE DEF cut
<1>3. LET h == InsertSegment(cut, anchor, subject, subject, side)
      IN IsGraph(h, A) /\ Nodes(h) = Nodes(cut) /\ h.step = cut.step
  BY <1>1, <1>2, InsertSegmentIsGraph
<1> QED
  BY <1>2, <1>3 DEF MovedCommit, cut, skip

LEMMA ReplaceIsGraph ==
    ASSUME NEW A, NEW g, IsGraph(g, A), NEW n, NEW step
    PROVE  LET h == Replace(g, n, step)
           IN IsGraph(h, A) /\ Nodes(h) = Nodes(g) /\ h.step = [g.step EXCEPT ![n] = step] /\ h.edges = g.edges
<1> DEFINE h == Replace(g, n, step)
           R == [step |-> g.step, edges |-> g.edges]
<1>1. g = R
  BY DEF IsGraph
<1>2. [R EXCEPT !.step[n] = step] = [step |-> [g.step EXCEPT ![n] = step], edges |-> g.edges]
  OBVIOUS
<1>3. h = [step |-> [g.step EXCEPT ![n] = step], edges |-> g.edges]
  <2>1. h = [R EXCEPT !.step[n] = step]
    BY <1>1 DEF Replace
  <2> QED
    BY <1>2, <2>1
<1> HIDE DEF h
<1>4. h = [step |-> h.step, edges |-> h.edges] /\ h.step = [g.step EXCEPT ![n] = step] /\ h.edges = g.edges
  BY <1>3
<1>5. Nodes(h) = Nodes(g) /\ h.step = [m \in Nodes(g) |-> h.step[m]]
  <2>1. g.step = [m \in Nodes(g) |-> g.step[m]]
    BY DEF IsGraph
  <2> QED
    BY <1>4, <2>1 DEF Nodes
<1>6. IsGraph(h, A)
  BY <1>4, <1>5 DEF IsGraph
<1> QED
  BY <1>4, <1>5, <1>6 DEF h

LEMMA InsertIsGraph ==
    ASSUME NEW A, NEW g, IsGraph(g, A), NEW target \in A, NEW new, new \notin Nodes(g), NEW step, NEW side
    PROVE  LET h == Insert(g, target, new, step, side)
           IN /\ IsGraph(h, A \cup {new}) /\ Nodes(h) = Nodes(g) \cup {new}
              /\ h.step = [n \in Nodes(g) \cup {new} |-> IF n = new THEN step ELSE g.step[n]]
<1> DEFINE N == Nodes(g) \cup {new}
           B == A \cup {new}
           steps == [n \in N |-> IF n = new THEN step ELSE g.step[n]]
           edges == [n \in N |-> IF n = new THEN <<>> ELSE g.edges[n]]
           wide == [step |-> steps, edges |-> edges]
<1>1. /\ g.edges \in [Nodes(g) -> Seq(EdgesIn(A))] /\ IsFiniteSet(Nodes(g)) /\ A \subseteq Nodes(g)
  BY DEF IsGraph
<1>2. IsFiniteSet(N) /\ B \subseteq N
  BY <1>1, FS_AddElement
<1>3. edges \in [N -> Seq(EdgesIn(B))]
  <2>1. \A n \in Nodes(g) : g.edges[n] \in Seq(EdgesIn(B))
    <3> TAKE n \in Nodes(g)
    <3>1. Targets(g, n) \subseteq B
      BY TargetsType
    <3> QED
      BY <3>1, EdgesWithin
  <2>2. <<>> \in Seq(EdgesIn(B))
    OBVIOUS
  <2> QED
    BY <2>1, <2>2
<1>4. steps = [n \in N |-> steps[n]]
  OBVIOUS
<1> HIDE DEF steps, edges
<1>5. wide.step = steps /\ wide.edges = edges /\ DOMAIN steps = N
  BY <1>4
<1>6. IsGraph(wide, B) /\ Nodes(wide) = N
  <2> HIDE DEF N, B
  <2> QED
    BY <1>2, <1>3, <1>4, <1>5 DEF IsGraph, Nodes
<1>7. Insert(g, target, new, step, side) = InsertSegment(wide, target, new, new, side)
  BY Zenon DEF Insert, steps, edges
<1>8. target \in B /\ new \in B /\ new \in Nodes(wide)
  BY <1>6
<1> HIDE DEF wide, N, B
<1>9. LET h == InsertSegment(wide, target, new, new, side)
      IN IsGraph(h, B) /\ Nodes(h) = Nodes(wide) /\ h.step = wide.step
  BY <1>6, <1>8, InsertSegmentIsGraph
<1> QED
  BY <1>5, <1>6, <1>7, <1>9 DEF N, B, steps

(* A node is cut out: nothing leads to it, and ranks grow as before.          *)
LEMMA CutIsGraph ==
    ASSUME NEW A, NEW g, IsGraph(g, A), Acyclic(g), NEW n \in Nodes(g)
    PROVE  LET h == Cut(g, n)
           IN IsGraph(h, A \ {n}) /\ Acyclic(h) /\ Nodes(h) = Nodes(g) /\ h.step = g.step
<1> DEFINE skip == FALSE
           children == Children(g, n)
           parents == Targets(g, n)
           h == Disconnected(g, n, n, children, parents, skip)
<1>1. PICK rank \in [Nodes(g) -> Nat] : \A m \in Nodes(g) : \A t \in Targets(g, m) : rank[t] < rank[m]
  BY DEF Acyclic
<1>2. \A m \in Nodes(g) : Targets(g, m) \subseteq A /\ A \subseteq Nodes(g)
  BY TargetsType DEF IsGraph
<1>3. n \notin parents
  BY <1>1
<1>4. \A m \in children : m \in Nodes(g) /\ n \in Targets(g, m)
  BY DEF Children
<1> HIDE DEF skip
<1>5. ASSUME NEW m \in Nodes(g)
      PROVE  LET B == {t \in A \ {n} : rank[t] < rank[m]}
             IN /\ h = [step |-> g.step, edges |-> h.edges] /\ h.edges = [k \in Nodes(g) |-> h.edges[k]]
                /\ h.edges[m] \in Seq(EdgesIn(B))
  <2> DEFINE B == {t \in A \ {n} : rank[t] < rank[m]}
  <2>1. \A t \in Targets(g, m) : \/ m \in children /\ t = n
                                 \/ m = n /\ t \in parents
                                 \/ t \in B
    <3> TAKE t \in Targets(g, m)
    <3>1. t \in A /\ rank[t] < rank[m]
      BY <1>1, <1>2
    <3>2. t = n => m \in children
      BY DEF Children
    <3> QED
      BY <3>1, <3>2
  <2>2. m \in children => \A t \in Targets(g, n) : t \in parents => t \in B
    <3> SUFFICES ASSUME m \in children, NEW t \in Targets(g, n) PROVE t \in B
      OBVIOUS
    <3>1. t \in A /\ rank[t] < rank[n] /\ rank[n] < rank[m] /\ t \in Nodes(g)
      BY <1>1, <1>2, <1>4
    <3>2. t # n
      BY <1>3
    <3> QED
      BY <3>1, <3>2
  <2> HIDE DEF B, children, parents
  <2> QED
    BY <2>1, <2>2, DisconnectedEdges DEF B
<1>6. h = Cut(g, n)
  BY DEF Cut, skip
<1> HIDE DEF h
<1>7. \A m \in Nodes(g) : h.edges[m] \in Seq(EdgesIn(A \ {n})) /\ \A i \in DOMAIN h.edges[m] : rank[h.edges[m][i].to] < rank[m]
  <2> SUFFICES ASSUME NEW m \in Nodes(g)
               PROVE  /\ h.edges[m] \in Seq(EdgesIn(A \ {n}))
                      /\ \A i \in DOMAIN h.edges[m] : rank[h.edges[m][i].to] < rank[m]
    OBVIOUS
  <2> DEFINE B == {t \in A \ {n} : rank[t] < rank[m]}
             e == h.edges[m]
  <2>1. e \in Seq(EdgesIn(B))
    BY <1>5
  <2>2. B \subseteq A \ {n} /\ \A t \in B : rank[t] < rank[m]
    OBVIOUS
  <2> HIDE DEF B, e
  <2>3. \A i \in DOMAIN e : e[i] \in EdgesIn(B) /\ e[i].to \in B
    BY <2>1, SeqFacts, EdgeFacts
  <2>4. \A i \in DOMAIN e : e[i] \in EdgesIn(A \ {n})
    BY <2>2, <2>3, EdgeInto
  <2>5. e \in Seq(EdgesIn(A \ {n}))
    <3>1. DOMAIN e = 1..Len(e) /\ Len(e) \in Nat /\ e = [i \in 1..Len(e) |-> e[i]]
      BY <2>1
    <3> DEFINE T == EdgesIn(A \ {n})
    <3>2. \A i \in 1..Len(e) : e[i] \in T
      BY <2>4, <3>1
    <3> HIDE DEF T
    <3>3. e \in Seq(T)
      BY <3>1, <3>2, IsASeq
    <3> QED
      BY <3>3 DEF T
  <2> QED
    BY <2>2, <2>3, <2>5 DEF e
<1>8. h = [step |-> g.step, edges |-> h.edges] /\ h.edges \in [Nodes(g) -> Seq(EdgesIn(A \ {n}))]
  BY <1>5, <1>7
<1>9. A \ {n} \subseteq Nodes(g)
  BY DEF IsGraph
<1>10. IsGraph(h, A \ {n}) /\ Nodes(h) = Nodes(g) /\ h.step = g.step
  <2>1. h.step = g.step
    BY <1>8
  <2>2. Nodes(h) = Nodes(g)
    BY <2>1 DEF Nodes
  <2>3. IsFiniteSet(Nodes(h)) /\ h.step = [m \in Nodes(h) |-> h.step[m]]
    BY <2>1, <2>2 DEF IsGraph
  <2> QED
    BY <1>8, <1>9, <2>1, <2>2, <2>3 DEF IsGraph
<1>11. Acyclic(h)
  <2>1. \A m \in Nodes(h) : \A t \in Targets(h, m) : rank[t] < rank[m]
    BY <1>7, <1>10 DEF Targets
  <2> QED
    BY <1>10, <2>1 DEF Acyclic
<1> QED
  BY <1>6, <1>10, <1>11

LEMMA RemovedIsGraph ==
    ASSUME NEW A, NEW g, IsGraph(g, A), Acyclic(g), NEW n \in Nodes(g)
    PROVE  LET h == Removed(g, n)
           IN IsGraph(h, A \ {n}) /\ Acyclic(h) /\ Nodes(h) = Nodes(g) /\ h.step = [g.step EXCEPT ![n] = Nothing]
<1> DEFINE cut == Cut(g, n)
           B == A \ {n}
           nothing == Nothing
           h == Replace(cut, n, nothing)
<1>1. IsGraph(cut, A \ {n}) /\ Acyclic(cut) /\ Nodes(cut) = Nodes(g) /\ cut.step = g.step
  BY CutIsGraph
<1> HIDE DEF cut, B, nothing
<1>2. IsGraph(h, B) /\ Nodes(h) = Nodes(cut) /\ h.step = [cut.step EXCEPT ![n] = nothing] /\ h.edges = cut.edges
  <2>1. IsGraph(cut, B)
    BY <1>1 DEF B
  <2> QED
    BY <2>1, ReplaceIsGraph
<1> HIDE DEF h
<1>3. \A m : Targets(h, m) = Targets(cut, m)
  BY <1>2 DEF Targets
<1>4. Acyclic(h)
  BY <1>1, <1>2, <1>3 DEF Acyclic
<1> QED
  BY <1>1, <1>2, <1>4 DEF Removed, h, cut, B, nothing

LEMMA RemovalsIsGraph ==
    ASSUME NEW A, NEW g, IsGraph(g, A), Acyclic(g), NEW S \in SUBSET Nodes(g),
           NEW chosen \in {<<n>> : n \in S} \cup {s \in S \X S : s[1] # s[2]}
    PROVE  LET h == Removals(g, chosen)
           IN /\ IsGraph(h, A \ ToSet(chosen)) /\ Acyclic(h) /\ Nodes(h) = Nodes(g)
              /\ h.step = [m \in Nodes(g) |-> IF m \in ToSet(chosen) THEN Nothing ELSE g.step[m]]
<1>0. g.step = [m \in Nodes(g) |-> g.step[m]]
  BY DEF IsGraph
<1>1. ASSUME NEW n \in S, chosen = <<n>>
      PROVE  LET h == Removals(g, chosen)
             IN /\ IsGraph(h, A \ ToSet(chosen)) /\ Acyclic(h) /\ Nodes(h) = Nodes(g)
                /\ h.step = [m \in Nodes(g) |-> IF m \in ToSet(chosen) THEN Nothing ELSE g.step[m]]
  <2>1. Len(chosen) = 1 /\ chosen[1] = n /\ ToSet(chosen) = {n}
    BY <1>1 DEF ToSet
  <2>2. Removals(g, chosen) = Removed(g, n)
    BY <2>1 DEF Removals, Each
  <2>3. LET h == Removed(g, n)
        IN IsGraph(h, A \ {n}) /\ Acyclic(h) /\ Nodes(h) = Nodes(g) /\ h.step = [g.step EXCEPT ![n] = Nothing]
    BY RemovedIsGraph
  <2>4. [g.step EXCEPT ![n] = Nothing] = [m \in Nodes(g) |-> IF m \in {n} THEN Nothing ELSE g.step[m]]
    BY <1>0
  <2> QED
    BY <2>1, <2>2, <2>3, <2>4
<1>2. ASSUME NEW n \in S, NEW k \in S, n # k, chosen = <<n, k>>
      PROVE  LET h == Removals(g, chosen)
             IN /\ IsGraph(h, A \ ToSet(chosen)) /\ Acyclic(h) /\ Nodes(h) = Nodes(g)
                /\ h.step = [m \in Nodes(g) |-> IF m \in ToSet(chosen) THEN Nothing ELSE g.step[m]]
  <2> DEFINE first == Removed(g, n)
             h == Removed(first, k)
  <2>1. Len(chosen) = 2 /\ chosen[1] = n /\ chosen[2] = k /\ ToSet(chosen) = {n, k}
    BY <1>2 DEF ToSet
  <2>2. Removals(g, chosen) = h
    <3>1. Removals(g, chosen) = CHOOSE x \in {Removed(y, k) : y \in {first}} : TRUE
      BY <2>1 DEF Removals, Each
    <3> HIDE DEF first
    <3> QED
      BY <3>1
  <2>3. /\ IsGraph(first, A \ {n}) /\ Acyclic(first) /\ Nodes(first) = Nodes(g)
        /\ first.step = [g.step EXCEPT ![n] = Nothing]
    BY RemovedIsGraph
  <2> HIDE DEF first
  <2>4. /\ IsGraph(h, (A \ {n}) \ {k}) /\ Acyclic(h) /\ Nodes(h) = Nodes(first)
        /\ h.step = [first.step EXCEPT ![k] = Nothing]
    BY <2>3, RemovedIsGraph
  <2>5. (A \ {n}) \ {k} = A \ ToSet(chosen)
    BY <2>1
  <2>6. [[g.step EXCEPT ![n] = Nothing] EXCEPT ![k] = Nothing] =
           [m \in Nodes(g) |-> IF m \in {n, k} THEN Nothing ELSE g.step[m]]
    BY <1>0
  <2> HIDE DEF h
  <2> QED
    BY <2>1, <2>2, <2>3, <2>4, <2>5, <2>6
<1>3. \/ \E n \in S : chosen = <<n>>
      \/ \E n, k \in S : n # k /\ chosen = <<n, k>>
  OBVIOUS
<1> QED
  BY <1>1, <1>2, <1>3

-----------------------------------------------------------------------------
(* The stacks.                                                                *)
IsLonger(f, g, start, times) ==
    f = [k \in 0..times |->
            IF k = 0 THEN start ELSE CHOOSE y \in {Longer(g, p) : p \in {f[k - 1]}} : TRUE]
Walks(A) == {p \in Seq(A) : p # <<>>}

LEMMA LongerType ==
    ASSUME NEW A, NEW g, IsGraph(g, A), NEW p \in Walks(A)
    PROVE  Longer(g, p) \in Walks(A)
<1> DEFINE next == Ordered(g.edges[Last(p)])
<1>1. p \in Seq(A) /\ p # <<>> /\ Len(p) \in Nat /\ Len(p) # 0
  BY EmptySeq DEF Walks
<1>2. Last(p) \in A
  BY <1>1, SeqFacts DEF Last
<1>3. next \in Seq(EdgesIn(A))
  <2>1. g.edges[Last(p)] \in Seq(EdgesIn(A))
    BY <1>2 DEF IsGraph
  <2> QED
    BY <2>1, OrderedType
<1>4. Longer(g, p) = IF Last(p) = Trunk \/ next = <<>> THEN p ELSE Append(p, next[1].to)
  BY DEF Longer
<1> HIDE DEF next
<1>5. ASSUME next # <<>> PROVE Append(p, next[1].to) \in Walks(A)
  <2>1. Len(next) \in Nat /\ Len(next) # 0
    BY <1>3, <1>5, EmptySeq
  <2>2. next[1].to \in A
    BY <1>3, <2>1, SeqFacts, EdgeFacts
  <2>3. Append(p, next[1].to) \in Seq(A) /\ Len(Append(p, next[1].to)) # 0
    BY <1>1, <2>2
  <2> QED
    BY <2>3, EmptySeq DEF Walks
<1> QED
  BY <1>4, <1>5

LEMMA PathType ==
    ASSUME NEW A, NEW g, IsGraph(g, A), NEW n \in A
    PROVE  Path(g, n) \in Seq(A)
<1> DEFINE times == Cardinality(Nodes(g))
           T == Walks(A)
           start == <<n>>
           F == [p \in T |-> Longer(g, p)]
           f == CHOOSE h : IsLonger(h, g, start, times)
           places == {i \in DOMAIN f[times] : f[times][i] \notin {Trunk, Base}}
<1>1. \A p \in T : Longer(g, p) \in T
  BY LongerType
<1>2. F \in [T -> T] /\ start \in T
  <2>1. <<n>> \in Seq(A) /\ Len(<<n>>) # 0
    OBVIOUS
  <2> QED
    BY <1>1, <2>1, EmptySeq DEF Walks
<1>3. times \in Nat
  BY FS_CardinalityType DEF IsGraph
<1>4. Path(g, n) = At(f[times], places)
  <2>1. Path(g, n) = CHOOSE path \in {At(whole, {i \in DOMAIN whole : whole[i] \notin {Trunk, Base}}) :
                                        whole \in {f[times]}} : TRUE
    BY DEF Path, Repeat, IsLonger
  <2> HIDE DEF f, times
  <2> QED
    BY <2>1
<1> HIDE DEF times, F, T, start
<1>5. IsLonger(f, g, start, times)
  <2>1. PICK h : IsIterate(h, F, start, times) /\ \A k \in 0..times : h[k] \in T
    BY <1>2, <1>3, IterateExists
  <2> DEFINE Following(k) == CHOOSE y \in {Longer(g, p) : p \in {h[k - 1]}} : TRUE
  <2>2. \A k \in 1..times : F[h[k - 1]] = Following(k)
    BY <1>3, <2>1 DEF F
  <2> HIDE DEF Following
  <2>3. h = [k \in 0..times |-> IF k = 0 THEN start ELSE Following(k)]
    BY <1>3, <2>1, <2>2 DEF IsIterate
  <2>4. IsLonger(h, g, start, times)
    BY <2>3 DEF IsLonger, Following
  <2> QED
    BY <2>4
<1> HIDE DEF f
<1>6. f[0] = start /\ \A k \in 1..times : f[k] = Longer(g, f[k - 1])
  BY <1>3, <1>5 DEF IsLonger
<1>7. \A k \in 0..times : f[k] \in T
  BY <1>1, <1>2, <1>3, <1>6, Stays
<1>8. f[times] \in Seq(A)
  BY <1>3, <1>7 DEF T, Walks
<1>9. places \in SUBSET (1..Len(f[times]))
  BY <1>8, SeqFacts
<1> HIDE DEF places
<1> QED
  BY <1>4, <1>8, <1>9, AtType

LEMMA StacksType ==
    ASSUME NEW A, NEW g, IsGraph(g, A)
    PROVE  /\ \A s \in StacksOf(g) : s \in Seq(A)
           /\ StackItems(g) \subseteq A
           /\ StacksOf(g) # {} => Merge \in Nodes(g)
<1>1. \A s \in StacksOf(g) : s \in Seq(A) /\ Merge \in Nodes(g)
  <2> TAKE s \in StacksOf(g)
  <2>1. Merge \in Nodes(g) /\ \E n \in Targets(g, Merge) : s = Path(g, n)
    BY DEF StacksOf
  <2>2. Targets(g, Merge) \subseteq A
    BY <2>1, TargetsType
  <2> QED
    BY <2>1, <2>2, PathType
<1>2. StackItems(g) \subseteq A
  BY <1>1, SeqFacts DEF StackItems, ToSet
<1> QED
  BY <1>1, <1>2

LEMMA LastOfType ==
    ASSUME NEW A, NEW s \in Seq(A), NEW i \in DOMAIN s
    PROVE  LastOf(s, i) \in DOMAIN s
<1> DEFINE next == {j \in (i + 1)..Len(s) : s[j] \in References}
<1>1. DOMAIN s = 1..Len(s) /\ Len(s) \in Nat /\ i \in 1..Len(s)
  BY SeqFacts
<1>2. CASE next = {}
  BY <1>1, <1>2 DEF LastOf
<1>3. CASE next # {}
  <2>1. next \in SUBSET Nat /\ \A j \in next : j > i /\ j <= Len(s) /\ j \in Nat
    BY <1>1
  <2>2. LastOf(s, i) = Min(next) - 1
    BY <1>3 DEF LastOf
  <2> HIDE DEF next
  <2>3. \E x \in next : \A y \in next : x <= y
    BY <1>3, <2>1, Least
  <2>4. Min(next) \in next
    BY <2>3, Zenon DEF Min
  <2>5. \A j \in next : j - 1 \in 1..Len(s)
    BY <1>1, <2>1
  <2> QED
    BY <1>1, <2>2, <2>4, <2>5
<1> QED
  BY <1>2, <1>3

-----------------------------------------------------------------------------
(* The graph of a state: its edges lead to what was not removed, its steps    *)
(* are commits, references or nothing, and no node comes before itself.       *)
Living(g) == {n \in Nodes(g) : g.step[n].kind # "None"}
WellMade(g) == IsGraph(g, Living(g)) /\ Kinds(g) /\ Acyclic(g)

LEMMA AliveFacts ==
    ASSUME NEW g, Kinds(g)
    PROVE  /\ Picks(g) \subseteq Living(g) /\ Living(g) \ References \subseteq Picks(g)
           /\ References \cap Nodes(g) \subseteq Living(g)
           /\ Living(g) = {n \in Nodes(g) : n \in Picks(g) \/ n \in References}
<1>1. Nothing.kind = "None" /\ Reference.kind # "None"
  BY DEF Nothing, Reference
<1>2. \A n \in Nodes(g) : n \in Picks(g) <=> g.step[n].kind = "Pick"
  BY DEF Picks
<1>3. \A n \in Nodes(g) : n \in Living(g) <=> n \in Picks(g) \/ n \in References
  <2> TAKE n \in Nodes(g)
  <2>1. n \notin Picks(g) => IF n \in References THEN g.step[n] = Reference ELSE g.step[n] = Nothing
    BY StepKinds
  <2> QED
    BY <1>1, <1>2, <2>1 DEF Living
<1>4. Picks(g) \subseteq Nodes(g) /\ Living(g) \subseteq Nodes(g)
  BY DEF Picks, Living
<1> QED
  BY <1>3, <1>4

LEMMA RebasedIsWellMade ==
    ASSUME NEW g, IsGraph(g, Living(g)), Kinds(g), NEW r, r = Rebased(g)
    PROVE  WellMade(r)
<1>1. IsGraph(r, Living(g) \cap Nodes(r)) /\ Nodes(r) \subseteq Nodes(g) /\ Acyclic(r)
  BY RebasedIsGraph
<1>2. Kinds(r) /\ \A n \in Nodes(r) : r.step[n].kind = g.step[n].kind
  BY RebasedSteps DEF IsRebased
<1>3. Living(r) = Living(g) \cap Nodes(r)
  BY <1>1, <1>2 DEF Living
<1> QED
  BY <1>1, <1>2, <1>3 DEF WellMade

(* The editor that is created.                                                *)
LEMMA BareIsGraph ==
    ASSUME NEW w \in Workspaces
    PROVE  /\ IsGraph(Bare(w), NodesOf(w)) /\ Kinds(Bare(w)) /\ Nodes(Bare(w)) = NodesOf(w)
           /\ Bare(w).step = [n \in NodesOf(w) |-> IF n \in References THEN Reference
                                                  ELSE Pick([changes |-> {n}, edit |-> 0, parents |-> <<>>], TRUE)]
<1> DEFINE N == NodesOf(w)
           Under(n) == {m \in N : \E s \in w.segments : \E i \in 2..Len(s) : s[i - 1] = n /\ s[i] = m}
           Hung(n) == <<Edge(CHOOSE m \in Under(n) : TRUE, 0)>>
           Linked(n) == [i \in DOMAIN w.links[n] |-> Edge(w.links[n][i], i - 1)]
           Body(n) == IF Under(n) # {} THEN Hung(n) ELSE IF n \in DOMAIN w.links THEN Linked(n) ELSE <<>>
           steps == [n \in N |-> IF n \in References THEN Reference
                                 ELSE Pick([changes |-> {n}, edit |-> 0, parents |-> <<>>], TRUE)]
           g == Bare(w)
<1>1. g = [step |-> steps, edges |-> [n \in N |-> Body(n)]]
  BY Zenon DEF Bare
<1>2. IsFiniteSet(N) /\ \A n \in DOMAIN w.links : w.links[n] \in Seq(N)
  BY RebaseAssumption
<1>3. ASSUME NEW n \in N PROVE Body(n) \in Seq(EdgesIn(N))
  <2>1. CASE Under(n) # {}
    <3> DEFINE m == CHOOSE m \in Under(n) : TRUE
    <3>1. m \in N
      BY <2>1
    <3> HIDE DEF m
    <3>2. Edge(m, 0) \in EdgesIn(N)
      BY <3>1 DEF Edge, EdgesIn
    <3>3. <<Edge(m, 0)>> \in Seq(EdgesIn(N))
      BY <3>2
    <3> QED
      BY <2>1, <3>3 DEF m
  <2>2. CASE Under(n) = {} /\ n \in DOMAIN w.links
    <3> DEFINE links == w.links[n]
    <3>1. DOMAIN links = 1..Len(links) /\ Len(links) \in Nat /\ \A i \in 1..Len(links) : links[i] \in N /\ i - 1 \in Nat
      BY <1>2, <2>2, SeqFacts
    <3> HIDE DEF links
    <3>2. \A i \in 1..Len(links) : Edge(links[i], i - 1) \in EdgesIn(N)
      BY <3>1 DEF Edge, EdgesIn
    <3>3. [i \in DOMAIN links |-> Edge(links[i], i - 1)] \in Seq(EdgesIn(N))
      BY <3>1, <3>2
    <3>4. Body(n) = Linked(n)
      BY <2>2
    <3> QED
      BY <3>3, <3>4 DEF links
  <2>3. CASE Under(n) = {} /\ n \notin DOMAIN w.links
    BY <2>3
  <2> QED
    BY <2>1, <2>2, <2>3
<1> HIDE DEF Body
<1>4. g.step = steps /\ g.edges = [n \in N |-> Body(n)] /\ g = [step |-> g.step, edges |-> g.edges]
  BY <1>1
<1> HIDE DEF g
<1>5. Nodes(g) = N /\ g.step = [n \in N |-> g.step[n]]
  BY <1>4 DEF Nodes
<1>6. IsGraph(g, N)
  <2>1. g.edges \in [N -> Seq(EdgesIn(N))]
    BY <1>3, <1>4
  <2> HIDE DEF N
  <2> QED
    BY <1>2, <1>4, <1>5, <2>1 DEF IsGraph
<1>7. Kinds(g)
  <2> SUFFICES ASSUME NEW n \in N
               PROVE  IF n \in References THEN g.step[n] = Reference
                      ELSE /\ g.step[n] = Pick(g.step[n].commit, g.step[n].tracked)
                           /\ IsCommit(g.step[n].commit)
    BY <1>5 DEF Kinds
  <2> DEFINE c == [changes |-> {n}, edit |-> 0, parents |-> <<>>]
             t == TRUE
  <2>1. IsCommit(c)
    BY CommitFacts
  <2>2. g.step[n] = IF n \in References THEN Reference ELSE Pick(c, t)
    BY <1>4
  <2> HIDE DEF c, t
  <2>3. Pick(c, t).commit = c /\ Pick(c, t).tracked = t
    BY PickFacts
  <2> QED
    BY <2>1, <2>2, <2>3
<1> QED
  BY <1>4, <1>5, <1>6, <1>7 DEF g

\* Each parent of a commit that is picked is one itself.
ParentsArePicked(g) ==
    \A n \in Picks(g) : \A i \in DOMAIN g.step[n].commit.parents :
        \E m \in Picks(g) : g.step[n].commit.parents[i] = g.step[m].commit

LEMMA CreatedIsGraph ==
    ASSUME NEW w \in Workspaces, NEW g, g = Created(w)
    PROVE  /\ WellMade(g) /\ Nodes(g) = NodesOf(w) /\ Living(g) = NodesOf(w)
           /\ \A n \in NodesOf(w) : n \in Picks(g) <=> n \notin References
           /\ \A n \in Picks(g) : g.step[n].tracked = TRUE /\ g.step[n].commit.changes = {n}
           /\ ParentsArePicked(g)
<1> DEFINE bare == Bare(w)
           r == Rebased(bare)
           N == NodesOf(w)
<1>1. /\ IsGraph(bare, N) /\ Kinds(bare) /\ Nodes(bare) = N
      /\ bare.step = [n \in N |-> IF n \in References THEN Reference
                                  ELSE Pick([changes |-> {n}, edit |-> 0, parents |-> <<>>], TRUE)]
  BY BareIsGraph
<1>2. ToPick(bare) = N
  BY RebaseAssumption
<1> HIDE DEF bare
<1>3. bare = [step |-> bare.step, edges |-> bare.edges]
  BY <1>1 DEF IsGraph
<1>4. g = [step |-> r.step, edges |-> bare.edges]
  <2>1. g = [bare EXCEPT !.step = r.step]
    BY DEF Created, bare
  <2> HIDE DEF r
  <2>2. [[step |-> bare.step, edges |-> bare.edges] EXCEPT !.step = r.step] = [step |-> r.step, edges |-> bare.edges]
    OBVIOUS
  <2> QED
    BY <1>3, <2>1, <2>2
<1>5. IsGraph(r, N \cap Nodes(r)) /\ Nodes(r) = N
  BY <1>1, <1>2, RebasedIsGraph
<1>6. /\ Kinds(r) /\ Picks(r) = Picks(bare) \cap Nodes(r)
      /\ \A n \in Picks(r) :
            /\ r.step[n].tracked = bare.step[n].tracked
            /\ ParentsOf(bare, n) \in Seq(Picks(r))
            /\ r.step[n].commit =
                  [changes |-> bare.step[n].commit.changes, edit |-> bare.step[n].commit.edit,
                   parents |-> [i \in DOMAIN ParentsOf(bare, n) |-> r.step[ParentsOf(bare, n)[i]].commit]]
  <2>1. r = Rebased(bare) /\ IsGraph(bare, N) /\ Kinds(bare)
    BY <1>1
  <2> HIDE DEF r, N
  <2>2. IsRebased(bare, r)
    BY <2>1, RebasedSteps
  <2> QED
    BY <2>2 DEF IsRebased
<1> HIDE DEF r, N
<1>7. g.step = r.step /\ g.edges = bare.edges /\ g = [step |-> g.step, edges |-> g.edges]
  BY <1>4
<1>8. Nodes(g) = N /\ Picks(g) = Picks(r) /\ Kinds(g)
  <2>1. Nodes(g) = N
    BY <1>5, <1>7 DEF Nodes
  <2> QED
    BY <1>5, <1>6, <1>7, <2>1 DEF Picks, Kinds
<1>9. IsGraph(g, N)
  BY <1>1, <1>5, <1>7, <1>8 DEF IsGraph
<1>10. Acyclic(g)
  <2>1. \E rank \in [N -> Nat] : \A n \in N : \A m \in Targets(bare, n) : rank[m] < rank[n]
    BY <1>1, <1>2, ToPickClosed
  <2>2. \A n : Targets(g, n) = Targets(bare, n)
    BY <1>7 DEF Targets
  <2> QED
    BY <1>8, <2>1, <2>2 DEF Acyclic
<1>11. \A n \in N : n \in Picks(bare) <=> n \notin References
  <2>1. \A n \in N : bare.step[n] = IF n \in References THEN Reference
                                    ELSE Pick([changes |-> {n}, edit |-> 0, parents |-> <<>>], TRUE)
    BY <1>1
  <2> QED
    BY <1>1, <2>1 DEF Picks, Pick, Reference
<1>12. \A n \in N : n \in Picks(g) <=> n \notin References
  BY <1>5, <1>6, <1>8, <1>11
<1>13. Living(g) = N
  BY <1>8, <1>12, AliveFacts
<1>14. ASSUME NEW n \in Picks(g)
       PROVE  /\ g.step[n].tracked = TRUE /\ g.step[n].commit.changes = {n}
              /\ \A i \in DOMAIN g.step[n].commit.parents :
                    \E m \in Picks(g) : g.step[n].commit.parents[i] = g.step[m].commit
  <2> DEFINE b == [changes |-> {n}, edit |-> 0, parents |-> <<>>]
             p == ParentsOf(bare, n)
             t == TRUE
  <2>1. n \in N /\ n \notin References /\ n \in Picks(r)
    BY <1>8, <1>12 DEF Picks
  <2>2. bare.step[n] = Pick(b, t)
    BY <1>1, <2>1
  <2>3. b.changes = {n}
    OBVIOUS
  <2> HIDE DEF b, p, t
  <2>4. bare.step[n].commit = b /\ bare.step[n].tracked = t
    BY <2>2, PickFacts
  <2>5. g.step[n].tracked = t /\ p \in Seq(Picks(r))
    BY <1>6, <1>7, <2>1, <2>4 DEF p
  <2>6. g.step[n].commit = [changes |-> b.changes, edit |-> b.edit, parents |-> [i \in DOMAIN p |-> r.step[p[i]].commit]]
    BY <1>6, <1>7, <2>1, <2>4 DEF p
  <2>7. g.step[n].commit.changes = {n} /\ g.step[n].commit.parents = [i \in DOMAIN p |-> r.step[p[i]].commit]
    BY <2>3, <2>6
  <2>8. \A i \in DOMAIN p : p[i] \in Picks(r)
    BY <2>5, SeqFacts
  <2>9. \A i \in DOMAIN g.step[n].commit.parents :
           \E m \in Picks(g) : g.step[n].commit.parents[i] = g.step[m].commit
    BY <1>7, <1>8, <2>7, <2>8
  <2> QED
    BY <2>5, <2>7, <2>9 DEF t
<1> QED
  BY <1>8, <1>9, <1>10, <1>12, <1>13, <1>14 DEF N, WellMade, ParentsArePicked

-----------------------------------------------------------------------------
(* What the operations do to the steps: some are left out and one may be      *)
(* rewritten, or one is added.                                                *)
LeftOut(g, gone) == g.step = [m \in Nodes(graph) |-> IF m \in gone THEN Nothing ELSE graph.step[m]]
Rewrote(g, gone, target, commit) ==
    g.step = [m \in Nodes(graph) |-> IF m = target THEN Pick(commit, TRUE)
                                     ELSE IF m \in gone THEN Nothing ELSE graph.step[m]]
Added(g, new) ==
    g.step = [m \in Nodes(graph) \cup {new} |->
                 IF m = new THEN Pick([changes |-> {new}, edit |-> 0, parents |-> <<>>], FALSE) ELSE graph.step[m]]
Edit(g, pairs) ==
    /\ IsGraph(g, Living(g)) /\ Kinds(g)
    /\ \/ \E gone \in SUBSET Picks(graph) : LeftOut(g, gone) /\ pairs = mapping
       \/ \E new \in New \ Nodes(graph) : Added(g, new) /\ pairs = mapping
       \/ \E gone \in SUBSET Picks(graph) : \E target \in Picks(graph) \ gone : \E commit :
             /\ Rewrote(g, gone, target, commit) /\ IsCommit(commit)
             /\ commit.changes = graph.step[target].commit.changes
                                 \cup UNION {graph.step[n].commit.changes : n \in gone}
             /\ pairs = Update(mapping, {[old |-> graph.step[target].commit, new |-> commit]})

LEMMA NothingFacts ==
    /\ Nothing.kind = "None" /\ \A commit, tracked : Pick(commit, tracked).kind = "Pick"
BY DEF Nothing, Pick

LEMMA LeftOutFacts ==
    ASSUME WellMade(graph), NEW gone \in SUBSET Picks(graph), NEW g, LeftOut(g, gone)
    PROVE  /\ Living(g) = Living(graph) \ gone /\ Kinds(g) /\ Nodes(g) = Nodes(graph) /\ Picks(g) = Picks(graph) \ gone
           /\ \A n \in Picks(g) : g.step[n] = graph.step[n]
<1>1. \A n \in gone : n \in Picks(graph) /\ n \in Nodes(graph) /\ n \notin References
  BY StepKinds DEF WellMade, Picks
<1>2. Nodes(g) = Nodes(graph) /\ \A n \in Nodes(g) : g.step[n] = IF n \in gone THEN Nothing ELSE graph.step[n]
  BY DEF LeftOut, Nodes
<1>3. Living(g) = Living(graph) \ gone /\ Picks(g) = Picks(graph) \ gone
  BY <1>2, NothingFacts DEF Living, Picks
<1>4. Kinds(g)
  BY <1>1, <1>2 DEF Kinds, WellMade
<1> QED
  BY <1>2, <1>3, <1>4 DEF Picks

LEMMA RewroteFacts ==
    ASSUME WellMade(graph), NEW gone \in SUBSET Picks(graph), NEW target \in Picks(graph) \ gone,
           NEW commit, IsCommit(commit), NEW g, Rewrote(g, gone, target, commit)
    PROVE  /\ Living(g) = Living(graph) \ gone /\ Kinds(g) /\ Nodes(g) = Nodes(graph) /\ Picks(g) = Picks(graph) \ gone
           /\ \A n \in Picks(g) \ {target} : g.step[n] = graph.step[n]
           /\ g.step[target].commit = commit /\ g.step[target].tracked
<1> DEFINE t == TRUE
           step == Pick(commit, t)
<1>1. \A n \in gone \cup {target} : n \in Picks(graph) /\ n \in Nodes(graph) /\ n \notin References
  BY StepKinds DEF WellMade, Picks
<1>2. /\ Nodes(g) = Nodes(graph)
      /\ \A n \in Nodes(g) : g.step[n] = IF n = target THEN step ELSE IF n \in gone THEN Nothing ELSE graph.step[n]
  BY DEF Rewrote, Nodes
<1>3. /\ step.kind = "Pick" /\ step = Pick(step.commit, step.tracked) /\ IsCommit(step.commit)
      /\ step.commit = commit /\ step.tracked = t
  <2> HIDE DEF t
  <2> QED
    BY PickFacts
<1> HIDE DEF step
<1>4. Living(g) = Living(graph) \ gone /\ Picks(g) = Picks(graph) \ gone
  BY <1>1, <1>2, <1>3, NothingFacts DEF Living, Picks
<1>5. Kinds(g)
  BY <1>1, <1>2, <1>3 DEF Kinds, WellMade
<1> QED
  BY <1>1, <1>2, <1>3, <1>4, <1>5 DEF Picks

LEMMA AddedFacts ==
    ASSUME WellMade(graph), NEW new, new \notin Nodes(graph), new \notin References,
           NEW g, Added(g, new)
    PROVE  /\ Living(g) = Living(graph) \cup {new} /\ Kinds(g) /\ Nodes(g) = Nodes(graph) \cup {new} /\ Picks(g) = Picks(graph) \cup {new}
           /\ g.step[new].commit.changes = {new} /\ \A n \in Picks(graph) : g.step[n] = graph.step[n]
<1> DEFINE t == FALSE
           blank == [changes |-> {new}, edit |-> 0, parents |-> <<>>]
           step == Pick(blank, t)
<1>1. IsCommit(blank) /\ blank.changes = {new}
  BY CommitFacts
<1>2. /\ Nodes(g) = Nodes(graph) \cup {new}
      /\ \A n \in Nodes(g) : g.step[n] = IF n = new THEN step ELSE graph.step[n]
  BY DEF Added, Nodes
<1>3. step.kind = "Pick" /\ step = Pick(step.commit, step.tracked) /\ step.commit = blank
  <2> HIDE DEF t, blank
  <2> QED
    BY PickFacts
<1> HIDE DEF step, blank
<1>4. Living(g) = Living(graph) \cup {new} /\ Picks(g) = Picks(graph) \cup {new}
  BY <1>2, <1>3, NothingFacts DEF Living, Picks
<1>5. Kinds(g)
  BY <1>1, <1>2, <1>3 DEF Kinds, WellMade
<1>6. \A n \in Picks(graph) : n \in Nodes(g) /\ n # new
  BY <1>2 DEF Picks
<1> QED
  BY <1>1, <1>2, <1>3, <1>4, <1>5, <1>6

Tuples(S) == {<<n>> : n \in S} \cup {s \in S \X S : s[1] # s[2]}

LEMMA StackCommitsFacts ==
    ASSUME WellMade(graph)
    PROVE  /\ StackItems(graph) \subseteq Living(graph) /\ StackCommits(graph) \subseteq Picks(graph)
           /\ Chosen = Tuples(StackCommits(graph)) /\ Picks(graph) \subseteq Living(graph)
           /\ Living(graph) \subseteq Nodes(graph) /\ References \cap Nodes(graph) \subseteq Living(graph)
<1>1. StackItems(graph) \subseteq Living(graph)
  BY StacksType DEF WellMade
<1>2. /\ Living(graph) \ References \subseteq Picks(graph) /\ Picks(graph) \subseteq Living(graph)
      /\ References \cap Nodes(graph) \subseteq Living(graph)
  BY AliveFacts DEF WellMade
<1> QED
  BY <1>1, <1>2 DEF StackCommits, Chosen, Tuples, Living

LEMMA TuplesFacts ==
    ASSUME NEW S, NEW t \in Tuples(S)
    PROVE  /\ ToSet(t) \subseteq S /\ Reverse(t) \in Tuples(S)
           /\ Len(t) = 1 \/ Len(t) = 2
           /\ t[1] \in S /\ (Len(t) = 2 => t[2] \in S)
<1>1. ASSUME NEW n \in S, t = <<n>>
      PROVE  ToSet(t) \subseteq S /\ Reverse(t) = <<n>> /\ Len(t) = 1 /\ t[1] \in S
  <2>1. Len(t) = 1 /\ t[1] = n /\ DOMAIN t = 1..1
    BY <1>1
  <2> QED
    BY <2>1 DEF ToSet, Reverse
<1>2. ASSUME NEW n \in S, NEW k \in S, n # k, t = <<n, k>>
      PROVE  ToSet(t) \subseteq S /\ Reverse(t) = <<k, n>> /\ Len(t) = 2 /\ t[1] \in S /\ t[2] \in S
  <2>1. Len(t) = 2 /\ t[1] = n /\ t[2] = k /\ DOMAIN t = 1..2
    BY <1>2
  <2>2. Reverse(t) = [i \in 1..2 |-> t[(2 - i) + 1]]
    BY <2>1 DEF Reverse
  <2>3. Reverse(t) = <<k, n>>
    BY <2>1, <2>2
  <2> QED
    BY <2>1, <2>3 DEF ToSet
<1>3. \/ \E n \in S : t = <<n>>
      \/ \E n, k \in S : n # k /\ t = <<n, k>>
  BY DEF Tuples
<1>4. (\A n \in S : <<n>> \in Tuples(S)) /\ \A n, k \in S : n # k => <<k, n>> \in Tuples(S)
  BY DEF Tuples
<1> QED
  BY <1>1, <1>2, <1>3, <1>4

LEMMA SortedType ==
    ASSUME NEW S, NEW t \in Tuples(S), NEW ranked, NEW side
    PROVE  InTurn(Sorted(ranked, t), side) \in Tuples(S)
<1>1. Sorted(ranked, t) \in {t, Reverse(t)}
  BY DEF Sorted
<1>2. Sorted(ranked, t) \in Tuples(S)
  BY <1>1, TuplesFacts
<1> HIDE DEF Tuples
<1>3. Reverse(Sorted(ranked, t)) \in Tuples(S)
  BY <1>2, TuplesFacts
<1> QED
  BY <1>2, <1>3 DEF InTurn

(* What keeps the steps as they are.                                          *)
LEMMA RewiredEdit ==
    ASSUME WellMade(graph), NEW g, IsGraph(g, Living(graph)), g.step = graph.step
    PROVE  Edit(g, mapping)
<1> DEFINE gone == {}
<1>1. gone \in SUBSET Picks(graph) /\ Living(graph) \ gone = Living(graph)
  OBVIOUS
<1>2. LeftOut(g, gone)
  <2>1. graph.step = [m \in Nodes(graph) |-> graph.step[m]]
    BY DEF WellMade, IsGraph
  <2> QED
    BY <2>1 DEF LeftOut
<1> HIDE DEF gone
<1>3. IsGraph(g, Living(g)) /\ Kinds(g)
  BY <1>1, <1>2, LeftOutFacts
<1> QED
  BY <1>1, <1>2, <1>3 DEF Edit

MovedAll(t, anchor, side) ==
    LET Move(g, subject) == MovedCommit(g, subject, anchor, side) IN Each(Move, graph, t)

LEMMA MoveIsEdit ==
    ASSUME WellMade(graph), NEW t \in Tuples(StackCommits(graph)), NEW anchor \in StackItems(graph), NEW side
    PROVE  Edit(MovedAll(t, anchor, side), mapping)
<1> DEFINE A == Living(graph)
           first == MovedCommit(graph, t[1], anchor, side)
           second == MovedCommit(first, t[2], anchor, side)
<1>1. anchor \in A /\ t[1] \in A /\ (Len(t) = 2 => t[2] \in A) /\ (Len(t) = 1 \/ Len(t) = 2)
  BY StackCommitsFacts, TuplesFacts
<1>2. IsGraph(graph, A)
  BY DEF WellMade
<1>3. MovedAll(t, anchor, side) = IF Len(t) = 1 THEN first ELSE second
  <2>1. MovedAll(t, anchor, side) = IF Len(t) = 1 THEN first
                               ELSE CHOOSE h \in {MovedCommit(x, t[2], anchor, side) : x \in {first}} : TRUE
    BY DEF MovedAll, Each
  <2> HIDE DEF first
  <2> QED
    BY <2>1
<1> HIDE DEF A
<1>4. IsGraph(first, A) /\ first.step = graph.step
  BY <1>1, <1>2, MovedCommitIsGraph
<1> HIDE DEF first
<1>5. Len(t) = 2 => IsGraph(second, A) /\ second.step = first.step
  BY <1>1, <1>4, MovedCommitIsGraph
<1> HIDE DEF second
<1>6. Edit(first, mapping)
  BY <1>4, RewiredEdit DEF A
<1>7. Len(t) = 2 => Edit(second, mapping)
  BY <1>4, <1>5, RewiredEdit DEF A
<1> QED
  BY <1>1, <1>3, <1>6, <1>7

LEMMA RemovalsOfPicks ==
    ASSUME WellMade(graph), NEW t \in Tuples(StackCommits(graph)), NEW g, g = Removals(graph, t)
    PROVE  IsGraph(g, Living(graph) \ ToSet(t)) /\ LeftOut(g, ToSet(t)) /\ ToSet(t) \in SUBSET Picks(graph)
<1> DEFINE S == StackCommits(graph)
           A == Living(graph)
<1>1. S \in SUBSET Nodes(graph) /\ ToSet(t) \subseteq S /\ S \subseteq Picks(graph)
  BY StackCommitsFacts, TuplesFacts
<1>2. IsGraph(graph, A) /\ Acyclic(graph)
  BY DEF WellMade
<1>3. t \in {<<n>> : n \in S} \cup {s \in S \X S : s[1] # s[2]}
  BY DEF Tuples
<1> HIDE DEF S, A
<1>4. /\ IsGraph(g, A \ ToSet(t))
      /\ g.step = [m \in Nodes(graph) |-> IF m \in ToSet(t) THEN Nothing ELSE graph.step[m]]
  BY <1>1, <1>2, <1>3, RemovalsIsGraph
<1> QED
  BY <1>1, <1>4 DEF LeftOut, A

LEMMA DiscardIsEdit ==
    ASSUME WellMade(graph), NEW t \in Tuples(StackCommits(graph))
    PROVE  Edit(Removals(graph, t), mapping)
<1> DEFINE g == Removals(graph, t)
           gone == ToSet(t)
<1>1. IsGraph(g, Living(graph) \ gone) /\ LeftOut(g, gone) /\ gone \in SUBSET Picks(graph)
  BY RemovalsOfPicks
<1> HIDE DEF g, gone
<1>2. IsGraph(g, Living(g)) /\ Kinds(g)
  BY <1>1, LeftOutFacts
<1>3. Edit(g, mapping)
  BY <1>1, <1>2 DEF Edit
<1> QED
  BY <1>3 DEF g

LEMMA RewroteIsGraph ==
    ASSUME WellMade(graph), NEW gone \in SUBSET Picks(graph), NEW target \in Picks(graph) \ gone,
           NEW commit, IsCommit(commit), NEW g, Rewrote(g, gone, target, commit), IsGraph(g, Living(graph) \ gone)
    PROVE  IsGraph(g, Living(g)) /\ Kinds(g)
<1>1. /\ Living(g) = Living(graph) \ gone /\ Kinds(g) /\ Nodes(g) = Nodes(graph) /\ Picks(g) = Picks(graph) \ gone
      /\ \A n \in Picks(g) \ {target} : g.step[n] = graph.step[n]
      /\ g.step[target].commit = commit /\ g.step[target].tracked
  BY RewroteFacts
<1> QED
  BY <1>1

LEMMA RewriteIsEdit ==
    ASSUME WellMade(graph), NEW gone \in SUBSET Picks(graph), NEW g, IsGraph(g, Living(graph) \ gone), LeftOut(g, gone),
           NEW target \in Picks(graph) \ gone, NEW commit, IsCommit(commit),
           NEW old, old = graph.step[target].commit,
           commit.changes = old.changes \cup UNION {graph.step[n].commit.changes : n \in gone}
    PROVE  Edit(Replace(g, target, Pick(commit, TRUE)), Update(mapping, {[old |-> old, new |-> commit]}))
<1> DEFINE t == TRUE
           step == Pick(commit, t)
           A == Living(graph) \ gone
           h == Replace(g, target, step)
<1> HIDE DEF step, A
<1>1. IsGraph(h, A) /\ h.step = [g.step EXCEPT ![target] = step]
  <2>1. IsGraph(g, A)
    BY DEF A
  <2>2. /\ IsGraph(h, A) /\ Nodes(h) = Nodes(g) /\ h.step = [g.step EXCEPT ![target] = step]
        /\ h.edges = g.edges
    BY <2>1, ReplaceIsGraph
  <2> QED
    BY <2>2
<1> HIDE DEF h
<1>2. Rewrote(h, gone, target, commit)
  <2>1. g.step = [m \in Nodes(graph) |-> IF m \in gone THEN Nothing ELSE graph.step[m]]
    BY DEF LeftOut
  <2>2. [g.step EXCEPT ![target] = step] =
           [m \in Nodes(graph) |-> IF m = target THEN step ELSE IF m \in gone THEN Nothing ELSE graph.step[m]]
    BY <2>1
  <2> QED
    BY <1>1, <2>2 DEF Rewrote, step
<1>3. IsGraph(h, Living(h)) /\ Kinds(h)
  <2>1. IsGraph(h, Living(graph) \ gone)
    BY <1>1 DEF A
  <2> QED
    BY <1>2, <2>1, RewroteIsGraph
<1>4. Edit(h, Update(mapping, {[old |-> old, new |-> commit]}))
  <2> DEFINE pairs == Update(mapping, {[old |-> old, new |-> commit]})
  <2>1. pairs = Update(mapping, {[old |-> graph.step[target].commit, new |-> commit]})
    OBVIOUS
  <2> HIDE DEF pairs
  <2> QED
    BY <1>2, <1>3, <2>1 DEF Edit, pairs
<1> QED
  BY <1>4 DEF h, step

LEMMA SquashIsEdit ==
    ASSUME WellMade(graph), NEW t \in Tuples(StackCommits(graph)), NEW target \in StackCommits(graph) \ ToSet(t),
           NEW removed, removed = Removals(graph, t), NEW parents,
           NEW old, old = graph.step[target].commit,
           NEW new, new = [old EXCEPT !.changes = @ \cup UNION {graph.step[n].commit.changes : n \in ToSet(t)},
                                      !.parents = parents]
    PROVE  Edit(Replace(removed, target, Pick(new, TRUE)), Update(mapping, {[old |-> old, new |-> new]}))
<1> DEFINE gone == ToSet(t)
           more == UNION {graph.step[n].commit.changes : n \in gone}
<1>1. IsGraph(removed, Living(graph) \ gone) /\ LeftOut(removed, gone) /\ gone \in SUBSET Picks(graph)
  BY RemovalsOfPicks
<1>2. target \in Picks(graph) \ gone
  BY StackCommitsFacts
<1>3. IsCommit(old)
  BY <1>2, StepKinds DEF WellMade, Picks
<1>4. new = [changes |-> old.changes \cup more, edit |-> old.edit, parents |-> parents]
  <2> HIDE DEF gone, more
  <2>1. new = [old EXCEPT !.changes = old.changes \cup more, !.parents = parents]
    BY DEF more, gone
  <2> QED
    BY <1>3, <2>1 DEF IsCommit
<1> HIDE DEF gone
<1>5. IsCommit(new) /\ new.changes = old.changes \cup more
  <2> DEFINE all == old.changes \cup more
             edit == old.edit
             c == [changes |-> all, edit |-> edit, parents |-> parents]
  <2>1. new = c
    BY <1>4
  <2> HIDE DEF all, edit
  <2>2. c.changes = all
    OBVIOUS
  <2>3. IsCommit(c)
    BY CommitFacts
  <2> HIDE DEF c
  <2> QED
    BY <2>1, <2>2, <2>3, Zenon DEF all
<1> QED
  BY <1>1, <1>2, <1>5, RewriteIsEdit

LEMMA RewordIsEdit ==
    ASSUME WellMade(graph), NEW target \in StackCommits(graph),
           NEW old, old = graph.step[target].commit, NEW new, new = [old EXCEPT !.edit = @ + 1]
    PROVE  Edit(Replace(graph, target, Pick(new, TRUE)), Update(mapping, {[old |-> old, new |-> new]}))
<1> DEFINE gone == {}
<1>1. gone \in SUBSET Picks(graph) /\ target \in Picks(graph) \ gone /\ Living(graph) \ gone = Living(graph)
  BY StackCommitsFacts
<1>2. IsGraph(graph, Living(graph) \ gone)
  BY <1>1 DEF WellMade
<1>3. LeftOut(graph, gone)
  <2>1. graph.step = [m \in Nodes(graph) |-> graph.step[m]]
    BY DEF WellMade, IsGraph
  <2> QED
    BY <2>1 DEF LeftOut
<1>4. UNION {graph.step[n].commit.changes : n \in gone} = {}
  OBVIOUS
<1>5. IsCommit(old)
  BY <1>1, StepKinds DEF WellMade, Picks
<1>6. new = [changes |-> old.changes, edit |-> old.edit + 1, parents |-> old.parents]
  BY <1>5 DEF IsCommit
<1>7. IsCommit(new) /\ new.changes = old.changes
  BY <1>6, CommitFacts
<1>8. new.changes = old.changes \cup UNION {graph.step[n].commit.changes : n \in gone}
  BY <1>4, <1>7
<1> HIDE DEF gone
<1> QED
  BY <1>1, <1>2, <1>3, <1>7, <1>8, RewriteIsEdit

LEMMA InsertIsEdit ==
    ASSUME WellMade(graph), NEW new \in New \ Nodes(graph), NEW anchor \in StackItems(graph), NEW side
    PROVE  Edit(Insert(graph, anchor, new, Pick([changes |-> {new}, edit |-> 0, parents |-> <<>>], FALSE), side), mapping)
<1> DEFINE step == Pick([changes |-> {new}, edit |-> 0, parents |-> <<>>], FALSE)
           A == Living(graph)
           g == Insert(graph, anchor, new, step, side)
<1>1. anchor \in A /\ new \notin Nodes(graph) /\ new \notin References
  BY StackCommitsFacts, RebaseAssumption
<1>2. IsGraph(graph, A)
  BY DEF WellMade
<1> HIDE DEF A, step
<1>3. /\ IsGraph(g, A \cup {new}) /\ Nodes(g) = Nodes(graph) \cup {new}
      /\ g.step = [n \in Nodes(graph) \cup {new} |-> IF n = new THEN step ELSE graph.step[n]]
  BY <1>1, <1>2, InsertIsGraph
<1> HIDE DEF g
<1>4. Added(g, new)
  BY <1>3 DEF Added, step
<1>5. IsGraph(g, Living(g)) /\ Kinds(g)
  BY <1>1, <1>3, <1>4, AddedFacts DEF A
<1>6. Edit(g, mapping)
  BY <1>4, <1>5 DEF Edit
<1> QED
  BY <1>6 DEF g, step

LEMMA MoveBranchIsEdit ==
    ASSUME WellMade(graph), NEW s \in StacksOf(graph), NEW i \in DOMAIN s, NEW target \in StackItems(graph)
    PROVE  Edit(InsertedAbove(DisconnectedBranch(graph, s, i, Segments(s) = 1), target, s[i], s[LastOf(s, i)]), mapping)
<1> DEFINE A == Living(graph)
           last == LastOf(s, i)
           skip == Segments(s) = 1
           children == {IF i = 1 THEN Merge ELSE s[i - 1]}
           parents == {IF last = Len(s) THEN Trunk ELSE s[last + 1]}
           cut == Disconnected(graph, s[i], s[last], children, parents, skip)
           h == InsertedAbove(cut, target, s[i], s[last])
<1>1. IsGraph(graph, A)
  BY DEF WellMade
<1>2. s \in Seq(A)
  BY <1>1, StacksType
<1>3. s[i] \in A /\ s[last] \in A /\ s[last] \in Nodes(graph) /\ target \in A
  BY <1>2, LastOfType, SeqFacts, StackCommitsFacts
<1>4. cut = DisconnectedBranch(graph, s, i, Segments(s) = 1)
  BY Zenon DEF DisconnectedBranch
<1> HIDE DEF last, skip, children, parents, A
<1>5. IsGraph(cut, A) /\ Nodes(cut) = Nodes(graph) /\ cut.step = graph.step
  BY <1>1, <1>3, DisconnectedIsGraph
<1> HIDE DEF cut
<1>6. IsGraph(h, A) /\ Nodes(h) = Nodes(cut) /\ h.step = cut.step
  BY <1>3, <1>5, InsertedAboveIsGraph
<1> HIDE DEF h
<1>7. Edit(h, mapping)
  BY <1>5, <1>6, RewiredEdit DEF A
<1> QED
  BY <1>4, <1>7 DEF h, last

LEMMA TearOffIsEdit ==
    ASSUME WellMade(graph), NEW s \in StacksOf(graph), NEW i \in DOMAIN s, Trunk \in Nodes(graph)
    PROVE  Edit(ConnectedAbove(DisconnectedBranch(graph, s, i, FALSE), Trunk, s[i], s[LastOf(s, i)], Merge), mapping)
<1> DEFINE A == Living(graph)
           last == LastOf(s, i)
           skip == FALSE
           children == {IF i = 1 THEN Merge ELSE s[i - 1]}
           parents == {IF last = Len(s) THEN Trunk ELSE s[last + 1]}
           cut == Disconnected(graph, s[i], s[last], children, parents, skip)
           trunk == Trunk
           merge == Merge
           h == ConnectedAbove(cut, trunk, s[i], s[last], merge)
<1>1. IsGraph(graph, A)
  BY DEF WellMade
<1>2. s \in Seq(A)
  BY <1>1, StacksType
<1>3. s[i] \in A /\ s[last] \in A /\ s[last] \in Nodes(graph) /\ trunk \in A
  BY <1>2, LastOfType, SeqFacts, StackCommitsFacts DEF References
<1>4. cut = DisconnectedBranch(graph, s, i, FALSE)
  BY Zenon DEF DisconnectedBranch
<1> HIDE DEF last, skip, children, parents, A, trunk, merge
<1>5. IsGraph(cut, A) /\ Nodes(cut) = Nodes(graph) /\ cut.step = graph.step
  BY <1>1, <1>3, DisconnectedIsGraph
<1> HIDE DEF cut
<1>6. IsGraph(h, A) /\ Nodes(h) = Nodes(cut) /\ h.step = cut.step
  BY <1>3, <1>5, ConnectedAboveIsGraph
<1> HIDE DEF h
<1>7. Edit(h, mapping)
  BY <1>5, <1>6, RewiredEdit DEF A
<1> QED
  BY <1>4, <1>7 DEF h, last, trunk, merge

(* Every operation but the last one is such an edit, and a rebase of it.      *)
LEMMA OperationsAreEdits ==
    ASSUME WellMade(graph), RebaseNext
    PROVE  Materialize \/ \E kind \in OpKinds : \E g, pairs : Edit(g, pairs) /\ Rebases(kind, g, pairs)
<1> DEFINE Goal == \E kind \in OpKinds : \E g, pairs : Edit(g, pairs) /\ Rebases(kind, g, pairs)
<1>1. Chosen = Tuples(StackCommits(graph))
  BY StackCommitsFacts
<1>2. CASE MoveCommits
  <2>1. PICK ranked \in {Ranked(graph)}, subjects \in Chosen, anchor \in StackItems(graph), side \in Sides :
           Rebases(IF anchor \in ToSet(subjects) THEN "moveOntoItself" ELSE "move",
                   MovedAll(InTurn(Sorted(ranked, subjects), side), anchor, side), mapping)
    BY <1>2, Zenon DEF MoveCommits, MovedAll
  <2> DEFINE t == InTurn(Sorted(ranked, subjects), side)
             kind == IF anchor \in ToSet(subjects) THEN "moveOntoItself" ELSE "move"
  <2>2. t \in Tuples(StackCommits(graph))
    BY <1>1, SortedType
  <2>3. Rebases(kind, MovedAll(t, anchor, side), mapping)
    BY <2>1, Zenon
  <2>5. kind \in OpKinds
    BY DEF OpKinds
  <2> HIDE DEF t, kind
  <2>4. Edit(MovedAll(t, anchor, side), mapping)
    BY <2>2, MoveIsEdit
  <2> QED
    BY <2>3, <2>4, <2>5, Zenon
<1>3. CASE DiscardCommits
  <2>1. PICK gone \in Chosen : Rebases("discard", Removals(graph, gone), mapping)
    BY <1>3, Zenon DEF DiscardCommits
  <2>2. Edit(Removals(graph, gone), mapping)
    BY <1>1, DiscardIsEdit
  <2>9. "discard" \in OpKinds
    BY DEF OpKinds
  <2> QED
    BY <2>9, <2>1, <2>2, Zenon
<1>4. CASE SquashCommits
  <2>1. PICK subjects \in Chosen, target \in StackCommits(graph) :
           /\ target \notin ToSet(subjects)
           /\ LET removed == Removals(graph, subjects)
                  old == graph.step[target].commit
                  new == Squashed(target, subjects, removed)
              IN Rebases("squash", Replace(removed, target, Pick(new, TRUE)), Update(mapping, {[old |-> old, new |-> new]}))
    BY <1>4, Zenon DEF SquashCommits
  <2> DEFINE removed == Removals(graph, subjects)
             below == Ordered(removed.edges[target])
             parents == [i \in DOMAIN below |-> CommitAt(removed, below[i].to)]
             old == graph.step[target].commit
             new == Squashed(target, subjects, removed)
  <2>2. Rebases("squash", Replace(removed, target, Pick(new, TRUE)), Update(mapping, {[old |-> old, new |-> new]}))
    BY <2>1, Zenon
  <2>3. removed = Removals(graph, subjects) /\ old = graph.step[target].commit
    OBVIOUS
  <2> HIDE DEF removed, parents, old
  <2>4. new = [old EXCEPT !.changes = @ \cup UNION {graph.step[n].commit.changes : n \in ToSet(subjects)},
                          !.parents = parents]
    <3> DEFINE all == UNION {graph.step[n].commit.changes : n \in ToSet(subjects)}
    <3>1. new = [[old EXCEPT !.changes = @ \cup all] EXCEPT !.parents = parents]
      BY Zenon DEF Squashed, OntoParents, parents, old
    <3>2. IsCommit(old)
      BY StackCommitsFacts, StepKinds DEF WellMade, Picks, old
    <3> HIDE DEF all, new
    <3>3. new = [old EXCEPT !.changes = @ \cup all, !.parents = parents]
      BY <3>1, <3>2 DEF IsCommit
    <3> QED
      BY <3>3 DEF all
  <2> HIDE DEF new
  <2>5. Edit(Replace(removed, target, Pick(new, TRUE)), Update(mapping, {[old |-> old, new |-> new]}))
    BY <1>1, <2>1, <2>3, <2>4, SquashIsEdit
  <2>9. "squash" \in OpKinds
    BY DEF OpKinds
  <2> QED
    BY <2>9, <2>2, <2>5, Zenon
<1>5. CASE InsertBlankCommit
  <2>1. PICK new \in New \ Nodes(graph), anchor \in StackItems(graph), side \in Sides :
           Rebases("insert", Insert(graph, anchor, new, Pick([changes |-> {new}, edit |-> 0, parents |-> <<>>], FALSE), side), mapping)
    BY <1>5, Zenon DEF InsertBlankCommit
  <2>2. Edit(Insert(graph, anchor, new, Pick([changes |-> {new}, edit |-> 0, parents |-> <<>>], FALSE), side), mapping)
    BY InsertIsEdit
  <2>9. "insert" \in OpKinds
    BY DEF OpKinds
  <2> QED
    BY <2>9, <2>1, <2>2, Zenon
<1>6. CASE Reword
  <2>1. PICK target \in StackCommits(graph) :
           LET old == graph.step[target].commit
               new == [old EXCEPT !.edit = @ + 1]
           IN Rebases("reword", Replace(graph, target, Pick(new, TRUE)), Update(mapping, {[old |-> old, new |-> new]}))
    BY <1>6, Zenon DEF Reword
  <2> DEFINE old == graph.step[target].commit
             new == [old EXCEPT !.edit = @ + 1]
  <2>2. Rebases("reword", Replace(graph, target, Pick(new, TRUE)), Update(mapping, {[old |-> old, new |-> new]}))
    BY <2>1, Zenon
  <2>3. old = graph.step[target].commit /\ new = [old EXCEPT !.edit = @ + 1]
    OBVIOUS
  <2> HIDE DEF old, new
  <2>4. Edit(Replace(graph, target, Pick(new, TRUE)), Update(mapping, {[old |-> old, new |-> new]}))
    BY <2>3, RewordIsEdit
  <2>9. "reword" \in OpKinds
    BY DEF OpKinds
  <2> QED
    BY <2>9, <2>2, <2>4, Zenon
<1>7. CASE MoveBranch
  <2>0. PICK s \in StacksOf(graph) : \E i \in DOMAIN s : \E target \in StackItems(graph) :
           Rebases("moveBranch", InsertedAbove(DisconnectedBranch(graph, s, i, Segments(s) = 1), target, s[i], s[LastOf(s, i)]), mapping)
    BY <1>7, Zenon DEF MoveBranch
  <2>1. PICK i \in DOMAIN s, target \in StackItems(graph) :
           Rebases("moveBranch", InsertedAbove(DisconnectedBranch(graph, s, i, Segments(s) = 1), target, s[i], s[LastOf(s, i)]), mapping)
    BY <2>0, Zenon
  <2>2. Edit(InsertedAbove(DisconnectedBranch(graph, s, i, Segments(s) = 1), target, s[i], s[LastOf(s, i)]), mapping)
    BY MoveBranchIsEdit
  <2>9. "moveBranch" \in OpKinds
    BY DEF OpKinds
  <2> QED
    BY <2>9, <2>1, <2>2, Zenon
<1>8. CASE TearOffBranch
  <2>1. /\ Trunk \in Nodes(graph)
        /\ \E s \in StacksOf(graph) : \E i \in DOMAIN s :
              Rebases("tearOff", ConnectedAbove(DisconnectedBranch(graph, s, i, FALSE), Trunk, s[i], s[LastOf(s, i)], Merge), mapping)
    BY <1>8, Zenon DEF TearOffBranch
  <2>0. PICK s \in StacksOf(graph) : \E i \in DOMAIN s :
           Rebases("tearOff", ConnectedAbove(DisconnectedBranch(graph, s, i, FALSE), Trunk, s[i], s[LastOf(s, i)], Merge), mapping)
    BY <2>1, Zenon
  <2>2. PICK i \in DOMAIN s :
           Rebases("tearOff", ConnectedAbove(DisconnectedBranch(graph, s, i, FALSE), Trunk, s[i], s[LastOf(s, i)], Merge), mapping)
    BY <2>0, Zenon
  <2>3. Edit(ConnectedAbove(DisconnectedBranch(graph, s, i, FALSE), Trunk, s[i], s[LastOf(s, i)], Merge), mapping)
    BY <2>1, TearOffIsEdit
  <2>9. "tearOff" \in OpKinds
    BY DEF OpKinds
  <2> QED
    BY <2>9, <2>2, <2>3, Zenon
<1> QED
  BY <1>2, <1>3, <1>4, <1>5, <1>6, <1>7, <1>8, Zenon DEF RebaseNext

-----------------------------------------------------------------------------
(* What the mapping knows.                                                    *)
Origin(pairs, commit) ==
    IF commit \in {p.new : p \in pairs} THEN (CHOOSE p \in pairs : p.new = commit).old ELSE commit

(* A commit that was there at first changes what its node stands for, and no  *)
(* other commit does; what the mapping says of these changes is what they     *)
(* were at first; and it knows every commit that is not what it was.          *)
Traced(g, pairs, old) ==
    /\ \A n \in Picks(g) \ New : n \in g.step[n].commit.changes /\ g.step[n].tracked
    /\ \A n \in Picks(g) : \A m \in Picks(g) \ New : m \in g.step[n].commit.changes => m = n
    /\ \A p \in pairs : \A n \in Picks(g) \ New : n \in p.new.changes => p.old = old[n]
    /\ \A n \in Picks(g) \ New : (\E p \in pairs : p.new = g.step[n].commit) \/ g.step[n].commit = old[n]

LEMMA OriginTraced ==
    ASSUME NEW g, NEW pairs, NEW old, Traced(g, pairs, old), NEW n \in Picks(g) \ New
    PROVE  Origin(pairs, g.step[n].commit) = old[n]
<1> DEFINE c == g.step[n].commit
<1>1. n \in c.changes /\ ((\E p \in pairs : p.new = c) \/ c = old[n])
  BY DEF Traced
<1>2. \A p \in pairs : n \in p.new.changes => p.old = old[n]
  BY DEF Traced
<1> HIDE DEF c
<1>3. CASE \E p \in pairs : p.new = c
  <2> DEFINE q == CHOOSE p \in pairs : p.new = c
  <2>1. q \in pairs /\ q.new = c
    BY <1>3
  <2>2. Origin(pairs, c) = q.old
    BY <1>3 DEF Origin
  <2> HIDE DEF q
  <2> QED
    BY <1>1, <1>2, <2>1, <2>2 DEF c
<1>4. CASE ~ \E p \in pairs : p.new = c
  BY <1>1, <1>4 DEF Origin, c
<1> QED
  BY <1>3, <1>4

LEMMA UpdateFacts ==
    ASSUME NEW pairs, NEW rewrites
    PROVE  Update(pairs, rewrites) =
              {p \in pairs : p.new \notin {r.old : r \in rewrites}}
              \cup {[new |-> r.new, old |-> Origin(pairs, r.old)] : r \in rewrites}
BY Zenon DEF Update, Origin

LEMMA RebasedIsTraced ==
    ASSUME NEW g, IsGraph(g, Living(g)), Kinds(g), NEW pairs, NEW old, Traced(g, pairs, old), NEW r, r = Rebased(g),
           NEW after, after = Update(pairs, Rewrites(g, r))
    PROVE  /\ Traced(r, after, old)
           /\ \A n \in Picks(r) \ New : [new |-> r.step[n].commit, old |-> old[n]] \in after
<1> DEFINE R == Rewrites(g, r)
           from == {x.old : x \in R}
           Pair(x) == [new |-> x.new, old |-> Origin(pairs, x.old)]
           Before(n) == g.step[n].commit
           Now(n) == r.step[n].commit
<1>1. Picks(r) \subseteq Picks(g) /\ \A n \in Picks(r) : Now(n).changes = Before(n).changes /\ r.step[n].tracked = g.step[n].tracked
  <2>1. IsRebased(g, r)
    BY RebasedSteps
  <2>2. Picks(r) \subseteq Picks(g)
    BY <2>1 DEF IsRebased
  <2>3. ASSUME NEW n \in Picks(r) PROVE Now(n).changes = Before(n).changes /\ r.step[n].tracked = g.step[n].tracked
    <3> DEFINE was == Before(n)
               changes == was.changes
               edit == was.edit
               parents == [i \in DOMAIN ParentsOf(g, n) |-> r.step[ParentsOf(g, n)[i]].commit]
    <3>1. Now(n) = [changes |-> changes, edit |-> edit, parents |-> parents] /\ r.step[n].tracked = g.step[n].tracked
      BY <2>1 DEF IsRebased
    <3> HIDE DEF changes, edit, parents
    <3>2. Now(n).changes = changes
      BY <3>1
    <3> QED
      BY <3>1, <3>2 DEF changes
  <2> QED
    BY <2>2, <2>3
<1>2. after = {p \in pairs : p.new \notin from} \cup {Pair(x) : x \in R}
  BY UpdateFacts, Zenon
<1>3. /\ \A x \in R : \E n \in Picks(r) : x = [old |-> Before(n), new |-> Now(n)]
      /\ \A n \in Picks(r) : g.step[n].tracked => [old |-> Before(n), new |-> Now(n)] \in R
  BY DEF Rewrites
<1>4. /\ \A n \in Picks(g) \ New : n \in Before(n).changes /\ g.step[n].tracked
      /\ \A n \in Picks(g) : \A m \in Picks(g) \ New : m \in Before(n).changes => m = n
      /\ \A p \in pairs : \A n \in Picks(g) \ New : n \in p.new.changes => p.old = old[n]
  BY DEF Traced
<1>5. \A n \in Picks(g) \ New : Origin(pairs, Before(n)) = old[n]
  BY OriginTraced
<1> HIDE DEF R, Before, Now
<1>6. \A n \in Picks(r) \ New : [new |-> Now(n), old |-> old[n]] \in after
  <2> TAKE n \in Picks(r) \ New
  <2> DEFINE x == [old |-> Before(n), new |-> Now(n)]
  <2>1. x \in R
    BY <1>1, <1>3, <1>4
  <2>2. x.new = Now(n) /\ Origin(pairs, x.old) = old[n]
    BY <1>1, <1>5
  <2>3. Pair(x) \in after
    BY <1>2, <2>1
  <2> QED
    BY <2>2, <2>3
<1>7. ASSUME NEW p \in after, NEW n \in Picks(r) \ New, n \in p.new.changes PROVE p.old = old[n]
  <2>1. CASE p \in pairs
    BY <1>1, <1>4, <1>7, <2>1
  <2>2. ASSUME NEW x \in R, p = Pair(x) PROVE p.old = old[n]
    <3>1. PICK m \in Picks(r) : x = [old |-> Before(m), new |-> Now(m)]
      BY <1>3
    <3>2. x.old = Before(m) /\ x.new = Now(m)
      BY <3>1
    <3>3. p.new = Now(m) /\ p.old = Origin(pairs, Before(m))
      BY <2>2, <3>2
    <3>4. n \in Before(m).changes /\ m \in Picks(g) /\ n \in Picks(g) \ New
      BY <1>1, <1>7, <3>3
    <3>5. m = n
      BY <1>4, <3>4
    <3> QED
      BY <1>5, <3>3, <3>4, <3>5
  <2> QED
    BY <1>2, <2>1, <2>2
<1>8. \A n \in Picks(r) \ New : \E p \in after : p.new = Now(n)
  <2> TAKE n \in Picks(r) \ New
  <2> DEFINE p == [new |-> Now(n), old |-> old[n]]
  <2>1. p \in after /\ p.new = Now(n)
    BY <1>6
  <2> HIDE DEF p
  <2> QED
    BY <2>1
<1>9. /\ \A n \in Picks(r) \ New : n \in Now(n).changes /\ r.step[n].tracked
      /\ \A n \in Picks(r) : \A m \in Picks(r) \ New : m \in Now(n).changes => m = n
  BY <1>1, <1>4
<1>10. Traced(r, after, old)
  BY <1>7, <1>8, <1>9 DEF Traced, Now
<1> QED
  BY <1>6, <1>10 DEF Now

(* Every edit keeps what the mapping knows.                                   *)
LEMMA LeftOutIsTraced ==
    ASSUME WellMade(graph), NEW old, Traced(graph, mapping, old),
           NEW gone \in SUBSET Picks(graph), NEW g, LeftOut(g, gone)
    PROVE  Traced(g, mapping, old) /\ Nodes(g) = Nodes(graph)
<1>1. /\ Nodes(g) = Nodes(graph) /\ Picks(g) \subseteq Picks(graph)
      /\ \A n \in Picks(g) : g.step[n] = graph.step[n]
  BY LeftOutFacts
<1> QED
  BY <1>1 DEF Traced

LEMMA AddedIsTraced ==
    ASSUME WellMade(graph), NEW old, Traced(graph, mapping, old),
           NEW new \in New \ Nodes(graph), NEW g, Added(g, new)
    PROVE  Traced(g, mapping, old) /\ Nodes(g) = Nodes(graph) \cup {new}
<1>1. new \notin References /\ Picks(graph) \subseteq Nodes(graph)
  BY RebaseAssumption DEF Picks
<1>2. /\ Nodes(g) = Nodes(graph) \cup {new} /\ Picks(g) = Picks(graph) \cup {new}
      /\ g.step[new].commit.changes = {new} /\ \A n \in Picks(graph) : g.step[n] = graph.step[n]
  BY <1>1, AddedFacts
<1>3. Picks(g) \ New = Picks(graph) \ New
  BY <1>2
<1> QED
  BY <1>2, <1>3 DEF Traced

LEMMA RewroteIsTraced ==
    ASSUME WellMade(graph), NEW old, Traced(graph, mapping, old),
           NEW gone \in SUBSET Picks(graph), NEW target \in Picks(graph) \ gone, NEW commit, IsCommit(commit),
           NEW g, Rewrote(g, gone, target, commit),
           commit.changes = graph.step[target].commit.changes \cup UNION {graph.step[n].commit.changes : n \in gone},
           NEW pairs, pairs = Update(mapping, {[old |-> graph.step[target].commit, new |-> commit]})
    PROVE  Traced(g, pairs, old) /\ Nodes(g) = Nodes(graph)
<1> DEFINE was == graph.step[target].commit
           rewrite == [old |-> was, new |-> commit]
           pair == [new |-> commit, old |-> Origin(mapping, was)]
           Before(n) == graph.step[n].commit
           Now(n) == g.step[n].commit
<1>1. /\ Nodes(g) = Nodes(graph) /\ Picks(g) = Picks(graph) \ gone
      /\ \A n \in Picks(g) \ {target} : g.step[n] = graph.step[n]
      /\ g.step[target].commit = commit /\ g.step[target].tracked
  BY RewroteFacts
<1>2. /\ \A n \in Picks(g) : n # target => Now(n) = Before(n) /\ g.step[n].tracked = graph.step[n].tracked
      /\ Now(target) = commit
  BY <1>1
<1>3. pairs = {p \in mapping : p.new # was} \cup {pair}
  <2>1. rewrite.old = was /\ rewrite.new = commit
    OBVIOUS
  <2>2. pairs = {p \in mapping : p.new \notin {r.old : r \in {rewrite}}}
                \cup {[new |-> r.new, old |-> Origin(mapping, r.old)] : r \in {rewrite}}
    BY UpdateFacts, Zenon
  <2> HIDE DEF rewrite, was
  <2> QED
    BY <2>1, <2>2
<1>4. pair.new = commit /\ pair.old = Origin(mapping, was)
  OBVIOUS
<1>5. /\ \A n \in Picks(graph) \ New : n \in Before(n).changes /\ graph.step[n].tracked
      /\ \A n \in Picks(graph) : \A m \in Picks(graph) \ New : m \in Before(n).changes => m = n
      /\ \A p \in mapping : \A n \in Picks(graph) \ New : n \in p.new.changes => p.old = old[n]
      /\ \A n \in Picks(graph) \ New : (\E p \in mapping : p.new = Before(n)) \/ Before(n) = old[n]
  BY DEF Traced
<1>6. target \notin New => Origin(mapping, was) = old[target]
  BY OriginTraced
<1>7. commit.changes = Before(target).changes \cup UNION {Before(n).changes : n \in gone} /\ was = Before(target)
  OBVIOUS
<1> HIDE DEF Before, Now, was, pair, rewrite
<1>8. \A m \in Picks(g) \ New : m \in commit.changes => m = target
  <2> TAKE m \in Picks(g) \ New
  <2>1. m \in Picks(graph) \ New /\ m \notin gone
    BY <1>1
  <2>2. \A n \in gone : m \notin Before(n).changes
    BY <1>5, <2>1
  <2> QED
    BY <1>5, <1>7, <2>1, <2>2
<1>9. \A n \in Picks(g) \ New : n \in Now(n).changes /\ g.step[n].tracked
  <2> TAKE n \in Picks(g) \ New
  <2>1. n \in Before(n).changes /\ graph.step[n].tracked
    BY <1>1, <1>5
  <2>2. n = target => n \in commit.changes
    BY <1>7, <2>1
  <2> QED
    BY <1>1, <1>2, <2>1, <2>2
<1>10. \A n \in Picks(g) : \A m \in Picks(g) \ New : m \in Now(n).changes => m = n
  BY <1>1, <1>2, <1>5, <1>8
<1>11. ASSUME NEW p \in pairs, NEW n \in Picks(g) \ New, n \in p.new.changes
       PROVE  p.old = old[n]
  <2>1. n \in Picks(graph) \ New
    BY <1>1
  <2>2. CASE p \in mapping
    BY <1>5, <1>11, <2>1, <2>2
  <2>3. CASE p = pair
    <3>1. n = target
      BY <1>4, <1>8, <1>11, <2>3
    <3> QED
      BY <1>4, <1>6, <2>1, <2>3, <3>1
  <2> QED
    BY <1>3, <2>2, <2>3
<1>12. ASSUME NEW n \in Picks(g) \ New
       PROVE  (\E p \in pairs : p.new = Now(n)) \/ Now(n) = old[n]
  <2>1. CASE n = target
    BY <1>2, <1>3, <1>4, <2>1
  <2>2. CASE n # target
    <3>1. n \in Picks(graph) \ New /\ Now(n) = Before(n) /\ n \in Before(n).changes
      BY <1>1, <1>2, <1>5, <2>2
    <3>2. Before(n) # was
      BY <1>5, <1>7, <2>2, <3>1
    <3>3. ASSUME NEW p \in mapping, p.new = Before(n) PROVE p \in pairs
      BY <1>3, <3>2, <3>3
    <3> QED
      BY <1>5, <3>1, <3>3
  <2> QED
    BY <2>1, <2>2
<1>13. Traced(g, pairs, old)
  BY <1>9, <1>10, <1>11, <1>12 DEF Traced, Now
<1> QED
  BY <1>1, <1>13

LEMMA EditIsTraced ==
    ASSUME WellMade(graph), NEW old, Traced(graph, mapping, old), NEW g, NEW pairs, Edit(g, pairs)
    PROVE  Traced(g, pairs, old) /\ Nodes(g) \subseteq Nodes(graph) \cup New
<1>1. ASSUME NEW gone \in SUBSET Picks(graph), LeftOut(g, gone), pairs = mapping
      PROVE  Traced(g, pairs, old) /\ Nodes(g) \subseteq Nodes(graph) \cup New
  BY <1>1, LeftOutIsTraced
<1>2. ASSUME NEW new \in New \ Nodes(graph), Added(g, new), pairs = mapping
      PROVE  Traced(g, pairs, old) /\ Nodes(g) \subseteq Nodes(graph) \cup New
  BY <1>2, AddedIsTraced
<1>3. ASSUME NEW gone \in SUBSET Picks(graph), NEW target \in Picks(graph) \ gone, NEW commit,
             Rewrote(g, gone, target, commit), IsCommit(commit),
             commit.changes = graph.step[target].commit.changes \cup UNION {graph.step[n].commit.changes : n \in gone},
             pairs = Update(mapping, {[old |-> graph.step[target].commit, new |-> commit]})
      PROVE  Traced(g, pairs, old) /\ Nodes(g) \subseteq Nodes(graph) \cup New
  BY <1>3, RewroteIsTraced
<1> QED
  BY <1>1, <1>2, <1>3, Zenon DEF Edit

-----------------------------------------------------------------------------
(* The steps.                                                                 *)
RebaseInv ==
    /\ WellMade(graph) /\ DOMAIN refs \subseteq References
    /\ operations \in 0..MaxOps /\ latest \in OpKinds /\ editing \in BOOLEAN

LEMMA RebaseStep ==
    ASSUME RebaseInv, RebaseNext
    PROVE  /\ RebaseInv'
           /\ \/ /\ editing' = FALSE /\ UNCHANGED <<graph, mapping, operations>>
              \/ \E g, pairs :
                    /\ Edit(g, pairs) /\ graph' = Rebased(g) /\ mapping' = Update(pairs, Rewrites(g, graph'))
                    /\ operations' > 0 /\ UNCHANGED <<refs, editing>>
<1>1. CASE Materialize
  <2>1. /\ editing' = FALSE /\ UNCHANGED <<graph, mapping, operations, latest>>
        /\ refs' \in {RefEdits(graph), refs}
    BY <1>1 DEF Materialize
  <2>2. DOMAIN refs' = DOMAIN refs
    BY <2>1 DEF RefEdits
  <2>3. WellMade(graph)' <=> WellMade(graph)
    BY <2>1 DEF WellMade, IsGraph, Kinds, Acyclic, Living, Nodes, Targets
  <2> QED
    BY <2>1, <2>2, <2>3 DEF RebaseInv
<1>2. ASSUME NEW kind \in OpKinds, NEW g, NEW pairs, Edit(g, pairs), Rebases(kind, g, pairs)
      PROVE  /\ RebaseInv'
             /\ Edit(g, pairs) /\ graph' = Rebased(g) /\ mapping' = Update(pairs, Rewrites(g, graph'))
             /\ operations' > 0 /\ UNCHANGED <<refs, editing>>
  <2>1. /\ operations < MaxOps /\ operations' = operations + 1 /\ latest' = kind /\ UNCHANGED <<refs, editing>>
        /\ graph' = Rebased(g) /\ mapping' = Update(pairs, Rewrites(g, graph'))
    BY <1>2, Zenon DEF Rebases
  <2>2. IsGraph(g, Living(g)) /\ Kinds(g)
    BY <1>2 DEF Edit
  <2>3. \A r : r = Rebased(g) => WellMade(r)
    BY <2>2, RebasedIsWellMade
  <2>4. WellMade(graph')
    BY <2>1, <2>3
  <2>5. WellMade(graph)' <=> WellMade(graph')
    BY DEF WellMade, IsGraph, Kinds, Acyclic, Living, Nodes, Targets
  <2>6. operations \in 0..MaxOps /\ MaxOps \in Nat
    BY RebaseAssumption DEF RebaseInv
  <2> QED
    BY <1>2, <2>1, <2>4, <2>5, <2>6 DEF RebaseInv
<1>3. Materialize \/ \E kind \in OpKinds : \E g, pairs : Edit(g, pairs) /\ Rebases(kind, g, pairs)
  BY OperationsAreEdits DEF RebaseInv
<1>4. CASE \E kind \in OpKinds : \E g, pairs : Edit(g, pairs) /\ Rebases(kind, g, pairs)
  <2>1. PICK kind \in OpKinds : \E g, pairs : Edit(g, pairs) /\ Rebases(kind, g, pairs)
    BY <1>4, Zenon
  <2>2. PICK g, pairs : Edit(g, pairs) /\ Rebases(kind, g, pairs)
    BY <2>1, Zenon
  <2> QED
    BY <1>2, <2>2, Zenon
<1> QED
  BY <1>1, <1>3, <1>4

LEMMA RebaseInitially ==
    ASSUME RebaseInit
    PROVE  RebaseInv
<1>1. PICK w \in Workspaces :
         /\ graph = Created(w) /\ DOMAIN refs = References \cap Nodes(graph)
         /\ operations = 0 /\ latest \in OpKinds /\ editing = TRUE
  BY DEF RebaseInit, OpKinds
<1>2. \A g : g = Created(w) => WellMade(g)
  BY CreatedIsGraph
<1> QED
  BY <1>1, <1>2, RebaseAssumption DEF RebaseInv

LEMMA RebaseStutters ==
    ASSUME RebaseInv, UNCHANGED rebaseVars
    PROVE  RebaseInv'
BY DEF RebaseInv, rebaseVars, WellMade, IsGraph, Kinds, Acyclic, Living, Nodes, Targets

LEMMA RebaseIsTyped ==
    ASSUME RebaseInv
    PROVE  RebaseTypeOK
<1>1. IsGraph(graph, Living(graph))
  BY DEF RebaseInv, WellMade
<1>2. DOMAIN graph.edges = Nodes(graph)
  BY <1>1 DEF IsGraph
<1>3. \A n \in Nodes(graph) : Targets(graph, n) \subseteq Nodes(graph)
  BY <1>1, TargetsType DEF IsGraph
<1> QED
  BY <1>2, <1>3 DEF RebaseTypeOK, RebaseInv

\* Whatever is moved, discarded, squashed, inserted or torn off, the edges of
\* the graph lead to nodes of the graph, and the edits stay within bounds.
THEOREM RebaseTypeCorrect == RebaseSpec => []RebaseTypeOK
<1>1. RebaseInv /\ [RebaseNext]_rebaseVars => RebaseInv'
  BY RebaseStep, RebaseStutters
<1>2. RebaseInv => RebaseTypeOK
  BY RebaseIsTyped
<1>3. RebaseInit => RebaseInv
  BY RebaseInitially
<1> QED
  BY <1>1, <1>2, <1>3, PTL DEF RebaseSpec

-----------------------------------------------------------------------------
(* What the commits were at first, and the trace of what becomes of them.     *)
Old(w) == [n \in NodesOf(w) |-> Created(w).step[n].commit]
Tracing(w) ==
    /\ Nodes(graph) \subseteq NodesOf(w) \cup New
    /\ Traced(graph, mapping, Old(w))
    /\ operations > 0 => \A n \in Picks(graph) \ New : [new |-> graph.step[n].commit, old |-> Old(w)[n]] \in mapping
    /\ editing => refs = [r \in References \cap NodesOf(w) |-> Created(w).step[ParentsOf(Created(w), r)[1]].commit]
TraceInv == RebaseInv /\ \E w \in Workspaces : Tracing(w)

LEMMA TraceInitially ==
    ASSUME RebaseInit
    PROVE  TraceInv
<1>1. PICK w \in Workspaces :
         /\ graph = Created(w) /\ mapping = {} /\ operations = 0
         /\ refs = [r \in References \cap Nodes(graph) |-> graph.step[ParentsOf(graph, r)[1]].commit]
  BY DEF RebaseInit
<1>2. /\ Nodes(graph) = NodesOf(w)
      /\ \A n \in Picks(graph) : graph.step[n].tracked = TRUE /\ graph.step[n].commit.changes = {n}
  BY <1>1, CreatedIsGraph
<1>3. \A n \in Picks(graph) : graph.step[n].commit = Old(w)[n]
  BY <1>1, <1>2 DEF Picks, Old
<1>4. Traced(graph, mapping, Old(w))
  BY <1>1, <1>2, <1>3 DEF Traced
<1>5. refs = [r \in References \cap NodesOf(w) |-> Created(w).step[ParentsOf(Created(w), r)[1]].commit]
  BY <1>1, <1>2
<1> QED
  BY <1>1, <1>2, <1>4, <1>5, RebaseInitially DEF TraceInv, Tracing

LEMMA TraceStep ==
    ASSUME TraceInv, RebaseNext
    PROVE  TraceInv'
<1>1. PICK w \in Workspaces : Tracing(w)
  BY DEF TraceInv
<1>2. RebaseInv /\ WellMade(graph)
  BY DEF TraceInv, RebaseInv
<1> DEFINE old == Old(w)
           first == [r \in References \cap NodesOf(w) |-> Created(w).step[ParentsOf(Created(w), r)[1]].commit]
           Kept == /\ Nodes(graph) \subseteq NodesOf(w) \cup New
                   /\ Traced(graph, mapping, old)
                   /\ operations > 0 => \A n \in Picks(graph) \ New : [new |-> graph.step[n].commit, old |-> old[n]] \in mapping
                   /\ editing => refs = first
<1>3. Kept
  BY <1>1, Zenon DEF Tracing
<1>4. Kept' => Tracing(w)'
  BY Zenon DEF Tracing, Old, NodesOf, Created, Bare
<1> HIDE DEF old, first
<1>5. ASSUME editing' = FALSE, UNCHANGED <<graph, mapping, operations>>
      PROVE  Kept'
  BY <1>3, <1>5
<1>6. ASSUME NEW g, NEW pairs, Edit(g, pairs), graph' = Rebased(g), mapping' = Update(pairs, Rewrites(g, graph')),
             operations' > 0, UNCHANGED <<refs, editing>>
      PROVE  Kept'
  <2> DEFINE r == graph'
             after == mapping'
  <2>1. IsGraph(g, Living(g)) /\ Kinds(g)
    BY <1>6 DEF Edit
  <2>2. Traced(g, pairs, old) /\ Nodes(g) \subseteq Nodes(graph) \cup New
    BY <1>2, <1>3, <1>6, EditIsTraced
  <2>3. r = Rebased(g) /\ after = Update(pairs, Rewrites(g, r))
    BY <1>6
  <2> HIDE DEF r, after
  <2>4. Traced(r, after, old) /\ \A n \in Picks(r) \ New : [new |-> r.step[n].commit, old |-> old[n]] \in after
    BY <2>1, <2>2, <2>3, RebasedIsTraced
  <2>5. Nodes(r) \subseteq Nodes(g)
    BY <2>1, <2>3, RebasedIsGraph
  <2> QED
    BY <1>3, <1>6, <2>2, <2>4, <2>5 DEF r, after
<1> QED
  <2>1. \/ editing' = FALSE /\ UNCHANGED <<graph, mapping, operations>>
        \/ \E g, pairs :
              /\ Edit(g, pairs) /\ graph' = Rebased(g) /\ mapping' = Update(pairs, Rewrites(g, graph'))
              /\ operations' > 0 /\ UNCHANGED <<refs, editing>>
    BY <1>2, RebaseStep
  <2>2. RebaseInv'
    BY <1>2, RebaseStep
  <2> HIDE DEF Kept
  <2>3. Kept'
    BY <1>5, <1>6, <2>1
  <2> QED
    BY <1>4, <2>2, <2>3 DEF TraceInv

(* The history of what was there at first.                                    *)
Widened(S) == S \cup UNION {ToSet(c.parents) : c \in S}
IsWidened(f, start, times) ==
    f = [k \in 0..times |->
            IF k = 0 THEN start ELSE CHOOSE y \in {Widened(S) : S \in {f[k - 1]}} : TRUE]

LEMMA HistoryType ==
    ASSUME IsFiniteSet(Nodes(graph)), NEW C, \A c \in C : ToSet(c.parents) \subseteq C, NEW commit \in C
    PROVE  History(commit) \subseteq C
<1> DEFINE times == Cardinality(Nodes(graph))
           T == SUBSET C
           start == {commit}
           F == [S \in T |-> Widened(S)]
           f == CHOOSE h : IsWidened(h, start, times)
<1>1. \A S \in T : Widened(S) \in T
  BY DEF Widened
<1>2. F \in [T -> T] /\ start \in T
  BY <1>1
<1>3. times \in Nat
  BY FS_CardinalityType
<1>4. History(commit) = f[times]
  BY DEF History, Repeat, IsWidened, Widened
<1> HIDE DEF times, F, T, start
<1>5. IsWidened(f, start, times)
  <2>1. PICK h : IsIterate(h, F, start, times) /\ \A k \in 0..times : h[k] \in T
    BY <1>2, <1>3, IterateExists
  <2> DEFINE Following(k) == CHOOSE y \in {Widened(S) : S \in {h[k - 1]}} : TRUE
  <2>2. \A k \in 1..times : F[h[k - 1]] = Following(k)
    BY <1>3, <2>1 DEF F
  <2> HIDE DEF Following
  <2>3. h = [k \in 0..times |-> IF k = 0 THEN start ELSE Following(k)]
    BY <1>3, <2>1, <2>2 DEF IsIterate
  <2>4. IsWidened(h, start, times)
    BY <2>3 DEF IsWidened, Following
  <2> QED
    BY <2>4
<1> HIDE DEF f
<1>6. f[0] = start /\ \A k \in 1..times : f[k] = Widened(f[k - 1])
  BY <1>3, <1>5 DEF IsWidened
<1>7. \A k \in 0..times : f[k] \in T
  BY <1>1, <1>2, <1>3, <1>6, Stays
<1> QED
  BY <1>3, <1>4, <1>7 DEF T

LEMMA TraceIsKept ==
    ASSUME TraceInv
    PROVE  RewritesAreTraced
<1> SUFFICES ASSUME editing, operations > 0, WorkspaceRef \in Nodes(graph),
                    NEW was \in History(refs[WorkspaceRef]), NEW n \in Picks(graph), was.changes = {n}
             PROVE  [old |-> was, new |-> graph.step[n].commit] \in mapping
  BY DEF RewritesAreTraced
<1>1. PICK w \in Workspaces : Tracing(w)
  BY DEF TraceInv
<1> DEFINE g == Created(w)
           C == {g.step[m].commit : m \in Picks(g)}
           p == ParentsOf(g, WorkspaceRef)
<1>2. /\ IsGraph(g, Living(g)) /\ Nodes(g) = NodesOf(w)
      /\ \A m \in Picks(g) :
            /\ g.step[m].commit.changes = {m}
            /\ \A i \in DOMAIN g.step[m].commit.parents :
                  \E k \in Picks(g) : g.step[m].commit.parents[i] = g.step[k].commit
  <2>0. g = Created(w)
    OBVIOUS
  <2> HIDE DEF g, C, p
  <2>1. WellMade(g) /\ Nodes(g) = NodesOf(w)
    BY <2>0, CreatedIsGraph
  <2>2. \A m \in Picks(g) : g.step[m].commit.changes = {m}
    BY <2>0, CreatedIsGraph
  <2>3. ParentsArePicked(g)
    BY <2>0, CreatedIsGraph
  <2> QED
    BY <2>1, <2>2, <2>3 DEF WellMade, ParentsArePicked
<1>3. WorkspaceRef \in References \cap NodesOf(w)
  <2>1. WorkspaceRef \in NodesOf(w) \cup New
    BY <1>1 DEF Tracing
  <2> QED
    BY <2>1, RebaseAssumption DEF References
<1>4. refs[WorkspaceRef] = g.step[p[1]].commit
  <2>1. refs = [r \in References \cap NodesOf(w) |-> g.step[ParentsOf(g, r)[1]].commit]
    BY <1>1 DEF Tracing
  <2> HIDE DEF g
  <2> QED
    BY <1>3, <2>1
<1>5. p # <<>>
  BY <1>3, RebaseAssumption
<1> HIDE DEF g
<1>6. refs[WorkspaceRef] \in C
  <2>1. Nodes(g) \in SUBSET Nodes(g) /\ WorkspaceRef \in Nodes(g) /\ \A m \in Nodes(g) : Targets(g, m) \subseteq Nodes(g)
    BY <1>2, <1>3, TargetsType DEF IsGraph
  <2>2. p \in Seq(Picks(g) \cap Nodes(g))
    BY <1>2, <2>1, ParentsOfType
  <2> HIDE DEF p
  <2>3. Len(p) \in Nat /\ Len(p) # 0
    BY <1>5, <2>2, EmptySeq
  <2>4. p[1] \in Picks(g)
    BY <2>2, <2>3, SeqFacts
  <2> QED
    BY <1>4, <2>4 DEF C
<1>7. \A c \in C : ToSet(c.parents) \subseteq C
  BY <1>2 DEF ToSet
<1> HIDE DEF C
<1>8. IsFiniteSet(Nodes(graph))
  BY DEF TraceInv, RebaseInv, WellMade, IsGraph
<1>9. was \in C
  BY <1>6, <1>7, <1>8, HistoryType
<1>10. PICK m \in Picks(g) : was = g.step[m].commit
  BY <1>9 DEF C
<1>11. m = n /\ n \in NodesOf(w)
  BY <1>2, <1>10 DEF Picks
<1>12. n \notin New
  BY <1>11, RebaseAssumption
<1>13. was = Old(w)[n]
  BY <1>10, <1>11 DEF Old, g
<1>14. [new |-> graph.step[n].commit, old |-> Old(w)[n]] \in mapping
  BY <1>1, <1>12 DEF Tracing
<1> QED
  BY <1>13, <1>14

\* Over any number of operations the mapping says of every commit that was
\* there at first, and is still there, what it has become.
THEOREM RewritesTraced == RebaseSpec => []RewritesAreTraced
<1>1. TraceInv /\ [RebaseNext]_rebaseVars => TraceInv'
  <2>1. TraceInv /\ UNCHANGED rebaseVars => TraceInv'
    <3> SUFFICES ASSUME TraceInv, UNCHANGED rebaseVars PROVE TraceInv'
      OBVIOUS
    <3>1. RebaseInv'
      BY RebaseStutters DEF TraceInv
    <3>2. PICK w \in Workspaces : Tracing(w)
      BY DEF TraceInv
    <3> DEFINE old == Old(w)
               first == [r \in References \cap NodesOf(w) |-> Created(w).step[ParentsOf(Created(w), r)[1]].commit]
               Kept == /\ Nodes(graph) \subseteq NodesOf(w) \cup New
                       /\ Traced(graph, mapping, old)
                       /\ operations > 0 => \A n \in Picks(graph) \ New : [new |-> graph.step[n].commit, old |-> old[n]] \in mapping
                       /\ editing => refs = first
    <3>3. Kept
      BY <3>2, Zenon DEF Tracing
    <3>4. Kept' => Tracing(w)'
      BY Zenon DEF Tracing, Old, NodesOf, Created, Bare
    <3> HIDE DEF old, first
    <3>5. Kept'
      BY <3>3 DEF rebaseVars
    <3> QED
      BY <3>1, <3>4, <3>5 DEF TraceInv
  <2> QED
    BY <2>1, TraceStep
<1>2. TraceInv => RewritesAreTraced
  BY TraceIsKept
<1>3. RebaseInit => TraceInv
  BY TraceInitially
<1> QED
  BY <1>1, <1>2, <1>3, PTL DEF RebaseSpec

-----------------------------------------------------------------------------
(* The order of the commits.                                                  *)
-----------------------------------------------------------------------------
(* What is repeated until nothing is left to do.                              *)
LEMMA RunsDry ==
    ASSUME NEW T, NEW M \in [T -> Nat], NEW times \in Nat, NEW f,
           f[0] \in T, M[f[0]] <= times,
           \A k \in 1..times : f[k - 1] \in T =>
               f[k] \in T /\ (IF M[f[k - 1]] = 0 THEN M[f[k]] = 0 ELSE M[f[k]] < M[f[k - 1]])
    PROVE  f[times] \in T /\ M[f[times]] = 0
<1> DEFINE S == {k \in Nat : k <= times => f[k] \in T /\ (M[f[k]] = 0 \/ M[f[k]] + k <= times)}
<1>1. 0 \in S
  OBVIOUS
<1>2. ASSUME NEW k \in Nat, k \in S PROVE k + 1 \in S
  <2> SUFFICES ASSUME k + 1 <= times
               PROVE  f[k + 1] \in T /\ (M[f[k + 1]] = 0 \/ M[f[k + 1]] + (k + 1) <= times)
    OBVIOUS
  <2>1. k + 1 \in 1..times /\ (k + 1) - 1 = k
    OBVIOUS
  <2>2. f[k] \in T /\ (M[f[k]] = 0 \/ M[f[k]] + k <= times)
    BY <1>2, <2>1
  <2>3. f[k + 1] \in T /\ (IF M[f[k]] = 0 THEN M[f[k + 1]] = 0 ELSE M[f[k + 1]] < M[f[k]])
    BY <2>1, <2>2
  <2>4. M[f[k]] \in Nat /\ M[f[k + 1]] \in Nat
    BY <2>2, <2>3
  <2> QED
    BY <2>2, <2>3, <2>4
<1> HIDE DEF S
<1>3. times \in S
  BY <1>1, <1>2, Inductive
<1>4. f[times] \in T /\ (M[f[times]] = 0 \/ M[f[times]] + times <= times)
  BY <1>3 DEF S
<1> QED
  BY <1>4

(* The members at these places are all there.                                 *)
LEMMA AtCovers ==
    ASSUME NEW T, NEW s \in Seq(T), NEW places \in SUBSET (1..Len(s))
    PROVE  /\ Len(At(s, places)) = Cardinality(places)
           /\ \A i \in places : \E k \in DOMAIN At(s, places) : At(s, places)[k] = s[i]
<1>1. IsFiniteSet(places) /\ Cardinality(places) \in Nat /\ places \in SUBSET Int
  <2>1. IsFiniteSet(1..Len(s)) /\ Len(s) \in Nat
    BY SeqFacts
  <2>2. IsFiniteSet(places)
    BY <2>1, FS_Subset
  <2> QED
    BY <2>1, <2>2, FS_CardinalityType
<1> DEFINE c == Cardinality(places)
           p == [k \in 1..c |-> CHOOSE i \in places : Rank(places, i) = k]
<1>2. At(s, places) = [k \in 1..c |-> s[p[k]]]
  BY DEF At, Rank
<1>3. \A i \in places : Rank(places, i) \in 1..c /\ p[Rank(places, i)] = i
  <2> SUFFICES ASSUME NEW i \in places PROVE Rank(places, i) \in 1..c /\ p[Rank(places, i)] = i
    OBVIOUS
  <2> DEFINE k == Rank(places, i)
  <2>1. k \in 1..c
    BY <1>1, RankRange
  <2>2. \A m \in places : Rank(places, m) = k => m = i
    BY <1>1, RankIsInjective
  <2>3. (CHOOSE m \in places : Rank(places, m) = k) = i
    BY <2>2
  <2> QED
    BY <2>1, <2>3
<1> HIDE DEF p
<1>4. Len([k \in 1..c |-> s[p[k]]]) = c /\ DOMAIN [k \in 1..c |-> s[p[k]]] = 1..c
  BY <1>1
<1>5. \A i \in places : [k \in 1..c |-> s[p[k]]][Rank(places, i)] = s[i]
  BY <1>3
<1> QED
  BY <1>2, <1>3, <1>4, <1>5

(* Between the first and the last of many with one target.                    *)
LEMMA LastPlace ==
    ASSUME NEW A, NEW e \in Seq(EdgesIn(A)), NEW i \in DOMAIN e
    PROVE  \E k \in DOMAIN e : e[k].to = e[i].to /\ \A j \in DOMAIN e : j > k => e[j].to # e[i].to
<1> DEFINE S == {k \in DOMAIN e : e[k].to = e[i].to}
<1>1. S \in SUBSET (0..Len(e)) /\ S # {} /\ Len(e) \in Nat
  BY SeqFacts
<1> HIDE DEF S
<1>2. PICK m \in S : \A k \in S : m >= k
  BY <1>1, Greatest
<1>3. \A j \in DOMAIN e : j > m => j \notin S
  BY <1>1, <1>2, SeqFacts
<1> QED
  BY <1>2, <1>3 DEF S

LEMMA OrderedCovers ==
    ASSUME NEW A, NEW e \in Seq(EdgesIn(A)), NEW i \in DOMAIN e
    PROVE  \E k \in DOMAIN Ordered(e) : Ordered(e)[k] = e[i]
<1>1. DOMAIN e = 1..Len(e)
  BY SeqFacts
<1> DEFINE p == [k \in 1..Len(e) |-> CHOOSE j \in 1..Len(e) : Place(e, j) = k]
<1>2. Ordered(e) = [k \in 1..Len(e) |-> e[p[k]]]
  <2>1. Ordered(e) = [k \in DOMAIN e |-> e[CHOOSE j \in DOMAIN e : Place(e, j) = k]]
    BY Zenon DEF Ordered, Place, Precedes
  <2> QED
    BY <1>1, <2>1
<1>3. Place(e, i) \in 1..Len(e)
  BY <1>1, PlaceRange
<1>4. \A j \in 1..Len(e) : Place(e, j) = Place(e, i) => j = i
  BY <1>1, PlaceIsInjective
<1>5. p[Place(e, i)] = i
  BY <1>1, <1>3, <1>4
<1> HIDE DEF p
<1> QED
  BY <1>2, <1>3, <1>5

-----------------------------------------------------------------------------
(* The search for the parents of a commit misses none: what has been seen is  *)
(* on the stack, a commit that was found, or led to what has been seen.       *)
Searched(g, s) ==
    \A m \in s.seen :
        \/ \E i \in DOMAIN s.stack : s.stack[i].to = m
        \/ m \in Picks(g) /\ m \in ToSet(s.parents)
        \/ m \notin Picks(g) /\ Targets(g, m) \subseteq s.seen
Unvisited(g, s) ==
    IF s.stack = <<>> THEN 0 ELSE Len(s.stack) + Cardinality(Nodes(g) \ s.seen)

LEMMA HeadAndTail ==
    ASSUME NEW T, NEW s \in Seq(T), s # <<>>
    PROVE  /\ Len(s) \in Nat /\ Len(s) > 0 /\ s[1] \in T
           /\ Tail(s) \in Seq(T) /\ Len(Tail(s)) = Len(s) - 1
           /\ \A i \in 1..(Len(s) - 1) : Tail(s)[i] = s[i + 1]
<1>1. Len(s) \in Nat /\ Len(s) # 0
  BY EmptySeq
<1>2. s[1] \in T
  BY <1>1, SeqFacts
<1> QED
  BY <1>1, <1>2

LEMMA Concatenated ==
    ASSUME NEW T, NEW s \in Seq(T), NEW t \in Seq(T)
    PROVE  /\ s \o t \in Seq(T) /\ Len(s \o t) = Len(s) + Len(t)
           /\ \A i \in 1..Len(s) : (s \o t)[i] = s[i]
           /\ \A i \in 1..Len(t) : (s \o t)[Len(s) + i] = t[i]
OBVIOUS

LEMMA ToSetOfAppend ==
    ASSUME NEW T, NEW s \in Seq(T), NEW x \in T
    PROVE  ToSet(Append(s, x)) = ToSet(s) \cup {x}
<1> DEFINE t == Append(s, x)
<1>1. Len(s) \in Nat /\ DOMAIN s = 1..Len(s) /\ DOMAIN t = 1..(Len(s) + 1)
  OBVIOUS
<1>2. t[Len(s) + 1] = x /\ \A i \in 1..Len(s) : t[i] = s[i]
  OBVIOUS
<1> HIDE DEF t
<1>3. \A i \in 1..(Len(s) + 1) : i \in 1..Len(s) \/ i = Len(s) + 1
  BY <1>1
<1>4. 1..Len(s) \subseteq 1..(Len(s) + 1) /\ Len(s) + 1 \in 1..(Len(s) + 1)
  BY <1>1
<1>5. {t[i] : i \in DOMAIN t} = {s[i] : i \in DOMAIN s} \cup {x}
  BY <1>1, <1>2, <1>3, <1>4
<1> QED
  BY <1>5 DEF ToSet, t

(* The edges that a visit adds lead to what is seen for the first time, each  *)
(* to a node of its own.                                                      *)
Entered(g, node, seen) ==
    LET further == Ordered(g.edges[node])
        Fresh(i) == /\ further[i].to \notin seen
                    /\ \A j \in DOMAIN further : j > i => further[j].to # further[i].to
    IN At(further, {i \in DOMAIN further : Fresh(i)})

Tos(edges) == {e.to : e \in ToSet(edges)}

LEMMA EnteredType ==
    ASSUME NEW A, NEW g, IsGraph(g, A), NEW node \in Nodes(g), NEW seen \in SUBSET Nodes(g),
           NEW deeper, deeper = Entered(g, node, seen), NEW new, new = Tos(deeper)
    PROVE  /\ deeper \in Seq(EdgesIn(A)) /\ new \subseteq Nodes(g) /\ new \cap seen = {}
           /\ Targets(g, node) \subseteq seen \cup new
           /\ IsFiniteSet(new) /\ Len(deeper) <= Cardinality(new)
<1> DEFINE further == Ordered(g.edges[node])
           places == {i \in DOMAIN further :
                        /\ further[i].to \notin seen
                        /\ \A j \in DOMAIN further : j > i => further[j].to # further[i].to}
<1>1. further \in Seq(EdgesIn(A)) /\ places \in SUBSET (1..Len(further)) /\ DOMAIN further = 1..Len(further)
  <2>1. further \in Seq(EdgesIn(A))
    BY OrderedType DEF IsGraph
  <2> HIDE DEF further
  <2> QED
    BY <2>1, SeqFacts
<1>2. deeper = At(further, places)
  BY DEF Entered
<1>3. \A t \in Targets(g, node) : \E i \in DOMAIN further : further[i].to = t
  <2> DEFINE edges == g.edges[node]
  <2>1. edges \in Seq(EdgesIn(A)) /\ Targets(g, node) = {edges[i].to : i \in DOMAIN edges}
    BY DEF IsGraph, Targets
  <2> HIDE DEF edges
  <2>2. \A i \in DOMAIN edges : \E k \in DOMAIN Ordered(edges) : Ordered(edges)[k] = edges[i]
    BY <2>1, OrderedCovers
  <2>3. \A i \in DOMAIN edges : \E k \in DOMAIN Ordered(edges) : Ordered(edges)[k].to = edges[i].to
    BY <2>2
  <2> QED
    BY <2>1, <2>3 DEF edges
<1> HIDE DEF further
<1>4. \A i \in places : \A j \in places : further[i].to = further[j].to => i = j
  <2> SUFFICES ASSUME NEW i \in places, NEW j \in places, further[i].to = further[j].to PROVE i = j
    OBVIOUS
  <2>1. ~(i < j) /\ ~(j < i) /\ i \in Nat /\ j \in Nat
    BY <1>1
  <2> QED
    BY <2>1
<1>5. \A t \in Targets(g, node) \ seen : \E i \in places : further[i].to = t
  <2> SUFFICES ASSUME NEW t \in Targets(g, node) \ seen PROVE \E i \in places : further[i].to = t
    OBVIOUS
  <2>1. PICK i \in DOMAIN further : further[i].to = t
    BY <1>3
  <2>2. PICK k \in DOMAIN further : further[k].to = t /\ \A j \in DOMAIN further : j > k => further[j].to # t
    BY <1>1, <2>1, LastPlace
  <2> QED
    BY <2>2
<1>6. \A i \in places : further[i].to \notin seen
  OBVIOUS
<1> HIDE DEF places
<1>7. /\ deeper \in Seq(EdgesIn(A)) /\ Len(deeper) = Cardinality(places)
      /\ \A k \in DOMAIN deeper : \E i \in places : deeper[k] = further[i]
      /\ \A i \in places : \E k \in DOMAIN deeper : deeper[k] = further[i]
  BY <1>1, <1>2, AtType, AtCovers
<1>8. new = {further[i].to : i \in places}
  BY <1>7 DEF ToSet, Tos
<1>9. new \subseteq A /\ A \subseteq Nodes(g)
  <2>1. \A i \in places : further[i] \in EdgesIn(A)
    BY <1>1, SeqFacts
  <2>2. \A i \in places : further[i].to \in A
    BY <2>1, EdgeFacts
  <2> QED
    BY <1>8, <2>2 DEF IsGraph
<1>10. IsFiniteSet(new) /\ Cardinality(places) <= Cardinality(new)
  <2> DEFINE f == [i \in places |-> further[i].to]
  <2>1. f \in Injection(places, new)
    BY <1>4, <1>8 DEF Injection, IsInjective
  <2>2. IsFiniteSet(new)
    BY <1>9, FS_Subset DEF IsGraph
  <2> QED
    BY <2>1, <2>2, FS_Injection
<1>11. new \cap seen = {}
  BY <1>6, <1>8
<1>12. Targets(g, node) \subseteq seen \cup new
  BY <1>5, <1>8
<1>13. Len(deeper) <= Cardinality(new)
  BY <1>7, <1>10
<1> QED
  BY <1>7, <1>9, <1>10, <1>11, <1>12, <1>13

Visited(g, s, node, deeper, new, r) ==
    IF g.step[node].kind = "Pick"
    THEN r.stack = Tail(s.stack) /\ r.seen = s.seen /\ r.parents = Append(s.parents, node)
    ELSE r.stack = deeper \o Tail(s.stack) /\ r.seen = s.seen \cup new /\ r.parents = s.parents

LEMMA VisitShape ==
    ASSUME NEW A, NEW g, IsGraph(g, A), NEW s \in Visits(g, Nodes(g)), s.stack # <<>>,
           NEW node, node = s.stack[1].to, NEW deeper, deeper = Entered(g, node, s.seen),
           NEW new, new = Tos(deeper), NEW r, r = Visit(g, s)
    PROVE  Visited(g, s, node, deeper, new, r)
<1> DEFINE rest == Tail(s.stack)
           found == Append(s.parents, node)
           seen == s.seen \cup new
           stack == deeper \o rest
           picked == [s EXCEPT !.stack = rest, !.parents = found]
           entered == [s EXCEPT !.stack = stack, !.seen = seen]
<1>1. r = IF g.step[node].kind = "Pick" THEN picked ELSE entered
  BY DEF Visit, Entered, Tos
<1> HIDE DEF rest, found, seen, stack
<1>2. s = [stack |-> s.stack, seen |-> s.seen, parents |-> s.parents]
  BY DEF Visits
<1>3. /\ picked.stack = rest /\ picked.seen = s.seen /\ picked.parents = found
      /\ entered.stack = stack /\ entered.seen = seen /\ entered.parents = s.parents
  BY <1>2
<1> HIDE DEF picked, entered
<1> QED
  BY <1>1, <1>3 DEF rest, found, seen, stack, Visited

LEMMA VisitSearches ==
    ASSUME NEW A, NEW g, IsGraph(g, A), NEW s \in Visits(g, Nodes(g)), Searched(g, s), NEW r, r = Visit(g, s)
    PROVE  /\ r \in Visits(g, Nodes(g)) /\ Searched(g, r) /\ s.seen \subseteq r.seen
           /\ Unvisited(g, s) \in Nat /\ Unvisited(g, r) \in Nat
           /\ IF Unvisited(g, s) = 0 THEN Unvisited(g, r) = 0 ELSE Unvisited(g, r) < Unvisited(g, s)
<1> DEFINE D == Nodes(g)
           node == s.stack[1].to
           deeper == Entered(g, node, s.seen)
           new == Tos(deeper)
           rest == Tail(s.stack)
<1>1. IsFiniteSet(D) /\ A \subseteq D
  BY DEF IsGraph
<1>2. r \in Visits(g, D)
  <2>1. \A m \in D : Targets(g, m) \subseteq D
    BY <1>1, TargetsType
  <2> HIDE DEF D
  <2>2. D \in SUBSET Nodes(g)
    BY DEF D
  <2> QED
    BY <2>1, <2>2, VisitType DEF D
<1>3. \A x \in Visits(g, D) :
         /\ x.stack \in Seq(EdgesIn(D)) /\ x.seen \in SUBSET D /\ x.parents \in Seq(Picks(g) \cap D)
         /\ Cardinality(D \ x.seen) \in Nat /\ Len(x.stack) \in Nat /\ (x.stack # <<>> => Len(x.stack) > 0)
         /\ Unvisited(g, x) = IF x.stack = <<>> THEN 0 ELSE Len(x.stack) + Cardinality(D \ x.seen)
  <2> SUFFICES ASSUME NEW x \in Visits(g, D)
               PROVE  /\ x.stack \in Seq(EdgesIn(D)) /\ x.seen \in SUBSET D /\ x.parents \in Seq(Picks(g) \cap D)
                      /\ Cardinality(D \ x.seen) \in Nat /\ Len(x.stack) \in Nat /\ (x.stack # <<>> => Len(x.stack) > 0)
                      /\ Unvisited(g, x) = IF x.stack = <<>> THEN 0 ELSE Len(x.stack) + Cardinality(D \ x.seen)
    OBVIOUS
  <2>1. x.stack \in Seq(EdgesIn(D)) /\ x.seen \in SUBSET D /\ x.parents \in Seq(Picks(g) \cap D)
    BY DEF Visits
  <2>2. Cardinality(D \ x.seen) \in Nat
    BY <1>1, FS_Difference, FS_CardinalityType
  <2>3. Len(x.stack) \in Nat /\ (x.stack # <<>> => Len(x.stack) > 0)
    BY <2>1, HeadAndTail
  <2> QED
    BY <2>1, <2>2, <2>3 DEF Unvisited
<1> HIDE DEF D
<1>4. CASE s.stack = <<>>
  <2>1. r = s
    BY <1>4 DEF Visit
  <2> QED
    BY <1>2, <1>3, <1>4, <2>1 DEF D
<1>5. CASE s.stack # <<>>
  <2>1. /\ s.stack \in Seq(EdgesIn(D)) /\ s.stack[1] \in EdgesIn(D) /\ rest \in Seq(EdgesIn(D))
        /\ Len(rest) = Len(s.stack) - 1 /\ Len(s.stack) \in Nat /\ Len(s.stack) > 0
        /\ \A i \in 1..Len(rest) : rest[i] = s.stack[i + 1]
    <3> DEFINE t == s.stack
               T == EdgesIn(D)
    <3>1. t \in Seq(T) /\ t # <<>>
      BY <1>3, <1>5 DEF D
    <3> HIDE DEF t, T
    <3>2. /\ Len(t) \in Nat /\ Len(t) > 0 /\ t[1] \in T
          /\ Tail(t) \in Seq(T) /\ Len(Tail(t)) = Len(t) - 1
          /\ \A i \in 1..(Len(t) - 1) : Tail(t)[i] = t[i + 1]
      BY <3>1, HeadAndTail
    <3> QED
      BY <3>1, <3>2 DEF t, T
  <2>2. node \in D
    BY <2>1, EdgeFacts
  <2>0. /\ node = s.stack[1].to /\ deeper = Entered(g, node, s.seen) /\ rest = Tail(s.stack)
        /\ new = Tos(deeper) /\ D = Nodes(g)
    BY DEF D
  <2> HIDE DEF node, deeper, rest, new
  <2>3. \A m \in s.seen : m # node /\ (\E i \in DOMAIN s.stack : s.stack[i].to = m) => \E i \in DOMAIN rest : rest[i].to = m
    <3> SUFFICES ASSUME NEW i \in DOMAIN s.stack, s.stack[i].to # node PROVE \E k \in DOMAIN rest : rest[k].to = s.stack[i].to
      OBVIOUS
    <3>1. i \in 1..Len(s.stack) /\ i # 1
      BY <2>1, SeqFacts DEF node
    <3>2. i - 1 \in 1..Len(rest) /\ (i - 1) + 1 = i
      BY <2>1, <3>1
    <3>3. rest[i - 1] = s.stack[i] /\ i - 1 \in DOMAIN rest
      BY <2>1, <3>2, SeqFacts
    <3> QED
      BY <3>3
  <2>10. Visited(g, s, node, deeper, new, r)
    BY <1>5, <2>0, VisitShape
  <2>4. CASE g.step[node].kind = "Pick"
    <3>1. r.stack = rest /\ r.seen = s.seen /\ r.parents = Append(s.parents, node)
      BY <2>0, <2>4, <2>10 DEF Visited
    <3>2. node \in Picks(g) /\ node \in ToSet(r.parents) /\ ToSet(s.parents) \subseteq ToSet(r.parents)
      <4>1. node \in Picks(g)
        BY <2>2, <2>4 DEF Picks, D
      <4>2. s.parents \in Seq(Picks(g) \cap D)
        BY <1>3 DEF D
      <4>3. ToSet(Append(s.parents, node)) = ToSet(s.parents) \cup {node}
        BY <2>2, <4>1, <4>2, ToSetOfAppend
      <4> QED
        BY <3>1, <4>1, <4>3
    <3>3. Searched(g, r)
      BY <2>3, <3>1, <3>2 DEF Searched
    <3>4. Unvisited(g, s) = Len(s.stack) + Cardinality(D \ s.seen)
      BY <1>3, <1>5 DEF D
    <3>5. Unvisited(g, r) = IF rest = <<>> THEN 0 ELSE Len(rest) + Cardinality(D \ s.seen)
      BY <1>2, <1>3, <3>1
    <3>6. Cardinality(D \ s.seen) \in Nat
      BY <1>3 DEF D
    <3>7. Unvisited(g, s) \in Nat /\ Unvisited(g, r) \in Nat /\ Unvisited(g, r) < Unvisited(g, s)
      BY <2>1, <3>4, <3>5, <3>6
    <3> QED
      BY <1>2, <3>1, <3>3, <3>7 DEF D
  <2>5. CASE g.step[node].kind # "Pick"
    <3>1. r.stack = deeper \o rest /\ r.seen = s.seen \cup new /\ r.parents = s.parents
      BY <2>0, <2>5, <2>10 DEF Visited
    <3>2. /\ deeper \in Seq(EdgesIn(A)) /\ new \subseteq D /\ new \cap s.seen = {}
          /\ Targets(g, node) \subseteq s.seen \cup new
          /\ IsFiniteSet(new) /\ Len(deeper) <= Cardinality(new)
      <4>1. node \in Nodes(g) /\ s.seen \in SUBSET Nodes(g)
        BY <1>3, <2>2 DEF D
      <4>2. /\ deeper \in Seq(EdgesIn(A)) /\ new \subseteq Nodes(g) /\ new \cap s.seen = {}
            /\ Targets(g, node) \subseteq s.seen \cup new
            /\ IsFiniteSet(new) /\ Len(deeper) <= Cardinality(new)
        BY <2>0, <4>1, EnteredType
      <4> QED
        BY <2>0, <4>2
    <3>3. deeper \in Seq(EdgesIn(D))
      <4>1. \A i \in 1..Len(deeper) : deeper[i] \in EdgesIn(A)
        BY <3>2, SeqFacts
      <4>2. EdgesIn(A) \subseteq EdgesIn(D)
        BY <1>1, <2>0 DEF EdgesIn
      <4>3. \A i \in 1..Len(deeper) : deeper[i] \in EdgesIn(D)
        BY <4>1, <4>2
      <4> QED
        BY <3>2, <4>3, IsASeq
    <3>4. /\ Len(deeper \o rest) = Len(deeper) + Len(rest) /\ deeper \o rest \in Seq(EdgesIn(D))
          /\ \A i \in 1..Len(deeper) : (deeper \o rest)[i] = deeper[i]
          /\ \A i \in 1..Len(rest) : (deeper \o rest)[Len(deeper) + i] = rest[i]
      <4> DEFINE T == EdgesIn(D)
      <4>1. rest \in Seq(T) /\ deeper \in Seq(T)
        BY <2>1, <3>3
      <4> HIDE DEF T
      <4>2. /\ deeper \o rest \in Seq(T) /\ Len(deeper \o rest) = Len(deeper) + Len(rest)
            /\ \A i \in 1..Len(deeper) : (deeper \o rest)[i] = deeper[i]
            /\ \A i \in 1..Len(rest) : (deeper \o rest)[Len(deeper) + i] = rest[i]
        BY <4>1, Concatenated
      <4> QED
        BY <4>2 DEF T
    <3>5. node \notin Picks(g)
      BY <2>2, <2>5 DEF Picks
    <3>6. \A m \in new : \E i \in DOMAIN r.stack : r.stack[i].to = m
      <4> SUFFICES ASSUME NEW k \in DOMAIN deeper PROVE \E i \in DOMAIN r.stack : r.stack[i].to = deeper[k].to
        BY <2>0 DEF ToSet, Tos
      <4>1. k \in 1..Len(deeper) /\ Len(deeper) \in Nat
        BY <3>3, SeqFacts
      <4>2. k \in DOMAIN r.stack /\ r.stack[k] = deeper[k]
        BY <2>1, <3>1, <3>4, <4>1, SeqFacts
      <4> QED
        BY <4>2
    <3>7. \A i \in DOMAIN rest : \E k \in DOMAIN r.stack : r.stack[k].to = rest[i].to
      <4> SUFFICES ASSUME NEW i \in DOMAIN rest PROVE \E k \in DOMAIN r.stack : r.stack[k].to = rest[i].to
        OBVIOUS
      <4>1. i \in 1..Len(rest) /\ Len(rest) \in Nat /\ Len(deeper) \in Nat
        BY <2>1, <3>3, SeqFacts
      <4>2. Len(deeper) + i \in DOMAIN r.stack /\ r.stack[Len(deeper) + i] = rest[i]
        BY <3>1, <3>4, <4>1, SeqFacts
      <4> QED
        BY <4>2
    <3> HIDE DEF new
    <3>8. Searched(g, r)
      <4> SUFFICES ASSUME NEW m \in r.seen
                   PROVE  \/ \E i \in DOMAIN r.stack : r.stack[i].to = m
                          \/ m \in Picks(g) /\ m \in ToSet(r.parents)
                          \/ m \notin Picks(g) /\ Targets(g, m) \subseteq r.seen
        BY DEF Searched
      <4>1. CASE m \in new
        BY <3>6, <4>1
      <4>2. CASE m = node
        BY <3>1, <3>2, <3>5, <4>2
      <4>3. CASE m \in s.seen /\ m # node
        <5>1. \/ \E i \in DOMAIN rest : rest[i].to = m
              \/ m \in Picks(g) /\ m \in ToSet(r.parents)
              \/ m \notin Picks(g) /\ Targets(g, m) \subseteq s.seen
          BY <2>3, <3>1, <4>3 DEF Searched
        <5> QED
          BY <3>1, <3>7, <5>1
      <4> QED
        BY <3>1, <4>1, <4>2, <4>3
    <3>9. Cardinality(D \ s.seen) = Cardinality(D \ r.seen) + Cardinality(new) /\ Cardinality(new) \in Nat
      <4>1. IsFiniteSet(D \ r.seen)
        BY <1>1, FS_Difference
      <4>2. D \ s.seen = (D \ r.seen) \cup new /\ (D \ r.seen) \cap new = {}
        BY <3>1, <3>2
      <4>3. Cardinality((D \ r.seen) \cup new) = Cardinality(D \ r.seen) + Cardinality(new) - Cardinality((D \ r.seen) \cap new)
        BY <3>2, <4>1, FS_Union
      <4>4. Cardinality(D \ r.seen) \in Nat /\ Cardinality(new) \in Nat /\ Cardinality({}) = 0
        BY <3>2, <4>1, FS_CardinalityType, FS_EmptySet
      <4> DEFINE p == Cardinality(D \ r.seen)
                 q == Cardinality(new)
      <4>5. Cardinality(D \ s.seen) = p + q - 0
        BY <4>2, <4>3, <4>4
      <4>6. p \in Nat /\ q \in Nat
        BY <4>4
      <4> HIDE DEF p, q
      <4>7. p + q - 0 = p + q
        BY <4>6
      <4> QED
        BY <4>5, <4>6, <4>7 DEF p, q
    <3>10. Unvisited(g, s) = Len(s.stack) + Cardinality(D \ s.seen) /\ Cardinality(D \ s.seen) \in Nat
      BY <1>3, <1>5 DEF D
    <3>11. /\ Unvisited(g, r) = IF r.stack = <<>> THEN 0 ELSE Len(r.stack) + Cardinality(D \ r.seen)
           /\ Cardinality(D \ r.seen) \in Nat /\ Len(r.stack) \in Nat
      BY <1>2, <1>3
    <3>12. Len(r.stack) = Len(deeper) + Len(s.stack) - 1
      BY <2>1, <3>1, <3>3, <3>4, SeqFacts
    <3>13. Len(deeper) \in Nat
      BY <3>3, SeqFacts
    <3>14. Unvisited(g, s) \in Nat /\ Unvisited(g, r) \in Nat /\ Unvisited(g, r) < Unvisited(g, s)
      <4> DEFINE p == Cardinality(D \ r.seen)
                 q == Cardinality(new)
                 u == Cardinality(D \ s.seen)
                 t == Len(s.stack)
                 v == Len(r.stack)
                 x == Len(deeper)
      <4>1. /\ p \in Nat /\ q \in Nat /\ u \in Nat /\ t \in Nat /\ v \in Nat /\ x \in Nat
            /\ x <= q /\ u = p + q /\ v = x + t - 1 /\ t > 0
            /\ Unvisited(g, s) = t + u /\ Unvisited(g, r) = IF r.stack = <<>> THEN 0 ELSE v + p
        BY <2>1, <3>2, <3>9, <3>10, <3>11, <3>12, <3>13
      <4> HIDE DEF p, q, u, t, v, x
      <4>2. v + p < t + u /\ 0 < t + u /\ t + u \in Nat /\ v + p \in Nat
        BY <4>1
      <4>3. Unvisited(g, r) = 0 \/ Unvisited(g, r) = v + p
        BY <4>1
      <4> QED
        BY <4>1, <4>2, <4>3
    <3> QED
      BY <1>2, <3>1, <3>8, <3>14 DEF D
  <2> QED
    BY <2>4, <2>5
<1> QED
  BY <1>4, <1>5

(* What is below a commit up to its parents.                                  *)
Reaches(g, n, C) ==
    /\ C \subseteq Nodes(g) /\ Targets(g, n) \subseteq C
    /\ \A m \in C : IF m \in Picks(g) THEN m \in ToSet(ParentsOf(g, n)) ELSE Targets(g, m) \subseteq C

LEMMA ParentsOfReaches ==
    ASSUME NEW A, NEW g, IsGraph(g, A), NEW n \in Nodes(g)
    PROVE  \E C : Reaches(g, n, C)
<1> DEFINE D == Nodes(g)
           first == Ordered(g.edges[n])
           T == {s \in Visits(g, D) : Searched(g, s) /\ Targets(g, n) \subseteq s.seen}
           M == [s \in T |-> Unvisited(g, s)]
<1>1. D \in SUBSET Nodes(g) /\ \A m \in D : Targets(g, m) \subseteq D
  BY TargetsType DEF IsGraph
<1>2. PICK f, times : IsSought(g, n, f, times)
  <2>1. Targets(g, n) \subseteq D /\ D = Nodes(g)
    BY <1>1
  <2> HIDE DEF D
  <2> QED
    BY <1>1, <2>1, ParentsSought
<1>3. Start(g, n) \in Visits(g, D)
  <2>1. Targets(g, n) \subseteq D /\ D = Nodes(g)
    BY <1>1
  <2> HIDE DEF D
  <2> QED
    BY <1>1, <2>1, ParentsSought
<1>4. Searched(g, Start(g, n)) /\ Start(g, n).seen = Targets(g, n) /\ Start(g, n).stack = first
  <2> DEFINE edges == g.edges[n]
  <2>1. edges \in Seq(EdgesIn(A)) /\ Targets(g, n) = {edges[i].to : i \in DOMAIN edges}
    BY DEF IsGraph, Targets
  <2>2. Start(g, n).seen = Targets(g, n) /\ Start(g, n).stack = Ordered(edges)
    BY DEF Start
  <2>0. first = Ordered(edges)
    OBVIOUS
  <2> HIDE DEF edges, first
  <2>3. \A i \in DOMAIN edges : \E k \in DOMAIN Ordered(edges) : Ordered(edges)[k] = edges[i]
    BY <2>1, OrderedCovers
  <2>4. \A m \in Targets(g, n) : \E k \in DOMAIN Ordered(edges) : Ordered(edges)[k].to = m
    BY <2>1, <2>3
  <2> QED
    BY <2>0, <2>2, <2>4 DEF Searched
<1>5. f[0] \in T /\ M[f[0]] <= times
  <2>1. Start(g, n) \in T
    BY <1>3, <1>4
  <2>2. Unvisited(g, Start(g, n)) = IF first = <<>> THEN 0 ELSE Len(first) + Cardinality(Nodes(g) \ Targets(g, n))
    BY <1>4 DEF Unvisited
  <2>3. Len(first) \in Nat
    <3>1. first \in Seq(EdgesIn(A))
      BY OrderedType DEF IsGraph
    <3> HIDE DEF first
    <3> QED
      BY <3>1
  <2>4. /\ Cardinality(Nodes(g) \ Targets(g, n)) <= Cardinality(Nodes(g))
        /\ Cardinality(Nodes(g) \ Targets(g, n)) \in Nat /\ Cardinality(Nodes(g)) \in Nat
    BY FS_Subset, FS_CardinalityType DEF IsGraph
  <2>5. times = Len(first) + Cardinality(Nodes(g)) /\ f[0] = Start(g, n)
    BY <1>2 DEF IsSought
  <2> DEFINE p == Cardinality(Nodes(g) \ Targets(g, n))
             q == Cardinality(Nodes(g))
             l == Len(first)
             u == Unvisited(g, Start(g, n))
  <2>6. u = (IF first = <<>> THEN 0 ELSE l + p) /\ l \in Nat /\ p \in Nat /\ q \in Nat /\ p <= q /\ times = l + q
    BY <2>2, <2>3, <2>4, <2>5
  <2>7. M[f[0]] = u
    BY <2>1, <2>5
  <2> HIDE DEF p, q, l, u, M, T, first
  <2>8. u <= times
    BY <2>6
  <2> QED
    BY <2>1, <2>5, <2>7, <2>8
<1>6. ASSUME NEW s \in T
      PROVE  /\ Visit(g, s) \in T /\ Unvisited(g, s) \in Nat
             /\ IF Unvisited(g, s) = 0 THEN Unvisited(g, Visit(g, s)) = 0
                ELSE Unvisited(g, Visit(g, s)) < Unvisited(g, s)
  <2> DEFINE r == Visit(g, s)
  <2>1. s \in Visits(g, Nodes(g)) /\ Searched(g, s) /\ Targets(g, n) \subseteq s.seen
    OBVIOUS
  <2> HIDE DEF r
  <2>2. /\ r \in Visits(g, Nodes(g)) /\ Searched(g, r) /\ s.seen \subseteq r.seen
        /\ Unvisited(g, s) \in Nat /\ Unvisited(g, r) \in Nat
        /\ IF Unvisited(g, s) = 0 THEN Unvisited(g, r) = 0 ELSE Unvisited(g, r) < Unvisited(g, s)
    BY <2>1, VisitSearches DEF r
  <2>3. r \in T
    BY <2>1, <2>2
  <2> QED
    BY <2>2, <2>3 DEF r
<1>7. T = {s \in Visits(g, Nodes(g)) : Searched(g, s) /\ Targets(g, n) \subseteq s.seen} /\ M = [s \in T |-> Unvisited(g, s)]
  OBVIOUS
<1> HIDE DEF T, M, first
<1>8. M \in [T -> Nat]
  BY <1>6, <1>7
<1>9. times \in Nat /\ \A k \in 1..times : f[k] = Visit(g, f[k - 1])
  BY <1>2 DEF IsSought
<1>10. ASSUME NEW k \in 1..times, f[k - 1] \in T
       PROVE  f[k] \in T /\ (IF M[f[k - 1]] = 0 THEN M[f[k]] = 0 ELSE M[f[k]] < M[f[k - 1]])
  BY <1>6, <1>7, <1>9, <1>10
<1>11. f[times] \in T /\ M[f[times]] = 0
  BY <1>5, <1>8, <1>9, <1>10, RunsDry
<1> DEFINE e == f[times]
<1>12. e \in Visits(g, Nodes(g)) /\ Searched(g, e) /\ Targets(g, n) \subseteq e.seen /\ Unvisited(g, e) = 0
  BY <1>7, <1>11
<1>13. e.parents = ParentsOf(g, n)
  BY <1>2 DEF IsSought
<1> HIDE DEF e
<1>14. e.stack = <<>> /\ e.seen \subseteq Nodes(g)
  <2>1. e.stack \in Seq(EdgesIn(Nodes(g))) /\ e.seen \subseteq Nodes(g)
    BY <1>12 DEF Visits
  <2>2. Cardinality(Nodes(g) \ e.seen) \in Nat
    BY FS_Difference, FS_CardinalityType DEF IsGraph
  <2>3. e.stack # <<>> => Len(e.stack) \in Nat /\ Len(e.stack) > 0
    BY <2>1, HeadAndTail
  <2>4. Unvisited(g, e) = IF e.stack = <<>> THEN 0 ELSE Len(e.stack) + Cardinality(Nodes(g) \ e.seen)
    BY DEF Unvisited
  <2> QED
    BY <1>12, <2>1, <2>2, <2>3, <2>4
<1>15. \A m \in e.seen : IF m \in Picks(g) THEN m \in ToSet(e.parents) ELSE Targets(g, m) \subseteq e.seen
  BY <1>12, <1>14 DEF Searched
<1>16. Reaches(g, n, e.seen)
  BY <1>12, <1>13, <1>14, <1>15 DEF Reaches
<1> QED
  BY <1>16

-----------------------------------------------------------------------------
(* The parents of a commit are of a lower rank.                               *)
IsRanking(g, rank) ==
    rank \in [Nodes(g) -> Nat] /\ \A n \in Nodes(g) : \A m \in Targets(g, n) : rank[m] < rank[n]

LEMMA ParentsAreLower ==
    ASSUME NEW A, NEW g, IsGraph(g, A), NEW rank, IsRanking(g, rank), NEW n \in Nodes(g)
    PROVE  /\ ParentsOf(g, n) \in Seq(Picks(g))
           /\ \A p \in ToSet(ParentsOf(g, n)) : p \in Picks(g) /\ p \in Nodes(g) /\ rank[p] < rank[n]
<1> DEFINE D == {m \in Nodes(g) : rank[m] < rank[n]}
<1>1. \A m \in D : \A t \in Targets(g, m) : t \in Nodes(g) /\ rank[t] < rank[m]
  BY TargetsType DEF IsGraph, IsRanking
<1>2. \A m \in D : Targets(g, m) \subseteq D
  BY <1>1 DEF IsRanking
<1>3. Targets(g, n) \subseteq D
  BY TargetsType DEF IsGraph, IsRanking
<1>4. D \in SUBSET Nodes(g) /\ \A p \in Picks(g) \cap D : p \in Picks(g) /\ p \in Nodes(g) /\ rank[p] < rank[n]
  OBVIOUS
<1> HIDE DEF D
<1>5. ParentsOf(g, n) \in Seq(Picks(g) \cap D)
  BY <1>2, <1>3, <1>4, ParentsOfType
<1> DEFINE p == ParentsOf(g, n)
           B == Picks(g)
<1>6. p \in Seq(B \cap D)
  BY <1>5
<1> HIDE DEF p, B
<1>7. p \in Seq(B)
  BY <1>6
<1>8. ToSet(p) \in SUBSET (B \cap D)
  BY <1>6, ToSetFacts
<1> QED
  BY <1>4, <1>7, <1>8 DEF p, B

(* The search for the order.                                                  *)
Entries(g) == [node : Nodes(g), expanded : BOOLEAN]
Searches(g) == [stack : Seq(Entries(g)), seen : SUBSET Nodes(g), order : Seq(Picks(g))]

LEMMA FrontAndLast ==
    ASSUME NEW T, NEW s \in Seq(T), s # <<>>
    PROVE  /\ Len(s) \in Nat /\ Len(s) > 0 /\ Last(s) = s[Len(s)] /\ s[Len(s)] \in T
           /\ Front(s) \in Seq(T) /\ Len(Front(s)) = Len(s) - 1
           /\ \A i \in 1..(Len(s) - 1) : Front(s)[i] = s[i]
<1>1. Len(s) \in Nat /\ Len(s) # 0
  BY EmptySeq
<1>2. Len(s) \in 1..Len(s)
  BY <1>1
<1>3. s[Len(s)] \in T
  BY <1>2, SeqFacts
<1>4. Front(s) = SubSeq(s, 1, Len(s) - 1) /\ Last(s) = s[Len(s)]
  BY DEF Front, Last
<1>5. /\ SubSeq(s, 1, Len(s) - 1) \in Seq(T) /\ Len(SubSeq(s, 1, Len(s) - 1)) = Len(s) - 1
      /\ \A i \in 1..(Len(s) - 1) : SubSeq(s, 1, Len(s) - 1)[i] = s[i]
  <2> DEFINE l == Len(s) - 1
             t == SubSeq(s, 1, l)
  <2>1. 1 \in 1..(Len(s) + 1) /\ l \in 0..Len(s)
    BY <1>1
  <2> HIDE DEF l
  <2>2. t \in Seq(T) /\ Len(t) = (IF 1 <= l THEN l - 1 + 1 ELSE 0) /\ \A i \in 1..(l - 1 + 1) : t[i] = s[1 + i - 1]
    BY <2>1, SubSeqProperties
  <2> HIDE DEF t
  <2>3. Len(t) = l /\ l - 1 + 1 = l /\ \A i \in 1..l : 1 + i - 1 = i
    BY <1>1, <2>1, <2>2
  <2>4. \A i \in 1..l : t[i] = s[i]
    BY <2>2, <2>3
  <2> QED
    BY <2>2, <2>3, <2>4 DEF t, l
<1> QED
  BY <1>1, <1>3, <1>4, <1>5

IsOpened(more, nodes) ==
    /\ Len(more) = Len(nodes)
    /\ \A i \in 1..Len(nodes) : more[i].node = nodes[i] /\ more[i].expanded = FALSE

LEMMA OpenedType ==
    ASSUME NEW g, NEW stack, NEW S \in SUBSET Nodes(g), NEW nodes \in Seq(S), NEW more, more = Opened(stack, nodes)
    PROVE  more \in Seq(Entries(g)) /\ IsOpened(more, nodes)
<1>1. Len(nodes) \in Nat /\ DOMAIN nodes = 1..Len(nodes) /\ \A i \in 1..Len(nodes) : nodes[i] \in Nodes(g)
  BY SeqFacts
<1>2. more = [i \in 1..Len(nodes) |-> [node |-> nodes[i], expanded |-> FALSE]]
  BY <1>1 DEF Opened
<1>3. \A i \in 1..Len(nodes) : [node |-> nodes[i], expanded |-> FALSE] \in Entries(g)
  BY <1>1 DEF Entries
<1>4. more \in Seq(Entries(g)) /\ Len(more) = Len(nodes)
  BY <1>1, <1>2, <1>3
<1> QED
  BY <1>2, <1>4 DEF IsOpened

(* One step of the search, on a stack whose top is node and expanded.         *)
Piled(rest, node, more) == Append(rest, [node |-> node, expanded |-> TRUE]) \o more
Searching(g, s, node, expanded, rest, more, r) ==
    IF expanded
    THEN r.stack = rest /\ r.seen = s.seen /\ r.order = IF node \in Picks(g) THEN Append(s.order, node) ELSE s.order
    ELSE IF node \in s.seen
    THEN r.stack = rest /\ r.seen = s.seen /\ r.order = s.order
    ELSE r.stack = Piled(rest, node, more)
         /\ r.seen = s.seen \cup {node} /\ r.order = s.order

LEMMA SearchShape ==
    ASSUME NEW g, NEW s \in Searches(g), s.stack # <<>>, NEW r, r = Search(g, s),
           NEW node, node = s.stack[Len(s.stack)].node, NEW expanded, expanded = s.stack[Len(s.stack)].expanded,
           NEW rest, rest = Front(s.stack), NEW more, more = Opened(rest, ParentsOf(g, node)),
           more \in Seq(Entries(g)), node \in Nodes(g)
    PROVE  Searching(g, s, node, expanded, rest, more, r) /\ r \in Searches(g)
<1> DEFINE ordered == IF node \in Picks(g) THEN Append(s.order, node) ELSE s.order
           seen == s.seen \cup {node}
           one == <<[node |-> node, expanded |-> TRUE]>>
           stack == rest \o one \o more
           popped == [s EXCEPT !.stack = rest, !.order = ordered]
           skipped == [s EXCEPT !.stack = rest]
           pushed == [s EXCEPT !.seen = seen, !.stack = stack]
<1>1. r = IF expanded THEN popped ELSE IF node \in s.seen THEN skipped ELSE pushed
  BY DEF Search, Last
<1>2. s = [stack |-> s.stack, seen |-> s.seen, order |-> s.order]
  BY DEF Searches
<1>3. stack = Append(rest, [node |-> node, expanded |-> TRUE]) \o more
  <2>1. rest \in Seq(Entries(g)) /\ [node |-> node, expanded |-> TRUE] \in Entries(g)
    BY FrontAndLast DEF Searches, Entries
  <2> DEFINE e == [node |-> node, expanded |-> TRUE]
             T == Entries(g)
  <2>2. rest \in Seq(T) /\ e \in T
    BY <2>1
  <2> HIDE DEF e, T
  <2>3. rest \o <<e>> = Append(rest, e)
    BY <2>2
  <2> QED
    BY <2>3 DEF e
<1> HIDE DEF ordered, seen, stack
<1>4. /\ popped.stack = rest /\ popped.seen = s.seen /\ popped.order = ordered
      /\ skipped.stack = rest /\ skipped.seen = s.seen /\ skipped.order = s.order
      /\ pushed.stack = stack /\ pushed.seen = seen /\ pushed.order = s.order
  BY <1>2
<1>5. r \in Searches(g)
  <2>1. s.stack \in Seq(Entries(g)) /\ s.seen \in SUBSET Nodes(g) /\ s.order \in Seq(Picks(g))
    BY DEF Searches
  <2>2. rest \in Seq(Entries(g))
    BY <2>1, FrontAndLast
  <2>3. ordered \in Seq(Picks(g)) /\ seen \in SUBSET Nodes(g)
    BY <2>1 DEF ordered, seen
  <2>4. stack \in Seq(Entries(g))
    <3> DEFINE e == [node |-> node, expanded |-> TRUE]
               T == Entries(g)
    <3>1. rest \in Seq(T) /\ e \in T /\ more \in Seq(T) /\ stack = Append(rest, e) \o more
      BY <1>3, <2>2 DEF Entries
    <3> HIDE DEF e, T
    <3>2. Append(rest, e) \o more \in Seq(T)
      BY <3>1
    <3> QED
      BY <3>1, <3>2 DEF T
  <2>5. popped \in Searches(g)
    BY <2>1, <2>2, <2>3 DEF Searches
  <2>6. skipped \in Searches(g)
    BY <2>1, <2>2 DEF Searches
  <2>7. pushed \in Searches(g)
    BY <2>1, <2>3, <2>4 DEF Searches
  <2> QED
    BY <1>1, <2>5, <2>6, <2>7
<1> HIDE DEF popped, skipped, pushed
<1>6. IF expanded THEN r.stack = rest /\ r.seen = s.seen /\ r.order = ordered
      ELSE IF node \in s.seen THEN r.stack = rest /\ r.seen = s.seen /\ r.order = s.order
      ELSE r.stack = stack /\ r.seen = seen /\ r.order = s.order
  BY <1>1, <1>4
<1> QED
  BY <1>3, <1>5, <1>6 DEF Searching, Piled, ordered, seen

(* What the search keeps to: what is expanded was seen, what was seen is in   *)
(* order or expanded still, the parents of what is expanded come before it,   *)
(* by what is above it on the stack, which is lower, and nothing is missed.   *)
ExpandedSeen(s) == \A i \in DOMAIN s.stack : s.stack[i].expanded => s.stack[i].node \in s.seen
SeenPlaced(g, s) ==
    \A n \in s.seen \cap Picks(g) :
        n \in ToSet(s.order) \/ \E i \in DOMAIN s.stack : s.stack[i].expanded /\ s.stack[i].node = n
ParentsAwaited(g, s) ==
    \A i \in DOMAIN s.stack : s.stack[i].expanded =>
        \A p \in ToSet(ParentsOf(g, s.stack[i].node)) :
            p \in ToSet(s.order) \/ \E k \in DOMAIN s.stack : k > i /\ s.stack[k].node = p
Descends(rank, s) ==
    \A i \in DOMAIN s.stack : s.stack[i].expanded =>
        \A k \in DOMAIN s.stack : k > i => rank[s.stack[k].node] < rank[s.stack[i].node]
ParentsFirst(g, order) ==
    \A i \in DOMAIN order : ToSet(ParentsOf(g, order[i])) \subseteq ToSet(SubSeq(order, 1, i - 1))
Heads(g) == {n \in Nodes(g) : Children(g, n) = {}}
Wanted(g, s) == Heads(g) \cup UNION {ToSet(ParentsOf(g, n)) : n \in s.seen}
NothingMissed(g, s) == \A n \in Wanted(g, s) : n \in s.seen \/ \E i \in DOMAIN s.stack : s.stack[i].node = n
SearchInv(g, rank, s) ==
    /\ s \in Searches(g)
    /\ ExpandedSeen(s) /\ SeenPlaced(g, s) /\ ParentsAwaited(g, s) /\ Descends(rank, s)
    /\ ParentsFirst(g, s.order) /\ NothingMissed(g, s)

LEMMA OrderGrows ==
    ASSUME NEW g, NEW order \in Seq(Picks(g)), NEW node \in Picks(g), ParentsFirst(g, order),
           ToSet(ParentsOf(g, node)) \subseteq ToSet(order)
    PROVE  ParentsFirst(g, Append(order, node))
<1> DEFINE l == Len(order)
           more == Append(order, node)
           T == Picks(g)
<1>1. order \in Seq(T) /\ node \in T
  OBVIOUS
<1> HIDE DEF T
<1>2. /\ l \in Nat /\ DOMAIN order = 1..l /\ DOMAIN more = 1..(l + 1)
      /\ more[l + 1] = node /\ \A i \in 1..l : more[i] = order[i]
  BY <1>1
<1>3. \A i \in 1..(l + 1) : SubSeq(more, 1, i - 1) = SubSeq(order, 1, i - 1)
  <2> SUFFICES ASSUME NEW i \in 1..(l + 1) PROVE SubSeq(more, 1, i - 1) = SubSeq(order, 1, i - 1)
    OBVIOUS
  <2>1. i - 1 \in 0..l
    BY <1>2
  <2>2. \A k \in 1..(i - 1) : k \in 1..l /\ more[k] = order[k]
    BY <1>2, <2>1
  <2> HIDE DEF l, more
  <2>3. SubSeq(more, 1, i - 1) = [k \in 1..(i - 1) |-> more[k]] /\ SubSeq(order, 1, i - 1) = [k \in 1..(i - 1) |-> order[k]]
    BY <1>1, <2>1 DEF l, more
  <2> QED
    BY <2>2, <2>3
<1>4. SubSeq(order, 1, l) = order
  BY <1>1
<1> HIDE DEF l, more
<1>5. ASSUME NEW i \in DOMAIN more PROVE ToSet(ParentsOf(g, more[i])) \subseteq ToSet(SubSeq(more, 1, i - 1))
  <2>1. CASE i \in 1..l
    <3>1. i \in DOMAIN order /\ more[i] = order[i] /\ i \in 1..(l + 1)
      BY <1>2, <2>1
    <3> QED
      BY <1>3, <3>1 DEF ParentsFirst
  <2>2. CASE i = l + 1
    <3>1. i - 1 = l /\ i \in 1..(l + 1)
      BY <1>2, <2>2
    <3> QED
      BY <1>2, <1>3, <1>4, <2>2, <3>1
  <2> QED
    BY <1>2, <2>1, <2>2
<1> QED
  BY <1>5 DEF ParentsFirst, more

LEMMA PopKeeps ==
    ASSUME NEW A, NEW g, IsGraph(g, A), NEW rank, IsRanking(g, rank), NEW s, SearchInv(g, rank, s), s.stack # <<>>,
           NEW node, node = s.stack[Len(s.stack)].node, NEW rest, rest = Front(s.stack),
           NEW r, r \in Searches(g), r.stack = rest, r.seen = s.seen,
           IF s.stack[Len(s.stack)].expanded
           THEN r.order = IF node \in Picks(g) THEN Append(s.order, node) ELSE s.order
           ELSE node \in s.seen /\ r.order = s.order
    PROVE  SearchInv(g, rank, r)
<1> DEFINE l == Len(s.stack)
<1>1. s \in Searches(g) /\ s.stack \in Seq(Entries(g)) /\ s.order \in Seq(Picks(g)) /\ s.seen \subseteq Nodes(g)
  BY DEF SearchInv, Searches
<1>2. /\ l \in Nat /\ l > 0 /\ DOMAIN s.stack = 1..l /\ DOMAIN r.stack = 1..(l - 1)
      /\ \A i \in 1..(l - 1) : r.stack[i] = s.stack[i]
  <2>1. /\ Len(s.stack) \in Nat /\ Len(s.stack) > 0 /\ Last(s.stack) = s.stack[Len(s.stack)]
        /\ s.stack[Len(s.stack)] \in Entries(g)
        /\ rest \in Seq(Entries(g)) /\ Len(rest) = Len(s.stack) - 1
        /\ \A i \in 1..(Len(s.stack) - 1) : rest[i] = s.stack[i]
    BY <1>1, FrontAndLast
  <2>2. DOMAIN rest = 1..Len(rest) /\ DOMAIN s.stack = 1..Len(s.stack)
    BY <1>1, <2>1, SeqFacts
  <2> QED
    BY <2>1, <2>2
<1>3. /\ ExpandedSeen(s) /\ SeenPlaced(g, s) /\ ParentsAwaited(g, s) /\ Descends(rank, s)
      /\ ParentsFirst(g, s.order) /\ NothingMissed(g, s)
  BY DEF SearchInv
<1>0. /\ node = s.stack[l].node
      /\ IF s.stack[l].expanded
         THEN r.order = IF node \in Picks(g) THEN Append(s.order, node) ELSE s.order
         ELSE node \in s.seen /\ r.order = s.order
  OBVIOUS
<1> HIDE DEF l
<1>4. \A i \in 1..l : i \in 1..(l - 1) \/ i = l
  BY <1>2
<1>5. 1..(l - 1) \subseteq 1..l /\ l \in 1..l /\ \A i \in 1..(l - 1) : i < l
  BY <1>2
<1>6. ToSet(r.order) = ToSet(s.order) \cup (IF s.stack[l].expanded /\ node \in Picks(g) THEN {node} ELSE {})
  <2>1. node \in Picks(g) => ToSet(Append(s.order, node)) = ToSet(s.order) \cup {node}
    BY <1>1, ToSetOfAppend
  <2> QED
    BY <1>0, <2>1
<1>7. ExpandedSeen(r)
  BY <1>2, <1>3, <1>5 DEF ExpandedSeen
<1>8. SeenPlaced(g, r)
  <2> SUFFICES ASSUME NEW n \in s.seen \cap Picks(g), n \notin ToSet(r.order)
               PROVE  \E i \in DOMAIN r.stack : r.stack[i].expanded /\ r.stack[i].node = n
    BY DEF SeenPlaced
  <2>1. n \notin ToSet(s.order)
    BY <1>6
  <2>2. PICK i \in 1..l : s.stack[i].expanded /\ s.stack[i].node = n
    BY <1>2, <1>3, <2>1 DEF SeenPlaced
  <2>3. i # l
    BY <1>0, <1>6, <2>2
  <2> QED
    BY <1>2, <1>4, <2>2, <2>3
<1>9. ParentsAwaited(g, r)
  <2> SUFFICES ASSUME NEW i \in 1..(l - 1), s.stack[i].expanded, NEW p \in ToSet(ParentsOf(g, s.stack[i].node)),
                      p \notin ToSet(r.order)
               PROVE  \E k \in 1..(l - 1) : k > i /\ r.stack[k].node = p
    BY <1>2 DEF ParentsAwaited
  <2>1. p \notin ToSet(s.order)
    BY <1>6
  <2>2. PICK k \in 1..l : k > i /\ s.stack[k].node = p
    BY <1>2, <1>3, <1>5, <2>1 DEF ParentsAwaited
  <2>3. CASE k # l
    BY <1>2, <1>4, <2>2, <2>3
  <2>4. CASE k = l
    <3>1. p = node /\ p \in Picks(g) /\ p \in Nodes(g)
      <4>1. s.stack[i].node \in Nodes(g)
        <5>1. s.stack[i] \in Entries(g)
          BY <1>1, <1>2, <1>5, SeqFacts
        <5> QED
          BY <5>1 DEF Entries
      <4>2. p \in Picks(g) /\ p \in Nodes(g)
        BY <4>1, ParentsAreLower
      <4> QED
        BY <1>0, <2>2, <2>4, <4>2
    <3>2. ~s.stack[l].expanded
      BY <1>6, <3>1
    <3>3. p \in s.seen
      BY <1>0, <3>1, <3>2
    <3>4. PICK j \in 1..l : s.stack[j].expanded /\ s.stack[j].node = p
      BY <1>2, <1>3, <2>1, <3>1, <3>3 DEF SeenPlaced
    <3>5. j # l
      BY <3>2, <3>4
    <3>6. l > j
      BY <1>2, <3>5
    <3>7. rank[s.stack[l].node] < rank[s.stack[j].node]
      BY <1>2, <1>3, <1>5, <3>4, <3>6 DEF Descends
    <3>8. rank[p] \in Nat /\ rank[p] < rank[p]
      BY <1>0, <3>1, <3>4, <3>7 DEF IsRanking
    <3> QED
      BY <3>8
  <2> QED
    BY <2>3, <2>4
<1>10. Descends(rank, r)
  BY <1>2, <1>3, <1>5 DEF Descends
<1>11. ParentsFirst(g, r.order)
  <2>1. CASE s.stack[l].expanded /\ node \in Picks(g)
    <3>1. ToSet(ParentsOf(g, node)) \subseteq ToSet(s.order)
      <4> SUFFICES ASSUME NEW p \in ToSet(ParentsOf(g, node)), p \notin ToSet(s.order) PROVE FALSE
        OBVIOUS
      <4>1. PICK k \in 1..l : k > l
        BY <1>0, <1>2, <1>3, <1>5, <2>1 DEF ParentsAwaited
      <4> QED
        BY <1>2, <4>1
    <3> QED
      BY <1>0, <1>1, <1>3, <2>1, <3>1, OrderGrows
  <2>2. CASE ~(s.stack[l].expanded /\ node \in Picks(g))
    BY <1>0, <1>3, <2>2
  <2> QED
    BY <2>1, <2>2
<1>12. NothingMissed(g, r)
  <2>1. Wanted(g, r) = Wanted(g, s)
    BY DEF Wanted
  <2>2. node \in s.seen
    BY <1>0, <1>2, <1>3, <1>5 DEF ExpandedSeen
  <2> SUFFICES ASSUME NEW n \in Wanted(g, s), n \notin s.seen PROVE \E i \in 1..(l - 1) : r.stack[i].node = n
    BY <1>2, <2>1 DEF NothingMissed
  <2>3. PICK i \in 1..l : s.stack[i].node = n
    BY <1>2, <1>3 DEF NothingMissed
  <2>4. i # l
    BY <1>0, <2>2, <2>3
  <2> QED
    BY <1>2, <1>4, <2>3, <2>4
<1> QED
  BY <1>7, <1>8, <1>9, <1>10, <1>11, <1>12 DEF SearchInv

Pushed(s, l, node, parents, r) ==
    /\ Len(r.stack) = l + Len(parents) /\ DOMAIN r.stack = 1..(l + Len(parents))
    /\ \A i \in 1..(l - 1) : r.stack[i] = s.stack[i]
    /\ r.stack[l].node = node /\ r.stack[l].expanded = TRUE
    /\ \A k \in (l + 1)..(l + Len(parents)) : r.stack[k].node \in ToSet(parents) /\ r.stack[k].expanded = FALSE
    /\ \A p \in ToSet(parents) : \E k \in (l + 1)..(l + Len(parents)) : r.stack[k].node = p

Joins(u, s, t) ==
    /\ Len(u) = Len(s) + Len(t)
    /\ \A i \in 1..Len(s) : u[i] = s[i]
    /\ \A j \in 1..Len(t) : u[Len(s) + j] = t[j]

LEMMA JoinedSeqs ==
    ASSUME NEW T, NEW s \in Seq(T), NEW t \in Seq(T), NEW u, u = s \o t
    PROVE  u \in Seq(T) /\ Joins(u, s, t)
BY DEF Joins

LEMMA AppendedSeq ==
    ASSUME NEW T, NEW s \in Seq(T), NEW e \in T, NEW u, u = Append(s, e)
    PROVE  u \in Seq(T) /\ Joins(u, s, <<e>>)
BY DEF Joins

Popped(s, l, rest) == Len(rest) = l - 1 /\ \A i \in 1..(l - 1) : rest[i] = s.stack[i]

LEMMA PushedOf ==
    ASSUME NEW g, NEW s, NEW l \in Nat, l > 0, NEW node \in Nodes(g), NEW parents \in Seq(Picks(g)),
           NEW rest \in Seq(Entries(g)), Popped(s, l, rest), NEW more, more = Opened(rest, parents),
           NEW r, r.stack = Piled(rest, node, more)
    PROVE  Pushed(s, l, node, parents, r)
<1> DEFINE e == [node |-> node, expanded |-> TRUE]
           T == Entries(g)
           B == Picks(g)
           w == Len(parents)
           a == Append(rest, e)
           t == a \o more
<1>0. Len(rest) = l - 1 /\ \A i \in 1..(l - 1) : rest[i] = s.stack[i]
  BY DEF Popped
<1>1. e \in T /\ e.node = node /\ e.expanded = TRUE /\ rest \in Seq(T) /\ parents \in Seq(B) /\ B \in SUBSET Nodes(g)
  BY DEF Entries, Picks
<1>2. r.stack = t /\ T = Entries(g) /\ w = Len(parents) /\ w \in Nat
  BY DEF Piled
<1>3. a = Append(rest, e) /\ t = a \o more
  OBVIOUS
<1> HIDE DEF e, T, B, w, a, t
<1>4. more \in Seq(Entries(g)) /\ IsOpened(more, parents)
  BY <1>1, OpenedType
<1>5. Len(more) = w /\ \A i \in 1..w : more[i].node = parents[i] /\ more[i].expanded = FALSE
  BY <1>2, <1>4 DEF IsOpened
<1>6. more \in Seq(T)
  BY <1>2, <1>4
<1>7. a \in Seq(T) /\ Joins(a, rest, <<e>>)
  BY <1>1, <1>3, AppendedSeq
<1>8. Len(a) = l /\ a[l] = e /\ \A i \in 1..(l - 1) : a[i] = rest[i]
  <2>1. Len(a) = (l - 1) + 1 /\ (\A i \in 1..(l - 1) : a[i] = rest[i]) /\ \A j \in 1..1 : a[(l - 1) + j] = <<e>>[j]
    BY <1>0, <1>7 DEF Joins
  <2>2. (l - 1) + 1 = l /\ 1 \in 1..1 /\ <<e>>[1] = e
    OBVIOUS
  <2> QED
    BY <2>1, <2>2
<1>9. t \in Seq(T) /\ Joins(t, a, more)
  BY <1>3, <1>6, <1>7, JoinedSeqs
<1>10. Len(t) = l + w /\ (\A i \in 1..l : t[i] = a[i]) /\ \A j \in 1..w : t[l + j] = more[j]
  BY <1>5, <1>8, <1>9 DEF Joins
<1>11. DOMAIN t = 1..(l + w)
  BY <1>9, <1>10, SeqFacts
<1>12. ToSet(parents) = {parents[j] : j \in 1..w}
  BY <1>1, <1>2, SeqFacts DEF ToSet
<1>13. \A k \in (l + 1)..(l + w) : t[k].node \in ToSet(parents) /\ t[k].expanded = FALSE
  <2> SUFFICES ASSUME NEW k \in (l + 1)..(l + w) PROVE t[k].node \in ToSet(parents) /\ t[k].expanded = FALSE
    OBVIOUS
  <2> DEFINE j == k - l
  <2>1. j \in 1..w /\ l + j = k
    BY <1>2
  <2> HIDE DEF j
  <2>2. t[k] = more[j]
    BY <1>10, <2>1
  <2> QED
    BY <1>5, <1>12, <2>1, <2>2
<1>14. \A p \in ToSet(parents) : \E k \in (l + 1)..(l + w) : t[k].node = p
  <2> SUFFICES ASSUME NEW j \in 1..w PROVE \E k \in (l + 1)..(l + w) : t[k].node = parents[j]
    BY <1>12
  <2> DEFINE k == l + j
  <2>1. k \in (l + 1)..(l + w) /\ t[k] = more[j]
    BY <1>2, <1>10
  <2> HIDE DEF k
  <2> QED
    BY <1>5, <2>1
<1>15. (\A i \in 1..(l - 1) : t[i] = s.stack[i]) /\ t[l].node = node /\ t[l].expanded = TRUE
  <2>1. 1..(l - 1) \subseteq 1..l /\ l \in 1..l
    OBVIOUS
  <2>2. t[l] = e
    BY <1>8, <1>10, <2>1
  <2> QED
    BY <1>0, <1>1, <1>8, <1>10, <2>1, <2>2
<1> DEFINE W == Len(parents)
<1>16. /\ Len(r.stack) = l + W /\ DOMAIN r.stack = 1..(l + W)
       /\ \A i \in 1..(l - 1) : r.stack[i] = s.stack[i]
       /\ r.stack[l].node = node /\ r.stack[l].expanded = TRUE
       /\ \A k \in (l + 1)..(l + W) : r.stack[k].node \in ToSet(parents) /\ r.stack[k].expanded = FALSE
       /\ \A p \in ToSet(parents) : \E k \in (l + 1)..(l + W) : r.stack[k].node = p
  <2>1. r.stack = t /\ W = w
    BY <1>2
  <2> HIDE DEF W
  <2> QED
    BY <1>10, <1>11, <1>13, <1>14, <1>15, <2>1
<1> QED
  BY <1>16 DEF Pushed

LEMMA PushKeeps ==
    ASSUME NEW A, NEW g, IsGraph(g, A), NEW rank, IsRanking(g, rank), NEW s, SearchInv(g, rank, s),
           NEW l \in Nat, l > 0, l = Len(s.stack),
           NEW node \in Nodes(g), node = s.stack[l].node, ~s.stack[l].expanded, node \notin s.seen,
           NEW parents, parents = ParentsOf(g, node),
           NEW r, r \in Searches(g), Pushed(s, l, node, parents, r), r.seen = s.seen \cup {node}, r.order = s.order
    PROVE  SearchInv(g, rank, r)
<1> DEFINE w == Len(parents)
<1>0. node = s.stack[l].node /\ ~s.stack[l].expanded
  OBVIOUS
<1>1. /\ s \in Searches(g) /\ s.stack \in Seq(Entries(g)) /\ s.order \in Seq(Picks(g)) /\ s.seen \subseteq Nodes(g)
      /\ DOMAIN s.stack = 1..l
  <2>1. s \in Searches(g) /\ s.stack \in Seq(Entries(g)) /\ s.order \in Seq(Picks(g)) /\ s.seen \subseteq Nodes(g)
    BY DEF SearchInv, Searches
  <2> QED
    BY <2>1, SeqFacts
<1>2. /\ ExpandedSeen(s) /\ SeenPlaced(g, s) /\ ParentsAwaited(g, s) /\ Descends(rank, s)
      /\ ParentsFirst(g, s.order) /\ NothingMissed(g, s)
  BY DEF SearchInv
<1>3. /\ ParentsOf(g, node) \in Seq(Picks(g))
      /\ \A p \in ToSet(ParentsOf(g, node)) : p \in Picks(g) /\ p \in Nodes(g) /\ rank[p] < rank[node]
  BY ParentsAreLower
<1>4. w \in Nat /\ \A p \in ToSet(parents) : p \in Nodes(g) /\ rank[p] < rank[node]
  BY <1>3, SeqFacts
<1>7. /\ DOMAIN r.stack = 1..(l + w)
      /\ \A i \in 1..(l - 1) : r.stack[i] = s.stack[i]
      /\ r.stack[l].node = node /\ r.stack[l].expanded = TRUE
      /\ \A k \in (l + 1)..(l + w) : r.stack[k].node \in ToSet(parents) /\ r.stack[k].expanded = FALSE
  BY DEF Pushed
<1>10. \A p \in ToSet(parents) : \E k \in (l + 1)..(l + w) : r.stack[k].node = p
  BY DEF Pushed
<1> HIDE DEF w
<1>8. \A i \in 1..(l + w) : i \in 1..(l - 1) \/ i = l \/ i \in (l + 1)..(l + w)
  BY <1>4
<1>9. /\ 1..(l - 1) \subseteq 1..l /\ 1..l \subseteq 1..(l + w) /\ l \in 1..l
      /\ \A k \in (l + 1)..(l + w) : k \in 1..(l + w) /\ k > l
      /\ \A i \in 1..l : i \in 1..(l - 1) \/ i = l
  BY <1>4
<1>11. \A i \in 1..l : r.stack[i].node = s.stack[i].node
  BY <1>0, <1>7, <1>9
<1>12. \A i \in 1..(l + w) : r.stack[i].expanded => i \in 1..l /\ (i = l \/ (i \in 1..(l - 1) /\ s.stack[i].expanded))
  BY <1>7, <1>8, <1>9
<1>13. \A i \in 1..l : s.stack[i].expanded => i \in 1..(l - 1) /\ r.stack[i].expanded
  BY <1>0, <1>7, <1>9
<1>14. ExpandedSeen(r)
  <2> SUFFICES ASSUME NEW i \in 1..(l + w), r.stack[i].expanded PROVE r.stack[i].node \in r.seen
    BY <1>7 DEF ExpandedSeen
  <2>1. i \in 1..l /\ (i = l \/ (i \in 1..(l - 1) /\ s.stack[i].expanded))
    BY <1>12
  <2> QED
    BY <1>0, <1>1, <1>2, <1>11, <2>1 DEF ExpandedSeen
<1>15. SeenPlaced(g, r)
  <2> SUFFICES ASSUME NEW n \in r.seen \cap Picks(g), n \notin ToSet(s.order)
               PROVE  \E i \in 1..(l + w) : r.stack[i].expanded /\ r.stack[i].node = n
    BY <1>7 DEF SeenPlaced
  <2>1. CASE n = node
    BY <1>7, <1>9, <2>1
  <2>2. CASE n \in s.seen
    <3>1. PICK i \in 1..l : s.stack[i].expanded /\ s.stack[i].node = n
      BY <1>1, <1>2, <2>2 DEF SeenPlaced
    <3> QED
      BY <1>9, <1>11, <1>13, <3>1
  <2> QED
    BY <2>1, <2>2
<1>16. ParentsAwaited(g, r)
  <2> SUFFICES ASSUME NEW i \in 1..(l + w), r.stack[i].expanded, NEW p \in ToSet(ParentsOf(g, r.stack[i].node)),
                      p \notin ToSet(s.order)
               PROVE  \E k \in 1..(l + w) : k > i /\ r.stack[k].node = p
    BY <1>7 DEF ParentsAwaited
  <2>1. i \in 1..l /\ (i = l \/ (i \in 1..(l - 1) /\ s.stack[i].expanded))
    BY <1>12
  <2>2. CASE i = l
    <3>1. p \in ToSet(parents)
      BY <1>7, <2>2
    <3>2. PICK k \in (l + 1)..(l + w) : r.stack[k].node = p
      BY <1>10, <3>1
    <3> QED
      BY <1>9, <2>2, <3>2
  <2>3. CASE i \in 1..(l - 1) /\ s.stack[i].expanded
    <3>1. p \in ToSet(ParentsOf(g, s.stack[i].node))
      BY <1>11, <2>1
    <3>2. PICK k \in 1..l : k > i /\ s.stack[k].node = p
      BY <1>1, <1>2, <2>1, <2>3, <3>1 DEF ParentsAwaited
    <3> QED
      BY <1>9, <1>11, <3>2
  <2> QED
    BY <2>1, <2>2, <2>3
<1>17. Descends(rank, r)
  <2> SUFFICES ASSUME NEW i \in 1..(l + w), r.stack[i].expanded, NEW k \in 1..(l + w), k > i
               PROVE  rank[r.stack[k].node] < rank[r.stack[i].node]
    BY <1>7 DEF Descends
  <2>1. i \in 1..l /\ (i = l \/ (i \in 1..(l - 1) /\ s.stack[i].expanded))
    BY <1>12
  <2>2. ASSUME i \in 1..(l - 1), s.stack[i].expanded, NEW m \in 1..l, m > i
        PROVE  rank[s.stack[m].node] < rank[s.stack[i].node]
    BY <1>1, <1>2, <2>1, <2>2 DEF Descends
  <2>3. \A m \in 1..l : s.stack[m].node \in Nodes(g)
    <3>1. \A m \in 1..l : s.stack[m] \in Entries(g)
      BY <1>1, SeqFacts
    <3> QED
      BY <3>1 DEF Entries
  <2>4. CASE k \in 1..l
    <3>1. i # l /\ k \in 1..l
      BY <1>2, <2>4
    <3> QED
      BY <1>11, <2>1, <2>2, <3>1
  <2>5. CASE k \in (l + 1)..(l + w)
    <3>3. rank[r.stack[k].node] < rank[node] /\ r.stack[k].node \in Nodes(g)
      BY <1>4, <1>7, <2>5
    <3>4. CASE i = l
      BY <1>7, <3>3, <3>4
    <3>5. CASE i \in 1..(l - 1) /\ s.stack[i].expanded
      <4>1. l > i
        BY <1>2, <3>5
      <4>2. rank[node] < rank[s.stack[i].node]
        BY <1>0, <1>9, <2>2, <3>5, <4>1
      <4>3. rank[r.stack[k].node] \in Nat /\ rank[node] \in Nat /\ rank[s.stack[i].node] \in Nat
        BY <2>1, <2>3, <3>3 DEF IsRanking
      <4>4. r.stack[i].node = s.stack[i].node
        BY <1>11, <2>1
      <4> DEFINE x == rank[r.stack[k].node]
                 y == rank[node]
                 z == rank[s.stack[i].node]
      <4>5. x \in Nat /\ y \in Nat /\ z \in Nat /\ x < y /\ y < z
        BY <3>3, <4>2, <4>3
      <4>6. rank[r.stack[i].node] = z
        BY <4>4
      <4> HIDE DEF x, y, z
      <4>7. x < z
        BY <4>5
      <4> QED
        BY <4>6, <4>7 DEF x
    <3> QED
      BY <2>1, <3>4, <3>5
  <2> QED
    BY <1>8, <1>9, <2>4, <2>5
<1>18. NothingMissed(g, r)
  <2>1. Wanted(g, r) = Wanted(g, s) \cup ToSet(parents)
    BY DEF Wanted
  <2> SUFFICES ASSUME NEW n \in Wanted(g, r), n \notin r.seen PROVE \E i \in 1..(l + w) : r.stack[i].node = n
    BY <1>7 DEF NothingMissed
  <2>2. CASE n \in ToSet(parents)
    BY <1>9, <1>10, <2>2
  <2>3. CASE n \in Wanted(g, s)
    <3>1. PICK i \in 1..l : s.stack[i].node = n
      BY <1>1, <1>2, <2>3 DEF NothingMissed
    <3> QED
      BY <1>9, <1>11, <3>1
  <2> QED
    BY <2>1, <2>2, <2>3
<1> QED
  BY <1>2, <1>14, <1>15, <1>16, <1>17, <1>18 DEF SearchInv

(* The members of a finite set, one after the other.                          *)
LEMMA SetToSeqCovers ==
    ASSUME NEW S, IsFiniteSet(S), NEW s, s = SetToSeq(S)
    PROVE  s \in Seq(S) /\ Len(s) = Cardinality(S) /\ \A x \in S : \E i \in DOMAIN s : s[i] = x
<1> DEFINE c == Cardinality(S)
<1>1. c \in Nat /\ ExistsBijection(1..c, S)
  BY FS_CardinalityType
<1>2. PICK b : b \in Bijection(1..c, S)
  BY <1>1 DEF ExistsBijection
<1>3. b \in [1..c -> S] /\ IsInjective(b)
  BY <1>2 DEF Bijection, Injection
<1>4. s = CHOOSE f \in [1..c -> S] : IsInjective(f)
  BY DEF SetToSeq
<1>5. s \in [1..c -> S] /\ IsInjective(s)
  BY <1>3, <1>4
<1> HIDE DEF c
<1>6. s \in Injection(1..c, S)
  BY <1>5 DEF Injection
<1>7. IsFiniteSet(1..c) /\ Cardinality(1..c) = c
  BY <1>1, FS_Interval
<1>8. s \in Surjection(1..c, S)
  BY <1>6, <1>7, FS_Injection DEF c
<1>9. s \in Seq(S) /\ Len(s) = c /\ DOMAIN s = 1..c
  BY <1>1, <1>5
<1>10. \A x \in S : \E i \in 1..c : s[i] = x
  BY <1>8 DEF Surjection
<1> QED
  BY <1>9, <1>10 DEF c

(* How much is left to search, where no commit has more than w parents.       *)
Unsearched(g, w, s) ==
    IF s.stack = <<>> THEN 0 ELSE Len(s.stack) + Cardinality(Nodes(g) \ s.seen) * (w + 1)

LEMMA OneLess ==
    ASSUME NEW c \in Nat, NEW w \in Nat, NEW d \in Nat, c = d + 1
    PROVE  c * (w + 1) = d * (w + 1) + w + 1 /\ c * (w + 1) \in Nat /\ d * (w + 1) \in Nat
OBVIOUS

LEMMA OneFewer ==
    ASSUME NEW S, IsFiniteSet(S), NEW x \in S, NEW T, T = S \ {x}
    PROVE  Cardinality(T) = Cardinality(S) - 1
<1>1. Cardinality(S \ {x}) = IF x \in S THEN Cardinality(S) - 1 ELSE Cardinality(S)
  BY FS_RemoveElement
<1> QED
  BY <1>1

LEMMA SearchStep ==
    ASSUME NEW A, NEW g, IsGraph(g, A), NEW rank, IsRanking(g, rank),
           NEW w \in Nat, \A n \in Nodes(g) : Len(ParentsOf(g, n)) <= w,
           NEW s, SearchInv(g, rank, s), NEW r, r = Search(g, s)
    PROVE  /\ SearchInv(g, rank, r)
           /\ Unsearched(g, w, s) \in Nat /\ Unsearched(g, w, r) \in Nat
           /\ IF Unsearched(g, w, s) = 0 THEN Unsearched(g, w, r) = 0
              ELSE Unsearched(g, w, r) < Unsearched(g, w, s)
<1> DEFINE Left(x) == Cardinality(Nodes(g) \ x.seen) * (w + 1)
<1>1. ASSUME NEW x \in Searches(g)
      PROVE  /\ Cardinality(Nodes(g) \ x.seen) \in Nat /\ Len(x.stack) \in Nat
             /\ x.stack # <<>> => Len(x.stack) > 0
  <2>1. x.stack \in Seq(Entries(g))
    BY DEF Searches
  <2>2. Cardinality(Nodes(g) \ x.seen) \in Nat
    BY FS_Difference, FS_CardinalityType DEF IsGraph
  <2>3. Len(x.stack) \in Nat /\ (x.stack # <<>> => Len(x.stack) > 0)
    BY <2>1, HeadAndTail
  <2> QED
    BY <2>2, <2>3
<1>2. \A x \in Searches(g) : Unsearched(g, w, x) = IF x.stack = <<>> THEN 0 ELSE Len(x.stack) + Left(x)
  BY DEF Unsearched
<1>3. \A x \in Searches(g) : Left(x) \in Nat
  <2> SUFFICES ASSUME NEW x \in Searches(g) PROVE Left(x) \in Nat
    OBVIOUS
  <2> DEFINE c == Cardinality(Nodes(g) \ x.seen)
  <2>1. c \in Nat
    BY <1>1
  <2> HIDE DEF c
  <2>2. c * (w + 1) \in Nat
    BY <2>1
  <2> QED
    BY <2>2 DEF c
<1>4. s \in Searches(g)
  BY DEF SearchInv
<1>5. CASE s.stack = <<>>
  <2>1. r = s
    BY <1>5 DEF Search
  <2>2. Unsearched(g, w, s) = 0
    BY <1>5 DEF Unsearched
  <2> QED
    BY <2>1, <2>2
<1>6. CASE s.stack # <<>>
  <2> DEFINE l == Len(s.stack)
             node == s.stack[l].node
             expanded == s.stack[l].expanded
             rest == Front(s.stack)
             parents == ParentsOf(g, node)
             more == Opened(rest, parents)
  <2>1. /\ Len(s.stack) \in Nat /\ Len(s.stack) > 0 /\ Last(s.stack) = s.stack[Len(s.stack)]
        /\ s.stack[Len(s.stack)] \in Entries(g)
        /\ Front(s.stack) \in Seq(Entries(g)) /\ Len(Front(s.stack)) = Len(s.stack) - 1
        /\ \A i \in 1..(Len(s.stack) - 1) : Front(s.stack)[i] = s.stack[i]
    <3> DEFINE t == s.stack
               T == Entries(g)
    <3>1. t \in Seq(T) /\ t # <<>>
      BY <1>4, <1>6 DEF Searches
    <3> HIDE DEF t, T
    <3>2. /\ Len(t) \in Nat /\ Len(t) > 0 /\ Last(t) = t[Len(t)] /\ t[Len(t)] \in T
          /\ Front(t) \in Seq(T) /\ Len(Front(t)) = Len(t) - 1
          /\ \A i \in 1..(Len(t) - 1) : Front(t)[i] = t[i]
      BY <3>1, FrontAndLast
    <3> QED
      BY <3>2 DEF t, T
  <2>2. node \in Nodes(g) /\ expanded \in BOOLEAN
    BY <2>1 DEF Entries
  <2>3. /\ l = Len(s.stack) /\ l \in Nat /\ l > 0 /\ node = s.stack[l].node /\ expanded = s.stack[l].expanded
        /\ node = s.stack[Len(s.stack)].node /\ expanded = s.stack[Len(s.stack)].expanded
        /\ rest = Front(s.stack) /\ rest \in Seq(Entries(g)) /\ Len(rest) = l - 1
        /\ (\A i \in 1..(l - 1) : rest[i] = s.stack[i])
        /\ parents = ParentsOf(g, node) /\ more = Opened(rest, parents) /\ more = Opened(rest, ParentsOf(g, node))
    BY <2>1
  <2> HIDE DEF l, node, expanded, rest, parents, more
  <2>4. parents \in Seq(Picks(g)) /\ Picks(g) \in SUBSET Nodes(g) /\ Len(parents) \in Nat /\ Len(parents) <= w
    <3>1. parents \in Seq(Picks(g))
      BY <2>2, <2>3, ParentsAreLower
    <3>2. Len(parents) \in Nat
      BY <3>1, SeqFacts
    <3> QED
      BY <2>2, <2>3, <3>1, <3>2 DEF Picks
  <2>5. more \in Seq(Entries(g))
    <3> DEFINE B == Picks(g)
    <3>1. parents \in Seq(B) /\ B \in SUBSET Nodes(g)
      BY <2>4
    <3> HIDE DEF B
    <3> QED
      BY <2>3, <3>1, OpenedType
  <2>6. Searching(g, s, node, expanded, rest, more, r) /\ r \in Searches(g)
    BY <1>4, <1>6, <2>2, <2>3, <2>5, SearchShape
  <2>7. /\ Unsearched(g, w, s) = l + Left(s) /\ Left(s) \in Nat /\ Left(r) \in Nat /\ Len(r.stack) \in Nat
        /\ Unsearched(g, w, r) = IF r.stack = <<>> THEN 0 ELSE Len(r.stack) + Left(r)
    BY <1>1, <1>2, <1>3, <1>4, <1>6, <2>3, <2>6
  <2>8. CASE expanded \/ node \in s.seen
    <3>1. r.stack = rest /\ r.seen = s.seen
      BY <2>6, <2>8 DEF Searching
    <3>2. IF s.stack[Len(s.stack)].expanded
          THEN r.order = IF node \in Picks(g) THEN Append(s.order, node) ELSE s.order
          ELSE node \in s.seen /\ r.order = s.order
      BY <2>3, <2>6, <2>8 DEF Searching
    <3>3. SearchInv(g, rank, r)
      BY <1>6, <2>3, <2>6, <3>1, <3>2, PopKeeps
    <3>4. Left(r) = Left(s) /\ Len(r.stack) = l - 1
      BY <2>3, <3>1
    <3> DEFINE v == Len(r.stack)
               x == Unsearched(g, w, s)
               y == Unsearched(g, w, r)
               a == Left(s)
               b == Left(r)
    <3>5. v = l - 1 /\ a \in Nat /\ b = a /\ x = l + a /\ (y = 0 \/ y = v + b) /\ l \in Nat /\ l > 0
      BY <2>3, <2>7, <3>4
    <3> HIDE DEF v, x, y, a, b, Left
    <3>6. x \in Nat /\ y \in Nat /\ x # 0 /\ y < x
      BY <3>5
    <3> QED
      BY <3>3, <3>6 DEF x, y
  <2>9. CASE ~expanded /\ node \notin s.seen
    <3>1. /\ r.stack = Piled(rest, node, more)
          /\ r.seen = s.seen \cup {node} /\ r.order = s.order
      BY <2>6, <2>9 DEF Searching
    <3>2. Pushed(s, l, node, parents, r)
      <4>1. Popped(s, l, rest)
        BY <2>3 DEF Popped
      <4>2. l \in Nat /\ l > 0 /\ parents \in Seq(Picks(g)) /\ rest \in Seq(Entries(g)) /\ more = Opened(rest, parents)
        BY <2>3, <2>4
      <4>3. r.stack = Piled(rest, node, more)
        BY <3>1
      <4> QED
        BY <2>2, <4>1, <4>2, <4>3, PushedOf
    <3>3. SearchInv(g, rank, r)
      BY <2>2, <2>3, <2>6, <2>9, <3>1, <3>2, PushKeeps
    <3>4. Len(r.stack) = l + Len(parents)
      BY <3>2 DEF Pushed
    <3>5. Left(s) = Left(r) + w + 1
      <4> DEFINE c == Cardinality(Nodes(g) \ s.seen)
                 d == Cardinality(Nodes(g) \ r.seen)
      <4>1. Nodes(g) \ r.seen = (Nodes(g) \ s.seen) \ {node} /\ node \in Nodes(g) \ s.seen
        BY <2>2, <2>9, <3>1
      <4>2. IsFiniteSet(Nodes(g) \ s.seen)
        BY FS_Difference DEF IsGraph
      <4>3. d = c - 1
        <5> DEFINE S == Nodes(g) \ s.seen
                   T == Nodes(g) \ r.seen
        <5>1. IsFiniteSet(S) /\ node \in S /\ T = S \ {node}
          BY <4>1, <4>2
        <5> HIDE DEF S, T
        <5>2. Cardinality(T) = Cardinality(S) - 1
          BY <5>1, OneFewer
        <5> QED
          BY <5>2 DEF S, T
      <4>4. c \in Nat /\ d \in Nat
        BY <1>1, <1>4, <2>6
      <4> HIDE DEF c, d
      <4>5. c = d + 1
        BY <4>3, <4>4
      <4>6. c * (w + 1) = d * (w + 1) + w + 1
        BY <4>4, <4>5, OneLess
      <4> QED
        BY <4>6 DEF c, d
    <3> DEFINE p == Len(parents)
               v == Len(r.stack)
               x == Unsearched(g, w, s)
               y == Unsearched(g, w, r)
               a == Left(s)
               b == Left(r)
    <3>6. /\ p \in Nat /\ p <= w /\ v = l + p /\ a \in Nat /\ b \in Nat /\ a = b + w + 1
          /\ x = l + a /\ (y = 0 \/ y = v + b) /\ l \in Nat /\ l > 0
      BY <2>3, <2>4, <2>7, <3>4, <3>5
    <3> HIDE DEF p, v, x, y, a, b
    <3>7. x \in Nat /\ y \in Nat /\ x # 0 /\ y < x
      BY <3>6
    <3> QED
      BY <3>3, <3>7 DEF x, y
  <2> QED
    BY <2>2, <2>8, <2>9
<1> QED
  BY <1>5, <1>6

(* The whole search.                                                          *)
Widest(g) == Max({Len(ParentsOf(g, n)) : n \in Nodes(g)} \cup {0})

LEMMA WidestType ==
    ASSUME NEW A, NEW g, IsGraph(g, A), NEW rank, IsRanking(g, rank)
    PROVE  Widest(g) \in Nat /\ \A n \in Nodes(g) : Len(ParentsOf(g, n)) <= Widest(g)
<1> DEFINE f == [n \in Nodes(g) |-> Len(ParentsOf(g, n))]
           L == {f[n] : n \in Nodes(g)}
           S == L \cup {0}
<1>1. \A n \in Nodes(g) : Len(ParentsOf(g, n)) \in Nat
  <2> TAKE n \in Nodes(g)
  <2>1. ParentsOf(g, n) \in Seq(Picks(g))
    BY ParentsAreLower
  <2> QED
    BY <2>1, SeqFacts
<1>2. f = [n \in Nodes(g) |-> f[n]] /\ IsFiniteSet(Nodes(g))
  BY DEF IsGraph
<1>3. L \in SUBSET Nat
  BY <1>1
<1>4. Widest(g) = Max(S)
  BY DEF Widest
<1>5. \A n \in Nodes(g) : Len(ParentsOf(g, n)) \in L
  OBVIOUS
<1> HIDE DEF f
<1>6. IsFiniteSet(L)
  BY <1>2, ImageFinite
<1> HIDE DEF L
<1>7. S \in SUBSET Nat /\ IsFiniteSet(S) /\ S # {}
  BY <1>3, <1>6, FS_AddElement
<1>8. Max(S) \in S /\ \A x \in S : x <= Max(S)
  <2> HIDE DEF S
  <2> QED
    BY <1>7, GreatestOfFinite
<1> QED
  BY <1>4, <1>5, <1>7, <1>8

IsSearched(f, g, start, times) ==
    f = [k \in 0..times |->
            IF k = 0 THEN start ELSE CHOOSE y \in {Search(g, x) : x \in {f[k - 1]}} : TRUE]
Beginning(g) == [stack |-> Opened(<<>>, SetToSeq(Heads(g))), seen |-> {}, order |-> <<>>]

LEMMA BeginningKeeps ==
    ASSUME NEW A, NEW g, IsGraph(g, A), NEW rank
    PROVE  /\ SearchInv(g, rank, Beginning(g))
           /\ Len(Beginning(g).stack) = Cardinality(Heads(g)) /\ Cardinality(Heads(g)) \in Nat
           /\ Beginning(g).seen = {}
<1> DEFINE heads == Heads(g)
           nodes == SetToSeq(heads)
           stack == Opened(<<>>, nodes)
           s == Beginning(g)
<1>1. heads \in SUBSET Nodes(g) /\ IsFiniteSet(heads) /\ Cardinality(heads) \in Nat
  <2>1. heads \in SUBSET Nodes(g)
    BY DEF Heads
  <2> QED
    BY <2>1, FS_Subset, FS_CardinalityType DEF IsGraph
<1>2. s.stack = stack /\ s.seen = {} /\ s.order = <<>> /\ s = [stack |-> stack, seen |-> {}, order |-> <<>>]
  BY DEF Beginning
<1>3. nodes = SetToSeq(heads) /\ stack = Opened(<<>>, nodes)
  OBVIOUS
<1>0. heads = Heads(g) /\ s = Beginning(g)
  OBVIOUS
<1> HIDE DEF heads, nodes, stack, s
<1>4. nodes \in Seq(heads) /\ Len(nodes) = Cardinality(heads) /\ \A x \in heads : \E i \in DOMAIN nodes : nodes[i] = x
  BY <1>1, <1>3, SetToSeqCovers
<1>5. stack \in Seq(Entries(g)) /\ IsOpened(stack, nodes)
  BY <1>1, <1>3, <1>4, OpenedType
<1>6. /\ Len(stack) = Len(nodes) /\ DOMAIN stack = 1..Len(nodes) /\ DOMAIN nodes = 1..Len(nodes)
      /\ \A i \in 1..Len(nodes) : stack[i].node = nodes[i] /\ stack[i].expanded = FALSE
  BY <1>4, <1>5, SeqFacts DEF IsOpened
<1>7. s \in Searches(g)
  BY <1>2, <1>5 DEF Searches
<1>8. ExpandedSeen(s) /\ ParentsAwaited(g, s) /\ Descends(rank, s)
  BY <1>2, <1>6 DEF ExpandedSeen, ParentsAwaited, Descends
<1>9. SeenPlaced(g, s) /\ ParentsFirst(g, s.order)
  BY <1>2 DEF SeenPlaced, ParentsFirst
<1>10. NothingMissed(g, s)
  BY <1>0, <1>2, <1>4, <1>6 DEF NothingMissed, Wanted
<1> QED
  BY <1>0, <1>1, <1>2, <1>4, <1>6, <1>7, <1>8, <1>9, <1>10 DEF SearchInv

LEMMA RankedIsSearched ==
    ASSUME NEW A, NEW g, IsGraph(g, A), NEW rank, IsRanking(g, rank)
    PROVE  \E s : SearchInv(g, rank, s) /\ s.stack = <<>> /\ s.order = Ranked(g)
<1> DEFINE w == Widest(g)
           start == Beginning(g)
           times == Cardinality(Heads(g)) + Cardinality(Nodes(g)) * (w + 1)
           T == {s \in Searches(g) : SearchInv(g, rank, s)}
           F == [s \in T |-> Search(g, s)]
           M == [s \in T |-> Unsearched(g, w, s)]
           f == CHOOSE h : IsSearched(h, g, start, times)
<1>1. w \in Nat /\ \A n \in Nodes(g) : Len(ParentsOf(g, n)) <= w
  BY WidestType
<1>2. Ranked(g) = f[times].order
  BY DEF Ranked, Repeat, IsSearched, Beginning, Heads, Widest
<1>3. /\ SearchInv(g, rank, start) /\ Len(start.stack) = Cardinality(Heads(g)) /\ Cardinality(Heads(g)) \in Nat
      /\ start.seen = {}
  BY BeginningKeeps
<1>4. times \in Nat /\ Unsearched(g, w, start) <= times
  <2> DEFINE h == Cardinality(Heads(g))
             c == Cardinality(Nodes(g))
  <2>1. h \in Nat /\ c \in Nat
    BY <1>3, FS_CardinalityType DEF IsGraph
  <2>2. Nodes(g) \ start.seen = Nodes(g)
    BY <1>3
  <2>3. Unsearched(g, w, start) = IF start.stack = <<>> THEN 0 ELSE h + c * (w + 1)
    BY <1>3, <2>2 DEF Unsearched
  <2>4. times = h + c * (w + 1)
    OBVIOUS
  <2> HIDE DEF h, c, w, times
  <2>5. c * (w + 1) \in Nat
    BY <1>1, <2>1
  <2> QED
    BY <2>1, <2>3, <2>4, <2>5
<1> HIDE DEF w, start, times
<1>5. ASSUME NEW s \in T
      PROVE  /\ Search(g, s) \in T /\ Unsearched(g, w, s) \in Nat
             /\ IF Unsearched(g, w, s) = 0 THEN Unsearched(g, w, Search(g, s)) = 0
                ELSE Unsearched(g, w, Search(g, s)) < Unsearched(g, w, s)
  <2> DEFINE r == Search(g, s)
  <2>1. SearchInv(g, rank, s) /\ r = Search(g, s)
    OBVIOUS
  <2> HIDE DEF r
  <2>2. /\ SearchInv(g, rank, r)
        /\ Unsearched(g, w, s) \in Nat /\ Unsearched(g, w, r) \in Nat
        /\ IF Unsearched(g, w, s) = 0 THEN Unsearched(g, w, r) = 0
           ELSE Unsearched(g, w, r) < Unsearched(g, w, s)
    BY <1>1, <2>1, SearchStep
  <2>3. r \in T
    BY <2>2 DEF SearchInv
  <2> QED
    BY <2>1, <2>2, <2>3
<1>6. F \in [T -> T] /\ start \in T
  BY <1>3, <1>5 DEF SearchInv
<1>7. \A s \in T : SearchInv(g, rank, s)
  OBVIOUS
<1>8. M \in [T -> Nat] /\ \A s \in T : M[s] = Unsearched(g, w, s)
  BY <1>5
<1>9. \A s \in T : F[s] = Search(g, s)
  OBVIOUS
<1> HIDE DEF T, F, M
<1>10. IsSearched(f, g, start, times)
  <2>1. PICK h : IsIterate(h, F, start, times) /\ \A k \in 0..times : h[k] \in T
    BY <1>4, <1>6, IterateExists
  <2> DEFINE Following(k) == CHOOSE y \in {Search(g, x) : x \in {h[k - 1]}} : TRUE
  <2>2. \A k \in 1..times : F[h[k - 1]] = Following(k)
    BY <1>4, <1>9, <2>1
  <2> HIDE DEF Following
  <2>3. h = [k \in 0..times |-> IF k = 0 THEN start ELSE Following(k)]
    BY <1>4, <2>1, <2>2 DEF IsIterate
  <2>4. IsSearched(h, g, start, times)
    BY <2>3 DEF IsSearched, Following
  <2> QED
    BY <2>4
<1> HIDE DEF f
<1>11. f[0] = start /\ \A k \in 1..times : f[k] = Search(g, f[k - 1])
  BY <1>4, <1>10 DEF IsSearched
<1>12. ASSUME NEW k \in 1..times, f[k - 1] \in T
       PROVE  f[k] \in T /\ (IF M[f[k - 1]] = 0 THEN M[f[k]] = 0 ELSE M[f[k]] < M[f[k - 1]])
  BY <1>5, <1>8, <1>11, <1>12
<1>13. f[0] \in T /\ M[f[0]] <= times
  BY <1>4, <1>6, <1>8, <1>11
<1>14. f[times] \in T /\ M[f[times]] = 0
  BY <1>4, <1>8, <1>12, <1>13, RunsDry
<1> DEFINE e == f[times]
<1>15. SearchInv(g, rank, e) /\ Unsearched(g, w, e) = 0 /\ e.order = Ranked(g)
  BY <1>2, <1>7, <1>8, <1>14
<1> HIDE DEF e
<1>16. e.stack = <<>>
  <2>1. e.stack \in Seq(Entries(g))
    BY <1>15 DEF SearchInv, Searches
  <2>2. Cardinality(Nodes(g) \ e.seen) \in Nat
    BY FS_Difference, FS_CardinalityType DEF IsGraph
  <2>3. e.stack # <<>> => Len(e.stack) \in Nat /\ Len(e.stack) > 0
    BY <2>1, HeadAndTail
  <2> DEFINE c == Cardinality(Nodes(g) \ e.seen)
             m == c * (w + 1)
             l == Len(e.stack)
  <2>4. m \in Nat
    <3> HIDE DEF c
    <3> QED
      BY <1>1, <2>2 DEF c
  <2>5. Unsearched(g, w, e) = IF e.stack = <<>> THEN 0 ELSE l + m
    BY DEF Unsearched
  <2> HIDE DEF m
  <2> QED
    BY <1>15, <2>3, <2>4, <2>5
<1> QED
  BY <1>15, <1>16

(* A search that starts at the heads and goes on to the parents of all it     *)
(* sees has seen every commit.                                                *)
LEMMA AllAreSeen ==
    ASSUME NEW A, NEW g, IsGraph(g, A), NEW rank, IsRanking(g, rank), NEW seen \in SUBSET Nodes(g),
           Heads(g) \subseteq seen, \A n \in seen : ToSet(ParentsOf(g, n)) \subseteq seen
    PROVE  Picks(g) \subseteq seen
<1> DEFINE C(n) == CHOOSE S : Reaches(g, n, S)
           S == {x \in Nodes(g) : x \in seen \/ \E n \in seen : x \in C(n)}
           U == Nodes(g) \ S
           R == {rank[x] : x \in U}
<1>1. \A n \in seen : Reaches(g, n, C(n))
  <2> TAKE n \in seen
  <2>1. \E X : Reaches(g, n, X)
    BY ParentsOfReaches
  <2> QED
    BY <2>1
<1>2. \A n \in seen : \A x \in C(n) : x \in Picks(g) => x \in seen
  BY <1>1 DEF Reaches
<1>3. \A n \in seen : C(n) \subseteq Nodes(g) /\ Targets(g, n) \subseteq C(n)
  BY <1>1 DEF Reaches
<1>4. \A n \in seen : \A x \in C(n) : x \notin Picks(g) => Targets(g, x) \subseteq C(n)
  BY <1>1 DEF Reaches
<1> HIDE DEF C
<1>5. ASSUME NEW x \in S PROVE Targets(g, x) \subseteq S
  <2>1. CASE x \in seen
    BY <1>3, <2>1
  <2>2. CASE x \notin seen
    <3>1. PICK n \in seen : x \in C(n)
      BY <2>2
    <3>2. Targets(g, x) \subseteq C(n) /\ C(n) \subseteq Nodes(g)
      BY <1>2, <1>3, <1>4, <2>2, <3>1
    <3> QED
      BY <3>2
  <2> QED
    BY <2>1, <2>2
<1>6. Heads(g) \subseteq S /\ S \subseteq Nodes(g) /\ \A x \in S : x \in Picks(g) => x \in seen
  BY <1>2
<1> HIDE DEF S
<1>7. ASSUME NEW x \in U PROVE \E y \in U : rank[x] < rank[y]
  <2>1. x \in Nodes(g) /\ x \notin Heads(g)
    BY <1>6
  <2>2. PICK y \in Children(g, x) : TRUE
    BY <2>1 DEF Heads
  <2>3. y \in Nodes(g) /\ x \in Targets(g, y)
    BY DEF Children
  <2>4. y \notin S
    BY <1>5, <2>3
  <2> QED
    BY <2>3, <2>4 DEF IsRanking
<1>8. U = {}
  <2> SUFFICES ASSUME U # {} PROVE FALSE
    OBVIOUS
  <2>1. R \in SUBSET Nat /\ R # {}
    BY DEF IsRanking
  <2>2. IsFiniteSet(R)
    <3> DEFINE h == [x \in U |-> rank[x]]
    <3>1. IsFiniteSet(U) /\ h = [x \in U |-> h[x]]
      BY FS_Difference DEF IsGraph
    <3>2. R = {h[x] : x \in U}
      OBVIOUS
    <3> HIDE DEF h, R, U
    <3> QED
      BY <3>1, <3>2, ImageFinite
  <2>3. Max(R) \in R /\ \A x \in R : x <= Max(R)
    <3> HIDE DEF R
    <3> QED
      BY <2>1, <2>2, GreatestOfFinite
  <2>4. PICK x \in U : rank[x] = Max(R)
    BY <2>3
  <2>5. PICK y \in U : rank[x] < rank[y]
    BY <1>7
  <2>6. rank[y] \in R /\ rank[x] \in Nat /\ rank[y] \in Nat
    BY <2>1
  <2>7. rank[y] <= rank[x]
    BY <2>3, <2>4, <2>6
  <2> QED
    BY <2>5, <2>6, <2>7
<1> QED
  BY <1>6, <1>8 DEF Picks

LEMMA RankedIsOrdered ==
    ASSUME NEW g, WellMade(g), NEW order, order = Ranked(g)
    PROVE  ToSet(order) = Picks(g) /\ ParentsFirst(g, order)
<1>1. IsGraph(g, Living(g))
  BY DEF WellMade
<1>2. PICK rank : IsRanking(g, rank)
  BY DEF WellMade, Acyclic, IsRanking
<1>3. PICK s : SearchInv(g, rank, s) /\ s.stack = <<>> /\ s.order = Ranked(g)
  BY <1>1, <1>2, RankedIsSearched
<1>4. s \in Searches(g) /\ SeenPlaced(g, s) /\ ParentsFirst(g, s.order) /\ NothingMissed(g, s)
  BY <1>3 DEF SearchInv
<1>5. s.seen \in SUBSET Nodes(g) /\ s.order \in Seq(Picks(g))
  BY <1>4 DEF Searches
<1>6. \A n \in Wanted(g, s) : n \in s.seen
  BY <1>3, <1>4 DEF NothingMissed
<1>7. Heads(g) \subseteq s.seen /\ \A n \in s.seen : ToSet(ParentsOf(g, n)) \subseteq s.seen
  BY <1>6 DEF Wanted
<1>8. Picks(g) \subseteq s.seen
  BY <1>1, <1>2, <1>5, <1>7, AllAreSeen
<1>9. Picks(g) \subseteq ToSet(s.order)
  BY <1>3, <1>4, <1>8 DEF SeenPlaced
<1>10. ToSet(s.order) \subseteq Picks(g)
  <2> DEFINE T == Picks(g)
             t == s.order
  <2>1. t \in Seq(T)
    BY <1>5
  <2> HIDE DEF T, t
  <2>2. ToSet(t) \in SUBSET T
    BY <2>1, ToSetFacts
  <2> QED
    BY <2>2 DEF T, t
<1> QED
  BY <1>3, <1>4, <1>9, <1>10

\* Commits that are chosen in any order are applied parents first: whatever was
\* done to the graph, the order of its commits has them all, parents first.
THEOREM ParentsComeFirst == RebaseSpec => []OrderedByParentage
<1>1. RebaseInv => OrderedByParentage
  <2> SUFFICES ASSUME RebaseInv PROVE OrderedByParentage
    OBVIOUS
  <2> DEFINE order == Ranked(graph)
  <2>1. WellMade(graph)
    BY DEF RebaseInv
  <2> HIDE DEF order
  <2>2. ToSet(order) = Picks(graph) /\ ParentsFirst(graph, order)
    BY <2>1, RankedIsOrdered DEF order
  <2> QED
    BY <2>2 DEF OrderedByParentage, ParentsFirst, order
<1>2. RebaseInv /\ [RebaseNext]_rebaseVars => RebaseInv'
  BY RebaseStep, RebaseStutters
<1>3. RebaseInit => RebaseInv
  BY RebaseInitially
<1> QED
  BY <1>1, <1>2, <1>3, PTL DEF RebaseSpec

-----------------------------------------------------------------------------
(* The two together.                                                          *)
WorkspaceInv == TypeOK /\ (IF focus = "rebase" THEN RebaseInv ELSE RebaseTypeOK)

LEMMA NoEditorIsTyped ==
    ASSUME NoEditor
    PROVE  RebaseTypeOK
<1>1. DOMAIN graph.edges = {} /\ Nodes(graph) = {} /\ DOMAIN refs = {}
  BY DEF NoEditor, Nodes
<1>2. operations = 0 /\ latest \in OpKinds /\ editing \in BOOLEAN /\ MaxOps \in Nat
  BY RebaseAssumption, Zenon DEF NoEditor, OpKinds
<1>3. operations \in 0..MaxOps
  BY <1>2
<1> QED
  BY <1>1, <1>2, <1>3 DEF RebaseTypeOK

LEMMA TypedStutters ==
    ASSUME RebaseTypeOK, UNCHANGED rebaseVars
    PROVE  RebaseTypeOK'
BY DEF RebaseTypeOK, rebaseVars, Nodes, Targets

LEMMA WorkspaceStep ==
    ASSUME WorkspaceInv, [WorkspaceNext]_<<focus, vars, rebaseVars>>
    PROVE  WorkspaceInv'
<1>1. focus' = focus
  BY DEF WorkspaceNext
<1>2. TypeOK'
  <2>1. [Next]_vars
    BY DEF WorkspaceNext
  <2> QED
    BY <2>1, AccessStep DEF WorkspaceInv
<1>3. focus = "rebase" => RebaseInv'
  <2> SUFFICES ASSUME focus = "rebase" PROVE RebaseInv'
    OBVIOUS
  <2>1. RebaseNext \/ UNCHANGED rebaseVars
    BY DEF WorkspaceNext
  <2> QED
    BY <2>1, RebaseStep, RebaseStutters DEF WorkspaceInv
<1>4. focus # "rebase" => RebaseTypeOK'
  <2> SUFFICES ASSUME focus # "rebase" PROVE RebaseTypeOK'
    OBVIOUS
  <2>1. UNCHANGED rebaseVars
    BY DEF WorkspaceNext
  <2> QED
    BY <2>1, TypedStutters DEF WorkspaceInv
<1> QED
  BY <1>1, <1>2, <1>3, <1>4 DEF WorkspaceInv

\* Of whichever the behaviour is, the lock and the editor keep their types.
THEOREM WorkspaceTypeCorrect == WorkspaceSpec => []WorkspaceTypeOK
<1>1. WorkspaceInit => WorkspaceInv
  <2> SUFFICES ASSUME WorkspaceInit PROVE WorkspaceInv
    OBVIOUS
  <2>1. TypeOK
    BY AccessAssumption DEF WorkspaceInit, Init, TypeOK
  <2>2. focus = "rebase" => RebaseInv
    BY RebaseInitially DEF WorkspaceInit
  <2>3. focus # "rebase" => RebaseTypeOK
    BY NoEditorIsTyped DEF WorkspaceInit
  <2> QED
    BY <2>1, <2>2, <2>3 DEF WorkspaceInv
<1>2. WorkspaceInv /\ [WorkspaceNext]_<<focus, vars, rebaseVars>> => WorkspaceInv'
  BY WorkspaceStep
<1>3. WorkspaceInv => WorkspaceTypeOK
  BY RebaseIsTyped DEF WorkspaceInv, WorkspaceTypeOK
<1> QED
  BY <1>1, <1>2, <1>3, PTL DEF WorkspaceSpec
=============================================================================
