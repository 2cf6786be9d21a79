---------------------------- MODULE Watcher_proof ----------------------------
(* No change is forgotten between the file monitor and the interface, for     *)
(* every set of files, watched git files and locally ignored files.           *)
EXTENDS Watcher, TLAPS

LEMMA PartType == ASSUME NEW p \in Paths PROVE PartOf(p) \in Parts
BY GitFilesAreWatched DEF Paths, WatchedNames, PartOf, Parts

LEMMA PartsType == ASSUME NEW P \in SUBSET Paths PROVE PartsOf(P) \subseteq Parts
BY PartType DEF PartsOf

LEMMA PartsOfBoth ==
    ASSUME NEW P, NEW Q PROVE PartsOf(P \cup Q) = PartsOf(P) \cup PartsOf(Q)
BY DEF PartsOf

(* Files are parts of the worktree only.                                      *)
LEMMA PartsOfFiles == ASSUME NEW P \in SUBSET Files PROVE PartsOf(P) \subseteq {"worktree"}
BY FilesAreNotOfGit DEF PartsOf, PartOf, WatchedNames

(* The order in which a git event is handled always has a next file.          *)
LEMMA FirstIsOne ==
    ASSUME NEW P \in SUBSET GitFiles, P # {} PROVE First(P) \in P
<1>1. \A p \in P : Rank(p) \in 1..5  BY DEF Rank
<1>2. \E p \in P : \A q \in P : Rank(p) <= Rank(q)
  <2>1. CASE \E p \in P : Rank(p) = 1  BY <1>1, <2>1
  <2>2. CASE (\A p \in P : Rank(p) > 1) /\ \E p \in P : Rank(p) = 2  BY <1>1, <2>2
  <2>3. CASE (\A p \in P : Rank(p) > 2) /\ \E p \in P : Rank(p) = 3  BY <1>1, <2>3
  <2>4. CASE (\A p \in P : Rank(p) > 3) /\ \E p \in P : Rank(p) = 4  BY <1>1, <2>4
  <2>5. CASE \A p \in P : Rank(p) > 4  BY <1>1, <2>5
  <2> QED  BY <1>1, <2>1, <2>2, <2>3, <2>4, <2>5
<1> QED  BY <1>2 DEF First

(* Dropping the project files of a batch that refreshes the worktree anyway   *)
(* drops no part of what is to be reported.                                   *)
LEMMA DispatchKeeps ==
    ASSUME NEW P \in SUBSET Paths, P # {}, Dispatch(P)
    PROVE  /\ batch' \subseteq Paths /\ batch' # {} /\ PartsOf(batch') = PartsOf(P)
           /\ phase' = "git" => batch' \cap GitFiles # {}
           /\ phase' = "project" => batch' \subseteq Files
           /\ phase' \in {"git", "project"}
<1>1. CASE RefreshesAnyway(P)
  <2>1. "index" \in P \ Files /\ "index" \in GitFiles /\ "index" \notin Private
    BY <1>1, PrivateAreFiles, FilesAreNotOfGit DEF RefreshesAnyway, Paths, WatchedNames
  <2>2. batch' = P \ Files /\ phase' = "git"
    BY <1>1, <2>1 DEF Dispatch
  <2>3. PartOf("index") = "worktree"  BY DEF PartOf
  <2>4. "worktree" \in PartsOf(P \ Files)  BY <2>1, <2>3 DEF PartsOf
  <2>5. PartsOf(P \cap Files) \subseteq {"worktree"}  BY PartsOfFiles
  <2>6. PartsOf(P) = PartsOf(P \ Files) \cup PartsOf(P \cap Files)  BY DEF PartsOf
  <2> QED  BY <2>1, <2>2, <2>4, <2>5, <2>6
<1>2. CASE ~RefreshesAnyway(P)
  <2>1. batch' = P /\ phase' = IF P \cap GitFiles # {} THEN "git" ELSE "project"
    BY <1>2 DEF Dispatch
  <2> QED  BY <2>1 DEF Paths
<1> QED  BY <1>1, <1>2

-----------------------------------------------------------------------------
(* The commit that is to be reported was overtaken by one that is noted.      *)
Overtaken == phase = "reporting" /\ ~read => "logs/HEAD" \in pending

Inv == TypeOK /\ Accounted /\ Overtaken

(* Every part keeps its type, no event is about nothing, and whatever is not  *)
(* shown as it is has a notice on its way, or one that was dropped.           *)
LEMMA Inductive == Inv /\ [Next]_vars => Inv'
<1> SUFFICES ASSUME TypeOK, Accounted, Overtaken, [Next]_vars
             PROVE  TypeOK' /\ Accounted' /\ Overtaken'
  BY DEF Inv
<1> USE DEF TypeOK, Accounted, Overtaken
<1>1. ASSUME NEW p \in Paths, Write(p) PROVE TypeOK' /\ Accounted' /\ Overtaken'
  <2>1. PartsOf({p}) \subseteq Parts  BY PartsType
  <2>2. PartsOf(pending' \cup batch') = PartsOf(pending \cup batch) \cup PartsOf({p})
    BY <1>1 DEF Write, PartsOf
  <2>3. head' \in {"branch", "detached", "unborn"}  BY <1>1 DEF Write
  <2> QED  BY <1>1, <2>1, <2>2, <2>3 DEF Write
<1>2. CASE Others
  <2>1. UNCHANGED <<head, stale, pending, phase, batch, resting, read, lost>>
    BY <1>2 DEF Others, Unity, OtherAccess, OtherDone
  <2>2. unity' \in BOOLEAN
    BY <1>2, Zenon DEF Others, Unity, OtherAccess, OtherDone
  <2>3. busy' \in BOOLEAN
    BY <1>2, Zenon DEF Others, Unity, OtherAccess, OtherDone
  <2> QED  BY <2>1, <2>2, <2>3
<1>3. CASE Receive
  <2>1. PICK P \in (SUBSET pending) \ {{}} :
          /\ pending' = pending \ P
          /\ IF MayPark(P) THEN phase' = "parked" /\ batch' = P ELSE Dispatch(P)
    BY <1>3 DEF Receive
  <2>2. /\ UNCHANGED <<stale, resting, read, lost, world>>
        /\ phase = "idle" /\ batch = {} /\ ~resting
    BY <1>3 DEF Receive
  <2>3. P \in SUBSET Paths /\ P # {}  BY <2>1
  <2>4. PartsOf(batch') = PartsOf(P)
    BY <2>1, <2>3, DispatchKeeps
  <2>5. Accounted'
    <3>1. PartsOf(pending' \cup batch') = PartsOf(pending') \cup PartsOf(P)
      BY <2>4, PartsOfBoth
    <3>2. pending \cup batch = pending' \cup P  BY <2>1, <2>2
    <3>3. PartsOf(pending \cup batch) = PartsOf(pending') \cup PartsOf(P)
      BY <3>2, PartsOfBoth
    <3> QED  BY <2>2, <3>1, <3>3
  <2>6. CASE MayPark(P)
    BY <2>1, <2>2, <2>3, <2>5, <2>6 DEF world
  <2>7. CASE ~MayPark(P)
    BY <2>1, <2>2, <2>3, <2>5, <2>7, DispatchKeeps DEF world
  <2> QED  BY <2>6, <2>7
<1>4. CASE ReceiveParked
  <2>1. PICK P \in (SUBSET pending) \ {{}} :
          /\ pending' = pending \ P
          /\ IF RefreshesAnyway(P) THEN Dispatch(batch \cup P)
                                   ELSE batch' = batch \cup P /\ UNCHANGED phase
    BY <1>4 DEF ReceiveParked
  <2>2. /\ UNCHANGED <<stale, read, lost, world>> /\ resting' = FALSE
        /\ phase = "parked" /\ batch # {}
    BY <1>4 DEF ReceiveParked
  <2>3. P \in SUBSET Paths /\ batch \cup P \in SUBSET Paths /\ batch \cup P # {}  BY <2>1, <2>2
  <2>4. PartsOf(batch') = PartsOf(batch \cup P)
    BY <2>1, <2>3, DispatchKeeps
  <2>5. Accounted'
    <3>1. pending \cup batch = pending' \cup (batch \cup P)  BY <2>1
    <3>2. PartsOf(pending \cup batch) = PartsOf(pending') \cup PartsOf(batch \cup P)
      BY <3>1, PartsOfBoth
    <3>3. PartsOf(pending' \cup batch') = PartsOf(pending') \cup PartsOf(batch')
      BY PartsOfBoth
    <3> QED  BY <2>2, <2>4, <3>2, <3>3
  <2>6. CASE RefreshesAnyway(P)
    BY <2>1, <2>2, <2>3, <2>5, <2>6, DispatchKeeps DEF world
  <2>7. CASE ~RefreshesAnyway(P)
    BY <2>1, <2>2, <2>3, <2>5, <2>7 DEF world
  <2> QED  BY <2>6, <2>7
<1>5. CASE Rest
  BY <1>5 DEF Rest, world
<1>6. CASE QuietPassed
  <2>1. batch \in SUBSET Paths /\ batch # {} /\ Dispatch(batch)  BY <1>6 DEF QuietPassed
  <2>2. PartsOf(pending' \cup batch') = PartsOf(pending \cup batch)
    BY <1>6, <2>1, DispatchKeeps, PartsOfBoth DEF QuietPassed
  <2> QED  BY <1>6, <2>1, <2>2, DispatchKeeps DEF QuietPassed, world
<1>7. CASE BeginGit
  <2>1. UNCHANGED <<pending, resting, world>> /\ phase = "git" /\ batch \cap GitFiles # {}
    BY <1>7 DEF BeginGit
  <2>2. CASE phase' = "reporting" /\ read' = TRUE /\ UNCHANGED <<stale, batch, lost>>
    BY <2>1, <2>2 DEF world
  <2>3. CASE Lose(PartsOf(batch \cap GitFiles)) /\ AfterGit /\ UNCHANGED read
    <3>1. batch = (batch \cap GitFiles) \cup (batch \cap Files)  BY DEF Paths
    <3>2. /\ PartsOf(batch) = PartsOf(batch \cap GitFiles) \cup PartsOf(batch \cap Files)
          /\ PartsOf(pending \cup batch) = PartsOf(pending) \cup PartsOf(batch)
      BY <3>1, PartsOfBoth
    <3>3. PartsOf(pending' \cup batch') = PartsOf(pending) \cup PartsOf(batch \cap Files)
      BY <2>1, <2>3, PartsOfBoth DEF AfterGit
    <3> QED  BY <2>1, <2>3, <3>2, <3>3 DEF Lose, AfterGit, world
  <2> QED  BY <1>7, <2>2, <2>3 DEF BeginGit
<1>8. CASE ReportGit
  <2> DEFINE p == First(batch \cap GitFiles)
  <2>1. /\ UNCHANGED <<pending, resting, read, world>>
        /\ phase = "reporting" /\ batch \cap GitFiles # {}
    BY <1>8 DEF ReportGit
  <2>2. p \in batch \cap GitFiles  BY <2>1, FirstIsOne
  <2> HIDE DEF p
  <2>3. PartOf(p) \in Parts /\ PartsOf({p}) \subseteq {PartOf(p)}
    BY <2>2, PartType DEF PartsOf
  <2>4. PartsOf(pending \cup batch) =
          PartsOf(pending \cup (batch \ {p})) \cup PartsOf({p})
    <3>1. pending \cup batch = (pending \cup (batch \ {p})) \cup {p}  BY <2>2
    <3> QED  BY <3>1, PartsOfBoth
  <2>5. \/ /\ Handled(batch \ {p})
           /\ Report(PartOf(p)) \/ (Lose({PartOf(p)}))
        \/ p = "logs/HEAD" /\ ~read /\ UNCHANGED <<stale, lost>> /\ Handled(batch \ {p})
        \/ Lose(PartsOf(batch \cap GitFiles)) /\ AfterGit
    <3>1. ("HEAD" = p => PartOf(p) = "head") /\ ("index" = p => PartOf(p) = "worktree")
      BY FilesAreNotOfGit DEF PartOf, WatchedNames
    <3> QED  BY <1>8, <3>1 DEF ReportGit, p
  <2>6. CASE Handled(batch \ {p}) /\ (Report(PartOf(p)) \/ Lose({PartOf(p)}))
    <3>1. TypeOK'
      <4>1. stale' \subseteq Parts /\ lost' \subseteq stale'  BY <2>6 DEF Report, Lose
      <4>2. /\ batch' \subseteq Paths
            /\ phase' = "idle" <=> batch' = {}
            /\ phase' = "reporting" => batch' \cap GitFiles # {}
            /\ phase' = "project" => batch' \subseteq Files
            /\ phase' \in {"idle", "reporting", "project"}
        BY <2>6 DEF Handled, Paths
      <4> QED  BY <2>1, <4>1, <4>2 DEF world
    <3>2. Accounted'
      <4>1. batch' = batch \ {p}  BY <2>6 DEF Handled
      <4>2. stale' \ lost' \subseteq (stale \ lost) \ {PartOf(p)}  BY <2>6 DEF Report, Lose
      <4> QED  BY <2>1, <2>3, <2>4, <4>1, <4>2
    <3> QED  BY <2>1, <2>6, <3>1, <3>2 DEF Handled
  <2>7. CASE p = "logs/HEAD" /\ ~read /\ UNCHANGED <<stale, lost>> /\ Handled(batch \ {p})
    <3>1. pending \cup (batch \ {p}) = pending \cup batch
      BY <2>1, <2>2, <2>7
    <3>2. /\ batch' = batch \ {p} /\ batch' \subseteq Paths
          /\ phase' = "idle" <=> batch' = {}
          /\ phase' = "reporting" => batch' \cap GitFiles # {}
          /\ phase' = "project" => batch' \subseteq Files
          /\ phase' \in {"idle", "reporting", "project"}
      BY <2>7 DEF Handled, Paths
    <3>3. TypeOK'  BY <2>1, <2>7, <3>2 DEF world
    <3> QED  BY <2>1, <2>7, <3>1, <3>2, <3>3
  <2>8. CASE Lose(PartsOf(batch \cap GitFiles)) /\ AfterGit
    <3>1. batch = (batch \cap GitFiles) \cup (batch \cap Files)  BY DEF Paths
    <3>2. /\ PartsOf(batch) = PartsOf(batch \cap GitFiles) \cup PartsOf(batch \cap Files)
          /\ PartsOf(pending \cup batch) = PartsOf(pending) \cup PartsOf(batch)
      BY <3>1, PartsOfBoth
    <3>3. PartsOf(pending' \cup batch') = PartsOf(pending) \cup PartsOf(batch \cap Files)
      BY <2>1, <2>8, PartsOfBoth DEF AfterGit
    <3> QED  BY <2>1, <2>8, <3>2, <3>3 DEF Lose, AfterGit, world
  <2> QED  BY <2>5, <2>6, <2>7, <2>8
<1>9. CASE ReportProject
  <2>1. UNCHANGED <<pending, resting, read, world>> /\ phase = "project" /\ batch \subseteq Files
    BY <1>9 DEF ReportProject
  <2>2. batch' = {} /\ phase' = "idle"  BY <1>9 DEF ReportProject, Handled
  <2>3. PartsOf(batch) \subseteq {"worktree"}  BY <2>1, PartsOfFiles
  <2>4. PartsOf(pending \cup batch) = PartsOf(pending) \cup PartsOf(batch)  BY PartsOfBoth
  <2>5. batch \subseteq Private => PartsOf(batch) = {}  BY DEF PartsOf
  <2>6. PartsOf(pending' \cup batch') = PartsOf(pending)  BY <2>1, <2>2
  <2> QED  BY <1>9, <2>1, <2>2, <2>3, <2>4, <2>5, <2>6 DEF ReportProject, Report, Lose, world
<1>10. CASE UNCHANGED vars
  BY <1>10 DEF vars
<1> QED
  BY <1>1, <1>2, <1>3, <1>4, <1>5, <1>6, <1>7, <1>8, <1>9, <1>10 DEF Next, Writes, Task

THEOREM TypeCorrect == Spec => []TypeOK
<1>1. Init => Inv  BY DEF Init, Inv, TypeOK, Accounted, Overtaken
<1> QED  BY <1>1, Inductive, PTL DEF Spec, Inv

(* Every change is reported, on its way, or dropped for a reason that is      *)
(* known: no interleaving of writes, events and reports forgets it.           *)
THEOREM NothingForgotten == Spec => []Accounted
<1>1. Init => Inv  BY DEF Init, Inv, TypeOK, Accounted, Overtaken
<1> QED  BY <1>1, Inductive, PTL DEF Spec, Inv
=============================================================================
