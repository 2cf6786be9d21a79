--------------------------- MODULE RepoPermission ---------------------------
(***************************************************************************)
(* What crates/but-core/src/sync.rs promises to its callers: a thread that *)
(* has a RepoShared or RepoExclusive token was granted that access within  *)
(* its process.  No lock, queue or file appears here; RepoAccess is shown  *)
(* to implement this specification.                                        *)
(***************************************************************************)
CONSTANTS Thread, Process, ProcOf

VARIABLE permission   \* the token each thread has

Init == permission = [t \in Thread |-> "none"]

Others(t) == {u \in Thread \ {t} : ProcOf[u] = ProcOf[t]}

TakeShared(t) ==
    /\ permission[t] = "none"
    /\ \A u \in Others(t) : permission[u] # "exclusive"
    /\ permission' = [permission EXCEPT ![t] = "shared"]

TakeExclusive(t) ==
    /\ permission[t] = "none"
    /\ \A u \in Others(t) : permission[u] = "none"
    /\ permission' = [permission EXCEPT ![t] = "exclusive"]

GiveBack(t) ==
    /\ permission[t] # "none"
    /\ permission' = [permission EXCEPT ![t] = "none"]

\* All tokens of a process vanish with it.
ProcessEnds(p) ==
    permission' = [t \in Thread |-> IF ProcOf[t] = p THEN "none" ELSE permission[t]]

Next ==
    \/ \E t \in Thread : TakeShared(t) \/ TakeExclusive(t) \/ GiveBack(t)
    \/ \E p \in Process : ProcessEnds(p)

Spec == Init /\ [][Next]_permission
=============================================================================
