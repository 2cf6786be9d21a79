---------------------------- MODULE MCWorkspace ----------------------------
(* The lock, with failures and crashes for its safety and without them for    *)
(* its liveness, and the rebase: focus says which of them a behaviour is of.  *)
EXTENDS RepoAccess, MCGraphRebase

CONSTANTS p1, p2, h1, app, background, cli, hooked

VARIABLE focus

\* The desktop application with two threads, a command-line process and a
\* command that runs inside a commit hook.
MCProcOf == app :> p1 @@ background :> p1 @@ cli :> p2 @@ hooked :> h1

NoEditor == /\ graph = [step |-> <<>>, edges |-> <<>>]
            /\ refs = <<>> /\ mapping = {} /\ operations = 0 /\ latest = "none" /\ editing = FALSE
\* For liveness, without the command-line process.
Steady == pc'[cli] = pc[cli] /\ failures' = failures /\ crashes' = crashes

\* An editor that is done stays so, the lock must never be stuck.
WorkspaceInit ==
    /\ focus \in {"access", "progress", "rebase"}
    /\ Init
    /\ IF focus = "rebase" THEN RebaseInit ELSE NoEditor
WorkspaceNext ==
    /\ UNCHANGED focus
    /\ \/ focus = "access" /\ Next /\ UNCHANGED rebaseVars
       \/ focus = "progress" /\ Next /\ Steady /\ UNCHANGED rebaseVars
       \/ focus = "rebase" /\ RebaseNext /\ UNCHANGED vars
       \/ focus = "rebase" /\ ~editing /\ UNCHANGED <<vars, rebaseVars>>
WorkspaceSpec ==
    WorkspaceInit /\ [][WorkspaceNext]_<<focus, vars, rebaseVars>> /\ (focus = "progress" => Fairness)

\* The type invariants of the lock and of the rebase.
WorkspaceTypeOK == TypeOK /\ RebaseTypeOK

\* Of the lock without failures: a process in a hook does not wait for its
\* own parent, and whoever asks for access obtains it in its turn, in a process
\* that does not wait for another one for good.
NobodyWaitsForever == focus = "progress" => HookFinishes /\ NoStarvation
=============================================================================
