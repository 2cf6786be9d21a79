---------------------------- MODULE MCGraphRebase ----------------------------
(* Two workspaces for GraphRebase: a stack of two branches beside another     *)
(* one, and a stack with a merge in it.                                       *)
EXTENDS GraphRebase, TLC

Stacked == [segments |-> {<<"ws", "W">>, <<"A2", "a2">>, <<"A1", "a1">>, <<"B", "b1">>, <<"main", "m">>},
            links |-> [W |-> <<"A2", "B">>, a2 |-> <<"A1">>, a1 |-> <<"main">>, b1 |-> <<"main">>]]
Merged == [segments |-> {<<"ws", "W">>, <<"A1", "a2">>, <<"X", "x1">>, <<"a1">>, <<"B", "b1">>, <<"main", "m">>},
           links |-> [W |-> <<"A1", "B">>, a2 |-> <<"a1", "X">>, x1 |-> <<"a1">>,
                      a1 |-> <<"main">>, b1 |-> <<"main">>]]
MCWorkspaces == {Stacked, Merged}
MCBranches == {"A1", "A2", "B", "X"}
MCNew == {"n1"}
MCMerged == {Merged}

(* The stacks as the user knows them, where there is no merge.                *)
Linear == "X" \notin DOMAIN refs
Asked == INSTANCE BranchStacks WITH
    Start <- {[stacks |-> {<<"A2", "a2", "A1", "a1">>, <<"B", "b1">>},
               work |-> [n \in {"a1", "a2", "b1"} |-> {n}]],
              [stacks |-> {}, work |-> <<>>]},
    Branches <- MCBranches, New <- MCNew,
    stacks <- IF Linear THEN StacksOf(graph) ELSE {},
    work <- IF Linear THEN [n \in StackCommits(graph) |-> graph.step[n].commit.changes] ELSE <<>>
\* (Asked!Spec; a step that leaves the graph alone is none of the stacks, and
\* to move a commit next to itself nobody asks of them.)
ImplementsStacks ==
    Asked!Init /\ [][\/ UNCHANGED graph \/ latest' = "moveOntoItself"
                    \/ Asked!Next \/ UNCHANGED Asked!stackVars]_rebaseVars
=============================================================================
