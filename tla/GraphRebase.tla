----------------------------- MODULE GraphRebase -----------------------------
(* History is rewritten on a graph of steps: an editor is made for the        *)
(* workspace, an operation rewires the steps, and the rebase picks the        *)
(* commits again where their parents changed and moves the branches           *)
(* (crates/but-rebase/src/graph_rebase, crates/but-workspace/src/commit,      *)
(* src/branch/move_branch.rs).  A commit is what it changes, how often it was *)
(* edited, and its parents, so that the same commit on the same parents is    *)
(* the same; trees and conflicts are left out.                                *)
EXTENDS Integers, FiniteSetsExt, SequencesExt

CONSTANTS Workspaces, \* [segments, links]: what the editor may be made for
          Branches,   \* names of branches
          WorkspaceRef,       \* the reference of the workspace, Trunk that of the target
          Trunk,
          Merge,      \* the workspace commit, Base the lowest commit
          Base,
          New,        \* names of commits to come
          NoCommit,
          MaxOps      \* operations on one editor

VARIABLES graph,    \* the steps and their edges
          refs,     \* the references of the repository
          mapping,  \* RevisionHistory::commit_mappings, as pairs [new, old]
          operations, latest, \* how many so far, and the kind of the last
          editing   \* whether the editor is in use
rebaseVars == <<graph, refs, mapping, operations, latest, editing>>

References == Branches \cup {WorkspaceRef, Trunk}
Sides == {"Above", "Below"}
OpKinds == {"none", "move", "moveOntoItself", "discard", "squash", "insert", "reword", "moveBranch", "tearOff"}

-----------------------------------------------------------------------------
(* The graph: to every node a step, and the edges to its parents, the newest  *)
(* first, as edges_directed yields them.                                      *)
Nodes(g) == DOMAIN g.step
Pick(commit, tracked) == [kind |-> "Pick", commit |-> commit, tracked |-> tracked]
Reference == [kind |-> "Reference"]
Nothing == [kind |-> "None"]
Picks(g) == {n \in Nodes(g) : g.step[n].kind = "Pick"}
Targets(g, n) == {g.edges[n][i].to : i \in DOMAIN g.edges[n]}
Children(g, n) == {m \in Nodes(g) : n \in Targets(g, m)}
Edge(to, order) == [to |-> to, order |-> order]
AddEdge(g, from, to, order) == [g EXCEPT !.edges[from] = <<Edge(to, order)>> \o @]
(* The members of a sequence at these places, in their order.                 *)
At(seq, places) ==
    [k \in 1..Cardinality(places) |->
        seq[CHOOSE i \in places : Cardinality({j \in places : j <= i}) = k]]
EdgesTo(edges, targets) == At(edges, {i \in DOMAIN edges : edges[i].to \in targets})
EdgesNotTo(edges, targets) == At(edges, {i \in DOMAIN edges : edges[i].to \notin targets})
(* One more than the highest order of these edges.                            *)
Beyond(edges) == Max({e.order + 1 : e \in edges} \cup {0})
Incoming(g, n) == UNION {ToSet(EdgesTo(g.edges[m], {n})) : m \in Nodes(g)}

(* A stable sort by order.                                                    *)
Ordered(edges) ==
    LET Before(i, j) == \/ edges[i].order < edges[j].order
                        \/ edges[i].order = edges[j].order /\ i < j
        Rank(i) == Cardinality({j \in DOMAIN edges : Before(j, i)}) + 1
    IN [k \in DOMAIN edges |-> edges[CHOOSE i \in DOMAIN edges : Rank(i) = k]]

Repeat(Step(_), start, times) ==
    LET after[k \in 0..times] ==
            IF k = 0 THEN start ELSE CHOOSE y \in {Step(x) : x \in {after[k - 1]}} : TRUE
    IN after[times]

(* collect_ordered_parents: depth first through what is no commit; a node is  *)
(* seen as soon as it is on the stack.                                        *)
Visit(g, s) ==
    IF s.stack = <<>> THEN s
    ELSE LET node == s.stack[1].to
             further == Ordered(g.edges[node])
             Fresh(i) == /\ further[i].to \notin s.seen
                         /\ \A j \in DOMAIN further : j > i => further[j].to # further[i].to
             deeper == At(further, {i \in DOMAIN further : Fresh(i)})
         IN IF g.step[node].kind = "Pick"
            THEN [s EXCEPT !.stack = Tail(@), !.parents = Append(@, node)]
            ELSE [s EXCEPT !.stack = deeper \o Tail(@),
                           !.seen = @ \cup {e.to : e \in ToSet(deeper)}]
ParentsOf(g, n) ==
    LET first == Ordered(g.edges[n])
    IN Repeat(LAMBDA s : Visit(g, s), [stack |-> first, seen |-> Targets(g, n), parents |-> <<>>],
              Len(first) + Cardinality(Nodes(g))).parents

-----------------------------------------------------------------------------
(* Editor::rebase                                                             *)
Below(g, nodes) ==
    Repeat(LAMBDA S : S \cup UNION {Targets(g, n) : n \in S}, nodes, Cardinality(Nodes(g)))

(* order_steps_picking: what the heads lead to, parents before children; a    *)
(* step that comes before itself is left out, with all that is above it.      *)
ToPick(g) ==
    LET heads == {n \in Nodes(g) : Children(g, n) = {}}
        reached == Below(g, heads)
        Up(S) == S \cup {n \in reached : Targets(g, n) \subseteq S}
    IN Repeat(Up, {}, Cardinality(reached))

(* Every commit is picked onto what its parents have become, unless these are *)
(* its parents already; a graph of the same shape comes out.                  *)
\* Mutant: only the first parent is compared.
UnmovedAtFirst(commit, ontos) ==
    commit.parents # <<>> /\ ontos # <<>> /\ ontos[1] = commit.parents[1]
Unmoved(commit, ontos) == ontos = commit.parents
\* Mutant: the edges of references are dropped.
KeptEdgesOfPicks(g, kept) == [n \in kept \cap Picks(g) |-> Ordered(g.edges[n])]
KeptEdges(g, kept) == [n \in kept |-> Ordered(g.edges[n])]
Rebased(g) ==
    LET kept == ToPick(g)
        commits == Picks(g) \cap kept
        new[n \in commits] ==
            LET commit == g.step[n].commit
                parents == ParentsOf(g, n)
                ontos == [i \in DOMAIN parents |-> new[parents[i]]]
            IN IF Unmoved(commit, ontos) THEN commit ELSE [commit EXCEPT !.parents = ontos]
    IN [step |-> [n \in kept |->
                     IF n \in commits THEN [g.step[n] EXCEPT !.commit = new[n]] ELSE g.step[n]],
        edges |-> KeptEdges(g, kept)]

(* update_mapping, of all pairs at once: what was rewritten before keeps what *)
(* it was at first.                                                           *)
\* Mutant: what was rewritten before is not looked up.
UpdateUnchained(pairs, rewrites) == pairs \cup rewrites
Update(pairs, rewrites) ==
    LET new == {p.new : p \in pairs}
        from == {r.old : r \in rewrites}
    IN {p \in pairs : p.new \notin from}
       \cup {[new |-> r.new, old |-> IF r.old \in new
                                     THEN (CHOOSE p \in pairs : p.new = r.old).old ELSE r.old] :
                r \in rewrites}
Rewrites(g, rebased) ==
    {[old |-> g.step[n].commit, new |-> rebased.step[n].commit] : n \in {n \in Picks(rebased) : g.step[n].tracked}}

(* The edits of references: each to the first commit below it, and those that *)
(* were not met are deleted.                                                  *)
RefEdits(g) ==
    [r \in DOMAIN refs |-> IF r \notin Nodes(g) THEN NoCommit
                           ELSE g.step[ParentsOf(g, r)[1]].commit]

-----------------------------------------------------------------------------
(* Editor::create: the nodes of a segment hang on each other, its last one on *)
(* the first of the segments below, in the order of the parents.              *)
NodesOf(w) == UNION {ToSet(s) : s \in w.segments}
Bare(w) ==
    LET Under(n) == {m \in NodesOf(w) : \E s \in w.segments : \E i \in 2..Len(s) : s[i - 1] = n /\ s[i] = m}
    IN [step |-> [n \in NodesOf(w) |->
                     IF n \in References THEN Reference
                     ELSE Pick([changes |-> {n}, edit |-> 0, parents |-> <<>>], TRUE)],
        edges |-> [n \in NodesOf(w) |->
                     IF Under(n) # {} THEN <<Edge(CHOOSE m \in Under(n) : TRUE, 0)>>
                     ELSE IF n \in DOMAIN w.links
                     THEN [i \in DOMAIN w.links[n] |-> Edge(w.links[n][i], i - 1)]
                     ELSE <<>>]]
(* The commits are what becomes of their changes when these are picked onto   *)
(* each other, from the lowest on.                                            *)
Created(w) == [Bare(w) EXCEPT !.step = Rebased(Bare(w)).step]

(* The history below a workspace has no cycles, its references are at commits, *)
(* and commits to come have names of their own.                               *)
ASSUME RebaseAssumption ==
    /\ MaxOps \in Nat /\ New \cap References = {}
    /\ \A w \in Workspaces :
          /\ IsFiniteSet(NodesOf(w)) /\ NodesOf(w) \cap New = {}
          /\ \A n \in DOMAIN w.links : w.links[n] \in Seq(NodesOf(w))
          /\ ToPick(Bare(w)) = NodesOf(w)
          /\ \A r \in References \cap NodesOf(w) : ParentsOf(Created(w), r) # <<>>

-----------------------------------------------------------------------------
(* Editor::disconnect_segment_from: the children are given the edges that are *)
(* taken from the segment, with the orders they had.                          *)
Disconnected(g, child, parent, children, parents, skipReconnect) ==
    LET given == IF skipReconnect THEN <<>> ELSE Reverse(EdgesTo(g.edges[parent], parents))
        cut == [g EXCEPT !.edges[parent] = EdgesNotTo(@, parents)]
    IN [cut EXCEPT !.edges = [n \in DOMAIN @ |->
          IF n \notin children THEN @[n]
          ELSE FlattenSeq([i \in DOMAIN EdgesTo(@[n], {child}) |-> given])
               \o EdgesNotTo(@[n], {child})]]
Cut(g, n) == Disconnected(g, n, n, Children(g, n), Targets(g, n), FALSE)

Moved(edges, by, To(_)) == Reverse([i \in DOMAIN edges |-> Edge(To(edges[i].to), edges[i].order + by)])

(* Editor::insert_segment_into                                                *)
InsertedAbove(g, target, child, parent) ==
    LET by == Beyond(Incoming(g, child))
        taken == [g EXCEPT !.edges = [n \in DOMAIN @ |->
                    Moved(EdgesTo(@[n], {target}), by, LAMBDA to : child) \o EdgesNotTo(@[n], {target})]]
    IN AddEdge(taken, parent, target, Beyond(ToSet(taken.edges[parent])))
ConnectedAbove(g, target, child, parent, node) ==
    LET by == Beyond(Incoming(g, child))
        connected == AddEdge(g, node, child, by)
    IN AddEdge(connected, parent, target, Beyond(ToSet(connected.edges[parent])))
InsertedBelow(g, target, child, parent) ==
    LET by == Beyond(ToSet(g.edges[parent]))
        bare == [g EXCEPT !.edges[target] = <<>>]
        taken == [bare EXCEPT !.edges[parent] = Moved(g.edges[target], by, LAMBDA to : to) \o @]
    IN AddEdge(taken, target, child, Beyond(Incoming(taken, child)))
InsertSegment(g, target, child, parent, side) ==
    IF side = "Above" THEN InsertedAbove(g, target, child, parent)
    ELSE InsertedBelow(g, target, child, parent)

(* Editor::insert: a new node takes the edges over as they are.               *)
Insert(g, target, new, step, side) ==
    LET wide == [step  |-> [n \in Nodes(g) \cup {new} |-> IF n = new THEN step ELSE g.step[n]],
                 edges |-> [n \in Nodes(g) \cup {new} |-> IF n = new THEN <<>> ELSE g.edges[n]]]
    IN InsertSegment(wide, target, new, new, side)

Replace(g, n, step) == [g EXCEPT !.step[n] = step]

(* order_commit_selectors_by_parentage: the commits in the order in which a   *)
(* depth-first search from the heads leaves them.                             *)
\* Mutant: what is on the stack already is not put there again.
OpenedOnce(stack, nodes) ==
    LET new == SelectSeq(nodes, LAMBDA n : n \notin {e.node : e \in ToSet(stack)})
    IN [i \in DOMAIN new |-> [node |-> new[i], expanded |-> FALSE]]
Opened(stack, nodes) == [i \in DOMAIN nodes |-> [node |-> nodes[i], expanded |-> FALSE]]
Search(g, s) ==
    LET node == Last(s.stack).node
        rest == Front(s.stack)
    IN IF s.stack = <<>> THEN s
       ELSE IF Last(s.stack).expanded
       THEN [s EXCEPT !.stack = rest, !.order = IF node \in Picks(g) THEN Append(@, node) ELSE @]
       ELSE IF node \in s.seen THEN [s EXCEPT !.stack = rest]
       ELSE [s EXCEPT !.seen = @ \cup {node},
                      !.stack = rest \o <<[node |-> node, expanded |-> TRUE]>>
                                \o Opened(rest, ParentsOf(g, node))]
Ranked(g) ==
    LET heads == {n \in Nodes(g) : Children(g, n) = {}}
        widest == Max({Len(ParentsOf(g, n)) : n \in Nodes(g)} \cup {0})
    IN Repeat(LAMBDA s : Search(g, s), [stack |-> Opened(<<>>, SetToSeq(heads)), seen |-> {}, order |-> <<>>],
              Cardinality(heads) + Cardinality(Nodes(g)) * (widest + 1)).order

-----------------------------------------------------------------------------
(* The stacks of a workspace: along first parents from each parent of the     *)
(* workspace commit down to the target.                                       *)
Longer(g, p) ==
    LET next == Ordered(g.edges[Last(p)])
    IN IF Last(p) = Trunk \/ next = <<>> THEN p ELSE Append(p, next[1].to)
Path(g, n) ==
    CHOOSE path \in {At(whole, {i \in DOMAIN whole : whole[i] \notin {Trunk, Base}}) :
                        whole \in {Repeat(LAMBDA p : Longer(g, p), <<n>>, Cardinality(Nodes(g)))}} : TRUE
StacksOf(g) ==
    IF Merge \notin Nodes(g) THEN {} ELSE {Path(g, n) : n \in Targets(g, Merge)} \ {<<>>}
StackItems(g) == UNION {ToSet(s) : s \in StacksOf(g)}
StackCommits(g) == StackItems(g) \ References
(* The branch at i of a stack, with its commits.                              *)
LastOf(s, i) ==
    LET next == {j \in (i + 1)..Len(s) : s[j] \in References}
    IN IF next = {} THEN Len(s) ELSE Min(next) - 1
Segments(s) == Cardinality({i \in DOMAIN s : i = 1 \/ s[i] \in References})

-----------------------------------------------------------------------------
(* Every operation rewires the graph and then rebases it.  A rebase without a *)
(* commit for one of its references fails, and nothing has happened.          *)
Rebases(kind, edited, pairs) ==
    /\ editing /\ operations < MaxOps
    /\ \E g \in {edited} : \E rebased \in {Rebased(g)} :
          /\ \A r \in References \cap Nodes(rebased) : ParentsOf(g, r) # <<>>
          /\ graph' = rebased
          /\ mapping' = Update(pairs, Rewrites(g, rebased))
    /\ operations' = operations + 1 /\ latest' = kind
    /\ UNCHANGED <<refs, editing>>

RebaseInit == \E w \in Workspaces :
    /\ graph = Created(w)
    /\ refs = [r \in References \cap Nodes(graph) |-> graph.step[ParentsOf(graph, r)[1]].commit]
    /\ mapping = {}
    /\ operations = 0 /\ latest = "none" /\ editing = TRUE

(* determine_parent_selector: a commit before a branch, else all.             *)
PreferredParents(g, n) ==
    LET parents == Ordered(g.edges[n])
        OfKind(kind) == SelectSeq(parents, LAMBDA e : g.step[e.to].kind = kind)
        candidates == OfKind("Pick") \o OfKind("Reference")
    IN IF candidates = <<>> THEN Targets(g, n) ELSE {candidates[1].to}

(* move_commit_no_rebase                                                      *)
MovedCommit(g, subject, anchor, side) ==
    LET cut == Disconnected(g, subject, subject, Children(g, subject), PreferredParents(g, subject), FALSE)
    IN InsertSegment(cut, anchor, subject, subject, side)

(* One commit or two, in the order in which the caller names them, and what   *)
(* is done to each in turn.                                                   *)
Chosen == {<<n>> : n \in StackCommits(graph)}
          \cup {s \in StackCommits(graph) \X StackCommits(graph) : s[1] # s[2]}
Each(Do(_, _), g, chosen) ==
    IF Len(chosen) = 1 THEN Do(g, chosen[1])
    ELSE CHOOSE h \in {Do(first, chosen[2]) : first \in {Do(g, chosen[1])}} : TRUE

(* commit_move: parents first below the anchor, children first above it, and  *)
(* one rebase.  Nothing keeps the anchor from being one of the commits; only  *)
(* the command line does (but/src/command/commit/move.rs:173).                *)
Sorted(ranked, chosen) ==
    LET Rank(n) == CHOOSE i \in DOMAIN ranked : ranked[i] = n
    IN IF Len(chosen) = 2 /\ Rank(chosen[2]) < Rank(chosen[1]) THEN Reverse(chosen) ELSE chosen
\* Mutant: in the same order on both sides.
InRank(sorted, side) == sorted
InTurn(sorted, side) == IF side = "Above" THEN Reverse(sorted) ELSE sorted
MoveCommits ==
    \E ranked \in {Ranked(graph)} :
    \E subjects \in Chosen, anchor \in StackItems(graph), side \in Sides :
       LET Move(g, subject) == MovedCommit(g, subject, anchor, side)
       IN Rebases(IF anchor \in ToSet(subjects) THEN "moveOntoItself" ELSE "move",
                  Each(Move, graph, InTurn(Sorted(ranked, subjects), side)), mapping)

Removed(g, n) == Replace(Cut(g, n), n, Nothing)
Removals(g, gone) == Each(Removed, g, gone)
DiscardCommits == \E gone \in Chosen : Rebases("discard", Removals(graph, gone), mapping)

(* The commit of a parent, which for a branch is the one it is at.            *)
CommitAt(g, n) == IF n \in Picks(g) THEN g.step[n].commit ELSE g.step[ParentsOf(g, n)[1]].commit

(* The commit that takes the changes of those that were removed from g.       *)
OntoParents(commit, g, n) ==
    LET below == Ordered(g.edges[n])
    IN [commit EXCEPT !.parents = [i \in DOMAIN below |-> CommitAt(g, below[i].to)]]
\* Mutant: the changes of the last one only.
SquashedLast(target, subjects, removed) ==
    OntoParents([graph.step[target].commit EXCEPT !.changes = @ \cup graph.step[Last(subjects)].commit.changes],
                removed, target)
Squashed(target, subjects, removed) ==
    OntoParents([graph.step[target].commit EXCEPT
                   !.changes = @ \cup UNION {graph.step[n].commit.changes : n \in ToSet(subjects)}],
                removed, target)
SquashCommits ==
    \E subjects \in Chosen, target \in StackCommits(graph) :
        /\ target \notin ToSet(subjects)
        /\ LET removed == Removals(graph, subjects)
               old == graph.step[target].commit
               new == Squashed(target, subjects, removed)
           IN Rebases("squash", Replace(removed, target, Pick(new, TRUE)),
                      Update(mapping, {[old |-> old, new |-> new]}))

InsertBlankCommit == \E new \in New \ Nodes(graph), anchor \in StackItems(graph), side \in Sides :
    LET blank == [changes |-> {new}, edit |-> 0, parents |-> <<>>]
    IN Rebases("insert", Insert(graph, anchor, new, Pick(blank, FALSE), side), mapping)

(* reword; amending and splitting a commit replace its step in the same way.  *)
Reword == \E target \in StackCommits(graph) :
    LET old == graph.step[target].commit
        new == [old EXCEPT !.edit = @ + 1]
    IN Rebases("reword", Replace(graph, target, Pick(new, TRUE)), Update(mapping, {[old |-> old, new |-> new]}))

(* get_disconnect_parameters: from the branch to its last commit; above it    *)
(* the step before it in its stack, or the workspace commit, below it the     *)
(* branch beneath, or the target.                                             *)
DisconnectedBranch(g, s, i, skipReconnect) ==
    LET last == LastOf(s, i)
    IN Disconnected(g, s[i], s[last], {IF i = 1 THEN Merge ELSE s[i - 1]},
                    {IF last = Len(s) THEN Trunk ELSE s[last + 1]}, skipReconnect)
Detachable(g, s, i) ==
    LET last == LastOf(s, i)
    IN (IF last = Len(s) THEN Trunk ELSE s[last + 1]) \in Targets(g, s[last])

MoveBranch ==
    \E s \in StacksOf(graph) : \E i \in {j \in DOMAIN s : s[j] \in Branches} :
        \E target \in (StackItems(graph) \cap Branches) \ {s[i]} :
            /\ Detachable(graph, s, i)
            /\ Rebases("moveBranch",
                       InsertedAbove(DisconnectedBranch(graph, s, i, Segments(s) = 1),
                                     target, s[i], s[LastOf(s, i)]), mapping)

TearOffBranch ==
    \E s \in StacksOf(graph) : \E i \in {j \in DOMAIN s : s[j] \in Branches} :
        /\ Segments(s) > 1 /\ Trunk \in Nodes(graph)
        /\ Detachable(graph, s, i)
        /\ Rebases("tearOff",
                   ConnectedAbove(DisconnectedBranch(graph, s, i, FALSE),
                                  Trunk, s[i], s[LastOf(s, i)], Merge), mapping)

(* materialize: fails, with no branch moved, when the graph has lost the head. *)
Materialize ==
    /\ editing' = FALSE /\ editing
    /\ refs' = IF WorkspaceRef \in Nodes(graph) THEN RefEdits(graph) ELSE refs
    /\ UNCHANGED <<graph, mapping, operations, latest>>

RebaseNext == \/ MoveCommits \/ DiscardCommits \/ SquashCommits \/ InsertBlankCommit \/ Reword
              \/ MoveBranch \/ TearOffBranch \/ Materialize
RebaseSpec == RebaseInit /\ [][RebaseNext]_rebaseVars

-----------------------------------------------------------------------------
RebaseTypeOK ==
    /\ DOMAIN graph.edges = Nodes(graph)
    /\ \A n \in Nodes(graph) : Targets(graph, n) \subseteq Nodes(graph)
    /\ DOMAIN refs \subseteq References
    /\ operations \in 0..MaxOps /\ latest \in OpKinds /\ editing \in BOOLEAN

(* What the first parents of a commit changed, down to the base.              *)
Changes(commit) ==
    LET Deeper(s) == IF s.at.parents = <<>> THEN s
                     ELSE [at |-> s.at.parents[1], changes |-> Append(s.changes, s.at.changes)]
    IN Repeat(Deeper, [at |-> commit, changes |-> <<>>], Cardinality(Nodes(graph))).changes

(* Once the rewrite is materialized every branch that is left in the          *)
(* workspace holds the commits that lie below it in its stack, in their       *)
(* order, and the workspace commit was made of these stacks.                  *)
BranchesHoldTheirCommits ==
    ~editing /\ WorkspaceRef \in Nodes(graph) =>
        /\ \A s \in StacksOf(graph) : \A i \in DOMAIN s :
              s[i] \in Branches =>
                  LET below == SelectSeq(SubSeq(s, i, Len(s)), LAMBDA n : n \notin References)
                  IN Changes(refs[s[i]]) = [k \in DOMAIN below |-> graph.step[below[k]].commit.changes]
        /\ \A s \in StacksOf(graph) : \E i \in DOMAIN refs[WorkspaceRef].parents :
              Changes(refs[WorkspaceRef].parents[i]) =
                  LET commits == SelectSeq(s, LAMBDA n : n \notin References)
                  IN [k \in DOMAIN commits |-> graph.step[commits[k]].commit.changes]

WorkspaceChanges(g) ==
    UNION {g.step[n].commit.changes : n \in Picks(g) \cap Below(g, {WorkspaceRef} \cap Nodes(g))}

(* Whatever is moved, torn off or squashed, all changes stay in the workspace; *)
(* what is discarded goes, and takes no other change along.  This is of stacks *)
(* without a merge, and not of a commit that is moved next to itself.          *)
Straight(g) == \A n \in Picks(g) \ {Merge} : Len(ParentsOf(g, n)) <= 1
NothingIsLost == [][
    operations' > operations /\ latest' # "moveOntoItself" /\ Straight(graph) =>
        LET removed == Picks(graph) \ Picks(graph')
            lost == WorkspaceChanges(graph) \ WorkspaceChanges(graph')
        IN /\ removed \subseteq IF latest' \in {"discard", "squash"} THEN Nodes(graph') ELSE {}
           /\ lost = IF latest' = "discard" THEN UNION {graph.step[n].commit.changes : n \in removed}
                     ELSE {}]_rebaseVars

(* A commit that is moved is detached from where it is and inserted next to   *)
(* the anchor (move_commit.rs): while there is a workspace no commit leaves   *)
(* the graph but by being discarded.  This is of anchors that are not moved.  *)
MovedCommitsStay == [][
    latest' # "moveOntoItself" /\ WorkspaceRef \in Nodes(graph')
        => Picks(graph) \subseteq Nodes(graph')]_rebaseVars

(* All commits of the history of a commit.                                    *)
History(commit) ==
    Repeat(LAMBDA S : S \cup UNION {ToSet(c.parents) : c \in S}, {commit}, Cardinality(Nodes(graph)))

(* The mapping that is handed to the caller says of every commit that was     *)
(* there at first and is there still what it has become, over any number of   *)
(* operations: metadata that names commits is carried along by it.            *)
RewritesAreTraced ==
    editing /\ operations > 0 /\ WorkspaceRef \in Nodes(graph) =>
        \A old \in History(refs[WorkspaceRef]) : \A n \in Picks(graph) :
            old.changes = {n} => [old |-> old, new |-> graph.step[n].commit] \in mapping

(* Commits that are chosen in any order are applied parents first.            *)
OrderedByParentage ==
    LET order == Ranked(graph)
    IN /\ ToSet(order) = Picks(graph)
       /\ \A i \in DOMAIN order : ToSet(ParentsOf(graph, order[i])) \subseteq ToSet(SubSeq(order, 1, i - 1))
=============================================================================
