---------------------------- MODULE BranchStacks ----------------------------
(* What the user asks of a workspace whose history has no merges but its own  *)
(* commit: the stacks are sequences of branches and commits, tip first, and   *)
(* commits and branches are taken out of one place and put into another.      *)
EXTENDS Integers, FiniteSetsExt, SequencesExt

CONSTANTS Start,    \* the stacks to begin with, [stacks, work]
          Branches, \* names of branches
          New       \* names for commits to come

VARIABLES stacks, \* a set of sequences of names
          work    \* the changes that each commit has

stackVars == <<stacks, work>>
Sides == {"Above", "Below"}
Items == UNION {ToSet(s) : s \in stacks}
Commits == Items \ Branches

IsSubSeq(xs, s) == SelectSeq(s, LAMBDA y : y \in ToSet(xs)) = xs
Without(s, gone) == SelectSeq(s, LAMBDA y : y \notin gone)
(* The names xs above or below the anchor, in the stack that has it.          *)
Put(s, xs, anchor, side) ==
    IF anchor \notin ToSet(s) THEN s
    ELSE LET at == CHOOSE i \in DOMAIN s : s[i] = anchor
             n == IF side = "Above" THEN at - 1 ELSE at
         IN SubSeq(s, 1, n) \o xs \o SubSeq(s, n + 1, Len(s))
(* A branch with its commits, to the next branch below.                       *)
Part(s, branch) ==
    LET at == CHOOSE i \in DOMAIN s : s[i] = branch
        next == {i \in (at + 1)..Len(s) : s[i] \in Branches}
    IN SubSeq(s, at, IF next = {} THEN Len(s) ELSE Min(next) - 1)

Init == \E w \in Start : stacks = w.stacks /\ work = w.work

(* Commits that are moved together keep the order in which they are.          *)
Move == \E moved \in {{x, y} : x, y \in Commits}, anchor \in Items, side \in Sides :
    /\ anchor \notin moved
    /\ \E xs \in SetToSeqs(moved) :
          /\ \A s \in stacks : moved \subseteq ToSet(s) => IsSubSeq(xs, s)
          /\ stacks' = {Put(Without(s, moved), xs, anchor, side) : s \in stacks}
    /\ UNCHANGED work

Discard == \E gone \in SUBSET Commits :
    /\ stacks' = {Without(s, gone) : s \in stacks} \ {<<>>}
    /\ work' = Restrict(work, Commits \ gone)

Squash == \E gone \in SUBSET Commits, target \in Commits :
    /\ target \notin gone
    /\ stacks' = {Without(s, gone) : s \in stacks}
    /\ work' = [n \in Commits \ gone |->
                 IF n = target THEN work[n] \cup UNION {work[x] : x \in gone} ELSE work[n]]

InsertBlank == \E x \in New \ Items, anchor \in Items, side \in Sides :
    /\ stacks' = {Put(s, <<x>>, anchor, side) : s \in stacks}
    /\ work' = [n \in Commits \cup {x} |-> IF n = x THEN {x} ELSE work[n]]

MoveBranch == \E branch, target \in Branches \cap Items : \E s \in stacks :
    /\ branch # target /\ branch \in ToSet(s)
    /\ stacks' = {Put(Without(t, ToSet(Part(s, branch))), Part(s, branch), target, "Above") :
                     t \in stacks \ (IF s = Part(s, branch) THEN {s} ELSE {})}
    /\ UNCHANGED work

TearOffBranch == \E branch \in Branches \cap Items : \E s \in stacks :
    /\ branch \in ToSet(s) /\ s # Part(s, branch)
    /\ stacks' = {Without(t, ToSet(Part(s, branch))) : t \in stacks} \cup {Part(s, branch)}
    /\ UNCHANGED work

Next == Move \/ Discard \/ Squash \/ InsertBlank \/ MoveBranch \/ TearOffBranch
Spec == Init /\ [][Next]_stackVars
=============================================================================
