----------------------------- MODULE HunkRanges -----------------------------
(* Which commit every line of a file comes from: the commits of each stack    *)
(* are added base first, their hunks cut what earlier commits left, and the   *)
(* ranges of the stacks are combined to line numbers of the workspace         *)
(* (crates/but-hunk-dependency/src/ranges).  One file is modelled; the stacks *)
(* are worked on here, commit by commit, beside the ranges that are computed. *)
(* Lines have no text: a hunk that moves lines says so itself.                *)
EXTENDS Integers, FiniteSetsExt, SequencesExt

CONSTANTS Targets,    \* the stacks, 1 to their number
          BaseLines,  \* lines of the file in the base of the workspace
          MaxHunks,   \* hunks of all commits together
          MaxNew      \* lines that a hunk adds

VARIABLES file,    \* the lines at the tip of every stack
          commits, \* the number of its commits
          hunks,   \* and of their hunks
          ranges   \* hunk_ranges of the PathRanges of every stack
hunkVars == <<file, commits, hunks, ranges>>

BaseFile == [i \in 1..BaseLines |-> [target |-> 0, commit |-> 0, base |-> i]]
Line(target, commit) == [target |-> target, commit |-> commit, base |-> 0]
Shifted(r, n) == [r EXCEPT !.start = @ + n]
Lines(rs) == SumFunction([i \in DOMAIN rs |-> rs[i].lines])
(* A hunk is [old, oldLines, new, newLines] as in a unified diff without      *)
(* context: the line before stands for the start of an empty side.            *)
Net(h) == h.newLines - h.oldLines

-----------------------------------------------------------------------------
(* HunkRange                                                                  *)
Top(start, lines) == IF lines = 0 THEN start ELSE start - 1
Bottom(start, lines) == Top(start, lines) + lines
Between(r, top, bottom) ==
    [r EXCEPT !.lines = bottom - top, !.start = IF bottom = top THEN top ELSE top + 1]

(* What remains of r above an incoming hunk, and below it: at most one range. *)
Above(r, start, lines) ==
    LET top == Top(start, lines)  selfTop == Top(r.start, r.lines)
    IN IF top <= selfTop THEN <<>>
       ELSE IF top < Bottom(r.start, r.lines) THEN <<Between(r, selfTop, top)>>
       ELSE <<r>>
Below(r, start, lines) ==
    LET bottom == Bottom(start, lines)  selfBottom == Bottom(r.start, r.lines)
    IN IF bottom >= selfBottom THEN <<>>
       ELSE IF bottom > Top(r.start, r.lines) THEN <<Between(r, bottom, selfBottom)>>
       ELSE <<r>>

(* Division of integers rounds towards zero.                                  *)
Quotient(a, b) == IF a >= 0 THEN a \div b ELSE -((-a) \div b)

(* The net shift of a range that was cut in two is shared by their lines.     *)
SplitShift(above, below, shift) ==
    LET total == above.lines + below.lines
    IN IF total = 0 THEN Quotient(shift, 2) ELSE Quotient(shift * above.lines, total)

Share(above, below, rest) ==
    IF above = <<>> THEN 0
    ELSE IF below = <<>> THEN rest
    ELSE SplitShift(above[1], below[1], rest)
Remains(above, below, first, second, change) ==
    [above  |-> [i \in DOMAIN above |-> [above[i] EXCEPT !.shift = first]],
     below  |-> [i \in DOMAIN below |-> [below[i] EXCEPT !.shift = second]],
     change |-> change]
(* Lines that are taken over are deducted from the shift of what remains.     *)
Deduct(r, above, below, taken) ==
    LET rest == r.shift - taken  first == Share(above, below, rest)
    IN Remains(above, below, first, rest - first,
               IF above \o below = <<>> THEN r.shift ELSE taken)
(* mutant: they are not.                                                      *)
ReceiveWholeShift(r, start, lines) ==
    LET above == Above(r, start, lines)
        below == Below(r, start, lines)
        taken == r.lines - Lines(above \o below)
    IN Remains(above, below, r.shift, r.shift,
               IF above \o below = <<>> THEN r.shift ELSE taken)
Receive(r, start, lines) ==
    LET above == Above(r, start, lines)
        below == Below(r, start, lines)
    IN Deduct(r, above, below, r.lines - Lines(above \o below))

-----------------------------------------------------------------------------
(* PathRanges::add: a hunk goes through the ranges that were there until one  *)
(* has a rest below it, which the next hunk meets first.                      *)
FirstLeft(received) ==
    LET stops == {i \in DOMAIN received : received[i].below # <<>>}
    IN IF stops = {} THEN Len(received) ELSE Min(stops)
Insert(state, h, met, incoming) ==
    LET above == FlattenSeq([i \in DOMAIN met |-> met[i].above])
        after == SubSeq(state.existing, Len(met) + 1, Len(state.existing))
    IN [out      |-> state.out \o [i \in DOMAIN above |-> Shifted(above[i], state.shift)]
                               \o <<[incoming EXCEPT !.shift =
                                      Net(h) + SumFunction([i \in DOMAIN met |-> met[i].change])]>>,
        existing |-> IF met = <<>> THEN after ELSE Last(met).below \o after,
        shift    |-> state.shift + Net(h)]
TakeIn(state, h, change, target, commit) ==
    LET received == [i \in DOMAIN state.existing |->
                        Receive(state.existing[i], h.old, h.oldLines)]
    IN Insert(state, h, SubSeq(received, 1, FirstLeft(received)),
              [change |-> change, target |-> target, commit |-> commit,
               start |-> h.new, lines |-> h.newLines, shift |-> 0])

Moved(end) == end.out \o [i \in DOMAIN end.existing |-> Shifted(end.existing[i], end.shift)]
Add(existing, incoming, change, target, commit) ==
    Moved(FoldLeft(LAMBDA s, h : TakeIn(s, h, change, target, commit),
                   [out |-> <<>>, existing |-> existing, shift |-> 0], incoming))

-----------------------------------------------------------------------------
(* combine_path_ranges: of the next ranges of all stacks, the one with the    *)
(* lowest start comes first, and moves the ranges of the others that follow.  *)
NextTarget(state) ==
    LET open == {t \in Targets : state.at[t] <= Len(ranges[t])}
        Start(t) == ranges[t][state.at[t]].start
    IN CHOOSE t \in open :
         \A u \in open : Start(t) < Start(u) \/ (Start(t) = Start(u) /\ t <= u)
Merge(state, k) ==
    LET t == NextTarget(state)
        r == ranges[t][state.at[t]]
    IN [out   |-> Append(state.out, Shifted(r, Max({state.shift[t], -r.start}))),
        at    |-> [state.at EXCEPT ![t] = @ + 1],
        shift |-> [u \in Targets |->
                      IF u = t THEN state.shift[u] ELSE state.shift[u] + r.shift]]
Combined ==
    LET all == SumFunction([t \in Targets |-> Len(ranges[t])])
    IN FoldLeft(Merge, [out |-> <<>>, at |-> [t \in Targets |-> 1],
                        shift |-> [t \in Targets |-> 0]], [k \in 1..all |-> k]).out

-----------------------------------------------------------------------------
(* WorkspaceRanges::intersection: the ranges a worktree hunk depends on.      *)
(* The last line an emptied range of a deletion stands for.                   *)
LastLine(r) == IF r.lines = 0 /\ r.shift < 0 THEN r.start - r.shift - 1
               ELSE r.start + r.lines - 1
(* mutant: the last line of the range does not count.                         *)
IntersectsButLast(r, start, lines) ==
    IF lines = 0 THEN start # 0 /\ r.start <= start /\ start < r.start + r.lines
    ELSE IF r.start + r.lines = 0 THEN FALSE
    ELSE IF r.lines = 0 /\ r.shift >= 0 THEN r.start >= start /\ r.start < start + lines
    ELSE r.start <= start + lines - 1 /\ LastLine(r) > start
(* A range that deletes the first lines has no last line: an error, that      *)
(* counts as a no.                                                            *)
Intersects(r, start, lines) ==
    IF lines = 0 THEN start # 0 /\ r.start <= start /\ start < r.start + r.lines
    ELSE IF r.start + r.lines = 0 THEN FALSE
    ELSE IF r.lines = 0 /\ r.shift >= 0 THEN r.start >= start /\ r.start < start + lines
    ELSE r.start <= start + lines - 1 /\ LastLine(r) >= start
IntersectsOrAdjacent(r, start, lines) ==
    IF lines = 0 THEN
        /\ r.start <= start + 1
        /\ start <= IF r.lines = 0 THEN r.start + 1 ELSE r.start + r.lines
    ELSE IF r.lines = 0 /\ r.shift >= 0 THEN r.start <= start + lines /\ r.start + 1 >= start
    ELSE r.start <= start + lines /\ LastLine(r) + 1 >= start
(* A hunk that moves lines may collide with what it only touches.             *)
Intersection(all, start, lines, moves) ==
    {i \in DOMAIN all :
        \/ all[i].change # "Modification"
        \/ Intersects(all[i], start, lines)
        \/ /\ IntersectsOrAdjacent(all[i], start, lines)
           /\ IF lines = 0 THEN all[i].lines = 0 ELSE moves}

-----------------------------------------------------------------------------
(* The work on the stacks: a commit replaces the lines top + 1 to bottom at   *)
(* one or two places.                                                         *)
Places(n) == {p \in [top : 0..n, bottom : 0..n, lines : 0..MaxNew] :
                p.top <= p.bottom /\ (p.top = p.bottom => p.lines > 0)}
Edits(n, most) ==
    {<<p>> : p \in Places(n)}
    \cup IF most < 2 THEN {} ELSE {e \in Places(n) \X Places(n) : e[1].bottom < e[2].top}
Size(e) == FoldLeft(LAMBDA n, p : n + p.lines - (p.bottom - p.top), 0, e)
Start(top, lines) == IF lines = 0 THEN top ELSE top + 1
HunksOf(e) ==
    [i \in DOMAIN e |->
        [old |-> Start(e[i].top, e[i].bottom - e[i].top), oldLines |-> e[i].bottom - e[i].top,
         new |-> Start(e[i].top + Size(SubSeq(e, 1, i - 1)), e[i].lines), newLines |-> e[i].lines]]
Edited(f, e, line) ==
    LET From(i) == IF i = 1 THEN 1 ELSE e[i - 1].bottom + 1
    IN FlattenSeq([i \in DOMAIN e |->
           SubSeq(f, From(i), e[i].top) \o [k \in 1..e[i].lines |-> line]])
       \o SubSeq(f, Last(e).bottom + 1, Len(f))

(* The lines of f that follow the line k of the base, up to its next one; the *)
(* lines of the base that a stack keeps; the places where it changes the base.*)
Kept(f) == {f[i].base : i \in DOMAIN f}  \cup {0}
After(f, k) ==
    LET from == IF k = 0 THEN 0 ELSE CHOOSE i \in DOMAIN f : f[i].base = k
        rest == SubSeq(f, from + 1, Len(f))
        next == {i \in DOMAIN rest : rest[i].base # 0}
    IN IF next = {} THEN rest ELSE SubSeq(rest, 1, Min(next) - 1)
Changed(f) ==
    {g \in 0..BaseLines :
        LET k == Max({i \in Kept(f) : i <= g})
        IN After(f, k) # <<>> \/ (g < BaseLines /\ g + 1 \notin Kept(f)) \/ g \notin Kept(f)}
Independent(files) ==
    \A t, u \in Targets : t # u => Changed(files[t]) \cap Changed(files[u]) = {}
(* The file of the workspace, where the stacks are merged.                    *)
Workspace ==
    FlattenSeq([n \in 1..(BaseLines + 1) |->
        LET k == n - 1
            keeps == {t \in Targets : k \in Kept(file[t])}
        IN (IF k > 0 /\ keeps = Targets THEN <<BaseFile[k]>> ELSE <<>>)
           \o FlattenSeq([t \in Targets |->
                 IF t \in keeps THEN After(file[t], k) ELSE <<>>])])

HunkInit ==
    /\ file = [t \in Targets |-> BaseFile]
    /\ commits = [t \in Targets |-> 0] /\ hunks = 0
    /\ ranges = [t \in Targets |-> <<>>]

Commit(t) ==
    /\ hunks < MaxHunks
    /\ \E e \in Edits(Len(file[t]), MaxHunks - hunks) :
        /\ hunks' = hunks + Len(e)
        /\ commits' = [commits EXCEPT ![t] = @ + 1]
        /\ file' = [file EXCEPT ![t] = Edited(@, e, Line(t, commits'[t]))]
        /\ Independent(file')
        /\ ranges' = [ranges EXCEPT ![t] =
              Add(@, HunksOf(e),
                  IF file[t] = <<>> THEN "Addition"
                  ELSE IF file'[t] = <<>> THEN "Deletion" ELSE "Modification",
                  t, commits'[t])]

HunkNext == \E t \in Targets : Commit(t)
HunkSpec == HunkInit /\ [][HunkNext]_hunkVars

-----------------------------------------------------------------------------
(* Every line of f that a commit added is in one range, of that commit, and   *)
(* no line of the base is in any.                                             *)
Blames(f, all) ==
    \A i \in DOMAIN f :
        LET covering == {n \in DOMAIN all : all[n].start <= i /\ i < all[n].start + all[n].lines}
        IN {Line(all[n].target, all[n].commit) : n \in covering}
             = (IF f[i].base = 0 THEN {f[i]} ELSE {}) /\ Cardinality(covering) <= 1

(* The shifts of the ranges above a line of the base add up to how far it has *)
(* moved: what was deleted, and never had lines of its own, counts as well.   *)
ShiftsAddUp(t) ==
    \A i \in DOMAIN file[t] : file[t][i].base # 0 =>
        LET above == {n \in DOMAIN ranges[t] : ranges[t][n].start < i}
        IN i - file[t][i].base = SumFunctionOnSet([n \in DOMAIN ranges[t] |-> ranges[t][n].shift], above)

(* However later commits cut, cover and delete what earlier ones wrote, the   *)
(* ranges of a stack say of every line of its tip which commit it comes from, *)
(* and of every line of the base how far it has moved.                        *)
StacksAreBlamed == \A t \in Targets : Blames(file[t], ranges[t]) /\ ShiftsAddUp(t)

(* "into a single vector with line numbers that should match the workspace    *)
(* commit" (mod.rs:89).                                                       *)
LineNumbersMatch == LET tip == Workspace  all == Combined IN Blames(tip, all)

(* The line of the base that a range follows, and stacks whose ranges have    *)
(* the order of their starts in the workspace too.                            *)
Follows(t, r) == Max({file[t][i].base : i \in 1..Top(r.start, r.lines)} \cup {0})
InOrder ==
    \A t, u \in Targets : t < u =>
        \A i \in DOMAIN ranges[t], j \in DOMAIN ranges[u] :
            LET r == ranges[t][i]  q == ranges[u][j]
            IN /\ Follows(t, r) < Follows(u, q) => r.start <= q.start
               /\ Follows(u, q) < Follows(t, r) => q.start < r.start

(* The stacks that delete all there was between the line i of the workspace   *)
(* and the next one.                                                          *)
Deleters(tip, i) ==
    LET k == IF i = 0 THEN 0 ELSE tip[i].base
        n == IF i = Len(tip) THEN BaseLines + 1 ELSE tip[i + 1].base
    IN IF (i > 0 /\ k = 0) \/ n = 0 THEN {}
       ELSE {t \in Targets : ~((k + 1)..(n - 1) \subseteq Kept(file[t]))}

(* Where the starts of the ranges, each counted in its own stack, have the    *)
(* order of the workspace: a change of a committed line, and what is inserted *)
(* after it, depends on the commit that wrote it, and a change across lines   *)
(* that were deleted, and what is inserted in their place, on the stack that  *)
(* deleted them.                                                              *)
EditsDepend ==
    InOrder =>
      LET tip == Workspace
          all == Combined
          Met(start, lines) == Intersection(all, start, lines, FALSE)
          Commits(met) == {Line(all[n].target, all[n].commit) : n \in met}
          Stacks(met) == {all[n].target : n \in met}
      IN /\ Blames(tip, all)
         /\ \A start \in DOMAIN tip : \A end \in start..Len(tip) :
              LET met == Met(start, end - start + 1)
              IN /\ {tip[i] : i \in {i \in start..end : tip[i].base = 0}} \subseteq Commits(met)
                 /\ UNION {Deleters(tip, i) : i \in start..(end - 1)} \subseteq Stacks(met)
         /\ \A at \in 0..Len(tip) :
              /\ at > 0 /\ tip[at].base = 0 => tip[at] \in Commits(Met(at, 0))
              /\ Deleters(tip, at) \subseteq Stacks(Met(at, 0))
=============================================================================
