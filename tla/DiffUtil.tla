------------------------------ MODULE DiffUtil ------------------------------
(***************************************************************************)
(* The line diff behind `pgb diff' (internal/diffutil): Myers' search in   *)
(* its linear-space form, with a cost cap that trades the shortest script  *)
(* for bounded time, and the hunks made from the script.                   *)
(*                                                                         *)
(* A line is a member of Lines; reading a string as lines, and interning   *)
(* them, keep what the search looks at, equality.  Positions count the     *)
(* lines before them, as in the code, so line i of s is s[i + 1].  `todo'  *)
(* is the stack of pending calls of compare; fd and bd are the two arrays  *)
(* that all splits share, indexed by diagonal.  An index out of range is   *)
(* an evaluation error in TLC, as it is a panic in the code.               *)
(***************************************************************************)
EXTENDS Integers, FiniteSets, FiniteSetsExt, SequencesExt

CONSTANTS
    Lines,
    MaxLen,         \* bound on the number of lines of an input
    CostCaps,       \* values of diffOpsCap's costCap
    contextLines,   \* equal lines shown around a change
    MaxInt          \* above every position

ASSUME DiffAssumption ==
    /\ MaxLen \in Nat /\ CostCaps \subseteq Nat \ {0} /\ contextLines \in Nat
    /\ MaxInt \in Nat /\ MaxInt > 4 * MaxLen

VARIABLES
    a, b,           \* the two inputs
    tooExpensive,   \* the cost cap of a split
    pc,             \* what runs next
    differ,         \* the two sequences that are searched, and where their lines are
    del, ins,       \* the positions in a deleted, in b inserted
    todo,           \* the calls of compare still to come, next one first
    srch,           \* the locals of the split that is running
    fd, bd,         \* furthest x per diagonal, forwards and backwards
    capped,         \* some split gave up the optimum
    hunks           \* what renderHunks wrote

diffVars == <<a, b, tooExpensive, pc, differ, del, ins, todo, srch, fd, bd,
              capped, hunks>>
inputs == <<a, b, tooExpensive>>
fixed == <<inputs, differ>>

\* The positions of s; those of them in S, in order, and the elements there.
Positions(s) == 0..(Len(s) - 1)
InOrder(s, S) == SelectSeq([i \in DOMAIN s |-> i - 1], LAMBDA i : i \in S)
At(s, S) == LET idx == InOrder(s, S) IN [i \in DOMAIN idx |-> s[idx[i] + 1]]

-----------------------------------------------------------------------------
(* changes: what needs no search. *)

\* How many offsets in a row, from 0 on, are in the set same.
Longest(same) == Max({n \in 0..Cardinality(same) : 0..(n - 1) \subseteq same})

commonPrefix == Longest({k \in 0..(Min({Len(a), Len(b)}) - 1) : a[k + 1] = b[k + 1]})

\* Mutant: the suffix may reach into the prefix.
commonSuffixWhole ==
    Longest({k \in 0..(Min({Len(a), Len(b)}) - 1) : a[Len(a) - k] = b[Len(b) - k]})

commonSuffix ==
    Longest({k \in 0..(Min({Len(a), Len(b)}) - commonPrefix - 1) :
                a[Len(a) - k] = b[Len(b) - k]})

\* What is left of s between the common prefix and suffix, and of that the
\* positions whose line the other side's middle has too: the rest is changed.
Middle(s) == commonPrefix..(Len(s) - 1 - commonSuffix)
Shared(s, t) == {i \in Middle(s) : \E j \in Middle(t) : t[j + 1] = s[i + 1]}

xs == differ.x
ys == differ.y

Call(xoff, xlim, yoff, ylim, minimal) ==
    [xoff |-> xoff, xlim |-> xlim, yoff |-> yoff, ylim |-> ylim, minimal |-> minimal]

NoSearch == [c |-> 0, fmin |-> 0, fmax |-> 0, bmin |-> 0, bmax |-> 0]

\* newDiffer, and the first call of compare.
Changes ==
    LET sa == Shared(a, b)
        sb == Shared(b, a)
        n == Cardinality(sa)
        m == Cardinality(sb) IN
    /\ pc = "changes" /\ pc' = "compare"
    /\ del' = Middle(a) \ sa /\ ins' = Middle(b) \ sb
    /\ differ' = [x |-> At(a, sa), y |-> At(b, sb),
                  xIdx |-> InOrder(a, sa), yIdx |-> InOrder(b, sb)]
    /\ fd' = [k \in (-m - 1)..(n + 1) |-> 0] /\ bd' = [k \in (-m - 1)..(n + 1) |-> 0]
    /\ todo' = <<Call(0, n, 0, m, FALSE)>>
    /\ UNCHANGED <<inputs, srch, capped, hunks>>

-----------------------------------------------------------------------------
(* compare and split. *)

\* A snake: equal lines from (x, y) on, and back from (x, y).
SnakeDown(x, y, r) ==
    Longest({k \in Positions(xs) : /\ x + k < r.xlim /\ y + k < r.ylim
                                   /\ xs[x + k + 1] = ys[y + k + 1]})
SnakeUp(x, y, r) ==
    Longest({k \in Positions(xs) : /\ x - k > r.xoff /\ y - k > r.yoff
                                   /\ xs[x - k] = ys[y - k]})

\* A range without the equal lines at its two ends.
Trimmed(r) ==
    LET n == SnakeDown(r.xoff, r.yoff, r)
        t == [r EXCEPT !.xoff = @ + n, !.yoff = @ + n]
        m == SnakeUp(t.xlim, t.ylim, t)
    IN [t EXCEPT !.xlim = @ - m, !.ylim = @ - m]

\* One call: only insertions or deletions are left, or the range is split.
compare ==
    LET r == Trimmed(Head(todo)) IN
    /\ pc = "compare" /\ todo # << >> /\ UNCHANGED <<fixed, capped, hunks>>
    /\ \/ /\ r.xoff = r.xlim
          /\ ins' = ins \cup {differ.yIdx[j + 1] : j \in r.yoff..(r.ylim - 1)}
          /\ todo' = Tail(todo) /\ UNCHANGED <<pc, del, srch, fd, bd>>
       \/ /\ r.xoff # r.xlim /\ r.yoff = r.ylim
          /\ del' = del \cup {differ.xIdx[i + 1] : i \in r.xoff..(r.xlim - 1)}
          /\ todo' = Tail(todo) /\ UNCHANGED <<pc, ins, srch, fd, bd>>
       \/ /\ r.xoff # r.xlim /\ r.yoff # r.ylim
          /\ todo' = <<r>> \o Tail(todo) /\ pc' = "forward"
          /\ LET fmid == r.xoff - r.yoff
                 bmid == r.xlim - r.ylim IN
             /\ srch' = [c |-> 1, fmin |-> fmid, fmax |-> fmid, bmin |-> bmid, bmax |-> bmid]
             /\ fd' = [fd EXCEPT ![fmid] = r.xoff] /\ bd' = [bd EXCEPT ![bmid] = r.xlim]
          /\ UNCHANGED <<del, ins>>

\* split has returned: its two halves come next.
SplitAt(x, y, loMin, hiMin) ==
    LET r == Head(todo) IN
    /\ todo' = <<Call(r.xoff, x, r.yoff, y, loMin), Call(x, r.xlim, y, r.ylim, hiMin)>>
               \o Tail(todo)
    /\ pc' = "compare" /\ srch' = NoSearch

odd == (Head(todo).xoff - Head(todo).yoff - Head(todo).xlim + Head(todo).ylim) % 2 # 0

\* The valid diagonals, and the active ones of a search.
dmin == Head(todo).xoff - Head(todo).ylim
dmax == Head(todo).xlim - Head(todo).yoff
Active(min, max) == {k \in min..max : (max - k) % 2 = 0}

\* One more edit: the active diagonals grow by one at each end that is inside the
\* valid ones, where a sentinel is put beyond it, and shrink at any other.
Wider(min, max) == <<IF min > dmin THEN min - 1 ELSE min + 1,
                     IF max < dmax THEN max + 1 ELSE max - 1>>
Sentinels(d, min, max, none) ==
    [k \in DOMAIN d |-> IF \/ min > dmin /\ k = min - 2
                           \/ max < dmax /\ k = max + 2 THEN none ELSE d[k]]

\* Mutant: the equal lines after a step are not followed.
ForwardsStep(d, k) == IF d[k - 1] < d[k + 1] THEN d[k + 1] ELSE d[k - 1] + 1

\* The furthest x on diagonal k: a step from a neighbour, then a snake.
Forwards(d, k) ==
    LET x == IF d[k - 1] < d[k + 1] THEN d[k + 1] ELSE d[k - 1] + 1
    IN x + SnakeDown(x, x - k, Head(todo))
Backwards(d, k) ==
    LET x == IF d[k - 1] < d[k + 1] THEN d[k - 1] ELSE d[k + 1] - 1
    IN x - SnakeUp(x, x - k, Head(todo))

\* The sweep over the diagonals of furthest goes from the highest one down and
\* stops at the first hit.
Swept(d, furthest, hits) ==
    [k \in DOMAIN d |-> IF k \in DOMAIN furthest /\ (hits = {} \/ k >= Max(hits))
                        THEN furthest[k] ELSE d[k]]

\* The forward search; an overlap with the backward one ends the split.
forward ==
    LET w == Wider(srch.fmin, srch.fmax)
        d == Sentinels(fd, srch.fmin, srch.fmax, -1)
        ks == Active(w[1], w[2])
        hits == {k \in ks : odd /\ k \in srch.bmin..srch.bmax /\ bd[k] <= Forwards(d, k)} IN
    /\ pc = "forward" /\ fd' = Swept(d, [k \in ks |-> Forwards(d, k)], hits)
    /\ UNCHANGED <<fixed, del, ins, bd, capped, hunks>>
    /\ \/ /\ hits # {}
          /\ LET k == Max(hits) IN SplitAt(Forwards(d, k), Forwards(d, k) - k, TRUE, TRUE)
       \/ /\ hits = {} /\ pc' = "backward"
          /\ srch' = [srch EXCEPT !.fmin = w[1], !.fmax = w[2]] /\ UNCHANGED todo

\* Mutant: the furthest point of the backward search is not clamped.
BackwardXRaw(d, k) == d[k]

\* The furthest point that a search reached, kept inside the range: the diagonal
\* whose x + y is best, the highest one of several.
ForwardX(k) == LET r == Head(todo)
                   x == Min({fd[k], r.xlim}) IN IF r.ylim < x - k THEN r.ylim + k ELSE x
BackwardX(d, k) == LET r == Head(todo)
                       x == Max({r.xoff, d[k]}) IN IF x - k < r.yoff THEN r.yoff + k ELSE x
fBest == LET ks == Active(srch.fmin, srch.fmax)
             best == Max({2 * ForwardX(k) - k : k \in ks})
         IN Max({k \in ks : 2 * ForwardX(k) - k = best})
bBest(d, ks) == LET best == Min({2 * BackwardX(d, k) - k : k \in ks})
                IN Max({k \in ks : 2 * BackwardX(d, k) - k = best})

\* Too expensive: split at whichever search got further.
Capped(d, ks) ==
    LET r == Head(todo)
        f == fBest
        g == bBest(d, ks)
        fx == ForwardX(f)
        bx == BackwardX(d, g) IN
    IF r.xlim + r.ylim - (2 * bx - g) < (2 * fx - f) - (r.xoff + r.yoff)
    THEN SplitAt(fx, fx - f, TRUE, FALSE)
    ELSE SplitAt(bx, bx - g, FALSE, TRUE)

\* The backward search, the cost cap, and the next round.
backward ==
    LET w == Wider(srch.bmin, srch.bmax)
        d == Sentinels(bd, srch.bmin, srch.bmax, MaxInt)
        ks == Active(w[1], w[2])
        hits == {k \in ks : ~odd /\ k \in srch.fmin..srch.fmax /\ Backwards(d, k) <= fd[k]}
        goOn == Head(todo).minimal \/ srch.c < tooExpensive IN
    /\ pc = "backward" /\ bd' = Swept(d, [k \in ks |-> Backwards(d, k)], hits)
    /\ UNCHANGED <<fixed, del, ins, fd, hunks>>
    /\ \/ /\ hits # {} /\ UNCHANGED capped
          /\ LET k == Max(hits) IN SplitAt(Backwards(d, k), Backwards(d, k) - k, TRUE, TRUE)
       \/ /\ hits = {} /\ goOn /\ pc' = "forward"
          /\ srch' = [c |-> srch.c + 1, fmin |-> srch.fmin, fmax |-> srch.fmax,
                      bmin |-> w[1], bmax |-> w[2]]
          /\ UNCHANGED <<todo, capped>>
       \/ hits = {} /\ ~goOn /\ capped' = TRUE /\ Capped(bd', ks)

-----------------------------------------------------------------------------
(* diffOps and renderHunks. *)

\* The script, in order: within a run of changes deletions come first.
diffOps ==
    LET ops[i \in 0..Len(a), j \in 0..Len(b)] ==
          CASE i \in del -> <<[kind |-> "-", line |-> a[i + 1]]>> \o ops[i + 1, j]
            [] i \notin del /\ j \in ins -> <<[kind |-> "+", line |-> b[j + 1]]>> \o ops[i, j + 1]
            [] i \notin del /\ j \notin ins /\ i = Len(a) /\ j = Len(b) -> << >>
            [] OTHER -> <<[kind |-> " ", line |-> a[i + 1]]>> \o ops[i + 1, j + 1]
    IN ops[0, 0]

\* The lines of one side among ops (the side's lines do not have kind `other').
SideLines(ops, other) ==
    LET kept == SelectSeq(ops, LAMBDA o : o.kind # other)
    IN [i \in DOMAIN kept |-> kept[i].line]

\* Mutant: the first line of an empty side is not moved back.
HeaderPlain(before, count) == before + 1

\* The number in a header: the first line shown, or the one before an empty side.
Header(before, count) == IF count = 0 THEN before ELSE before + 1

\* The hunk of the changes from op h to op last (positions count from 1).
HunkAt(ops, h, last) ==
    LET start == Max({1, h - contextLines})
        end == Min({Len(ops), last + contextLines})
        shown == SubSeq(ops, start, end)
        side(other) == [before |-> Len(SideLines(SubSeq(ops, 1, start - 1), other)),
                        count |-> Len(SideLines(shown, other))]
    IN [aStart |-> Header(side("+").before, side("+").count), aCount |-> side("+").count,
        bStart |-> Header(side("-").before, side("-").count), bCount |-> side("-").count,
        ops |-> shown]

\* Changes with twice the context, or more, of equal lines between them are in two
\* hunks (the code compares positions, which differ by one more than that).
HunksOf(ops) ==
    LET changed == {i \in DOMAIN ops : ops[i].kind # " "}
        heads == {i \in changed : \A j \in changed : j < i => i - j > 2 * contextLines}
        last(h) == Max({i \in changed : i >= h /\ \A g \in heads : g > h => i < g})
        order == SelectSeq([i \in DOMAIN ops |-> i], LAMBDA i : i \in heads)
    IN [n \in DOMAIN order |-> HunkAt(ops, order[n], last(order[n]))]

\* Unified, once compare has returned.
renderHunks ==
    /\ pc = "compare" /\ todo = << >> /\ pc' = "done" /\ hunks' = HunksOf(diffOps)
    /\ UNCHANGED <<fixed, del, ins, todo, srch, fd, bd, capped>>

-----------------------------------------------------------------------------

DiffInit ==
    /\ a \in BoundedSeq(Lines, MaxLen) /\ b \in BoundedSeq(Lines, MaxLen)
    /\ tooExpensive \in CostCaps
    /\ pc = "changes" /\ differ = [x |-> << >>, y |-> << >>, xIdx |-> << >>, yIdx |-> << >>]
    /\ del = {} /\ ins = {} /\ todo = << >> /\ srch = NoSearch
    /\ fd = << >> /\ bd = << >> /\ capped = FALSE /\ hunks = << >>

DiffNext == Changes \/ compare \/ forward \/ backward \/ renderHunks

DiffSpec == DiffInit /\ [][DiffNext]_diffVars

-----------------------------------------------------------------------------
(* Properties. *)

Searched == pc = "compare" /\ todo = << >>

\* The marks are an edit script: the lines of a that stay and the lines of b that
\* were there are the same, in the same order.  diffOpsCap pairs them by position
\* ("the alignment is order-preserving"), wherever a split or the cap cut.
ScriptCorrect ==
    Searched => At(a, Positions(a) \ del) = At(b, Positions(b) \ ins)

\* The edits between two ranges of xs and ys, by the textbook recurrence.
Distance(r) ==
    LET d[i \in r.xoff..r.xlim, j \in r.yoff..r.ylim] ==
          CASE i = r.xlim -> r.ylim - j
            [] i # r.xlim /\ j = r.ylim -> r.xlim - i
            [] OTHER -> IF xs[i + 1] = ys[j + 1] THEN d[i + 1, j + 1]
                        ELSE 1 + Min({d[i + 1, j], d[i, j + 1]})
    IN d[r.xoff, r.yoff]

\* split finds "a point on a shortest edit path": as long as no split was capped,
\* the edits marked plus the shortest scripts of the ranges to come are the
\* shortest script of the whole, although all splits share fd and bd.
OnShortestPath ==
    pc = "compare" /\ ~capped =>
        Cardinality(del) + Cardinality(ins)
            + FoldSeq(LAMBDA r, n : Distance(r) + n, 0, todo)
        = Cardinality(Middle(a) \ Shared(a, b)) + Cardinality(Middle(b) \ Shared(b, a))
            + Distance(Call(0, Len(xs), 0, Len(ys), FALSE))

Size(r) == r.xlim - r.xoff + r.ylim - r.yoff

\* compare's recursion ends for every input and every cap: a search meets, or is
\* cut, within as many rounds as its range has lines, and the two halves of a split
\* are smaller than what was split, the halves of a capped one included.
SplitShrinks ==
    [][srch # NoSearch =>
        IF pc' = "compare" THEN \A i \in 1..2 : Size(todo'[i]) \in 0..(Size(Head(todo)) - 1)
        ELSE srch'.c <= Size(Head(todo))]_diffVars

First(start, count) == IF count = 0 THEN start + 1 ELSE start

\* The hunks of renderHunks are a patch: each shows the lines that its header
\* names on both sides, the lines between two hunks are equal on both sides, so
\* applying the hunks to a gives b; there are none exactly when a equals b.
HunksApply ==
    LET aFrom(n) == First(hunks[n].aStart, hunks[n].aCount)
        bFrom(n) == First(hunks[n].bStart, hunks[n].bCount)
        aTo(n) == aFrom(n) + hunks[n].aCount
        bTo(n) == bFrom(n) + hunks[n].bCount
        N == Len(hunks) IN
    pc = "done" =>
        /\ hunks = << >> <=> a = b
        /\ \A n \in 1..N :
            /\ aTo(n) <= Len(a) + 1 /\ bTo(n) <= Len(b) + 1
            /\ SideLines(hunks[n].ops, "+") = SubSeq(a, aFrom(n), aTo(n) - 1)
            /\ SideLines(hunks[n].ops, "-") = SubSeq(b, bFrom(n), bTo(n) - 1)
            /\ n < N => /\ aTo(n) <= aFrom(n + 1)
                        /\ SubSeq(a, aTo(n), aFrom(n + 1) - 1) = SubSeq(b, bTo(n), bFrom(n + 1) - 1)
        /\ N > 0 => /\ SubSeq(a, 1, aFrom(1) - 1) = SubSeq(b, 1, bFrom(1) - 1)
                    /\ SubSeq(a, aTo(N), Len(a)) = SubSeq(b, bTo(N), Len(b))
=============================================================================
