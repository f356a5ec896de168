------------------------------- MODULE Scans -------------------------------
(***************************************************************************)
(* The index searches of the convolution and resampling routines.  Each    *)
(* was a binary search per point and is now a cursor that walks with the   *)
(* points (compute_weights, compute_segments and the unrotated case of     *)
(* rotational_broaden, multiply_interp, trapezoidal_rebin, AkimaSpline);   *)
(* compute_segments moreover stores one row for all points of a grid that  *)
(* is uniform in ln(lambda), which is_log_uniform_cached remembers of a    *)
(* grid by a few of its numbers.                                           *)
(*                                                                         *)
(* Grids are sequences of integers, which stand for ln(lambda) where a     *)
(* rotation is applied, so that its taps lie at fixed distances; array     *)
(* indices count from 0.  A weight is kept as where it comes from: the     *)
(* input pixel, the tap, and its share of the interval the tap falls into. *)
(***************************************************************************)
EXTENDS Continuum

CONSTANTS
    Caller, NoJob, \* threads that broaden; one that does not
    InGrids,      \* ascending input grids
    OutGrids,     \* output points, in any order
    SameGrids,    \* grids broadened onto themselves
    HalfWidths,   \* vsini, in grid units: the taps are at -v..v
    MemoSize      \* grids is_log_uniform_cached remembers (64)

JobType == [in : Seq(Int), out : Seq(Int), v : Nat, uniform : {"unknown", "compute", "yes", "no"}]

\* Every scan and every search takes its grid to be ascending, though not strictly;
\* fewer than two points are sent back by rotational_broaden, and make_edges
\* reads two of its output.
ASSUME GridsAssumption ==
    /\ NoJob \notin JobType
    /\ \A l \in InGrids \cup SameGrids :
           l \in Seq(Int) /\ Len(l) >= 2 /\ \A i \in 2..Len(l) : l[i - 1] <= l[i]
    /\ \A out \in OutGrids : out \in Seq(Int) /\ Len(out) >= 2
    /\ HalfWidths \subseteq Nat \ {0}
    /\ MemoSize \in Nat \ {0}

VARIABLES
    memo,         \* known: what was found out about each grid
    job           \* the grids each thread broadens between, and whether it
                  \* takes the first for uniform

scanVars == <<memo, job>>

-----------------------------------------------------------------------------

Has(l, i) == i \in 0..(Len(l) - 1)
Pixel(l, i) == l[i + 1]
First(l) == l[1]
Final(l) == l[Len(l)]

\* std::lower_bound and std::upper_bound on an ascending grid.
LowerBound(l, x) == Cardinality({i \in 1..Len(l) : l[i] < x})
UpperBound(l, x) == Cardinality({i \in 1..Len(l) : l[i] <= x})

\* while (cur < n && l[cur] < x) ++cur, from cur = c.
Walk(l, c, x) == Min({i \in c..Len(l) : i = Len(l) \/ Pixel(l, i) >= x})

\* An interval has a pixel on either side.
Inside(l, j) == IF j = 0 THEN 1 ELSE IF j >= Len(l) THEN Len(l) - 1 ELSE j

-----------------------------------------------------------------------------
(* Rotation: the taps of one point.                                        *)

\* rot_profile vanishes at both ends: the outermost taps weigh nothing.
Taps(v) == (1 - v)..(v - 1)
TapsOn(l, x, v) == {k \in Taps(v) : x + k \in First(l)..Final(l)}

\* What tap k at position y puts on the two pixels of interval j, in units of
\* the interval; a share of nothing is not stored.
Shares(l, j, y, k) ==
    LET w == Pixel(l, j) - Pixel(l, j - 1)
    IN  {s \in {<<j - 1, k, Pixel(l, j) - y, w>>, <<j, k, y - Pixel(l, j - 1), w>>} : s[3] # 0}

\* compute_weights of point i of l: the first tap on the grid is looked up, the
\* later ones are walked to; without any, the point is its own.
Weights(l, i, v) ==
    LET x == Pixel(l, i)
        on == TapsOn(l, x, v)
        from == LowerBound(l, x + Min(on))
        at(k) == Inside(l, Walk(l, from, x + k))
    IN  IF on = {} THEN {<<i, v, 1, 1>>} ELSE UNION {Shares(l, at(k), x + k, k) : k \in on}

\* What each tap searched for on its own gives.
Searched(l, x, v) ==
    UNION {Shares(l, Inside(l, LowerBound(l, x + k)), x + k, k) : k \in TapsOn(l, x, v)}

\* fill_point, into a run that starts at pixel s.
FillPoint(l, x, s, v) ==
    LET on == TapsOn(l, x, v)
    IN  IF on = {} THEN {<<s, v, 1, 1>>}
        ELSE UNION {Shares(l, Inside(l, Walk(l, s + 1, x + k)), x + k, k) : k \in on}

-----------------------------------------------------------------------------
(* compute_segments, pass 1: the run of input pixels of each output point. *)

WindowFrom(l, x, v) == Max({x - v, First(l)})
WindowTo(l, x, v) == Min({x + v, Final(l)})

\* Mutant of Cursor: a window end that steps back is walked to like any other.
CursorForward(l, ends) ==
    LET c[i \in 0..Len(ends)] == IF i = 0 THEN 0 ELSE Walk(l, c[i - 1], ends[i]) IN c

\* Where the cursor of one window end stands at each point.
Cursor(l, ends) ==
    LET c[i \in 0..Len(ends)] ==
            CASE i = 0 -> 0
              [] i > 1 /\ ends[i] < ends[i - 1] -> LowerBound(l, ends[i])
              [] OTHER -> Walk(l, c[i - 1], ends[i])
    IN  c

\* start and length of the run of every output point, by its index.
Windows(l, out, v) ==
    LET a == Cursor(l, [i \in 1..Len(out) |-> WindowFrom(l, out[i], v)])
        b == Cursor(l, [i \in 1..Len(out) |-> WindowTo(l, out[i], v)])
    IN  [i \in 0..(Len(out) - 1) |->
            LET ja == Inside(l, a[i + 1])
                jb == Max({Inside(l, b[i + 1]), ja})
            IN  [start |-> ja - 1, length |-> jb - ja + 2]]

-----------------------------------------------------------------------------
(* compute_segments: the shift-invariant core.                             *)

\* is_log_uniform.
LogUniform(l) ==
    /\ Len(l) >= 3
    /\ \A i \in 2..Len(l) : l[i] > l[i - 1] /\ l[i] - l[i - 1] = l[2] - l[1]

\* What is_log_uniform_cached knows a grid by, and what it remembers.
ProbeOf(l) == <<Len(l), First(l), Final(l), Pixel(l, Len(l) \div 3), Pixel(l, (2 * Len(l)) \div 3)>>

Remembered(l) == \E i \in 1..Len(memo) : memo[i].probe = ProbeOf(l)
Recalled(l) == memo[Min({i \in 1..Len(memo) : memo[i].probe = ProbeOf(l)})].ok

\* The points around the middle whose windows look like its own.
CoreOf(w, n) ==
    LET mid == n \div 2
        alike(i) == w[i].length = w[mid].length /\ w[i].start - i = w[mid].start - mid
        low == Min({i \in 0..mid : \A k \in i..mid : alike(k)})
        high == Max({i \in mid..(n - 1) : \A k \in mid..i : alike(k)})
    IN  low..high

\* The points one row is kept for: most of a log-uniform grid, or none.
Core(l, out, v, uniform) ==
    LET c == CoreOf(Windows(l, out, v), Len(out))
    IN  IF out = l /\ uniform = "yes" /\ Cardinality(c) > Len(out) \div 2 THEN c ELSE {}

\* The row of the core, as its middle point has it, and slid to point i.
Slid(l, v, i) ==
    LET mid == Len(l) \div 2
        s == Windows(l, l, v)[mid].start
    IN  {<<e[1] + i - mid, e[2], e[3], e[4]>> : e \in FillPoint(l, Pixel(l, mid), s, v)}

-----------------------------------------------------------------------------
(* apply_segments: what is written to the output, and where.               *)

\* The points outside the core, in the order their runs are kept.
KeptRun(n, core, r) == IF core # {} /\ r >= Min(core) THEN r + Cardinality(core) ELSE r

\* The output point run r is written to.
OutputOf(core, r) ==
    IF core # {} /\ r >= Min(core) THEN r - Min(core) + Max(core) + 1 ELSE r

\* Every write of apply_segments: <<output point, its weights>>.
Applied(l, out, v, uniform) ==
    LET n == Len(out)
        w == Windows(l, out, v)
        core == Core(l, out, v, uniform)
        kept(r) == KeptRun(n, core, r)
    IN  [core |-> [i \in core |-> Slid(l, v, i)],
         runs |-> [r \in 0..(n - Cardinality(core) - 1) |->
                      [to |-> OutputOf(core, r),
                       window |-> w[kept(r)],
                       row |-> FillPoint(l, Pixel(out, kept(r)), w[kept(r)].start, v)]]]

-----------------------------------------------------------------------------
(* The other scans: the interval each output point is taken from.          *)

\* rotational_broaden with no rotation: the cursor starts in the first interval
\* and stops in the last one.
Unrotated(l, out) ==
    LET c[i \in 0..Len(out)] ==
            IF i = 0 THEN 1
            ELSE Min({j \in c[i - 1]..(Len(l) - 1) : j = Len(l) - 1 \/ Pixel(l, j) >= out[i]})
    IN  c

\* multiply_interp between the ends: the segment, by its left pixel.
Multiplied(l, out) ==
    LET c[i \in 0..Len(out)] ==
            IF i = 0 THEN 0
            ELSE IF out[i] <= First(l) \/ \E k \in 1..i : out[k] >= Final(l) THEN c[i - 1]
            ELSE Min({j \in c[i - 1]..(Len(l) - 2) : Pixel(l, j + 1) >= out[i]})
    IN  c

\* interp_linear: clamped to the edge before the input, and from the first point
\* that reaches its end on.
Interpolated(l, out) ==
    LET before(i) == \A k \in 1..i : out[k] <= First(l)
        behind(i) == \E k \in 1..i : out[k] >= Final(l)
        c[i \in 0..Len(out)] ==
            IF i = 0 \/ before(i) THEN 0
            ELSE IF behind(i) THEN c[i - 1]
            ELSE Min({j \in c[i - 1]..(Len(l) - 2) : Pixel(l, j + 1) >= out[i]})
    IN  c

\* make_edges: twice the pixel edges of a grid of at least two centres, with
\* those out of order pushed a little past the one before.
Edges(out, little) ==
    LET n == Len(out)
        e[i \in 0..n] ==
            LET at == little * (CASE i = 0 -> 3 * out[1] - out[2]
                                  [] i = n -> 3 * out[n] - out[n - 1]
                                  [] OTHER -> out[i] + out[i + 1])
            IN  IF i > 0 /\ at <= e[i - 1] THEN e[i - 1] + 1 ELSE at
    IN  e

\* trapezoidal_rebin: the ends it integrates to, in the order of its calls, cut
\* to the input; a bin that ends before it begins asks for none.
BinEnds(l, out, little) ==
    LET e == Edges(out, little)
        scaled(x) == 2 * little * x
        low(i) == Max({e[i - 1], scaled(First(l))})
        high(i) == Min({e[i], scaled(Final(l))})
        ends[i \in 0..Len(out)] ==
            IF i = 0 THEN <<>>
            ELSE ends[i - 1] \o IF high(i) <= low(i) THEN <<>> ELSE <<low(i), high(i)>>
    IN  ends[Len(out)]

\* integral_at between the ends: the cursor, which only moves forward.
Integrated(l, ends) ==
    LET c[i \in 0..Len(ends)] ==
            IF i = 0 THEN 0
            ELSE IF ends[i] <= First(l) \/ ends[i] >= Final(l) THEN c[i - 1]
            ELSE Walk(l, c[i - 1], ends[i])
    IN  c

\* Mutant of SplineScan: a point lower than the one before is walked to.
SplineScanForward(l, out) ==
    LET c[i \in 0..Len(out)] ==
            IF i = 0 THEN 0
            ELSE IF out[i] < First(l) \/ out[i] > Final(l) THEN c[i - 1]
            ELSE Min({j \in c[i - 1]..(Len(l) - 2) :
                         j = Len(l) - 2 \/ Pixel(l, j + 1) > out[i]})
    IN  [i \in 1..Len(out) |-> c[i]]

\* AkimaSpline at many: a point lower than the highest yet is searched for, and
\* the cursor of the others stays.  (For makima points off the range do not count
\* as highest, which lets more points be walked to, never from further on.)
SplineScan(l, out) ==
    LET highest(i) == Max({out[k] : k \in 1..i})
        c[i \in 0..Len(out)] ==
            IF i = 0 THEN 0
            ELSE IF (i > 1 /\ out[i] < highest(i - 1)) \/ out[i] < First(l) \/ out[i] > Final(l)
            THEN c[i - 1]
            ELSE Min({j \in c[i - 1]..(Len(l) - 2) :
                         j = Len(l) - 2 \/ Pixel(l, j + 1) > out[i]})
    IN  [i \in 1..Len(out) |->
            IF i > 1 /\ out[i] < highest(i - 1) THEN SplineInterval(l, out[i]) ELSE c[i]]

\* Resolution.cpp's compute_weights: the pixels within r of an output point.
Kernel(l, x, r) == LowerBound(l, x - r)..(Max({UpperBound(l, x + r), LowerBound(l, x - r)}) - 1)

-----------------------------------------------------------------------------
(* Calls.                                                                  *)

Job(l, out, v) == [in |-> l, out |-> out, v |-> v, uniform |-> "unknown"]

\* Broadening between two grids asks nothing of the memo: each such call is
\* looked at by itself.
ScansInit ==
    /\ memo = <<>>
    /\ \/ job = [t \in Caller |-> NoJob]
       \/ \E t \in Caller, l \in InGrids, out \in OutGrids, v \in HalfWidths :
              job = [[u \in Caller |-> NoJob] EXCEPT ![t] = Job(l, out, v)]

Verdict(l) == IF LogUniform(l) THEN "yes" ELSE "no"
Unsure(t) == job[t] # NoJob /\ job[t].uniform = "unknown"
Ready(t) == job[t] # NoJob /\ job[t].uniform \in {"yes", "no"}
Same(t) == job[t].in = job[t].out

\* A table for a grid onto itself is wanted.
Wants(t) ==
    /\ job[t] = NoJob /\ \A u \in Caller : job[u] # NoJob => Same(u)
    /\ \E l \in SameGrids, v \in HalfWidths : job' = [job EXCEPT ![t] = Job(l, l, v)]
    /\ UNCHANGED memo

Finds(t, u) == job' = [job EXCEPT ![t].uniform = u]

\* A grid of fewer than three points is never asked about.
Wonders(t) == Unsure(t) /\ Same(t) /\ Len(job[t].in) >= 3

\* The first critical section: the grid's probe is known, or it is not.
Recalls(t) ==
    /\ Wonders(t)
    /\ Finds(t, IF Remembered(job[t].in) THEN Recalled(job[t].in) ELSE "compute")
    /\ UNCHANGED memo

\* The second: several threads may have computed the same answer meanwhile, and
\* each records it.
Records(t) ==
    /\ job[t] # NoJob /\ job[t].uniform = "compute"
    /\ Finds(t, Verdict(job[t].in))
    /\ memo' = Append(IF Len(memo) >= MemoSize THEN Tail(memo) ELSE memo,
                      [probe |-> ProbeOf(job[t].in), ok |-> Verdict(job[t].in)])

Passes(t) == Unsure(t) /\ ~Wonders(t) /\ Finds(t, "no") /\ UNCHANGED memo

\* The table is built and applied.
Broadened(t) ==
    /\ Ready(t)
    /\ job' = [job EXCEPT ![t] = NoJob]
    /\ UNCHANGED memo

ScansNext == \E t \in Caller : Wants(t) \/ Recalls(t) \/ Records(t) \/ Passes(t) \/ Broadened(t)

ScansSpec == ScansInit /\ [][ScansNext]_scanVars

-----------------------------------------------------------------------------
(* Properties.                                                             *)

InOrder(out) == \A i \in 2..Len(out) : out[i - 1] <= out[i]

\* The point's row as the searches give it; where no tap is on the grid, any
\* pixel of it will do.
Correct(l, x, v, row) ==
    IF TapsOn(l, x, v) = {} THEN \A e \in row : Has(l, e[1])
                            ELSE row = Searched(l, x, v)

\* One use of the segments: every output point is written once, by the core or
\* by a run, with the weights its own taps have, out of pixels its run covers.
Broadens(l, out, v, uniform) ==
    LET a == Applied(l, out, v, uniform)
        R == DOMAIN a.runs
    IN  /\ {a.runs[r].to : r \in R} \cup DOMAIN a.core = 0..(Len(out) - 1)
        /\ Cardinality(R) + Cardinality(DOMAIN a.core) = Len(out)
        /\ \A i \in DOMAIN a.core : Correct(l, Pixel(out, i), v, a.core[i])
        /\ \A r \in R :
               LET u == a.runs[r]
               IN  /\ Correct(l, Pixel(out, u.to), v, u.row)
                   /\ \A e \in u.row : e[1] \in u.window.start..(u.window.start + u.window.length - 1)
                   /\ Has(l, u.window.start + u.window.length - 1)

\* The weight tables of the rotation are those the replaced searches gave
\* (RotationalConvolution.cpp: "the same index, so the same entries"), on one
\* grid and between any two, even with output points out of order.  The row all
\* points share stands for each of them, and the memo, which keeps to its size,
\* is wrong only about a grid whose probe a uniform one has.
TablesRight ==
    /\ Len(memo) <= MemoSize
    /\ \A t \in Caller : Ready(t) =>
           LET j == job[t]
           IN  /\ \/ Broadens(j.in, j.out, j.v, j.uniform)
                  \/ \E o \in InGrids \cup SameGrids :
                         o # j.in /\ LogUniform(o) /\ ProbeOf(o) = ProbeOf(j.in)
               /\ j.uniform = "yes" => Same(t)
               /\ Same(t) => \A i \in 0..(Len(j.in) - 1) :
                      Weights(j.in, i, j.v) = Searched(j.in, Pixel(j.in, i), j.v)

\* Knots lie further apart than the pixels resolve, or their columns of the
\* Jacobian blow up and stop every parameter of the fit (ContinuumUtils.cpp,
\* "Two knots the spline cannot tell apart"); yet no anchor is lost in a chain
\* of close ones: each has a knot it cannot be told apart from.
KnotsApart(lam, intervals, angstrom) ==
    LET knots == Anchors(lam, intervals, angstrom)
        width == MergeWidth(lam)
    IN  knots # <<>> =>
            /\ \A k \in 2..Len(knots) : knots[k] - knots[k - 1] > width
            /\ \A x \in Candidates(lam, intervals, angstrom) :
                   \E k \in 1..Len(knots) : Distance(x, knots[k]) <= width
            /\ knots[1] <= LowestEdge(lam) - 2 * angstrom

\* The other scans take each point from the interval a binary search finds, for
\* points in order; the splines' and the rebinning also for any others.  The
\* scan that merges a spline's knots keeps them apart, whatever two intervals
\* of anchors overlap (three output points stand for their ends).
ScansRight ==
    \A t \in Caller : Ready(t) =>
        LET l == job[t].in
            out == job[t].out
            finer == [i \in 1..Len(l) |-> 16 * l[i]]
            ends == BinEnds(l, out, 8)
            spline == SplineScan(l, out)
            bins == Integrated(finer, ends)
        IN  /\ Len(out) = 3 =>
                   KnotsApart(l, {<<out[1], out[2], job[t].v>>, <<out[3], out[3] + 1, 1>>}, 1)
            /\ \A i \in 1..Len(out) :
                   /\ out[i] \in First(l)..Final(l) => spline[i] = SplineInterval(l, out[i])
                   /\ Kernel(l, out[i], job[t].v) =
                          {j \in 0..(Len(l) - 1) : Pixel(l, j) \in (out[i] - job[t].v)..(out[i] + job[t].v)}
            /\ \A i \in 1..Len(ends) :
                   ends[i] > First(finer) /\ ends[i] < Final(finer) =>
                       bins[i] = LowerBound(finer, ends[i])
            /\ InOrder(out) =>
                   \A i \in 1..Len(out) :
                       /\ Unrotated(l, out)[i] = Inside(l, LowerBound(l, out[i]))
                       /\ out[i] > First(l) /\ out[i] < Final(l) =>
                              /\ Multiplied(l, out)[i] = LowerBound(l, out[i]) - 1
                              /\ Interpolated(l, out)[i] = LowerBound(l, out[i]) - 1
=============================================================================
