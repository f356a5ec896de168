----------------------------- MODULE Continuum -----------------------------
(***************************************************************************)
(* The continuum spline: where its knots are put (anchors_from_intervals)  *)
(* and which of its ordinates its value at a point is computed from        *)
(* (AkimaSpline).                                                          *)
(*                                                                         *)
(* Wavelengths are integers.  Knots are placed in half units, because the  *)
(* data end half a pixel below the first and the last centre.  The ends a  *)
(* step comes to are exact here; that in the code they are not is what     *)
(* makes two of them fall close together, as two intervals also do.        *)
(***************************************************************************)
EXTENDS Lists, FiniteSetsExt, SequencesExt

-----------------------------------------------------------------------------
(* anchors_from_intervals, in half units.                                  *)

Distance(a, b) == IF a < b THEN b - a ELSE a - b

\* Lower boundary of the lowest and of the highest pixel: half of the first
\* and of the last step below the centre.
LowestEdge(lam) ==
    2 * Min(ToSet(lam)) - IF Len(lam) < 2 THEN 0 ELSE Distance(lam[1], lam[2])
HighestEdge(lam) ==
    2 * Max(ToSet(lam)) - IF Len(lam) < 2 THEN 0 ELSE Distance(lam[Len(lam) - 1], lam[Len(lam)])

\* The boundary anchors lie one Angstrom outside.
Boundaries(lam, angstrom) ==
    {LowestEdge(lam) - 2 * angstrom, HighestEdge(lam) + 2 * angstrom}

\* The anchors an interval <<lo, hi, step>> asks for, its end among them.
Stepped(iv) == {2 * x : x \in {y \in iv[1]..iv[2] : (y - iv[1]) % iv[3] = 0} \cup {iv[2]}}

\* All candidates: the user's are clipped to two Angstroms around the data.
Candidates(lam, intervals, angstrom) ==
    Boundaries(lam, angstrom) \cup
    {x \in UNION {Stepped(iv) : iv \in intervals} :
        /\ x >= LowestEdge(lam) - 4 * angstrom
        /\ x <= HighestEdge(lam) + 4 * angstrom}

\* Half of the finest bin; the relative floor lies below the unit.
MergeWidth(lam) ==
    LET bins == {Distance(lam[i - 1], lam[i]) : i \in 2..Len(lam)} \ {0}
    IN  IF bins = {} THEN 0 ELSE Min(bins)

\* std::unique with a tolerance: each candidate is held against the last one kept.
Merged(xs, width) ==
    LET kept[i \in 0..Len(xs)] ==
            IF i = 0 THEN <<>>
            ELSE IF kept[i - 1] # <<>> /\ xs[i] - Last(kept[i - 1]) <= width
            THEN kept[i - 1] ELSE Append(kept[i - 1], xs[i])
    IN  kept[Len(xs)]

\* The knots; nothing where the code throws.
Anchors(lam, intervals, angstrom) ==
    LET knots == Merged(Ascending(Candidates(lam, intervals, angstrom)), MergeWidth(lam))
        refused == \E iv \in intervals : iv[3] <= 0 \/ iv[2] < iv[1]
    IN  IF refused \/ Len(knots) < 2 THEN <<>> ELSE knots

-----------------------------------------------------------------------------
(* AkimaSpline over n knots, counted from 0.  The classical variant is in  *)
(* the code; makima, the default, weights the same secants otherwise.      *)

\* Ordinates a secant is computed from; two virtual ones lie beyond each end,
\* extrapolated from the two next to it.
SecantNeeds(i, n) ==
    IF n = 2 THEN {0, 1}
    ELSE CASE i < 0 -> 0..2
           [] i > n - 2 -> (n - 3)..(n - 1)
           [] OTHER -> {i, i + 1}

\* Ordinates the cubic on interval i is computed from: slopes at both its ends,
\* each of the four secants around it.
IntervalNeeds(i, n) ==
    IF n = 1 THEN {0} ELSE {i} \cup UNION {SecantNeeds(s, n) : s \in (i - 2)..(i + 2)}

\* The left knot of the interval of x, by binary search.
SplineInterval(xs, x) ==
    Min({Max({Cardinality({k \in 1..Len(xs) : xs[k] <= x}) - 1, 0}), Len(xs) - 2})

\* Ordinates the spline's value at x is computed from: off the range it is
\* continued with the slope of its last interval.
OrdinatesAt(xs, x) ==
    IF Len(xs) = 1 THEN {0} ELSE IntervalNeeds(SplineInterval(xs, x), Len(xs))
=============================================================================
