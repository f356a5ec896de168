------------------------------ MODULE Descent -------------------------------
(***************************************************************************)
(* What a stage of the fit expects of its solver, without damping, step    *)
(* tests or counters: it only ever moves to a better point, leaves every   *)
(* parameter that is not free alone, stays within the bounds, and reports  *)
(* the chi2 and the errors of the point it stopped at - unless the cost    *)
(* function throws, and then it reports nothing.                           *)
(***************************************************************************)
EXTENDS Integers

CONSTANTS Param, Steps, NaN, Landscapes

VARIABLES
    land, mask,   \* the problem: chi2 at every point, the free parameters
    x,            \* the parameters
    status,       \* "running", "done" or "thrown"
    final,        \* the chi2 reported
    errors        \* the points the errors' Jacobian and residuals belong to

vars == <<land, mask, x, status, final, errors>>

Point == [Param -> 0..Steps]

Better(y) == land.chi2[y] \in Int /\ land.chi2[x] \in Int /\ land.chi2[y] < land.chi2[x]

Init ==
    /\ land \in Landscapes /\ mask \in SUBSET Param /\ x \in Point
    /\ status = "running" /\ final = 0 /\ errors = <<x, x>>

\* To a better point, or no move at all.
Moves ==
    \/ x' = x
    \/ /\ x' \in Point /\ Better(x')
       /\ \A j \in Param \ mask : x'[j] = x[j]

Descend ==
    /\ status = "running" /\ Moves
    /\ UNCHANGED <<land, mask, status, final, errors>>

\* The last step and the report of it.  With nothing free nothing is evaluated
\* and the chi2 reported is 0.
Report ==
    /\ status = "running" /\ Moves /\ status' = "done"
    /\ IF mask = {} THEN UNCHANGED <<x, final, errors>>
                    ELSE final' = land.chi2[x'] /\ errors' = <<x', x'>>
    /\ UNCHANGED <<land, mask>>

Fail ==
    /\ status = "running" /\ Moves /\ status' = "thrown"
    /\ UNCHANGED <<land, mask, final, errors>>

Next == Descend \/ Report \/ Fail

Spec == Init /\ [][Next]_vars
=============================================================================
