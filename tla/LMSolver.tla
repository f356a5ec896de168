------------------------------ MODULE LMSolver ------------------------------
(***************************************************************************)
(* levenberg_marquardt (SimpleLM.hpp): one call, from the first evaluation *)
(* to the errors it reports.  The numbers are abstracted to what the       *)
(* control of the iteration asks of them.  A landscape gives chi2 and the  *)
(* sign of each parameter's gradient at every point of the box, 0 where    *)
(* the gradient test passes; what step the damped equations yield there,   *)
(* how small it is and what reduction it predicts is left open.  The       *)
(* caller clamps the starting point into the box                           *)
(* (UnifiedFitWorkflow.cpp:522-524).                                       *)
(*                                                                         *)
(* Residuals, Jacobian and normal equations are kept as the points they    *)
(* were evaluated at, since what can go wrong is that they belong to       *)
(* different ones.  An action is one iteration, named for how it ends.     *)
(***************************************************************************)
EXTENDS Integers, Sequences

CONSTANTS
    Param,
    Steps,          \* a parameter lies at 0..Steps, its bounds being 0 and Steps
    NaN,            \* chi2 where the model is not a number
    Landscapes,     \* the problems: [chi2 |-> ..., slope |-> ...]
    MaxIterations,  \* LMSolverOptions::max_iterations
    MaxRejects,     \* ... max_consecutive_rejects
    FlatSteps,      \* ... chi2_abs_steps
    AbsTol,         \* ... chi2_abs_tolerance
    MaxBackoffs     \* kLMMaxLambdaBackoffs

Point == [Param -> 0..Steps]

Landscape == [chi2 : [Point -> Nat \cup {NaN}], slope : [Point -> [Param -> {-1, 0, 1}]]]

ASSUME SolverAssumption ==
    /\ Steps \in Nat \ {0} /\ NaN \notin Int
    /\ Landscapes \subseteq Landscape
    /\ MaxIterations \in Nat /\ MaxRejects \in Nat \ {0} /\ FlatSteps \in Nat \ {0}
    /\ AbsTol \in Nat /\ MaxBackoffs \in Nat

VARIABLES
    land, mask,            \* the landscape and the set of free parameters
    x, resid, jacobian, chi2,  \* the parameters; where r and J were evaluated; r's norm
    normal, stale,         \* <<J, r>> the normal equations are from; jacobian_is_stale
    iterations,
    rejects, flat, lastGain, moved, backoffs,  \* consecutive_rejects, flat_steps,
                           \* last_gain, accepted_any, lambda_backoffs
    state, converged, aborted,
    final, errors,         \* final_chi2; <<J, r>> the uncertainties are from
    why,                   \* history: how the iteration ended
    trail                  \* history: gain and predicted gain of accepted steps

problem == <<land, mask>>
position == <<x, resid, jacobian, chi2>>
normals == <<normal, stale>>
counters == <<rejects, flat, lastGain, moved, backoffs>>
result == <<state, converged, aborted, final, errors, why>>
solverVars == <<problem, position, normals, iterations, counters, result, trail>>

Reasons == {"none", "nothing free", "cancelled", "gradient", "numeric", "step",
            "predicted", "flat", "stalled", "budget"}

\* Every variable keeps its type, and no counter passes its limit.
SolverTypeOK ==
    /\ land \in Landscapes /\ mask \in SUBSET Param
    /\ x \in Point /\ resid \in Point /\ jacobian \in Point /\ chi2 \in Nat \cup {NaN}
    /\ normal \in Point \X Point /\ stale \in BOOLEAN
    /\ iterations \in 0..MaxIterations
    /\ rejects \in 0..MaxRejects /\ flat \in 0..FlatSteps
    /\ lastGain \in Nat \cup {NaN} /\ moved \in BOOLEAN /\ backoffs \in 0..MaxBackoffs
    /\ state \in {"entry", "loop", "done", "thrown"}
    /\ converged \in BOOLEAN /\ aborted \in BOOLEAN
    /\ final \in Nat \cup {NaN} /\ errors \in Point \X Point /\ why \in Reasons
    /\ trail \in Seq([gain : Nat, small : BOOLEAN])

-----------------------------------------------------------------------------
SolverInit ==
    /\ land \in Landscapes /\ mask \in SUBSET Param /\ x \in Point
    /\ resid = x /\ jacobian = x /\ chi2 = 0
    /\ normal = <<x, x>> /\ stale = TRUE
    /\ iterations = 0 /\ rejects = 0 /\ flat = 0 /\ lastGain = NaN
    /\ moved = FALSE /\ backoffs = 0
    /\ state = "entry" /\ converged = FALSE /\ aborted = FALSE
    /\ final = 0 /\ errors = <<x, x>> /\ why = "none" /\ trail = <<>>

\* n_free == 0: success, with a chi2 of 0, before anything is evaluated.
NothingFree ==
    /\ state = "entry" /\ mask = {}
    /\ state' = "done" /\ converged' = TRUE /\ why' = "nothing free"
    /\ UNCHANGED <<problem, position, normals, iterations, counters, aborted, final, errors, trail>>

FirstEvaluation ==
    /\ state = "entry" /\ mask # {}
    /\ resid' = x /\ jacobian' = x /\ chi2' = land.chi2[x]
    /\ state' = "loop"
    /\ UNCHANGED <<problem, x, normals, iterations, counters, converged, aborted, final, errors, why, trail>>

\* The end of the call: chi2 as it stands, errors from J and r as they stand.
Finish(ok, reason) ==
    /\ state' = "done" /\ converged' = ok /\ why' = reason
    /\ final' = chi2' /\ errors' = <<jacobian', resid'>>

GoOn == UNCHANGED <<state, converged, final, errors, why>>

Iterate == state = "loop" /\ iterations < MaxIterations /\ iterations' = iterations + 1

Exhausted ==
    /\ state = "loop" /\ iterations = MaxIterations
    /\ UNCHANGED <<problem, position, normals, iterations, counters, aborted, trail>>
    /\ Finish(FALSE, "budget")

\* iteration_callback returns false.
Cancelled ==
    /\ Iterate
    /\ aborted' = TRUE
    /\ UNCHANGED <<problem, position, normals, counters, trail>>
    /\ Finish(FALSE, "cancelled")

-----------------------------------------------------------------------------
\* The normal equations this iteration uses: those at hand unless stale.
Equations == IF stale THEN <<jacobian, resid>> ELSE normal

Slope == land.slope[Equations[1]]

\* On a bound, with the descent direction out of the box.
Active(j) == \/ x[j] = 0 /\ Slope[j] = 1
             \/ x[j] = Steps /\ Slope[j] = -1

\* cos_max < gradient_tolerance; it stays 0 if chi2 is 0 or not a number.
GradientSmall ==
    \/ chi2 \in {0, NaN}
    \/ \A j \in mask : Active(j) \/ Slope[j] = 0

\* Where the projected step can lead: active and frozen parameters stay.
Targets == { y \in Point : \A j \in Param : j \notin mask \/ Active(j) => y[j] = x[j] }

\* Mutant of Better: a step that leaves chi2 as it is counts as a gain.
NoWorse(y) == land.chi2[y] # NaN /\ land.chi2[y] <= chi2

\* rho > 0 and chi2_try < chi2, false if the candidate is not a number.
Better(y) == land.chi2[y] # NaN /\ land.chi2[y] < chi2

Gain(y) == chi2 - land.chi2[y]

Rebuild == normal' = Equations /\ stale' = FALSE

\* Past the gradient test, for the iterations that keep their point.
Stays ==
    /\ Iterate /\ ~GradientSmall /\ Rebuild
    /\ UNCHANGED <<problem, position, aborted, trail>>

GradientStop ==
    /\ Iterate /\ GradientSmall /\ Rebuild
    /\ UNCHANGED <<problem, position, counters, aborted, trail>>
    /\ Finish(TRUE, "gradient")

\* The step is not finite.
NumericStop == Stays /\ UNCHANGED counters /\ Finish(FALSE, "numeric")

\* The step is below step_tolerance: before anything was accepted that is blamed
\* on the damping, which is lowered and the equations solved again ...
BackOff ==
    /\ Stays /\ ~moved /\ backoffs < MaxBackoffs
    /\ backoffs' = backoffs + 1
    /\ UNCHANGED <<rejects, flat, lastGain, moved>> /\ GoOn

\* ... and afterwards, or when that did not help, it is convergence.
StepStop ==
    /\ Stays /\ (moved \/ backoffs = MaxBackoffs)
    /\ UNCHANGED counters /\ Finish(TRUE, "step")

\* Mutant of Move: the normal equations of the old point stay in use.
MoveWithOldEquations(y, small) ==
    /\ Iterate /\ ~GradientSmall /\ y \in Targets /\ Better(y)
    /\ x' = y /\ resid' = y /\ jacobian' = y /\ chi2' = land.chi2[y]
    /\ normal' = Equations /\ stale' = FALSE
    /\ rejects' = 0 /\ moved' = TRUE
    /\ trail' = Append(trail, [gain |-> Gain(y), small |-> small])
    /\ UNCHANGED <<problem, backoffs, aborted>>

\* Mutant of Move: a parameter held at its bound takes part in the step.
MoveUnheld(y, small) ==
    /\ Iterate /\ ~GradientSmall /\ y \in Point /\ Better(y)
    /\ \A j \in Param \ mask : y[j] = x[j]
    /\ x' = y /\ resid' = y /\ jacobian' = y /\ chi2' = land.chi2[y]
    /\ normal' = Equations /\ stale' = TRUE
    /\ rejects' = 0 /\ moved' = TRUE
    /\ trail' = Append(trail, [gain |-> Gain(y), small |-> small])
    /\ UNCHANGED <<problem, backoffs, aborted>>

\* An accepted step, with the Jacobian evaluated where it leads.
Move(y, small) ==
    /\ Iterate /\ ~GradientSmall /\ y \in Targets /\ Better(y)
    /\ x' = y /\ resid' = y /\ jacobian' = y /\ chi2' = land.chi2[y]
    /\ normal' = Equations /\ stale' = TRUE
    /\ rejects' = 0 /\ moved' = TRUE
    /\ trail' = Append(trail, [gain |-> Gain(y), small |-> small])
    /\ UNCHANGED <<problem, backoffs, aborted>>

\* The predicted reduction is negligible: converged (whatever it gained).
AcceptLast(y, small) ==
    /\ Move(y, small)
    /\ UNCHANGED <<flat, lastGain>> /\ Finish(TRUE, "predicted")

\* Actual and predicted gain are below the absolute floor.
AcceptFlat(y) ==
    /\ Move(y, TRUE) /\ Gain(y) < AbsTol
    /\ flat' = flat + 1 /\ lastGain' = Gain(y)
    /\ IF flat' >= FlatSteps THEN Finish(TRUE, "flat") ELSE GoOn

\* Mutant of Accept: a step that is not flat does not end the series.
AcceptKeepingFlat(y, small) ==
    /\ Move(y, small) /\ ~(small /\ Gain(y) < AbsTol)
    /\ lastGain' = Gain(y) /\ UNCHANGED flat /\ GoOn

Accept(y, small) ==
    /\ Move(y, small) /\ ~(small /\ Gain(y) < AbsTol)
    /\ flat' = 0 /\ lastGain' = Gain(y) /\ GoOn

\* Mutant of Reject: gives up one rejection late.
RejectLate(y) ==
    /\ Stays /\ y \in Targets /\ ~Better(y)
    /\ rejects' = rejects + 1
    /\ UNCHANGED <<flat, lastGain, moved, backoffs>>
    /\ IF rejects' > MaxRejects THEN Finish(moved /\ lastGain < AbsTol, "stalled") ELSE GoOn

\* A step that gains nothing: more damping, until there have been too many.
\* That is convergence if the last step taken gained next to nothing.
Reject(y) ==
    /\ Stays /\ y \in Targets /\ ~Better(y)
    /\ rejects' = rejects + 1
    /\ UNCHANGED <<flat, lastGain, moved, backoffs>>
    /\ IF rejects' >= MaxRejects THEN Finish(moved /\ lastGain < AbsTol, "stalled") ELSE GoOn

\* The cost function throws: on entry, at a candidate, or when the Jacobian of a
\* point already moved to is evaluated.
ThrowOnEntry ==
    /\ state = "entry" /\ mask # {} /\ state' = "thrown"
    /\ UNCHANGED <<problem, position, normals, iterations, counters,
                   converged, aborted, final, errors, why, trail>>

ThrowAtCandidate ==
    /\ Stays /\ state' = "thrown"
    /\ UNCHANGED <<counters, converged, final, errors, why>>

ThrowAtJacobian(y) ==
    /\ Iterate /\ ~GradientSmall /\ Rebuild
    /\ y \in Targets /\ Better(y) /\ x' = y /\ resid' = y /\ chi2' = land.chi2[y]
    /\ rejects' = 0 /\ moved' = TRUE /\ state' = "thrown"
    /\ UNCHANGED <<problem, jacobian, flat, lastGain, backoffs, converged, aborted,
                   final, errors, why, trail>>

SolverNext ==
    \/ NothingFree \/ FirstEvaluation \/ Exhausted \/ Cancelled
    \/ GradientStop \/ NumericStop \/ BackOff \/ StepStop
    \/ ThrowOnEntry \/ ThrowAtCandidate
    \/ \E y \in Point : \/ Reject(y) \/ AcceptFlat(y) \/ ThrowAtJacobian(y)
                        \/ \E small \in BOOLEAN : AcceptLast(y, small) \/ Accept(y, small)

SolverSpec == SolverInit /\ [][SolverNext]_solverVars

-----------------------------------------------------------------------------
\* Inside the loop and in the report, residuals, Jacobian and chi2 are those of
\* the parameters, and the normal equations are too unless marked stale: after
\* any mixture of accepted, rejected and backed-off steps (the rebuild skipped at
\* SimpleLM.hpp:458-463 and the Jacobian deferred to acceptance at 657-663).
Coherent ==
    /\ state \in {"loop", "done"} /\ why # "nothing free" =>
           resid = x /\ jacobian = x /\ chi2 = land.chi2[x]
    /\ state = "loop" /\ ~stale => normal = <<x, x>>
    /\ state = "done" => errors = <<x, x>>

\* No step is left to the gradient at the parameters themselves.
Stationary ==
    \A j \in mask : \/ land.slope[x][j] = 0
                    \/ x[j] = 0 /\ land.slope[x][j] = 1
                    \/ x[j] = Steps /\ land.slope[x][j] = -1

Flat(i) == trail[i].small /\ trail[i].gain < AbsTol

\* Convergence is only claimed as the tests of the loop allow (SimpleLM.hpp:541-549,
\* 600-640, 712-747), although what they look at was written many iterations apart:
\* the gradient vanishes at the point reported, or chi2 does, or the caller's start
\* was not a number, a point the solver never moves to; or the last steps taken were
\* flat; or the last one gained next to nothing and MaxRejects in a row have failed
\* since; and a fit that never moved only converges by the gradient, or after the
\* damping was lowered as often as it may be (133-144).  Of the last gain and of the
\* start the header promises more: see ConvergesAsPromised.
StopsEarned ==
    state = "done" /\ converged /\ mask # {} =>
        /\ why = "gradient" => Stationary \/ chi2 = 0 \/ (chi2 = NaN /\ trail = <<>>)
        /\ why = "flat" =>
               /\ Len(trail) >= FlatSteps
               /\ \A i \in Len(trail) - FlatSteps + 1 .. Len(trail) : Flat(i)
        /\ why = "stalled" =>
               rejects = MaxRejects /\ trail # <<>> /\ trail[Len(trail)].gain < AbsTol
        /\ trail = <<>> => why = "gradient" \/ backoffs = MaxBackoffs

\* What the header says of "stalled" (SimpleLM.hpp:43-46): the last accepted step
\* was already flat, that is, improved chi2 by less than the tolerance in fact and
\* in prediction.  The code asks for the gain alone (743-747).
StalledOnFlatStep ==
    state = "done" /\ converged /\ why = "stalled" => trail # <<>> /\ Flat(Len(trail))

\* What the header says of the gradient test (SimpleLM.hpp:27-33, 513-515): it holds
\* for all free parameters.  Where chi2 is not a number the code looks at none
\* (531-541), and reports the start as converged.
GradientVanishes ==
    state = "done" /\ converged /\ why = "gradient" => Stationary \/ chi2 = 0

\* What the header promises of a call that converged.
ConvergesAsPromised == StalledOnFlatStep /\ GradientVanishes

\* A step leaves alone what is frozen and what its own gradient presses against a
\* bound (SimpleLM.hpp:52-60), the gradient being that of the point left.
HeldParameters ==
    [][\A j \in Param :
          \/ j \notin mask
          \/ x[j] = 0 /\ land.slope[x][j] = 1
          \/ x[j] = Steps /\ land.slope[x][j] = -1
          => x'[j] = x[j]]_solverVars

Contract == INSTANCE Descent WITH status <- IF state \in {"done", "thrown"} THEN state ELSE "running"

\* The solver is a descent within the box on the free parameters that reports the
\* chi2 and the errors of the point it leaves in x, however it ends.
ImplementsDescent == Contract!Spec
=============================================================================
