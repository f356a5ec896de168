--------------------------- MODULE MCMemoryBudget ---------------------------
(***************************************************************************)
(* Small instances of MemoryBudget and of PressureValve.  They meet in     *)
(* scale_ alone, which MemoryBudget lets take any of its values at any     *)
(* time, so each is explored with the other at rest.                       *)
(***************************************************************************)
EXTENDS MemoryBudget

CONSTANTS Sampler, Interval, MaxStall, MinScale, Whole

VARIABLES
    running,      \* which of the two moves
    stamp, valve, free, pc, now, current, seen, loaded, extra

Valve == INSTANCE PressureValve WITH Reader <- Sampler, Full <- Whole, scale <- valve

valveVars == <<stamp, valve, free, pc, now, current, seen, loaded, extra>>
all == <<running, vars, valveVars>>

ASSUME ValveAssumed == Valve!ValveAssumption

MCInit ==
    /\ Init /\ Valve!Init
    /\ \/ running = "budget" /\ free = "between"
       \/ running = "valve" /\ explicit = 0

BudgetRuns == running = "budget" /\ Next /\ UNCHANGED <<running, valveVars>>
ValveRuns(A) == running = "valve" /\ A /\ UNCHANGED <<running, vars>>

MCNext == BudgetRuns \/ ValveRuns(Valve!Next)

\* The caches ask for the budget on every insertion, for as long as fits run.
Fairness ==
    /\ WF_all(ValveRuns(Valve!Tick))
    /\ \A r \in Sampler : WF_all(ValveRuns(Valve!Step(r)))

MCSpec == MCInit /\ [][MCNext]_all /\ Fairness

\* Both are typed; in particular the scale stays between kMinScale and one.
TypesOK == TypeOK /\ Valve!TypeOK

\* PressureValve's properties, of its instance here.
BurstBounded == Valve!BurstBounded
FollowsPressure == Valve!FollowsPressure
=============================================================================
