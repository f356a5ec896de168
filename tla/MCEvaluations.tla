--------------------------- MODULE MCEvaluations ---------------------------
(***************************************************************************)
(* Small instances of LMSolver and of the CostJacobian it asks for         *)
(* residuals and Jacobian.  They have no variable in common, so each is    *)
(* explored with the other at rest.                                        *)
(***************************************************************************)
EXTENDS MCLMSolver, MCCostJacobian

VARIABLE running      \* which of the two moves

all == <<running, solverVars, vars>>

MCInit ==
    /\ SolverInit /\ Init
    /\ running \in {"solver", "cost"}
    /\ running # "solver" => land = Bowl /\ mask = {} /\ x = [j \in Param |-> 0]
    /\ running # "cost" => table = "rot" /\ limit = <<9, 9>> /\ free = {11}

MCNext ==
    \/ running = "solver" /\ SolverNext /\ UNCHANGED <<running, vars>>
    \/ running = "cost" /\ Next /\ UNCHANGED <<running, solverVars>>

MCSpec == MCInit /\ [][MCNext]_all /\ Fairness
=============================================================================
