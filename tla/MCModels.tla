------------------------------ MODULE MCModels ------------------------------
(***************************************************************************)
(* Small instances of GridHoles and ModelCache: what a model is made of,   *)
(* and how fits share it.  They have no variable in common, so each is     *)
(* explored with the other at rest.  The fit on the other grid, f3, only   *)
(* evaluates at p1.                                                        *)
(***************************************************************************)
EXTENDS MCGridHoles, MCModelCache

VARIABLE running      \* which of the two moves

all == <<running, vars, mvars>>

MCInit ==
    /\ Init /\ ModelsInit
    /\ running \in {"holes", "models"}
    /\ running # "holes" => file = Tree({<<2, 2>>}, {})
    /\ at = [f \in Fit |-> p1]

MCNext ==
    \/ running = "holes" /\ Next /\ UNCHANGED <<running, mvars>>
    \/ running = "models" /\ ModelsNext /\ at'[f3] = p1 /\ UNCHANGED <<running, vars>>

MCSpec == MCInit /\ [][MCNext]_all /\ Fairness
=============================================================================
