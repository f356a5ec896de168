----------------------------- MODULE MCLMSolver ------------------------------
(***************************************************************************)
(* LMSolver on two parameters of three positions each.  Three landscapes:  *)
(* a bowl; a valley whose minimum is on a bound, which one parameter's     *)
(* gradient keeps pressing against; and a slope with a point where the     *)
(* model is not a number (its gradient passes no test and leans on no      *)
(* bound) and gradients that do not belong to it, as finite differences    *)
(* give.                                                                   *)
(***************************************************************************)
EXTENDS LMSolver, TLC

CONSTANTS teff, logg

Sign(n) == IF n < 0 THEN -1 ELSE IF n > 0 THEN 1 ELSE 0

Bowl == [chi2  |-> [p \in Point |-> (p[teff] - 1) * (p[teff] - 1) + 3 * (p[logg] - 1) * (p[logg] - 1) + 1],
         slope |-> [p \in Point |-> (teff :> Sign(p[teff] - 1)) @@ (logg :> Sign(p[logg] - 1))]]

Valley == [chi2  |-> [p \in Point |-> 2 * p[teff] + p[logg] + 1],
           slope |-> [p \in Point |-> (teff :> 1) @@ (logg :> IF p[logg] = 1 THEN 0 ELSE 1)]]

Rough == [chi2  |-> [p \in Point |-> IF p[teff] = 2 /\ p[logg] = 2 THEN NaN ELSE 5 - p[teff] - 2 * p[logg]],
          slope |-> [p \in Point |->
              IF p[teff] = 2 /\ p[logg] = 2 THEN (teff :> 1) @@ (logg :> 1)
              ELSE (teff :> IF p[logg] = 1 THEN 1 ELSE -1) @@ (logg :> -1)]]

MCLandscapes == {Bowl, Valley, Rough}
=============================================================================
