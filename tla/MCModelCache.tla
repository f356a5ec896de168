---------------------------- MODULE MCModelCache ----------------------------
(***************************************************************************)
(* ModelCache with two fits on one grid and a third on another; the first  *)
(* grid has two holes, one of them next to both parameter sets.            *)
(***************************************************************************)
EXTENDS ModelCache, TLC

CONSTANTS f1, f2, f3, gridA, gridB, p1, p2, h1, h2

MCGridOf == (f1 :> gridA) @@ (f2 :> gridA) @@ (f3 :> gridB)

MCUnder == (gridA :> ((p1 :> {h1, h2}) @@ (p2 :> {h1}))) @@ (gridB :> [p \in Param |-> {}])
=============================================================================
