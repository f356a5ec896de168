------------------------------ MODULE MCScans ------------------------------
(***************************************************************************)
(* Every ascending grid of three to five of five points, one of two and    *)
(* one with a point twice, with three output points anywhere on or beside  *)
(* it; and four grids onto themselves, one uniform, one that the memo      *)
(* takes for it, one like neither and one too short to be asked about.     *)
(***************************************************************************)
EXTENDS Scans, TLC

Spread(S) == [i \in 1..Cardinality(S) |-> CHOOSE x \in S : Cardinality({y \in S : y < x}) = i - 1]

MCInGrids   == {Spread(S) : S \in {T \in SUBSET (0..4) : Cardinality(T) \in 3..5}}
                   \cup {<<1, 3>>, <<0, 2, 2, 3>>}
MCOutGrids  == [1..3 -> (-1)..4]
MCSameGrids == {Spread({2 * i : i \in 0..8}), Spread({0, 1, 5, 6, 9, 10, 12, 15, 16}),
                Spread({0, 2, 3, 4, 6, 8}), <<1, 3>>}
=============================================================================
