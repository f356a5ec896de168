--------------------------- MODULE MCCostJacobian ---------------------------
(***************************************************************************)
(* Small instance of CostJacobian: one component over two spectra, the    *)
(* first long enough for an anchor's window to be clipped on both sides,   *)
(* with a telluric; vsini (parameter 0) tied, one velocity each (1 and 2). *)
(* Each evaluation lies within the tolerance of the keys of the next.      *)
(***************************************************************************)
EXTENDS CostJacobian, TLC

CONSTANTS at1, plus1, at2, plus2, at3, plus3, other

MCAt    == {at1, at2, at3}
MCPlus  == {plus1, plus2, plus3}
MCKey   == MCAt \cup MCPlus \cup {other}
MCPlace == (at1 :> 0) @@ (at2 :> 1) @@ (at3 :> 2)
           @@ (plus1 :> 10) @@ (plus2 :> 11) @@ (plus3 :> 12) @@ (other :> 20)
MCCost  == [k \in MCKey |-> IF k \in MCAt THEN 2 ELSE 1]
MCLimits == {<<9, 9>>, <<2, 3>>}

MCIndex  == << << <<0, 1>>, <<0, 2>> >> >>
MCLambda == << <<0, 5, 12, 25, 28, 35, 75, 95, 110>>, <<1, 2>> >>
MCFitted == << {1, 2, 3, 5, 6, 7, 8, 9}, {2} >>
MCKnots  == << <<0, 10, 20, 30, 40, 50, 60, 70, 80, 90, 100>>, <<0, 3>> >>

\* Parameters: 0..2 stellar, 3..5 telluric of spectrum 1, 6..16 anchors of
\* spectrum 1, 17 and 18 anchors of spectrum 2.
MCFree == {{11}, {0, 1, 4, 18}}
MCEvaluations == ({11} :> 3) @@ ({0, 1, 4, 18} :> 2)

\* Tables differ in vsini, and for the last evaluation in the spectrum.
MCTables(at, plus) ==
    LET row == [j \in -1..2 |-> IF j = 0 THEN plus ELSE at] IN <<row, row>>
MCTableFor ==
    << MCTables(at1, plus1), MCTables(at2, plus2),
       [MCTables(at3, plus3) EXCEPT ![2] = [j \in -1..2 |-> other]] >>
=============================================================================
