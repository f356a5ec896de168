---------------------------- MODULE MCGridHoles ----------------------------
(***************************************************************************)
(* GridHoles on a grid of four by three nodes, whose first axis is uneven: *)
(* the two interior nodes of the middle row are bridged along different    *)
(* axes.                                                                   *)
(***************************************************************************)
EXTENDS GridHoles

CONSTANTS t1, t2

MCAxes == <<<<0, 1, 2, 6>>, <<0, 1, 2>>>>

MCNode == {<<i, j>> : i \in 1..4, j \in 1..3}

\* Cells around the node (2, 2).  In the second one a parameter sits on the
\* node's value, and the corners on the far side have no weight.
MCCells ==
    { [nodes |-> <<<<2, 1>>, <<3, 1>>, <<2, 2>>, <<3, 2>>>>, zero |-> {}],
      [nodes |-> <<<<2, 2>>, <<3, 2>>, <<2, 3>>, <<3, 3>>>>,
       zero |-> {<<3, 2>>, <<3, 3>>}] }

Tree(gone, broken) ==
    [n \in MCNode |-> IF n \in gone THEN "gone"
                      ELSE IF n \in broken THEN "broken" ELSE "sound"]

\* One hole; two holes side by side, which may not lean on each other; a hole
\* with one axis to bridge it along; one with none; one next to a file that
\* cannot be read.
MCLayouts ==
    { Tree({<<2, 2>>}, {}),
      Tree({<<2, 2>>, <<3, 2>>}, {}),
      Tree({<<2, 2>>, <<2, 1>>}, {}),
      Tree({<<2, 2>>, <<1, 2>>, <<2, 3>>}, {}),
      Tree({<<2, 2>>}, {<<1, 2>>}) }

\* The first of these alone.
MCOneHole == {Tree({<<2, 2>>}, {})}

\* The neighbours of (2, 2) on the first axis.
MCFragile == {<<1, 2>>, <<3, 2>>}
=============================================================================
