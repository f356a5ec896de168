---------------------------- MODULE MCFitWorkflow ----------------------------
(***************************************************************************)
(* FitWorkflow on requests that between them take every rung of every      *)
(* ladder.  Few parameters are free in each, so that what a solve may      *)
(* return stays small; the others are frozen by the caller.                *)
(***************************************************************************)
EXTENDS FitWorkflow, TLC

Keys == Components \X Names

Single ==
    [components |-> 1, files |-> 2, untied |-> {"vrad"}, start |-> [k \in Keys |-> 1],
     frozen |-> { <<1, "vrad">> }, sameGrid |-> FALSE, auto |-> FALSE,
     variant |-> "noladder", refits |-> 1]

Binary == [Single EXCEPT
    !.components = 2, !.files = 1, !.auto = TRUE,
    !.start = [k \in Keys |-> 2],
    !.frozen = { <<1, "vrad">>, <<2, "vrad">>, <<1, "vsini">>, <<2, "vsini">> }]

\* One temperature per spectrum, one rotation for both.
Untied == [Single EXCEPT !.untied = {"teff"}]

\* One rotation per spectrum.
Rotating == [Single EXCEPT !.untied = {"vsini"}, !.variant = "direct", !.refits = 2]

\* The whole ladder.
Legacy == [Single EXCEPT !.files = 1, !.frozen = {}, !.variant = "full", !.refits = 0]

\* The secondary goes before the fit.
Dropped == [Binary EXCEPT !.sameGrid = TRUE, !.variant = "direct", !.refits = 2,
                          !.frozen = { <<1, "vrad">> }]

\* Nothing is retired; a frozen temperature starts above its grid.
Pinned == [Binary EXCEPT !.auto = FALSE, !.variant = "nonoise", !.refits = 1,
                         !.start = [k \in Keys |-> IF k = <<1, "teff">> THEN 3 ELSE 1],
                         !.frozen = { <<1, "vrad">>, <<2, "vrad">>, <<1, "vsini">>, <<1, "teff">> }]

MCFits == {Single, Binary, Untied, Rotating, Legacy, Dropped, Pinned}

UntiedOnly == {Untied}
=============================================================================
