--------------------------- MODULE MCFitAndScans ---------------------------
(***************************************************************************)
(* Small instances of FitWorkflow and of the Scans under it.  They have no *)
(* variable in common, so each is explored with the other at rest.         *)
(***************************************************************************)
EXTENDS MCFitWorkflow, MCScans

CONSTANT t1

VARIABLE running      \* which of the two moves

all == <<running, vars, scanVars>>

\* Callers are alike: t1 is the one that may start between two grids.
MCInit ==
    /\ Init /\ ScansInit
    /\ running \in {"fit", "scans"}
    /\ running # "fit" => fit = Single /\ ~sink
    /\ \A t \in Caller : job[t] # NoJob => running = "scans" /\ t = t1

MCNext ==
    \/ running = "fit" /\ Next /\ UNCHANGED <<running, scanVars>>
    \/ running = "scans" /\ ScansNext /\ UNCHANGED <<running, vars>>

FitRuns == running = "fit" /\ Next

MCSpec == MCInit /\ [][MCNext]_all /\ WF_vars(FitRuns)
=============================================================================
