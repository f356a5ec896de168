-------------------------- MODULE MCSpectrumCache --------------------------
(***************************************************************************)
(* Small instance of SpectrumCache: a final spectrum over a surface, which  *)
(* reads one grid corner, the shape of compute_synthetic_cached, asked for *)
(* at any of the three levels.  Either three threads call while the share  *)
(* stays what it is and there is no entry cap, or two do and both limits   *)
(* move at any time.                                                       *)
(***************************************************************************)
EXTENDS SpectrumCacheRefinement, TLC

CONSTANTS t3, final, surface, corner

MCKey   == {final, surface, corner}
MCNeeds == (final :> {surface}) @@ (surface :> {corner}) @@ (corner :> {})
MCRank  == (final :> 2) @@ (surface :> 1) @@ (corner :> 0)
MCCost  == (final :> 1) @@ (surface :> 3) @@ (corner :> 2)

VARIABLE moving       \* the limits move

all == <<moving, vars>>

MCInit == Init /\ moving \in BOOLEAN /\ (~moving => share = 4)

MCNext ==
    /\ Next /\ UNCHANGED moving
    /\ IF moving THEN pc'[t3] = "idle" ELSE share' = share /\ maxEntries' = 0

MCSpec == MCInit /\ [][MCNext]_all /\ Fairness
=============================================================================
