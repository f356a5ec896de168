----------------------------- MODULE FitProgress -----------------------------
(***************************************************************************)
(* FitProgressTracker (FitProgress.cpp): the plan of phases of one fit,    *)
(* the phase that is running and the abort latch.  A phase is named by an  *)
(* id that keeps its value when the plan is spliced; the running one is    *)
(* known by its position, which does not.  A weight is kept as whether it  *)
(* is positive: what the fraction shown depends on is which phases still   *)
(* count, and the seconds they are multiplied with are the clock's.        *)
(*                                                                         *)
(* The plan operations are operators on the sequence of phases, so that a  *)
(* handler that makes several of them stays one action.                    *)
(***************************************************************************)
EXTENDS Naturals, Sequences

VARIABLES
    sink,      \* is there a callback (sink_)
    phases,    \* phases_
    current,   \* position of the running phase; 0 if there is none (current_)
    aborted    \* aborted_: the callback has answered false

tracker == <<sink, phases, current, aborted>>

\* A phase as add and expand make it.
Phase(id) == [id |-> id, counts |-> TRUE, done |-> FALSE]

\* The position of a phase, 0 if the plan has none of that id.
Find(plan, id) ==
    IF \E i \in DOMAIN plan : plan[i].id = id
    THEN CHOOSE i \in DOMAIN plan : plan[i].id = id
    ELSE 0

\* expand: the sub-phases take the place of phase id.  The code also moves
\* current_, which every caller leaves at none here.
Expand(plan, id, ids) ==
    LET at == Find(plan, id)
    IN  IF at = 0 THEN plan
        ELSE SubSeq(plan, 1, at - 1)
             \o [i \in DOMAIN ids |-> Phase(ids[i])]
             \o SubSeq(plan, at + 1, Len(plan))

\* set_weight to something positive, and to 0.
Weigh(plan, id) ==
    [i \in DOMAIN plan |-> IF plan[i].id = id THEN [plan[i] EXCEPT !.counts = TRUE] ELSE plan[i]]

Drop(plan, id) ==
    [i \in DOMAIN plan |-> IF plan[i].id = id THEN [plan[i] EXCEPT !.counts = FALSE] ELSE plan[i]]

\* publish: the callback may ask for the end, and is not called again then.
\* Reports that the throttle swallows are among those it answers true to.
Publish == aborted' \in IF sink /\ ~aborted THEN BOOLEAN ELSE {aborted}

\* begin, on the plan as this action leaves it.
Begin(id) ==
    IF Find(phases', id) = 0
    THEN UNCHANGED <<current, aborted>>
    ELSE current' = Find(phases', id) /\ Publish

\* end.
End(id) ==
    IF Find(phases, id) = 0
    THEN UNCHANGED <<phases, current, aborted>>
    ELSE /\ phases' = [phases EXCEPT ![Find(phases, id)].done = TRUE]
         /\ current' = IF current = Find(phases, id) THEN 0 ELSE current
         /\ Publish

\* The phases publish may still count as remaining; of these it skips the ones
\* before the running one.
Unpaid == { i \in DOMAIN phases : phases[i].counts /\ ~phases[i].done }

TrackerType ==
    /\ sink \in BOOLEAN /\ aborted \in BOOLEAN
    /\ phases \in Seq([id : {"pre", "fit", "jitter", "1", "2", "3", "4", "5", "5b", "6", "7",
                             "7b", "settle", "joint"} \X Nat,
                       counts : BOOLEAN, done : BOOLEAN])
    /\ current \in 0..Len(phases)
=============================================================================
