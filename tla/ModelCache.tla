----------------------------- MODULE ModelCache -----------------------------
(***************************************************************************)
(* compute_synthetic_cached (SyntheticModel.cpp): fits that run side by    *)
(* side share finished models through the process-wide SpectrumCache, and  *)
(* each notes which missing model files its own models were interpolated   *)
(* across (note_gaps, record_gaps).                                        *)
(*                                                                         *)
(* The final and the surface spectrum of one evaluation are one entry      *)
(* here, and its key one member of Param: everything both keys are made of *)
(* is equal, parameters, observed grid, resolution and window.  A fit has  *)
(* one model grid and evaluates one model at a time.                       *)
(***************************************************************************)
CONSTANTS
    Fit,          \* fits, each with its own ModelGrid object
    Grid,         \* model grids, by the directory they are read from
    GridOf,       \* the grid a fit reads
    Param,        \* what models are evaluated at
    Hole,         \* missing model files
    Under,        \* Under[g][p]: the holes of g next to p
    NoModel       \* no entry in the cache

VARIABLES
    known,        \* holes on record in the process (CubeGaps.absent)
    model,        \* the cache: no entry, a builder, or a model
    stage, at,    \* where each fit is, and the parameters it evaluates
    log,          \* GapLog.used of its ModelGrid
    got,          \* the model it was last given
    knew          \* history: known when that evaluation began

mvars == <<known, model, stage, at, log, got, knew>>

Model == [grid : Grid, across : SUBSET Hole]

ASSUME ModelAssumption ==
    /\ GridOf \in [Fit -> Grid]
    /\ Under \in [Grid -> [Param -> SUBSET Hole]]
    /\ NoModel \notin Fit \cup Model /\ Fit \cap Model = {}

\* Every variable keeps its type.
ModelsTypeOK ==
    /\ known \subseteq Hole
    /\ model \in [Param -> {NoModel} \cup Fit \cup Model]
    /\ stage \in [Fit -> {"idle", "note", "ask", "build", "publish"}]
    /\ at \in [Fit -> Param]
    /\ log \in [Fit -> SUBSET Hole] /\ knew \in [Fit -> SUBSET Hole]
    /\ got \in [Fit -> {NoModel} \cup Model]

ModelsInit ==
    /\ known = {}
    /\ model = [p \in Param |-> NoModel]
    /\ stage = [f \in Fit |-> "idle"]
    /\ at \in [Fit -> Param]
    /\ log = [f \in Fit |-> {}] /\ knew = [f \in Fit |-> {}]
    /\ got = [f \in Fit |-> NoModel]

\* The holes the model of fit f is interpolated across.
Holes(f) == Under[GridOf[f]][at[f]]

\* Mutant of Evaluate: the holes on record are not asked for.
EvaluateUnnoted(f, p) ==
    /\ stage[f] = "idle"
    /\ at' = [at EXCEPT ![f] = p]
    /\ knew' = [knew EXCEPT ![f] = known]
    /\ got' = [got EXCEPT ![f] = NoModel]
    /\ stage' = [stage EXCEPT ![f] = "ask"]
    /\ UNCHANGED <<known, model, log>>

\* any_gaps_known is read without the lock.
Evaluate(f, p) ==
    /\ stage[f] = "idle"
    /\ at' = [at EXCEPT ![f] = p]
    /\ knew' = [knew EXCEPT ![f] = known]
    /\ got' = [got EXCEPT ![f] = NoModel]
    /\ stage' = [stage EXCEPT ![f] = IF known = {} THEN "ask" ELSE "note"]
    /\ UNCHANGED <<known, model, log>>

\* note_gaps: the holes next to the parameters that are on record by now.
Note(f) ==
    /\ stage[f] = "note"
    /\ log' = [log EXCEPT ![f] = @ \cup (Holes(f) \cap known)]
    /\ stage' = [stage EXCEPT ![f] = "ask"]
    /\ UNCHANGED <<known, model, at, got, knew>>

\* insert_if_absent: no other fit has this model or is building it ...
Claim(f) ==
    /\ stage[f] = "ask" /\ model[at[f]] = NoModel
    /\ model' = [model EXCEPT ![at[f]] = f]
    /\ stage' = [stage EXCEPT ![f] = "build"]
    /\ UNCHANGED <<known, at, log, got, knew>>

\* Mutant of Take: a model still being built will do.
TakeUnfinished(f) ==
    /\ stage[f] = "ask" /\ model[at[f]] # NoModel
    /\ got' = [got EXCEPT ![f] = model[at[f]]]
    /\ stage' = [stage EXCEPT ![f] = "idle"]
    /\ UNCHANGED <<known, model, at, log, knew>>

\* ... or one has: this fit takes it, once it is there.
Take(f) ==
    /\ stage[f] = "ask" /\ model[at[f]] \in Model
    /\ got' = [got EXCEPT ![f] = model[at[f]]]
    /\ stage' = [stage EXCEPT ![f] = "idle"]
    /\ UNCHANGED <<known, model, at, log, knew>>

\* load_spectrum meets a hole nobody knew of.
Discover(f, h) ==
    /\ stage[f] = "build" /\ h \in Holes(f) \ known
    /\ known' = known \cup {h}
    /\ UNCHANGED <<model, stage, at, log, got, knew>>

\* Every corner is in, or bridged: record_gaps.
Record(f) ==
    /\ stage[f] = "build" /\ Holes(f) \subseteq known
    /\ log' = [log EXCEPT ![f] = @ \cup Holes(f)]
    /\ stage' = [stage EXCEPT ![f] = "publish"]
    /\ UNCHANGED <<known, model, at, got, knew>>

Publish(f) ==
    /\ stage[f] = "publish"
    /\ got' = [got EXCEPT ![f] = [grid |-> GridOf[f], across |-> Holes(f)]]
    /\ model' = [model EXCEPT ![at[f]] = got'[f]]
    /\ stage' = [stage EXCEPT ![f] = "idle"]
    /\ UNCHANGED <<known, at, log, knew>>

\* A corner cannot be read: the build throws, and its claim is undone.
Fail(f) ==
    /\ stage[f] = "build"
    /\ model' = [model EXCEPT ![at[f]] = NoModel]
    /\ stage' = [stage EXCEPT ![f] = "idle"]
    /\ UNCHANGED <<known, at, log, got, knew>>

\* The cache makes room.
Forget(p) ==
    /\ model[p] \in Model
    /\ model' = [model EXCEPT ![p] = NoModel]
    /\ UNCHANGED <<known, stage, at, log, got, knew>>

ModelsNext ==
    \/ \E f \in Fit : Note(f) \/ Claim(f) \/ Take(f) \/ Record(f) \/ Publish(f) \/ Fail(f)
    \/ \E f \in Fit, p \in Param : Evaluate(f, p)
    \/ \E f \in Fit, h \in Hole : Discover(f, h)
    \/ \E p \in Param : Forget(p)

ModelsSpec == ModelsInit /\ [][ModelsNext]_mvars

-----------------------------------------------------------------------------

\* A fit's report names every missing file its models lean on that was known
\* when it asked for the model, whoever built it and whenever: the cache does
\* not hide it ("load_spectrum() records the gaps itself, but it is not called
\* on a cache hit").  That is less than "the list of gaps that fit's models depended
\* on" (ModelGrid.hpp:231-233): of a hole that another fit's build discovers while
\* this fit waits for that build, it learns with its next evaluation at the earliest.
KnownHolesReported ==
    \A f \in Fit :
        got[f] # NoModel /\ got[f].grid = GridOf[f] =>
            got[f].across \cap knew[f] \subseteq log[f]

\* "Every model cache keys on it, so fits that build their models differently
\* never serve each other's spectra": a fit's models come from its own grid.
OwnGrid == \A f \in Fit : got[f] # NoModel => got[f].grid = GridOf[f]
=============================================================================
