----------------------------- MODULE FitWorkflow -----------------------------
(***************************************************************************)
(* One fit, from GaelSession::run to its result: reading the spectra, the  *)
(* ladder of solves of UnifiedFitWorkflow::run, and the ensemble of refits *)
(* that gives the continuum's share of the errors.  Every solve frees some *)
(* parameters and leaves the others; the stages between decide which, set  *)
(* some of them, and never take a freeze back.                             *)
(*                                                                         *)
(* A parameter c, n of component c is one slot of the parameter vector for *)
(* all spectra, or one per spectrum when its name is untied.  Its value is *)
(* a small number; what a solve makes of the free ones is open, within     *)
(* their bounds.  Four names stand for the indexer's table: those the      *)
(* stages treat each in its own way, and teff for all the axes of a grid.  *)
(* The continuum anchors and the telluric block are always fitted and are  *)
(* left out.  A stage is two or three actions: the decision to run it with *)
(* what it sets (decide), the solve, and the end of its phase (leave).     *)
(***************************************************************************)
EXTENDS FitProgress, FiniteSets

CONSTANTS
    Fits,         \* the fits that may be asked for
    VsiniThres,   \* stage 5 freezes a vsini below this
    SurThres,     \* sur_ratio_thres
    AxisMax,      \* parameters have bounds 0 and AxisMax ...
    NitNoiseMax   \* nit_noise_max

Names == {"vrad", "vsini", "teff", "sur_ratio"}
Components == 1..2
Variants == {"noladder", "full", "direct", "nonoise"}

\* The parts of a request that the control depends on.  start and frozen are
\* the values and the freezes the caller gives; sameGrid tells that the two
\* components name one grid, auto is auto_freeze_sur_ratio, and refits is
\* cont_jitter_K.
Request ==
    [components : Components, files : Nat \ {0}, untied : SUBSET Names,
     start : [Components \X Names -> Nat], frozen : SUBSET (Components \X Names),
     sameGrid : BOOLEAN, auto : BOOLEAN, variant : Variants, refits : Nat]

ASSUME FitAssumption ==
    /\ Fits \subseteq Request
    /\ VsiniThres \in Nat \ {0} /\ SurThres \in Nat \ {0} /\ AxisMax \in Nat \ {0}
    /\ NitNoiseMax \in Nat

VARIABLES
    fit,        \* the request
    ncomp,      \* components fitted: one may be dropped up front
    nds,        \* spectra that passed the quality filters
    todo,       \* stages still to come, the one at hand first
    step,       \* where the stage at hand is: "decide", "solve", "leave"
    round,      \* pass of stage 6, or number of the refit; 0 elsewhere
    weights,    \* weights_changed
    noise,      \* per spectrum, how often sigma has been scaled
    val,        \* unified_params_, the stellar part
    frozen,     \* frozen_status_
    mask,       \* last_free_mask_, the stellar part
    solution,   \* values and free mask the main fit ended with; <<>> before
    status      \* "reading", "planning", "running", "ok", "aborted", "failed"

parameters == <<val, frozen, mask>>
vars == <<tracker, fit, ncomp, nds, todo, step, round, weights, noise, parameters, solution, status>>

-----------------------------------------------------------------------------
(* Parameters.                                                             *)

\* ParameterIndexer::build: a tied name has the same slot for every spectrum.
Slot(c, n, d) == <<c, n, IF n \in fit.untied THEN d ELSE 1>>

Slots(comps, spectra) == { Slot(c, n, d) : c \in 1..comps, n \in Names, d \in 1..spectra }

Key(s) == <<s[1], s[2]>>

\* param_limits: component 1 is the scale of the surface ratios.
Limits(c, n) == IF n = "sur_ratio" /\ c = 1 THEN 1..1 ELSE 0..AxisMax

Clamp(v, range) ==
    IF v \in range THEN v
    ELSE CHOOSE w \in range : \A u \in range : IF v < u THEN w <= u ELSE w >= u

\* The names a solve asks for: only the anchors, some, or all.
Asked(stage) ==
    CASE stage \in {"1", "settle"} -> {}
      [] stage = "2" -> {"vrad"}
      [] stage = "3" -> {"vrad", "teff"}
      [] OTHER       -> Names

\* The free mask of solve_stage.  Mutant: frozen_status_ is not asked.
AnyAsked(stage) == { s \in DOMAIN val : s[2] \in Asked(stage) /\ Key(s) # <<1, "sur_ratio">> }

FreeSlots(stage) ==
    { s \in DOMAIN val : /\ s[2] \in Asked(stage)
                         /\ Key(s) \notin frozen
                         /\ Key(s) # <<1, "sur_ratio">> }

\* Points a solve may return: every value is clamped first, free ones move.
Reachable(free) ==
    LET held == [s \in DOMAIN val |-> Clamp(val[s], Limits(s[1], s[2]))]
    IN  { [s \in DOMAIN val |-> IF s \in free THEN w[s] ELSE held[s]] : w \in [free -> 0..AxisMax] }

-----------------------------------------------------------------------------
(* The plan.                                                               *)

RetireStage == fit.auto /\ ncomp > 1

\* The stages before sigma is rescaled.
FirstStages ==
    (IF fit.variant # "direct" THEN <<"1">> ELSE <<>>)
    \o (IF fit.variant = "full" THEN <<"2", "3">> ELSE <<>>)
    \o <<"4", "5">>
    \o (IF RetireStage THEN <<"5b">> ELSE <<>>)

Ladder ==
    FirstStages \o (IF fit.variant # "nonoise" THEN <<"6">> ELSE <<>>) \o <<"7", "7b">>

\* plan_stages: a phase for every solve that may happen, stage 6 one per pass.
StagePhases ==
    [i \in DOMAIN FirstStages |-> <<FirstStages[i], 0>>]
    \o [p \in 1..(IF fit.variant # "nonoise" THEN NitNoiseMax ELSE 0) |-> <<"6", p>>]
    \o << <<"7", 0>>, <<"7b", 0>> >>

Here == <<Head(todo), round>>

-----------------------------------------------------------------------------
Init ==
    /\ fit \in Fits /\ sink \in BOOLEAN
    /\ phases = << Phase(<<"pre", 0>>), Phase(<<"fit", 0>>) >>
                \o [k \in 1..fit.refits |-> Phase(<<"jitter", k>>)]
    /\ current = 1 /\ aborted = FALSE
    /\ ncomp = fit.components /\ nds = 0
    /\ todo = <<>> /\ step = "decide" /\ round = 0 /\ weights = TRUE /\ noise = <<>>
    /\ val = <<>> /\ frozen = fit.frozen /\ mask = {} /\ solution = <<>>
    /\ status = "reading"

\* The second component goes before the fit when nothing tells the two apart
\* or its surface ratio starts below the threshold.
DroppedUpFront ==
    /\ fit.auto /\ fit.components = 2
    /\ fit.sameGrid \/ fit.start[<<2, "sur_ratio">>] <= SurThres

\* preprocess_one accepts or rejects each file for itself.
Accepted == 1..fit.files

\* run_impl up to the workflow's constructor: some of the spectra are read,
\* and reports are made on the way.
Read ==
    /\ status = "reading"
    /\ ncomp' = IF DroppedUpFront THEN 1 ELSE fit.components
    /\ nds' \in Accepted
    /\ val' = [s \in Slots(ncomp', nds') |->
                  IF Key(s) = <<1, "sur_ratio">> THEN 1 ELSE fit.start[Key(s)]]
    /\ frozen' = { k \in fit.frozen : k[1] <= ncomp' } \cup {<<1, "sur_ratio">>}
    /\ noise' = [d \in 1..nds' |-> 0]
    /\ End(<<"pre", 0>>)
    /\ status' = "planning"
    /\ UNCHANGED <<sink, fit, todo, step, round, weights, mask, solution>>

\* No spectrum passes, or a grid cannot be opened: the exception leaves run.
ReadFails ==
    /\ status = "reading"
    /\ Publish /\ status' = "failed"
    /\ UNCHANGED <<sink, phases, current, fit, ncomp, nds, todo, step, round, weights, noise,
                   parameters, solution>>

PlanStages ==
    /\ status = "planning"
    /\ phases' = IF sink THEN Expand(phases, <<"fit", 0>>, StagePhases) ELSE phases
    /\ todo' = Ladder /\ status' = "running"
    /\ UNCHANGED <<sink, current, aborted, fit, ncomp, nds, step, round, weights, noise,
                   parameters, solution>>

-----------------------------------------------------------------------------
(* A solve.                                                                *)

At(stages, where) ==
    /\ status = "running" /\ todo # <<>>
    /\ Head(todo) \in stages /\ step = where

\* Mutant of Outcome: the abort is not thrown.
NotThrown(latched) == "running"

\* throw_if_aborted, at the end of solve_stage.
Outcome(latched) == IF latched THEN "aborted" ELSE "running"

\* An abort asked for before the solve stops it in its first iteration, where
\* only the clamping shows; one asked for during it lets the point stand.
Solve ==
    /\ status = "running" /\ step = "solve"
    /\ Publish
    /\ mask' = FreeSlots(Head(todo))
    /\ val' \in Reachable(IF aborted THEN {} ELSE FreeSlots(Head(todo)))
    /\ status' = Outcome(aborted') /\ step' = "leave"
    /\ UNCHANGED <<sink, phases, current, fit, ncomp, nds, todo, round, weights, noise, frozen, solution>>

\* leave_phase; stage 6 stays at hand for its loop test.
Leave ==
    /\ status = "running" /\ step = "leave"
    /\ End(Here)
    /\ todo' = IF Head(todo) = "6" THEN todo ELSE Tail(todo)
    /\ step' = "decide"
    /\ UNCHANGED <<sink, fit, ncomp, nds, round, weights, noise, parameters, solution, status>>

-----------------------------------------------------------------------------
(* The stages.                                                             *)

Certain == {"1", "2", "3", "4", "7", "settle", "joint"}

\* The stages that always solve, and set nothing first.
Enter ==
    /\ At(Certain, "decide")
    /\ phases' = phases /\ Begin(Here)
    /\ step' = "solve"
    /\ UNCHANGED <<sink, fit, ncomp, nds, todo, round, weights, noise, parameters, solution, status>>

\* A stage that refits only if it froze something.
Refit(keys, point) ==
    /\ frozen' = frozen \cup keys /\ val' = point
    /\ phases' = Weigh(phases, Here) /\ Begin(Here)
    /\ step' = "solve"
    /\ UNCHANGED <<sink, fit, ncomp, nds, todo, round, weights, noise, mask, solution, status>>

\* Mutant of Retired: the phase that will not run keeps its weight.
Forgotten(plan, id) == plan

\* The prior of a phase that will not run stops counting.
Retired(plan, id) == Drop(plan, id)

Skip ==
    /\ phases' = Retired(phases, Here) /\ todo' = Tail(todo)
    /\ UNCHANGED <<sink, current, aborted, fit, ncomp, nds, step, round, weights, noise,
                   parameters, solution, status>>

\* The value a stage tests is that of the first spectrum.
Value(c, n) == val[Slot(c, n, 1)]

Zeroed(keys) == [s \in DOMAIN val |-> IF Key(s) \in keys THEN 0 ELSE val[s]]

\* Stage 5: a free vsini below what the resolution can tell.
Unmeasurable ==
    { <<c, "vsini">> : c \in { b \in 1..ncomp : /\ <<b, "vsini">> \notin frozen
                                                /\ Value(b, "vsini") < VsiniThres } }

FreezeVsini ==
    /\ At({"5"}, "decide")
    /\ \/ Unmeasurable # {} /\ Refit(Unmeasurable, Zeroed(Unmeasurable))
       \/ Unmeasurable = {} /\ Skip

\* Stage 5b: a secondary with a free ratio below the threshold, or one whose
\* light is seen nowhere, is frozen whole with its ratio set to 0.
Faint(unseen) ==
    { c \in 2..ncomp : /\ <<c, "sur_ratio">> \notin frozen
                       /\ Value(c, "sur_ratio") < SurThres \/ c \in unseen }

RetireSecondaries ==
    /\ At({"5b"}, "decide")
    /\ \E unseen \in SUBSET (2..ncomp) :
          \/ /\ Faint(unseen) # {}
             /\ Refit(Faint(unseen) \X Names, Zeroed(Faint(unseen) \X {"sur_ratio"}))
          \/ Faint(unseen) = {} /\ Skip

\* Mutant of Scaled: sigma is not reset to its pristine value first.
ScaledAgain(d) == noise[d] + 1

\* Sigma of a spectrum after a pass: pristine, then scaled once.
Scaled(d) == 1

\* Stage 6, one pass: every spectrum is scaled anew; whether outliers or the
\* spread of the scales ask for another pass is open.
NoisePass ==
    /\ At({"6"}, "decide")
    /\ weights /\ round < NitNoiseMax
    /\ round' = round + 1 /\ weights' \in BOOLEAN
    /\ noise' = [d \in 1..nds |-> Scaled(d)]
    /\ phases' = phases /\ Begin(<<"6", round'>>)
    /\ step' = "solve"
    /\ UNCHANGED <<sink, fit, ncomp, nds, todo, parameters, solution, status>>

\* Its end: the passes that were not needed leave the plan's total.
NoiseDone ==
    /\ At({"6"}, "decide")
    /\ ~(weights /\ round < NitNoiseMax)
    /\ phases' = [i \in DOMAIN phases |->
                    [phases[i] EXCEPT !.counts = @ /\ ~(phases[i].id[1] = "6" /\ phases[i].id[2] > round)]]
    /\ todo' = Tail(todo) /\ round' = 0
    /\ UNCHANGED <<sink, current, aborted, fit, ncomp, nds, step, weights, noise, parameters,
                   solution, status>>

\* Stage 7: free parameters on a bound, surface ratios excepted.
AtBoundary ==
    { k \in ((1..ncomp) \X (Names \ {"sur_ratio"})) \ frozen : Value(k[1], k[2]) \in {0, AxisMax} }

FreezeBoundary ==
    /\ At({"7b"}, "decide")
    /\ \/ AtBoundary # {} /\ Refit(AtBoundary, val)
       \/ AtBoundary = {} /\ Skip

-----------------------------------------------------------------------------
(* The result and the ensemble.                                            *)

AtEnd == status = "running" /\ todo = <<>>

\* Mutant of FrozenForRefits: the caller's freezes, not the fit's.
AsAsked == { k \in fit.frozen : k[1] <= ncomp } \cup {<<1, "sur_ratio">>}

\* frozen_ens: what the last solve of the main fit did not free.
FrozenForRefits ==
    { k \in (1..ncomp) \X Names : Slot(k[1], k[2], 1) \notin mask }

\* The workflow's answer is taken over, and what it ended frozen on.
Collect ==
    /\ AtEnd /\ solution = <<>>
    /\ solution' = <<val, mask>> /\ frozen' = FrozenForRefits
    /\ UNCHANGED <<tracker, fit, ncomp, nds, todo, step, round, weights, noise, val, mask, status>>

\* One refit: anchors moved (not shown), the parameters from model.params, and
\* those are the first spectrum's.
StartRefit ==
    /\ AtEnd /\ solution # <<>> /\ round < fit.refits
    /\ round' = round + 1
    /\ val' = [s \in DOMAIN val |-> solution[1][Slot(s[1], s[2], 1)]]
    /\ phases' = IF sink
                 THEN Expand(phases, <<"jitter", round'>>, << <<"settle", round'>>, <<"joint", round'>> >>)
                 ELSE phases
    /\ todo' = <<"settle", "joint">>
    /\ UNCHANGED <<sink, current, aborted, fit, ncomp, nds, step, weights, noise, frozen, mask,
                   solution, status>>

\* finish: reported if the fit was not aborted; the answer is not looked at.
Finish ==
    /\ AtEnd /\ solution # <<>> /\ round = fit.refits
    /\ status' = "ok"
    /\ UNCHANGED <<tracker, fit, ncomp, nds, todo, step, round, weights, noise, parameters, solution>>

\* The cost function, a model that a decision or the result is made from, or the
\* grid behind it, throws.
Fails ==
    /\ status = "running"
    /\ step = "solve" \/ todo = <<>> \/ At({"5b"}, "decide")
    /\ Publish /\ status' = "failed"
    /\ UNCHANGED <<sink, phases, current, fit, ncomp, nds, todo, step, round, weights, noise,
                   parameters, solution>>

Over == status \in {"ok", "aborted", "failed"}

Rest == Over /\ UNCHANGED vars

Next ==
    \/ Read \/ ReadFails \/ PlanStages
    \/ Enter \/ FreezeVsini \/ RetireSecondaries \/ NoisePass \/ NoiseDone \/ FreezeBoundary
    \/ Solve \/ Leave \/ Fails
    \/ Collect \/ StartRefit \/ Finish
    \/ Rest

\* One thread runs the fit from top to bottom and waits for nothing.
Spec == Init /\ [][Next]_vars /\ WF_vars(Next)

-----------------------------------------------------------------------------
(* Properties.                                                             *)

\* Every variable keeps its type; no stage scales sigma twice, values stay in
\* their bounds once a solve has clamped them.
TypeOK ==
    /\ TrackerType
    /\ fit \in Fits /\ ncomp \in 1..fit.components /\ nds \in 0..fit.files
    /\ todo \in Seq({"1", "2", "3", "4", "5", "5b", "6", "7", "7b", "settle", "joint"})
    /\ step \in {"decide", "solve", "leave"} /\ weights \in BOOLEAN
    /\ round \in 0..(NitNoiseMax + fit.refits)
    /\ DOMAIN noise = 1..nds /\ \A d \in 1..nds : noise[d] \in 0..1
    /\ val \in [IF status = "reading" \/ nds = 0 THEN {} ELSE Slots(ncomp, nds) -> Nat]
    /\ frozen \subseteq Components \X Names
    /\ mask \subseteq DOMAIN val
    /\ step = "leave" => \A s \in DOMAIN val : val[s] \in Limits(s[1], s[2])
    /\ solution = <<>> \/ Len(solution) = 2
    /\ status \in {"reading", "planning", "running", "ok", "aborted", "failed"}

\* Masks are right in all solves, refits included.  A component that the fit
\* itself has held at a surface ratio of 0 drops out of every model and leaves
\* zero columns in the Jacobian: no later solve has a parameter of it free.
\* And every refit frees exactly what the main fit ended with free, so that the
\* scatter is that of the same problem.
RightlyFree ==
    /\ \A c \in 2..ncomp :
           /\ status = "running" /\ step = "leave"
           /\ <<c, "sur_ratio">> \in frozen \ fit.frozen
           /\ Value(c, "sur_ratio") = 0
           => \A s \in mask : s[1] # c
    /\ At({"joint"}, "leave") => mask = solution[2]

\* What is frozen, by the caller or by a stage, keeps its value for the rest
\* of the fit and through the ensemble, unless the value was out of bounds.
\* A name untied between spectra is only held within one ladder of solves.
FrozenKept ==
    [][\A s \in DOMAIN val \cap DOMAIN val' :
          /\ Key(s) \in frozen
          /\ val[s] \in Limits(s[1], s[2])
          /\ s[2] \in fit.untied => todo # <<>>
          => val'[s] = val[s]]_vars

\* The bar's estimate skips what lies before the running phase as paid for:
\* all of it is done or dropped, and at the end nothing is left to wait for.
OrderlyPlan ==
    /\ \A i \in Unpaid : i >= current
    /\ status = "ok" /\ sink => Unpaid = {}

RefitAhead == IF solution = <<>> THEN fit.refits > 0 ELSE round < fit.refits

SolveAhead ==
    \/ status \in {"reading", "planning"}
    \/ /\ status = "running"
       /\ \/ step = "solve"
          \/ RefitAhead
          \/ \E i \in DOMAIN todo : todo[i] \in Certain /\ (i > 1 \/ step = "decide")

\* An abort asked for while a solve is sure to follow ends the fit as aborted,
\* or the fit fails first; it is never answered with a result.
AbortHonoured == (aborted /\ SolveAhead) ~> status \in {"aborted", "failed"}

\* GaelAPI.cpp:879-880, "Freeze in the ensemble exactly what the main fit
\* ended frozen on ..., so the refits match the solution": what a refit holds,
\* it holds at the value of the solution.
RefitsMatchSolution ==
    At({"joint"}, "leave") =>
       \A s \in DOMAIN val : Key(s) \in frozen => val[s] = solution[1][s]
=============================================================================
