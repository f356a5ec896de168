---------------------------- MODULE CostJacobian ----------------------------
(***************************************************************************)
(* MultiDatasetCost::operator() (MultiDatasetCost.cpp) over the caches of  *)
(* convolution weights: the residuals and the Jacobian of all spectra, in  *)
(* a serial pass and four parallel loops.  ParallelErrors carries an       *)
(* exception out of a loop.                                                *)
(*                                                                         *)
(* The numbers are abstracted to what they are differences of: an entry of *)
(* the matrix is the parameter whose perturbation it was computed from.    *)
(* A model spectrum is found in the spectrum cache or built, and then one  *)
(* table of weights is asked for; on the way an exception may come up.     *)
(* Wavelengths are integers; parameters are indices into the solver's      *)
(* vector, from 0: stellar, then telluric, then continuum.                 *)
(***************************************************************************)
EXTENDS WeightCaches, Continuum

CONSTANTS
    Master,       \* the thread that calls operator()
    Stellar,      \* ParameterIndexer::total_stellar_params
    Index,        \* Index[c][d][k]: the parameter of component c, spectrum d, slot k
    Telluric,     \* spectra that fit a telluric transmission
    Lambda,       \* Lambda[d]: its wavelengths, ascending
    Fitted,       \* Fitted[d]: pixels with ignoreflag set and a usable sigma
    Knots,        \* Knots[d]: cont_x, ascending
    FreeSets,     \* free masks the solver may set
    TableFor,     \* TableFor[e][d][j]: table evaluation e wants for spectrum d
                  \* with parameter j perturbed, with none if j is Unperturbed
    MaxEvaluations, \* bound: calls of operator() and earlier exceptions, by free mask
    NoTask

Dataset == 1..Len(Lambda)
Unperturbed == -1

\* kNTelluricParams of them.
TellSlots == 0..2

\* Mutant of Reach: the knots an anchor's support ends at are taken too near.
ReachTwo == 2

\* kAnchorReach, in knots.
Reach == 4

ASSUME CostAssumption ==
    /\ Master \in Thread
    /\ Stellar \in Nat
    /\ \A c \in DOMAIN Index : \A d \in Dataset : Range(Index[c][d]) \subseteq 0..(Stellar - 1)
    /\ Telluric \subseteq Dataset
    /\ Lambda \in Seq(Seq(Int))
    /\ \A d \in Dataset :
           /\ Fitted[d] \subseteq 1..Len(Lambda[d])
           /\ Knots[d] \in Seq(Int) /\ Knots[d] # <<>>
           /\ \A m, n \in 1..Len(Knots[d]) : m < n => Knots[d][m] < Knots[d][n]
    /\ NoTask \notin [task : Nat, left : Seq(Dataset)]
    /\ MaxEvaluations \in [FreeSets -> Nat]

VARIABLES
    free,         \* free_mask_
    phase,        \* the loop operator() is in, "call" outside
    todo,         \* iterations of that loop nobody has taken
    body,         \* the iteration each thread is in: its task and the spectra
                  \* it has still to compute
    failed,       \* ParallelErrors: an exception is kept
    jac,          \* jacobians: <<row, column, parameter>> of entries not zero
    scratch,      \* r_eps of each thread: the parameter each row was computed with
    outcome,      \* how the last call ended
    evaluation,   \* calls so far
    before        \* history: exceptions before the last call began

calls == <<evaluation, before>>
jvars == <<free, phase, todo, body, failed, jac, scratch, outcome, calls>>
vars  == <<wvars, jvars>>

-----------------------------------------------------------------------------
(* Layout: the constructor's rows and columns.                             *)

RowCount == [d \in Dataset |-> Cardinality(Fitted[d])]
RowOffset(d) == MapThenSumSet(LAMBDA e : RowCount[e], 1..(d - 1))
RowsOf(d) == RowOffset(d)..(RowOffset(d) + RowCount[d] - 1)
Rows == UNION {RowsOf(d) : d \in Dataset}

\* row_of_pixel_, for a fitted pixel.
RowOfPixel(d, i) == RowOffset(d) + Cardinality({n \in Fitted[d] : n < i})

TellOffset(d) == Stellar + 3 * Cardinality({e \in Telluric : e < d})
ContBase == Stellar + 3 * Cardinality(Telluric)
KnotCount == [d \in Dataset |-> Len(Knots[d])]
ContOffset(d) == ContBase + MapThenSumSet(LAMBDA e : KnotCount[e], 1..(d - 1))
Parameters == 0..(ContOffset(Len(Lambda) + 1) - 1)

ASSUME MasksOfParameters == FreeSets \subseteq SUBSET Parameters

\* Mutant of ColumnOf: one column per parameter, free or not.
ColumnOfFull(j) == j

\* column_of, under the solver's map from free parameters to columns
\* (build_free_index).
ColumnOf(j) == Cardinality({i \in free : i < j})

\* param_datasets_: the spectra stellar parameter j feeds.
ParamDatasets(j) ==
    {d \in Dataset : \E c \in DOMAIN Index : j \in Range(Index[c][d])}

-----------------------------------------------------------------------------
(* The task lists of the loops.                                            *)

AnchorTasks == {j \in free : j >= ContBase}
TellTasks ==
    {j \in free : \E d \in Telluric : RowCount[d] > 0 /\ j - TellOffset(d) \in TellSlots}
StellarTasks == {j \in free : j < Stellar /\ ParamDatasets(j) # {}}

\* The spectrum an anchor or a telluric parameter belongs to.
OwnerOf(j) ==
    IF j >= ContBase
    THEN CHOOSE d \in Dataset : j \in ContOffset(d)..(ContOffset(d) + KnotCount[d] - 1)
    ELSE CHOOSE d \in Telluric : j - TellOffset(d) \in TellSlots

\* The pixel window of anchor k (from 0) of spectrum d: all of it where the
\* reach passes the first or the last knot.
AnchorPixels(d, k) ==
    LET lo == k - Reach
        hi == k + Reach
    IN  {i \in 1..Len(Lambda[d]) :
            /\ lo > 0 => Lambda[d][i] >= Knots[d][lo + 1]
            /\ hi < KnotCount[d] - 1 => Lambda[d][i] <= Knots[d][hi + 1]}

Junk == -2
Nothing == [r \in Rows |-> Junk]
Idle == [t \in Thread |-> NoTask]

CostTypeOK ==
    /\ WeightsTypeOK
    /\ free \in FreeSets
    /\ phase \in {"call", "residuals", "factors", "anchors", "telluric", "stellar"}
    /\ todo \in Seq(Nat)
    /\ \A t \in Thread : body[t] # NoTask =>
           body[t].task \in Nat /\ Range(body[t].left) \subseteq Dataset
    /\ failed \in BOOLEAN
    /\ \A x \in jac : x[1] \in Rows /\ x[2] \in 0..(Cardinality(free) - 1)
    /\ \A t \in Thread : DOMAIN scratch[t] = Rows
    /\ outcome \in {"none", "residuals", "returned", "threw", "died"}
    /\ evaluation \in 0..MaxEvaluations[free] /\ before \in 0..throws

Init ==
    /\ WeightsInit
    /\ free \in FreeSets
    /\ phase = "call" /\ todo = <<>> /\ body = Idle
    /\ failed = FALSE /\ jac = {}
    /\ scratch = [t \in Thread |-> Nothing]
    /\ outcome = "none" /\ evaluation = 0 /\ before = 0

-----------------------------------------------------------------------------
(* Loops.                                                                  *)

\* An uncaught exception or a corrupted heap ends the process.
Alive == outcome # "died" /\ \A t \in Thread : pc[t] # "fatal"

Enter(p, tasks) == phase' = p /\ todo' = tasks /\ body' = Idle
Leave(how) == Enter("call", <<>>) /\ outcome' = how

\* Scratch vectors are allocated, and not initialised, where a loop begins.
Scrap == scratch' = [t \in Thread |-> Nothing]

\* The solver asks for the residuals of a point, with the Jacobian or without,
\* or for the Jacobian alone.
Evaluate ==
    /\ Alive /\ phase = "call" /\ evaluation + throws < MaxEvaluations[free]
    /\ evaluation' = evaluation + 1 /\ before' = throws
    /\ outcome' = "none" /\ failed' = FALSE
    /\ \/ Enter("residuals", Ascending(Dataset)) /\ UNCHANGED jac
       \/ Enter("factors", Ascending(Dataset)) /\ jac' = {}
    /\ UNCHANGED <<wvars, free, scratch>>

\* schedule(dynamic): the next iteration goes to whichever thread asks for it.
\* The residuals are computed by the caller alone.
Begins(t) ==
    /\ Alive /\ todo # <<>> /\ body[t] = NoTask /\ ~failed
    /\ phase = "residuals" => t = Master
    /\ body' = [body EXCEPT ![t] =
                   [task |-> Head(todo),
                    left |-> CASE phase \in {"residuals", "factors"} -> <<Head(todo)>>
                               [] phase = "stellar" -> Ascending(ParamDatasets(Head(todo)))
                               [] OTHER -> <<>>]]
    /\ todo' = Tail(todo)
    /\ UNCHANGED <<wvars, free, phase, failed, jac, scratch, outcome, calls>>

\* ParallelErrors::run once something has been thrown.
Skips(t) ==
    /\ Alive /\ todo # <<>> /\ body[t] = NoTask /\ failed
    /\ todo' = Tail(todo)
    /\ UNCHANGED <<wvars, free, phase, body, failed, jac, scratch, outcome, calls>>

InBody(t) == Alive /\ phase # "call" /\ body[t] # NoTask
Perturbed(t) == IF phase = "stellar" THEN body[t].task ELSE Unperturbed

\* synth_of_dataset for the next spectrum needs a table of weights ...
Asks(t) ==
    /\ InBody(t) /\ body[t].left # <<>>
    /\ \E k \in Key :
           /\ k = TableFor[evaluation][Head(body[t].left)][Perturbed(t)]
           /\ AskFor(t, k)
    /\ UNCHANGED jvars

\* Its model spectrum is there: a column writes that spectrum's rows into its
\* scratch vector.
Advances(t) ==
    /\ body' = [body EXCEPT ![t].left = Tail(@)]
    /\ scratch' = IF phase = "stellar"
                  THEN [scratch EXCEPT ![t] =
                           [r \in Rows |-> IF r \in RowsOf(Head(body[t].left))
                                           THEN body[t].task ELSE @[r]]]
                  ELSE scratch
    /\ UNCHANGED <<free, phase, todo, failed, jac, outcome, calls>>

\* ... or it is in the spectrum cache.
FromSpectrumCache(t) ==
    /\ InBody(t) /\ body[t].left # <<>> /\ pc[t] = "out"
    /\ Advances(t) /\ UNCHANGED wvars

GetsTable(t) ==
    /\ InBody(t) /\ pc[t] = "ready"
    /\ Take(t) /\ Advances(t)

\* Mutant of Escapes: run() catches an exception and keeps none.
EscapesUnkept(t) ==
    \/ phase = "residuals" /\ Leave("threw") /\ UNCHANGED failed
    \/ /\ phase = "anchors" /\ outcome' = "died"
       /\ UNCHANGED <<phase, todo, body, failed>>
    \/ /\ phase \in {"factors", "telluric", "stellar"}
       /\ body' = [body EXCEPT ![t] = NoTask]
       /\ UNCHANGED <<phase, todo, failed, outcome>>

\* An exception leaves the body of t.  From the serial pass it goes to the
\* solver; run() keeps it; the anchors' loop has no run(), and an exception
\* that leaves an OpenMP region ends the process.
Escapes(t) ==
    \/ phase = "residuals" /\ Leave("threw") /\ UNCHANGED failed
    \/ /\ phase = "anchors" /\ outcome' = "died"
       /\ UNCHANGED <<phase, todo, body, failed>>
    \/ /\ phase \in {"factors", "telluric", "stellar"}
       /\ failed' = TRUE /\ body' = [body EXCEPT ![t] = NoTask]
       /\ UNCHANGED <<phase, todo, outcome>>

TableFails(t) ==
    /\ InBody(t) /\ pc[t] = "failed"
    /\ Take(t) /\ Escapes(t)
    /\ UNCHANGED <<free, jac, scratch, calls>>

\* Anything else in a body throws: a grid file, a spline, an allocation.
Fails(t) ==
    /\ InBody(t) /\ pc[t] = "out" /\ throws < MaxThrows
    /\ throws' = throws + 1
    /\ Escapes(t)
    /\ UNCHANGED <<table, held, inflight, limit, pc, want>>
    /\ UNCHANGED <<free, jac, scratch, calls>>

\* A thread's own p_eps or r_eps cannot be allocated: that is inside the region
\* and outside run().  A thread that has written nothing yet stands for one that
\* has not reached the loop.
ScratchFails(t) ==
    /\ Alive /\ phase \in {"telluric", "stellar"}
    /\ body[t] = NoTask /\ scratch[t] = Nothing /\ throws < MaxThrows
    /\ throws' = throws + 1 /\ outcome' = "died"
    /\ UNCHANGED <<table, held, inflight, limit, pc, want>>
    /\ UNCHANGED <<free, phase, todo, body, failed, jac, scratch, calls>>

\* Column c gets what a vector of rows holds for the rows of the spectra D.
Segments(c, D, r) ==
    {x \in jac : ~(x[2] = c /\ \E d \in D : x[1] \in RowsOf(d))}
        \cup UNION {{<<i, c, r[i]>> : i \in RowsOf(d)} : d \in D}

\* One spectrum's rows redone with another telluric transmission.
TelluricRows(j, r) ==
    [i \in Rows |-> IF i \in RowsOf(OwnerOf(j)) THEN j ELSE r[i]]

Completes(t) ==
    LET j == body[t].task
    IN  /\ InBody(t) /\ pc[t] = "out" /\ body[t].left = <<>>
        /\ body' = [body EXCEPT ![t] = NoTask]
        /\ jac' = CASE phase = "anchors" ->
                         LET d == OwnerOf(j)
                             fit == AnchorPixels(d, j - ContOffset(d)) \cap Fitted[d]
                         IN  jac \cup {<<RowOfPixel(d, i), ColumnOf(j), j>> : i \in fit}
                    [] phase = "telluric" ->
                         Segments(ColumnOf(j), {OwnerOf(j)}, TelluricRows(j, scratch[t]))
                    [] phase = "stellar" ->
                         Segments(ColumnOf(j), ParamDatasets(j), scratch[t])
                    [] OTHER -> jac
        /\ scratch' = IF phase = "telluric"
                      THEN [scratch EXCEPT ![t] = TelluricRows(j, @)] ELSE scratch
        /\ UNCHANGED <<wvars, free, phase, todo, failed, outcome, calls>>

LoopDone == Alive /\ todo = <<>> /\ body = Idle

\* An allocation before or between the loops: the matrix, r0, a list of tasks.
SerialFails ==
    /\ phase \notin {"call", "stellar"} /\ LoopDone /\ ~failed /\ throws < MaxThrows
    /\ throws' = throws + 1
    /\ Leave("threw")
    /\ UNCHANGED <<table, held, inflight, limit, pc, want>>
    /\ UNCHANGED <<free, failed, jac, scratch, calls>>

\* The residuals are all the caller asked for.
ReturnResiduals ==
    /\ phase = "residuals" /\ LoopDone
    /\ Leave("residuals")
    /\ UNCHANGED <<wvars, free, failed, jac, scratch, calls>>

\* The matrix is zeroed and every spectrum's three factors are computed.
StartFactors ==
    /\ phase = "residuals" /\ LoopDone
    /\ Enter("factors", Ascending(Dataset))
    /\ failed' = FALSE /\ jac' = {}
    /\ UNCHANGED <<wvars, free, scratch, outcome, calls>>

\* errors.rethrow() behind a loop.
Rethrows ==
    /\ phase \in {"factors", "telluric", "stellar"} /\ LoopDone /\ failed
    /\ Leave("threw")
    /\ UNCHANGED <<wvars, free, failed, jac, scratch, calls>>

StartAnchors ==
    /\ phase = "factors" /\ LoopDone /\ ~failed
    /\ Enter("anchors", Ascending(AnchorTasks))
    /\ UNCHANGED <<wvars, free, failed, jac, scratch, outcome, calls>>

StartTelluric ==
    /\ phase = "anchors" /\ LoopDone
    /\ Enter("telluric", Ascending(TellTasks))
    /\ Scrap
    /\ UNCHANGED <<wvars, free, failed, jac, outcome, calls>>

StartStellar ==
    /\ phase = "telluric" /\ LoopDone /\ ~failed
    /\ Enter("stellar", Ascending(StellarTasks))
    /\ Scrap
    /\ UNCHANGED <<wvars, free, failed, jac, outcome, calls>>

Return ==
    /\ phase = "stellar" /\ LoopDone /\ ~failed
    /\ Leave("returned") /\ Scrap
    /\ UNCHANGED <<wvars, free, failed, jac, calls>>

\* A call into the weight caches goes on inside a body.
InCaches(t) == Alive /\ CallStep(t) /\ UNCHANGED jvars

Works(t) ==
    \/ Begins(t) \/ Skips(t) \/ Asks(t) \/ FromSpectrumCache(t)
    \/ GetsTable(t) \/ TableFails(t) \/ Fails(t) \/ ScratchFails(t)
    \/ Completes(t) \/ InCaches(t)

LoopStep ==
    \/ ReturnResiduals \/ StartFactors \/ Rethrows \/ SerialFails \/ StartAnchors
    \/ StartTelluric \/ StartStellar \/ Return

\* What goes on around the call.
Meanwhile ==
    /\ Alive
    /\ LimitMoves \/ \E t \in Thread : WakesAlone(t)
    /\ UNCHANGED jvars

Next ==
    \/ Evaluate
    \/ LoopStep
    \/ \E t \in Thread : Works(t)
    \/ Meanwhile

Spec == Init /\ [][Next]_vars

\* The threads of the team are scheduled, and every build terminates.
Fairness == WF_vars(LoopStep) /\ \A t \in Thread : WF_vars(Works(t))

FairSpec == Spec /\ Fairness

-----------------------------------------------------------------------------
(* Properties.                                                             *)

Entries(j, r) == {x[3] : x \in {y \in jac : y[1] = r /\ y[2] = ColumnOf(j)}}

\* Spectra a parameter can move, from where the parameter lives.
Moves(j) == IF j < Stellar THEN ParamDatasets(j) ELSE {OwnerOf(j)}

\* The continuum at pixel i of spectrum d depends on ordinate k.
InSupport(d, k, i) == k \in OrdinatesAt(Knots[d], Lambda[d][i])

\* A Jacobian that was returned has in the column of each free parameter a
\* difference with respect to that parameter in every row the parameter can
\* move, and nothing in rows of spectra it cannot: whichever thread computed
\* which column, with scratch vectors that start as junk, columns packed by the
\* free mask, rows counted over the fitted pixels and anchors' windows clipped.
JacobianRight ==
    outcome = "returned" =>
        \A j \in free : \A d \in Dataset : \A i \in Fitted[d] :
            LET e == Entries(j, RowOfPixel(d, i))
            IN  /\ e \subseteq {j}
                /\ d \notin Moves(j) => e = {}
                /\ d \in Moves(j) /\ (j < ContBase \/ InSupport(d, j - ContOffset(d), i)) =>
                       e = {j}

\* What becomes of an exception, wherever and in whichever thread it comes up: a
\* call that returns has had none, a call that throws has had one of its own, not
\* one kept from an earlier call, and the process is only gone after an exception
\* or for a list that a lookalike key has emptied.  It takes run() and rethrow() in
\* three loops, the builders' handlers and the threads that sleep on them.
FailuresAnswered ==
    /\ outcome \in {"residuals", "returned"} => throws = before
    /\ outcome = "threw" => throws > before
    /\ ~Alive => throws > 0 \/ (table # "rot" /\ \E k \in Key : Alike(k) # {k})

\* An exception fails its fit alone: it no longer takes down the process
\* (ParallelErrors.hpp:8-14), and "a builder that throws wakes the waiters instead of
\* stranding them" (RotationalConvolution.cpp:280-281).  The process does go down where
\* a parallel region allocates outside run() (the anchors' loop, the scratch vectors,
\* both compute_weights), and an insertion of instrumental weights does strand.
FailsOnlyItsFit == throws > 0 => Alive /\ WaitsForABuilder

\* A marker nobody is going to clear.
Stranded ==
    \E k \in inflight : ~\E t \in Thread : Building(t) /\ want[t] = k

\* Every evaluation comes to its end, although its threads sleep on tables one
\* another builds: it returns or throws, unless an instrumental insertion that
\* threw left its marker behind, or the process died.
EvaluationEnds ==
    phase # "call" ~> (phase = "call" \/ Stranded \/ ~Alive)
=============================================================================
