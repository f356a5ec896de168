# A formal model of GAEL

GAEL fits observed stellar spectra with grids of synthetic ones. A fit is a
least-squares loop over a model that is expensive to evaluate, so most of the
program around the numbers is machinery that many threads share: caches of
spectra and of broadening weights, a memory budget they all draw on, a record of
which grid files are missing, and a solver that decides when to stop. This
directory models that machinery in TLA+, checks it with TLC on small instances,
and proves what matters most with TLAPS for every size.

Paths below are relative to the repository; line numbers are those of the
commit modelled. `PROJECT.json` maps every definition to its lines.

- [Inventory](#inventory)
- [What is modelled, and how](#what-is-modelled-and-how)
- [Runs](#runs)
- [What the checks found](#what-the-checks-found)
- [Proofs](#proofs)
- [What is only model-checked, and what is not modelled](#what-is-only-model-checked-and-what-is-not-modelled)
- [Plan](#plan)

## Inventory

GAEL is a C++20 library and a command-line tool, with a Python batch runner. One
process may run several fits side by side (the library is embedded in another
program that does), each with OpenMP threads of its own.

| component | state it keeps | operations | what makes it correct | hard because |
|---|---|---|---|---|
| Spectrum cache (`SpectrumCache.*`) | process-wide map, LRU list, byte count, keys in flight, limits | `insert_if_absent`, `try_get`, limits, `clear` | a key is built once at a time, nobody sleeps for ever, list and map agree, within budget | producers run unlocked, nest and throw |
| Memory budget (`MemoryBudget.*`) | atomics: explicit total, fits, reservations, scale, stamp | `Fit` (RAII), `reserve`, `total`, `refresh_pressure_` | reservations are covered while held and gone afterwards, totals stay in range | every atomic is read at another moment |
| Model grid (`ModelGrid.*`) | axes, window, lambdas per grid; process-wide `CubeGaps` per cube, `g_probed` | `load_spectrum`, `load_element_factor`, `bridge_for`, `register_absent` | the model depends on the files alone, not on who probed what first | the table is unlocked between lookup, probe and update |
| Synthetic models (`SyntheticModel.*`) | none of its own: two levels of keys in the spectrum cache | `compute_synthetic_cached` | a fit gets the model it asked for and reports the holes under it | the cache is shared by fits with different grids |
| Weight tables (`RotationalConvolution.*`, `Resolution.*`) | three process-wide caches, each with list, bytes and keys in flight | `get_or_build`, `rotational_broaden`, `degrade_resolution` | as for the spectrum cache; and the tables, built with cursors and shared rows, are what a search per point gives | hand-written three times, in three variants, with keys compared by a tolerance |
| Solver (`SimpleLM.hpp`) | parameters, damping, counters of rejects and flat steps | one call | it ends, never returns a worse point, respects bounds | many interacting stop tests |
| Fit workflow (`UnifiedFitWorkflow.*`) | parameters, frozen set, noise scales, stage | `run`, `quick_refit`, `solve_stage` | the ladder ends; what is frozen stays | the caller, three stages and the refits freeze, each by a rule of its own |
| Cost and Jacobian (`MultiDatasetCost.*`, `ParallelErrors.hpp`) | layout of rows and columns; per call the matrix and scratch vectors | `operator()`: residuals, four parallel loops of columns | each column holds its own differences in every row it can move; an exception in a loop surfaces once, after it | threads share the matrix; exceptions must not leave an OpenMP region |
| Progress (`FitProgress.*`) | phases, high-water mark, abort latch | `add`, `expand`, `drop`, `begin`, `update`, `end`, `finish` | phases that will not run leave the estimate; an abort is obeyed while there is something left to stop | who drops a phase is decided in another file |
| Session (`GaelAPI.*`) | inputs; process-wide provider slot and `std::cout` buffer | `run` | what is installed is restored | sessions side by side |
| Grid data (`GridDataProvider.*`, `FitsLock.hpp`, `TelluricGrid.*`) | provider slot, 64 striped file locks, telluric cube | localise, read | one thread per FITS file | locks of several kinds nest |
| Command line (`main.cpp`) | status file, result file, parameter table, `g_terminate` | parse, fit, report, SIGTERM | a report that exists is whole and tells how the run ended | kills and failing files between any two steps |
| Batch runner (`run_gael_parallel.py`) | folders to process, what became of each | filter, pool of workers, summary | a folder that counts as done has its table, nobody's table is overwritten | runs overlap and die half way; the table itself is the record |
| Continuum, splines, rebinning (`ContinuumUtils.cpp`, `AkimaSpline.cpp`, `Rebin.cpp`) | none between calls | placing knots, evaluating, integrating | knots can be told apart; a cursor finds what a search would | points out of order, on a pixel, beyond the ends |
| Loaders, JSON, plots | none between calls | pure functions | numerical | - |

Who calls whom: the solver asks `MultiDatasetCost` for residuals; that calls
`compute_synthetic_cached` for each dataset and component, in parallel; that asks
the spectrum cache for the *final* spectrum, whose producer asks it for the
*surface* spectrum, whose producer calls `ModelGrid::load_spectrum`, which asks it
for the *corners* of the grid cell, whose producers read files. A corner that
turns out to be missing throws `MissingGridFile` out of the cache into
`load_spectrum`, which registers a hole, and plans the cube again. Every
insertion asks `MemoryBudget` how large the cache may be, and that may sample
the machine's free memory on the way.

The list of hazards is in `PROJECT.json`, each at its line, with the properties
that cover it, or why none does.

## What is modelled, and how

### SpectrumCache, SharedBuilds, SpectrumCacheRefinement

`SpectrumCache` models the whole class. One action is one critical section of
`mtx_`: what happens in between is invisible to other threads. A thread's
position in `insert_if_absent` is `pc`; the producers it is in the middle of are a
`stack`, because a producer calls back into the cache. A producer is modelled by
what it may do to the cache: ask for any key of the layer below (`Ask`), return
(`Publish`), or throw (`Throw`, then `Unwind`, which is `~FlightGuard`). After
`Unwind` the exception either ends in the producer further out, as in the corner
loop, or passes through it.

| code | action |
|---|---|
| `insert_if_absent` called by a fit / by a producer | `Call`, `Ask` |
| the loop under the lock: hit, claim, wait | `Hit`, `Claim`, `Block`, `SpuriousWake` |
| insertion, `evict_if_needed_`, `notify_all` | `Publish` (with `Trim`, `NotifyAll`) |
| a producer throws, `FlightGuard` | `Throw`, `Unwind` |
| `try_get`, `set_capacity`, `set_memory_budget`, `ensure_memory_budget`, `clear` | actions of those names |
| `MemoryBudget` seen from here | `BudgetMoves` |

Eviction is a loop that pops the list's back until the cache is within its
limits. It is one operator, `EvictTo`: the length the list is cut to, with the
map and the byte count computed by what the loop's body does to them (including
the subtraction that stops at zero and an erase that finds nothing), so that a
list out of step with the map would show. `ensure_memory_budget` reads its share
before it takes the lock, hence its second argument.

`insert_if_absent` looks the key up again after building it, "evicted-and-refilled in between", and `Publish`
has that branch. It is dead: `NoWastedBuild`, proved, says that it is never taken.

`SharedBuilds` is what the cache promises, without lists, limits or condition
variables: each key is absent, being built by one thread, or available; a build
ends in a value or is given up; a value may be forgotten at any time.
`SpectrumCacheRefinement` maps one to the other, and `ImplementsSharedBuilds` is
checked by TLC and proved.

### MemoryBudget, PressureValve

`MemoryBudget` has one action per atomic access: a fit starts, adds its
reservation, subtracts its previous one, subtracts the last, ends; a reader loads
the explicit total, the number of fits, the reservations (for the floor), the
reservations again, and the scale, in that order, and computes with what it has
(`TotalFor`). Megabytes are small integers, and the fixed fractions are
constants. One reader is enough: readers change nothing.

`PressureValve` is `refresh_pressure_`: clock, load of the stamp, test, compare
and exchange, free memory, load and store of the scale. Time would grow without
bound, but only differences matter, so a time is kept as its age, and an age
past `MaxAge` makes no difference. `current` says that the stamp still has the
value the thread loaded, which is what compare-and-exchange tests. `MaxStall`
bounds how long a thread may be held up between reading the clock and the
exchange; it is longer than zero, or the race could not happen.

### GridHoles

The "Holes in a grid" part of `ModelGrid.cpp` with the two loops that use it.
The state is the process-wide table of one cube (`absent`, `bridges`, `probed`),
the files, which corners the spectrum cache holds, and what each thread has in
its local variables. Actions are critical sections (`Plan`, `Lookup`, `Look`,
`NoteLost`, `NoteFound`, `Choose`, `Missing`) and file accesses (`Probe`, `Fetch`).
Of the interpolation weights the model keeps which are zero; a bridge hands
weight from a node to its two neighbours on an axis. A file is sound, gone or
broken, and a broken one may make the existence test fail too. Every axis is ascending
(`AxesAssumption`), as the code takes for granted where it searches one with `std::lower_bound`.

`Rule` is the reference: the axis a missing node is bridged along, given which
files exist, as the comment at ModelGrid.cpp:174-187 has it. It is not mapped:
nothing in the code computes it in one piece. `ModelByTheRule` compares every
completed evaluation with it.

The prefetch of corners in `load_spectrum` is left out, as it only fetches into
the cache what the loop would. `note_gaps` is the first pass of `bridge_gaps`
without the fetches and is not repeated.

### ModelCache

`compute_synthetic_cached` as several fits see it. The final and the surface
spectrum are one entry, because their keys are made of the same things. What is
cached carries the grid it was made from and the holes it leans on. The
SpectrumCache's single flight appears as the claim of a fit on an entry. Its specification is
`ModelsSpec`, so that one module can extend it and `GridHoles`.

### LMSolver, Descent

`LMSolver` is one call of `levenberg_marquardt`. An action is one iteration of its
loop, named for how it ends: `Cancelled`, `GradientStop`, `NumericStop`, `BackOff`,
`StepStop`, `Reject`, `Accept`, `AcceptFlat`, `AcceptLast`, or the cost function
throws at one of the three places it is called from. The numbers are abstracted to what the
control asks of them: a *landscape* gives, at every point of the box, chi2 and the
sign of each parameter's gradient (0 where its gradient test passes). What step
the damped equations yield is open: any point of the box that moves neither a frozen nor a held
parameter, with any smallness and any prediction, so the value of the damping
does not matter and is left out. The gradient need not fit chi2, as finite
differences do not.

Residuals, Jacobian and normal equations are represented by the point they were
evaluated at. The code keeps them apart on purpose: the Jacobian only follows
when a step is kept (SimpleLM.hpp:657-663), and the normal equations only when
`jacobian_is_stale` (458-463). `Coherent` says that they always meet again.

| code | action or operator |
|---|---|
| `n_free == 0`; `func(x, &r, &J)` | `NothingFree`; `FirstEvaluation` |
| `iteration_callback` returns false | `Cancelled` |
| rebuild if stale, active bounds, `cos_max` | `Rebuild`, `Equations`, `Active`, `GradientSmall` |
| step below `step_tolerance` | `BackOff`, `StepStop` |
| `accept`, `x.swap`, `func(x, nullptr, &J)` | `Better`, `Move`, `ThrowAtJacobian` |
| `chi2_tolerance`, `flat_steps` | `AcceptLast`, `AcceptFlat`, `Accept` |
| `consecutive_rejects` | `Reject` |
| `final_chi2`, uncertainties | `Finish` |

`Descent` is what a stage of the fit expects: the point only moves to a better
one, within the bounds and along free parameters, and the report is of the point it stopped
at, unless the cost function throws. `FitWorkflow` rests on the part of it that
does not need chi2.

### FitProgress, FitWorkflow

`FitWorkflow` is one fit: `GaelSession::run` from reading the spectra to the
result, with the stage ladder of `UnifiedFitWorkflow::run` and the ensemble of
warm refits. `FitProgress` is the tracker it reports to. The tracker's plan
operations (`Expand`, `Weigh`, `Drop`) are operators on the sequence of phases, so
that a stage that drops one phase, weighs another and begins it stays one action;
`Publish` is where the host's callback may ask for an abort.

A parameter is a component and a name; it has one slot of the vector, or one per
spectrum if its name is untied (`Slot`). Four names stand for the table: `vrad`,
which only stage 2 and 3 ask for by themselves, `vsini` and `sur_ratio`, which stages
5 and 5b set, and `teff` for every axis of a grid. Values are 0 to `AxisMax`, and
a solve leaves a free one anywhere within its bounds: what stages decide from is
whether a value is below a threshold or on a bound. A solve first clamps every value, frozen ones
too, as solve_stage does. Sigma is represented by how often it was scaled, and
whether a noise pass asks for another one is open.

| code | action |
|---|---|
| `run_impl` to the workflow's constructor; no spectrum left | `Read`; `ReadFails` |
| `plan_stages` | `PlanStages` |
| `enter_phase`, for stages that always solve | `Enter` |
| `stage5_auto_freeze_vsini` up to its solve, or its early return | `FreezeVsini` |
| `stage5b_auto_freeze_sur_ratio` likewise | `RetireSecondaries` |
| a pass of `stage6_rescale_and_reject` up to its solve; its end | `NoisePass`; `NoiseDone` |
| `stage7_final` after its first solve | `FreezeBoundary` |
| `solve_stage`; `leave_phase` | `Solve`; `Leave` |
| anything that throws | `Fails` |
| result, `frozen_ens`; one refit; `finish` | `Collect`; `StartRefit`; `Finish` |

The whole fit runs on one thread (the parallel loops inside a solve or a noise
pass join before it ends), so there is nothing to interleave but the callback's answer, which
may come with any report.

### WeightCaches, CostJacobian, Continuum

`WeightCaches` is one model of three caches that were written three times: per-point
rotation tables (`LRUCache`), rotation segments (`g_segCache`) and instrumental
weights (`Resolution.cpp`). They share no lock and no state, so a behaviour is about
one of them, `table`, chosen at the start. What differs is kept: the per-point cache inserts and
clears its marker in two critical sections (`Puts`, `ClearsMarker`), the others in
one (`Publishes`); it moves a list node by its iterator (`Spliced`), they remove by
`operator==`; it alone looks whether there is anything left to pop; and an exception of an
insertion leaves each in another state (`InsertThrows`). Keys are doubles: `Alike` is
`operator==` with its tolerance, while the map goes by the exact hash.

| code | action |
|---|---|
| the loop under the lock: hit, claim, wait | `FindsIt`, `ClaimsIt`, `Sleeps`, `WakesAlone` |
| `put`, `~FlightGuard` of the per-point cache | `Puts`, `ClearsMarker` |
| insertion, eviction and `notify_all` of the others; `back()` of an empty list | `Publishes`; `Corrupts` |
| `compute_*` throws in its serial part, the guard or handler | `BuildThrows`, `Unwinds` |
| `compute_weights` throws in its parallel part, which nothing catches | `BuildDies` |
| the insertion throws between its containers | `InsertThrows` |
| the share or the entry cap changes | `LimitMoves` |

`CostJacobian` extends it with `MultiDatasetCost::operator()`: the phases are its
loops (`residuals`, `factors`, `anchors`, `telluric`, `stellar`), iterations go to
whichever thread is free, and a body that computes a model spectrum makes the calls above on its way.
An entry of the matrix is represented by the parameter it is a difference with
respect to; a scratch vector starts as junk, since the code does not initialise
it. `Escapes` is what becomes of an exception that leaves an iteration, in each phase: the serial pass lets it out,
`ParallelErrors::run` keeps it, and the anchors' loop has no `run()`. `ScratchFails` is an exception of the
scratch vectors, which the telluric and stellar loops allocate inside their parallel region and outside `run()`;
`SerialFails` one of the serial code between the loops. `before` is how many exceptions
there had been when the evaluation began.

| code | action |
|---|---|
| constructor | operators `RowOffset`, `RowOfPixel`, `ContBase`, `ParamDatasets`, ... |
| `operator()` up to the residuals; without a Jacobian | `Evaluate`; `ReturnResiduals` |
| one iteration: start, each spectrum, end | `Begins`, `Asks`, `GetsTable` or `FromSpectrumCache`, `Completes` |
| an exception in an iteration; the iterations after it; `rethrow` | `TableFails`, `Fails`; `Skips`; `Rethrows` |
| an exception in the region but in no iteration; between regions | `ScratchFails`; `SerialFails` |
| from loop to loop | `StartFactors`, `StartAnchors`, `StartTelluric`, `StartStellar`, `Return` |

`Continuum` has what the spline's knots and ordinates mean as pure operators:
`Anchors` is `anchors_from_intervals`, `OrdinatesAt` the ordinates `AkimaSpline`'s
value at a point is computed from. The latter is what `JacobianRight` holds the
anchors' windows against: an anchor's column must be filled wherever the curve depends on it.

`Lists` has two operations on lists that `WeightCaches`, `Continuum` and `GridHoles` share, `Ascending` (a set
sorted) and `Only` (what `std::list::remove` leaves), written without recursion over the list.

### RunReport, BatchRunner

`RunReport` is one run of `main` as its files show it. A file's content is which
start wrote it, what it says, and whether it is whole; the temporary name and
the final one are separate variables, and writing and renaming separate
actions, so that a kill falls between them. `Breaks` is an operation on a file that fails.
The fit is one place, from which the run ticks, ends, is stopped or throws.

| code | action |
|---|---|
| parsing, up to `GaelSession` | `BadOptions`, `Parses`, `Configures` |
| `--version`, `--help`, no `--fit`; `--output-synthetic` | `ShowsHelp`; `WritesSynthetic` |
| the progress callback, with either report or `GAEL_PROGRESS=1` | `Ticks`, `TickRenames`, `Aborts` |
| `run()` returns | `Finishes` |
| `write_result_json` | `WritesResult`, `Publishes` |
| `StatusFile::finish`; exit code 2 | `Declares`, `DeclareRenames`; `Declared` |
| `write_fit_parameters_csv`; `write_model_dats` | `OpensTable`, `WritesRows`, `ClosesTable`; `Leaves` |
| the handler | `Throws`, `DeclaresFailure`, `FailureRenames`, `ReportsFailure`, `FailurePublishes`, `LeavesFailed` |
| SIGTERM; SIGKILL, out of memory | `Sigterm`; `Killed` |

`BatchRunner` extends it with the runners of `run_gael_parallel.py`: `Filters` is the
first look at the tables, `Takes` the second, `Spawns` a `Popen`, `Ends` the exit code, `Loses` an
exception in a worker, `Dies` the death of the runner, whose GAELs go on. A table is the only
thing runners and GAELs share, and the only record of what is done.

### Scans

The index searches of the convolution and resampling routines, each of which the
code has turned from a binary search per point into a cursor, as operators on
integer grids; a weight is represented by where it comes from. `Windows`, `Core` and `Applied` are
the segments of `compute_segments` and `apply_segments`, with the one row all points of a uniform grid
share, and the actions are the memo that decides whether a grid is uniform (`Recalls`, `Records`), asked by several
threads, and only of grids of three points or more (`Wonders`). `SplineScan`, `Multiplied`, `Interpolated`, `Unrotated`, `Integrated` and `Kernel` are the other
scans. The reference definitions (`Searched`, `SplineInterval`, `LowerBound`) are the searches they replaced.

## Runs

All runs finish within three minutes; `expect` is `violation` for the six that
reproduce a disagreement between the code and what its comments say. Three passing runs hold two components each
(`models`: `GridHoles` and `ModelCache`; `evaluations`: `LMSolver` and `CostJacobian`; `fit`: `FitWorkflow` and `Scans`),
as `budget` does. The two have no variable in common, so a behaviour moves one of them, which `running` says, and leaves the
other in one initial state. What they would show side by side is what they show one by one.

| run | asks | instance | result |
|---|---|---|---|
| `cache` | is the spectrum cache exact and within its limits, does it implement the abstract one, does every call return | 3 threads, 3 keys in 3 layers, 1 call each, 1 throw, `clear`, budgets 2 and 5; with `moving`, 2 of the threads and also shares of 4 and 6 and entry caps of 0 (off), 1 and 2, which change at any time | 107 000 states, holds |
| `budget` | reservations and totals; how often the valve samples, does it follow | 2 fits, 1 reader, reservations of 2 and 5, explicit totals 0 (automatic), 1 and 8; beside them 3 threads in the valve, interval 2, stall 2 | 745 000 states, holds |
| `models` | is the model determined by the files, does the loop end; are holes reported, nothing unfinished | 4x3 grid, 2 threads, 2 cells, 5 file trees, 1 vanishing file; 3 fits, 2 grids, 2 parameter sets, 2 holes | 408 000 states, holds |
| `holes_livelock` | does the loop end if a file vanishes while others work | one hole | violated |
| `models_two_grids` | own grid | the fits of `models` | violated |
| `evaluations` | one point, stops as the tests allow, held parameters, refinement; is every column its own; one builder, evictable entries; what does an exception do; does every evaluation end | 2 parameters of 3 positions, every start and free set, 3 landscapes, 6 iterations; 2 threads, each of the 3 caches, 2 spectra of 9 and 2 pixels, 2 free sets, up to 3 evaluations, keys at a distance of 1 under a tolerance of 2, 1 exception | 175 000 states, holds |
| `solver_promised` | is convergence what the header says it is | the solver of `evaluations` | violated |
| `jacobian_fatal` | does an exception fail its fit and nothing else | the evaluations of `evaluations` | violated |
| `fit` | do freezes hold, is the plan paid off, is an abort obeyed; do cursors find what searches find; do knots stay apart | 7 requests: 1 or 2 components and spectra, every variant of the ladder, a name untied or none, 0 to 2 refits, with and without a callback; every ascending grid of 3 to 5 of 5 points, one of 2 and one with a point twice, every 3 output points of 6, kernels 1 and 2; 4 grids onto themselves by 2 threads, memo of 2 | 182 000 states, holds |
| `fit_match` | do refits hold what they hold at the solution | 1 component, 2 spectra, untied temperature, 1 refit | violated |
| `report` | do reports and tables tell what happened; does a run end | 2 runners with one folder in common, one of them forcing, or 1 GAEL by hand started twice with 9 command lines; 1 failing file operation, 1 kill, SIGTERM | 239 000 states, holds |
| `report_promised` | do the reports do what a monitor is told they do | the same | violated |

Why these bounds are enough to see the interesting cases:

- *Cache.* Three layers are the depth the code has, one key in each the least in which a waiter
  sits inside a producer. A budget of 2 is smaller than a surface, so the cache keeps
  one oversize entry; 5 holds two. Three threads are needed for liveness: a sleeper may wake after the entry was
  evicted and find a third thread building it again. The entry cap is 0 there, which is off, and the share of the machine
  does not move. With `moving` both do, and the third thread stays out: 1 and 2 are caps below the number of keys, and the
  share is read before the lock is taken, so that it may be old when it is used. Two threads are enough there, one to change a
  limit and one to insert.
- *Budget.* Two fits are the least where one starts or ends while the other
  replaces its reservation. 13 (free share), 6 (modest) and 9 (ceiling) put one
  and two fits on either side of the clamp in `auto_total`.
  The budget and its valve meet only in `scale_`, which `MemoryBudget` lets take any of its values
  at any time; so `MCMemoryBudget` explores each with the other at rest.
- *Valve.* With an interval of 2 and a stall of 2 a thread can be overtaken by a
  whole interval. Three threads show that the burst is bounded by the number of
  threads, not by two.
- *Holes.* The first axis is uneven, so that adjacent holes prefer different axes;
  the five trees are: one hole; two side by side that may not lean on each other;
  one with one axis left; one with none; one next to a broken file. One cell has
  corners of weight zero. `Fragile` limits vanishing and eviction to the hole's two
  neighbours, the files whose loss changes the answer. Deadlock is not
  checked: threads have a fixed number of evaluations and stop.
- *Solver.* Limits of 2 stand for 12 rejects, 3 flat steps and 8 backoffs: with two a
  counter can be reset half way. Six iterations let a series of flat steps be
  broken by a gaining one and begin again, and end by the budget. The landscapes
  are a bowl with its minimum inside, a valley with its minimum on a bound, and a
  slope with wrong gradients and a point where the model is not a number; flat
  means a gain below 2, so that gains of 1 are flat. Deadlock is not checked: the
  call returns.
- *Fit.* Three values give a parameter an interior and both bounds, and a threshold
  of 1 is met by one of them. Each request leaves at most three slots free; between them
  they cover the four ladders, a secondary dropped up front, retired in stage 5b, or kept until
  stage 7 finds its ratio at 0, a name untied in two spectra, and a frozen
  temperature above its grid. Two noise passes are the least that can
  scale sigma twice, two refits the least where one follows another. Deadlock
  is checked: a fit that is over may only rest.
- *Jacobian.* The first spectrum has an anchor whose window is clipped by neither end and
  pixels on, inside and outside both edges of it; the second is shorter than a window. One free set has that
  anchor alone, the other a tied and an untied stellar parameter, a telluric one and an anchor of the second spectrum.
  The keys of successive evaluations are alike and those of the first and third are not, since
  `operator==` with a tolerance is not transitive. Limits of two entries or three bytes make tables evict one another.
  Deadlock is not checked: evaluations are counted.
- *Report.* Two starts over the same files let a report of the first be taken for one of
  the second; one fault and one kill fall between any two steps; what more of
  them do is for the proof, for which `Reported` counts the faults. The nine command lines are every choice of the two reports, and
  one each for a synthetic spectrum, a status file with `GAEL_PROGRESS_ABORT_AFTER`, a callback without a report, options that
  cannot be parsed, and help. Two runners with a common folder, one worker each. Deadlock is not
  checked: everything ends.
- *Scans.* Five grid points are enough for every place a point can have to a
  window of one or two: before, on, between and behind pixels, uneven steps on either side. Three output points
  are the least where the middle one steps back and the last goes on. For the shared core
  two grids have nine points, one uniform and one not but with the same probe; one of six is unlike both, and one of
  two is never asked about. A memo of two has to forget. The same three points stand for the ends of two overlapping intervals of anchors.
- *Models.* Two fits on one grid and one on another, which evaluates at one of the two parameter sets; one hole is
  below both sets, one below one.

Fairness. `cache`, `budget` (its valve), `models` (the threads at the grid) and `evaluations` (those of the evaluation) assume weak fairness of each thread's own
steps: a thread inside the cache or the corner loop is running code, not waiting
for input, and the system's scheduler gets to it. Nothing is assumed of the
environment: no fit has to start, no file has to vanish, the limits need not move.
A producer makes at most `MaxAsks` calls and then returns or throws, as every
producer of the code does. The valve also assumes that time passes and that the budget
goes on being asked for, as it is on every insertion while fits run. `evaluations` assumes that a build ends. `report`
assumes that a GAEL that can go on does and its fit ends, and that a runner's workers proceed. `fit` assumes
that the one thread that runs the fit goes on; each solve ends, which `LMSolver` bounds by its
iteration budget, and a callback returns. A critical section is one
step, always enabled for a thread at `lookup`, so the assumption includes that a
thread does get the mutex in the end.

Each property has a mutant in `PROJECT.json`: a plausible bug, written next to the
definition it replaces, with which TLC finds the property violated.

## What the checks found

Six runs show where the program does not do what its comments say. Three of their properties are conjunctions, of
promises that are broken independently: each conjunct is violated by itself as well.

1. **`holes_livelock`**, ModelGrid.cpp:367. `bridge_for` puts its choice on record without
   checking that the table was cleared since it chose. If a neighbour's file
   disappears meanwhile and another thread registers it, the stale bridge stays:
   the neighbour is already registered, registering it again clears nothing, and the
   corner loop runs for ever ("each round registers one more missing file, so this
   ends", line 1167). It takes a file that disappears while two threads work;
   `LoadsEndUndisturbed` says that nothing less will do.
2. **`fit_match`**, GaelAPI.cpp:907. The refits start every spectrum from
   `model.params`, and that is the first spectrum's solution. What stage 7 froze at a bound
   under an untied name is then held for the other spectra at a value that was
   never theirs, although "Freeze in the ensemble exactly what the main fit ended frozen
   on ..., so the refits match the solution" (lines 879-880). The set frozen
   is right, which `RightlyFree` shows; the values are not.
3. **`models_two_grids`**, SyntheticModel.cpp:366. The keys of the final and of the
   surface spectrum name neither the grid nor its directory. Two fits on different
   grids, or two components of one, that meet at equal parameters serve each other's
   models. The corner cache has the grid in its key for this reason
   (ModelGrid.cpp:1033), and ModelGrid.hpp:146 says "Every model cache keys on it,
   so fits that build their models differently never serve each other's spectra".
4. **`solver_promised`**. "Stalled" is defined by a last step that was "already flat" (SimpleLM.hpp:45-46), and
   flat by the actual and the predicted gain (43-44). The code looks at the actual gain alone (743), so that a step which promised
   more than it gave ends in convergence (`StalledOnFlatStep`). And if chi2 is not a number at the start, no column is looked
   at (533), the gradient test passes and the call returns converged, although "*every* free parameter has to pass it" (515;
   `GradientVanishes`).
5. **`jacobian_fatal`**. Both `compute_weights` (RotationalConvolution.cpp:371-462, Resolution.cpp:221-254), the anchors' loop
   (MultiDatasetCost.cpp:308) and the scratch vectors of the other two loops (391-392, 445-446) allocate in a parallel region
   and outside `ParallelErrors::run`. An exception there ends the process, which is what
   ParallelErrors.hpp:8-14 was written to prevent. And an insertion of instrumental weights that throws leaves its marker
   (Resolution.cpp:464), so that whoever asks for that key sleeps for ever; "one thread computes a given weight set, the others wait
   for it" (423-426). The per-point cache has the guard this takes (RotationalConvolution.cpp:280; `WaitsForABuilder`).
6. **`report_promised`**. `--help`, `--version`, a missing `--fit`, options that cannot be parsed and
   `--output-synthetic` (main.cpp:374-405) all end the process without a word in the reports it was asked for, although "a monitor watching
   only these files must see every outcome" (287-288; `EveryOutcomeReported`). A fit that is "done", in the status and in the
   result, becomes "failed" in both if the table's directory cannot be made (514); "a remote monitor can rely on its appearance
   alone" (496-498; `OneOutcomeTold`). And the stream is not looked at after writing (295), so a full disk publishes a torn
   result, whose "existence means it is complete" (368-369; `ExistsMeansComplete`).

The properties of the passing runs beside these say what does hold, and are weaker on purpose. `StopsEarned` is what the
loop's tests allow; `FailuresAnswered` says that no exception is lost or answered twice and that the process does not
end without one (or without keys that are alike); `Reported` is about starts that got as far as
their reports, and prices what goes wrong in failed operations.

Of the holes a fit is told of. A fit notes those under its model before it asks the cache (SyntheticModel.cpp:374). One
that another fit's build discovers while this one waits for that build is under the model it is given and not in
its list, of which ModelGrid.hpp:231-233 says "this is the list of gaps that fit's models depended on".
What holds is `KnownHolesReported`: the holes known when the evaluation began are in it.

Of the fit, where no text claims otherwise in so many words. Stage 5 runs whatever `autoFreezeVsini` says: the setting is read
from JSON into `GlobalSettings::auto_freeze_vsini` (GaelAPI.hpp:38, "stage
behaviour"), and nothing reads it from there; `nitFitMax` gets as far as the
workflow's configuration and is not read either. Stages 5, 5b and 7 look
at the first spectrum's value also of an untied name. A value that is frozen out of its
bounds is clamped by the next solve, for which reason `FrozenKept` is about values
within them. The boundary refit may drive another parameter to a bound, and is not
repeated. And an abort asked for after the last solve is not an abort: the fit
returns its result, of which FitProgress.hpp says nothing.

Of the memory valve: the clock is read before the stamp, and their difference is
unsigned (MemoryBudget.cpp:343). A thread that is overtaken between the two finds a
stamp younger than its clock, takes it for a very old one, and samples again at
once, so "at most four times a second" (line 339) does not hold to the letter.
`BurstBounded` is what does: no more samples in an interval than threads can be overtaken.

Of the weight caches. Keys alike within the tolerance empty the list of the segments and
the instrumental weights while their entries stay in the map; an eviction then
calls `back()` of an empty list, which `EvictableEntries` and `FailuresAnswered` name as the only way to it besides
an insertion that threw. The comment that halves the segments' share
(907-912) wants the two rotational caches inside one share, but the per-point cache may fill all of it.
The per-point key has no interior sample of the grid, which the segments' key (872-874) was given.
The noise pass of the workflow (UnifiedFitWorkflow.cpp:935) is a parallel loop that allocates outside `run()` as well; what is inside
its iterations is not modelled.

Of the reports. No fit returns a status other than Ok or Aborted, so main's branch for the rest is never
taken. A table cut short counts as processed. A batch's GAELs have no callback and
ignore SIGTERM. The batch's display does not end once a folder has failed, as it waits for all to be completed.

Of the models themselves: `SecantNeeds` had a CASE whose guards overlapped for two knots, where TLA+ leaves
open which branch is meant and TLC takes the first; the proof of `JacobianRight` did not go through before they were
made exclusive. And `EvictableEntries` now says which
key it was that was taken for the same, and excepts nothing for the per-point cache.

Of the scans: the memo knows a grid by five numbers, so a grid that shares them with a
uniform one is treated as uniform, which `TablesRight` excepts; and the unrotated
case has no fallback for points out of order, which the rotated one has. Their proof asked three things of the
model. `Multiplied` had a CASE whose first two guards both held before the first point, and now keeps its cursor where the
code keeps it. A grid of fewer than three points never reaches the memo. And `TablesRight`
named as the other, uniform grid one that is broadened onto itself, where any grid of which the memo was asked will do.

## Proofs

`SpectrumCache_proofs`, `MemoryBudget_proofs`, `Models_proofs` (`GridHoles`, `ModelCache` and `Scans`),
`LMSolver_proofs`, `CostJacobian_proofs` (with `WeightCaches`), `FitWorkflow_proofs`,
`BatchRunner_proofs`, for every value of the constants; and `Collections`, the lemmas several of them rest on.

`Collections` is where induction over data would be wanted and is not to be had, as its theorems
take an operator. Instead it is by least counterexample: a set of naturals that is not empty has a least element
(`LeastNatural`, from the library's theorems on well-founded orders). So `MapThenSumSet`, which is a recursive
function, is shown to have a value, not to depend on the order in which elements are
taken, and to split along subsets; a finite set of numbers sorted (`Ascending`) to hold each of
them once, at its rank; and `Only` to keep what is asked for and its order. A recursive function on `0..n`, which is a
CHOOSE until it is shown to exist, exists if its steps stay in a set (`RecursionExists`); what holds
of 0 and is handed on by every step holds of all (`Upwards`).

### SpectrumCache

From the assumptions `KeyAssumption`, `LayerAssumption` (producers only ask for
keys of lower layers, which the code's three layers satisfy) and `SizeAssumption`:

| theorem | property |
|---|---|
| `TypeCorrect` | `TypeOK` |
| `OneBuilder` | `SingleFlight` (not in a run) |
| `NoBuildWasted` | `NoWastedBuild` (not in a run) |
| `WakeupToCome` | `NoLostWakeup` (not in a run) |
| `DeadlockFree` | `NoDeadlock` (not in a run) |
| `ListMatchesMap` | `LruMatchesCache` |
| `BytesRight` | `BytesExact` |
| `WithinBudget` | `LeavesWithinBudget` |
| `CacheKeepsPromise` | `ImplementsSharedBuilds` |

The four marked are not checked by a run beside their proof: the run checks the
refinement and the liveness they are steps towards.

The inductive invariant has three parts. *Flow*: types of the threads' variables;
each thread's stack descends strictly in rank (`StackRanked`), the key it wants is
below its innermost producer (`WaitsDownwards`), `SingleFlight` and `NoLostWakeup`.
`SingleFlight` alone is not inductive: popping a frame removes its key
from `inflight`, which is right only if the key is not further down in the stack,
and that is what ranks give. *Store*: the list has no duplicates and its elements
are the cached keys. *No wasted build* links the two: a key is published only by
its one builder, so it cannot have been cached meanwhile.

`NoDeadlock` is a consequence, not part of the invariant: take a sleeper whose wanted key
has the least rank. Its builder exists by `NoLostWakeup`; if it slept too it would
want a key of lower rank still. The least element is `LeastNatural`'s.

`WithinBudget` rests on `EvictToStops`: the eviction loop always has a place to
stop, at one entry at the latest, and stops at the first one. `BytesRight` adds the sum of the
footprints: what is popped is a part of what is held, so that the subtraction that stops at zero never has
to, and the sum splits along the two. `CacheKeepsPromise` maps
every action to `Start`, `Publish`, `GiveUp`, `Forget` or a stutter.

### MemoryBudget, PressureValve

All from `SizesAssumption` (figures are naturals, the floor is not above the ceiling, finitely many fits), and
for the valve from `PressureValve`'s assumption and finitely many threads.

`EightFitsNeverGetLess` (`MoreFitsNeverLess`): each figure
`total()` goes through, the automatic total, the gross budget, the floor, the net and
the scaled one, is monotone in the number of fits, and a start changes nothing else.
The invariant is only that the counters are integers.

`AccountsKept` (`Accounts`). The counters are equal to sums only if fits in the middle of a step are counted in:
`Balanced` says that the reserved sum is what all fits hold and what those inside
`reserve()` have added already, and that the number of fits is that of those that count; `Scoped`, that a fit
holds nothing out of its scope. `Locals` bounds what a `total()` under way has computed so far, from
the floor it read itself and not from the present one, since everything may have changed in between.

`BurstsBounded` (`BurstBounded`). A thread is *late* whose clock is older than the last sample. What is
inductive is that the samples out of turn and the late threads together are fewer than the
threads (`Few`): a sample out of turn uses up a late thread, and one in turn, which may make all the
others late, begins a new count and leaves one that is not: itself. `Spaced` says what a thread about to exchange knows of a
stamp that has not been moved. `BudgetTypes` (`TypesOK`) is the types of both.

### GridHoles, ModelCache

`NoOutageTurnsIntoAHole` (`HolesAreHoles`, from `LayoutAssumption`): the invariant
adds that a thread about to register a node has found it gone. The two moments are
apart, in `Probe` and `NoteLost` or in `Fetch` and `Missing`, and what keeps the
finding true is that files go and do not come back.

`HolesTypes` (`TypeOK`), with `AxesAssumption`. `Placed` says what each thread's place entails: who asks about a
neighbour is at an axis on which the hole has two of them, so that the indices `bridge_for` computes lie inside the axis.

`HolesByTheRule` (`ModelByTheRule`): the models depend on the files alone. The invariant holds as long as no
file vanishes, as does the property. *Truth*: whatever any thread has put on record,
of files, holes and bridges, is what `Rule` gives. *Round*: what a thread has bridged so far are
corners that count, each where the rule has it; those still to bridge are in its plan; and
anything else in the plan is there and stands beside such a hole, so that no bridge ever leads to another hole.
*Choosing*: while `bridge_for` goes along the axes, unlocked between any two questions, it has the best of those it is through
with. That the last one is then the rule's needs `Narrower` to be a strict weak order, which it is because extents
along ascending axes are positive. The finding `holes_livelock` is the other side: when a file vanishes, Truth is what fails.

From `ModelAssumption` alone: `ModelsTypeCorrect` (`ModelsTypeOK`; no fit is given an unfinished model)
and `CacheHidesNoHole` (`KnownHolesReported`). The invariant adds that a cached
model leans on exactly the holes its grid has next to its key, and that
what was on record when an evaluation began is in the fit's log once it has noted
it, so that the log covers models the fit did not build.

### Scans

`TablesAlwaysRight` (`TablesRight`) and `ScansAlwaysRight` (`ScansRight`), from `GridsAssumption`: a grid ascends, not
necessarily strictly, and has two points or more; output points may come in any order. Nearly all of the argument is
about the operators, for every grid.

A binary search counts the pixels below a point, and on an ascending grid these are the first ones (`LowerBoundIs`). So a walk
from anywhere not past that count ends at it (`WalkIs`), and a cursor is where the search would be as long as each point is
not before the one it was last moved for. `CursorIs` has this for window ends, which may step back and are then searched
for; `SegmentScanIs`, `UnrotatedIs`, `SplineScanIs` and `IntegratedIs` for the other scans. They differ in when they move: those
of `multiply_interp` and `interp_linear` stop for good at the first point that reaches the end, the spline's
is left behind by points below the highest yet and must not pass the next one on that account. The rebinning's ends are in order whatever the
output points are, because edges out of order are pushed past the one before (`EdgesAscend`) and a bin that is
cut to nothing asks for no end (`BinEndsAscend`).

For a row of weights every tap between the first and the last interval of its window is found by a walk from the first
(`TapInWindow`, `FillIs`), so that the row lies in the run that was allocated for it. For the shared row it takes two
more steps. Points of a uniform grid whose windows have the length and offset of the middle one are
not cut by an end of the grid (`AlikeUncut`; the middle point itself may be, if it is alone); and then all their taps, shifted by whole pixels, fall as the middle
one's do (`UniformSearch`, `TapSlides`), so that the row slid is the row searched for (`SlidIs`). The runs that are kept are
those of the points outside the core, each once, and they are written back where they belong (`RunsAre`).

The invariant of the memo, `TablesInv`, is what is left: whatever it answers was found of a grid with the same probe. TLC checked
it before it was proved.

For the knots, `KeptOf` is what the merging scan knows after each candidate: the gaps so far are wide, the last one kept is
not above the candidate, and every candidate so far is close to one kept. That there is a scan at all rests on the
candidates being finitely many, which clipping to the data makes them (`CandidatesAre`).

### LMSolver

From `SolverAssumption` (limits are positive, NaN is not an integer, landscapes are
of their type), all five properties of `LMSolver`: `SolverType`, `SolverCoherent`,
`SolverStopsEarned`, `SolverHolds`, `SolverImplementsDescent`. What `SolverStopsEarned` proves is what the loop's tests
allow, not the header's promise, which `solver_promised` refutes. The inductive
invariant `IInv` adds to them what the loop knows between iterations. `Counted`: the
last `flat` accepted steps were flat and `lastGain` is the gain of the last one,
without which nothing could be said at the moment the call stops, when it is
the counters that are looked at and not the steps. `LoopOpen`: no counter has reached its
limit while the loop goes on. `Coherent` is needed everywhere: the active set,
the gradient test and the comparison of chi2 are all made with what was computed
in an earlier iteration, and are about `x` only because that was computed at `x`. The refinement
then has two lemmas, that a move is one `Descent` allows (`MovesInContract`) and that the
report is of the point reached (`ReportsFacts`).

### WeightCaches, CostJacobian

`OneBuilderAlways` (`OneBuilder`, from `WeightKeys` and `WeightLimits`), for any threads and tasks
of `CostJacobian`. The invariant splits the property in four, which are proved one by one:
builders' keys are unlike (`Unlike`), a builder's key is marked (`Marked`), a marker
has a builder or is what a throwing insertion of the instrumental cache left (`Manned`), and who
sleeps does so on an alike marker (`Awaited`). Two keys may each be alike to a third and not to
one another, and the proof uses no more than `AlikeSymmetric`: the code's
operator== need not be transitive for this, while the hash and the list, where it would have to
be, are what `EvictableEntries` is about.

`EntriesEvictable` (`EvictableEntries`): an entry leaves the list, or fails to enter it, only by a
`remove` that goes by `operator==` or by an insertion that throws between its containers, and
neither happens to the per-point cache. And so `back()` of an
empty list takes a cache that is over its limits, hence an entry to evict that is not in the list.

`FailuresAlwaysAnswered` (`FailuresAnswered`), with `AnsweredKept` as its invariant. `before` is the count of exceptions at the
start of the evaluation. While one runs, any thrown since is in somebody's hands (a builder unwinding, a
thread about to be told) or is kept by `run()`, and one that is kept or in hands has been thrown since (`Kept`). So a loop that
ends with nothing kept has had no exception, since nobody is in the middle of anything then, and one that rethrows has had one of
its own. The process is gone only from a place that has thrown, or by the empty list.

`JacobianAlwaysRight` (`JacobianRight`) and `CostTypes` (`CostTypeOK`), from `CostAssumption` (spectra, knots and parameters are
laid out one after the other) and `MasksOfParameters`, for any number of spectra, threads, parameters and knots and any free mask.
`MatrixHeld` is the invariant behind both, and contains the one of the caches. `Clean`: an entry is in
the column and in rows of its own parameter. `Written`: an iteration has written every row of the
spectra it is done with, so that what it copies at its end is none of the junk its
thread's scratch vector came with or holds from an earlier column. `Dealt`: a column of the loop that runs is complete, or waits, or
is in the hands of a thread. `Behind`: loops that are over have left their columns complete, or something was thrown. That
rows and columns of different owners do not overlap comes from the offsets' being sums and ranks (`Collections`).
For the anchors there is `ReachCovers`: the four knots to either side that `AnchorPixels` takes
reach every pixel whose continuum depends on the anchor, for any knots, at the ends and beyond them.

### FitWorkflow

`MasksRight` (`RightlyFree`) and `FrozenStaysPut` (`FrozenKept`), from `FitAssumption`, for any
request, bounds and thresholds. Both are about moments several stages after the one that froze
something, and the invariant says what survives in between. `Bounded`: from the first solve on
every value is in its bounds, so that clamping the start of a later solve does not move a frozen
one; before it, the ladder still has its first rung. `Closing`: a ladder ends with stages 7 and 7b, and so the mask
the result is taken from is that of a solve which asked for everything (`Masked`). `Whole`: a
secondary whose ratio the fit has frozen is frozen in every name, which is what makes its
columns disappear from later masks. `Ensemble`: between refits nothing more is frozen, and the
values are reset to the solution, where what is frozen already stood; a name untied between the spectra
is reset to its first spectrum's value, which is the exception `FrozenKept` makes.

`PlanKeptOrderly` (`OrderlyPlan`), whose invariant is `PlanCore`. Phases are put in, dropped and weighed all along the ladder and the refits; what
is kept is an order (`InOrder`): by stage, by the number of the pass or refit, and a refit's settling before its
joint solve. What there is to do climbs in the same order (`Rounds`), and every phase not paid for yet
is still to come (`Coming`), while the one that runs is the one at hand (`Pointed`). So nothing
unpaid is ever behind the fit, and nothing unpaid is left when it ends well.
`FitTypes` (`TypeOK`) adds the types of what the stages decide from.

### RunReport, BatchRunner

`MonitorSeesOutcome` (`Reported`) and `TablesKept` (`KeepsTables`), from `ReportAssumption` and
`BatchAssumption`, for any number of processes, runners, failing operations, kills and
restarts. The first is about starts that went past their command
line, as far as the fit or the handler (`OwesReports`); the others report nothing, which `report_promised` shows. In it, `Owed` says at each place of main which of the two reports is going to
be missing unless something has failed already, and that two missing ones have cost two
failures; `Onward` and `Showing` say what the process has decided and published so far, and `Whole` that a
torn file has cost a failure. A process's own step keeps this (`OwnSound`); another's only ever
adds failures (`OthersKeep`), which pays more and owes nothing. For the second: where a runner's GAEL has started,
the runner has looked (`Looked`), it looks once, and a table carries the name of a GAEL that has started.

`BatchTellsTrue` (`DoneMeansTable`) and `BatchTypes` (`BatchTypeOK`). `Kept` has the accounts: a runner's counter is the number of
its jobs that are skipped or complete, its list those that failed. Of the tables there is nothing to say once an operation
has failed or somebody was killed; as long as neither has (`Calm`), a table only begun is being written by
the GAEL that truncated it last (`Tended`), a GAEL past its table has made one (`Made`), and so what a runner calls complete or
skipped has one (`Stands`), although another runner may be truncating it at the moment.

## What is only model-checked, and what is not modelled

Only model-checked: liveness (`CallsReturn`, `FollowsPressure`,
`LoadsEndUndisturbed`, `EvaluationEnds`, `RunsEnd`, `AbortHonoured`), which the installed provers do not reach under fairness.
Every invariant and action property of the passing runs, and the two refinements, are proved.

Not modelled, beside the components marked so in `PROJECT.json`: values of spectra
and weights; the CUDA and isis back-ends of the convolution, and functions nothing calls (`Powell.hpp`,
which no stage asks for, `clear_rotational_cache`, `precompute_rotational_weights`); several sessions
in one process, which the code expects (MemoryBudget.hpp:39-41, GaelAPI.cpp:445) and which restore the provider's
slot and `std::cout`'s buffer in another order than they installed them;
the vector in `union_lambda` (ModelGrid.cpp:1308-1334), to whose elements references are handed out that a later entry may
invalidate; the batch's display; allocation failure inside a critical section (it would strand the
sleepers in `insert_if_absent`, see the hazards); relaxed memory order, which
does not matter where each atomic is read once and by itself; hash collisions
between keys of different things, which the code accepts too.

## Plan

Done: 1 to 5, of 6 the single fit, 7 to 9, and of 10 the scans and the knots.

| | module | contents | composed with |
|---|---|---|---|
| 1 | `SpectrumCache`, `SharedBuilds` | done, proved | - |
| 2 | `MemoryBudget`, `PressureValve` | done, proved | seen by 1 as `BudgetMoves` |
| 3 | `GridHoles`, `ModelCache` | done, proved | corners from 1, `ModelCache` over both |
| 4 | `LMSolver`, `Descent` | done, proved | used by 6 through `Descent` |
| 5 | `FitProgress` | done | extended by 6 |
| 6 | `FitWorkflow`, `GaelSession` | the first done, proved; the second: provider slot and `std::cout` under sessions side by side | 4, 5 |
| 7 | `WeightCaches` | done, proved | extended by 8 |
| 8 | `CostJacobian` | done, proved | 7, `Continuum` |
| 9 | `RunReport`, `BatchRunner` | done, proved | - |
| 10 | `Scans`, `Continuum` | done, proved (of `Continuum` what 8 uses, the intervals and the knots); left: telluric bracketing, noise rescaling, `NyquistGrid` | `Continuum` by 8 |

Abstract specifications worth stating: `SharedBuilds` again for 7, as far as its exceptions allow, and for 6 the contract of the
ladder as a caller sees it (what was frozen comes back as it was; aborted, failed or a result). What a proof can reach of
the runs' properties is proved; the theorems worth proving next are about the modules still to be written.
