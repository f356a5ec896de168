----------------------------- MODULE GridHoles -----------------------------
(***************************************************************************)
(* Holes in a model grid (ModelGrid.cpp, "Holes in a grid"): what threads  *)
(* that evaluate models learn, in one process-wide table per cube, about   *)
(* which model files are missing, and how they bridge a missing node along *)
(* one axis, from its two neighbours on it.                                *)
(*                                                                         *)
(* The table is locked for lookups and updates and not in between: every   *)
(* file access, the choice of a bridge and the corner loop run unlocked.   *)
(* One action is one critical section or one file access.  A node is its   *)
(* index on each axis; of the weights only which are zero is kept.         *)
(***************************************************************************)
EXTENDS Lists, SequencesExt

CONSTANTS
    Thread,       \* threads evaluating models
    Axes,         \* Axes[a]: the values of axis a, ascending
    Cells,        \* cells an evaluation may fall into: their corners, and
                  \* those of them whose weight is zero there
    Layouts,      \* the file trees it may find
    MaxLoads,     \* bound: evaluations per thread
    MaxVanish,    \* bound: files that disappear while the process runs
    Fragile       \* bound: the files that may

Axis == 1..Len(Axes)
Node == {n \in [Axis -> UNION {1..Len(Axes[a]) : a \in Axis}] :
            \A a \in Axis : n[a] \in 1..Len(Axes[a])}

\* "sound": there and readable.  "gone": not there.  "broken": there, or so it
\* seems, but reading it fails, and asking whether it exists may fail too.
File == {"sound", "gone", "broken"}

\* build_corners searches the axes with std::lower_bound.
ASSUME AxesAssumption ==
    /\ Axes \in Seq(Seq(Int))
    /\ \A a \in Axis : \A i, j \in DOMAIN Axes[a] : i < j => Axes[a][i] < Axes[a][j]

ASSUME LayoutAssumption ==
    /\ Layouts \subseteq [Node -> File]
    /\ Cells \subseteq [nodes : Seq(Node), zero : SUBSET Node]
    /\ Fragile \subseteq Node
    /\ MaxLoads \in Nat /\ MaxVanish \in Nat

VARIABLES
    file,         \* the model files of the cube
    vanished,     \* how many of them have gone since the start
    cached,       \* corner spectra in the SpectrumCache
    absent,       \* CubeGaps.absent
    bridges,      \* CubeGaps.bridges, node and axis, oldest first
    probed,       \* g_probed: "yes", "no" or "unknown"
    pc,           \* where each thread is
    cell,         \* the cell it evaluates in
    plan,         \* nodes of nonzero weight still to fetch in this round
    todo,         \* corners known to be holes, still to bridge
    axis, up,     \* bridge_for: the axis and the side it looks at
    best,         \* bridge_for: the best axis so far, 0 for none
    used,         \* bridges of this round
    loads,        \* evaluations a thread has yet to start
    outcome       \* how its last one ended

table == <<absent, bridges, probed>>
disk  == <<file, vanished, cached>>
local == <<cell, plan, todo, axis, up, best, used, loads, outcome>>
vars  == <<disk, table, pc, local>>

NoCell == [nodes |-> <<>>, zero |-> {}]

\* Every variable keeps its type.
TypeOK ==
    /\ file \in [Node -> File] /\ vanished \in 0..MaxVanish
    /\ cached \subseteq Node /\ absent \subseteq Node
    /\ bridges \in Seq(Node \X Axis)
    /\ probed \in [Node -> {"yes", "no", "unknown"}]
    /\ pc \in [Thread -> {"idle", "plan", "bridge", "look", "probe", "found",
                          "lost", "choose", "fetch", "missing"}]
    /\ cell \in [Thread -> Cells \cup {NoCell}]
    /\ plan \in [Thread -> Seq(Node)] /\ todo \in [Thread -> Seq(Node)]
    /\ axis \in [Thread -> Axis \cup {0}] /\ best \in [Thread -> Axis \cup {0}]
    /\ up \in [Thread -> BOOLEAN]
    /\ used \in [Thread -> SUBSET (Node \X Axis)]
    /\ loads \in [Thread -> 0..MaxLoads]
    /\ outcome \in [Thread -> {"none", "ok", "failed"}]

Init ==
    /\ file \in Layouts /\ vanished = 0
    /\ cached = {} /\ absent = {} /\ bridges = <<>>
    /\ probed = [n \in Node |-> "unknown"]
    /\ pc = [t \in Thread |-> "idle"]
    /\ cell = [t \in Thread |-> NoCell]
    /\ plan = [t \in Thread |-> <<>>] /\ todo = [t \in Thread |-> <<>>]
    /\ axis = [t \in Thread |-> 0] /\ best = [t \in Thread |-> 0]
    /\ up = [t \in Thread |-> FALSE]
    /\ used = [t \in Thread |-> {}]
    /\ loads = [t \in Thread |-> MaxLoads]
    /\ outcome = [t \in Thread |-> "none"]

-----------------------------------------------------------------------------
(* Neighbours and axes.                                                    *)

Below(m, a) == [m EXCEPT ![a] = @ - 1]
Above(m, a) == [m EXCEPT ![a] = @ + 1]

\* The axes on which m has two neighbours.
Interior(m) == {a \in Axis : 1 < m[a] /\ m[a] < Len(Axes[a])}

\* Width of the bridged interval over the mean spacing of the axis, compared
\* without dividing; on a tie the first axis wins.
Width(m, a) == (Axes[a][m[a] + 1] - Axes[a][m[a] - 1]) * (Len(Axes[a]) - 1)
Extent(a) == Axes[a][Len(Axes[a])] - Axes[a][1]
Narrower(m, a, b) == Width(m, a) * Extent(b) < Width(m, b) * Extent(a)

-----------------------------------------------------------------------------
(* The table.                                                              *)

\* Mutant of RegisterAbsent: bridges chosen earlier are kept.
RegisterAbsentKeeping(n) ==
    /\ probed' = [probed EXCEPT ![n] = "no"]
    /\ absent' = absent \cup {n}
    /\ UNCHANGED bridges

\* register_absent: a bridge chosen earlier may lean on n, so all are dropped
\* if n is news.
RegisterAbsent(n) ==
    /\ probed' = [probed EXCEPT ![n] = "no"]
    /\ absent' = absent \cup {n}
    /\ bridges' = IF n \in absent THEN bridges ELSE <<>>

\* Where the bridges over m are on record.
BridgesOf(m) == {i \in DOMAIN bridges : bridges[i][1] = m}

-----------------------------------------------------------------------------
(* One evaluation: load_spectrum, or load_element_factor of one element.   *)

Finish(t, how) ==
    /\ pc' = [pc EXCEPT ![t] = "idle"]
    /\ outcome' = [outcome EXCEPT ![t] = how]
    /\ cell' = [cell EXCEPT ![t] = NoCell]
    /\ plan' = [plan EXCEPT ![t] = <<>>]
    /\ todo' = [todo EXCEPT ![t] = <<>>]
    /\ axis' = [axis EXCEPT ![t] = 0] /\ best' = [best EXCEPT ![t] = 0]
    /\ up' = [up EXCEPT ![t] = FALSE]

Load(t, c) ==
    /\ pc[t] = "idle" /\ loads[t] > 0
    /\ loads' = [loads EXCEPT ![t] = @ - 1]
    /\ cell' = [cell EXCEPT ![t] = c]
    /\ outcome' = [outcome EXCEPT ![t] = "none"]
    /\ used' = [used EXCEPT ![t] = {}]
    /\ pc' = [pc EXCEPT ![t] = "plan"]
    /\ UNCHANGED <<disk, table, plan, todo, axis, up, best>>

\* bridge_gaps takes a copy of the holes known now.
Plan(t) ==
    /\ pc[t] = "plan"
    /\ plan' = [plan EXCEPT ![t] =
                   Only(cell[t].nodes, Node \ cell[t].zero)]
    /\ todo' = [todo EXCEPT ![t] = Only(cell[t].nodes, absent)]
    /\ used' = [used EXCEPT ![t] = {}]
    /\ pc' = [pc EXCEPT ![t] = IF todo'[t] = <<>> THEN "fetch" ELSE "bridge"]
    /\ UNCHANGED <<disk, table, cell, axis, up, best, loads, outcome>>

\* The neighbour gets the weight: a corner of its own unless it is one already.
WithNode(s, n) == IF Contains(s, n) THEN s ELSE Append(s, n)

\* The hole t is at gives its weight to its two neighbours on axis a.
Apply(t, a) ==
    LET m == Head(todo[t])
    IN  /\ plan' = [plan EXCEPT ![t] =
                       WithNode(WithNode(Only(@, Node \ {m}), Below(m, a)), Above(m, a))]
        /\ used' = [used EXCEPT ![t] = @ \cup {<<m, a>>}]
        /\ todo' = [todo EXCEPT ![t] = Tail(@)]
        /\ pc' = [pc EXCEPT ![t] = IF Tail(todo[t]) = <<>> THEN "fetch" ELSE "bridge"]
        /\ axis' = [axis EXCEPT ![t] = 0] /\ best' = [best EXCEPT ![t] = 0]
        /\ up' = [up EXCEPT ![t] = FALSE]

\* The axes bridge_for still has to look at.
AxesAfter(m, a) == {b \in Interior(m) : b > a}
FirstOf(S) == CHOOSE a \in S : \A b \in S : a <= b

\* bridge_for goes on to the next axis, or to its choice.
NextAxis(t, a) ==
    LET left == AxesAfter(Head(todo[t]), a)
    IN  /\ axis' = [axis EXCEPT ![t] = IF left = {} THEN 0 ELSE FirstOf(left)]
        /\ up' = [up EXCEPT ![t] = FALSE]
        /\ pc' = [pc EXCEPT ![t] = IF left = {} THEN "choose" ELSE "look"]

\* A hole of weight zero needs no bridge, unless a bridge gave it weight.
Skip(t) ==
    /\ pc[t] = "bridge" /\ ~Contains(plan[t], Head(todo[t]))
    /\ todo' = [todo EXCEPT ![t] = Tail(@)]
    /\ pc' = [pc EXCEPT ![t] = IF Tail(todo[t]) = <<>> THEN "fetch" ELSE @]
    /\ UNCHANGED <<disk, table, cell, plan, axis, up, best, used, loads, outcome>>

\* bridge_for: the bridge on record, or start to look for one.
Lookup(t) ==
    /\ pc[t] = "bridge" /\ Contains(plan[t], Head(todo[t]))
    /\ LET known == BridgesOf(Head(todo[t]))
       IN  IF known # {}
           THEN Apply(t, bridges[FirstOf(known)][2])
           ELSE NextAxis(t, 0) /\ UNCHANGED <<best, plan, used, todo>>
    /\ UNCHANGED <<disk, table, cell, loads, outcome>>

Neighbour(t) ==
    LET m == Head(todo[t])
    IN  IF up[t] THEN Above(m, axis[t]) ELSE Below(m, axis[t])

\* Mutant of Answer: the upper neighbour is never asked after.
AnswerHalf(t, present) ==
    /\ best' = [best EXCEPT ![t] =
                   IF present /\ (@ = 0 \/ Narrower(Head(todo[t]), axis[t], @))
                   THEN axis[t] ELSE @]
    /\ NextAxis(t, axis[t])

\* node_present has answered for the neighbour t is at.
Answer(t, present) ==
    LET m == Head(todo[t])
    IN  IF present /\ ~up[t]
        THEN /\ up' = [up EXCEPT ![t] = TRUE]
             /\ pc' = [pc EXCEPT ![t] = "look"]
             /\ UNCHANGED <<axis, best>>
        ELSE /\ best' = [best EXCEPT ![t] =
                            IF present /\ (@ = 0 \/ Narrower(m, axis[t], @))
                            THEN axis[t] ELSE @]
             /\ NextAxis(t, axis[t])

\* node_present: what is on record, under the lock ...
Look(t) ==
    /\ pc[t] = "look"
    /\ LET n == Neighbour(t)
       IN  CASE n \in absent -> Answer(t, FALSE)
             [] n \notin absent /\ probed[n] # "unknown" -> Answer(t, probed[n] = "yes")
             [] OTHER -> /\ pc' = [pc EXCEPT ![t] = "probe"]
                         /\ UNCHANGED <<axis, up, best>>
    /\ UNCHANGED <<disk, table, cell, plan, todo, used, loads, outcome>>

\* ... or the file system, without it; a broken file may be impossible to
\* probe, which fails the evaluation.
Probe(t) ==
    /\ pc[t] = "probe"
    /\ \/ /\ file[Neighbour(t)] = "gone"
          /\ pc' = [pc EXCEPT ![t] = "lost"]
          /\ UNCHANGED local
       \/ /\ file[Neighbour(t)] # "gone"
          /\ pc' = [pc EXCEPT ![t] = "found"]
          /\ UNCHANGED local
       \/ /\ file[Neighbour(t)] = "broken"
          /\ Finish(t, "failed")
          /\ UNCHANGED <<used, loads>>
    /\ UNCHANGED <<disk, table>>

NoteLost(t) ==
    /\ pc[t] = "lost"
    /\ RegisterAbsent(Neighbour(t))
    /\ Answer(t, FALSE)
    /\ UNCHANGED <<disk, cell, plan, todo, used, loads, outcome>>

NoteFound(t) ==
    /\ pc[t] = "found"
    /\ probed' = [probed EXCEPT ![Neighbour(t)] = "yes"]
    /\ Answer(t, TRUE)
    /\ UNCHANGED <<disk, absent, bridges, cell, plan, todo, used, loads, outcome>>

\* No axis has two neighbours with files: the evaluation fails.
ChooseNone(t) ==
    /\ pc[t] = "choose" /\ best[t] = 0
    /\ Finish(t, "failed")
    /\ UNCHANGED <<disk, table, used, loads>>

\* Mutant of Choose: a bridge along no axis goes on record too.
ChooseUnchecked(t) ==
    /\ pc[t] = "choose"
    /\ bridges' = Append(bridges, <<Head(todo[t]), best[t]>>)
    /\ Apply(t, best[t])
    /\ UNCHANGED <<disk, absent, probed, cell, loads, outcome>>

\* The choice goes on record, whatever was learnt since it was made.
Choose(t) ==
    /\ pc[t] = "choose" /\ best[t] # 0
    /\ bridges' = Append(bridges, <<Head(todo[t]), best[t]>>)
    /\ Apply(t, best[t])
    /\ UNCHANGED <<disk, absent, probed, cell, loads, outcome>>

\* Mutant of NotThere: any read that fails counts.
NotReadable(n) == file[n] # "sound"

\* Of the reads that fail, those which mean a hole: read_corner_file asks
\* whether the file is there, and fails the evaluation if it is or may be.
NotThere(n) == file[n] = "gone"

\* The corner loop: the next spectrum is cached, or read from its file.
Fetch(t) ==
    /\ pc[t] = "fetch" /\ plan[t] # <<>>
    /\ LET n == Head(plan[t])
       IN  \/ /\ n \in cached \/ file[n] = "sound"
              /\ cached' = cached \cup {n}
              /\ plan' = [plan EXCEPT ![t] = Tail(@)]
              /\ UNCHANGED <<pc, cell, todo, axis, up, best, outcome>>
           \/ /\ n \notin cached /\ file[n] # "sound" /\ NotThere(n)
              /\ pc' = [pc EXCEPT ![t] = "missing"]
              /\ UNCHANGED <<cached, cell, plan, todo, axis, up, best, outcome>>
           \/ /\ n \notin cached /\ file[n] # "sound" /\ ~NotThere(n)
              /\ Finish(t, "failed")
              /\ UNCHANGED cached
    /\ UNCHANGED <<file, vanished, table, used, loads>>

\* MissingGridFile: put the hole on record and plan the cube again.
Missing(t) ==
    /\ pc[t] = "missing"
    /\ RegisterAbsent(Head(plan[t]))
    /\ pc' = [pc EXCEPT ![t] = "plan"]
    /\ plan' = [plan EXCEPT ![t] = <<>>]
    /\ UNCHANGED <<disk, cell, todo, axis, up, best, used, loads, outcome>>

\* Every corner is in: record_gaps, and the weighted sum.
Complete(t) ==
    /\ pc[t] = "fetch" /\ plan[t] = <<>>
    /\ Finish(t, "ok")
    /\ UNCHANGED <<disk, table, used, loads>>

-----------------------------------------------------------------------------
(* The environment.                                                        *)

\* A model file disappears.
Vanish(n) ==
    /\ n \in Fragile /\ file[n] = "sound" /\ vanished < MaxVanish
    /\ file' = [file EXCEPT ![n] = "gone"]
    /\ vanished' = vanished + 1
    /\ UNCHANGED <<cached, table, pc, local>>

\* The SpectrumCache forgets a corner; it matters for a file that may go.
Evict(n) ==
    /\ n \in Fragile \cap cached
    /\ cached' = cached \ {n}
    /\ UNCHANGED <<file, vanished, table, pc, local>>

Step(t) == Plan(t) \/ Skip(t) \/ Lookup(t) \/ Look(t) \/ Probe(t) \/ NoteLost(t) \/ NoteFound(t)
           \/ ChooseNone(t) \/ Choose(t) \/ Fetch(t) \/ Missing(t) \/ Complete(t)

Next ==
    \/ \E t \in Thread : Step(t)
    \/ \E t \in Thread, c \in Cells : Load(t, c)
    \/ \E n \in Node : Vanish(n) \/ Evict(n)

Spec == Init /\ [][Next]_vars

\* A thread that evaluates a model keeps running.
Fairness == \A t \in Thread : WF_vars(Step(t))

FairSpec == Spec /\ Fairness

-----------------------------------------------------------------------------
(* What a model with holes under it promises.                              *)

\* The axis the rule bridges m along, given the nodes that have files: the
\* narrowest of those with both neighbours, the first on a tie; 0 if none.
Rule(m, there) ==
    LET able == {a \in Interior(m) : Below(m, a) \in there /\ Above(m, a) \in there}
    IN  IF able = {} THEN 0
        ELSE CHOOSE a \in able :
                 \A b \in able : Narrower(m, a, b) \/ (~Narrower(m, b, a) /\ a <= b)

There == {n \in Node : file[n] # "gone"}
Weighted(c) == {n \in ToSet(c.nodes) : n \notin c.zero}
Ends(t, how) == pc[t] # "idle" /\ pc'[t] = "idle" /\ outcome'[t] = how

\* Some file n's value needs cannot be had: its own, that of a neighbour a
\* bridge over n leans on or asks after, or there is no bridge.
Lost(n) ==
    \/ file[n] = "broken"
    \/ /\ file[n] = "gone"
       /\ \/ Rule(n, There) = 0
          \/ \E a \in Interior(n) :
                 file[Below(n, a)] = "broken" \/ file[Above(n, a)] = "broken"

\* A model is interpolated across the holes among the corners that count, all
\* of them and nothing else, each along the axis the rule names for it, in
\* whatever order files were probed, holes found and bridges chosen, and by
\* whom: "the choice depends only on the node and on which files exist".  And
\* an evaluation fails only for want of a file that its own cell needs: what
\* other threads learn and forget in between never fails it.
ModelByTheRule ==
    [][\A t \in Thread : vanished = 0 =>
          /\ Ends(t, "ok") =>
                 used[t] = {<<n, Rule(n, There)>> : n \in Weighted(cell[t]) \ There}
          /\ Ends(t, "failed") => \E n \in Weighted(cell[t]) : Lost(n)]_vars

\* "Missing is not unreadable": a file that is there but cannot be read is
\* never taken for a hole, so an outage never turns into another model.
HolesAreHoles == absent \cap There = {}

Alone == \A t, u \in Thread : pc[t] # "idle" /\ pc[u] # "idle" => t = u

\* The corner loop ends: every evaluation returns or fails, if no file goes
\* while others are at work.
LoadsEndUndisturbed ==
    [](vanished = 0 \/ Alone) => \A t \in Thread : pc[t] # "idle" ~> pc[t] = "idle"

\* What the loop's comment says: "each round registers one more missing file,
\* so this ends".
LoadsEnd == \A t \in Thread : pc[t] # "idle" ~> pc[t] = "idle"
=============================================================================
