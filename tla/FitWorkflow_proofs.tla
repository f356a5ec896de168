------------------------- MODULE FitWorkflow_proofs -------------------------
(***************************************************************************)
(* Proofs about a fit, for any requests, bounds and thresholds: what is    *)
(* frozen keeps its value, masks are right, the plan the progress is told  *)
(* from stays in order, and types.                                         *)
(***************************************************************************)
EXTENDS FitWorkflow, SequenceTheorems, TLAPS

\* The spectra are read and the fit has not ended.
Going == status \in {"planning", "running"}

Values == [Slots(ncomp, nds) -> Nat]

Within(point) == \A s \in DOMAIN point : point[s] \in Limits(s[1], s[2])

\* A mask tells keys apart, not spectra, and never frees the ratio of reference.
ByKey(m) ==
    /\ m \subseteq DOMAIN val
    /\ \A s, u \in DOMAIN val : Key(s) = Key(u) => (s \in m <=> u \in m)
    /\ \A s \in m : Key(s) # <<1, "sur_ratio">>

(***************************************************************************)
(* The inductive invariant.  Placed: types, from the moment the spectra    *)
(* are read.                                                               *)
(***************************************************************************)
Placed ==
    /\ fit \in Fits
    /\ status = "reading" => val = <<>> /\ mask = {} /\ solution = <<>> /\ step = "decide"
    /\ status = "planning" => solution = <<>> /\ step = "decide"
    /\ Going => ncomp \in Nat /\ nds \in Nat \ {0} /\ val \in Values

\* The first solve of the fit is still to come.
Opening ==
    /\ solution = <<>> /\ step \in {"decide", "solve"}
    /\ status = "running" => todo # <<>> /\ Head(todo) \in {"1", "4"}

\* From the first solve on every value is in its bounds.
Bounded == Going => Within(val) \/ Opening

\* The rungs of a ladder.
Stages == {"1", "2", "3", "4", "5", "5b", "6", "7", "7b"}

\* A ladder ends in stages 7 and 7b, and has 7b nowhere else.
EndsWhole(stages) ==
    /\ stages \in Seq(Stages)
    /\ Len(stages) >= 1 => stages[Len(stages)] = "7b"
    /\ Len(stages) >= 2 => stages[Len(stages) - 1] = "7"
    /\ \A i \in 1..(Len(stages) - 1) : stages[i] # "7b"

Closing ==
    status = "running" /\ solution = <<>> => EndsWhole(todo)

\* The mask is that of the solve at hand, and of one that asked for
\* everything where the boundary is looked at and where the result is taken.
Masked ==
    /\ Going => ByKey(mask)
    /\ status = "running" /\ step # "decide" => todo # <<>>
    /\ status = "running" /\ step = "leave" => mask = FreeSlots(Head(todo))
    /\ /\ status = "running" /\ solution = <<>>
       /\ todo = <<>> \/ (Head(todo) = "7b" /\ step = "decide")
       => mask = FreeSlots("7")

\* A secondary whose ratio the fit itself has frozen is frozen whole.
Whole ==
    Going => \A c \in 2..ncomp :
                 <<c, "sur_ratio">> \in frozen \ fit.frozen => {c} \X Names \subseteq frozen

\* In the ensemble nothing more is frozen, and what is stands at the value of
\* the solution, but for the spectra of an untied name.
Ensemble ==
    status = "running" /\ solution # <<>> =>
        /\ todo \in Seq({"settle", "joint"})
        /\ solution[1] \in Values /\ Within(solution[1])
        /\ ByKey(solution[2])
        /\ frozen = { k \in (1..ncomp) \X Names : Slot(k[1], k[2], 1) \notin solution[2] }
        /\ \A s \in DOMAIN val :
               Key(s) \in frozen /\ s[2] \notin fit.untied => val[s] = solution[1][s]

Inv == Placed /\ Bounded /\ Closing /\ Masked /\ Whole /\ Ensemble

-----------------------------------------------------------------------------
(* The data.                                                               *)

\* Slots and their keys: the first spectrum's slot stands for its key.
LEMMA SlotFacts ==
    ASSUME nds \in Nat \ {0}, ncomp \in Nat
    PROVE  /\ \A s \in Slots(ncomp, nds) :
                  /\ s[1] \in 1..ncomp /\ s[2] \in Names
                  /\ Key(s) \in (1..ncomp) \X Names
                  /\ Slot(s[1], s[2], 1) \in Slots(ncomp, nds)
                  /\ Key(Slot(s[1], s[2], 1)) = Key(s)
                  /\ s[2] \notin fit.untied => Slot(s[1], s[2], 1) = s
           /\ \A c \in 1..ncomp : \A n \in Names :
                  /\ Slot(c, n, 1) \in Slots(ncomp, nds)
                  /\ Key(Slot(c, n, 1)) = <<c, n>>
<1>1. \A c, n, d : /\ Slot(c, n, d)[1] = c /\ Slot(c, n, d)[2] = n
                   /\ Key(Slot(c, n, d)) = <<c, n>>
  BY DEF Slot, Key
<1>2. \A c \in 1..ncomp : \A n \in Names : Slot(c, n, 1) \in Slots(ncomp, nds)
  BY DEF Slots
<1>3. ASSUME NEW s \in Slots(ncomp, nds)
      PROVE  /\ s[1] \in 1..ncomp /\ s[2] \in Names
             /\ Key(s) \in (1..ncomp) \X Names
             /\ Slot(s[1], s[2], 1) \in Slots(ncomp, nds)
             /\ Key(Slot(s[1], s[2], 1)) = Key(s)
             /\ s[2] \notin fit.untied => Slot(s[1], s[2], 1) = s
  <2>1. PICK c \in 1..ncomp, n \in Names, d \in 1..nds : s = Slot(c, n, d)
    BY <1>3 DEF Slots
  <2>2. s[1] = c /\ s[2] = n /\ Key(s) = <<c, n>>
    BY <2>1, <1>1
  <2>3. n \notin fit.untied => s = Slot(c, n, 1)
    BY <2>1 DEF Slot
  <2> QED
    BY <2>2, <2>3, <1>1, <1>2
<1> QED
  BY <1>1, <1>2, <1>3

\* Clamping ends in the bounds, and leaves alone what is in them.
LEMMA ClampFacts ==
    ASSUME NEW c, NEW n, NEW v \in Nat
    PROVE  /\ Clamp(v, Limits(c, n)) \in Limits(c, n)
           /\ v \in Limits(c, n) => Clamp(v, Limits(c, n)) = v
<1>1. CASE v \in Limits(c, n)
  BY <1>1 DEF Clamp
<1>2. CASE v \notin Limits(c, n)
  <2> DEFINE Nearest(w) == \A u \in Limits(c, n) : IF v < u THEN w <= u ELSE w >= u
  <2>1. \E w \in Limits(c, n) : Nearest(w)
    <3>1. CASE n = "sur_ratio" /\ c = 1
      <4>1. Limits(c, n) = 1..1
        BY <3>1 DEF Limits
      <4>2. Nearest(1)
        BY <4>1
      <4> QED
        BY <4>1, <4>2
    <3>2. CASE ~(n = "sur_ratio" /\ c = 1)
      <4>1. Limits(c, n) = 0..AxisMax /\ AxisMax \in Nat
        BY <3>2, FitAssumption DEF Limits
      <4>2. v > AxisMax
        BY <4>1, <1>2
      <4>3. Nearest(AxisMax) /\ AxisMax \in Limits(c, n)
        BY <4>1, <4>2
      <4> QED
        BY <4>3
    <3> QED
      BY <3>1, <3>2
  <2>2. Clamp(v, Limits(c, n)) = CHOOSE w \in Limits(c, n) : Nearest(w)
    BY <1>2 DEF Clamp
  <2> HIDE DEF Nearest
  <2> QED
    BY <2>1, <2>2, <1>2
<1> QED
  BY <1>1, <1>2

\* Bounds are naturals, and 0 is one but for the ratio of reference.
LEMMA LimitFacts ==
    \A c, n : /\ Limits(c, n) \subseteq Nat
              /\ <<c, n>> # <<1, "sur_ratio">> => Limits(c, n) = 0..AxisMax
  BY FitAssumption DEF Limits

\* Where a solve ends: in the bounds, with the other slots clamped.
LEMMA SolveReaches ==
    ASSUME nds \in Nat \ {0}, ncomp \in Nat, val \in Values,
           NEW free \in SUBSET DOMAIN val,
           \A s \in free : Key(s) # <<1, "sur_ratio">>,
           NEW point \in Reachable(free)
    PROVE  /\ point \in Values /\ Within(point)
           /\ \A s \in DOMAIN val \ free : val[s] \in Limits(s[1], s[2]) => point[s] = val[s]
<1>1. PICK w \in [free -> 0..AxisMax] :
          point = [s \in DOMAIN val |-> IF s \in free THEN w[s]
                                        ELSE Clamp(val[s], Limits(s[1], s[2]))]
  BY DEF Reachable
<1>2. DOMAIN val = Slots(ncomp, nds) /\ \A s \in DOMAIN val : val[s] \in Nat
  BY DEF Values
<1>3. ASSUME NEW s \in DOMAIN val
      PROVE  /\ point[s] \in Limits(s[1], s[2])
             /\ s \notin free /\ val[s] \in Limits(s[1], s[2]) => point[s] = val[s]
  <2>1. CASE s \in free
    <3>1. Limits(s[1], s[2]) = 0..AxisMax
      BY <2>1, LimitFacts DEF Key
    <3> QED
      BY <2>1, <3>1, <1>1
  <2>2. CASE s \notin free
    <3>1. point[s] = Clamp(val[s], Limits(s[1], s[2]))
      BY <2>2, <1>1
    <3>2. val[s] \in Nat
      BY <1>2
    <3> QED
      BY <2>2, <3>1, <3>2, ClampFacts
  <2> QED
    BY <2>1, <2>2
<1>4. DOMAIN point = Slots(ncomp, nds)
  BY <1>1, <1>2
<1>5. \A s \in DOMAIN point : point[s] \in Nat
  BY <1>2, <1>3, <1>4, LimitFacts
<1>6. point = [s \in DOMAIN point |-> point[s]]
  BY <1>1
<1> QED
  BY <1>2, <1>3, <1>4, <1>5, <1>6 DEF Values, Within

\* The free mask of a stage is a mask by keys.
LEMMA FreeByKey == \A stage : ByKey(FreeSlots(stage))
<1> SUFFICES ASSUME NEW stage
             PROVE  ByKey(FreeSlots(stage))
  OBVIOUS
<1>1. \A s, u \in DOMAIN val : Key(s) = Key(u) => s[2] = u[2]
  BY DEF Key
<1> QED
  BY <1>1 DEF ByKey, FreeSlots

\* plan_stages' ladder.
LEMMA LadderFacts ==
    EndsWhole(Ladder) /\ Ladder # <<>> /\ Head(Ladder) \in {"1", "4"}
<1> DEFINE Rung == {"1", "2", "3", "4", "5", "5b", "6"}
           a == IF fit.variant # "direct" THEN <<"1">> ELSE <<>>
           b == IF fit.variant = "full" THEN <<"2", "3">> ELSE <<>>
           c == IF RetireStage THEN <<"5b">> ELSE <<>>
           d == IF fit.variant # "nonoise" THEN <<"6">> ELSE <<>>
           front == a \o b \o <<"4", "5">>
           most == front \o c \o d
<1>1. a \in Seq(Rung) /\ (a = <<"1">> \/ (a = <<>> /\ b = <<>>))
  <2>1. <<"1">> \in Seq(Rung) /\ <<>> \in Seq(Rung)
    OBVIOUS
  <2>2. CASE fit.variant # "direct"
    <3>1. a = <<"1">>
      BY <2>2, Zenon
    <3> QED
      BY <2>1, <3>1
  <2>3. CASE fit.variant = "direct"
    <3>1. fit.variant # "full"
      BY <2>3
    <3>2. a = <<>> /\ b = <<>>
      BY <2>3, <3>1, Zenon
    <3> QED
      BY <2>1, <3>2
  <2> QED
    BY <2>2, <2>3
<1>2. b \in Seq(Rung) /\ c \in Seq(Rung) /\ d \in Seq(Rung) /\ <<"4", "5">> \in Seq(Rung)
  <2>1. /\ <<"2", "3">> \in Seq(Rung) /\ <<"5b">> \in Seq(Rung) /\ <<"6">> \in Seq(Rung)
        /\ <<>> \in Seq(Rung) /\ <<"4", "5">> \in Seq(Rung)
    OBVIOUS
  <2>2. b \in {<<>>, <<"2", "3">>} /\ c \in {<<>>, <<"5b">>} /\ d \in {<<>>, <<"6">>}
    BY Zenon
  <2> QED
    BY <2>1, <2>2
<1>3. front \in Seq(Rung) /\ Len(front) >= 2 /\ front[1] \in {"1", "4"}
  <2> HIDE DEF Rung, b
  <2>1. CASE a = <<"1">>
    <3> HIDE DEF a
    <3>1. a \o b \in Seq(Rung) /\ Len(a \o b) >= 1 /\ (a \o b)[1] = "1"
      BY <1>1, <1>2, <2>1
    <3> QED
      BY <3>1, <1>2
  <2>2. CASE a = <<>> /\ b = <<>>
    <3> HIDE DEF a
    <3>1. a \o b \in Seq(Rung) /\ Len(a \o b) = 0
      BY <1>1, <1>2, <2>2
    <3> QED
      BY <3>1, <1>2
  <2> QED
    BY <1>1, <2>1, <2>2
<1>4. most \in Seq(Rung) /\ Len(most) >= 2 /\ most[1] \in {"1", "4"}
  <2> HIDE DEF Rung, front, c, d
  <2>1. front \o c \in Seq(Rung) /\ Len(front \o c) >= 2 /\ (front \o c)[1] \in {"1", "4"}
    BY <1>2, <1>3
  <2> QED
    BY <2>1, <1>2
<1>5. Ladder = most \o <<"7", "7b">>
  BY DEF Ladder, FirstStages
<1> HIDE DEF most
<1>6. /\ Ladder \in Seq(Stages)
      /\ Len(Ladder) = Len(most) + 2
      /\ \A i \in 1..Len(most) : Ladder[i] = most[i]
      /\ Ladder[Len(most) + 1] = "7" /\ Ladder[Len(most) + 2] = "7b"
  BY <1>4, <1>5 DEF Stages
<1>7. \A i \in 1..Len(most) : most[i] \in Rung
  BY <1>4
<1>8. \A i \in 1..(Len(Ladder) - 1) : Ladder[i] # "7b"
  <2> SUFFICES ASSUME NEW i \in 1..(Len(Ladder) - 1)
               PROVE  Ladder[i] # "7b"
    OBVIOUS
  <2>1. CASE i \in 1..Len(most)
    BY <2>1, <1>6, <1>7
  <2>2. CASE i = Len(most) + 1
    BY <2>2, <1>6
  <2> QED
    BY <2>1, <2>2, <1>4, <1>6
<1>9. Len(most) \in Nat /\ Ladder[1] = most[1]
  BY <1>4, <1>6
<1> QED
  BY <1>4, <1>6, <1>8, <1>9 DEF EndsWhole

-----------------------------------------------------------------------------
(* The steps.                                                              *)

\* The last two stages ask for every parameter.
LEMMA AsksForAll == Asked("7") = Names /\ Asked("7b") = Names
  BY DEF Asked

\* What a decision about the next stage leaves alone.
Settings == <<fit, ncomp, nds, val, frozen, mask, solution>>

\* What only depends on the parameters and the layout stays with them.
LEMMA SameSettings ==
    ASSUME UNCHANGED Settings
    PROVE  /\ Values' = Values /\ (Within(val)' <=> Within(val))
           /\ Within(solution[1])' <=> Within(solution[1])
           /\ \A m : ByKey(m)' <=> ByKey(m)
           /\ \A stage : FreeSlots(stage)' = FreeSlots(stage)
           /\ \A c, n, d : Slot(c, n, d)' = Slot(c, n, d)
<1>1. \A c, n, d : Slot(c, n, d)' = Slot(c, n, d)
  BY DEF Settings, Slot
<1>2. Values' = Values
  BY DEF Settings, Values, Slots, Slot
<1> QED
  BY <1>1, <1>2 DEF Settings, Within, ByKey, FreeSlots, Limits, Key

\* A fit that is over has nothing more to keep.
LEMMA Ends ==
    ASSUME Inv, UNCHANGED fit, status' \in {"ok", "aborted", "failed"}
    PROVE  Inv'
<1>1. ~Going' /\ status' \notin {"reading", "planning", "running"}
  BY DEF Going
<1>2. Placed'
  BY <1>1 DEF Inv, Placed
<1> QED
  BY <1>1, <1>2 DEF Inv, Bounded, Closing, Masked, Whole, Ensemble

\* A stage goes on at the same rung: it begins its solve, or ends a pass.
LEMMA GoesOn ==
    ASSUME Inv, UNCHANGED Settings, status = "running", status' = status,
           todo' = todo, todo # <<>>,
           \/ step = "decide" /\ step' = "solve"
           \/ step = "leave" /\ step' = "decide" /\ Head(todo) = "6"
    PROVE  Inv'
<1>1. Going /\ Going'
  BY DEF Going
<1>2. Placed'
  BY <1>1, SameSettings DEF Inv, Placed, Settings
<1>3. Bounded'
  BY <1>1, SameSettings DEF Inv, Bounded, Opening, Settings
<1>4. Closing'
  BY DEF Inv, Closing, Settings
<1>5. Masked'
  <2>1. ByKey(mask)'
    BY <1>1, SameSettings DEF Inv, Masked, Settings
  <2> QED
    BY <2>1 DEF Inv, Masked
<1>6. Whole'
  BY <1>1 DEF Inv, Whole, Settings
<1>7. Ensemble'
  BY SameSettings DEF Inv, Ensemble, Settings, Key
<1> QED
  BY <1>2, <1>3, <1>4, <1>5, <1>6, <1>7 DEF Inv

\* A stage leaves the ladder, having solved or found nothing to solve for.
LEMMA MovesDown ==
    ASSUME Inv, UNCHANGED Settings, status = "running", status' = status,
           todo # <<>>, todo' = Tail(todo), step' = "decide",
           step = "leave" \/ (step = "decide" /\ Head(todo) \in {"5", "5b", "6", "7b"})
    PROVE  Inv'
<1>1. Going /\ Going'
  BY DEF Going
<1>2. Placed'
  BY <1>1, SameSettings DEF Inv, Placed, Settings
<1>3. ~Opening
  BY DEF Opening
<1>4. Bounded'
  BY <1>1, <1>3, SameSettings DEF Inv, Bounded, Settings
<1>5. ASSUME solution = <<>>
      PROVE  /\ EndsWhole(todo')
             /\ todo' = <<>> => Head(todo) = "7b"
             /\ (todo' # <<>> /\ Head(todo') = "7b") => Head(todo) = "7"
  <2>1. /\ todo \in Seq(Stages) /\ Len(todo) \in Nat \ {0}
        /\ todo[Len(todo)] = "7b"
        /\ Len(todo) >= 2 => todo[Len(todo) - 1] = "7"
        /\ \A i \in 1..(Len(todo) - 1) : todo[i] # "7b"
    BY <1>5, EmptySeq DEF Inv, Closing, EndsWhole
  <2>2. /\ todo' \in Seq(Stages) /\ Len(todo') = Len(todo) - 1
        /\ \A i \in 1..Len(todo') : todo'[i] = todo[i + 1]
    BY <2>1
  <2>3. ASSUME todo' = <<>>
        PROVE  Head(todo) = "7b"
    <3>1. Len(todo') = 0
      BY <2>3, EmptySeq
    <3>2. Len(todo) = 1
      BY <2>1, <2>2, <3>1
    <3> QED
      BY <2>1, <3>2
  <2>4. ASSUME todo' # <<>>
        PROVE  Len(todo') >= 1 /\ Head(todo') = todo[2]
    BY <2>4, <2>1, <2>2, EmptySeq
  <2>5. (todo' # <<>> /\ Head(todo') = "7b") => Head(todo) = "7"
    BY <2>1, <2>2, <2>4
  <2>6. EndsWhole(todo')
    <3>1. Len(todo') >= 1 => todo'[Len(todo')] = "7b"
      BY <2>1, <2>2
    <3>2. Len(todo') >= 2 => todo'[Len(todo') - 1] = "7"
      BY <2>1, <2>2
    <3>3. \A i \in 1..(Len(todo') - 1) : todo'[i] # "7b"
      BY <2>1, <2>2
    <3> QED
      BY <2>2, <3>1, <3>2, <3>3 DEF EndsWhole
  <2> QED
    BY <2>3, <2>5, <2>6
<1>6. Closing'
  BY <1>5 DEF Closing, Settings, EndsWhole
<1>7. Masked'
  <2>1. ByKey(mask)'
    BY <1>1, SameSettings DEF Inv, Masked, Settings
  <2>2. ASSUME solution = <<>>, Head(todo) \in {"7", "7b"}
        PROVE  mask = FreeSlots("7")
    <3>1. CASE step = "leave"
      <4>1. mask = FreeSlots(Head(todo))
        BY <3>1 DEF Inv, Masked
      <4> QED
        BY <4>1, <2>2, AsksForAll DEF FreeSlots
    <3>2. CASE step = "decide" /\ Head(todo) = "7b"
      BY <2>2, <3>2 DEF Inv, Masked
    <3> QED
      BY <2>2, <3>1, <3>2
  <2>3. ASSUME solution' = <<>>, todo' = <<>> \/ Head(todo') = "7b"
        PROVE  mask' = FreeSlots("7")'
    <3>1. Head(todo) \in {"7", "7b"}
      BY <2>3, <1>5 DEF Settings
    <3> QED
      BY <3>1, <2>2, <2>3, SameSettings DEF Settings
  <2> QED
    BY <2>1, <2>3 DEF Masked
<1>8. Whole'
  BY <1>1 DEF Inv, Whole, Settings
<1>9. Ensemble'
  <2>1. ASSUME solution # <<>>
        PROVE  todo' \in Seq({"settle", "joint"})
    <3>1. todo \in Seq({"settle", "joint"})
      BY <2>1 DEF Inv, Ensemble
    <3> QED
      BY <3>1
  <2> QED
    BY <2>1, SameSettings DEF Inv, Ensemble, Settings, Key
<1> QED
  BY <1>2, <1>4, <1>6, <1>7, <1>8, <1>9 DEF Inv

\* A stage freezes keys, sets slots to values in their bounds and begins its
\* solve.
LEMMA Refreezes ==
    ASSUME Inv, status = "running", status' = status, todo' = todo, todo # <<>>,
           Head(todo) \in {"5", "5b", "7b"}, step = "decide", step' = "solve",
           UNCHANGED <<fit, ncomp, nds, mask, solution>>,
           NEW keys \in SUBSET ((1..ncomp) \X Names), frozen' = frozen \cup keys,
           \A c \in 2..ncomp : <<c, "sur_ratio">> \in keys => {c} \X Names \subseteq keys,
           val' \in Values, Within(val) => Within(val')
    PROVE  Inv'
<1>1. Going /\ Going'
  BY DEF Going
<1>2. solution = <<>> /\ ~Opening
  <2>1. ASSUME solution # <<>>
        PROVE  FALSE
    <3>1. todo \in Seq({"settle", "joint"})
      BY <2>1 DEF Inv, Ensemble
    <3>2. Head(todo) \in {"settle", "joint"}
      BY <3>1, EmptySeq
    <3> QED
      BY <3>2
  <2> QED
    BY <2>1 DEF Opening
<1>3. Values' = Values /\ DOMAIN val' = DOMAIN val
  <2>1. Values' = Values
    BY DEF Values, Slots, Slot
  <2>2. val \in Values
    BY <1>1 DEF Inv, Placed
  <2> QED
    BY <2>1, <2>2 DEF Values
<1>4. Placed'
  BY <1>1, <1>3 DEF Inv, Placed
<1>5. Bounded'
  <2>1. Within(val')
    BY <1>1, <1>2 DEF Inv, Bounded
  <2> QED
    BY <2>1 DEF Bounded, Within, Limits
<1>6. Closing'
  BY DEF Inv, Closing, EndsWhole
<1>7. Masked'
  <2>1. ByKey(mask)'
    BY <1>1, <1>3 DEF Inv, Masked, ByKey, Key
  <2> QED
    BY <2>1 DEF Inv, Masked
<1>8. Whole'
  <2> SUFFICES ASSUME NEW c \in 2..ncomp, <<c, "sur_ratio">> \in frozen' \ fit.frozen
               PROVE  {c} \X Names \subseteq frozen'
    BY DEF Whole
  <2>1. CASE <<c, "sur_ratio">> \in keys
    BY <2>1
  <2>2. CASE <<c, "sur_ratio">> \in frozen
    BY <2>2, <1>1 DEF Inv, Whole
  <2> QED
    BY <2>1, <2>2
<1>9. Ensemble'
  BY <1>2 DEF Ensemble
<1> QED
  BY <1>4, <1>5, <1>6, <1>7, <1>8, <1>9 DEF Inv

\* Where a solve lands.
LEMMA SolveLands ==
    ASSUME Inv, Solve
    PROVE  /\ val' \in Values /\ Within(val')
           /\ \A s \in DOMAIN val :
                  Key(s) \in frozen /\ val[s] \in Limits(s[1], s[2]) => val'[s] = val[s]
<1>1. nds \in Nat \ {0} /\ ncomp \in Nat /\ val \in Values
  BY DEF Inv, Placed, Going, Solve
<1>2. PICK free \in {{}, FreeSlots(Head(todo))} : val' \in Reachable(free)
  BY DEF Solve
<1>3. /\ free \in SUBSET DOMAIN val
      /\ \A s \in free : Key(s) # <<1, "sur_ratio">> /\ Key(s) \notin frozen
  BY <1>2 DEF FreeSlots
<1> QED
  BY <1>1, <1>2, <1>3, SolveReaches

\* A solve moves what its mask frees, within its bounds.
LEMMA SolveKeeps ==
    ASSUME Inv, Solve
    PROVE  Inv'
<1>1. CASE status' = "aborted"
  BY <1>1, Ends DEF Solve
<1>2. CASE status' = "running"
  <2>1. Going /\ Going' /\ status = "running" /\ todo # <<>>
    BY <1>2 DEF Going, Solve, Inv, Masked
  <2>2. UNCHANGED <<fit, ncomp, nds, frozen, solution, todo>> /\ step' = "leave"
    BY DEF Solve
  <2>3. Values' = Values /\ DOMAIN val' = DOMAIN val
    <3>1. Values' = Values
      BY <2>2 DEF Values, Slots, Slot
    <3>2. val \in Values
      BY <2>1 DEF Inv, Placed
    <3> QED
      BY <3>1, <3>2, SolveLands DEF Values
  <2>4. \A stage : FreeSlots(stage)' = FreeSlots(stage)
    BY <2>2, <2>3 DEF FreeSlots, Key
  <2>5. Placed'
    BY <1>2, <2>1, <2>2, <2>3, SolveLands DEF Inv, Placed
  <2>6. Bounded'
    BY <2>2, SolveLands DEF Bounded, Within, Limits
  <2>7. Closing'
    BY <2>1, <2>2 DEF Inv, Closing, EndsWhole
  <2>8. Masked'
    <3>1. mask' = FreeSlots(Head(todo))
      BY DEF Solve
    <3>2. ByKey(mask')
      BY <3>1, FreeByKey
    <3>3. ByKey(mask)'
      BY <2>3, <3>2 DEF ByKey, Key
    <3> QED
      BY <2>1, <2>2, <2>4, <3>1, <3>3 DEF Masked
  <2>9. Whole'
    BY <2>1, <2>2 DEF Inv, Whole
  <2>10. Ensemble'
    <3> SUFFICES ASSUME solution # <<>>
                 PROVE  Ensemble'
      BY <2>2 DEF Ensemble
    <3>1. /\ todo' \in Seq({"settle", "joint"})
          /\ solution[1]' \in Values' /\ Within(solution[1])' /\ ByKey(solution[2])'
          /\ frozen' = { k \in (1..ncomp') \X Names : Slot(k[1], k[2], 1)' \notin solution[2]' }
      BY <2>1, <2>2, <2>3 DEF Inv, Ensemble, Within, Limits, ByKey, Key, Slot
    <3>2. Within(val)
      BY <2>1 DEF Inv, Bounded, Opening
    <3>3. ASSUME NEW s \in DOMAIN val', Key(s) \in frozen, s[2] \notin fit.untied
          PROVE  val'[s] = solution[1][s]
      <4>1. val[s] = solution[1][s]
        BY <2>1, <2>3, <3>3 DEF Inv, Ensemble
      <4>2. val[s] \in Limits(s[1], s[2])
        BY <2>3, <3>2 DEF Within
      <4> QED
        BY <2>3, <3>3, <4>1, <4>2, SolveLands
    <3> QED
      BY <2>2, <3>1, <3>3 DEF Ensemble, Key
  <2> QED
    BY <2>5, <2>6, <2>7, <2>8, <2>9, <2>10 DEF Inv
<1>3. status' \in {"aborted", "running"}
  BY DEF Solve, Outcome
<1> QED
  BY <1>1, <1>2, <1>3

\* The result is taken over, and with it what the refits hold.
LEMMA CollectKeeps ==
    ASSUME Inv, Collect
    PROVE  Inv'
<1>1. /\ status = "running" /\ todo = <<>> /\ solution = <<>>
      /\ solution' = <<val, mask>> /\ frozen' = FrozenForRefits
      /\ UNCHANGED <<fit, ncomp, nds, val, mask, todo, step, status>>
  BY DEF Collect, AtEnd
<1>2. solution' # <<>> /\ solution'[1] = val /\ solution'[2] = mask
  BY <1>1
<1>3. Going /\ Going'
  BY <1>1 DEF Going
<1>4. Values' = Values /\ (\A m : ByKey(m)' <=> ByKey(m))
  <2>1. Values' = Values
    BY <1>1 DEF Values, Slots, Slot
  <2> QED
    BY <1>1, <2>1 DEF ByKey, Key
<1>5. Within(val) /\ val \in Values /\ nds \in Nat \ {0} /\ ncomp \in Nat
  BY <1>1, <1>3 DEF Inv, Placed, Bounded, Opening
<1>6. ByKey(mask) /\ mask = FreeSlots("7")
  BY <1>1, <1>3 DEF Inv, Masked
<1>7. Placed'
  BY <1>1, <1>3, <1>4 DEF Inv, Placed
<1>8. Bounded'
  BY <1>1, <1>5 DEF Bounded, Within, Limits
<1>9. Closing'
  BY <1>2 DEF Closing
<1>10. Masked'
  <2>1. step' = "decide"
    BY <1>1 DEF Inv, Masked
  <2> QED
    BY <1>1, <1>2, <1>4, <1>6, <2>1 DEF Masked
<1>11. Whole'
  <2> SUFFICES ASSUME NEW c \in 2..ncomp, <<c, "sur_ratio">> \in frozen' \ fit.frozen,
                      NEW n \in Names
               PROVE  <<c, n>> \in frozen'
    BY <1>1 DEF Whole
  <2>1. "sur_ratio" \in Names /\ c \in 1..ncomp /\ c # 1
    BY <1>5 DEF Names
  <2>2. /\ Slot(c, "sur_ratio", 1) \in DOMAIN val /\ Slot(c, n, 1) \in DOMAIN val
        /\ Slot(c, "sur_ratio", 1)[2] = "sur_ratio"
        /\ Key(Slot(c, "sur_ratio", 1)) = <<c, "sur_ratio">>
        /\ Key(Slot(c, n, 1)) = <<c, n>>
    <3>1. DOMAIN val = Slots(ncomp, nds)
      BY <1>5 DEF Values
    <3> QED
      BY <1>5, <2>1, <3>1, SlotFacts DEF Slot
  <2>3. Slot(c, "sur_ratio", 1) \notin mask
    BY <1>1, <2>1 DEF FrozenForRefits
  <2>4. <<c, "sur_ratio">> \in frozen
    BY <1>6, <2>1, <2>2, <2>3, AsksForAll DEF FreeSlots
  <2>5. <<c, n>> \in frozen
    BY <1>3, <2>4 DEF Inv, Whole
  <2>6. Slot(c, n, 1) \notin mask
    BY <1>6, <2>2, <2>5 DEF FreeSlots
  <2> QED
    BY <1>1, <2>1, <2>6 DEF FrozenForRefits
<1>12. Ensemble'
  <2>1. todo' \in Seq({"settle", "joint"})
    BY <1>1, EmptySeq
  <2>2. frozen' = { k \in (1..ncomp) \X Names : Slot(k[1], k[2], 1)' \notin solution'[2] }
    BY <1>1, <1>2 DEF FrozenForRefits, Slot
  <2>3. Within(solution[1])'
    BY <1>1, <1>2, <1>5 DEF Within, Limits
  <2>4. ByKey(solution[2])'
    BY <1>1, <1>2, <1>6 DEF ByKey, Key
  <2> QED
    BY <1>1, <1>2, <1>4, <1>5, <2>1, <2>2, <2>3, <2>4 DEF Ensemble
<1> QED
  BY <1>7, <1>8, <1>9, <1>10, <1>11, <1>12 DEF Inv

\* A refit starts where the solution is, untied names at the first spectrum's.
LEMMA StartRefitKeeps ==
    ASSUME Inv, StartRefit
    PROVE  Inv'
<1>1. /\ status = "running" /\ todo = <<>> /\ solution # <<>>
      /\ val' = [s \in DOMAIN val |-> solution[1][Slot(s[1], s[2], 1)]]
      /\ todo' = <<"settle", "joint">>
      /\ UNCHANGED <<fit, ncomp, nds, frozen, mask, solution, step, status>>
  BY DEF StartRefit, AtEnd
<1>2. Going /\ Going'
  BY <1>1 DEF Going
<1>3. /\ val \in Values /\ nds \in Nat \ {0} /\ ncomp \in Nat
      /\ solution[1] \in Values /\ Within(solution[1]) /\ ByKey(solution[2])
  BY <1>1, <1>2 DEF Inv, Placed, Ensemble
<1>4. Values' = Values /\ DOMAIN val' = DOMAIN val /\ DOMAIN val = Slots(ncomp, nds)
  <2>1. Values' = Values
    BY <1>1 DEF Values, Slots, Slot
  <2> QED
    BY <1>1, <1>3, <2>1 DEF Values
<1>5. \A s \in DOMAIN val : /\ Slot(s[1], s[2], 1) \in DOMAIN val
                            /\ Slot(s[1], s[2], 1)[1] = s[1] /\ Slot(s[1], s[2], 1)[2] = s[2]
                            /\ s[2] \notin fit.untied => Slot(s[1], s[2], 1) = s
  <2>1. \A s : Slot(s[1], s[2], 1)[1] = s[1] /\ Slot(s[1], s[2], 1)[2] = s[2]
    BY DEF Slot
  <2> QED
    BY <1>3, <1>4, <2>1, SlotFacts
<1>6. val' \in Values
  BY <1>1, <1>3, <1>4, <1>5 DEF Values
<1>7. Within(val)'
  <2>1. DOMAIN solution[1] = DOMAIN val
    BY <1>3, <1>4 DEF Values
  <2> QED
    BY <1>1, <1>3, <1>5, <2>1 DEF Within, Limits
<1>8. ByKey(mask)' /\ ByKey(solution[2])'
  BY <1>1, <1>2, <1>3, <1>4 DEF Inv, Masked, ByKey, Key
<1>9. Placed'
  BY <1>1, <1>2, <1>4, <1>6 DEF Inv, Placed
<1>10. Bounded'
  BY <1>7 DEF Bounded
<1>11. Closing'
  BY <1>1 DEF Closing
<1>12. Masked'
  <2>1. step' = "decide"
    BY <1>1 DEF Inv, Masked
  <2> QED
    BY <1>1, <1>8, <2>1 DEF Masked
<1>13. Whole'
  BY <1>1, <1>2 DEF Inv, Whole
<1>14. Ensemble'
  <2>1. todo' \in Seq({"settle", "joint"})
    BY <1>1
  <2>2. frozen' = { k \in (1..ncomp') \X Names : Slot(k[1], k[2], 1)' \notin solution'[2] }
    BY <1>1 DEF Inv, Ensemble, Slot
  <2>3. Within(solution[1])'
    BY <1>1, <1>3 DEF Within, Limits
  <2>4. \A s \in DOMAIN val' : s[2] \notin fit.untied => val'[s] = solution[1][s]
    BY <1>1, <1>4, <1>5
  <2> QED
    BY <1>1, <1>3, <1>4, <1>8, <2>1, <2>2, <2>3, <2>4 DEF Ensemble
<1> QED
  BY <1>9, <1>10, <1>11, <1>12, <1>13, <1>14 DEF Inv

\* The spectra are read and the parameters laid out.
LEMMA ReadKeeps ==
    ASSUME Inv, Read
    PROVE  Inv'
<1>1. /\ status = "reading" /\ status' = "planning" /\ solution = <<>> /\ mask = {}
      /\ step = "decide" /\ UNCHANGED <<fit, solution, mask, step>> /\ fit \in Request
  BY FitAssumption DEF Inv, Placed, Read
<1>2. ncomp' \in {1, fit.components} /\ fit.components \in Components /\ nds' \in 1..fit.files
  BY <1>1 DEF Read, Accepted, Request
<1>3. ncomp' \in Nat /\ ncomp' \in Components /\ nds' \in Nat \ {0}
  BY <1>1, <1>2 DEF Components, Request
<1>4. val' \in [Slots(ncomp', nds') -> Nat]
  <2>1. /\ fit.start \in [Components \X Names -> Nat]
        /\ val' = [s \in Slots(ncomp', nds') |->
                      IF Key(s) = <<1, "sur_ratio">> THEN 1 ELSE fit.start[Key(s)]]
    BY <1>1 DEF Read, Request
  <2>2. \A s \in Slots(ncomp', nds') : Key(s) \in Components \X Names
    <3>1. \A c, n, d : Key(Slot(c, n, d)) = <<c, n>>
      BY DEF Slot, Key
    <3>2. \A c \in 1..ncomp' : c \in Components
      BY <1>3 DEF Components
    <3> QED
      BY <3>1, <3>2 DEF Slots
  <2> QED
    BY <2>1, <2>2
<1>5. Slots(ncomp, nds)' = Slots(ncomp', nds')
  BY <1>1 DEF Slots, Slot
<1>6. Placed'
  BY <1>1, <1>3, <1>4, <1>5 DEF Inv, Placed, Values
<1>7. Bounded'
  BY <1>1 DEF Bounded, Opening
<1>8. Closing' /\ Ensemble'
  BY <1>1 DEF Closing, Ensemble
<1>9. Masked'
  BY <1>1 DEF Masked, ByKey
<1>10. Whole'
  BY <1>1, <1>3 DEF Whole, Read
<1> QED
  BY <1>6, <1>7, <1>8, <1>9, <1>10 DEF Inv

\* Planning lays out the ladder and no more.
LEMMA PlanKeeps ==
    ASSUME Inv, PlanStages
    PROVE  Inv'
<1>1. /\ status = "planning" /\ status' = "running" /\ todo' = Ladder
      /\ solution = <<>> /\ step = "decide" /\ UNCHANGED <<Settings, step>>
  BY DEF Inv, Placed, PlanStages, parameters, Settings
<1>2. Going /\ Going'
  BY <1>1 DEF Going
<1>3. Placed'
  BY <1>1, <1>2, SameSettings DEF Inv, Placed, Settings
<1>4. Bounded'
  BY <1>1, LadderFacts DEF Bounded, Opening, Settings
<1>5. Closing'
  BY <1>1, LadderFacts DEF Closing, EndsWhole
<1>6. Masked'
  <2>1. ByKey(mask)'
    BY <1>1, <1>2, SameSettings DEF Inv, Masked, Settings
  <2> QED
    BY <1>1, <2>1, LadderFacts DEF Masked
<1>7. Whole'
  BY <1>1, <1>2 DEF Inv, Whole, Settings
<1>8. Ensemble'
  BY <1>1 DEF Ensemble, Settings
<1> QED
  BY <1>3, <1>4, <1>5, <1>6, <1>7, <1>8 DEF Inv

\* Setting slots to 0, but for the ratio of reference, stays in the bounds.
LEMMA ZeroedFacts ==
    ASSUME nds \in Nat \ {0}, ncomp \in Nat, val \in Values,
           NEW keys \in SUBSET ((1..ncomp) \X Names), <<1, "sur_ratio">> \notin keys
    PROVE  /\ Zeroed(keys) \in Values
           /\ Within(val) => Within(Zeroed(keys))
           /\ \A s \in DOMAIN val : Key(s) \notin keys => Zeroed(keys)[s] = val[s]
<1>1. /\ DOMAIN Zeroed(keys) = DOMAIN val
      /\ \A s \in DOMAIN val : Zeroed(keys)[s] = IF Key(s) \in keys THEN 0 ELSE val[s]
  BY DEF Zeroed
<1>2. Zeroed(keys) \in Values
  BY DEF Zeroed, Values
<1>3. ASSUME Within(val), NEW s \in DOMAIN val
      PROVE  Zeroed(keys)[s] \in Limits(s[1], s[2])
  <2>1. CASE Key(s) \in keys
    <3>1. Limits(s[1], s[2]) = 0..AxisMax
      BY <2>1, LimitFacts DEF Key
    <3> QED
      BY <1>1, <1>3, <2>1, <3>1, FitAssumption
  <2>2. CASE Key(s) \notin keys
    BY <1>1, <1>3, <2>2 DEF Within
  <2> QED
    BY <2>1, <2>2
<1> QED
  BY <1>1, <1>2, <1>3 DEF Within

\* What each of the three deciding stages freezes.
LEMMA VsiniKeys ==
    /\ Unmeasurable \in SUBSET ((1..ncomp) \X Names)
    /\ \A k \in Unmeasurable : k[2] = "vsini" /\ k \notin frozen
<1>1. ASSUME NEW k \in Unmeasurable
      PROVE  k \in (1..ncomp) \X Names /\ k[2] = "vsini" /\ k \notin frozen
  <2>1. PICK c \in 1..ncomp : <<c, "vsini">> \notin frozen /\ k = <<c, "vsini">>
    BY DEF Unmeasurable
  <2> QED
    BY <2>1 DEF Names
<1> QED
  BY <1>1

\* A retirement takes secondaries, with everything that is theirs.
LEMMA FaintKeys ==
    ASSUME NEW unseen \in SUBSET (2..ncomp), ncomp \in Nat
    PROVE  /\ Faint(unseen) \X Names \in SUBSET ((1..ncomp) \X Names)
           /\ Faint(unseen) \X {"sur_ratio"} \in SUBSET ((1..ncomp) \X Names)
           /\ \A c \in Faint(unseen) : c # 1 /\ <<c, "sur_ratio">> \notin frozen
<1>1. Faint(unseen) \subseteq 2..ncomp
  BY DEF Faint
<1>2. \A c \in 2..ncomp : c \in 1..ncomp /\ c # 1
  OBVIOUS
<1> QED
  BY <1>1, <1>2 DEF Faint, Names

\* Ratios are not frozen for lying at a bound.
LEMMA BoundaryKeys ==
    /\ AtBoundary \in SUBSET ((1..ncomp) \X Names)
    /\ \A k \in AtBoundary : k[2] # "sur_ratio"
  BY DEF AtBoundary

\* Skipping a deciding stage.
LEMMA SkipKeeps ==
    ASSUME Inv, status = "running", todo # <<>>, step = "decide",
           Head(todo) \in {"5", "5b", "7b"}, Skip
    PROVE  Inv'
  BY MovesDown DEF Skip, Settings, parameters

\* The stages that may freeze something.
LEMMA DecisionsKeep ==
    ASSUME Inv, FreezeVsini \/ RetireSecondaries \/ FreezeBoundary
    PROVE  Inv'
<1>1. /\ status = "running" /\ todo # <<>> /\ step = "decide"
      /\ Head(todo) \in {"5", "5b", "7b"}
  BY DEF FreezeVsini, RetireSecondaries, FreezeBoundary, At
<1>2. nds \in Nat \ {0} /\ ncomp \in Nat /\ val \in Values
  BY <1>1 DEF Inv, Placed, Going
<1>3. ASSUME Refit(Unmeasurable, Zeroed(Unmeasurable))
      PROVE  Inv'
  <2>1. <<1, "sur_ratio">> \notin Unmeasurable
    BY VsiniKeys
  <2>2. \A c \in 2..ncomp : <<c, "sur_ratio">> \notin Unmeasurable
    BY VsiniKeys
  <2>3. Zeroed(Unmeasurable) \in Values /\ (Within(val) => Within(Zeroed(Unmeasurable)))
    BY <1>2, <2>1, VsiniKeys, ZeroedFacts
  <2> QED
    BY <1>1, <1>3, <2>2, <2>3, VsiniKeys, Refreezes DEF Refit
<1>4. ASSUME NEW unseen \in SUBSET (2..ncomp),
             Refit(Faint(unseen) \X Names, Zeroed(Faint(unseen) \X {"sur_ratio"}))
      PROVE  Inv'
  <2> DEFINE keys == Faint(unseen) \X Names
             zeros == Faint(unseen) \X {"sur_ratio"}
  <2>1. keys \in SUBSET ((1..ncomp) \X Names) /\ zeros \in SUBSET ((1..ncomp) \X Names)
    BY <1>2, FaintKeys
  <2>2. <<1, "sur_ratio">> \notin zeros
    BY <1>2, FaintKeys
  <2>3. \A c \in 2..ncomp : <<c, "sur_ratio">> \in keys => {c} \X Names \subseteq keys
    OBVIOUS
  <2> HIDE DEF keys, zeros
  <2>4. Zeroed(zeros) \in Values /\ (Within(val) => Within(Zeroed(zeros)))
    BY <1>2, <2>1, <2>2, ZeroedFacts
  <2>5. Refit(keys, Zeroed(zeros))
    BY <1>4 DEF keys, zeros
  <2> QED
    BY <1>1, <2>1, <2>3, <2>4, <2>5, Refreezes DEF Refit
<1>5. ASSUME Refit(AtBoundary, val)
      PROVE  Inv'
  <2>1. \A c \in 2..ncomp : <<c, "sur_ratio">> \notin AtBoundary
    BY BoundaryKeys
  <2> QED
    BY <1>1, <1>2, <1>5, <2>1, BoundaryKeys, Refreezes DEF Refit
<1>6. CASE Skip
  BY <1>1, <1>6, SkipKeeps
<1> QED
  BY <1>3, <1>4, <1>5, <1>6 DEF FreezeVsini, RetireSecondaries, FreezeBoundary

\* Before the spectra are read there is nothing to keep.
LEMMA InvInitially == Init => Inv
<1> SUFFICES ASSUME Init
             PROVE  Inv
  OBVIOUS
<1>1. ~Going /\ status # "running"
  BY DEF Init, Going
<1>2. Placed
  BY <1>1 DEF Init, Placed
<1> QED
  BY <1>1, <1>2 DEF Inv, Bounded, Closing, Masked, Whole, Ensemble

\* Every step keeps the invariant.
LEMMA InvKept == Inv /\ [Next]_vars => Inv'
<1> SUFFICES ASSUME Inv, [Next]_vars
             PROVE  Inv'
  OBVIOUS
<1>1. CASE Read
  BY <1>1, ReadKeeps
<1>2. CASE ReadFails
  BY <1>2, Ends DEF ReadFails
<1>3. CASE PlanStages
  BY <1>3, PlanKeeps
<1>4. CASE Enter
  BY <1>4, GoesOn DEF Enter, At, Settings, parameters
<1>5. CASE FreezeVsini \/ RetireSecondaries \/ FreezeBoundary
  BY <1>5, DecisionsKeep
<1>6. CASE NoisePass
  BY <1>6, GoesOn DEF NoisePass, At, Settings, parameters
<1>7. CASE NoiseDone
  BY <1>7, MovesDown DEF NoiseDone, At, Settings, parameters
<1>8. CASE Solve
  BY <1>8, SolveKeeps
<1>9. CASE Leave
  <2>1. todo # <<>>
    BY <1>9 DEF Leave, Inv, Masked
  <2>2. CASE Head(todo) = "6"
    BY <1>9, <2>1, <2>2, GoesOn DEF Leave, Settings, parameters
  <2>3. CASE Head(todo) # "6"
    BY <1>9, <2>1, <2>3, MovesDown DEF Leave, Settings, parameters
  <2> QED
    BY <2>2, <2>3
<1>10. CASE Fails
  BY <1>10, Ends DEF Fails
<1>11. CASE Collect
  BY <1>11, CollectKeeps
<1>12. CASE StartRefit
  BY <1>12, StartRefitKeeps
<1>13. CASE Finish
  BY <1>13, Ends DEF Finish
<1>14. CASE UNCHANGED vars
  <2>1. UNCHANGED Settings /\ UNCHANGED <<status, step, todo>>
    BY <1>14 DEF vars, Settings, parameters
  <2>2. Going' <=> Going
    BY <2>1 DEF Going
  <2>3. Placed'
    BY <2>1, <2>2, SameSettings DEF Inv, Placed, Settings
  <2>4. Bounded' /\ Closing'
    BY <2>1, <2>2, SameSettings DEF Inv, Bounded, Opening, Closing, Settings, EndsWhole
  <2>5. Masked'
    BY <2>1, <2>2, SameSettings DEF Inv, Masked, Settings
  <2>6. Whole' /\ Ensemble'
    BY <2>1, <2>2, SameSettings DEF Inv, Whole, Ensemble, Settings, Key
  <2> QED
    BY <2>3, <2>4, <2>5, <2>6 DEF Inv
<1> QED
  BY <1>1, <1>2, <1>3, <1>4, <1>5, <1>6, <1>7, <1>8, <1>9, <1>10, <1>11, <1>12, <1>13, <1>14
     DEF Next, Rest

(***************************************************************************)
(* The bookkeeping of masks, freezes and bounds is right throughout a fit. *)
(***************************************************************************)
THEOREM ParametersKept == Spec => []Inv
<1> QED
  BY InvInitially, InvKept, PTL DEF Spec

-----------------------------------------------------------------------------
(* What follows.                                                           *)

(***************************************************************************)
(* Every solve frees the right parameters, for any request: none of a      *)
(* component the fit has held at a surface ratio of 0, and in every refit  *)
(* exactly those the main fit ended with free.                             *)
(***************************************************************************)
THEOREM MasksRight == Spec => []RightlyFree
<1>1. ASSUME Inv
      PROVE  RightlyFree
  <2>1. ASSUME NEW c \in 2..ncomp, status = "running", step = "leave",
               <<c, "sur_ratio">> \in frozen \ fit.frozen,
               NEW s \in mask
        PROVE  s[1] # c
    <3>1. Going
      BY <2>1 DEF Going
    <3>2. s \in DOMAIN val /\ Key(s) \notin frozen
      BY <1>1, <2>1 DEF Inv, Masked, FreeSlots
    <3>3. s[2] \in Names
      <4>1. nds \in Nat \ {0} /\ ncomp \in Nat /\ DOMAIN val = Slots(ncomp, nds)
        BY <1>1, <3>1 DEF Inv, Placed, Values
      <4> QED
        BY <3>2, <4>1, SlotFacts
    <3>4. {c} \X Names \subseteq frozen
      BY <1>1, <2>1, <3>1 DEF Inv, Whole
    <3> QED
      BY <3>2, <3>3, <3>4 DEF Key
  <2>2. ASSUME At({"joint"}, "leave")
        PROVE  mask = solution[2]
    <3>1. status = "running" /\ todo # <<>> /\ Head(todo) = "joint" /\ step = "leave" /\ Going
      BY <2>2 DEF At, Going
    <3>2. solution # <<>>
      <4>1. ASSUME solution = <<>>
            PROVE  FALSE
        <5>1. todo \in Seq(Stages)
          BY <1>1, <3>1, <4>1 DEF Inv, Closing, EndsWhole
        <5>2. Head(todo) \in Stages
          BY <3>1, <5>1, EmptySeq
        <5> QED
          BY <3>1, <5>2 DEF Stages
      <4> QED
        BY <4>1
    <3>3. /\ ByKey(solution[2]) /\ mask = FreeSlots("joint")
          /\ frozen = { k \in (1..ncomp) \X Names : Slot(k[1], k[2], 1) \notin solution[2] }
      BY <1>1, <3>1, <3>2 DEF Inv, Ensemble, Masked
    <3>4. nds \in Nat \ {0} /\ ncomp \in Nat /\ DOMAIN val = Slots(ncomp, nds)
      BY <1>1, <3>1 DEF Inv, Placed, Values
    <3>5. ASSUME NEW s \in DOMAIN val
          PROVE  s \in mask <=> s \in solution[2]
      <4>1. /\ s[2] \in Names /\ Key(s) \in (1..ncomp) \X Names
            /\ Slot(s[1], s[2], 1) \in DOMAIN val
            /\ Key(Slot(s[1], s[2], 1)) = Key(s)
        BY <3>4, SlotFacts
      <4>2. s \in solution[2] <=> Slot(s[1], s[2], 1) \in solution[2]
        BY <3>3, <4>1 DEF ByKey
      <4>3. Key(s) \in frozen <=> Slot(s[1], s[2], 1) \notin solution[2]
        BY <3>3, <4>1 DEF Key
      <4>4. s \in solution[2] => Key(s) # <<1, "sur_ratio">>
        BY <3>3 DEF ByKey
      <4>5. Asked("joint") = Names
        BY DEF Asked
      <4> QED
        BY <3>3, <4>1, <4>2, <4>3, <4>4, <4>5 DEF FreeSlots
    <3>6. mask \subseteq DOMAIN val /\ solution[2] \subseteq DOMAIN val
      BY <3>3 DEF ByKey, FreeSlots
    <3> QED
      BY <3>5, <3>6
  <2> QED
    BY <2>1, <2>2 DEF RightlyFree
<1> QED
  BY <1>1, ParametersKept, PTL

\* FrozenKept's action, for one slot.
Keeps(s) ==
    /\ Key(s) \in frozen
    /\ val[s] \in Limits(s[1], s[2])
    /\ s[2] \in fit.untied => todo # <<>>
    => val'[s] = val[s]

\* Every step leaves the frozen values alone.
LEMMA FrozenStepwise ==
    ASSUME Inv, [Next]_vars
    PROVE  [\A s \in DOMAIN val \cap DOMAIN val' : Keeps(s)]_vars
<1> SUFFICES ASSUME NEW s \in DOMAIN val, Key(s) \in frozen, val[s] \in Limits(s[1], s[2]),
                    s[2] \in fit.untied => todo # <<>>
             PROVE  val'[s] = val[s]
  BY DEF Keeps
<1>1. CASE UNCHANGED val
  BY <1>1
<1>2. CASE Read
  <2>1. val = <<>>
    BY <1>2 DEF Inv, Placed, Read
  <2>2. DOMAIN val = {}
    BY <2>1
  <2> QED
    BY <2>2
<1>3. CASE Solve
  BY <1>3, SolveLands
<1>4. CASE FreezeVsini \/ RetireSecondaries
  <2>1. /\ nds \in Nat \ {0} /\ ncomp \in Nat /\ val \in Values
    BY <1>4 DEF Inv, Placed, Going, FreezeVsini, RetireSecondaries, At
  <2>2. CASE val' = Zeroed(Unmeasurable)
    <3>1. Key(s) \notin Unmeasurable
      BY VsiniKeys
    <3> QED
      BY <2>2, <3>1 DEF Zeroed
  <2>3. ASSUME NEW unseen \in SUBSET (2..ncomp), val' = Zeroed(Faint(unseen) \X {"sur_ratio"})
        PROVE  val'[s] = val[s]
    <3>1. \A k \in Faint(unseen) \X {"sur_ratio"} : k = <<k[1], "sur_ratio">>
      OBVIOUS
    <3>2. Key(s) \notin Faint(unseen) \X {"sur_ratio"}
      BY <2>1, <3>1, FaintKeys
    <3> QED
      BY <2>3, <3>2 DEF Zeroed
  <2> QED
    BY <1>1, <1>4, <2>2, <2>3 DEF FreezeVsini, RetireSecondaries, Refit, Skip, parameters
<1>5. CASE StartRefit
  <2>1. /\ status = "running" /\ todo = <<>> /\ solution # <<>> /\ Going
        /\ val' = [u \in DOMAIN val |-> solution[1][Slot(u[1], u[2], 1)]]
    BY <1>5 DEF StartRefit, AtEnd, Going
  <2>2. nds \in Nat \ {0} /\ ncomp \in Nat /\ DOMAIN val = Slots(ncomp, nds)
    BY <2>1 DEF Inv, Placed, Values
  <2>3. s[2] \notin fit.untied /\ Slot(s[1], s[2], 1) = s
    BY <2>1, <2>2, SlotFacts
  <2>4. val[s] = solution[1][s]
    BY <2>1, <2>3 DEF Inv, Ensemble
  <2> QED
    BY <2>1, <2>3, <2>4
<1>6. CASE \/ ReadFails \/ PlanStages \/ Enter \/ NoisePass \/ NoiseDone \/ FreezeBoundary
           \/ Leave \/ Fails \/ Collect \/ Finish
  BY <1>1, <1>6 DEF ReadFails, PlanStages, Enter, NoisePass, NoiseDone, FreezeBoundary,
     Leave, Fails, Collect, Finish, Refit, Skip, parameters
<1>7. CASE Rest \/ UNCHANGED vars
  BY <1>1, <1>7 DEF Rest, vars, parameters
<1> QED
  BY <1>2, <1>3, <1>4, <1>5, <1>6, <1>7 DEF Next

(***************************************************************************)
(* What the caller or a stage has frozen keeps its value to the end of the *)
(* fit and through every refit, for any request and bounds.                *)
(***************************************************************************)
THEOREM FrozenStaysPut == Spec => FrozenKept
<1>1. Inv /\ [Next]_vars => [\A s \in DOMAIN val \cap DOMAIN val' : Keeps(s)]_vars
  BY FrozenStepwise
<1>2. Spec => [][\A s \in DOMAIN val \cap DOMAIN val' : Keeps(s)]_vars
  BY <1>1, ParametersKept, PTL DEF Spec
<1> QED
  BY <1>2 DEF FrozenKept, Keeps

-----------------------------------------------------------------------------
(* The plan.                                                               *)

\* The order of the phases of a fit: by stage, then by number, and each refit
\* settles before it joins.
Major(s) ==
    IF s = "pre" THEN 0 ELSE IF s = "fit" THEN 1 ELSE IF s = "1" THEN 2 ELSE IF s = "2" THEN 3
    ELSE IF s = "3" THEN 4 ELSE IF s = "4" THEN 5 ELSE IF s = "5" THEN 6 ELSE IF s = "5b" THEN 7
    ELSE IF s = "6" THEN 8 ELSE IF s = "7" THEN 9 ELSE IF s = "7b" THEN 10 ELSE 11

Minor(s) == IF s = "joint" THEN 1 ELSE 0

Sooner(a, b) ==
    \/ Major(a[1]) < Major(b[1])
    \/ Major(a[1]) = Major(b[1]) /\ a[2] < b[2]
    \/ Major(a[1]) = Major(b[1]) /\ a[2] = b[2] /\ Minor(a[1]) < Minor(b[1])

InOrder(plan) == \A i, j \in DOMAIN plan : i < j => Sooner(plan[i].id, plan[j].id)

Climbs(stages) == \A i, j \in DOMAIN stages : i < j => Sooner(<<stages[i], 0>>, <<stages[j], 0>>)

PhaseNames == {"pre", "fit", "jitter", "1", "2", "3", "4", "5", "5b", "6", "7", "7b",
               "settle", "joint"}
PhaseRecord == [id : PhaseNames \X Nat, counts : BOOLEAN, done : BOOLEAN]
Refitting == {"jitter", "settle", "joint"}

\* Only stage 6 and the refits are numbered, from 1.
Numbered(u) ==
    /\ u[1] \in Refitting => u[2] \in 1..fit.refits
    /\ u[1] = "6" => u[2] >= 1
    /\ u[1] \notin Refitting \cup {"6"} => u[2] = 0

Among(s, stages) == \E i \in DOMAIN stages : stages[i] = s

\* A phase that is still to come, or at hand: of the stages to do, or of a refit.
Coming(u) ==
    \/ status = "planning" /\ u[1] \in {"fit", "jitter"}
    \/ status = "running" /\ u[1] = "jitter" /\ (solution # <<>> => u[2] > round)
    \/ /\ status = "running" /\ u[1] # "6" /\ Among(u[1], todo)
       /\ solution # <<>> => u[2] = round
    \/ /\ status = "running" /\ u[1] = "6" /\ Among("6", todo)
       /\ Head(todo) = "6" => u[2] > round \/ (u[2] = round /\ step # "decide")

PlanTyped ==
    /\ sink \in BOOLEAN /\ aborted \in BOOLEAN /\ (status = "reading" \/ Going \/ Over)
    /\ phases \in Seq(PhaseRecord) /\ current \in 0..Len(phases)
    /\ InOrder(phases)
    /\ \A i \in DOMAIN phases : Numbered(phases[i].id)

\* Which phases there are: without a callback the plan stays what it was at first.
Bare(u) == u[1] \in {"pre", "fit", "jitter"}

PlanNamed ==
    /\ ~sink \/ status \in {"reading", "planning"} => \A i \in DOMAIN phases : Bare(phases[i].id)
    /\ status = "running" =>
           \A i \in DOMAIN phases : phases[i].id[1] \in {"settle", "joint"} =>
               solution # <<>> /\ phases[i].id[2] <= round

\* What there is to do, in the order of the phases, and which pass or refit is at hand.
Rounds ==
    /\ status \in {"reading", "planning"} => round = 0 /\ todo = <<>> /\ solution = <<>>
    /\ status = "running" =>
           /\ Climbs(todo) /\ todo \in Seq(PhaseNames) /\ round \in Nat
           /\ solution = <<>> /\ (todo = <<>> \/ Head(todo) # "6") => round = 0

\* The phase that runs is the one at hand, and what is not paid for is to come.
Pointed ==
    /\ status = "reading" => current = 1 /\ Len(phases) >= 1 /\ phases[1].id = <<"pre", 0>>
    /\ Going => current = 0 \/ (/\ status = "running" /\ step # "decide"
                                /\ phases[current].id = Here)
    /\ Going /\ sink => \A i \in Unpaid : Coming(phases[i].id)

PlanCore == PlanTyped /\ PlanNamed /\ Rounds /\ Pointed /\ (Over => OrderlyPlan)


-----------------------------------------------------------------------------
(* The order of the phases.                                                *)

\* Levels are numbers, whatever the name.
LEMMA MajorType == \A s : Major(s) \in 0..11 /\ Minor(s) \in 0..1
  BY DEF Major, Minor

Numbers == PhaseNames \X Nat

\* The order is one.
LEMMA SoonerOrders ==
    /\ \A a \in Numbers : ~Sooner(a, a)
    /\ \A a, b \in Numbers : Sooner(a, b) => ~Sooner(b, a)
    /\ \A a, b, c \in Numbers : Sooner(a, b) /\ Sooner(b, c) => Sooner(a, c)
<1>1. \A a \in Numbers : a[2] \in Nat /\ Major(a[1]) \in Int /\ Minor(a[1]) \in Int
  BY MajorType DEF Numbers
<1> QED
  BY <1>1 DEF Sooner

\* An ordered plan has a phase at most once.
LEMMA PhasesOnce ==
    ASSUME NEW plan \in Seq(PhaseRecord), InOrder(plan),
           NEW i \in DOMAIN plan, NEW j \in DOMAIN plan, plan[i].id = plan[j].id
    PROVE  i = j
<1>1. plan[i].id \in Numbers /\ i \in Nat /\ j \in Nat
  <2>1. plan[i] \in PhaseRecord /\ i \in Nat /\ j \in Nat
    OBVIOUS
  <2> QED
    BY <2>1 DEF PhaseRecord, Numbers
<1>2. ~Sooner(plan[i].id, plan[j].id) /\ ~Sooner(plan[j].id, plan[i].id)
  BY <1>1, SoonerOrders
<1> QED
  BY <1>1, <1>2 DEF InOrder

\* find.
LEMMA FindFacts ==
    ASSUME NEW plan \in Seq(PhaseRecord), InOrder(plan), NEW id
    PROVE  /\ Find(plan, id) \in 0..Len(plan)
           /\ Find(plan, id) = 0 => \A i \in DOMAIN plan : plan[i].id # id
           /\ Find(plan, id) # 0 =>
                  /\ Find(plan, id) \in DOMAIN plan /\ plan[Find(plan, id)].id = id
                  /\ \A i \in DOMAIN plan : plan[i].id = id => i = Find(plan, id)
<1>1. DOMAIN plan = 1..Len(plan)
  OBVIOUS
<1>2. CASE \E i \in DOMAIN plan : plan[i].id = id
  <2>1. Find(plan, id) \in DOMAIN plan /\ plan[Find(plan, id)].id = id
    BY <1>2 DEF Find
  <2> QED
    BY <1>1, <2>1, PhasesOnce
<1>3. CASE ~\E i \in DOMAIN plan : plan[i].id = id
  BY <1>3 DEF Find
<1> QED
  BY <1>2, <1>3

\* Phases are records, with the name they were made for.
LEMMA PhaseMade ==
    ASSUME NEW id \in Numbers
    PROVE  Phase(id) \in PhaseRecord /\ Phase(id).id = id /\ Phase(id).counts /\ ~Phase(id).done
  BY DEF Phase, PhaseRecord, Numbers

\* A list of names in order.
Listed(ids) ==
    ids \in Seq(Numbers) /\ \A i, j \in DOMAIN ids : i < j => Sooner(ids[i], ids[j])

\* Two lists, one after the other.
Joins(d, a, b) ==
    /\ Len(d) = Len(a) + Len(b)
    /\ \A i \in 1..Len(a) : d[i] = a[i]
    /\ \A i \in 1..Len(b) : d[Len(a) + i] = b[i]
    /\ \A i \in (Len(a) + 1)..(Len(a) + Len(b)) : d[i] = b[i - Len(a)]

\* Lists are joined end to end.
LEMMA Joined ==
    ASSUME NEW S, NEW a \in Seq(S), NEW b \in Seq(S)
    PROVE  a \o b \in Seq(S) /\ Joins(a \o b, a, b)
  BY DEF Joins

\* new is plan with its phase number at replaced by those of ids.
Splices(new, plan, at, ids) ==
    /\ Len(new) = Len(plan) + Len(ids) - 1
    /\ \A i \in 1..(at - 1) : new[i] = plan[i]
    /\ \A i \in 1..Len(ids) : new[at - 1 + i] = Phase(ids[i])
    /\ \A i \in (at + Len(ids))..Len(new) : new[i] = plan[i - Len(ids) + 1]

\* expand: where each phase of the new plan comes from.
LEMMA Spliced ==
    ASSUME NEW plan \in Seq(PhaseRecord), NEW id, NEW ids \in Seq(Numbers), Find(plan, id) \in DOMAIN plan
    PROVE  /\ Expand(plan, id, ids) \in Seq(PhaseRecord)
           /\ Splices(Expand(plan, id, ids), plan, Find(plan, id), ids)
<1> DEFINE at == Find(plan, id)
           A == SubSeq(plan, 1, at - 1)
           B == [i \in DOMAIN ids |-> Phase(ids[i])]
           C == SubSeq(plan, at + 1, Len(plan))
<1>1. at \in 1..Len(plan) /\ Len(plan) \in Nat /\ DOMAIN ids = 1..Len(ids) /\ Len(ids) \in Nat
  OBVIOUS
<1>2. A \in Seq(PhaseRecord) /\ Len(A) = at - 1 /\ \A i \in 1..(at - 1) : A[i] = plan[i]
  <2> HIDE DEF at
  <2> QED
    BY <1>1
<1>3. B \in Seq(PhaseRecord) /\ Len(B) = Len(ids) /\ \A i \in 1..Len(ids) : B[i] = Phase(ids[i])
  <2>1. \A i \in 1..Len(ids) : Phase(ids[i]) \in PhaseRecord
    BY PhaseMade
  <2> QED
    BY <1>1, <2>1
<1>4. /\ C \in Seq(PhaseRecord) /\ Len(C) = Len(plan) - at
      /\ \A i \in 1..(Len(plan) - at) : C[i] = plan[at + i]
  <2> HIDE DEF at
  <2> QED
    BY <1>1
<1>5. Expand(plan, id, ids) = (A \o B) \o C
  <2>1. at # 0
    BY <1>1
  <2> QED
    BY <2>1, Zenon DEF Expand
<1> HIDE DEF A, B, C, at
<1> DEFINE D == A \o B
<1>6. /\ D \in Seq(PhaseRecord) /\ Len(D) = at - 1 + Len(ids)
      /\ \A i \in 1..(at - 1) : D[i] = A[i]
      /\ \A i \in 1..Len(ids) : D[at - 1 + i] = B[i]
  <2>1. D \in Seq(PhaseRecord) /\ Joins(D, A, B)
    BY <1>2, <1>3, Joined
  <2> HIDE DEF D
  <2> QED
    BY <1>1, <1>2, <1>3, <2>1 DEF Joins
<1> HIDE DEF D
<1> DEFINE new == D \o C
<1>7. /\ new \in Seq(PhaseRecord) /\ Len(new) = Len(plan) + Len(ids) - 1
      /\ \A i \in 1..(at - 1 + Len(ids)) : new[i] = D[i]
      /\ \A i \in (at + Len(ids))..Len(new) : new[i] = C[i - (at - 1 + Len(ids))]
  <2>1. new \in Seq(PhaseRecord) /\ Joins(new, D, C)
    BY <1>4, <1>6, Joined
  <2> HIDE DEF new
  <2>2. Len(D) + 1 = at + Len(ids) /\ Len(D) + Len(C) = Len(plan) + Len(ids) - 1
    BY <1>1, <1>4, <1>6
  <2> QED
    BY <1>6, <2>1, <2>2 DEF Joins
<1> HIDE DEF new
<1>8. new = Expand(plan, id, ids)
  BY <1>5 DEF new, D
<1>9. \A i \in (at + Len(ids))..Len(new) : new[i] = plan[i - Len(ids) + 1]
  <2> SUFFICES ASSUME NEW i \in (at + Len(ids))..Len(new) PROVE new[i] = plan[i - Len(ids) + 1]
    OBVIOUS
  <2>1. i - (at - 1 + Len(ids)) \in 1..(Len(plan) - at) /\ at + (i - (at - 1 + Len(ids))) = i - Len(ids) + 1
    BY <1>1, <1>7
  <2> QED
    BY <1>4, <1>7, <2>1
<1>10. \A i \in 1..(at - 1) : new[i] = plan[i]
  BY <1>1, <1>2, <1>6, <1>7
<1>11. \A i \in 1..Len(ids) : new[at - 1 + i] = Phase(ids[i])
  <2> SUFFICES ASSUME NEW i \in 1..Len(ids) PROVE new[at - 1 + i] = Phase(ids[i])
    OBVIOUS
  <2>1. at - 1 + i \in 1..(at - 1 + Len(ids))
    BY <1>1
  <2> QED
    BY <1>3, <1>6, <1>7, <2>1
<1> QED
  BY <1>7, <1>8, <1>9, <1>10, <1>11 DEF at, Splices

\* ... and in order, if what is put in lies between its neighbours.
LEMMA SplicedInOrder ==
    ASSUME NEW plan \in Seq(PhaseRecord), InOrder(plan), NEW id, NEW ids, Listed(ids),
           Find(plan, id) \in DOMAIN plan,
           \A i \in DOMAIN plan : \A k \in DOMAIN ids :
               /\ i < Find(plan, id) => Sooner(plan[i].id, ids[k])
               /\ i > Find(plan, id) => Sooner(ids[k], plan[i].id)
    PROVE  /\ Expand(plan, id, ids) \in Seq(PhaseRecord)
           /\ InOrder(Expand(plan, id, ids))
           /\ \A i \in DOMAIN Expand(plan, id, ids) :
                  \/ \E j \in DOMAIN plan \ {Find(plan, id)} : Expand(plan, id, ids)[i] = plan[j]
                  \/ \E k \in DOMAIN ids : Expand(plan, id, ids)[i] = Phase(ids[k])
<1> DEFINE at == Find(plan, id)
           new == Expand(plan, id, ids)
           n == Len(ids)
<1>1. ids \in Seq(Numbers) /\ DOMAIN ids = 1..n /\ n \in Nat /\ DOMAIN plan = 1..Len(plan) /\ Len(plan) \in Nat
  BY DEF Listed
<1>2. /\ new \in Seq(PhaseRecord) /\ Len(new) = Len(plan) + n - 1 /\ at \in 1..Len(plan)
      /\ \A i \in 1..(at - 1) : new[i] = plan[i]
      /\ \A i \in 1..n : new[at - 1 + i] = Phase(ids[i])
      /\ \A i \in (at + n)..Len(new) : new[i] = plan[i - n + 1]
  <2>1. at \in 1..Len(plan)
    BY <1>1
  <2>2. new \in Seq(PhaseRecord) /\ Splices(new, plan, at, ids)
    BY <1>1, Spliced
  <2> HIDE DEF new, at
  <2> QED
    BY <2>1, <2>2 DEF Splices
<1> HIDE DEF at, new, n
<1>3. \A i \in 1..n : Phase(ids[i]).id = ids[i]
  BY <1>1, PhaseMade
<1>4. ASSUME NEW i \in 1..Len(new)
      PROVE  \/ i < at /\ new[i] = plan[i]
             \/ i - at + 1 \in 1..n /\ new[i] = Phase(ids[i - at + 1]) /\ new[i].id = ids[i - at + 1]
             \/ i >= at + n /\ i - n + 1 \in (at + 1)..Len(plan) /\ new[i] = plan[i - n + 1]
  <2>1. CASE i < at
    BY <1>1, <1>2, <2>1
  <2>2. CASE at <= i /\ i < at + n
    <3>1. i - at + 1 \in 1..n /\ at - 1 + (i - at + 1) = i
      BY <1>1, <1>2, <2>2
    <3>2. new[at - 1 + (i - at + 1)] = Phase(ids[i - at + 1])
      BY <1>2, <3>1
    <3> QED
      BY <1>3, <3>1, <3>2
  <2>3. CASE i >= at + n
    <3>1. i \in (at + n)..Len(new) /\ i - n + 1 \in (at + 1)..Len(plan)
      BY <1>1, <1>2, <2>3
    <3> QED
      BY <1>2, <2>3, <3>1
  <2> QED
    BY <1>1, <1>2, <2>1, <2>2, <2>3
<1>5. ASSUME NEW i \in 1..Len(new), NEW j \in 1..Len(new), i < j
      PROVE  Sooner(new[i].id, new[j].id)
  <2>0. /\ \A a, b \in DOMAIN plan : a < b => Sooner(plan[a].id, plan[b].id)
        /\ \A a, b \in 1..n : a < b => Sooner(ids[a], ids[b])
        /\ \A a \in DOMAIN plan, k \in 1..n :
               (a < at => Sooner(plan[a].id, ids[k])) /\ (a > at => Sooner(ids[k], plan[a].id))
    <3>1. \A a, b \in DOMAIN plan : a < b => Sooner(plan[a].id, plan[b].id)
      BY DEF InOrder
    <3>2. \A a, b \in 1..n : a < b => Sooner(ids[a], ids[b])
      BY <1>1 DEF Listed
    <3>3. \A a \in DOMAIN plan, k \in 1..n :
              (a < at => Sooner(plan[a].id, ids[k])) /\ (a > at => Sooner(ids[k], plan[a].id))
      <4> SUFFICES ASSUME NEW a \in DOMAIN plan, NEW k \in 1..n
                   PROVE  (a < at => Sooner(plan[a].id, ids[k])) /\ (a > at => Sooner(ids[k], plan[a].id))
        OBVIOUS
      <4>1. k \in DOMAIN ids
        BY <1>1
      <4> QED
        BY <4>1 DEF at
    <3> QED
      BY <3>1, <3>2, <3>3, Zenon
  <2>1. CASE i < at
    <3>1. i \in DOMAIN plan /\ new[i] = plan[i]
      <4>1. i \in Nat /\ i >= 1 /\ at <= Len(plan)
        BY <1>2
      <4>2. i \in 1..(at - 1) /\ i \in 1..Len(plan)
        BY <1>1, <1>2, <2>1, <4>1
      <4> QED
        BY <1>1, <1>2, <4>2
    <3>2. CASE j < at
      <4>1. j \in DOMAIN plan /\ new[j] = plan[j]
        BY <1>1, <1>2, <3>2
      <4> QED
        BY <1>5, <2>0, <3>1, <4>1
    <3>3. CASE j - at + 1 \in 1..n /\ new[j].id = ids[j - at + 1]
      BY <2>0, <2>1, <3>1, <3>3
    <3>4. CASE j >= at + n /\ j - n + 1 \in (at + 1)..Len(plan) /\ new[j] = plan[j - n + 1]
      <4>1. j - n + 1 \in DOMAIN plan /\ i < j - n + 1
        BY <1>1, <1>2, <2>1, <3>4
      <4> QED
        BY <2>0, <3>1, <3>4, <4>1
    <3> QED
      BY <1>4, <3>2, <3>3, <3>4
  <2>2. CASE i - at + 1 \in 1..n /\ new[i].id = ids[i - at + 1]
    <3>1. CASE j < at
      BY <1>1, <1>2, <1>5, <2>2, <3>1
    <3>2. CASE j - at + 1 \in 1..n /\ new[j].id = ids[j - at + 1]
      <4>1. i - at + 1 < j - at + 1
        BY <1>2, <1>5
      <4> QED
        BY <2>0, <2>2, <3>2, <4>1
    <3>3. CASE j >= at + n /\ j - n + 1 \in (at + 1)..Len(plan) /\ new[j] = plan[j - n + 1]
      <4>1. j - n + 1 \in DOMAIN plan /\ j - n + 1 > at
        BY <1>1, <1>2, <3>3
      <4> QED
        BY <2>0, <2>2, <3>3, <4>1
    <3> QED
      BY <1>4, <3>1, <3>2, <3>3
  <2>3. CASE i >= at + n /\ i - n + 1 \in (at + 1)..Len(plan) /\ new[i] = plan[i - n + 1]
    <3>1. j >= at + n
      BY <1>1, <1>2, <1>5, <2>3
    <3>2. j - n + 1 \in (at + 1)..Len(plan) /\ new[j] = plan[j - n + 1]
      BY <1>1, <1>2, <1>4, <3>1
    <3>3. i - n + 1 < j - n + 1 /\ i - n + 1 \in DOMAIN plan /\ j - n + 1 \in DOMAIN plan
      BY <1>1, <1>2, <1>5, <2>3, <3>2
    <3> QED
      BY <2>0, <2>3, <3>2, <3>3
  <2> QED
    BY <1>4, <2>1, <2>2, <2>3
<1>6. ASSUME NEW i \in 1..Len(new)
      PROVE  \/ \E j \in DOMAIN plan \ {at} : new[i] = plan[j]
             \/ \E k \in DOMAIN ids : new[i] = Phase(ids[k])
  <2>1. CASE i < at
    <3>1. i \in DOMAIN plan \ {at} /\ new[i] = plan[i]
      BY <1>1, <1>2, <2>1
    <3> QED
      BY <3>1
  <2>2. CASE i - at + 1 \in 1..n /\ new[i] = Phase(ids[i - at + 1])
    BY <1>1, <2>2
  <2>3. CASE i - n + 1 \in (at + 1)..Len(plan) /\ new[i] = plan[i - n + 1]
    <3>1. i - n + 1 \in DOMAIN plan \ {at}
      BY <1>1, <1>2, <2>3
    <3> QED
      BY <2>3, <3>1
  <2> QED
    BY <1>4, <2>1, <2>2, <2>3
<1>7. DOMAIN new = 1..Len(new)
  BY <1>2
<1>8. InOrder(new)
  BY <1>5, <1>7 DEF InOrder
<1> QED
  BY <1>2, <1>6, <1>7, <1>8 DEF at, new

\* Lists in order, one after the other.
LEMMA ListedOn ==
    ASSUME NEW a, Listed(a), NEW b, Listed(b),
           \A i \in DOMAIN a, j \in DOMAIN b : Sooner(a[i], b[j])
    PROVE  /\ Listed(a \o b)
           /\ \A k \in DOMAIN (a \o b) : (\E i \in DOMAIN a : (a \o b)[k] = a[i]) \/ (\E j \in DOMAIN b : (a \o b)[k] = b[j])
<1> DEFINE d == a \o b
<1>1. /\ a \in Seq(Numbers) /\ b \in Seq(Numbers)
      /\ \A i, j \in DOMAIN a : i < j => Sooner(a[i], a[j])
      /\ \A i, j \in DOMAIN b : i < j => Sooner(b[i], b[j])
  BY DEF Listed
<1>2. d \in Seq(Numbers) /\ Joins(d, a, b)
  BY <1>1, Joined
<1> HIDE DEF d
<1>3. /\ Len(a) \in Nat /\ Len(b) \in Nat /\ DOMAIN a = 1..Len(a) /\ DOMAIN b = 1..Len(b)
      /\ DOMAIN d = 1..(Len(a) + Len(b))
  BY <1>1, <1>2 DEF Joins
<1>4. \A k \in DOMAIN d :
          \/ k \in DOMAIN a /\ d[k] = a[k]
          \/ k > Len(a) /\ k - Len(a) \in DOMAIN b /\ d[k] = b[k - Len(a)]
  BY <1>2, <1>3 DEF Joins
<1>5. ASSUME NEW i \in DOMAIN d, NEW j \in DOMAIN d, i < j PROVE Sooner(d[i], d[j])
  <2>1. CASE i \in DOMAIN a /\ j \in DOMAIN a
    BY <1>1, <1>3, <1>4, <1>5, <2>1
  <2>2. CASE i \in DOMAIN a /\ j \notin DOMAIN a
    BY <1>3, <1>4, <1>5, <2>2
  <2>3. CASE i \notin DOMAIN a
    <3>1. i - Len(a) \in DOMAIN b /\ j - Len(a) \in DOMAIN b /\ i - Len(a) < j - Len(a)
      BY <1>3, <1>4, <1>5, <2>3
    <3>2. d[i] = b[i - Len(a)] /\ d[j] = b[j - Len(a)]
      BY <1>3, <1>4, <1>5, <2>3
    <3> QED
      BY <1>1, <3>1, <3>2
  <2> QED
    BY <2>1, <2>2, <2>3
<1>6. Listed(d)
  BY <1>2, <1>5 DEF Listed
<1>7. \A k \in DOMAIN d : (\E i \in DOMAIN a : d[k] = a[i]) \/ (\E j \in DOMAIN b : d[k] = b[j])
  BY <1>4
<1> QED
  BY <1>6, <1>7 DEF d

\* Stages in order are a list of unnumbered names in order.
AsPhases(stages) == [i \in DOMAIN stages |-> <<stages[i], 0>>]

\* Stages in order are phases in order.
LEMMA ClimbsListed ==
    ASSUME NEW stages \in Seq(PhaseNames)
    PROVE  Climbs(stages) <=> Listed(AsPhases(stages))
<1>1. AsPhases(stages) \in Seq(Numbers) /\ DOMAIN AsPhases(stages) = DOMAIN stages
  <2>1. DOMAIN stages = 1..Len(stages) /\ Len(stages) \in Nat /\ \A i \in DOMAIN stages : <<stages[i], 0>> \in Numbers
    BY DEF Numbers
  <2> QED
    BY <2>1 DEF AsPhases
<1>2. \A i \in DOMAIN stages : AsPhases(stages)[i] = <<stages[i], 0>>
  BY DEF AsPhases
<1> QED
  BY <1>1, <1>2 DEF Climbs, Listed

\* Stages in order, one list after the other.
LEMMA ClimbsOn ==
    ASSUME NEW a \in Seq(PhaseNames), Climbs(a), NEW b \in Seq(PhaseNames), Climbs(b),
           \A i \in DOMAIN a, j \in DOMAIN b : Sooner(<<a[i], 0>>, <<b[j], 0>>)
    PROVE  /\ a \o b \in Seq(PhaseNames) /\ Climbs(a \o b)
           /\ \A k \in DOMAIN (a \o b) : Among((a \o b)[k], a) \/ Among((a \o b)[k], b)
           /\ \A s : Among(s, a) \/ Among(s, b) => Among(s, a \o b)
<1> DEFINE d == a \o b
           u == AsPhases(a)
           v == AsPhases(b)
           g == u \o v
<1>1. /\ Listed(u) /\ Listed(v)
      /\ DOMAIN u = DOMAIN a /\ DOMAIN v = DOMAIN b
      /\ \A i \in DOMAIN a : u[i] = <<a[i], 0>>
      /\ \A i \in DOMAIN b : v[i] = <<b[i], 0>>
  BY ClimbsListed DEF AsPhases
<1>2. /\ Len(a) \in Nat /\ Len(b) \in Nat /\ DOMAIN a = 1..Len(a) /\ DOMAIN b = 1..Len(b)
      /\ u \in Seq(Numbers) /\ v \in Seq(Numbers)
  BY <1>1 DEF Listed
<1> HIDE DEF u, v
<1>3. Listed(g)
  <2>1. \A i \in DOMAIN u, j \in DOMAIN v : Sooner(u[i], v[j])
    BY <1>1
  <2> QED
    BY <1>1, <2>1, ListedOn
<1>4. Joins(g, u, v) /\ g \in Seq(Numbers) /\ d \in Seq(PhaseNames) /\ Joins(d, a, b)
  BY <1>2, Joined
<1> HIDE DEF d, g
<1>5. Len(u) = Len(a) /\ Len(v) = Len(b)
  BY <1>1, <1>2
<1>6. DOMAIN d = 1..(Len(a) + Len(b)) /\ DOMAIN g = DOMAIN d
  BY <1>2, <1>4, <1>5 DEF Joins
<1>7. \A k \in DOMAIN d : \/ k \in DOMAIN a /\ d[k] = a[k] /\ g[k] = u[k]
                          \/ k - Len(a) \in DOMAIN b /\ d[k] = b[k - Len(a)] /\ g[k] = v[k - Len(a)]
  BY <1>2, <1>4, <1>5, <1>6 DEF Joins
<1>8. \A k \in DOMAIN d : g[k] = <<d[k], 0>>
  BY <1>1, <1>7
<1>9. Climbs(d)
  BY <1>3, <1>6, <1>8 DEF Listed, Climbs
<1>10. \A k \in DOMAIN d : Among(d[k], a) \/ Among(d[k], b)
  BY <1>7 DEF Among
<1>11. ASSUME NEW s, Among(s, a) \/ Among(s, b) PROVE Among(s, d)
  <2>1. CASE Among(s, a)
    <3>1. PICK i \in DOMAIN a : a[i] = s
      BY <2>1 DEF Among
    <3>2. i \in DOMAIN d /\ d[i] = s
      BY <1>2, <1>4, <1>6, <3>1 DEF Joins
    <3> QED
      BY <3>2 DEF Among
  <2>2. CASE Among(s, b)
    <3>1. PICK i \in DOMAIN b : b[i] = s
      BY <2>2 DEF Among
    <3>2. Len(a) + i \in DOMAIN d /\ d[Len(a) + i] = s
      BY <1>2, <1>4, <1>6, <3>1 DEF Joins
    <3> QED
      BY <3>2 DEF Among
  <2> QED
    BY <1>11, <2>1, <2>2
<1> QED
  BY <1>4, <1>9, <1>10, <1>11 DEF d

\* The stages of a ladder climb: those before sigma is rescaled, and all of them.
EarlyNames == {"1", "2", "3", "4", "5", "5b"}

\* A list of the stages at hand whose names are some of names.
Run(stages, names) ==
    stages \in Seq(PhaseNames) /\ Climbs(stages) /\ \A i \in DOMAIN stages : stages[i] \in names

\* Two runs one after the other, if every name of the first comes sooner.
LEMMA RunsOn ==
    ASSUME NEW N, NEW M, NEW a, Run(a, N), NEW b, Run(b, M),
           \A n \in N, m \in M : Major(n) < Major(m)
    PROVE  /\ Run(a \o b, N \cup M)
           /\ \A s : Among(s, a) \/ Among(s, b) => Among(s, a \o b)
<1>1. \A i \in DOMAIN a, j \in DOMAIN b : Sooner(<<a[i], 0>>, <<b[j], 0>>)
  BY DEF Run, Sooner
<1>2. /\ a \o b \in Seq(PhaseNames) /\ Climbs(a \o b)
      /\ \A k \in DOMAIN (a \o b) : Among((a \o b)[k], a) \/ Among((a \o b)[k], b)
      /\ \A s : Among(s, a) \/ Among(s, b) => Among(s, a \o b)
  BY <1>1, ClimbsOn DEF Run
<1>3. \A k \in DOMAIN (a \o b) : (a \o b)[k] \in N \cup M
  BY <1>2 DEF Run, Among
<1> QED
  BY <1>2, <1>3 DEF Run

\* Short runs.
LEMMA ShortRuns ==
    /\ \A N : Run(<<>>, N)
    /\ \A n \in PhaseNames : Run(<<n>>, {n}) /\ Among(n, <<n>>)
    /\ \A n, m \in PhaseNames : Major(n) < Major(m) => Run(<<n, m>>, {n, m}) /\ Among(n, <<n, m>>) /\ Among(m, <<n, m>>)
<1>1. \A N : Run(<<>>, N)
  BY DEF Run, Climbs
<1>2. \A n \in PhaseNames : Run(<<n>>, {n}) /\ Among(n, <<n>>)
  BY DEF Run, Climbs, Among
<1>3. ASSUME NEW n \in PhaseNames, NEW m \in PhaseNames, Major(n) < Major(m)
      PROVE  Run(<<n, m>>, {n, m}) /\ Among(n, <<n, m>>) /\ Among(m, <<n, m>>)
  <2>1. <<n, m>> \in Seq(PhaseNames) /\ DOMAIN <<n, m>> = {1, 2} /\ <<n, m>>[1] = n /\ <<n, m>>[2] = m
    OBVIOUS
  <2>2. Climbs(<<n, m>>)
    BY <1>3, <2>1 DEF Climbs, Sooner
  <2> QED
    BY <2>1, <2>2 DEF Run, Among
<1> QED
  BY <1>1, <1>2, <1>3

\* The ladder of a fit.
LEMMA LadderClimbs ==
    /\ Run(FirstStages, EarlyNames) /\ Run(Ladder, Stages)
    /\ \A s : Among(s, FirstStages) => Among(s, Ladder)
    /\ fit.variant # "nonoise" => Among("6", Ladder)
    /\ Among("7", Ladder) /\ Among("7b", Ladder)
<1> DEFINE a == IF fit.variant # "direct" THEN <<"1">> ELSE <<>>
           b == IF fit.variant = "full" THEN <<"2", "3">> ELSE <<>>
           c == IF RetireStage THEN <<"5b">> ELSE <<>>
           d == IF fit.variant # "nonoise" THEN <<"6">> ELSE <<>>
<1>1. FirstStages = ((a \o b) \o <<"4", "5">>) \o c /\ Ladder = (FirstStages \o d) \o <<"7", "7b">>
  BY DEF FirstStages, Ladder
<1>2. /\ Major("1") < Major("2") /\ Major("2") < Major("3") /\ Major("3") < Major("4")
      /\ Major("4") < Major("5") /\ Major("5") < Major("5b") /\ Major("5b") < Major("6")
      /\ Major("6") < Major("7") /\ Major("7") < Major("7b")
      /\ \A s : Major(s) \in Int
  BY MajorType DEF Major
<1>3. {"1", "2", "3", "4", "5", "5b", "6", "7", "7b"} \subseteq PhaseNames
  BY DEF PhaseNames
<1>4. Run(a, {"1"}) /\ Run(b, {"2", "3"}) /\ Run(c, {"5b"}) /\ Run(d, {"6"})
  <2>1. /\ Run(<<"1">>, {"1"}) /\ Run(<<"2", "3">>, {"2", "3"}) /\ Run(<<"5b">>, {"5b"}) /\ Run(<<"6">>, {"6"})
        /\ Run(<<>>, {"1"}) /\ Run(<<>>, {"2", "3"}) /\ Run(<<>>, {"5b"}) /\ Run(<<>>, {"6"})
    BY <1>2, <1>3, ShortRuns
  <2> QED
    BY <2>1, Zenon
<1>5. fit.variant # "nonoise" => Among("6", d)
  <2>1. Among("6", <<"6">>)
    BY <1>3, ShortRuns
  <2> QED
    BY <2>1, Zenon
<1> HIDE DEF a, b, c, d
<1>6. Run(<<"4", "5">>, {"4", "5"}) /\ Run(<<"7", "7b">>, {"7", "7b"}) /\ Among("7", <<"7", "7b">>) /\ Among("7b", <<"7", "7b">>)
  BY <1>2, <1>3, ShortRuns
<1>7. Run(a \o b, {"1"} \cup {"2", "3"})
  <2>1. \A n \in {"1"}, m \in {"2", "3"} : Major(n) < Major(m)
    BY <1>2
  <2> QED
    BY <1>4, <2>1, RunsOn
<1> DEFINE ab == a \o b
           abt == ab \o <<"4", "5">>
<1>8. Run(abt, ({"1"} \cup {"2", "3"}) \cup {"4", "5"})
  <2> HIDE DEF ab
  <2>1. Run(ab, {"1"} \cup {"2", "3"})
    BY <1>7 DEF ab
  <2>2. \A n \in {"1"} \cup {"2", "3"}, m \in {"4", "5"} : Major(n) < Major(m)
    BY <1>2
  <2> QED
    BY <1>6, <2>1, <2>2, RunsOn
<1> HIDE DEF abt
<1>9. Run(FirstStages, EarlyNames)
  <2>1. FirstStages = abt \o c
    BY <1>1 DEF abt
  <2>2. Run(abt \o c, (({"1"} \cup {"2", "3"}) \cup {"4", "5"}) \cup {"5b"})
    BY <1>2, <1>4, <1>8, RunsOn
  <2>3. (({"1"} \cup {"2", "3"}) \cup {"4", "5"}) \cup {"5b"} = EarlyNames
    BY DEF EarlyNames
  <2> QED
    BY <2>1, <2>2, <2>3
<1> DEFINE most == FirstStages \o d
<1>10. Run(most, EarlyNames \cup {"6"}) /\ \A s : Among(s, FirstStages) \/ Among(s, d) => Among(s, most)
  BY <1>2, <1>4, <1>9, RunsOn DEF EarlyNames
<1> HIDE DEF most
<1>11. /\ Run(most \o <<"7", "7b">>, (EarlyNames \cup {"6"}) \cup {"7", "7b"})
       /\ \A s : Among(s, most) \/ Among(s, <<"7", "7b">>) => Among(s, most \o <<"7", "7b">>)
  BY <1>2, <1>6, <1>10, RunsOn DEF EarlyNames
<1>12. Ladder = most \o <<"7", "7b">> /\ (EarlyNames \cup {"6"}) \cup {"7", "7b"} = Stages
  BY <1>1 DEF most, EarlyNames, Stages
<1>13. Run(Ladder, Stages) /\ \A s : Among(s, most) \/ Among(s, <<"7", "7b">>) => Among(s, Ladder)
  BY <1>11, <1>12
<1> QED
  BY <1>5, <1>6, <1>9, <1>10, <1>13

\* plan_stages lists the phases of the ladder in order.
LEMMA StagePhasesFacts ==
    ASSUME fit \in Fits
    PROVE  /\ Listed(StagePhases)
           /\ \A k \in DOMAIN StagePhases :
                  /\ StagePhases[k] \in Numbers /\ StagePhases[k][1] \in Stages
                  /\ Among(StagePhases[k][1], Ladder) /\ Numbered(StagePhases[k])
<1> DEFINE n == IF fit.variant # "nonoise" THEN NitNoiseMax ELSE 0
           u == AsPhases(FirstStages)
           v == [p \in 1..n |-> <<"6", p>>]
           w == << <<"7", 0>>, <<"7b", 0>> >>
           Right(x) == x \in Numbers /\ x[1] \in Stages /\ Among(x[1], Ladder) /\ Numbered(x)
<1>1. StagePhases = (u \o v) \o w
  BY DEF StagePhases, AsPhases
<1>2. n \in Nat /\ (n # 0 => fit.variant # "nonoise")
  BY FitAssumption
<1>3. /\ Listed(u) /\ DOMAIN u = DOMAIN FirstStages /\ \A i \in DOMAIN u : u[i] = <<FirstStages[i], 0>>
      /\ \A i \in DOMAIN FirstStages : FirstStages[i] \in EarlyNames
  BY LadderClimbs, ClimbsListed DEF Run, AsPhases
<1>4. \A i \in DOMAIN u : u[i][1] \in EarlyNames /\ u[i][2] = 0 /\ Among(u[i][1], Ladder)
  <2> SUFFICES ASSUME NEW i \in DOMAIN u PROVE u[i][1] \in EarlyNames /\ u[i][2] = 0 /\ Among(u[i][1], Ladder)
    OBVIOUS
  <2>1. Among(FirstStages[i], FirstStages)
    BY <1>3 DEF Among
  <2> QED
    BY <1>3, <2>1, LadderClimbs
<1> HIDE DEF n, u
<1>5. /\ v \in Seq(Numbers) /\ DOMAIN v = 1..n
      /\ \A i \in DOMAIN v : i \in 1..n /\ v[i] \in Numbers /\ v[i] = <<"6", i>>
  <2>1. \A p \in 1..n : <<"6", p>> \in Numbers
    BY <1>2 DEF Numbers, PhaseNames
  <2> QED
    BY <1>2, <2>1
<1>6. \A i \in DOMAIN v : v[i][1] = "6" /\ v[i][2] = i
  BY <1>5
<1> HIDE DEF v
<1>7. Listed(v)
  BY <1>2, <1>5, <1>6 DEF Listed, Sooner
<1>8. /\ w \in Seq(Numbers) /\ DOMAIN w = {1, 2} /\ w[1] = <<"7", 0>> /\ w[2] = <<"7b", 0>>
  BY DEF Numbers, PhaseNames
<1> HIDE DEF w
<1>9. Listed(w)
  BY <1>8 DEF Listed, Sooner, Major
<1>10. \A s \in EarlyNames : Major(s) < Major("6") /\ Major(s) < Major("7") /\ Major(s) < Major("7b")
  BY DEF EarlyNames, Major
<1>20. Major("6") < Major("7") /\ Major("6") < Major("7b")
  BY DEF Major
<1>21. \A s \in EarlyNames \cup {"6"} : \A r \in {"7", "7b"} : Major(s) < Major(r)
  BY <1>20, <1>10
<1>11. \A i \in DOMAIN u, j \in DOMAIN v : Sooner(u[i], v[j])
  BY <1>4, <1>6, <1>10 DEF Sooner
<1> DEFINE uv == u \o v
<1>12. /\ Listed(uv)
       /\ \A k \in DOMAIN uv : (\E i \in DOMAIN u : uv[k] = u[i]) \/ (\E j \in DOMAIN v : uv[k] = v[j])
  BY <1>3, <1>7, <1>11, ListedOn
<1> HIDE DEF uv
<1>13. \A i \in DOMAIN uv, j \in DOMAIN w : Sooner(uv[i], w[j])
  <2> SUFFICES ASSUME NEW i \in DOMAIN uv, NEW j \in DOMAIN w PROVE Major(uv[i][1]) < Major(w[j][1])
    BY DEF Sooner
  <2>1. w[j][1] \in {"7", "7b"}
    BY <1>8
  <2>2. uv[i][1] \in EarlyNames \cup {"6"}
    BY <1>4, <1>6, <1>12
  <2> QED
    BY <1>21, <2>1, <2>2
<1> DEFINE uvw == uv \o w
<1>14. /\ Listed(uvw)
       /\ \A k \in DOMAIN uvw : (\E i \in DOMAIN uv : uvw[k] = uv[i]) \/ (\E j \in DOMAIN w : uvw[k] = w[j])
  BY <1>9, <1>12, <1>13, ListedOn
<1> HIDE DEF uvw
<1>15. uvw = StagePhases
  BY <1>1 DEF uvw, uv
<1>16. \A i \in DOMAIN u : Right(u[i])
  <2>1. \A i \in DOMAIN u : u[i] \in Numbers
    BY <1>3 DEF Listed
  <2> QED
    BY <1>4, <2>1 DEF EarlyNames, Stages, Numbered, Refitting
<1>17. \A i \in DOMAIN v : Right(v[i])
  <2> SUFFICES ASSUME NEW i \in DOMAIN v PROVE Right(v[i])
    OBVIOUS
  <2>1. i \in 1..n /\ v[i] \in Numbers
    BY <1>5
  <2>2. Among("6", Ladder)
    BY <1>2, <2>1, LadderClimbs
  <2> QED
    BY <1>6, <2>1, <2>2 DEF Stages, Numbered, Refitting
<1>18. \A i \in DOMAIN w : Right(w[i])
  BY <1>8, LadderClimbs DEF Stages, Numbered, Refitting, Numbers, PhaseNames
<1>19. \A k \in DOMAIN uvw : Right(uvw[k])
  BY <1>12, <1>14, <1>16, <1>17, <1>18
<1> QED
  BY <1>14, <1>15, <1>19

-----------------------------------------------------------------------------
(* What is at hand comes first.                                            *)

\* Of what is to come nothing is sooner than what is at hand, and only that is it.
LEMMA HereFirst ==
    ASSUME Inv, Rounds, status = "running", todo # <<>>,
           NEW u \in Numbers, Numbered(u), Coming(u)
    PROVE  ~Sooner(u, Here) /\ (u[1] = Head(todo) /\ u[1] # "6" => u = Here)
<1>0. /\ Here[1] = Head(todo) /\ Here[2] = round /\ Here = <<Head(todo), round>>
      /\ u[2] \in Nat /\ round \in Nat /\ u = <<u[1], u[2]>>
      /\ 1 \in DOMAIN todo /\ todo[1] = Head(todo) /\ DOMAIN todo \subseteq Nat
      /\ \A k \in DOMAIN todo : k # 1 => Sooner(<<Head(todo), 0>>, <<todo[k], 0>>)
  <2>1. todo \in Seq(PhaseNames) /\ Climbs(todo) /\ round \in Nat
    BY DEF Rounds
  <2>2. Len(todo) \in Nat \ {0} /\ DOMAIN todo = 1..Len(todo) /\ todo[1] = Head(todo)
    BY <2>1, EmptySeq
  <2>3. \A k \in DOMAIN todo : k # 1 => Sooner(<<todo[1], 0>>, <<todo[k], 0>>)
    BY <2>1, <2>2 DEF Climbs
  <2>4. u[2] \in Nat /\ u = <<u[1], u[2]>>
    BY DEF Numbers
  <2> QED
    BY <2>1, <2>2, <2>3, <2>4 DEF Here
<1>1. \A s : Major(s) \in Int /\ Minor(s) \in Int
  BY MajorType
<1>2. \A k \in DOMAIN todo : todo[k] \in IF solution = <<>> THEN Stages ELSE {"settle", "joint"}
  <2>1. CASE solution = <<>>
    <3>1. todo \in Seq(Stages)
      BY <2>1 DEF Inv, Closing, EndsWhole
    <3> QED
      BY <2>1, <3>1
  <2>2. CASE solution # <<>>
    <3>1. todo \in Seq({"settle", "joint"})
      BY <2>2 DEF Inv, Ensemble
    <3> QED
      BY <2>2, <3>1
  <2> QED
    BY <2>1, <2>2
<1>3. /\ \A s \in Stages : Major(s) < 11 /\ Minor(s) = 0
      /\ \A s \in {"jitter", "settle", "joint"} : Major(s) = 11
      /\ Minor("jitter") = 0 /\ Minor("settle") = 0 /\ Minor("joint") = 1 /\ Major("6") = 8
  BY DEF Stages, Major, Minor
<1>4. CASE u[1] = "jitter" /\ (solution # <<>> => u[2] > round)
  <2>1. Head(todo) # "jitter"
    BY <1>0, <1>2 DEF Stages
  <2>2. CASE solution = <<>>
    <3>1. Major(Head(todo)) < 11
      BY <1>0, <1>2, <1>3, <2>2
    <3>2. Major(u[1]) = 11 /\ Major(Here[1]) < 11 /\ Major(Here[1]) \in Int
      BY <1>0, <1>1, <1>3, <1>4, <3>1
    <3> QED
      BY <1>0, <1>4, <2>1, <3>2 DEF Sooner
  <2>3. CASE solution # <<>>
    <3>1. Major(Head(todo)) = 11
      BY <1>0, <1>2, <1>3, <2>3
    <3> QED
      BY <1>0, <1>3, <1>4, <2>1, <2>3, <3>1 DEF Sooner
  <2> QED
    BY <2>2, <2>3
<1>5. CASE u[1] # "6" /\ Among(u[1], todo) /\ (solution # <<>> => u[2] = round)
  <2>1. PICK k \in DOMAIN todo : todo[k] = u[1]
    BY <1>5 DEF Among
  <2>2. solution = <<>> => u[2] = 0
    <3>1. solution = <<>> => u[1] \in Stages
      BY <1>2, <2>1
    <3> QED
      BY <1>5, <3>1 DEF Numbered, Stages, Refitting
  <2>3. CASE k = 1
    <3>1. u[2] = round
      BY <1>0, <1>5, <2>1, <2>2, <2>3 DEF Rounds
    <3>2. u = Here
      BY <1>0, <2>1, <2>3, <3>1
    <3> QED
      BY <3>2, SoonerOrders
  <2>4. CASE k # 1
    <3>1. Sooner(<<Head(todo), 0>>, <<u[1], 0>>)
      BY <1>0, <2>1, <2>4
    <3>2. \/ Major(Head(todo)) < Major(u[1])
          \/ Major(Head(todo)) = Major(u[1]) /\ Minor(Head(todo)) < Minor(u[1])
      BY <3>1 DEF Sooner
    <3>3. solution = <<>> => Minor(u[1]) = 0 /\ Minor(Head(todo)) = 0
      BY <1>0, <1>2, <1>3, <2>1
    <3>4. u[1] # Head(todo)
      BY <1>1, <3>2
    <3> QED
      BY <1>0, <1>1, <1>5, <3>2, <3>3, <3>4 DEF Sooner
  <2> QED
    BY <2>3, <2>4
<1>6. CASE /\ u[1] = "6" /\ Among("6", todo)
           /\ Head(todo) = "6" => u[2] > round \/ (u[2] = round /\ step # "decide")
  <2>1. CASE Head(todo) = "6"
    BY <1>0, <1>1, <1>6, <2>1 DEF Sooner
  <2>2. CASE Head(todo) # "6"
    <3>1. PICK k \in DOMAIN todo : todo[k] = "6"
      BY <1>6 DEF Among
    <3>2. Sooner(<<Head(todo), 0>>, <<"6", 0>>)
      BY <1>0, <2>2, <3>1
    <3>3. solution = <<>>
      BY <1>2, <3>1
    <3>4. Minor(Head(todo)) = 0 /\ Minor("6") = 0
      BY <1>0, <1>2, <1>3, <3>3 DEF Minor
    <3>5. Major(Head(todo)) < Major("6")
      BY <1>1, <3>2, <3>4 DEF Sooner
    <3> QED
      BY <1>0, <1>1, <1>6, <2>2, <3>5 DEF Sooner
  <2> QED
    BY <2>1, <2>2
<1> QED
  BY <1>4, <1>5, <1>6 DEF Coming

\* What is not paid for never lies before what runs.
LEMMA NothingBefore ==
    ASSUME Inv, PlanCore
    PROVE  OrderlyPlan
<1>0. Inv /\ PlanTyped /\ PlanNamed /\ Rounds /\ Pointed
  BY DEF PlanCore
<1>1. \A i \in DOMAIN phases : i \in Nat /\ i >= 1 /\ phases[i].id \in Numbers /\ Numbered(phases[i].id)
  <2>1. \A i \in DOMAIN phases : i \in Nat /\ i >= 1 /\ phases[i] \in PhaseRecord
    BY <1>0 DEF PlanTyped
  <2> QED
    BY <1>0, <2>1 DEF PlanTyped, PhaseRecord, Numbers
<1>2. CASE Over
  BY <1>2 DEF PlanCore
<1>3. CASE ~Over /\ (status = "reading" \/ current = 0)
  BY <1>0, <1>1, <1>3 DEF OrderlyPlan, Unpaid, Pointed, Over
<1>4. CASE Going /\ current # 0
  <2>1. status = "running" /\ step # "decide" /\ phases[current].id = Here /\ current \in DOMAIN phases /\ todo # <<>>
    BY <1>0, <1>4 DEF Pointed, PlanTyped, Inv, Masked
  <2>2. sink
    <3>1. Here[1] = Head(todo) /\ Head(todo) \notin {"pre", "fit", "jitter"}
      <4>1. CASE solution = <<>>
        <5>1. todo \in Seq(Stages)
          BY <1>0, <2>1, <4>1 DEF Inv, Closing, EndsWhole
        <5> QED
          BY <2>1, <5>1, EmptySeq DEF Here, Stages
      <4>2. CASE solution # <<>>
        <5>1. todo \in Seq({"settle", "joint"})
          BY <1>0, <2>1, <4>2 DEF Inv, Ensemble
        <5> QED
          BY <2>1, <5>1, EmptySeq DEF Here
      <4> QED
        BY <4>1, <4>2
    <3> QED
      BY <1>0, <2>1, <3>1 DEF PlanNamed, Bare
  <2>3. ASSUME NEW i \in Unpaid, i < current PROVE FALSE
    <3>1. i \in DOMAIN phases /\ Coming(phases[i].id)
      BY <1>0, <1>4, <2>2 DEF Pointed, Unpaid
    <3>2. Sooner(phases[i].id, Here)
      BY <1>0, <2>1, <2>3, <3>1 DEF PlanTyped, InOrder
    <3> QED
      BY <1>0, <1>1, <2>1, <3>1, <3>2, HereFirst
  <2>4. \A i \in Unpaid : i \in Nat
    BY <1>1 DEF Unpaid
  <2>5. current \in Nat
    BY <1>0 DEF PlanTyped
  <2> QED
    BY <2>1, <2>3, <2>4, <2>5 DEF OrderlyPlan
<1> QED
  BY <1>0, <1>2, <1>3, <1>4 DEF Over, Going, PlanTyped

-----------------------------------------------------------------------------
(* What the tracker does to the plan.                                      *)

\* The phases are those before, whatever is paid for now.
SameIds ==
    /\ phases' \in Seq(PhaseRecord) /\ DOMAIN phases' = DOMAIN phases
    /\ \A i \in DOMAIN phases : phases'[i].id = phases[i].id

\* A plan of the same phases is in order.
LEMMA SameOrder ==
    ASSUME PlanTyped, SameIds, UNCHANGED <<sink, fit>>, aborted' \in BOOLEAN,
           current' \in 0..Len(phases), status' = "reading" \/ Going' \/ Over'
    PROVE  PlanTyped'
<1>1. /\ phases \in Seq(PhaseRecord) /\ phases' \in Seq(PhaseRecord) /\ DOMAIN phases' = DOMAIN phases
      /\ \A i \in DOMAIN phases : phases'[i].id = phases[i].id
      /\ sink' \in BOOLEAN
  BY DEF PlanTyped, SameIds
<1>2. Len(phases') = Len(phases)
  <2>1. 1..Len(phases') = 1..Len(phases) /\ Len(phases) \in Nat /\ Len(phases') \in Nat
    BY <1>1
  <2> QED
    BY <2>1
<1>3. InOrder(phases')
  BY <1>1 DEF PlanTyped, InOrder
<1>4. (\A i \in DOMAIN phases : Numbered(phases[i].id))'
  <2> SUFFICES ASSUME NEW i \in DOMAIN phases' PROVE Numbered(phases[i].id)'
    OBVIOUS
  <2>1. i \in DOMAIN phases /\ phases'[i].id = phases[i].id /\ Numbered(phases[i].id)
    BY <1>1 DEF PlanTyped
  <2> QED
    BY <2>1 DEF Numbered
<1>5. InOrder(phases)'
  BY <1>3
<1>6. current' \in 0..Len(phases')
  BY <1>2
<1> QED
  BY <1>1, <1>4, <1>5, <1>6 DEF PlanTyped

\* publish answers something.
LEMMA Published ==
    ASSUME aborted \in BOOLEAN, Publish
    PROVE  aborted' \in BOOLEAN
  BY DEF Publish

\* begin.
LEMMA Begun ==
    ASSUME PlanTyped, SameIds, UNCHANGED sink, NEW id, Begin(id)
    PROVE  /\ aborted' \in BOOLEAN /\ current' \in 0..Len(phases)
           /\ current' = current \/ (current' \in DOMAIN phases /\ phases'[current'].id = id)
<1>1. /\ phases \in Seq(PhaseRecord) /\ phases' \in Seq(PhaseRecord) /\ DOMAIN phases' = DOMAIN phases
      /\ current \in 0..Len(phases) /\ aborted \in BOOLEAN
  BY DEF PlanTyped, SameIds
<1>2. InOrder(phases')
  BY DEF PlanTyped, SameIds, InOrder
<1>3. CASE Find(phases', id) = 0
  BY <1>1, <1>3 DEF Begin
<1>4. CASE Find(phases', id) # 0
  <2>1. current' = Find(phases', id) /\ aborted' \in BOOLEAN
    BY <1>1, <1>4, Published DEF Begin
  <2>2. Find(phases', id) \in DOMAIN phases' /\ phases'[Find(phases', id)].id = id
    BY <1>1, <1>2, <1>4, FindFacts
  <2> QED
    BY <1>1, <2>1, <2>2
<1> QED
  BY <1>3, <1>4

\* end.
LEMMA Ended ==
    ASSUME PlanTyped, NEW id, End(id)
    PROVE  /\ SameIds /\ aborted' \in BOOLEAN /\ current' \in {0, current}
           /\ current # 0 /\ phases[current].id = id => current' = 0
           /\ \A i \in Unpaid' : i \in Unpaid /\ phases[i].id # id
<1> DEFINE at == Find(phases, id)
<1>1. /\ phases \in Seq(PhaseRecord) /\ current \in 0..Len(phases) /\ aborted \in BOOLEAN
      /\ InOrder(phases) /\ DOMAIN phases = 1..Len(phases) /\ \A i \in DOMAIN phases : phases[i] \in PhaseRecord
  BY DEF PlanTyped
<1>2. CASE at = 0
  <2>1. UNCHANGED <<phases, current, aborted>> /\ \A i \in DOMAIN phases : phases[i].id # id
    BY <1>1, <1>2, FindFacts DEF End
  <2>2. Unpaid' = Unpaid
    BY <2>1 DEF Unpaid
  <2> QED
    BY <1>1, <2>1, <2>2 DEF SameIds, Unpaid
<1>3. CASE at # 0
  <2>1. /\ at \in DOMAIN phases /\ phases[at].id = id
        /\ \A i \in DOMAIN phases : phases[i].id = id => i = at
    BY <1>1, <1>3, FindFacts
  <2>2. /\ phases' = [phases EXCEPT ![at].done = TRUE]
        /\ current' = IF current = at THEN 0 ELSE current
        /\ aborted' \in BOOLEAN
    BY <1>1, <1>3, Published DEF End
  <2> HIDE DEF at
  <2>3. /\ DOMAIN phases' = DOMAIN phases
        /\ \A i \in DOMAIN phases : /\ phases'[i] \in PhaseRecord /\ phases'[i].id = phases[i].id
                                    /\ phases'[i].counts = phases[i].counts
                                    /\ i # at => phases'[i].done = phases[i].done
                                    /\ i = at => phases'[i].done
    <3>1. DOMAIN phases' = DOMAIN phases
      BY <2>2
    <3>2. phases'[at] = [phases[at] EXCEPT !.done = TRUE]
      BY <2>1, <2>2
    <3>3. \A i \in DOMAIN phases : i # at => phases'[i] = phases[i]
      BY <2>2
    <3>4. \A p \in PhaseRecord : /\ [p EXCEPT !.done = TRUE] \in PhaseRecord
                                 /\ [p EXCEPT !.done = TRUE].id = p.id
                                 /\ [p EXCEPT !.done = TRUE].counts = p.counts
                                 /\ [p EXCEPT !.done = TRUE].done
      BY DEF PhaseRecord
    <3>5. \A p \in PhaseRecord : p.done \in BOOLEAN
      BY DEF PhaseRecord
    <3> SUFFICES ASSUME NEW i \in DOMAIN phases
                 PROVE  /\ phases'[i] \in PhaseRecord /\ phases'[i].id = phases[i].id
                        /\ phases'[i].counts = phases[i].counts
                        /\ i # at => phases'[i].done = phases[i].done
                        /\ i = at => phases'[i].done
      BY <3>1
    <3>6. CASE i = at
      <4>1. phases[at] \in PhaseRecord
        BY <1>1, <2>1
      <4>2. [phases[at] EXCEPT !.done = TRUE].done
        BY <3>4, <4>1
      <4> QED
        BY <3>2, <3>4, <3>6, <4>1, <4>2
    <3>7. CASE i # at
      BY <1>1, <3>3, <3>7
    <3> QED
      BY <3>6, <3>7
  <2>4. phases' \in Seq(PhaseRecord)
    <3>0. phases' = [i \in DOMAIN phases |-> IF i = at THEN [phases[at] EXCEPT !.done = TRUE] ELSE phases[i]]
      BY <2>1, <2>2
    <3>1. phases' = [i \in 1..Len(phases) |-> phases'[i]] /\ Len(phases) \in Nat
      BY <1>1, <3>0
    <3>2. \A i \in 1..Len(phases) : phases'[i] \in PhaseRecord
      BY <1>1, <2>3
    <3> QED
      BY <3>1, <3>2
  <2>5. \A i \in Unpaid' : i \in Unpaid /\ i # at
    BY <2>3 DEF Unpaid
  <2> QED
    BY <1>1, <2>1, <2>2, <2>3, <2>4, <2>5 DEF SameIds, Unpaid
<1> QED
  BY <1>2, <1>3

\* What set_weight gives a weight may be waited for, and nothing else is new.
LEMMA Weighed ==
    ASSUME PlanTyped, NEW id, phases' = Weigh(phases, id)
    PROVE  SameIds /\ \A i \in Unpaid' : i \in Unpaid \/ (i \in DOMAIN phases /\ phases[i].id = id)
<1>1. phases \in Seq(PhaseRecord) /\ \A i \in DOMAIN phases : phases[i] \in PhaseRecord
  BY DEF PlanTyped
<1>2. /\ DOMAIN phases' = DOMAIN phases
      /\ \A i \in DOMAIN phases : phases'[i] = IF phases[i].id = id THEN [phases[i] EXCEPT !.counts = TRUE] ELSE phases[i]
  BY DEF Weigh
<1>3. \A i \in DOMAIN phases : /\ phases'[i] \in PhaseRecord /\ phases'[i].id = phases[i].id
                               /\ phases'[i].done = phases[i].done
                               /\ phases[i].id # id => phases'[i] = phases[i]
  BY <1>1, <1>2 DEF PhaseRecord
<1>4. phases' \in Seq(PhaseRecord)
  <2>1. Len(phases) \in Nat /\ DOMAIN phases = 1..Len(phases) /\ phases' = [i \in 1..Len(phases) |-> phases'[i]]
    BY <1>1 DEF Weigh
  <2> QED
    BY <1>3, <2>1
<1> QED
  BY <1>2, <1>3, <1>4 DEF SameIds, Unpaid

\* What set_weight drops is not waited for.
LEMMA Dropped ==
    ASSUME PlanTyped, NEW id, phases' = Drop(phases, id)
    PROVE  SameIds /\ \A i \in Unpaid' : i \in Unpaid /\ phases[i].id # id
<1>1. phases \in Seq(PhaseRecord) /\ \A i \in DOMAIN phases : phases[i] \in PhaseRecord
  BY DEF PlanTyped
<1>2. /\ DOMAIN phases' = DOMAIN phases
      /\ \A i \in DOMAIN phases : phases'[i] = IF phases[i].id = id THEN [phases[i] EXCEPT !.counts = FALSE] ELSE phases[i]
  BY DEF Drop
<1>3. \A i \in DOMAIN phases : /\ phases'[i] \in PhaseRecord /\ phases'[i].id = phases[i].id
                               /\ phases[i].id = id => ~phases'[i].counts
                               /\ phases[i].id # id => phases'[i] = phases[i]
  BY <1>1, <1>2 DEF PhaseRecord
<1>4. phases' \in Seq(PhaseRecord)
  <2>1. Len(phases) \in Nat /\ DOMAIN phases = 1..Len(phases) /\ phases' = [i \in 1..Len(phases) |-> phases'[i]]
    BY <1>1 DEF Drop
  <2> QED
    BY <1>3, <2>1
<1> QED
  BY <1>2, <1>3, <1>4 DEF SameIds, Unpaid

-----------------------------------------------------------------------------
(* What the steps do to it.                                                *)

\* A fit that is over keeps its plan.
LEMMA PlanRests ==
    ASSUME Inv, PlanCore, UNCHANGED <<sink, fit, phases, current>>, aborted' \in BOOLEAN,
           Over', status' = "ok" /\ sink => Unpaid = {}
    PROVE  PlanCore'
<1>1. OrderlyPlan /\ PlanTyped /\ PlanNamed
  BY NothingBefore DEF PlanCore
<1>2. status' \notin {"reading", "planning", "running"} /\ ~Going'
  BY DEF Over, Going
<1>3. SameIds /\ current' \in 0..Len(phases)
  BY <1>1 DEF PlanTyped, SameIds
<1>4. PlanTyped'
  BY <1>1, <1>3, SameOrder DEF Over
<1>5. Unpaid' = Unpaid
  BY DEF Unpaid
<1>6. OrderlyPlan'
  BY <1>1, <1>5 DEF OrderlyPlan
<1>7. PlanNamed'
  BY <1>1, <1>2 DEF PlanNamed, Bare
<1> QED
  BY <1>2, <1>4, <1>6, <1>7 DEF PlanCore, Rounds, Pointed

\* The names of phases, one by one.
LEMMA IdFacts ==
    ASSUME PlanTyped
    PROVE  /\ \A i \in DOMAIN phases : phases[i] \in PhaseRecord /\ phases[i].id \in Numbers
                                       /\ Numbered(phases[i].id)
           /\ \A u \in Numbers : u[1] \in PhaseNames /\ u[2] \in Nat /\ u = <<u[1], u[2]>>
<1>1. \A p \in PhaseRecord : p.id \in Numbers
  BY DEF PhaseRecord, Numbers
<1>2. \A i \in DOMAIN phases : phases[i] \in PhaseRecord
  BY DEF PlanTyped
<1> QED
  BY <1>1, <1>2 DEF PlanTyped, Numbers

\* What the ladder and the ensemble have to do.
LEMMA ToDo ==
    ASSUME Inv, Rounds, status = "running"
    PROVE  /\ todo \in Seq(PhaseNames) /\ round \in Nat /\ Climbs(todo)
           /\ todo # <<>> => /\ Head(todo) = todo[1] /\ 1 \in DOMAIN todo /\ Tail(todo) \in Seq(PhaseNames)
                             /\ \A s : Among(s, Tail(todo)) => Among(s, todo)
                             /\ \A s : Among(s, todo) => s = Head(todo) \/ Among(s, Tail(todo))
                             /\ Climbs(Tail(todo))
           /\ solution # <<>> => \A k \in DOMAIN todo : todo[k] \in {"settle", "joint"}
           /\ solution = <<>> => \A k \in DOMAIN todo : todo[k] \in Stages
           /\ solution = <<>> /\ (todo = <<>> \/ Head(todo) # "6") => round = 0
<1>1. todo \in Seq(PhaseNames) /\ round \in Nat /\ Climbs(todo)
  BY DEF Rounds
<1>2. /\ solution # <<>> => \A k \in DOMAIN todo : todo[k] \in {"settle", "joint"}
      /\ solution = <<>> => \A k \in DOMAIN todo : todo[k] \in Stages
  <2>1. CASE solution = <<>>
    <3>1. todo \in Seq(Stages)
      BY <2>1 DEF Inv, Closing, EndsWhole
    <3> QED
      BY <2>1, <3>1
  <2>2. CASE solution # <<>>
    <3>1. todo \in Seq({"settle", "joint"})
      BY <2>2 DEF Inv, Ensemble
    <3> QED
      BY <2>2, <3>1
  <2> QED
    BY <2>1, <2>2
<1>3. ASSUME todo # <<>>
      PROVE  /\ Head(todo) = todo[1] /\ 1 \in DOMAIN todo /\ Tail(todo) \in Seq(PhaseNames)
             /\ \A s : Among(s, Tail(todo)) => Among(s, todo)
             /\ \A s : Among(s, todo) => s = Head(todo) \/ Among(s, Tail(todo))
             /\ Climbs(Tail(todo))
  <2>1. Len(todo) \in Nat \ {0} /\ DOMAIN todo = 1..Len(todo) /\ Head(todo) = todo[1]
    BY <1>1, <1>3, EmptySeq
  <2>2. /\ Tail(todo) \in Seq(PhaseNames) /\ DOMAIN Tail(todo) = 1..(Len(todo) - 1)
        /\ \A i \in 1..(Len(todo) - 1) : Tail(todo)[i] = todo[i + 1] /\ i + 1 \in DOMAIN todo
    BY <1>1, <1>3, <2>1
  <2>3. \A s : Among(s, Tail(todo)) => Among(s, todo)
    BY <2>2 DEF Among
  <2>4. \A s : Among(s, todo) => s = Head(todo) \/ Among(s, Tail(todo))
    <3> SUFFICES ASSUME NEW s, NEW i \in DOMAIN todo, todo[i] = s, i # 1 PROVE Among(s, Tail(todo))
      BY <2>1 DEF Among
    <3>1. i - 1 \in 1..(Len(todo) - 1) /\ (i - 1) + 1 = i
      BY <2>1
    <3>2. Tail(todo)[i - 1] = s
      BY <2>2, <3>1
    <3> QED
      BY <2>2, <3>1, <3>2 DEF Among
  <2>5. Climbs(Tail(todo))
    <3> SUFFICES ASSUME NEW i \in 1..(Len(todo) - 1), NEW j \in 1..(Len(todo) - 1), i < j
                 PROVE  Sooner(<<todo[i + 1], 0>>, <<todo[j + 1], 0>>)
      BY <2>2 DEF Climbs
    <3>1. i + 1 \in DOMAIN todo /\ j + 1 \in DOMAIN todo /\ i + 1 < j + 1
      BY <2>1
    <3> QED
      BY <1>1, <3>1 DEF Climbs
  <2> QED
    BY <2>1, <2>2, <2>3, <2>4, <2>5
<1> QED
  BY <1>1, <1>2, <1>3 DEF Rounds

\* A solve is entered at the stage at hand, or at the next pass of stage 6.
LEMMA PlanEntered ==
    ASSUME Inv, PlanCore, status = "running", status' = status, todo # <<>>, todo' = todo,
           step = "decide", step' = "solve", UNCHANGED <<sink, fit, solution>>,
           round' = round \/ (round' = round + 1 /\ Head(todo) = "6"),
           NEW id, id = <<Head(todo), round'>>, SameIds, Begin(id),
           \A i \in Unpaid' : i \in Unpaid \/ (i \in DOMAIN phases /\ phases[i].id = id)
    PROVE  PlanCore'
<1>1. PlanTyped /\ PlanNamed /\ Rounds /\ Pointed /\ Going
  BY DEF PlanCore, Going
<1>2. /\ aborted' \in BOOLEAN /\ current' \in 0..Len(phases)
      /\ current' = 0 \/ phases'[current'].id = id
  BY <1>1, Begun DEF Pointed
<1>3. PlanTyped'
  BY <1>1, <1>2, SameOrder DEF Going
<1>4. /\ DOMAIN phases' = DOMAIN phases /\ \A i \in DOMAIN phases : phases'[i].id = phases[i].id
      /\ round \in Nat /\ round' \in Nat /\ round' >= round
  BY <1>1, ToDo DEF SameIds
<1>5. \A i \in DOMAIN phases : phases[i].id \in Numbers /\ phases[i].id[2] \in Nat
  BY <1>1, IdFacts DEF Numbers
<1>6. PlanNamed'
  <2>1. (~sink \/ status \in {"reading", "planning"} => \A i \in DOMAIN phases : Bare(phases[i].id))'
    BY <1>1, <1>4 DEF PlanNamed, Bare
  <2>2. (\A i \in DOMAIN phases : phases[i].id[1] \in {"settle", "joint"} =>
               solution # <<>> /\ phases[i].id[2] <= round)'
    BY <1>1, <1>4, <1>5 DEF PlanNamed
  <2> QED
    BY <2>1, <2>2 DEF PlanNamed
<1>7. Rounds'
  BY <1>1, <1>4 DEF Rounds
<1>8. ASSUME NEW i \in Unpaid', sink PROVE Coming(phases[i].id)'
  <2>0. i \in DOMAIN phases /\ phases'[i].id = phases[i].id
    BY <1>4 DEF Unpaid
  <2>u. PICK u : u = phases[i].id
    OBVIOUS
  <2>1. CASE u = id
    <3>1. u[1] = Head(todo) /\ u[2] = round' /\ Among(Head(todo), todo)
      BY <1>1, <2>1, ToDo DEF Among
    <3>2. Coming(u)'
      BY <3>1 DEF Coming, Among
    <3> QED
      BY <2>0, <2>u, <3>2
  <2>2. CASE u # id
    <3>1. Coming(u) /\ u[2] \in Nat
      BY <1>1, <1>5, <1>8, <2>0, <2>2, <2>u DEF Pointed
    <3>2. Head(todo) = "6" => solution = <<>>
      BY <1>1, ToDo
    <3>3. Coming(u)'
      BY <1>4, <3>1, <3>2 DEF Coming, Among
    <3> QED
      BY <2>0, <2>u, <3>3
  <2> QED
    BY <2>1, <2>2
<1>9. Pointed'
  BY <1>2, <1>8 DEF Pointed, Here
<1> QED
  BY <1>3, <1>6, <1>7, <1>9 DEF PlanCore, Over

\* A stage is done with: its phase is paid for, or dropped.
LEMMA PlanPassed ==
    ASSUME Inv, PlanCore, status = "running", status' = status, todo # <<>>,
           todo' = IF Head(todo) = "6" THEN todo ELSE Tail(todo),
           step' = "decide", UNCHANGED <<sink, fit, solution, round>>,
           SameIds, aborted' \in BOOLEAN, current' = 0,
           \A i \in Unpaid' : i \in Unpaid /\ phases[i].id # Here
    PROVE  PlanCore'
<1>1. PlanTyped /\ PlanNamed /\ Rounds /\ Pointed /\ Going
  BY DEF PlanCore, Going
<1>2. PlanTyped'
  <2>1. current' \in 0..Len(phases)
    BY <1>1 DEF PlanTyped
  <2> QED
    BY <1>1, <2>1, SameOrder DEF Going
<1>3. DOMAIN phases' = DOMAIN phases /\ \A i \in DOMAIN phases : phases'[i].id = phases[i].id
  BY DEF SameIds
<1>4. PlanNamed'
  BY <1>1, <1>3 DEF PlanNamed, Bare
<1>5. Rounds'
  <2>1. /\ round \in Nat /\ todo' \in Seq(PhaseNames) /\ Climbs(todo')
        /\ solution = <<>> /\ Head(todo) # "6" => round = 0
    BY <1>1, ToDo
  <2> QED
    BY <2>1 DEF Rounds
<1>6. ASSUME NEW i \in Unpaid', sink PROVE Coming(phases[i].id)'
  <2>0. i \in DOMAIN phases /\ phases'[i].id = phases[i].id
    BY <1>3 DEF Unpaid
  <2>u. PICK u : u = phases[i].id
    OBVIOUS
  <2>1. Coming(u) /\ u # Here
    BY <1>1, <1>6, <2>0, <2>u DEF Pointed
  <2>2. u \in Numbers /\ Numbered(u) /\ u[2] \in Nat /\ u = <<u[1], u[2]>>
    BY <1>1, <2>0, <2>u, IdFacts
  <2>3. round \in Nat /\ \A s : Among(s, todo) => s = Head(todo) \/ Among(s, Tail(todo))
    BY <1>1, ToDo
  <2>4. u[1] = Head(todo) => Head(todo) = "6"
    BY <1>1, <2>1, <2>2, HereFirst
  <2>5. CASE Head(todo) = "6"
    <3>1. u[1] = "6" => u[2] # round
      BY <2>1, <2>2, <2>5 DEF Here
    <3> QED
      BY <2>0, <2>1, <2>5, <2>u, <3>1 DEF Coming, Among
  <2>6. CASE Head(todo) # "6"
    <3>1. Among(u[1], todo) => Among(u[1], Tail(todo))
      BY <2>3, <2>4, <2>6
    <3>2. Among("6", todo) => Among("6", Tail(todo)) /\ solution = <<>>
      BY <1>1, <2>3, <2>6, ToDo DEF Among
    <3>3. solution = <<>> => round = 0
      BY <1>1, <2>6, ToDo
    <3>4. u[1] = "6" => u[2] >= 1
      BY <2>2 DEF Numbered
    <3>5. Coming(u)'
      <4>1. CASE u[1] = "6"
        BY <2>1, <2>2, <2>6, <3>2, <3>3, <3>4, <4>1 DEF Coming, Among
      <4>2. CASE u[1] # "6"
        BY <2>1, <2>6, <3>1, <4>2 DEF Coming, Among
      <4> QED
        BY <4>1, <4>2
    <3> QED
      BY <2>0, <2>u, <3>5
  <2> QED
    BY <2>5, <2>6
<1>7. Pointed'
  BY <1>6 DEF Pointed
<1> QED
  BY <1>2, <1>4, <1>5, <1>7 DEF PlanCore, Over

\* The stages that begin a solve, those that skip one, and the end of one.
LEMMA StagesPlanned ==
    ASSUME Inv, PlanCore, Enter \/ FreezeVsini \/ RetireSecondaries \/ FreezeBoundary \/ NoisePass \/ Leave
    PROVE  PlanCore'
<1>1. PlanTyped /\ PlanNamed /\ Rounds /\ Pointed
  BY DEF PlanCore
<1>2. status = "running" => /\ step = "decide" => current = 0
                            /\ step = "leave" => todo # <<>>
  BY <1>1 DEF Pointed, Going, Inv, Masked
<1>3. CASE Enter
  <2>1. /\ At(Certain, "decide") /\ phases' = phases /\ Begin(Here) /\ step' = "solve"
        /\ UNCHANGED <<sink, fit, todo, round, solution, status>>
    BY <1>3 DEF Enter
  <2>2. SameIds /\ Unpaid' = Unpaid
    BY <1>1, <2>1 DEF PlanTyped, SameIds, Unpaid
  <2>3. Here = <<Head(todo), round'>>
    BY <2>1 DEF Here
  <2> QED
    BY <2>1, <2>2, <2>3, PlanEntered DEF At
<1>4. ASSUME NEW keys, NEW point, Refit(keys, point), status = "running", todo # <<>>, step = "decide"
      PROVE  PlanCore'
  <2>1. /\ phases' = Weigh(phases, Here) /\ Begin(Here) /\ step' = "solve"
        /\ UNCHANGED <<sink, fit, todo, round, solution, status>>
    BY <1>4 DEF Refit
  <2>2. SameIds /\ \A i \in Unpaid' : i \in Unpaid \/ (i \in DOMAIN phases /\ phases[i].id = Here)
    BY <1>1, <2>1, Weighed
  <2>3. Here = <<Head(todo), round'>>
    BY <2>1 DEF Here
  <2> QED
    BY <1>4, <2>1, <2>2, <2>3, PlanEntered
<1>5. ASSUME Skip, status = "running", todo # <<>>, step = "decide", Head(todo) # "6"
      PROVE  PlanCore'
  <2>1. /\ phases' = Drop(phases, Here) /\ todo' = Tail(todo) /\ step' = "decide"
        /\ UNCHANGED <<sink, current, aborted, fit, round, solution, status>>
    BY <1>5 DEF Skip, Retired
  <2>2. SameIds /\ \A i \in Unpaid' : i \in Unpaid /\ phases[i].id # Here
    BY <1>1, <2>1, Dropped
  <2>3. aborted' \in BOOLEAN /\ current' = 0
    BY <1>1, <1>2, <1>5, <2>1 DEF PlanTyped
  <2> QED
    BY <1>5, <2>1, <2>2, <2>3, PlanPassed
<1>6. CASE FreezeVsini \/ RetireSecondaries \/ FreezeBoundary
  <2>1. status = "running" /\ todo # <<>> /\ step = "decide" /\ Head(todo) # "6"
    BY <1>6 DEF FreezeVsini, RetireSecondaries, FreezeBoundary, At
  <2>2. (\E keys, point : Refit(keys, point)) \/ Skip
    BY <1>6 DEF FreezeVsini, RetireSecondaries, FreezeBoundary
  <2> QED
    BY <1>4, <1>5, <2>1, <2>2
<1>7. CASE NoisePass
  <2>1. /\ At({"6"}, "decide") /\ phases' = phases /\ Begin(<<"6", round'>>) /\ step' = "solve"
        /\ round' = round + 1 /\ UNCHANGED <<sink, fit, todo, solution, status>>
    BY <1>7 DEF NoisePass, parameters
  <2>2. SameIds /\ Unpaid' = Unpaid
    BY <1>1, <2>1 DEF PlanTyped, SameIds, Unpaid
  <2> QED
    BY <2>1, <2>2, PlanEntered DEF At
<1>8. CASE Leave
  <2>1. /\ status = "running" /\ step = "leave" /\ End(Here) /\ step' = "decide"
        /\ todo' = IF Head(todo) = "6" THEN todo ELSE Tail(todo)
        /\ UNCHANGED <<sink, fit, round, solution, status>>
    BY <1>8 DEF Leave
  <2>2. /\ SameIds /\ aborted' \in BOOLEAN /\ current' \in {0, current}
        /\ current # 0 /\ phases[current].id = Here => current' = 0
        /\ \A i \in Unpaid' : i \in Unpaid /\ phases[i].id # Here
    BY <1>1, <2>1, Ended
  <2>3. current = 0 \/ phases[current].id = Here
    BY <1>1, <2>1 DEF Pointed, Going
  <2>4. current' = 0
    BY <2>2, <2>3
  <2> QED
    BY <1>2, <2>1, <2>2, <2>4, PlanPassed
<1> QED
  BY <1>3, <1>6, <1>7, <1>8

\* Stage 6 ends: what it did not need is dropped.
LEMMA NoisePlanned ==
    ASSUME Inv, PlanCore, NoiseDone
    PROVE  PlanCore'
<1>1. PlanTyped /\ PlanNamed /\ Rounds /\ Pointed /\ Going /\ status = "running" /\ step = "decide"
  BY DEF PlanCore, NoiseDone, At, Going
<1>2. /\ todo # <<>> /\ Head(todo) = "6" /\ todo' = Tail(todo) /\ round' = 0
      /\ UNCHANGED <<sink, current, aborted, fit, solution, status, step>>
  BY DEF NoiseDone, At
<1>3. /\ phases' = [i \in DOMAIN phases |->
                    [phases[i] EXCEPT !.counts = @ /\ ~(phases[i].id[1] = "6" /\ phases[i].id[2] > round)]]
  BY DEF NoiseDone
<1>4. /\ DOMAIN phases' = DOMAIN phases
      /\ \A i \in DOMAIN phases : /\ phases'[i] \in PhaseRecord /\ phases'[i].id = phases[i].id
                                  /\ phases'[i].done = phases[i].done
                                  /\ phases'[i].counts =>
                                        phases[i].counts /\ ~(phases[i].id[1] = "6" /\ phases[i].id[2] > round)
  <2>1. DOMAIN phases' = DOMAIN phases
    BY <1>3
  <2> SUFFICES ASSUME NEW i \in DOMAIN phases
               PROVE  /\ phases'[i] \in PhaseRecord /\ phases'[i].id = phases[i].id
                      /\ phases'[i].done = phases[i].done
                      /\ phases'[i].counts =>
                            phases[i].counts /\ ~(phases[i].id[1] = "6" /\ phases[i].id[2] > round)
    BY <2>1
  <2>2. PICK b : b = (phases[i].counts /\ ~(phases[i].id[1] = "6" /\ phases[i].id[2] > round))
    OBVIOUS
  <2>3. phases'[i] = [phases[i] EXCEPT !.counts = b]
    BY <1>3, <2>2
  <2>4. phases[i] \in PhaseRecord /\ b \in BOOLEAN
    BY <1>1, <2>2, IdFacts
  <2>5. \A p \in PhaseRecord : \A c \in BOOLEAN :
            /\ [p EXCEPT !.counts = c] \in PhaseRecord /\ [p EXCEPT !.counts = c].id = p.id
            /\ [p EXCEPT !.counts = c].done = p.done /\ [p EXCEPT !.counts = c].counts = c
    BY DEF PhaseRecord
  <2>6. phases'[i].counts = b
    BY <2>3, <2>4, <2>5
  <2>7. phases'[i].counts => phases[i].counts /\ ~(phases[i].id[1] = "6" /\ phases[i].id[2] > round)
    BY <2>2, <2>6, Zenon
  <2>8. phases'[i] \in PhaseRecord /\ phases'[i].id = phases[i].id /\ phases'[i].done = phases[i].done
    BY <2>3, <2>4, <2>5
  <2> QED
    BY <2>7, <2>8
<1>5. SameIds
  <2>1. phases' = [i \in 1..Len(phases) |-> phases'[i]] /\ Len(phases) \in Nat /\ DOMAIN phases = 1..Len(phases)
    BY <1>1, <1>3 DEF PlanTyped
  <2>2. phases' \in Seq(PhaseRecord)
    BY <1>4, <2>1
  <2> QED
    BY <1>4, <2>2 DEF SameIds
<1>6. PlanTyped'
  BY <1>1, <1>2, <1>5, SameOrder DEF PlanTyped, Going
<1>7. solution = <<>> /\ PlanNamed'
  <2>1. solution = <<>>
    BY <1>1, <1>2, ToDo
  <2> QED
    BY <1>1, <1>2, <1>4, <2>1 DEF PlanNamed, Bare
<1>8. Rounds'
  BY <1>1, <1>2, ToDo DEF Rounds
<1>9. ASSUME NEW i \in Unpaid', sink PROVE Coming(phases[i].id)'
  <2>1. i \in DOMAIN phases /\ phases'[i].id = phases[i].id
    BY <1>4 DEF Unpaid
  <2>2. PICK u : u = phases[i].id
    OBVIOUS
  <2>3. i \in Unpaid /\ ~(u[1] = "6" /\ u[2] > round)
    BY <1>4, <2>2 DEF Unpaid
  <2>4. Coming(u)
    BY <1>1, <1>9, <2>2, <2>3 DEF Pointed
  <2>5. u[1] # "6"
    BY <1>1, <1>2, <2>3, <2>4 DEF Coming
  <2>6. Among(u[1], todo) => Among(u[1], Tail(todo))
    BY <1>1, <1>2, <2>5, ToDo
  <2>7. Coming(u)'
    BY <1>1, <1>2, <1>7, <2>4, <2>5, <2>6 DEF Coming, Among
  <2> QED
    BY <2>1, <2>2, <2>7
<1>10. Pointed'
  BY <1>1, <1>2, <1>9 DEF Pointed, Going
<1> QED
  BY <1>1, <1>2, <1>6, <1>7, <1>8, <1>10 DEF PlanCore, Over

\* The solve, or the end of the fit in it, and the ends that follow.
LEMMA SolvesPlanned ==
    ASSUME Inv, PlanCore, Solve \/ Fails \/ ReadFails \/ Finish \/ Rest
    PROVE  PlanCore'
<1>1. PlanTyped /\ PlanNamed /\ Rounds /\ Pointed /\ OrderlyPlan
  BY NothingBefore DEF PlanCore
<1>2. UNCHANGED <<sink, fit, phases, current>> /\ aborted' \in BOOLEAN
  BY <1>1, Published DEF Solve, Fails, ReadFails, Finish, Rest, vars, tracker, PlanTyped
<1>3. CASE status' \in {"aborted", "failed"}
  BY <1>2, <1>3, PlanRests DEF Over
<1>4. CASE Rest
  <2>1. Over' /\ (status' = "ok" /\ sink => Unpaid = {})
    BY <1>1, <1>4 DEF Rest, Over, vars, OrderlyPlan
  <2> QED
    BY <1>2, <2>1, PlanRests
<1>5. CASE Finish
  <2>1. status = "running" /\ todo = <<>> /\ solution # <<>> /\ round = fit.refits /\ status' = "ok"
    BY <1>5 DEF Finish, AtEnd
  <2>2. ASSUME NEW i \in Unpaid, sink PROVE FALSE
    <3>1. Coming(phases[i].id) /\ i \in DOMAIN phases
      BY <1>1, <2>1, <2>2 DEF Pointed, Going, Unpaid
    <3>2. phases[i].id \in Numbers /\ Numbered(phases[i].id)
      BY <1>1, <3>1, IdFacts
    <3>3. phases[i].id[1] = "jitter" /\ phases[i].id[2] > round
      BY <2>1, <3>1 DEF Coming, Among
    <3>4. round \in Nat /\ phases[i].id[2] \in Nat
      BY <1>1, <2>1, <3>2 DEF Rounds, Numbers
    <3> QED
      BY <2>1, <3>2, <3>3, <3>4 DEF Numbered, Refitting
  <2> QED
    BY <1>2, <2>1, <2>2, PlanRests DEF Over
<1>6. CASE Solve /\ status' \notin {"aborted", "failed"}
  <2>1. /\ status = "running" /\ step = "solve" /\ step' = "leave" /\ status' = "running"
        /\ UNCHANGED <<sink, fit, phases, current, todo, round, solution>>
    BY <1>6 DEF Solve, Outcome
  <2>2. SameIds /\ Unpaid' = Unpaid
    BY <1>1, <2>1 DEF PlanTyped, SameIds, Unpaid
  <2>3. PlanTyped'
    BY <1>1, <1>2, <2>1, <2>2, SameOrder DEF PlanTyped, Going
  <2>4. PlanNamed' /\ Rounds'
    BY <1>1, <2>1 DEF PlanNamed, Rounds, Bare
  <2>5. ASSUME NEW i \in Unpaid, sink PROVE Coming(phases[i].id)'
    <3>1. Coming(phases[i].id)
      BY <1>1, <2>1, <2>5 DEF Pointed, Going
    <3> QED
      BY <2>1, <3>1 DEF Coming, Among
  <2>6. Pointed'
    BY <1>1, <2>1, <2>2, <2>5 DEF Pointed, Going, Here
  <2> QED
    BY <2>1, <2>3, <2>4, <2>6 DEF PlanCore, Over
<1> QED
  BY <1>3, <1>4, <1>5, <1>6 DEF Fails, ReadFails

\* The first phase ends, and the stages are still to be planned.
LEMMA ReadPlanned ==
    ASSUME Inv, PlanCore, Read
    PROVE  PlanCore'
<1>1. PlanTyped /\ PlanNamed /\ Rounds /\ Pointed /\ status = "reading" /\ End(<<"pre", 0>>)
  BY DEF PlanCore, Read
<1>2. status' = "planning" /\ UNCHANGED <<sink, fit, todo, step, round, solution>>
  BY DEF Read
<1>3. /\ SameIds /\ aborted' \in BOOLEAN /\ current' \in {0, current}
      /\ current # 0 /\ phases[current].id = <<"pre", 0>> => current' = 0
      /\ \A i \in Unpaid' : i \in Unpaid /\ phases[i].id # <<"pre", 0>>
  BY <1>1, Ended
<1>4. current' = 0
  BY <1>1, <1>3 DEF Pointed
<1>5. PlanTyped'
  <2>1. current' \in 0..Len(phases)
    BY <1>1, <1>4 DEF PlanTyped
  <2> QED
    BY <1>1, <1>2, <1>3, <2>1, SameOrder DEF Going
<1>6. PlanNamed' /\ Rounds'
  BY <1>1, <1>2, <1>3 DEF PlanNamed, Rounds, Bare, SameIds
<1>7. ASSUME NEW i \in Unpaid' PROVE Coming(phases[i].id)'
  <2>1. i \in DOMAIN phases /\ phases'[i].id = phases[i].id /\ phases[i].id # <<"pre", 0>>
    BY <1>3 DEF Unpaid, SameIds
  <2>2. phases[i].id \in Numbers /\ Numbered(phases[i].id) /\ Bare(phases[i].id)
    BY <1>1, <2>1, IdFacts DEF PlanNamed
  <2>3. phases[i].id = <<phases[i].id[1], phases[i].id[2]>>
    BY <1>1, <2>2, IdFacts
  <2>4. phases[i].id[1] # "pre"
    BY <2>1, <2>2, <2>3 DEF Numbered, Refitting
  <2>5. phases[i].id[1] \in {"fit", "jitter"}
    BY <2>2, <2>4 DEF Bare
  <2> QED
    BY <1>2, <2>1, <2>5 DEF Coming
<1> QED
  BY <1>2, <1>4, <1>5, <1>6, <1>7 DEF PlanCore, Over, Pointed

\* The stages take the place of the fit's phase.
LEMMA StagesExpanded ==
    ASSUME Inv, PlanCore, PlanStages
    PROVE  PlanCore'
<1>1. PlanTyped /\ PlanNamed /\ Rounds /\ Pointed /\ status = "planning" /\ Going
  BY DEF PlanCore, PlanStages, Going
<1>2. /\ phases' = IF sink THEN Expand(phases, <<"fit", 0>>, StagePhases) ELSE phases
      /\ todo' = Ladder /\ status' = "running"
      /\ UNCHANGED <<sink, current, aborted, fit, step, round, solution>>
  BY DEF PlanStages
<1>3. current = 0 /\ round = 0 /\ solution = <<>> /\ fit \in Fits /\ todo' # <<>> /\ Head(todo') # "6"
  BY <1>1, <1>2, LadderFacts DEF Pointed, Rounds, Inv, Placed
<1>4. /\ phases \in Seq(PhaseRecord) /\ InOrder(phases)
      /\ \A i \in DOMAIN phases : /\ phases[i].id \in Numbers /\ Numbered(phases[i].id) /\ Bare(phases[i].id)
                                  /\ phases[i].id = <<phases[i].id[1], phases[i].id[2]>>
  BY <1>1, IdFacts DEF PlanTyped, PlanNamed
<1>5. /\ Listed(StagePhases)
      /\ \A k \in DOMAIN StagePhases :
            /\ StagePhases[k] \in Numbers /\ StagePhases[k][1] \in Stages
            /\ Among(StagePhases[k][1], Ladder) /\ Numbered(StagePhases[k])
  BY <1>3, StagePhasesFacts
<1> DEFINE at == Find(phases, <<"fit", 0>>)
\* Every phase of the new plan is a stage, or one of the old ones but for the fit's.
<1>6. /\ phases' \in Seq(PhaseRecord) /\ InOrder(phases')
      /\ \A i \in DOMAIN phases' :
            \/ \E j \in DOMAIN phases : phases'[i] = phases[j] /\ (sink => phases[j].id # <<"fit", 0>>)
            \/ sink /\ \E k \in DOMAIN StagePhases : phases'[i] = Phase(StagePhases[k])
  <2>1. CASE ~sink
    BY <1>2, <1>4, <2>1
  <2>2. CASE sink /\ at = 0
    <3>1. phases' = phases
      BY <1>2, <2>2 DEF Expand
    <3>2. \A i \in DOMAIN phases : phases[i].id # <<"fit", 0>>
      BY <1>4, <2>2, FindFacts
    <3> QED
      BY <1>4, <3>1, <3>2
  <2>3. CASE sink /\ at # 0
    <3>1. /\ at \in DOMAIN phases /\ phases[at].id = <<"fit", 0>>
          /\ \A i \in DOMAIN phases : phases[i].id = <<"fit", 0>> => i = at
      BY <1>4, <2>3, FindFacts
    <3>2. phases' = Expand(phases, <<"fit", 0>>, StagePhases)
      BY <1>2, <2>3
    <3>3. \A s \in Stages : Major("pre") < Major(s) /\ Major(s) < Major("jitter")
      BY DEF Stages, Major
    <3>4. /\ Major("pre") = 0 /\ Major("fit") = 1 /\ Major("jitter") = 11
          /\ Minor("pre") = 0 /\ Minor("fit") = 0 /\ Minor("jitter") = 0
      BY DEF Major, Minor
    <3> HIDE DEF at
    <3>5. \A i \in DOMAIN phases : i < at => phases[i].id[1] = "pre"
      <4> SUFFICES ASSUME NEW i \in DOMAIN phases, i < at PROVE phases[i].id[1] = "pre"
        OBVIOUS
      <4>1. Sooner(phases[i].id, <<"fit", 0>>) /\ phases[i].id[2] \in Nat
        BY <1>4, <3>1 DEF InOrder, Numbers
      <4>2. phases[i].id[1] # "jitter" /\ (phases[i].id[1] = "fit" => phases[i].id[2] = 0)
        BY <1>4, <3>4, <4>1 DEF Sooner, Numbered, Refitting
      <4>3. phases[i].id[1] # "fit"
        BY <3>4, <4>1, <4>2 DEF Sooner
      <4> QED
        BY <1>4, <4>2, <4>3 DEF Bare
    <3>6. \A i \in DOMAIN phases : i > at => phases[i].id[1] = "jitter"
      <4> SUFFICES ASSUME NEW i \in DOMAIN phases, i > at PROVE phases[i].id[1] = "jitter"
        OBVIOUS
      <4>1. Sooner(<<"fit", 0>>, phases[i].id) /\ phases[i].id[2] \in Nat
        BY <1>4, <3>1 DEF InOrder, Numbers
      <4>2. phases[i].id[1] = "fit" => phases[i].id[2] = 0
        BY <1>4 DEF Numbered, Refitting
      <4>3. phases[i].id[1] # "fit" /\ phases[i].id[1] # "pre"
        BY <3>4, <4>1, <4>2 DEF Sooner
      <4> QED
        BY <1>4, <4>3 DEF Bare
    <3>7. \A i \in DOMAIN phases : \A k \in DOMAIN StagePhases :
              /\ i < at => Sooner(phases[i].id, StagePhases[k])
              /\ i > at => Sooner(StagePhases[k], phases[i].id)
      BY <1>5, <3>3, <3>5, <3>6 DEF Sooner
    <3>8. /\ phases' \in Seq(PhaseRecord) /\ InOrder(phases')
          /\ \A i \in DOMAIN phases' :
                \/ \E j \in DOMAIN phases \ {at} : phases'[i] = phases[j]
                \/ \E k \in DOMAIN StagePhases : phases'[i] = Phase(StagePhases[k])
      BY <1>4, <1>5, <3>1, <3>2, <3>7, SplicedInOrder DEF at
    <3> QED
      BY <2>3, <3>1, <3>8
  <2> QED
    BY <2>1, <2>2, <2>3
<1> HIDE DEF at
<1>7. \A i \in DOMAIN phases' :
        \/ \E j \in DOMAIN phases : phases'[i].id = phases[j].id
        \/ sink /\ \E k \in DOMAIN StagePhases : phases'[i].id = StagePhases[k]
  BY <1>5, <1>6, PhaseMade
<1>8. PlanTyped'
  <2>1. (\A i \in DOMAIN phases : Numbered(phases[i].id))'
    <3> SUFFICES ASSUME NEW i \in DOMAIN phases' PROVE Numbered(phases'[i].id)
      BY <1>2 DEF Numbered
    <3> QED
      BY <1>4, <1>5, <1>7
  <2>2. current' \in 0..Len(phases')
    BY <1>2, <1>3, <1>6
  <2>3. InOrder(phases)'
    BY <1>6
  <2> QED
    BY <1>1, <1>2, <1>6, <2>1, <2>2, <2>3 DEF PlanTyped, Going
<1>9. PlanNamed'
  <2>1. ~sink => \A i \in DOMAIN phases' : Bare(phases'[i].id)
    BY <1>4, <1>7 DEF Bare
  <2>2. \A i \in DOMAIN phases' : phases'[i].id[1] \notin {"settle", "joint"}
    BY <1>4, <1>5, <1>7 DEF Bare, Stages
  <2> QED
    BY <1>2, <2>1, <2>2 DEF PlanNamed, Bare
<1>10. Rounds'
  <2>1. Ladder \in Seq(PhaseNames) /\ Climbs(Ladder)
    BY LadderClimbs DEF Run
  <2> QED
    BY <1>2, <1>3, <2>1 DEF Rounds
<1>11. ASSUME NEW i \in Unpaid', sink PROVE Coming(phases[i].id)'
  <2>1. i \in DOMAIN phases' /\ phases'[i].counts /\ ~phases'[i].done
    BY DEF Unpaid
  <2>2. CASE \E k \in DOMAIN StagePhases : phases'[i] = Phase(StagePhases[k])
    <3>1. PICK k \in DOMAIN StagePhases : phases'[i].id = StagePhases[k]
      BY <1>5, <2>2, PhaseMade
    <3>2. Among(phases'[i].id[1], todo')
      BY <1>2, <1>5, <3>1
    <3> QED
      BY <1>2, <1>3, <3>2 DEF Coming, Among
  <2>3. CASE \E j \in DOMAIN phases : phases'[i] = phases[j] /\ phases[j].id # <<"fit", 0>>
    <3>1. PICK j \in DOMAIN phases : phases'[i] = phases[j] /\ phases[j].id # <<"fit", 0>>
      BY <2>3
    <3>2. j \in Unpaid
      BY <2>1, <3>1 DEF Unpaid
    <3>3. Coming(phases[j].id)
      BY <1>1, <1>11, <3>2 DEF Pointed
    <3>4. phases[j].id[1] = "jitter"
      BY <1>1, <1>4, <3>1, <3>3 DEF Coming, Numbered, Refitting
    <3> QED
      BY <1>2, <1>3, <3>1, <3>4 DEF Coming
  <2> QED
    BY <1>6, <1>11, <2>1, <2>2, <2>3
<1>12. Pointed'
  BY <1>2, <1>3, <1>11 DEF Pointed, Going
<1> QED
  BY <1>2, <1>8, <1>9, <1>10, <1>12 DEF PlanCore, Over

\* The result is taken over, and the refits wait.
LEMMA CollectPlanned ==
    ASSUME Inv, PlanCore, Collect
    PROVE  PlanCore'
<1>1. PlanTyped /\ PlanNamed /\ Rounds /\ Pointed /\ status = "running" /\ Going /\ step = "decide"
  BY DEF PlanCore, Collect, AtEnd, Going, Inv, Masked
<1>2. /\ todo = <<>> /\ solution = <<>> /\ solution' # <<>>
      /\ UNCHANGED <<sink, phases, current, aborted, fit, todo, step, round, status>>
  BY DEF Collect, AtEnd, tracker
<1>3. SameIds /\ Unpaid' = Unpaid
  BY <1>1, <1>2 DEF PlanTyped, SameIds, Unpaid
<1>4. PlanTyped'
  BY <1>1, <1>2, <1>3, SameOrder DEF PlanTyped, Going
<1>5. PlanNamed' /\ Rounds'
  BY <1>1, <1>2 DEF PlanNamed, Rounds, Bare
<1>6. round = 0
  BY <1>1, <1>2 DEF Rounds
<1>7. ASSUME NEW i \in Unpaid, sink PROVE Coming(phases[i].id)'
  <2>1. i \in DOMAIN phases /\ Coming(phases[i].id)
    BY <1>1, <1>7 DEF Pointed, Unpaid
  <2>2. phases[i].id[1] = "jitter" /\ Numbered(phases[i].id) /\ phases[i].id[2] \in Nat
    BY <1>1, <1>2, <2>1, IdFacts DEF Coming, Among, Numbers
  <2>3. phases[i].id[2] > 0
    BY <2>2 DEF Numbered, Refitting
  <2> QED
    BY <1>1, <1>2, <1>6, <2>2, <2>3 DEF Coming
<1>8. Pointed'
  BY <1>1, <1>2, <1>3, <1>7 DEF Pointed, Going
<1> QED
  BY <1>1, <1>2, <1>4, <1>5, <1>8 DEF PlanCore, Over

\* The two solves of a refit take the place of its phase.
LEMMA RefitExpanded ==
    ASSUME Inv, PlanCore, StartRefit
    PROVE  PlanCore'
<1> DEFINE r == round + 1
           id == <<"jitter", r>>
           ids == << <<"settle", r>>, <<"joint", r>> >>
           at == Find(phases, id)
<1>1. PlanTyped /\ PlanNamed /\ Rounds /\ Pointed /\ status = "running" /\ Going /\ step = "decide"
  BY DEF PlanCore, StartRefit, AtEnd, Going, Inv, Masked
<1>2. /\ todo = <<>> /\ solution # <<>> /\ round < fit.refits /\ round' = r /\ todo' = <<"settle", "joint">>
      /\ phases' = IF sink THEN Expand(phases, id, ids) ELSE phases
      /\ UNCHANGED <<sink, current, aborted, fit, step, solution, status>>
  BY DEF StartRefit, AtEnd
<1>3. current = 0 /\ round \in Nat /\ r \in Nat /\ r > round /\ r >= 1 /\ fit.refits \in Nat /\ r <= fit.refits
  <2>1. fit \in Request
    BY FitAssumption DEF Inv, Placed
  <2>2. fit.refits \in Nat
    BY <2>1 DEF Request
  <2>3. current = 0 /\ round \in Nat
    BY <1>1 DEF Pointed, Rounds
  <2> QED
    BY <1>2, <2>2, <2>3
<1>4. /\ phases \in Seq(PhaseRecord) /\ InOrder(phases) /\ current \in 0..Len(phases)
      /\ \A i \in DOMAIN phases : phases[i].id \in Numbers /\ Numbered(phases[i].id)
                                  /\ phases[i].id[2] \in Nat
                                  /\ phases[i].id = <<phases[i].id[1], phases[i].id[2]>>
                                  /\ (phases[i].id[1] \in {"settle", "joint"} => phases[i].id[2] <= round)
                                  /\ (~sink => Bare(phases[i].id))
  BY <1>1, IdFacts DEF PlanTyped, PlanNamed, Numbers
<1>5. /\ Major("jitter") = 11 /\ Major("settle") = 11 /\ Major("joint") = 11
      /\ Minor("jitter") = 0 /\ Minor("settle") = 0 /\ Minor("joint") = 1
      /\ \A s : Major(s) \in 0..11 /\ Minor(s) \in 0..1 /\ (Minor(s) = 1 => s = "joint")
  BY DEF Major, Minor
<1> HIDE DEF r
<1>6. /\ ids \in Seq(Numbers) /\ DOMAIN ids = {1, 2} /\ ids[1] = <<"settle", r>> /\ ids[2] = <<"joint", r>>
      /\ \A k \in DOMAIN ids : ids[k][1] \in {"settle", "joint"} /\ ids[k][2] = r /\ ids[k] \in Numbers
  BY <1>3 DEF Numbers, PhaseNames
<1>7. id[1] = "jitter" /\ id[2] = r
  OBVIOUS
<1> HIDE DEF id, ids
<1>8. Listed(ids)
  BY <1>3, <1>5, <1>6 DEF Listed, Sooner
<1>9. \A k \in DOMAIN ids : Numbered(ids[k])
  BY <1>2, <1>3, <1>6 DEF Numbered, Refitting
\* Every phase of the new plan is of this refit, or one of the old ones but for the refit's.
<1>10. /\ phases' \in Seq(PhaseRecord) /\ InOrder(phases')
       /\ \A i \in DOMAIN phases' :
             \/ \E j \in DOMAIN phases : phases'[i] = phases[j] /\ (sink => phases[j].id # id)
             \/ sink /\ \E k \in DOMAIN ids : phases'[i] = Phase(ids[k])
  <2>1. CASE ~sink
    BY <1>2, <1>4, <2>1
  <2>2. CASE sink /\ at = 0
    <3>1. phases' = phases
      BY <1>2, <2>2 DEF Expand
    <3>2. \A i \in DOMAIN phases : phases[i].id # id
      BY <1>4, <2>2, FindFacts
    <3> QED
      BY <1>4, <3>1, <3>2
  <2>3. CASE sink /\ at # 0
    <3>1. /\ at \in DOMAIN phases /\ phases[at].id = id
          /\ \A i \in DOMAIN phases : phases[i].id = id => i = at
      BY <1>4, <2>3, FindFacts
    <3>2. phases' = Expand(phases, id, ids)
      BY <1>2, <2>3
    <3> HIDE DEF at
    <3>3. \A i \in DOMAIN phases : i < at => \A k \in DOMAIN ids : Sooner(phases[i].id, ids[k])
      <4> SUFFICES ASSUME NEW i \in DOMAIN phases, i < at, NEW k \in DOMAIN ids PROVE Sooner(phases[i].id, ids[k])
        OBVIOUS
      <4>1. Sooner(phases[i].id, id)
        BY <1>4, <3>1 DEF InOrder
      <4>2. Major(phases[i].id[1]) < 11 \/ phases[i].id[2] < r
        BY <1>4, <1>5, <1>7, <4>1 DEF Sooner
      <4>3. Major(ids[k][1]) = 11 /\ ids[k][2] = r
        BY <1>5, <1>6
      <4>4. Major(phases[i].id[1]) \in 0..11
        BY <1>5
      <4> QED
        BY <4>2, <4>3, <4>4 DEF Sooner
    <3>4. \A i \in DOMAIN phases : i > at => \A k \in DOMAIN ids : Sooner(ids[k], phases[i].id)
      <4> SUFFICES ASSUME NEW i \in DOMAIN phases, i > at, NEW k \in DOMAIN ids PROVE Sooner(ids[k], phases[i].id)
        OBVIOUS
      <4>1. Sooner(id, phases[i].id)
        BY <1>4, <3>1 DEF InOrder
      <4>2. Major(phases[i].id[1]) = 11
        BY <1>5, <1>7, <4>1 DEF Sooner
      <4>3. phases[i].id[2] > r
        <5>1. phases[i].id[2] > r \/ (phases[i].id[2] = r /\ 0 < Minor(phases[i].id[1]))
          BY <1>4, <1>5, <1>7, <4>1, <4>2 DEF Sooner
        <5>2. phases[i].id[1] = "joint" => phases[i].id[2] < r
          BY <1>3, <1>4
        <5>3. Minor(phases[i].id[1]) \in 0..1 /\ (Minor(phases[i].id[1]) = 1 => phases[i].id[1] = "joint")
          BY <1>5
        <5> QED
          BY <1>3, <1>4, <5>1, <5>2, <5>3
      <4>4. Major(ids[k][1]) = 11 /\ ids[k][2] = r
        BY <1>5, <1>6
      <4> QED
        BY <1>3, <4>2, <4>3, <4>4 DEF Sooner
    <3>5. /\ phases' \in Seq(PhaseRecord) /\ InOrder(phases')
          /\ \A i \in DOMAIN phases' :
                \/ \E j \in DOMAIN phases \ {at} : phases'[i] = phases[j]
                \/ \E k \in DOMAIN ids : phases'[i] = Phase(ids[k])
      BY <1>4, <1>8, <3>1, <3>2, <3>3, <3>4, SplicedInOrder DEF at
    <3> QED
      BY <2>3, <3>1, <3>5
  <2> QED
    BY <2>1, <2>2, <2>3
<1> HIDE DEF at
<1>11. \A i \in DOMAIN phases' :
         \/ \E j \in DOMAIN phases : phases'[i].id = phases[j].id
         \/ sink /\ \E k \in DOMAIN ids : phases'[i].id = ids[k]
  BY <1>6, <1>10, PhaseMade
<1>12. PlanTyped'
  <2>1. (\A i \in DOMAIN phases : Numbered(phases[i].id))'
    <3> SUFFICES ASSUME NEW i \in DOMAIN phases' PROVE Numbered(phases'[i].id)
      BY <1>2 DEF Numbered
    <3> QED
      BY <1>4, <1>9, <1>11
  <2>2. current' \in 0..Len(phases')
    BY <1>2, <1>3, <1>10
  <2>3. InOrder(phases)'
    BY <1>10
  <2> QED
    BY <1>1, <1>2, <1>10, <2>1, <2>2, <2>3 DEF PlanTyped, Going
<1>13. PlanNamed'
  <2>1. ~sink => \A i \in DOMAIN phases' : Bare(phases'[i].id)
    BY <1>4, <1>11
  <2>2. \A i \in DOMAIN phases' : phases'[i].id[1] \in {"settle", "joint"} => phases'[i].id[2] <= r
    <3> SUFFICES ASSUME NEW i \in DOMAIN phases', phases'[i].id[1] \in {"settle", "joint"}
                 PROVE  phases'[i].id[2] <= r
      OBVIOUS
    <3>1. CASE \E j \in DOMAIN phases : phases'[i].id = phases[j].id
      BY <1>3, <1>4, <3>1
    <3>2. CASE \E k \in DOMAIN ids : phases'[i].id = ids[k]
      BY <1>3, <1>6, <3>2
    <3> QED
      BY <1>11, <3>1, <3>2
  <2> QED
    BY <1>1, <1>2, <2>1, <2>2 DEF PlanNamed, Bare
<1>14. Rounds'
  <2>1. <<"settle", "joint">> \in Seq(PhaseNames)
    BY DEF PhaseNames
  <2>2. Climbs(<<"settle", "joint">>)
    <3> SUFFICES ASSUME NEW i \in {1, 2}, NEW j \in {1, 2}, i < j
                 PROVE  Sooner(<< <<"settle", "joint">>[i], 0>>, << <<"settle", "joint">>[j], 0>>)
      BY DEF Climbs
    <3>1. i = 1 /\ j = 2
      OBVIOUS
    <3> QED
      BY <1>5, <3>1 DEF Sooner
  <2> QED
    BY <1>1, <1>2, <1>3, <2>1, <2>2 DEF Rounds
<1>15. ASSUME NEW i \in Unpaid', sink PROVE Coming(phases[i].id)'
  <2>1. i \in DOMAIN phases' /\ phases'[i].counts /\ ~phases'[i].done
    BY DEF Unpaid
  <2>2. CASE \E k \in DOMAIN ids : phases'[i] = Phase(ids[k])
    <3>1. PICK k \in DOMAIN ids : phases'[i].id = ids[k]
      BY <1>6, <2>2, PhaseMade
    <3>2. phases'[i].id[1] \in {"settle", "joint"} /\ phases'[i].id[2] = r
      BY <1>6, <3>1
    <3>3. Among("settle", todo') /\ Among("joint", todo')
      BY <1>2 DEF Among
    <3> QED
      BY <1>1, <1>2, <3>2, <3>3 DEF Coming, Among
  <2>3. CASE \E j \in DOMAIN phases : phases'[i] = phases[j] /\ phases[j].id # id
    <3>1. PICK j \in DOMAIN phases : phases'[i] = phases[j] /\ phases[j].id # id
      BY <2>3
    <3>2. j \in Unpaid
      BY <2>1, <3>1 DEF Unpaid
    <3>3. Coming(phases[j].id)
      BY <1>1, <1>15, <3>2 DEF Pointed
    <3>4. phases[j].id[1] = "jitter" /\ phases[j].id[2] > round
      BY <1>1, <1>2, <3>3 DEF Coming, Among
    <3>5. phases[j].id[2] # r
      BY <1>4, <3>1, <3>4 DEF id
    <3>6. phases[j].id[2] > r
      BY <1>3, <1>4, <3>4, <3>5 DEF r
    <3> QED
      BY <1>1, <1>2, <3>1, <3>4, <3>6 DEF Coming
  <2> QED
    BY <1>10, <1>15, <2>1, <2>2, <2>3
<1>16. Pointed'
  BY <1>1, <1>2, <1>3, <1>15 DEF Pointed, Going
<1> QED
  BY <1>1, <1>2, <1>12, <1>13, <1>14, <1>16 DEF PlanCore, Over

\* The plan is set up with the phases of the whole fit and its refits.
LEMMA PlanInitially == Init => PlanCore
<1> SUFFICES ASSUME Init
             PROVE  PlanCore
  OBVIOUS
<1> DEFINE n == fit.refits
           a == << Phase(<<"pre", 0>>), Phase(<<"fit", 0>>) >>
           b == [k \in 1..n |-> Phase(<<"jitter", k>>)]
<1>1. /\ phases = a \o b /\ current = 1 /\ aborted = FALSE /\ sink \in BOOLEAN
      /\ todo = <<>> /\ round = 0 /\ solution = <<>> /\ status = "reading" /\ step = "decide" /\ fit \in Fits
  BY DEF Init
<1>2. n \in Nat
  BY <1>1, FitAssumption DEF Request
<1>3. /\ <<"pre", 0>> \in Numbers /\ <<"fit", 0>> \in Numbers
      /\ \A k \in 1..n : <<"jitter", k>> \in Numbers
  BY <1>2 DEF Numbers, PhaseNames
<1>4. /\ a \in Seq(PhaseRecord) /\ Len(a) = 2 /\ a[1].id = <<"pre", 0>> /\ a[2].id = <<"fit", 0>>
  BY <1>3, PhaseMade
<1> HIDE DEF n
<1>5. b \in Seq(PhaseRecord) /\ Len(b) = n /\ \A k \in 1..n : b[k].id = <<"jitter", k>>
  <2>1. \A k \in 1..n : Phase(<<"jitter", k>>) \in PhaseRecord /\ Phase(<<"jitter", k>>).id = <<"jitter", k>>
    <3>1. ASSUME NEW k \in 1..n
          PROVE  Phase(<<"jitter", k>>) \in PhaseRecord /\ Phase(<<"jitter", k>>).id = <<"jitter", k>>
      <4>1. <<"jitter", k>> \in Numbers
        BY <1>3
      <4> QED
        BY <4>1, PhaseMade, Zenon
    <3> QED
      BY <3>1, Zenon
  <2>2. b \in [1..n -> PhaseRecord]
    BY <2>1
  <2>3. b \in Seq(PhaseRecord) /\ Len(b) = n
    BY <1>2, <2>2
  <2>4. \A k \in 1..n : b[k] = Phase(<<"jitter", k>>)
    OBVIOUS
  <2> HIDE DEF b
  <2> QED
    BY <2>1, <2>3, <2>4
<1> HIDE DEF a, b
<1>6. phases \in Seq(PhaseRecord) /\ Joins(phases, a, b)
  BY <1>1, <1>4, <1>5, Joined
<1>7. /\ Len(phases) = n + 2 /\ DOMAIN phases = 1..(n + 2)
      /\ phases[1].id = <<"pre", 0>> /\ phases[2].id = <<"fit", 0>>
      /\ \A i \in 3..(n + 2) : phases[i].id = <<"jitter", i - 2>>
  <2>1. Len(phases) = 2 + n
    BY <1>4, <1>5, <1>6 DEF Joins
  <2>2. phases[1] = a[1] /\ phases[2] = a[2]
    BY <1>4, <1>6 DEF Joins
  <2>3. \A i \in 3..(n + 2) : phases[i] = b[i - 2] /\ i - 2 \in 1..n
    BY <1>2, <1>4, <1>5, <1>6 DEF Joins
  <2>4. DOMAIN phases = 1..Len(phases)
    BY <1>6
  <2> QED
    BY <1>2, <1>4, <1>5, <2>1, <2>2, <2>3, <2>4
<1>8. \A i \in DOMAIN phases : \/ i = 1 /\ phases[i].id = <<"pre", 0>>
                               \/ i = 2 /\ phases[i].id = <<"fit", 0>>
                               \/ i \in 3..(n + 2) /\ phases[i].id = <<"jitter", i - 2>>
  BY <1>2, <1>7
<1>9. InOrder(phases)
  <2>1. Major("pre") = 0 /\ Major("fit") = 1 /\ Major("jitter") = 11
    BY DEF Major
  <2> SUFFICES ASSUME NEW i \in DOMAIN phases, NEW j \in DOMAIN phases, i < j
               PROVE  Sooner(phases[i].id, phases[j].id)
    BY DEF InOrder
  <2>2. CASE i = 1
    <3>1. phases[j].id = <<"fit", 0>> \/ phases[j].id = <<"jitter", j - 2>>
      BY <1>8, <2>2
    <3> QED
      BY <1>7, <2>1, <2>2, <3>1 DEF Sooner
  <2>3. CASE i = 2
    <3>1. phases[j].id = <<"jitter", j - 2>>
      BY <1>8, <2>3
    <3> QED
      BY <1>7, <2>1, <2>3, <3>1 DEF Sooner
  <2>4. CASE i \in 3..(n + 2)
    <3>1. phases[i].id = <<"jitter", i - 2>> /\ phases[j].id = <<"jitter", j - 2>> /\ j \in Int
      BY <1>2, <1>8, <2>4
    <3> QED
      BY <1>2, <2>4, <3>1 DEF Sooner
  <2> QED
    BY <1>8, <2>2, <2>3, <2>4
<1>10. PlanTyped
  <2>1. \A i \in DOMAIN phases : Numbered(phases[i].id)
    <3> SUFFICES ASSUME NEW i \in DOMAIN phases PROVE Numbered(phases[i].id)
      OBVIOUS
    <3>1. CASE i \in 3..(n + 2) /\ phases[i].id = <<"jitter", i - 2>>
      BY <1>2, <3>1 DEF Numbered, Refitting, n
    <3> QED
      BY <1>8, <3>1 DEF Numbered, Refitting
  <2>2. current \in 0..Len(phases)
    BY <1>1, <1>2, <1>7
  <2> QED
    BY <1>1, <1>6, <1>9, <2>1, <2>2 DEF PlanTyped
<1>11. \A i \in DOMAIN phases : Bare(phases[i].id)
  BY <1>8 DEF Bare
<1>12. PlanNamed /\ Rounds
  BY <1>1, <1>11 DEF PlanNamed, Rounds
<1>13. Pointed
  BY <1>1, <1>2, <1>7 DEF Pointed, Going
<1> QED
  BY <1>1, <1>10, <1>12, <1>13 DEF PlanCore, Over

\* Every step keeps the plan.
LEMMA PlanKept == Inv /\ PlanCore /\ [Next]_vars => PlanCore'
<1> SUFFICES ASSUME Inv, PlanCore, [Next]_vars
             PROVE  PlanCore'
  OBVIOUS
<1>1. CASE Read
  BY <1>1, ReadPlanned
<1>2. CASE PlanStages
  BY <1>2, StagesExpanded
<1>3. CASE Enter \/ FreezeVsini \/ RetireSecondaries \/ FreezeBoundary \/ NoisePass \/ Leave
  BY <1>3, StagesPlanned
<1>4. CASE NoiseDone
  BY <1>4, NoisePlanned
<1>5. CASE Solve \/ Fails \/ ReadFails \/ Finish \/ Rest
  BY <1>5, SolvesPlanned
<1>6. CASE Collect
  BY <1>6, CollectPlanned
<1>7. CASE StartRefit
  BY <1>7, RefitExpanded
<1>8. CASE UNCHANGED vars
  <2>1. UNCHANGED <<sink, phases, current, aborted, fit, todo, step, round, solution, status>>
    BY <1>8 DEF vars, tracker
  <2>2. PlanTyped' /\ PlanNamed' /\ Rounds'
    BY <2>1 DEF PlanCore, PlanTyped, PlanNamed, Rounds, InOrder, Numbered, Bare, Going, Over, Climbs
  <2>3. Pointed' /\ (Over => OrderlyPlan)'
    BY <2>1 DEF PlanCore, Pointed, Here, Going, Over, OrderlyPlan, Unpaid, Coming, Among
  <2> QED
    BY <2>2, <2>3 DEF PlanCore
<1> QED
  BY <1>1, <1>2, <1>3, <1>4, <1>5, <1>6, <1>7, <1>8 DEF Next

(***************************************************************************)
(* For any request the bar's estimate is right: what lies before the       *)
(* running phase is paid for or dropped, and a fit that ends well has      *)
(* nothing left to wait for.                                               *)
(***************************************************************************)
THEOREM PlanKeptOrderly == Spec => []OrderlyPlan
<1>1. Inv /\ PlanCore => OrderlyPlan
  BY NothingBefore
<1>2. Init => Inv /\ PlanCore
  BY InvInitially, PlanInitially
<1>3. Inv /\ PlanCore /\ [Next]_vars => (Inv /\ PlanCore)'
  BY InvKept, PlanKept
<1> QED
  BY <1>1, <1>2, <1>3, PTL DEF Spec

-----------------------------------------------------------------------------
(* Types.                                                                  *)

\* The layout and the data, and how far the passes and the refits have come.
DataTyped ==
    /\ ncomp \in 1..fit.components /\ nds \in 0..fit.files
    /\ status = "reading" => nds = 0
    /\ todo \in Seq(Stages \cup {"settle", "joint"})
    /\ step \in {"decide", "solve", "leave"} /\ weights \in BOOLEAN
    /\ round \in Nat
    /\ round <= IF solution = <<>> THEN NitNoiseMax ELSE fit.refits
    /\ DOMAIN noise = 1..nds /\ \A d \in 1..nds : noise[d] \in 0..1
    /\ val \in [IF status = "reading" \/ nds = 0 THEN {} ELSE Slots(ncomp, nds) -> Nat]
    /\ frozen \subseteq Components \X Names
    /\ mask \subseteq DOMAIN val
    /\ step = "leave" => Within(val)
    /\ solution = <<>> \/ Len(solution) = 2

\* What the steps leave alone.
LEMMA Frames ==
    ASSUME Next
    PROVE  /\ fit' = fit
           /\ Read \/ UNCHANGED <<ncomp, nds>>
           /\ Read \/ NoisePass \/ noise' = noise
           /\ NoisePass \/ weights' = weights
           /\ Over' => todo' = todo
           /\ Collect \/ solution' = solution
           /\ NoisePass \/ NoiseDone \/ StartRefit \/ round' = round
           /\ step' = step \/ step' \in {"decide", "solve", "leave"}
           /\ step' = "leave" => Solve \/ Read \/ StartRefit \/ UNCHANGED <<step, val>>
           /\ Over' => Solve \/ (status # "planning" /\ UNCHANGED <<val, mask>>)
           /\ status' # "reading" /\ (Going' \/ Over' \/ UNCHANGED vars)
           /\ \/ Read \/ FreezeVsini \/ RetireSecondaries \/ FreezeBoundary \/ Collect
              \/ frozen' = frozen
<1>1. Read => UNCHANGED <<fit, weights, step, todo, solution, round>> /\ status' = "planning"
  BY DEF Read
<1>2. ReadFails => /\ UNCHANGED <<fit, ncomp, nds, noise, weights, todo, solution, round, step, val, mask, frozen>>
                   /\ status = "reading" /\ status' = "failed"
  BY DEF ReadFails, parameters
<1>3. PlanStages => /\ UNCHANGED <<fit, ncomp, nds, noise, weights, solution, round, step, val, mask, frozen>>
                    /\ status' = "running"
  BY DEF PlanStages, parameters
<1>4. Enter => /\ UNCHANGED <<fit, ncomp, nds, noise, weights, todo, solution, round, val, mask, frozen>>
               /\ step' = "solve" /\ status' = "running"
  BY DEF Enter, At, parameters
<1>5. NoisePass => UNCHANGED <<fit, ncomp, nds, todo, solution, val, mask, frozen>> /\ step' = "solve" /\ status' = "running"
  BY DEF NoisePass, At, parameters
<1>6. NoiseDone => /\ UNCHANGED <<fit, ncomp, nds, noise, weights, solution, step, val, mask, frozen>>
                   /\ step = "decide" /\ status' = "running"
  BY DEF NoiseDone, At, parameters
<1>7. Leave => /\ UNCHANGED <<fit, ncomp, nds, noise, weights, solution, round, val, mask, frozen>>
               /\ step' = "decide" /\ status' = "running"
  BY DEF Leave, parameters
<1>8. Solve => /\ UNCHANGED <<fit, ncomp, nds, todo, noise, weights, solution, round, frozen>>
               /\ step' = "leave" /\ status' \in {"running", "aborted"}
  BY DEF Solve, Outcome
<1>9. Collect => /\ UNCHANGED <<fit, ncomp, nds, noise, weights, todo, round, step, val, mask>>
                 /\ status' = "running"
  BY DEF Collect, AtEnd
<1>10. StartRefit => UNCHANGED <<fit, ncomp, nds, noise, weights, solution, step, mask, frozen>> /\ status' = "running"
  BY DEF StartRefit, AtEnd
<1>11. Finish \/ Fails => /\ UNCHANGED <<fit, ncomp, nds, noise, weights, todo, solution, round, step, val, mask, frozen>>
                         /\ status = "running" /\ status' \in {"ok", "failed"}
  BY DEF Finish, Fails, AtEnd, parameters
<1>12. Rest => /\ UNCHANGED <<fit, ncomp, nds, noise, weights, todo, solution, round, step, val, mask, frozen>>
               /\ UNCHANGED vars /\ Over /\ status' = status
  BY DEF Rest, vars, parameters
<1>13. FreezeVsini \/ RetireSecondaries \/ FreezeBoundary =>
          /\ UNCHANGED <<fit, ncomp, nds, noise, weights, solution, round>>
          /\ (UNCHANGED <<todo, mask>> /\ step' = "solve") \/ UNCHANGED <<step, val, mask, frozen>>
          /\ step = "decide" /\ status' = "running"
  <2>1. FreezeVsini \/ RetireSecondaries \/ FreezeBoundary =>
            status = "running" /\ step = "decide" /\ ((\E keys, point : Refit(keys, point)) \/ Skip)
    BY DEF FreezeVsini, RetireSecondaries, FreezeBoundary, At
  <2>2. Skip => UNCHANGED <<fit, ncomp, nds, noise, weights, solution, round, step, val, mask, frozen, status>>
    BY DEF Skip, parameters
  <2>3. ASSUME NEW keys, NEW point, Refit(keys, point)
        PROVE  UNCHANGED <<fit, ncomp, nds, noise, weights, todo, mask, solution, round, status>> /\ step' = "solve"
    BY <2>3 DEF Refit
  <2> QED
    BY <2>1, <2>2, <2>3
<1> QED
  BY <1>1, <1>2, <1>3, <1>4, <1>5, <1>6, <1>7, <1>8, <1>9, <1>10, <1>11, <1>12, <1>13 DEF Next, Over, Going

\* What is frozen are components' names.
LEMMA FrozenNames ==
    ASSUME Inv, DataTyped, Next
    PROVE  frozen' \subseteq Components \X Names
<1>1. /\ fit \in Request /\ ncomp \in 1..fit.components /\ frozen \subseteq Components \X Names
      /\ fit.components \in {1, 2} /\ fit.frozen \subseteq Components \X Names
  <2>1. fit \in Request
    BY FitAssumption DEF Inv, Placed
  <2>2. fit.components \in {1, 2} /\ fit.frozen \subseteq Components \X Names
    BY <2>1 DEF Request, Components
  <2> QED
    BY <2>1, <2>2 DEF DataTyped
<1>2. (1..ncomp) \X Names \subseteq Components \X Names
  BY <1>1 DEF Components
<1>3. CASE Read
  <2>1. frozen' = { k \in fit.frozen : k[1] <= ncomp' } \cup {<<1, "sur_ratio">>}
    BY <1>3 DEF Read
  <2>2. <<1, "sur_ratio">> \in Components \X Names
    BY DEF Components, Names
  <2> QED
    BY <1>1, <2>1, <2>2
<1>4. CASE Collect
  BY <1>2, <1>4 DEF Collect, FrozenForRefits
<1>5. CASE FreezeVsini
  <2>1. frozen' \in {frozen, frozen \cup Unmeasurable}
    BY <1>5 DEF FreezeVsini, Refit, Skip, parameters
  <2> QED
    BY <1>1, <1>2, <2>1, VsiniKeys
<1>6. CASE FreezeBoundary
  <2>1. frozen' \in {frozen, frozen \cup AtBoundary}
    BY <1>6 DEF FreezeBoundary, Refit, Skip, parameters
  <2> QED
    BY <1>1, <1>2, <2>1, BoundaryKeys
<1>7. CASE RetireSecondaries
  <2>1. PICK unseen \in SUBSET (2..ncomp) : frozen' \in {frozen, frozen \cup (Faint(unseen) \X Names)}
    BY <1>7 DEF RetireSecondaries, Refit, Skip, parameters
  <2>2. Faint(unseen) \X Names \in SUBSET ((1..ncomp) \X Names)
    <3>1. ncomp \in Nat
      BY <1>1
    <3> QED
      BY <3>1, FaintKeys
  <2> QED
    BY <1>1, <1>2, <2>1, <2>2
<1> QED
  BY <1>1, <1>3, <1>4, <1>5, <1>6, <1>7, Frames

\* The values are those of the layout, and the mask is of them.
LEMMA DataLaid ==
    ASSUME Inv, Inv', DataTyped, [Next]_vars
    PROVE  /\ (val \in [IF status = "reading" \/ nds = 0 THEN {} ELSE Slots(ncomp, nds) -> Nat])'
           /\ (mask \subseteq DOMAIN val)'
<1>1. CASE UNCHANGED vars
  <2>1. UNCHANGED <<val, status, nds, ncomp, fit, mask>>
    BY <1>1 DEF vars, parameters
  <2> QED
    BY <2>1 DEF DataTyped, Slots, Slot
<1>2. CASE Going'
  BY <1>2 DEF Inv, Placed, Masked, Values, Going, ByKey
<1>3. CASE Next /\ Over' /\ Solve
  <2>1. Going /\ UNCHANGED <<ncomp, nds, fit>> /\ mask' = FreeSlots(Head(todo))
    BY <1>3 DEF Solve, Going
  <2>2. val \in Values /\ nds # 0
    BY <2>1 DEF Inv, Placed
  <2>3. val' \in Values
    BY <1>3, SolveLands
  <2>4. mask' \subseteq DOMAIN val
    BY <2>1 DEF FreeSlots
  <2>5. Slots(ncomp, nds)' = Slots(ncomp, nds)
    BY <2>1 DEF Slots, Slot
  <2> QED
    BY <1>3, <2>1, <2>2, <2>3, <2>4, <2>5 DEF Over, Values
<1>4. CASE Next /\ Over' /\ ~Solve
  <2>1. UNCHANGED <<val, mask, fit>> /\ (Read \/ UNCHANGED <<ncomp, nds>>)
    BY <1>4, Frames
  <2>2. UNCHANGED <<ncomp, nds>>
    BY <1>4, <2>1 DEF Read, Over
  <2>3. Slots(ncomp, nds)' = Slots(ncomp, nds)
    BY <2>1, <2>2 DEF Slots, Slot
  <2> QED
    BY <1>4, <2>1, <2>2, <2>3 DEF Over, DataTyped
<1> QED
  BY <1>1, <1>2, <1>3, <1>4, Frames

\* Every step keeps the types.
LEMMA DataKept ==
    ASSUME Inv, Inv', PlanCore, PlanCore', DataTyped, [Next]_vars
    PROVE  DataTyped'
<1>1. CASE UNCHANGED vars
  <2>1. UNCHANGED <<fit, ncomp, nds, todo, step, round, weights, noise, val, frozen, mask, solution, status>>
    BY <1>1 DEF vars, parameters
  <2>2. /\ (val \in [IF status = "reading" \/ nds = 0 THEN {} ELSE Slots(ncomp, nds) -> Nat])'
        /\ (mask \subseteq DOMAIN val)'
    BY DataLaid
  <2>3. (step = "leave" => Within(val))'
    BY <2>1 DEF DataTyped, Within
  <2> QED
    BY <2>1, <2>2, <2>3 DEF DataTyped
<1>2. CASE Next
  <2>1. /\ fit' = fit /\ (Read \/ UNCHANGED <<ncomp, nds>>) /\ status' # "reading"
        /\ fit \in Request /\ fit.components \in {1, 2} /\ fit.files \in Nat \ {0} /\ fit.refits \in Nat
        /\ NitNoiseMax \in Nat
    <3>1. fit \in Request /\ NitNoiseMax \in Nat
      BY FitAssumption DEF Inv, Placed
    <3>2. fit.components \in {1, 2} /\ fit.files \in Nat \ {0} /\ fit.refits \in Nat
      BY <3>1 DEF Request, Components
    <3> QED
      BY <1>2, <3>1, <3>2, Frames
  <2>2. ncomp' \in 1..fit'.components /\ nds' \in 0..fit'.files
    <3>1. CASE Read
      <4>1. ncomp' \in {1, fit.components} /\ nds' \in 1..fit.files
        BY <3>1 DEF Read, Accepted
      <4> QED
        BY <2>1, <4>1
    <3>2. CASE UNCHANGED <<ncomp, nds>>
      BY <2>1, <3>2 DEF DataTyped
    <3> QED
      BY <2>1, <3>1, <3>2
  <2>3. todo' \in Seq(Stages \cup {"settle", "joint"})
    <3>1. CASE Over'
      BY <1>2, <3>1, Frames DEF DataTyped
    <3>2. CASE status' = "running" /\ solution' = <<>>
      <4>1. todo' \in Seq(Stages)
        BY <3>2 DEF Inv, Closing, EndsWhole
      <4> QED
        BY <4>1
    <3>3. CASE status' = "running" /\ solution' # <<>>
      <4>1. todo' \in Seq({"settle", "joint"})
        BY <3>3 DEF Inv, Ensemble
      <4> QED
        BY <4>1
    <3>4. CASE status' = "planning"
      <4>1. todo' = <<>>
        BY <3>4 DEF PlanCore, Rounds
      <4> QED
        BY <4>1
    <3> QED
      BY <2>1, <3>1, <3>2, <3>3, <3>4 DEF PlanCore, PlanTyped, Going
  <2>4. step' \in {"decide", "solve", "leave"}
    BY <1>2, Frames DEF DataTyped
  <2>5. weights' \in BOOLEAN
    <3>1. CASE NoisePass
      BY <3>1 DEF NoisePass
    <3> QED
      BY <1>2, <3>1, Frames DEF DataTyped
  <2>6. round' \in Nat /\ round' <= IF solution' = <<>> THEN NitNoiseMax ELSE fit'.refits
    <3>0. round \in Nat /\ round <= IF solution = <<>> THEN NitNoiseMax ELSE fit.refits
      BY DEF DataTyped
    <3>1. CASE NoisePass
      <4>1. round' = round + 1 /\ round < NitNoiseMax /\ solution' = solution /\ todo # <<>>
            /\ Head(todo) = "6" /\ status = "running"
        BY <3>1 DEF NoisePass, At
      <4>2. solution = <<>>
        BY <4>1, ToDo DEF PlanCore
      <4> QED
        BY <2>1, <3>0, <4>1, <4>2
    <3>2. CASE NoiseDone
      BY <2>1, <3>2 DEF NoiseDone
    <3>3. CASE StartRefit
      <4>1. round' = round + 1 /\ round < fit.refits /\ solution' = solution /\ solution # <<>>
        BY <3>3 DEF StartRefit, AtEnd
      <4> QED
        BY <2>1, <3>0, <4>1
    <3>4. CASE Collect
      <4>1. round' = round /\ status = "running" /\ todo = <<>> /\ solution = <<>>
        BY <3>4 DEF Collect, AtEnd
      <4>2. round = 0
        BY <4>1 DEF PlanCore, Rounds
      <4> QED
        BY <2>1, <4>1, <4>2
    <3>5. CASE ~NoisePass /\ ~NoiseDone /\ ~StartRefit /\ ~Collect
      BY <1>2, <2>1, <3>0, <3>5, Frames
    <3> QED
      BY <3>1, <3>2, <3>3, <3>4, <3>5
  <2>7. DOMAIN noise' = 1..nds' /\ \A d \in 1..nds' : noise'[d] \in 0..1
    <3>1. CASE Read
      BY <3>1 DEF Read
    <3>2. CASE NoisePass
      <4>1. nds' = nds /\ noise' = [d \in 1..nds |-> Scaled(d)]
        BY <3>2 DEF NoisePass
      <4> QED
        BY <4>1 DEF Scaled
    <3>3. CASE ~Read /\ ~NoisePass
      BY <1>2, <3>3, Frames DEF DataTyped
    <3> QED
      BY <3>1, <3>2, <3>3
  <2>8. /\ (val \in [IF status = "reading" \/ nds = 0 THEN {} ELSE Slots(ncomp, nds) -> Nat])'
        /\ (mask \subseteq DOMAIN val)'
    BY DataLaid
  <2>9. frozen' \subseteq Components \X Names
    BY <1>2, FrozenNames
  <2>10. ASSUME step' = "leave" PROVE Within(val)'
    <3>1. CASE Solve
      BY <3>1, SolveLands DEF Within
    <3>2. CASE Read
      BY <2>10, <3>2 DEF Read, Inv, Placed
    <3>3. CASE StartRefit
      BY <2>10, <3>3 DEF StartRefit, AtEnd, Inv, Masked
    <3>4. CASE UNCHANGED <<step, val>>
      BY <2>10, <3>4 DEF DataTyped, Within
    <3> QED
      BY <1>2, <2>10, <3>1, <3>2, <3>3, <3>4, Frames
  <2>11. solution' = <<>> \/ Len(solution') = 2
    <3>1. CASE Collect
      BY <3>1 DEF Collect
    <3> QED
      BY <1>2, <3>1, Frames DEF DataTyped
  <2> QED
    BY <2>1, <2>2, <2>3, <2>4, <2>5, <2>6, <2>7, <2>8, <2>9, <2>10, <2>11 DEF DataTyped
<1> QED
  BY <1>1, <1>2

\* Where a fit starts.
LEMMA DataInitially == Init => DataTyped
<1> SUFFICES ASSUME Init
             PROVE  DataTyped
  OBVIOUS
<1>1. fit \in Request /\ NitNoiseMax \in Nat
  BY FitAssumption DEF Init
<1>2. fit.components \in {1, 2} /\ fit.files \in Nat \ {0} /\ fit.refits \in Nat /\ fit.frozen \subseteq Components \X Names
  BY <1>1 DEF Request, Components
<1>3. /\ ncomp = fit.components /\ nds = 0 /\ todo = <<>> /\ step = "decide" /\ round = 0 /\ weights = TRUE
      /\ noise = <<>> /\ val = <<>> /\ frozen = fit.frozen /\ mask = {} /\ solution = <<>> /\ status = "reading"
  BY DEF Init
<1>4. val \in [IF status = "reading" \/ nds = 0 THEN {} ELSE Slots(ncomp, nds) -> Nat] /\ DOMAIN val = {}
  BY <1>3
<1> QED
  BY <1>1, <1>2, <1>3, <1>4 DEF DataTyped

(***************************************************************************)
(* Every variable of a fit keeps its type, for any request: the rungs are  *)
(* those of a ladder, sigma is scaled at most once, passes and refits stay *)
(* within their limits, and a solve leaves every value in its bounds.      *)
(***************************************************************************)
THEOREM FitTypes == Spec => []TypeOK
<1>1. Inv /\ PlanCore /\ DataTyped => TypeOK
  <2> SUFFICES ASSUME Inv, PlanCore, DataTyped
               PROVE  TypeOK
    OBVIOUS
  <2>1. TrackerType /\ status \in {"reading", "planning", "running", "ok", "aborted", "failed"}
    BY DEF PlanCore, PlanTyped, TrackerType, PhaseRecord, PhaseNames, Going, Over
  <2>2. fit \in Fits /\ fit \in Request /\ NitNoiseMax \in Nat
    BY FitAssumption DEF Inv, Placed
  <2>3. round \in 0..(NitNoiseMax + fit.refits)
    <3>1. fit.refits \in Nat
      BY <2>2 DEF Request
    <3> QED
      BY <2>2, <3>1 DEF DataTyped
  <2>4. Stages \cup {"settle", "joint"} = {"1", "2", "3", "4", "5", "5b", "6", "7", "7b", "settle", "joint"}
    BY DEF Stages
  <2>5. todo \in Seq({"1", "2", "3", "4", "5", "5b", "6", "7", "7b", "settle", "joint"})
    BY <2>4 DEF DataTyped
  <2> QED
    BY <2>1, <2>2, <2>3, <2>5 DEF DataTyped, TypeOK, Within
<1>2. Init => Inv /\ PlanCore /\ DataTyped
  BY InvInitially, PlanInitially, DataInitially
<1>3. Inv /\ PlanCore /\ DataTyped /\ [Next]_vars => (Inv /\ PlanCore /\ DataTyped)'
  BY InvKept, PlanKept, DataKept
<1> QED
  BY <1>1, <1>2, <1>3, PTL DEF Spec
=============================================================================
