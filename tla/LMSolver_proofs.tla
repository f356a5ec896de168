-------------------------- MODULE LMSolver_proofs ---------------------------
(***************************************************************************)
(* The solver's result belongs to the point it leaves in x, convergence is *)
(* only claimed as the tests of the loop allow, and the solver is the      *)
(* descent its caller expects: for every landscape, box, limit and         *)
(* tolerance.                                                              *)
(***************************************************************************)
EXTENDS LMSolver, TLAPS

\* In the loop no limit has been reached and there is something to fit.
LoopOpen ==
    /\ state = "loop" => mask # {} /\ rejects < MaxRejects /\ flat < FlatSteps
    /\ state = "entry" => stale /\ trail = <<>> /\ ~moved /\ flat = 0 /\ rejects = 0

\* While the call goes on, the counters are what the accepted steps amount to.
Counted ==
    state \in {"entry", "loop"} =>
        /\ why = "none" /\ ~converged
        /\ chi2 = NaN => trail = <<>>
        /\ moved <=> trail # <<>>
        /\ moved => lastGain = trail[Len(trail)].gain
        /\ flat <= Len(trail)
        /\ \A i \in Len(trail) - flat + 1 .. Len(trail) : Flat(i)

\* Nothing free, nothing evaluated.
Unevaluated == mask = {} => state \in {"entry", "done"} /\ final = 0 /\ errors = <<x, x>>

IInv == SolverTypeOK /\ Coherent /\ LoopOpen /\ Counted /\ Unevaluated /\ StopsEarned

LEMMA LandType ==
    SolverTypeOK => /\ \A y \in Point : land.chi2[y] \in Nat \cup {NaN}
                    /\ \A y \in Point, j \in Param : land.slope[y][j] \in {-1, 0, 1}
BY SolverAssumption DEF SolverTypeOK, Landscape

LEMMA EquationsCurrent == IInv /\ state = "loop" => Equations = <<x, x>> /\ Slope = land.slope[x]
BY DEF IInv, SolverTypeOK, Coherent, Equations, Slope, StopsEarned, Counted

\* Past the gradient test chi2 is a positive number, and what improves on it is one.
LEMMA GainType ==
    ASSUME IInv, state = "loop", ~GradientSmall, NEW y \in Point, Better(y)
    PROVE  chi2 \in Nat /\ land.chi2[y] \in Nat /\ Gain(y) \in Nat
BY LandType, SolverAssumption DEF IInv, SolverTypeOK, GradientSmall, Better, Gain

\* An accepted step, without what it does to the counters of flat steps.
LEMMA MoveFacts ==
    ASSUME IInv, NEW y \in Point, NEW small \in BOOLEAN, Move(y, small)
    PROVE  /\ state = "loop" /\ x' \in Point /\ resid' = x' /\ jacobian' = x'
           /\ chi2' = land.chi2[x'] /\ chi2' \in Nat
           /\ Gain(y) \in Nat /\ normal' = <<x, x>> /\ stale' = TRUE
           /\ trail' \in Seq([gain : Nat, small : BOOLEAN]) /\ Len(trail') = Len(trail) + 1
           /\ trail'[Len(trail')] = [gain |-> Gain(y), small |-> small]
           /\ \A i \in 1..Len(trail) : trail'[i] = trail[i]
           /\ trail' # <<>>
           /\ land' = land /\ mask' = mask /\ mask # {} /\ iterations' \in 0..MaxIterations
           /\ rejects' = 0 /\ moved' = TRUE /\ backoffs' = backoffs /\ aborted' = aborted
           /\ why = "none" /\ Len(trail) \in Nat
           /\ <<x', x'>> \in Point \X Point /\ <<x, x>> \in Point \X Point
<1>1. state = "loop" /\ ~GradientSmall /\ Better(y)
  BY DEF Move, Iterate
<1>2. Gain(y) \in Nat /\ land.chi2[y] \in Nat
  BY <1>1, GainType
<1>3. Equations = <<x, x>>
  BY <1>1, EquationsCurrent
<1>4. trail \in Seq([gain : Nat, small : BOOLEAN]) /\ [gain |-> Gain(y), small |-> small] \in [gain : Nat, small : BOOLEAN]
  BY <1>2 DEF IInv, SolverTypeOK
<1>5. trail' = Append(trail, [gain |-> Gain(y), small |-> small])
  BY DEF Move
<1>6. trail' \in Seq([gain : Nat, small : BOOLEAN]) /\ Len(trail') = Len(trail) + 1
      /\ trail'[Len(trail')] = [gain |-> Gain(y), small |-> small]
      /\ (\A i \in 1..Len(trail) : trail'[i] = trail[i]) /\ trail' # <<>>
  BY <1>4, <1>5
<1>7. land' = land /\ x' = y /\ resid' = y /\ jacobian' = y /\ chi2' = land.chi2[y]
      /\ normal' = Equations /\ stale' = TRUE
  BY DEF Move, problem
<1>8. /\ mask' = mask /\ rejects' = 0 /\ moved' = TRUE /\ backoffs' = backoffs /\ aborted' = aborted
      /\ iterations' = iterations + 1 /\ iterations < MaxIterations
  BY DEF Move, Iterate, problem
<1>9. iterations' \in 0..MaxIterations
  BY <1>8, SolverAssumption DEF IInv, SolverTypeOK
<1>10. mask # {} /\ why = "none"
  BY <1>1 DEF IInv, LoopOpen, Counted
<1>11. <<x', x'>> \in Point \X Point /\ <<x, x>> \in Point \X Point
  BY <1>7 DEF IInv, SolverTypeOK
<1>12. Len(trail) \in Nat
  BY <1>4
<1> QED BY <1>1, <1>2, <1>3, <1>6, <1>7, <1>8, <1>9, <1>10, <1>11, <1>12

LEMMA InitIInv == SolverInit => IInv
<1> SUFFICES ASSUME SolverInit PROVE IInv
  OBVIOUS
<1>1. SolverTypeOK
  <2>1. x \in Point /\ <<x, x>> \in Point \X Point /\ <<>> \in Seq([gain : Nat, small : BOOLEAN])
    BY DEF SolverInit
  <2>2. 0 \in 0..MaxIterations /\ 0 \in 0..MaxRejects /\ 0 \in 0..FlatSteps /\ 0 \in 0..MaxBackoffs
    BY SolverAssumption
  <2> QED BY <2>1, <2>2 DEF SolverInit, SolverTypeOK, Reasons
<1>2. Coherent /\ LoopOpen /\ Counted /\ Unevaluated /\ StopsEarned
  BY SolverAssumption DEF SolverInit, Coherent, LoopOpen, Counted, Unevaluated, StopsEarned
<1> QED BY <1>1, <1>2 DEF IInv

\* An iteration that keeps its point has rebuilt the equations there.
LEMMA RebuildFacts ==
    ASSUME IInv, Iterate, Rebuild
    PROVE  /\ state = "loop" /\ mask # {} /\ iterations' \in 0..MaxIterations
           /\ normal' = <<x, x>> /\ normal' \in Point \X Point /\ stale' = FALSE
           /\ resid = x /\ jacobian = x /\ chi2 = land.chi2[x] /\ why = "none"
<1>1. state = "loop" /\ Equations = <<x, x>>
  BY EquationsCurrent DEF Iterate
<1>2. iterations' \in 0..MaxIterations
  BY SolverAssumption DEF Iterate, IInv, SolverTypeOK
<1>3. x \in Point
  BY DEF IInv, SolverTypeOK
<1> QED BY <1>1, <1>2, <1>3 DEF Rebuild, IInv, Coherent, LoopOpen, Counted

LEMMA NextIInv == IInv /\ [SolverNext]_solverVars => IInv'
<1> SUFFICES ASSUME IInv, [SolverNext]_solverVars PROVE IInv'
  OBVIOUS
<1> USE SolverAssumption DEF IInv
<1>1. ASSUME NothingFree PROVE IInv'
  <2>1. SolverTypeOK'
    BY <1>1 DEF NothingFree, problem, position, normals, counters, SolverTypeOK, Reasons
  <2>2. Coherent'
    BY <1>1 DEF NothingFree, problem, position, normals, counters, Coherent, Unevaluated
  <2>3. LoopOpen'
    BY <1>1 DEF NothingFree, problem, position, normals, counters, LoopOpen
  <2>4. Counted'
    BY <1>1 DEF NothingFree, problem, position, normals, counters, Counted, Flat
  <2>5. Unevaluated'
    BY <1>1 DEF NothingFree, problem, position, normals, counters, Unevaluated
  <2>6. StopsEarned'
    BY <1>1 DEF NothingFree, problem, position, normals, counters, StopsEarned, Flat, Stationary
  <2> QED BY <2>1, <2>2, <2>3, <2>4, <2>5, <2>6
<1>2. ASSUME FirstEvaluation PROVE IInv'
  <2>a. land.chi2[x] \in Nat \cup {NaN}
    BY LandType DEF SolverTypeOK
  <2>1. SolverTypeOK'
    BY <1>2, <2>a DEF FirstEvaluation, problem, normals, counters, SolverTypeOK, Reasons
  <2>2. Coherent'
    BY <1>2, <2>a DEF FirstEvaluation, problem, normals, counters, Coherent, LoopOpen
  <2>3. LoopOpen'
    BY <1>2, <2>a DEF FirstEvaluation, problem, normals, counters, LoopOpen
  <2>4. Counted'
    BY <1>2, <2>a DEF FirstEvaluation, problem, normals, counters, LoopOpen, Counted, Flat
  <2>5. Unevaluated'
    BY <1>2, <2>a DEF FirstEvaluation, problem, normals, counters, Unevaluated
  <2>6. StopsEarned'
    BY <1>2, <2>a DEF FirstEvaluation, problem, normals, counters, StopsEarned, Flat, Stationary
  <2> QED BY <2>1, <2>2, <2>3, <2>4, <2>5, <2>6
<1>3. ASSUME Exhausted PROVE IInv'
  <2>1. SolverTypeOK'
    BY <1>3 DEF Exhausted, Finish, problem, position, normals, counters, SolverTypeOK, Reasons
  <2>2. Coherent'
    BY <1>3 DEF Exhausted, Finish, problem, position, normals, counters, Coherent, Counted
  <2>3. LoopOpen'
    BY <1>3 DEF Exhausted, Finish, problem, position, normals, counters, LoopOpen
  <2>4. Counted'
    BY <1>3 DEF Exhausted, Finish, problem, position, normals, counters, Counted, Flat
  <2>5. Unevaluated'
    BY <1>3 DEF Exhausted, Finish, problem, position, normals, counters, Unevaluated
  <2>6. StopsEarned'
    BY <1>3 DEF Exhausted, Finish, problem, position, normals, counters, StopsEarned, Flat, Stationary
  <2> QED BY <2>1, <2>2, <2>3, <2>4, <2>5, <2>6
<1>4. ASSUME Cancelled PROVE IInv'
  <2>a. state = "loop" /\ iterations' \in 0..MaxIterations
    BY <1>4 DEF Cancelled, Iterate, SolverTypeOK
  <2>1. SolverTypeOK'
    BY <1>4, <2>a DEF Cancelled, Iterate, Finish, problem, position, normals, counters, SolverTypeOK, Reasons
  <2>2. Coherent'
    BY <1>4, <2>a DEF Cancelled, Iterate, Finish, problem, position, normals, counters, Coherent, Counted
  <2>3. LoopOpen'
    BY <1>4, <2>a DEF Cancelled, Iterate, Finish, problem, position, normals, counters, LoopOpen
  <2>4. Counted'
    BY <1>4, <2>a DEF Cancelled, Iterate, Finish, problem, position, normals, counters, Counted, Flat
  <2>5. Unevaluated'
    BY <1>4, <2>a DEF Cancelled, Iterate, Finish, problem, position, normals, counters, Unevaluated
  <2>6. StopsEarned'
    BY <1>4, <2>a DEF Cancelled, Iterate, Finish, problem, position, normals, counters, StopsEarned, Flat, Stationary
  <2> QED BY <2>1, <2>2, <2>3, <2>4, <2>5, <2>6
<1>5. ASSUME GradientStop PROVE IInv'
  <2>a. state = "loop" /\ mask # {} /\ iterations' \in 0..MaxIterations /\ normal' = <<x, x>>
         /\ normal' \in Point \X Point /\ stale' = FALSE /\ resid = x /\ jacobian = x
         /\ chi2 = land.chi2[x] /\ why = "none"
    BY <1>5, RebuildFacts DEF GradientStop
  <2>b. GradientSmall => Stationary \/ chi2 = 0 \/ (chi2 = NaN /\ trail = <<>>)
    BY <2>a, EquationsCurrent DEF GradientSmall, Stationary, Active, Counted
  <2>1. SolverTypeOK'
    BY <1>5, <2>a, <2>b DEF GradientStop, Finish, problem, position, counters, SolverTypeOK, Reasons
  <2>2. Coherent'
    BY <1>5, <2>a, <2>b DEF GradientStop, Finish, problem, position, counters, Coherent
  <2>3. LoopOpen'
    BY <1>5, <2>a, <2>b DEF GradientStop, Finish, problem, position, counters, LoopOpen
  <2>4. Counted'
    BY <1>5, <2>a, <2>b DEF GradientStop, Finish, problem, position, counters, Counted, Flat
  <2>5. Unevaluated'
    BY <1>5, <2>a, <2>b DEF GradientStop, Finish, problem, position, counters, Unevaluated
  <2>6. StopsEarned'
    BY <1>5, <2>a, <2>b DEF GradientStop, Finish, problem, position, counters, StopsEarned, Flat, Stationary
  <2> QED BY <2>1, <2>2, <2>3, <2>4, <2>5, <2>6
<1>6. ASSUME NumericStop PROVE IInv'
  <2>a. state = "loop" /\ mask # {} /\ iterations' \in 0..MaxIterations /\ normal' = <<x, x>>
         /\ normal' \in Point \X Point /\ stale' = FALSE /\ resid = x /\ jacobian = x
         /\ chi2 = land.chi2[x] /\ why = "none"
    BY <1>6, RebuildFacts DEF NumericStop, Stays
  <2>1. SolverTypeOK'
    BY <1>6, <2>a DEF NumericStop, Stays, Finish, GoOn, problem, position, counters, SolverTypeOK, Reasons
  <2>2. Coherent'
    BY <1>6, <2>a DEF NumericStop, Stays, Finish, GoOn, problem, position, counters, Coherent
  <2>3. LoopOpen'
    BY <1>6, <2>a DEF NumericStop, Stays, Finish, GoOn, problem, position, counters, LoopOpen
  <2>4. Counted'
    BY <1>6, <2>a DEF NumericStop, Stays, Finish, GoOn, problem, position, counters, Counted, Flat
  <2>5. Unevaluated'
    BY <1>6, <2>a DEF NumericStop, Stays, Finish, GoOn, problem, position, counters, Unevaluated
  <2>6. StopsEarned'
    BY <1>6, <2>a DEF NumericStop, Stays, Finish, GoOn, problem, position, counters, StopsEarned, Flat, Stationary
  <2> QED BY <2>1, <2>2, <2>3, <2>4, <2>5, <2>6
<1>7. ASSUME BackOff PROVE IInv'
  <2>a. state = "loop" /\ mask # {} /\ iterations' \in 0..MaxIterations /\ normal' = <<x, x>>
         /\ normal' \in Point \X Point /\ stale' = FALSE /\ resid = x /\ jacobian = x
         /\ chi2 = land.chi2[x] /\ why = "none"
    BY <1>7, RebuildFacts DEF BackOff, Stays
  <2>1. SolverTypeOK'
    <3>1. backoffs' \in 0..MaxBackoffs
      BY <1>7 DEF BackOff, SolverTypeOK
    <3> QED BY <1>7, <2>a, <3>1 DEF BackOff, Stays, GoOn, problem, position, SolverTypeOK
  <2>2. Coherent'
    BY <1>7, <2>a DEF BackOff, Stays, Finish, GoOn, problem, position, counters, Coherent
  <2>3. LoopOpen'
    BY <1>7, <2>a DEF BackOff, Stays, Finish, GoOn, problem, position, counters, LoopOpen
  <2>4. Counted'
    BY <1>7, <2>a DEF BackOff, Stays, Finish, GoOn, problem, position, counters, Counted, Flat
  <2>5. Unevaluated'
    BY <1>7, <2>a DEF BackOff, Stays, Finish, GoOn, problem, position, counters, Unevaluated
  <2>6. StopsEarned'
    BY <1>7, <2>a DEF BackOff, Stays, Finish, GoOn, problem, position, counters, StopsEarned, Flat, Stationary
  <2> QED BY <2>1, <2>2, <2>3, <2>4, <2>5, <2>6
<1>8. ASSUME StepStop PROVE IInv'
  <2>a. state = "loop" /\ mask # {} /\ iterations' \in 0..MaxIterations /\ normal' = <<x, x>>
         /\ normal' \in Point \X Point /\ stale' = FALSE /\ resid = x /\ jacobian = x
         /\ chi2 = land.chi2[x] /\ why = "none"
    BY <1>8, RebuildFacts DEF StepStop, Stays
  <2>1. SolverTypeOK'
    BY <1>8, <2>a DEF StepStop, Stays, Finish, GoOn, problem, position, counters, SolverTypeOK, Reasons
  <2>2. Coherent'
    BY <1>8, <2>a DEF StepStop, Stays, Finish, GoOn, problem, position, counters, Coherent
  <2>3. LoopOpen'
    BY <1>8, <2>a DEF StepStop, Stays, Finish, GoOn, problem, position, counters, LoopOpen
  <2>4. Counted'
    BY <1>8, <2>a DEF StepStop, Stays, Finish, GoOn, problem, position, counters, Counted, Flat
  <2>5. Unevaluated'
    BY <1>8, <2>a DEF StepStop, Stays, Finish, GoOn, problem, position, counters, Unevaluated
  <2>6. StopsEarned'
    BY <1>8, <2>a DEF StepStop, Stays, Finish, problem, counters, StopsEarned, Counted
  <2> QED BY <2>1, <2>2, <2>3, <2>4, <2>5, <2>6
<1>10. ASSUME NEW y \in Point, Reject(y) PROVE IInv'
  <2>a. state = "loop" /\ mask # {} /\ iterations' \in 0..MaxIterations /\ normal' = <<x, x>>
         /\ normal' \in Point \X Point /\ stale' = FALSE /\ resid = x /\ jacobian = x
         /\ chi2 = land.chi2[x] /\ why = "none"
    BY <1>10, RebuildFacts DEF Reject, Stays
  <2>1. SolverTypeOK'
    <3>1. rejects' \in 0..MaxRejects
      BY <1>10, <2>a DEF Reject, SolverTypeOK, LoopOpen
    <3>2. state' \in {"loop", "done"} /\ converged' \in BOOLEAN /\ why' \in Reasons
          /\ final' \in Nat \cup {NaN} /\ errors' \in Point \X Point
      BY <1>10, <2>a DEF Reject, Stays, Finish, GoOn, position, SolverTypeOK, Reasons
    <3> QED BY <1>10, <2>a, <3>1, <3>2 DEF Reject, Stays, problem, position, SolverTypeOK
  <2>2. Coherent'
    BY <1>10, <2>a DEF Reject, Stays, Finish, GoOn, problem, position, Coherent
  <2>3. LoopOpen'
    BY <1>10, <2>a DEF Reject, Stays, Finish, GoOn, problem, position, LoopOpen
  <2>4. Counted'
    BY <1>10, <2>a DEF Reject, Stays, Finish, GoOn, problem, position, Counted, Flat
  <2>5. Unevaluated'
    BY <1>10, <2>a DEF Reject, Stays, Finish, GoOn, problem, position, Unevaluated
  <2>6. StopsEarned'
    <3>1. rejects' >= MaxRejects => rejects' = MaxRejects
      BY <1>10, <2>a DEF Reject, SolverTypeOK, LoopOpen
    <3> QED BY <1>10, <2>a, <3>1 DEF Reject, Stays, Finish, GoOn, problem, position, StopsEarned, Counted
  <2> QED BY <2>1, <2>2, <2>3, <2>4, <2>5, <2>6
<1>11. ASSUME NEW y \in Point, AcceptFlat(y) PROVE IInv'
  <2>a. state = "loop" /\ x' \in Point /\ resid' = x' /\ jacobian' = x' /\ chi2' = land.chi2[x'] /\ chi2' \in Nat
         /\ Gain(y) \in Nat /\ normal' = <<x, x>> /\ stale' = TRUE
         /\ trail' \in Seq([gain : Nat, small : BOOLEAN]) /\ Len(trail') = Len(trail) + 1
         /\ trail'[Len(trail')] = [gain |-> Gain(y), small |-> TRUE]
         /\ (\A i \in 1..Len(trail) : trail'[i] = trail[i]) /\ trail' # <<>>
    BY <1>11, MoveFacts DEF AcceptFlat
  <2>b. land' = land /\ mask' = mask /\ mask # {} /\ iterations' \in 0..MaxIterations /\ rejects' = 0 /\ moved' = TRUE
         /\ backoffs' = backoffs /\ aborted' = aborted /\ why = "none" /\ Len(trail) \in Nat
         /\ <<x', x'>> \in Point \X Point /\ <<x, x>> \in Point \X Point
    BY <1>11, MoveFacts DEF AcceptFlat
  <2>c. flat' = flat + 1 /\ flat' <= Len(trail') /\ \A i \in Len(trail') - flat' + 1 .. Len(trail') : Flat(i)'
    <3>1. flat \in Nat /\ flat' = flat + 1 /\ flat <= Len(trail) /\ Gain(y) < AbsTol
          /\ \A i \in Len(trail) - flat + 1 .. Len(trail) : Flat(i)
      BY <1>11, <2>a DEF AcceptFlat, SolverTypeOK, Counted
    <3>2. \A i \in Len(trail') - flat' + 1 .. Len(trail') : i \in Len(trail) - flat + 1 .. Len(trail) \/ i = Len(trail')
      BY <2>a, <2>b, <3>1
    <3>3. \A i \in Len(trail) - flat + 1 .. Len(trail) : trail'[i] = trail[i]
      <4>1. \A i \in Len(trail) - flat + 1 .. Len(trail) : i \in 1..Len(trail)
        BY <2>b, <3>1
      <4> QED BY <2>a, <4>1
    <3>4. ASSUME NEW i \in Len(trail') - flat' + 1 .. Len(trail') PROVE Flat(i)'
      <4>1. CASE i \in Len(trail) - flat + 1 .. Len(trail)
        BY <3>1, <3>3, <4>1 DEF Flat
      <4>2. CASE i = Len(trail')
        BY <2>a, <3>1, <4>2 DEF Flat
      <4> QED BY <3>2, <4>1, <4>2
    <3> QED BY <2>a, <2>b, <3>1, <3>4
  <2>1. SolverTypeOK'
    <3>1. flat' \in 0..FlatSteps
      BY <1>11, <2>a DEF AcceptFlat, SolverTypeOK, LoopOpen
    <3>2. state' \in {"loop", "done"} /\ converged' \in BOOLEAN /\ why' \in Reasons
          /\ final' \in Nat \cup {NaN} /\ errors' \in Point \X Point
      BY <1>11, <2>a, <2>b DEF AcceptFlat, Finish, GoOn, SolverTypeOK, Reasons
    <3>3. normal' \in Point \X Point /\ lastGain' \in Nat \cup {NaN}
      BY <1>11, <2>a DEF AcceptFlat, SolverTypeOK
    <3> QED BY <2>a, <2>b, <3>1, <3>2, <3>3 DEF SolverTypeOK
  <2>2. Coherent'
    BY <1>11, <2>a, <2>b DEF AcceptFlat, Finish, GoOn, Coherent
  <2>3. LoopOpen'
    BY <1>11, <2>a, <2>b DEF AcceptFlat, Finish, GoOn, LoopOpen
  <2>4. Counted'
    <3>1. chi2' # NaN
      BY <2>a
    <3>2. state' \in {"entry", "loop"} => why' = why /\ converged' = converged
      BY <1>11, <2>a DEF AcceptFlat, Finish, GoOn
    <3>3. lastGain' = trail'[Len(trail')].gain
      BY <1>11, <2>a DEF AcceptFlat
    <3>4. ~converged
      BY <2>a DEF Counted
    <3> QED BY <2>a, <2>b, <2>c, <3>1, <3>2, <3>3, <3>4 DEF Counted
  <2>5. Unevaluated'
    BY <1>11, <2>a, <2>b DEF AcceptFlat, Finish, GoOn, Unevaluated
  <2>6. StopsEarned'
    <3>1. flat' >= FlatSteps => flat' = FlatSteps
      BY <1>11, <2>a, <2>c DEF SolverTypeOK, LoopOpen
    <3> QED BY <1>11, <2>a, <2>b, <2>c, <3>1 DEF AcceptFlat, Finish, GoOn, StopsEarned
  <2> QED BY <2>1, <2>2, <2>3, <2>4, <2>5, <2>6
<1>12. ASSUME NEW y \in Point, NEW small \in BOOLEAN, AcceptLast(y, small) PROVE IInv'
  <2>a. state = "loop" /\ x' \in Point /\ resid' = x' /\ jacobian' = x' /\ chi2' = land.chi2[x'] /\ chi2' \in Nat
         /\ Gain(y) \in Nat /\ normal' = <<x, x>> /\ stale' = TRUE
         /\ trail' \in Seq([gain : Nat, small : BOOLEAN]) /\ Len(trail') = Len(trail) + 1
         /\ trail'[Len(trail')] = [gain |-> Gain(y), small |-> small]
         /\ (\A i \in 1..Len(trail) : trail'[i] = trail[i]) /\ trail' # <<>>
    BY <1>12, MoveFacts DEF AcceptLast
  <2>b. land' = land /\ mask' = mask /\ mask # {} /\ iterations' \in 0..MaxIterations /\ rejects' = 0 /\ moved' = TRUE
         /\ backoffs' = backoffs /\ aborted' = aborted /\ why = "none" /\ Len(trail) \in Nat
         /\ <<x', x'>> \in Point \X Point /\ <<x, x>> \in Point \X Point
    BY <1>12, MoveFacts DEF AcceptLast
  <2>1. SolverTypeOK'
    BY <1>12, <2>a, <2>b DEF AcceptLast, Finish, GoOn, SolverTypeOK, Reasons
  <2>2. Coherent'
    BY <1>12, <2>a, <2>b DEF AcceptLast, Finish, GoOn, Coherent
  <2>3. LoopOpen'
    BY <1>12, <2>a, <2>b DEF AcceptLast, Finish, GoOn, LoopOpen
  <2>4. Counted'
    BY <1>12, <2>a, <2>b DEF AcceptLast, Finish, GoOn, Counted, Flat
  <2>5. Unevaluated'
    BY <1>12, <2>a, <2>b DEF AcceptLast, Finish, GoOn, Unevaluated
  <2>6. StopsEarned'
    BY <1>12, <2>a, <2>b DEF AcceptLast, Finish, GoOn, StopsEarned, Flat, Stationary
  <2> QED BY <2>1, <2>2, <2>3, <2>4, <2>5, <2>6
<1>13. ASSUME NEW y \in Point, NEW small \in BOOLEAN, Accept(y, small) PROVE IInv'
  <2>a. state = "loop" /\ x' \in Point /\ resid' = x' /\ jacobian' = x' /\ chi2' = land.chi2[x'] /\ chi2' \in Nat
         /\ Gain(y) \in Nat /\ normal' = <<x, x>> /\ stale' = TRUE
         /\ trail' \in Seq([gain : Nat, small : BOOLEAN]) /\ Len(trail') = Len(trail) + 1
         /\ trail'[Len(trail')] = [gain |-> Gain(y), small |-> small]
         /\ (\A i \in 1..Len(trail) : trail'[i] = trail[i]) /\ trail' # <<>>
    BY <1>13, MoveFacts DEF Accept
  <2>b. land' = land /\ mask' = mask /\ mask # {} /\ iterations' \in 0..MaxIterations /\ rejects' = 0 /\ moved' = TRUE
         /\ backoffs' = backoffs /\ aborted' = aborted /\ why = "none" /\ Len(trail) \in Nat
         /\ <<x', x'>> \in Point \X Point /\ <<x, x>> \in Point \X Point
    BY <1>13, MoveFacts DEF Accept
  <2>1. SolverTypeOK'
    BY <1>13, <2>a, <2>b DEF Accept, Finish, GoOn, SolverTypeOK, Reasons
  <2>2. Coherent'
    BY <1>13, <2>a, <2>b DEF Accept, Finish, GoOn, Coherent
  <2>3. LoopOpen'
    BY <1>13, <2>a, <2>b DEF Accept, Finish, GoOn, LoopOpen
  <2>4. Counted'
    BY <1>13, <2>a, <2>b DEF Accept, Finish, GoOn, Counted, Flat
  <2>5. Unevaluated'
    BY <1>13, <2>a, <2>b DEF Accept, Finish, GoOn, Unevaluated
  <2>6. StopsEarned'
    BY <1>13, <2>a, <2>b DEF Accept, Finish, GoOn, StopsEarned, Flat, Stationary
  <2> QED BY <2>1, <2>2, <2>3, <2>4, <2>5, <2>6
<1>9. ASSUME ThrowOnEntry PROVE IInv'
  <2>1. SolverTypeOK'
    BY <1>9 DEF ThrowOnEntry, problem, position, normals, counters, SolverTypeOK
  <2> QED BY <1>9, <2>1 DEF ThrowOnEntry, problem, position, normals, counters,
                            Coherent, LoopOpen, Counted, Unevaluated, StopsEarned
<1>15. ASSUME ThrowAtCandidate PROVE IInv'
  <2>a. state = "loop" /\ mask # {} /\ iterations' \in 0..MaxIterations
        /\ normal' \in Point \X Point /\ stale' = FALSE
    BY <1>15, RebuildFacts DEF ThrowAtCandidate, Stays
  <2>1. SolverTypeOK'
    BY <1>15, <2>a DEF ThrowAtCandidate, Stays, problem, position, counters, SolverTypeOK
  <2> QED BY <1>15, <2>a, <2>1 DEF ThrowAtCandidate, Stays, problem,
                            Coherent, LoopOpen, Counted, Unevaluated, StopsEarned
<1>16. ASSUME NEW y \in Point, ThrowAtJacobian(y) PROVE IInv'
  <2>a. state = "loop" /\ mask # {} /\ iterations' \in 0..MaxIterations
        /\ normal' \in Point \X Point /\ stale' = FALSE
    BY <1>16, RebuildFacts DEF ThrowAtJacobian
  <2>b. land.chi2[y] \in Nat
    BY <1>16, <2>a, GainType DEF ThrowAtJacobian
  <2>1. SolverTypeOK'
    <3>1. land' \in Landscapes /\ mask' \in SUBSET Param /\ x' \in Point /\ resid' \in Point
          /\ jacobian' \in Point /\ chi2' \in Nat \cup {NaN}
      BY <1>16, <2>b DEF ThrowAtJacobian, problem, SolverTypeOK
    <3>2. rejects' \in 0..MaxRejects /\ flat' \in 0..FlatSteps /\ lastGain' \in Nat \cup {NaN}
          /\ moved' \in BOOLEAN /\ backoffs' \in 0..MaxBackoffs
      BY <1>16 DEF ThrowAtJacobian, SolverTypeOK
    <3>3. state' \in {"entry", "loop", "done", "thrown"} /\ converged' \in BOOLEAN
          /\ aborted' \in BOOLEAN /\ final' \in Nat \cup {NaN}
          /\ errors' \in Point \X Point /\ why' \in Reasons
          /\ trail' \in Seq([gain : Nat, small : BOOLEAN])
      BY <1>16 DEF ThrowAtJacobian, SolverTypeOK
    <3> QED BY <2>a, <3>1, <3>2, <3>3 DEF SolverTypeOK
  <2>2. state' = "thrown" /\ mask' # {}
    BY <1>16, <2>a DEF ThrowAtJacobian, problem
  <2> QED BY <2>1, <2>2 DEF Coherent, LoopOpen, Counted, Unevaluated, StopsEarned
<1>14. ASSUME UNCHANGED solverVars PROVE IInv'
  <2>1. SolverTypeOK'
    <3>1. /\ land' = land /\ mask' = mask /\ x' = x /\ resid' = resid /\ jacobian' = jacobian
          /\ chi2' = chi2 /\ normal' = normal /\ stale' = stale /\ iterations' = iterations
          /\ rejects' = rejects /\ flat' = flat /\ lastGain' = lastGain /\ moved' = moved
          /\ backoffs' = backoffs /\ state' = state /\ converged' = converged /\ aborted' = aborted
          /\ final' = final /\ errors' = errors /\ why' = why /\ trail' = trail
      BY <1>14 DEF solverVars, result, problem, position, normals, counters
    <3> QED BY <3>1 DEF SolverTypeOK
  <2>2. Coherent'
    BY <1>14 DEF solverVars, result, problem, position, normals, counters, Coherent
  <2>3. LoopOpen'
    BY <1>14 DEF solverVars, result, problem, position, normals, counters, LoopOpen
  <2>4. Counted'
    BY <1>14 DEF solverVars, result, problem, position, normals, counters, Counted, Flat
  <2>5. Unevaluated'
    BY <1>14 DEF solverVars, result, problem, position, normals, counters, Unevaluated
  <2>6. StopsEarned'
    BY <1>14 DEF solverVars, result, problem, position, normals, counters, StopsEarned, Flat, Stationary
  <2> QED BY <2>1, <2>2, <2>3, <2>4, <2>5, <2>6
<1> QED
  BY <1>1, <1>2, <1>3, <1>4, <1>5, <1>6, <1>7, <1>8, <1>9, <1>10, <1>11, <1>12, <1>13,
     <1>14, <1>15, <1>16 DEF SolverNext

\* What the call works on and what it reports belong to one point.
THEOREM SolverCoherent == SolverSpec => []Coherent
<1>1. IInv => Coherent
  BY DEF IInv
<1> QED BY <1>1, InitIInv, NextIInv, PTL DEF SolverSpec

\* Convergence is claimed only as the tests of the loop allow, for every landscape
\* and every limit; the two runs that refute the header say where it asks for more.
THEOREM SolverStopsEarned == SolverSpec => []StopsEarned
<1>1. IInv => StopsEarned
  BY DEF IInv
<1> QED BY <1>1, InitIInv, NextIInv, PTL DEF SolverSpec

\* Where a step may lead: frozen and pressed parameters stay.
LEMMA ReachHolds ==
    ASSUME IInv, state = "loop", NEW y \in Targets, NEW j \in Param,
           \/ j \notin mask
           \/ x[j] = 0 /\ land.slope[x][j] = 1
           \/ x[j] = Steps /\ land.slope[x][j] = -1
    PROVE  y[j] = x[j]
BY EquationsCurrent DEF Targets, Active

\* A step only moves parameters that are free and not pressed against a bound.
THEOREM SolverHolds == SolverSpec => HeldParameters
<1> DEFINE Held == \A j \in Param :
                     \/ j \notin mask
                     \/ x[j] = 0 /\ land.slope[x][j] = 1
                     \/ x[j] = Steps /\ land.slope[x][j] = -1
                     => x'[j] = x[j]
<1>1. IInv /\ [SolverNext]_solverVars => Held
  <2> SUFFICES ASSUME IInv, [SolverNext]_solverVars PROVE Held
    OBVIOUS
  <2>1. x' = x \/ (state = "loop" /\ x' \in Targets)
    BY DEF SolverNext, solverVars, position, NothingFree, FirstEvaluation, Exhausted, Cancelled, GradientStop,
           NumericStop, BackOff, StepStop, ThrowOnEntry, ThrowAtCandidate, ThrowAtJacobian,
           Reject, AcceptFlat, AcceptLast, Accept, Move, Stays, Iterate
  <2> QED BY <2>1, ReachHolds
<1>2. IInv /\ [SolverNext]_solverVars => [Held]_solverVars
  BY <1>1
<1> QED BY <1>2, InitIInv, NextIInv, PTL DEF SolverSpec, HeldParameters

\* In the loop the chi2 the solver compares with is the one of x, so a step it
\* accepts is one the contract allows.
LEMMA BetterIsBetter ==
    ASSUME IInv, state = "loop", ~GradientSmall, NEW y \in Targets, Better(y)
    PROVE  Contract!Better(y) /\ y \in Contract!Point /\ \A j \in Param \ mask : y[j] = x[j]
<1>1. y \in Point
  BY DEF Targets
<1>2. chi2 \in Nat /\ land.chi2[y] \in Nat /\ chi2 = land.chi2[x]
  BY <1>1, GainType DEF IInv, Coherent, Counted
<1>3. \A j \in Param \ mask : y[j] = x[j]
  BY DEF Targets
<1>4. y \in Contract!Point
  BY <1>1 DEF Point, Contract!Point
<1>5. Contract!Better(y)
  BY <1>2 DEF Better, Contract!Better
<1> QED BY <1>3, <1>4, <1>5

LEMMA MovesInContract == IInv /\ [SolverNext]_solverVars => Contract!Moves
<1> SUFFICES ASSUME IInv, [SolverNext]_solverVars PROVE Contract!Moves
  OBVIOUS
<1>1. x' = x \/ (state = "loop" /\ ~GradientSmall /\ x' \in Targets /\ Better(x'))
  BY DEF SolverNext, solverVars, position, NothingFree, FirstEvaluation, Exhausted, Cancelled, GradientStop,
         NumericStop, BackOff, StepStop, ThrowOnEntry, ThrowAtCandidate, ThrowAtJacobian,
         Reject, AcceptFlat, AcceptLast, Accept, Move, Stays, Iterate
<1>2. CASE x' = x
  BY <1>2 DEF Contract!Moves
<1>3. CASE state = "loop" /\ ~GradientSmall /\ x' \in Targets /\ Better(x')
  BY <1>3, BetterIsBetter DEF Contract!Moves
<1> QED BY <1>1, <1>2, <1>3

\* When the call ends, and what it has reported by then.
LEMMA ReportsFacts ==
    ASSUME IInv, SolverNext
    PROVE  /\ state \in {"entry", "loop"} /\ state' \in {"entry", "loop", "done", "thrown"}
           /\ land' = land /\ mask' = mask
           /\ state' # "done" => final' = final /\ errors' = errors
           /\ state' = "done" => \/ mask = {} /\ x' = x /\ final' = final /\ errors' = errors
                                 \/ mask # {} /\ final' = chi2' /\ errors' = <<jacobian', resid'>>
<1> USE DEF problem, position, Finish, GoOn, Stays, Iterate, IInv, LoopOpen
<1>1. CASE NothingFree \/ FirstEvaluation \/ ThrowOnEntry
  BY <1>1 DEF NothingFree, FirstEvaluation, ThrowOnEntry
<1>2. CASE Exhausted \/ Cancelled \/ GradientStop \/ NumericStop
  BY <1>2 DEF Exhausted, Cancelled, GradientStop, NumericStop
<1>3. CASE BackOff \/ StepStop \/ ThrowAtCandidate
  BY <1>3 DEF BackOff, StepStop, ThrowAtCandidate
<1>4. CASE \E y \in Point : Reject(y) \/ ThrowAtJacobian(y)
  BY <1>4 DEF Reject, ThrowAtJacobian
<1>5. CASE \E y \in Point : AcceptFlat(y)
  BY <1>5 DEF AcceptFlat, Move
<1>6. CASE \E y \in Point, small \in BOOLEAN : AcceptLast(y, small) \/ Accept(y, small)
  BY <1>6 DEF AcceptLast, Accept, Move
<1> QED BY <1>1, <1>2, <1>3, <1>4, <1>5, <1>6 DEF SolverNext

\* Every step of the solver is one of the contract, or none.
LEMMA StepDescends == IInv /\ IInv' /\ [SolverNext]_solverVars => [Contract!Next]_(Contract!vars)
<1> SUFFICES ASSUME IInv, IInv', [SolverNext]_solverVars PROVE Contract!Next \/ UNCHANGED Contract!vars
  OBVIOUS
<1>1. CASE UNCHANGED solverVars
  BY <1>1 DEF solverVars, problem, position, result, Contract!vars
<1>2. CASE SolverNext
  <2>1. Contract!Moves
    BY MovesInContract
  <2>2. /\ state \in {"entry", "loop"} /\ state' \in {"entry", "loop", "done", "thrown"}
        /\ land' = land /\ mask' = mask
        /\ state' # "done" => final' = final /\ errors' = errors
        /\ state' = "done" => \/ mask = {} /\ x' = x /\ final' = final /\ errors' = errors
                              \/ mask # {} /\ final' = chi2' /\ errors' = <<jacobian', resid'>>
    BY <1>2, ReportsFacts
  <2>3. CASE state' \in {"entry", "loop"}
    BY <2>1, <2>2, <2>3 DEF Contract!Next, Contract!Descend
  <2>4. CASE state' = "thrown"
    BY <2>1, <2>2, <2>4 DEF Contract!Next, Contract!Fail
  <2>5. CASE state' = "done" /\ mask = {}
    BY <2>1, <2>2, <2>5 DEF Contract!Next, Contract!Report
  <2>6. CASE state' = "done" /\ mask # {}
    <3>1. why' # "nothing free"
      BY <1>2, <2>2, <2>6 DEF SolverNext, NothingFree, FirstEvaluation, Exhausted, Cancelled, GradientStop,
         NumericStop, BackOff, StepStop, ThrowOnEntry, ThrowAtCandidate, ThrowAtJacobian,
         Reject, AcceptFlat, AcceptLast, Accept, Finish, GoOn
    <3>2. resid' = x' /\ jacobian' = x' /\ chi2' = land'.chi2[x']
      BY <2>6, <3>1 DEF IInv, Coherent
    <3>3. final' = land.chi2[x'] /\ errors' = <<x', x'>>
      BY <2>2, <2>6, <3>2
    <3> QED BY <2>1, <2>2, <2>6, <3>3 DEF Contract!Next, Contract!Report
  <2> QED BY <2>2, <2>3, <2>4, <2>5, <2>6
<1> QED BY <1>1, <1>2

\* The solver is a descent that reports the point it leaves, however it ends.
THEOREM SolverImplementsDescent == SolverSpec => ImplementsDescent
<1>1. SolverInit => Contract!Init
  BY DEF SolverInit, Contract!Init, Point, Contract!Point
<1> QED BY <1>1, StepDescends, InitIInv, NextIInv, PTL DEF SolverSpec, ImplementsDescent, Contract!Spec

\* Every variable keeps its type, and no counter passes its limit.
THEOREM SolverType == SolverSpec => []SolverTypeOK
<1>1. IInv => SolverTypeOK
  BY DEF IInv
<1> QED BY <1>1, InitIInv, NextIInv, PTL DEF SolverSpec
=============================================================================
