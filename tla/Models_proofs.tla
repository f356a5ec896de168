---------------------------- MODULE Models_proofs ---------------------------
(***************************************************************************)
(* Where models come from and what is done to them.  Missing model files,  *)
(* for every grid, cell, file tree, number of threads and number of fits:  *)
(* what a grid takes for a hole and how it bridges it (GridHoles), and     *)
(* what a fit is told of the holes under models it did not build           *)
(* (ModelCache).  The scans by which spectra are broadened, multiplied,    *)
(* rebinned and splined, for every ascending grid, every output grid and   *)
(* every rotation (Scans).                                                 *)
(***************************************************************************)
EXTENDS GridHoles, ModelCache, Scans, Collections, TLAPS

-----------------------------------------------------------------------------
(* GridHoles: what is taken for a hole.                                    *)

PerThread(v) == v = [t \in Thread |-> v[t]]

\* What a thread's next steps are read from is kept per thread.
Shapes ==
    /\ file \in [Node -> File]
    /\ PerThread(pc) /\ PerThread(plan) /\ PerThread(todo)
    /\ PerThread(axis) /\ PerThread(up)

\* A thread about to put a node on record as a hole has found it gone, whatever
\* happened since: files go and do not come back.
FoundGone ==
    \A t \in Thread :
        /\ pc[t] = "lost" => Neighbour(t) \notin There
        /\ pc[t] = "missing" => Head(plan[t]) \notin There

IInv == Shapes /\ FoundGone /\ HolesAreHoles

LEMMA InitIInv == Init => IInv
<1> SUFFICES ASSUME Init PROVE IInv
  OBVIOUS
<1>1. Shapes
  BY LayoutAssumption DEF Init, Shapes, PerThread
<1>2. FoundGone
  BY DEF Init, FoundGone
<1>3. HolesAreHoles
  BY DEF Init, HolesAreHoles
<1> QED BY <1>1, <1>2, <1>3 DEF IInv

\* A step of thread t which leaves the files and the other threads alone.
LEMMA OwnStep ==
    ASSUME IInv, NEW t \in Thread, NEW p,
           file' = file, absent' \cap There = {},
           pc' = [pc EXCEPT ![t] = p],
           PerThread(plan)', PerThread(todo)', PerThread(axis)', PerThread(up)',
           \A u \in Thread : u # t => /\ plan'[u] = plan[u] /\ todo'[u] = todo[u]
                                      /\ axis'[u] = axis[u] /\ up'[u] = up[u],
           p = "lost" => Neighbour(t)' \notin There,
           p = "missing" => Head(plan'[t]) \notin There
    PROVE  IInv'
<1>0. There' = There
  BY DEF There
<1>1. Shapes'
  BY DEF IInv, Shapes, PerThread
<1>2. ASSUME NEW u \in Thread
      PROVE  /\ pc'[u] = "lost" => Neighbour(u)' \notin There
             /\ pc'[u] = "missing" => Head(plan'[u]) \notin There
  <2>1. CASE u = t
    BY <2>1 DEF IInv, Shapes, PerThread
  <2>2. CASE u # t
    <3>1. pc'[u] = pc[u] /\ plan'[u] = plan[u] /\ Neighbour(u)' = Neighbour(u)
      BY <2>2 DEF IInv, Shapes, PerThread, Neighbour
    <3> QED BY <3>1 DEF IInv, FoundGone
  <2> QED BY <2>1, <2>2
<1>3. FoundGone'
  BY <1>0, <1>2 DEF FoundGone
<1>4. HolesAreHoles'
  BY <1>0 DEF HolesAreHoles
<1> QED BY <1>1, <1>3, <1>4 DEF IInv

LEMMA Stays == IInv /\ UNCHANGED <<file, absent, pc, plan, todo, axis, up>> => IInv'
BY DEF IInv, Shapes, PerThread, FoundGone, HolesAreHoles, There, Neighbour

LEMMA NextIInv == IInv /\ [Next]_vars => IInv'
<1> SUFFICES ASSUME IInv, [Next]_vars PROVE IInv'
  OBVIOUS
<1> USE DEF disk, table, local
<1>0. Shapes /\ FoundGone /\ absent \cap There = {}
  BY DEF IInv, HolesAreHoles
<1>1. ASSUME NEW t \in Thread, NEW c \in Cells, Load(t, c) PROVE IInv'
  BY <1>0, <1>1, OwnStep DEF Load, Shapes
<1>2. ASSUME NEW t \in Thread, Plan(t) PROVE IInv'
  BY <1>0, <1>2, OwnStep DEF Plan, Shapes, PerThread
<1>3. ASSUME NEW t \in Thread, Skip(t) PROVE IInv'
  BY <1>0, <1>3, OwnStep DEF Skip, Shapes, PerThread
<1>4. ASSUME NEW t \in Thread, Lookup(t) PROVE IInv'
  BY <1>0, <1>4, OwnStep DEF Lookup, Apply, NextAxis, Shapes, PerThread
<1>5. ASSUME NEW t \in Thread, Look(t) PROVE IInv'
  BY <1>0, <1>5, OwnStep DEF Look, Answer, NextAxis, Shapes, PerThread
<1>6. ASSUME NEW t \in Thread, Probe(t) PROVE IInv'
  <2>1. CASE pc' = [pc EXCEPT ![t] = "lost"] /\ file[Neighbour(t)] = "gone" /\ UNCHANGED local
    BY <1>0, <1>6, <2>1, OwnStep DEF Probe, Shapes, There, Neighbour
  <2>2. CASE pc' = [pc EXCEPT ![t] = "found"] /\ UNCHANGED local
    BY <1>0, <1>6, <2>2, OwnStep DEF Probe, Shapes
  <2>3. CASE Finish(t, "failed")
    BY <1>0, <1>6, <2>3, OwnStep DEF Probe, Finish, Shapes, PerThread
  <2> QED BY <1>6, <2>1, <2>2, <2>3 DEF Probe
<1>7. ASSUME NEW t \in Thread, NoteLost(t) PROVE IInv'
  <2>1. absent' \cap There = {}
    BY <1>0, <1>7 DEF NoteLost, RegisterAbsent, FoundGone
  <2> QED BY <1>0, <1>7, <2>1, OwnStep DEF NoteLost, Answer, NextAxis, Shapes, PerThread
<1>8. ASSUME NEW t \in Thread, NoteFound(t) PROVE IInv'
  BY <1>0, <1>8, OwnStep DEF NoteFound, Answer, NextAxis, Shapes, PerThread
<1>9. ASSUME NEW t \in Thread, ChooseNone(t) PROVE IInv'
  BY <1>0, <1>9, OwnStep DEF ChooseNone, Finish, Shapes, PerThread
<1>10. ASSUME NEW t \in Thread, Choose(t) PROVE IInv'
  BY <1>0, <1>10, OwnStep DEF Choose, Apply, Shapes, PerThread
<1>11. ASSUME NEW t \in Thread, Fetch(t) PROVE IInv'
  <2>1. CASE UNCHANGED <<pc, todo, axis, up>> /\ plan' = [plan EXCEPT ![t] = Tail(@)]
    <3>1. pc' = [pc EXCEPT ![t] = "fetch"]
      BY <1>0, <1>11, <2>1 DEF Fetch, Shapes, PerThread
    <3> QED BY <1>0, <1>11, <2>1, <3>1, OwnStep DEF Fetch, Shapes, PerThread
  <2>2. CASE /\ pc' = [pc EXCEPT ![t] = "missing"] /\ NotThere(Head(plan[t]))
             /\ UNCHANGED <<plan, todo, axis, up>>
    BY <1>0, <1>11, <2>2, OwnStep DEF Fetch, NotThere, There, Shapes
  <2>3. CASE Finish(t, "failed")
    BY <1>0, <1>11, <2>3, OwnStep DEF Fetch, Finish, Shapes, PerThread
  <2> QED BY <1>11, <2>1, <2>2, <2>3 DEF Fetch
<1>12. ASSUME NEW t \in Thread, Missing(t) PROVE IInv'
  <2>1. absent' \cap There = {}
    BY <1>0, <1>12 DEF Missing, RegisterAbsent, FoundGone
  <2> QED BY <1>0, <1>12, <2>1, OwnStep DEF Missing, Shapes, PerThread
<1>13. ASSUME NEW t \in Thread, Complete(t) PROVE IInv'
  BY <1>0, <1>13, OwnStep DEF Complete, Finish, Shapes, PerThread
<1>14. ASSUME NEW n \in Node, Vanish(n) PROVE IInv'
  <2>1. file' \in [Node -> File] /\ There' \subseteq There
    BY <1>0, <1>14 DEF Vanish, Shapes, File, There
  <2>2. \A t \in Thread : Neighbour(t)' = Neighbour(t)
    BY <1>14 DEF Vanish, Neighbour
  <2> QED BY <1>0, <1>14, <2>1, <2>2 DEF Vanish, IInv, Shapes, PerThread, FoundGone, HolesAreHoles
<1>15. ASSUME NEW n \in Node, Evict(n) PROVE IInv'
  BY <1>15, Stays DEF Evict
<1>16. ASSUME UNCHANGED vars PROVE IInv'
  BY <1>16, Stays DEF vars
<1> QED
  BY <1>1, <1>2, <1>3, <1>4, <1>5, <1>6, <1>7, <1>8, <1>9, <1>10, <1>11, <1>12,
     <1>13, <1>14, <1>15, <1>16 DEF Next, Step

\* A file that is there but cannot be read is never on record as a hole,
\* whatever other threads probe and register, and whichever files vanish.
THEOREM NoOutageTurnsIntoAHole == Spec => []HolesAreHoles
<1>1. Init => IInv
  BY InitIInv
<1>2. IInv /\ [Next]_vars => IInv'
  BY NextIInv
<1>3. IInv => HolesAreHoles
  BY DEF IInv
<1> QED BY <1>1, <1>2, <1>3, PTL DEF Spec

-----------------------------------------------------------------------------
(* GridHoles: the rule for bridges.                                        *)

\* Multiplying both sides by a positive number keeps the order.
LEMMA Scaled ==
    ASSUME NEW x \in Int, NEW y \in Int, NEW c \in Int, c > 0
    PROVE  (x < y) <=> (x * c < y * c)
<1>1. ASSUME x < y PROVE x * c < y * c
  <2>1. (y - x) * c > 0
    BY <1>1, SMT
  <2>2. (y - x) * c = y * c - x * c
    BY SMT
  <2> QED BY <2>1, <2>2, SMT
<1>2. ASSUME ~(x < y) PROVE ~(x * c < y * c)
  <2>1. (x - y) * c >= 0
    BY <1>2, SMT
  <2>2. (x - y) * c = x * c - y * c
    BY SMT
  <2> QED BY <2>1, <2>2, SMT
<1> QED BY <1>1, <1>2

\* Fractions compared by cross-multiplying: u below v and v at most w.
LEMMA Fractions ==
    ASSUME NEW u \in Int, NEW v \in Int, NEW w \in Int,
           NEW e \in Int, NEW f \in Int, NEW g \in Int, e > 0, f > 0, g > 0,
           \/ u * f < v * e /\ ~(w * f < v * g)
           \/ ~(v * e < u * f) /\ v * g < w * f
    PROVE  u * g < w * e
<1> DEFINE uf == u * f  ve == v * e  vg == v * g  wf == w * f  ug == u * g  we == w * e
<1>1. /\ uf \in Int /\ ve \in Int /\ vg \in Int /\ wf \in Int /\ ug \in Int /\ we \in Int
  OBVIOUS
<1>2. ug * f = uf * g /\ ve * g = vg * e /\ wf * e = we * f
  BY SMT
<1>3. (uf < ve <=> uf * g < ve * g) /\ (ve < uf <=> ve * g < uf * g)
  BY <1>1, Scaled
<1>4. (wf < vg <=> wf * e < vg * e) /\ (vg < wf <=> vg * e < wf * e)
  BY <1>1, Scaled
<1>5. ug < we <=> ug * f < we * f
  BY <1>1, Scaled
<1>6. uf * g \in Int /\ ve * g \in Int /\ vg * e \in Int /\ wf * e \in Int /\ ug * f \in Int /\ we * f \in Int
  BY <1>1
<1>7. (uf < ve /\ ~(wf < vg)) \/ (~(ve < uf) /\ vg < wf)
  OBVIOUS
<1> HIDE DEF uf, ve, vg, wf, ug, we
<1>8. ug < we
  <2> DEFINE p == uf * g  q == ve * g  r == wf * e
  <2>1. p \in Int /\ q \in Int /\ r \in Int
    BY <1>6
  <2>2. ug * f = p /\ vg * e = q /\ we * f = r
    BY <1>2
  <2>3. /\ (uf < ve <=> p < q) /\ (ve < uf <=> q < p)
        /\ (wf < vg <=> r < q) /\ (vg < wf <=> q < r) /\ (ug < we <=> p < r)
    BY <1>3, <1>4, <1>5, <2>2
  <2> HIDE DEF p, q, r
  <2> QED BY <2>1, <2>3, <1>7
<1> QED BY <1>8 DEF ug, we

-----------------------------------------------------------------------------
(* Nodes.                                                                  *)

\* The axes are lists of numbers, and are numbered from 1.
LEMMA AxisTypes ==
    /\ Len(Axes) \in Nat /\ Axis = DOMAIN Axes /\ Axis \subseteq Nat \ {0}
    /\ \A a \in Axis : /\ Axes[a] \in Seq(Int) /\ Len(Axes[a]) \in Nat
                        /\ DOMAIN Axes[a] = 1..Len(Axes[a])
BY AxesAssumption DEF Axis

\* A node has a place on every axis.
LEMMA NodeTypes ==
    \A m \in Node : /\ DOMAIN m = Axis
                    /\ \A a \in Axis : m[a] \in 1..Len(Axes[a]) /\ m[a] \in Nat
BY AxisTypes DEF Node

\* What a bridge leans on are nodes of the grid.
LEMMA Neighbours ==
    ASSUME NEW m \in Node, NEW a \in Interior(m)
    PROVE  Below(m, a) \in Node /\ Above(m, a) \in Node
<1> DEFINE V == UNION {1..Len(Axes[b]) : b \in Axis}
<1>1. a \in Axis /\ 1 < m[a] /\ m[a] < Len(Axes[a])
  BY DEF Interior
<1>2. m \in [Axis -> V] /\ \A b \in Axis : m[b] \in 1..Len(Axes[b])
  BY DEF Node
<1>3. m[a] - 1 \in 1..Len(Axes[a]) /\ m[a] + 1 \in 1..Len(Axes[a])
  <2> DEFINE k == m[a]  n == Len(Axes[a])
  <2>1. k \in Nat /\ n \in Nat /\ 1 < k /\ k < n
    BY <1>1, NodeTypes, AxisTypes
  <2> HIDE DEF k, n
  <2>2. k - 1 \in 1..n /\ k + 1 \in 1..n
    BY <2>1
  <2> QED BY <2>2 DEF k, n
<1>4. \A x \in 1..Len(Axes[a]) : x \in V
  BY <1>1
<1> HIDE DEF V
<1>5. ASSUME NEW x \in 1..Len(Axes[a]) PROVE [m EXCEPT ![a] = x] \in Node
  <2>1. [m EXCEPT ![a] = x] \in [Axis -> V]
    BY <1>2, <1>4
  <2>2. \A b \in Axis : [m EXCEPT ![a] = x][b] \in 1..Len(Axes[b])
    BY <1>2
  <2> QED BY <2>1, <2>2 DEF Node, V
<1> QED BY <1>3, <1>5 DEF Below, Above

\* An axis with an interior node has a positive extent: the code divides by it.
LEMMA WidthTypes ==
    ASSUME NEW m \in Node, NEW a \in Interior(m)
    PROVE  Width(m, a) \in Int /\ Extent(a) \in Int /\ Extent(a) > 0
<1> DEFINE v == Axes[a]  n == Len(Axes[a])  k == m[a]
<1>1. a \in Axis /\ k \in Nat /\ 1 < k /\ k < n /\ n \in Nat /\ v \in Seq(Int)
  BY AxisTypes, NodeTypes DEF Interior
<1>2. \A i, j \in 1..n : i < j => v[i] < v[j]
  <2>1. \A i, j \in DOMAIN Axes[a] : i < j => Axes[a][i] < Axes[a][j]
    BY <1>1, AxesAssumption
  <2>2. DOMAIN Axes[a] = 1..Len(Axes[a])
    BY <1>1, AxisTypes
  <2> QED BY <2>1, <2>2
<1>3. \A i \in 1..n : v[i] \in Int
  BY <1>1
<1>4. Extent(a) = v[n] - v[1] /\ Width(m, a) = (v[k + 1] - v[k - 1]) * (n - 1)
  BY DEF Extent, Width
<1> HIDE DEF v, n, k
<1>5. v[1] \in Int /\ v[n] \in Int /\ v[1] < v[n] /\ v[k + 1] \in Int /\ v[k - 1] \in Int
  BY <1>1, <1>2, <1>3
<1>6. v[n] - v[1] \in Int /\ v[n] - v[1] > 0
  BY <1>5
<1>7. v[k + 1] - v[k - 1] \in Int /\ n - 1 \in Int
  BY <1>1, <1>5
<1> QED BY <1>4, <1>6, <1>7

\* The comparison of bridge_for is a strict weak order on the axes.
LEMMA Narrowness ==
    ASSUME NEW m \in Node, NEW a \in Interior(m), NEW b \in Interior(m), NEW c \in Interior(m)
    PROVE  /\ Narrower(m, a, b) => ~Narrower(m, b, a)
           /\ Narrower(m, a, b) /\ ~Narrower(m, c, b) => Narrower(m, a, c)
           /\ ~Narrower(m, b, a) /\ Narrower(m, b, c) => Narrower(m, a, c)
<1> DEFINE u == Width(m, a)  v == Width(m, b)  w == Width(m, c)
           e == Extent(a)  f == Extent(b)  g == Extent(c)
<1>1. /\ u \in Int /\ v \in Int /\ w \in Int /\ e \in Int /\ f \in Int /\ g \in Int
      /\ e > 0 /\ f > 0 /\ g > 0
  BY WidthTypes
<1>2. /\ Narrower(m, a, b) <=> u * f < v * e
      /\ Narrower(m, b, a) <=> v * e < u * f
      /\ Narrower(m, c, b) <=> w * f < v * g
      /\ Narrower(m, b, c) <=> v * g < w * f
      /\ Narrower(m, a, c) <=> u * g < w * e
  BY DEF Narrower
<1> HIDE DEF u, v, w, e, f, g
<1>3. u * f \in Int /\ v * e \in Int
  BY <1>1
<1>4. (u * f < v * e) => ~(v * e < u * f)
  BY <1>3
<1>5. ((u * f < v * e /\ ~(w * f < v * g)) \/ (~(v * e < u * f) /\ v * g < w * f)) => u * g < w * e
  BY <1>1, Fractions
<1> QED BY <1>2, <1>4, <1>5, Zenon

\* The axes m can be bridged along when the nodes of there have files.
Able(m, there) == {a \in Interior(m) : Below(m, a) \in there /\ Above(m, a) \in there}

\* b is the choice among the axes of S that the rule makes; 0 if there are none.
IsBest(m, S, b) ==
    \/ S = {} /\ b = 0
    \/ b \in S /\ \A a \in S : Narrower(m, b, a) \/ (~Narrower(m, a, b) /\ b <= a)

\* 0 is none of the axes a node can be bridged along.
LEMMA InteriorTypes == \A m : Interior(m) \subseteq Axis /\ Interior(m) \subseteq Nat \ {0}
BY AxisTypes DEF Interior

\* The rule names one axis, that which looking at them one by one ends with.
LEMMA BestIsRule ==
    ASSUME NEW m \in Node, NEW there, NEW b, IsBest(m, Able(m, there), b)
    PROVE  b = Rule(m, there)
<1> DEFINE S == Able(m, there)
           Q(a) == \A c \in S : Narrower(m, a, c) \/ (~Narrower(m, c, a) /\ a <= c)
           P(a) == a \in S /\ Q(a)
           r == CHOOSE a \in S : Q(a)
<1>1. Rule(m, there) = IF S = {} THEN 0 ELSE r
  BY DEF Rule, Able
<1>2. S \subseteq Interior(m) /\ S \subseteq Nat \ {0}
  BY InteriorTypes DEF Able
<1>3. ASSUME NEW a, NEW c, P(a), P(c) PROVE a = c
  <2>1. Narrower(m, a, c) => ~Narrower(m, c, a)
    BY <1>2, <1>3, Narrowness
  <2>2. Narrower(m, c, a) => ~Narrower(m, a, c)
    BY <1>2, <1>3, Narrowness
  <2>3. a <= c /\ c <= a /\ a \in Nat /\ c \in Nat
    BY <1>2, <1>3, <2>1, <2>2
  <2> QED BY <2>3
<1>4. (S = {} /\ b = 0) \/ P(b)
  BY DEF IsBest
<1>5. P(b) => S # {}
  OBVIOUS
<1>6. CASE P(b)
  <2>1. P(r)
    <3> HIDE DEF S, Q
    <3> QED BY <1>6
  <2> HIDE DEF S, P, r
  <2>2. b = r
    BY <1>3, <1>6, <2>1
  <2> QED BY <1>1, <1>5, <1>6, <2>2
<1> HIDE DEF S, P, r
<1> QED BY <1>1, <1>4, <1>6

\* One axis further: c is later than those looked at before, so that it takes
\* the place of b only if it is narrower.
LEMMA BestSoFar ==
    ASSUME NEW m \in Node, NEW S \in SUBSET Interior(m), NEW b, NEW c \in Interior(m),
           IsBest(m, S, b), \A a \in S : a < c
    PROVE  IsBest(m, S \cup {c}, IF b = 0 \/ Narrower(m, c, b) THEN c ELSE b)
<1>1. Interior(m) \subseteq Nat \ {0} /\ S \subseteq Nat \ {0} /\ c \in Nat \ {0}
  BY InteriorTypes
<1>2. ~Narrower(m, c, c)
  BY Narrowness
<1>3. CASE b = 0
  <2>1. S = {}
    BY <1>1, <1>3 DEF IsBest
  <2>2. c <= c
    BY <1>1
  <2>3. c \in S \cup {c} /\ \A a \in S \cup {c} : ~Narrower(m, a, c) /\ c <= a
    BY <1>2, <2>1, <2>2
  <2>4. IsBest(m, S \cup {c}, c)
    BY <2>3, Zenon DEF IsBest
  <2> QED BY <1>3, <2>4, Zenon
<1>4. CASE b # 0
  <2>1. b \in S /\ b \in Interior(m) /\ b \in Nat /\ b < c
    BY <1>1, <1>4 DEF IsBest
  <2>2. \A a \in S : Narrower(m, b, a) \/ (~Narrower(m, a, b) /\ b <= a)
    BY <1>4 DEF IsBest
  <2>3. CASE Narrower(m, c, b)
    <3>1. ASSUME NEW a \in S PROVE Narrower(m, c, a)
      <4>1. a \in Interior(m)
        OBVIOUS
      <4>2. Narrower(m, b, a) => ~Narrower(m, a, b)
        BY <2>1, <4>1, Narrowness
      <4> QED BY <2>1, <2>2, <2>3, <4>1, <4>2, Narrowness, Zenon
    <3>2. c <= c
      BY <1>1
    <3>3. \A a \in S \cup {c} : Narrower(m, c, a) \/ (~Narrower(m, a, c) /\ c <= a)
      BY <1>2, <3>1, <3>2, Zenon
    <3> QED BY <2>3, <3>3, Zenon DEF IsBest
  <2>4. CASE ~Narrower(m, c, b)
    <3>1. b <= c
      BY <1>1, <2>1
    <3>2. \A a \in S \cup {c} : Narrower(m, b, a) \/ (~Narrower(m, a, b) /\ b <= a)
      BY <2>2, <2>4, <3>1, Zenon
    <3>3. b \in S \cup {c}
      BY <2>1, Zenon
    <3> QED BY <1>4, <2>4, <3>2, <3>3, Zenon DEF IsBest
  <2> QED BY <2>3, <2>4
<1> QED BY <1>3, <1>4

\* The axes after a and the first of them.
LEMMA AxesToCome ==
    ASSUME NEW m \in Node, NEW a \in Nat, AxesAfter(m, a) # {}
    PROVE  LET c == FirstOf(AxesAfter(m, a))
           IN  c \in Interior(m) /\ a < c /\ \A b \in Interior(m) : b < c <=> b <= a
<1> DEFINE R == AxesAfter(m, a)  c == FirstOf(R)
<1>1. R \subseteq Interior(m) /\ R \in SUBSET Nat /\ R # {} /\ \A b \in R : a < b
  BY InteriorTypes DEF AxesAfter
<1>2. \E x \in R : \A y \in R : x <= y
  <2> HIDE DEF R
  <2> QED BY <1>1, LeastNatural
<1>3. c \in R /\ \A y \in R : c <= y
  <2> HIDE DEF R
  <2> QED BY <1>2 DEF FirstOf
<1>4. ASSUME NEW b \in Interior(m) PROVE b < c <=> b <= a
  <2>1. b \in Nat /\ c \in Nat /\ a < c
    BY <1>1, <1>3, InteriorTypes
  <2>2. a < b => c <= b
    BY <1>3 DEF AxesAfter
  <2> HIDE DEF c, R
  <2> QED BY <2>1, <2>2
<1> QED BY <1>1, <1>3, <1>4

-----------------------------------------------------------------------------
(* GridHoles: types.                                                       *)

\* Where a thread is while it looks for a bridge, and while it has holes to bridge.
Asking == {"look", "probe", "found", "lost"}
Bridging == Asking \cup {"bridge", "choose"}

\* A bridge leans on two nodes of the grid, whether it is on record, chosen or
\* still to be looked into, and what a thread reads is there.
PlacedAt(t) ==
    /\ pc[t] # "idle" => cell[t] \in Cells
    /\ pc[t] \in Bridging => todo[t] # <<>>
    /\ pc[t] \in Asking => axis[t] \in Interior(Head(todo[t]))
    /\ best[t] # 0 => /\ pc[t] \in Asking \cup {"choose"}
                      /\ best[t] \in Interior(Head(todo[t]))
    /\ pc[t] = "missing" => plan[t] # <<>>

Placed ==
    /\ \A i \in DOMAIN bridges : bridges[i][2] \in Interior(bridges[i][1])
    /\ \A t \in Thread : PlacedAt(t)

\* Types, and what they rest on.
TInv == TypeOK /\ Placed

\* The head and the tail of a list of nodes.
LEMMA ListTypes ==
    ASSUME NEW s \in Seq(Node), s # <<>>
    PROVE  /\ Head(s) \in Node /\ Tail(s) \in Seq(Node)
           /\ Head(s) \in ToSet(s) /\ ToSet(Tail(s)) \subseteq ToSet(s)
           /\ ToSet(s) \subseteq {Head(s)} \cup ToSet(Tail(s))
<1>1. Len(s) \in Nat /\ Len(s) > 0 /\ DOMAIN s = 1..Len(s) /\ Head(s) = s[1]
  OBVIOUS
<1>2. /\ Tail(s) \in Seq(Node) /\ Len(Tail(s)) = Len(s) - 1
      /\ \A i \in 1..(Len(s) - 1) : Tail(s)[i] = s[i + 1]
  OBVIOUS
<1>3. DOMAIN Tail(s) = 1..(Len(s) - 1)
  BY <1>1, <1>2
<1>4. 1 \in DOMAIN s /\ \A i \in DOMAIN Tail(s) : i + 1 \in DOMAIN s
  BY <1>1, <1>3
<1>5. ASSUME NEW i \in DOMAIN s PROVE i = 1 \/ (i - 1 \in DOMAIN Tail(s) /\ Tail(s)[i - 1] = s[i])
  <2>1. i \in Nat /\ 1 <= i /\ i <= Len(s)
    BY <1>1
  <2>2. i # 1 => i - 1 \in 1..(Len(s) - 1) /\ (i - 1) + 1 = i
    BY <1>1, <2>1
  <2> QED BY <1>2, <1>3, <2>2
<1>6. s[1] \in Node
  BY <1>1
<1>7. Head(s) \in Node /\ Head(s) \in ToSet(s)
  BY <1>1, <1>4, <1>6 DEF ToSet
<1>8. ToSet(Tail(s)) \subseteq ToSet(s)
  BY <1>2, <1>3, <1>4 DEF ToSet
<1>9. ToSet(s) \subseteq {Head(s)} \cup ToSet(Tail(s))
  BY <1>1, <1>5 DEF ToSet
<1> QED BY <1>2, <1>7, <1>8, <1>9

\* Picking nodes from a list.
LEMMA OnlyNodes ==
    ASSUME NEW s \in Seq(Node), NEW S
    PROVE  Only(s, S) \in Seq(Node) /\ ToSet(Only(s, S)) = ToSet(s) \cap S
<1>1. Only(s, S) \in Seq(Node \cap S) /\ ElementsOf(Only(s, S)) = ElementsOf(s) \cap S
  BY OnlyKeeps
<1>2. Only(s, S) \in Seq(Node)
  BY <1>1
<1>3. \A l \in Seq(Node) : ToSet(l) = ElementsOf(l)
  BY DEF ToSet, ElementsOf
<1> QED BY <1>1, <1>2, <1>3

\* A corner is added unless it is there.
LEMMA WithNodeAdds ==
    ASSUME NEW s \in Seq(Node), NEW n \in Node
    PROVE  WithNode(s, n) \in Seq(Node) /\ ToSet(WithNode(s, n)) = ToSet(s) \cup {n}
<1>1. Contains(s, n) => n \in ToSet(s)
  BY DEF Contains, ToSet
<1>2. CASE Contains(s, n)
  <2>1. WithNode(s, n) = s
    BY <1>2 DEF WithNode
  <2> QED BY <1>1, <1>2, <2>1, Zenon
<1>3. CASE ~Contains(s, n)
  <2>1. WithNode(s, n) = Append(s, n)
    BY <1>3 DEF WithNode
  <2>2. /\ Append(s, n) \in Seq(Node) /\ DOMAIN Append(s, n) = 1..(Len(s) + 1)
        /\ \A i \in DOMAIN Append(s, n) : Append(s, n)[i] = IF i = Len(s) + 1 THEN n ELSE s[i]
        /\ DOMAIN s = 1..Len(s) /\ Len(s) \in Nat
    OBVIOUS
  <2>3. ToSet(Append(s, n)) \subseteq ToSet(s) \cup {n}
    <3>1. \A i \in 1..(Len(s) + 1) : i = Len(s) + 1 \/ i \in 1..Len(s)
      BY <2>2
    <3> QED BY <2>2, <3>1 DEF ToSet
  <2>4. ToSet(s) \cup {n} \subseteq ToSet(Append(s, n))
    <3>1. /\ Len(s) + 1 \in 1..(Len(s) + 1)
          /\ \A i \in 1..Len(s) : i \in 1..(Len(s) + 1) /\ i # Len(s) + 1
      BY <2>2
    <3> QED BY <2>2, <3>1 DEF ToSet
  <2> QED BY <2>1, <2>2, <2>3, <2>4
<1> QED BY <1>2, <1>3

\* Containing an element is having it among one's elements.
LEMMA ContainsIs == \A s \in Seq(Node) : \A n : Contains(s, n) <=> n \in ToSet(s)
BY DEF Contains, ToSet

\* The neighbours of the hole get its weight.
LEMMA WeightMoves ==
    ASSUME NEW s \in Seq(Node), NEW m \in Node, NEW a \in Interior(m)
    PROVE  LET moved == WithNode(WithNode(Only(s, Node \ {m}), Below(m, a)), Above(m, a))
           IN  /\ moved \in Seq(Node)
               /\ ToSet(moved) = (ToSet(s) \ {m}) \cup {Below(m, a), Above(m, a)}
<1> DEFINE o == Only(s, Node \ {m})  w == WithNode(o, Below(m, a))
<1>0. Below(m, a) \in Node /\ Above(m, a) \in Node
  BY Neighbours
<1>1. o \in Seq(Node) /\ ToSet(o) = ToSet(s) \cap (Node \ {m})
  BY OnlyNodes
<1>2. ToSet(s) \subseteq Node
  BY DEF ToSet
<1> HIDE DEF o
<1>3. w \in Seq(Node) /\ ToSet(w) = ToSet(o) \cup {Below(m, a)}
  BY <1>0, <1>1, WithNodeAdds
<1> HIDE DEF w
<1>4. WithNode(w, Above(m, a)) \in Seq(Node) /\ ToSet(WithNode(w, Above(m, a))) = ToSet(w) \cup {Above(m, a)}
  BY <1>0, <1>3, WithNodeAdds
<1>5. ToSet(WithNode(w, Above(m, a))) = (ToSet(s) \ {m}) \cup {Below(m, a), Above(m, a)}
  BY <1>1, <1>2, <1>3, <1>4
<1> QED BY <1>4, <1>5 DEF o, w

\* A step of thread t leaves the other threads where they are, and the files.
LEMMA StepFrame ==
    ASSUME TypeOK, NEW t \in Thread, Step(t)
    PROVE  /\ file' = file /\ vanished' = vanished
           /\ \A u \in Thread \ {t} :
                 /\ pc'[u] = pc[u] /\ cell'[u] = cell[u] /\ plan'[u] = plan[u]
                 /\ todo'[u] = todo[u] /\ axis'[u] = axis[u] /\ up'[u] = up[u]
                 /\ best'[u] = best[u] /\ used'[u] = used[u]
<1> USE DEF disk, table, local, TypeOK
<1>1. CASE Plan(t)
  BY <1>1 DEF Plan
<1>2. CASE Skip(t)
  BY <1>2 DEF Skip
<1>3. CASE Lookup(t)
  BY <1>3 DEF Lookup, Apply, NextAxis
<1>4. CASE Look(t)
  BY <1>4 DEF Look, Answer, NextAxis
<1>5. CASE Probe(t)
  BY <1>5 DEF Probe, Finish
<1>6. CASE NoteLost(t)
  BY <1>6 DEF NoteLost, Answer, NextAxis
<1>7. CASE NoteFound(t)
  BY <1>7 DEF NoteFound, Answer, NextAxis
<1>8. CASE ChooseNone(t)
  BY <1>8 DEF ChooseNone, Finish
<1>9. CASE Choose(t)
  BY <1>9 DEF Choose, Apply
<1>10. CASE Fetch(t)
  BY <1>10 DEF Fetch, Finish
<1>11. CASE Missing(t)
  BY <1>11 DEF Missing
<1>12. CASE Complete(t)
  BY <1>12 DEF Complete, Finish
<1> QED
  BY <1>1, <1>2, <1>3, <1>4, <1>5, <1>6, <1>7, <1>8, <1>9, <1>10, <1>11, <1>12 DEF Step

\* Where a thread can be.
Phase == {"idle", "plan", "bridge", "look", "probe", "found", "lost", "choose", "fetch", "missing"}

\* A thread that stays where it is stays well placed.
LEMMA PlacedSame ==
    ASSUME NEW u, PlacedAt(u), pc'[u] = pc[u], cell'[u] = cell[u], plan'[u] = plan[u],
           todo'[u] = todo[u], axis'[u] = axis[u], best'[u] = best[u]
    PROVE  PlacedAt(u)'
BY DEF PlacedAt

\* The node t is bridging, and the neighbour it asks for.
LEMMA AtHole ==
    ASSUME TInv, NEW t \in Thread
    PROVE  /\ pc[t] \in Bridging => /\ todo[t] \in Seq(Node) /\ todo[t] # <<>>
                                    /\ Head(todo[t]) \in Node
           /\ pc[t] \in Asking => /\ axis[t] \in Interior(Head(todo[t])) /\ axis[t] \in Nat
                                  /\ Neighbour(t) \in Node
<1>1. todo[t] \in Seq(Node) /\ PlacedAt(t)
  BY DEF TInv, TypeOK, Placed
<1>2. ASSUME pc[t] \in Bridging PROVE todo[t] # <<>> /\ Head(todo[t]) \in Node
  BY <1>1, <1>2, ListTypes DEF PlacedAt
<1>3. ASSUME pc[t] \in Asking
      PROVE  axis[t] \in Interior(Head(todo[t])) /\ axis[t] \in Nat /\ Neighbour(t) \in Node
  <2>1. axis[t] \in Interior(Head(todo[t])) /\ pc[t] \in Bridging
    BY <1>1, <1>3 DEF PlacedAt, Bridging
  <2> QED BY <1>2, <2>1, InteriorTypes, Neighbours DEF Neighbour
<1> QED BY <1>1, <1>2, <1>3

\* bridge_for goes on to an axis the hole has two neighbours on, or chooses.
LEMMA NextAxisPlaces ==
    ASSUME TypeOK, NEW t \in Thread, NEW a \in Nat, Head(todo[t]) \in Node, NextAxis(t, a)
    PROVE  /\ axis' \in [Thread -> Axis \cup {0}] /\ up' \in [Thread -> BOOLEAN]
           /\ pc' \in [Thread -> Phase]
           /\ \/ pc'[t] = "choose" /\ AxesAfter(Head(todo[t]), a) = {}
              \/ /\ pc'[t] = "look" /\ axis'[t] \in Interior(Head(todo[t]))
                 /\ a < axis'[t] /\ ~up'[t]
                 /\ \A b \in Interior(Head(todo[t])) : b < axis'[t] <=> b <= a
<1> DEFINE m == Head(todo[t])  R == AxesAfter(m, a)
<1>1. CASE R = {}
  <2>1. /\ axis' = [axis EXCEPT ![t] = 0] /\ up' = [up EXCEPT ![t] = FALSE]
        /\ pc' = [pc EXCEPT ![t] = "choose"]
    BY <1>1 DEF NextAxis
  <2> QED BY <1>1, <2>1 DEF TypeOK, Phase
<1>2. CASE R # {}
  <2>1. /\ axis' = [axis EXCEPT ![t] = FirstOf(R)] /\ up' = [up EXCEPT ![t] = FALSE]
        /\ pc' = [pc EXCEPT ![t] = "look"]
    BY <1>2 DEF NextAxis
  <2>2. /\ FirstOf(R) \in Interior(m) /\ a < FirstOf(R)
        /\ \A b \in Interior(m) : b < FirstOf(R) <=> b <= a
    BY <1>2, AxesToCome
  <2>3. FirstOf(R) \in Axis
    BY <2>2, InteriorTypes
  <2> HIDE DEF R
  <2>4. axis'[t] = FirstOf(R) /\ ~up'[t] /\ pc'[t] = "look"
    BY <2>1 DEF TypeOK
  <2>5. axis' \in [Thread -> Axis \cup {0}] /\ up' \in [Thread -> BOOLEAN] /\ pc' \in [Thread -> Phase]
    BY <2>1, <2>3 DEF TypeOK, Phase
  <2> QED BY <2>2, <2>4, <2>5
<1> QED BY <1>1, <1>2

\* What an answer leaves a thread at.
LEMMA AnswerPlaces ==
    ASSUME TInv, NEW t \in Thread, pc[t] \in Asking, NEW p \in BOOLEAN, Answer(t, p),
           todo' = todo, cell' = cell
    PROVE  /\ axis' \in [Thread -> Axis \cup {0}] /\ best' \in [Thread -> Axis \cup {0}]
           /\ up' \in [Thread -> BOOLEAN] /\ pc' \in [Thread -> Phase]
           /\ PlacedAt(t)'
<1> DEFINE m == Head(todo[t])
<1>0. /\ TypeOK /\ PlacedAt(t) /\ pc[t] # "idle" /\ pc[t] \in Bridging
      /\ axis[t] \in Interior(m) /\ axis[t] \in Axis /\ axis[t] \in Nat /\ m \in Node
  BY AtHole, InteriorTypes DEF TInv, Placed, Asking, Bridging
<1>1. CASE p /\ ~up[t]
  <2>1. /\ up' = [up EXCEPT ![t] = TRUE] /\ pc' = [pc EXCEPT ![t] = "look"]
        /\ axis' = axis /\ best' = best
    BY <1>1 DEF Answer
  <2> QED BY <1>0, <2>1 DEF PlacedAt, TypeOK, Phase, Asking, Bridging
<1>2. CASE ~(p /\ ~up[t])
  <2>1. PICK b \in {best[t], axis[t]} : best' = [best EXCEPT ![t] = b]
    BY <1>2 DEF Answer
  <2>2. NextAxis(t, axis[t])
    BY <1>2 DEF Answer
  <2>3. /\ axis' \in [Thread -> Axis \cup {0}] /\ up' \in [Thread -> BOOLEAN] /\ pc' \in [Thread -> Phase]
        /\ pc'[t] = "choose" \/ (pc'[t] = "look" /\ axis'[t] \in Interior(m))
    BY <1>0, <2>2, NextAxisPlaces
  <2>4. best' \in [Thread -> Axis \cup {0}] /\ best'[t] = b
    BY <1>0, <2>1 DEF TypeOK
  <2>5. b = 0 \/ b \in Interior(m)
    BY <1>0, <2>1 DEF PlacedAt
  <2> QED BY <1>0, <2>3, <2>4, <2>5 DEF PlacedAt, Asking, Bridging
<1> QED BY <1>1, <1>2

\* Bridging a hole along an axis it has two neighbours on.
LEMMA ApplyPlaces ==
    ASSUME TInv, NEW t \in Thread, pc[t] \in Bridging, NEW a \in Interior(Head(todo[t])), Apply(t, a),
           cell' = cell
    PROVE  /\ plan' \in [Thread -> Seq(Node)] /\ todo' \in [Thread -> Seq(Node)]
           /\ used' \in [Thread -> SUBSET (Node \X Axis)]
           /\ axis' \in [Thread -> Axis \cup {0}] /\ best' \in [Thread -> Axis \cup {0}]
           /\ up' \in [Thread -> BOOLEAN] /\ pc' \in [Thread -> Phase]
           /\ PlacedAt(t)'
<1> DEFINE m == Head(todo[t])
           moved == WithNode(WithNode(Only(plan[t], Node \ {m}), Below(m, a)), Above(m, a))
<1>0. /\ TypeOK /\ PlacedAt(t) /\ pc[t] # "idle" /\ a \in Axis
      /\ m \in Node /\ todo[t] \in Seq(Node) /\ todo[t] # <<>> /\ plan[t] \in Seq(Node)
  BY AtHole, InteriorTypes DEF TInv, Placed, Asking, Bridging, TypeOK
<1>1. moved \in Seq(Node) /\ Tail(todo[t]) \in Seq(Node)
  BY <1>0, WeightMoves, ListTypes
<1>2. /\ plan' = [plan EXCEPT ![t] = moved]
      /\ used' = [used EXCEPT ![t] = @ \cup {<<m, a>>}]
      /\ todo' = [todo EXCEPT ![t] = Tail(@)]
      /\ pc' = [pc EXCEPT ![t] = IF Tail(todo[t]) = <<>> THEN "fetch" ELSE "bridge"]
      /\ axis' = [axis EXCEPT ![t] = 0] /\ best' = [best EXCEPT ![t] = 0]
      /\ up' = [up EXCEPT ![t] = FALSE]
  BY DEF Apply
<1> HIDE DEF moved, m
<1>3. /\ plan' \in [Thread -> Seq(Node)] /\ todo' \in [Thread -> Seq(Node)]
  BY <1>0, <1>1, <1>2 DEF TypeOK
<1>4. used' \in [Thread -> SUBSET (Node \X Axis)]
  <2>1. <<m, a>> \in Node \X Axis
    BY <1>0
  <2>2. used[t] \cup {<<m, a>>} \in SUBSET (Node \X Axis)
    BY <1>0, <2>1 DEF TypeOK
  <2> QED BY <1>0, <1>2, <2>2 DEF TypeOK
<1>5. /\ axis' \in [Thread -> Axis \cup {0}] /\ best' \in [Thread -> Axis \cup {0}]
      /\ up' \in [Thread -> BOOLEAN] /\ pc' \in [Thread -> Phase]
  BY <1>0, <1>2 DEF TypeOK, Phase
<1>6. PlacedAt(t)'
  <2>1. best'[t] = 0 /\ todo'[t] = Tail(todo[t])
    BY <1>0, <1>2 DEF TypeOK
  <2>2. \/ pc'[t] = "fetch"
        \/ pc'[t] = "bridge" /\ todo'[t] # <<>>
    BY <1>0, <1>2, <2>1 DEF TypeOK
  <2> QED BY <1>0, <2>1, <2>2 DEF PlacedAt, Bridging, Asking
<1> QED BY <1>3, <1>4, <1>5, <1>6

\* The types hold at the start.
LEMMA InitTInv == Init => TInv
<1> SUFFICES ASSUME Init PROVE TInv
  OBVIOUS
<1>1. TypeOK
  BY LayoutAssumption DEF Init, TypeOK
<1>2. Placed
  BY DEF Init, Placed, PlacedAt, Asking, Bridging
<1> QED BY <1>1, <1>2 DEF TInv

\* A step of thread t can only misplace t.
LEMMA StepPlaced ==
    ASSUME TInv, NEW t \in Thread, Step(t), TypeOK', PlacedAt(t)',
           \A i \in DOMAIN bridges' : bridges'[i][2] \in Interior(bridges'[i][1])
    PROVE  TInv'
<1>1. ASSUME NEW u \in Thread PROVE PlacedAt(u)'
  <2>1. CASE u = t
    BY <2>1
  <2>2. CASE u # t
    <3>1. /\ pc'[u] = pc[u] /\ cell'[u] = cell[u] /\ plan'[u] = plan[u]
          /\ todo'[u] = todo[u] /\ axis'[u] = axis[u] /\ best'[u] = best[u]
      BY <2>2, StepFrame DEF TInv
    <3>2. PlacedAt(u)
      BY DEF TInv, Placed
    <3> QED BY <3>1, <3>2, PlacedSame
  <2> QED BY <2>1, <2>2
<1> QED BY <1>1 DEF TInv, Placed

\* Registering a hole keeps the types of the table.
LEMMA RegisterTypes ==
    ASSUME TInv, NEW n \in Node, RegisterAbsent(n)
    PROVE  /\ absent' \subseteq Node /\ probed' \in [Node -> {"yes", "no", "unknown"}]
           /\ bridges' \in Seq(Node \X Axis)
           /\ \A i \in DOMAIN bridges' : bridges'[i][2] \in Interior(bridges'[i][1])
<1>1. /\ absent' \subseteq Node /\ probed' \in [Node -> {"yes", "no", "unknown"}]
  BY DEF RegisterAbsent, TInv, TypeOK
<1>2. bridges' = bridges \/ bridges' = <<>>
  BY DEF RegisterAbsent
<1>3. CASE bridges' = bridges
  BY <1>1, <1>3 DEF TInv, TypeOK, Placed
<1>4. CASE bridges' = <<>>
  BY <1>1, <1>4
<1> QED BY <1>2, <1>3, <1>4

\* So does the end of an evaluation for those of its thread.
LEMMA FinishPlaces ==
    ASSUME TInv, NEW t \in Thread, NEW how \in {"ok", "failed"}, Finish(t, how)
    PROVE  /\ pc' \in [Thread -> Phase] /\ cell' \in [Thread -> Cells \cup {NoCell}]
           /\ plan' \in [Thread -> Seq(Node)] /\ todo' \in [Thread -> Seq(Node)]
           /\ axis' \in [Thread -> Axis \cup {0}] /\ best' \in [Thread -> Axis \cup {0}]
           /\ up' \in [Thread -> BOOLEAN] /\ outcome' \in [Thread -> {"none", "ok", "failed"}]
           /\ PlacedAt(t)'
BY DEF Finish, TInv, TypeOK, Phase, PlacedAt, Asking, Bridging

\* The types are inductive.
LEMMA NextTInv == TInv /\ [Next]_vars => TInv'
<1> SUFFICES ASSUME TInv, [Next]_vars PROVE TInv'
  OBVIOUS
<1> USE DEF disk, table, local
<1>0. /\ TypeOK /\ \A t \in Thread : PlacedAt(t)
      /\ \A i \in DOMAIN bridges : bridges[i][2] \in Interior(bridges[i][1])
  BY DEF TInv, Placed
<1>1. ASSUME NEW t \in Thread, NEW c \in Cells, Load(t, c) PROVE TInv'
  <2>1. loads[t] - 1 \in 0..MaxLoads
    BY <1>0, <1>1, LayoutAssumption DEF Load, TypeOK
  <2>2. TypeOK'
    BY <1>0, <1>1, <2>1 DEF Load, TypeOK
  <2>3. ASSUME NEW u \in Thread PROVE PlacedAt(u)'
    BY <1>0, <1>1 DEF Load, TypeOK, PlacedAt, Asking, Bridging
  <2> QED BY <1>0, <1>1, <2>2, <2>3 DEF TInv, Placed, Load
<1>2. ASSUME NEW t \in Thread, Plan(t) PROVE TInv'
  <2>1. cell[t] \in Cells /\ cell[t].nodes \in Seq(Node) /\ best[t] = 0
    BY <1>0, <1>2, LayoutAssumption DEF Plan, PlacedAt, Asking
  <2>2. Only(cell[t].nodes, Node \ cell[t].zero) \in Seq(Node) /\ Only(cell[t].nodes, absent) \in Seq(Node)
    BY <2>1, OnlyNodes
  <2>3. TypeOK'
    BY <1>0, <1>2, <2>2 DEF Plan, TypeOK
  <2>4. pc'[t] = "fetch" \/ (pc'[t] = "bridge" /\ todo'[t] # <<>>)
    BY <1>0, <1>2 DEF Plan, TypeOK
  <2>5. PlacedAt(t)'
    BY <1>0, <1>2, <2>1, <2>4 DEF Plan, TypeOK, PlacedAt, Asking, Bridging
  <2> QED BY <1>0, <1>2, <2>3, <2>5, StepPlaced DEF Plan, Step
<1>3. ASSUME NEW t \in Thread, Skip(t) PROVE TInv'
  <2>1. todo[t] \in Seq(Node) /\ todo[t] # <<>> /\ Tail(todo[t]) \in Seq(Node)
    BY <1>0, <1>3, AtHole, ListTypes DEF Skip, Bridging, Asking
  <2>2. TypeOK'
    BY <1>0, <1>3, <2>1 DEF Skip, TypeOK
  <2>3. pc'[t] = "fetch" \/ (pc'[t] = "bridge" /\ todo'[t] # <<>>)
    BY <1>0, <1>3 DEF Skip, TypeOK
  <2>4. PlacedAt(t)'
    BY <1>0, <1>3, <2>3 DEF Skip, TypeOK, PlacedAt, Asking, Bridging
  <2> QED BY <1>0, <1>3, <2>2, <2>4, StepPlaced DEF Skip, Step
<1>4. ASSUME NEW t \in Thread, Lookup(t) PROVE TInv'
  <2> DEFINE m == Head(todo[t])  onrecord == BridgesOf(m)
  <2>0. /\ pc[t] = "bridge" /\ pc[t] \in Bridging /\ m \in Node
        /\ UNCHANGED <<file, vanished, cached, absent, bridges, probed, cell, loads, outcome>>
    BY <1>4, AtHole DEF Lookup, Bridging
  <2>1. CASE onrecord # {}
    <3>1. Apply(t, bridges[FirstOf(onrecord)][2])
      BY <1>4, <2>1 DEF Lookup
    <3>2. FirstOf(onrecord) \in onrecord
      <4>1. onrecord \in SUBSET Nat
        BY <1>0 DEF BridgesOf, TypeOK
      <4> HIDE DEF onrecord
      <4>2. \E x \in onrecord : \A y \in onrecord : x <= y
        BY <2>1, <4>1, LeastNatural
      <4> QED BY <4>2 DEF FirstOf
    <3>3. bridges[FirstOf(onrecord)][2] \in Interior(m)
      BY <1>0, <3>2 DEF BridgesOf
    <3> HIDE DEF onrecord, m
    <3>4. /\ plan' \in [Thread -> Seq(Node)] /\ todo' \in [Thread -> Seq(Node)]
          /\ used' \in [Thread -> SUBSET (Node \X Axis)]
          /\ axis' \in [Thread -> Axis \cup {0}] /\ best' \in [Thread -> Axis \cup {0}]
          /\ up' \in [Thread -> BOOLEAN] /\ pc' \in [Thread -> Phase]
          /\ PlacedAt(t)'
      BY <2>0, <3>1, <3>3, ApplyPlaces DEF m
    <3>5. TypeOK'
      BY <1>0, <2>0, <3>4 DEF TypeOK, Phase
    <3> QED BY <1>0, <1>4, <2>0, <3>4, <3>5, StepPlaced DEF Step
  <2>2. CASE onrecord = {}
    <3>1. NextAxis(t, 0) /\ UNCHANGED <<best, plan, used, todo>>
      BY <1>4, <2>2 DEF Lookup
    <3>2. /\ axis' \in [Thread -> Axis \cup {0}] /\ up' \in [Thread -> BOOLEAN] /\ pc' \in [Thread -> Phase]
          /\ pc'[t] = "choose" \/ (pc'[t] = "look" /\ axis'[t] \in Interior(m))
      BY <1>0, <2>0, <3>1, NextAxisPlaces
    <3>3. TypeOK'
      BY <1>0, <2>0, <3>1, <3>2 DEF TypeOK, Phase
    <3>4. PlacedAt(t)'
      BY <1>0, <2>0, <3>1, <3>2 DEF PlacedAt, Asking, Bridging
    <3> QED BY <1>0, <1>4, <2>0, <3>3, <3>4, StepPlaced DEF Step
  <2> QED BY <2>1, <2>2
<1>5. ASSUME NEW t \in Thread, Look(t) PROVE TInv'
  <2>0. /\ pc[t] = "look" /\ pc[t] \in Asking
        /\ UNCHANGED <<file, vanished, cached, absent, bridges, probed, cell, plan, todo, used, loads, outcome>>
    BY <1>5 DEF Look, Asking
  <2>1. CASE \E p \in BOOLEAN : Answer(t, p)
    <3>1. /\ axis' \in [Thread -> Axis \cup {0}] /\ best' \in [Thread -> Axis \cup {0}]
          /\ up' \in [Thread -> BOOLEAN] /\ pc' \in [Thread -> Phase]
          /\ PlacedAt(t)'
      BY <2>0, <2>1, AnswerPlaces
    <3>2. TypeOK'
      BY <1>0, <2>0, <3>1 DEF TypeOK, Phase
    <3> QED BY <1>0, <1>5, <2>0, <3>1, <3>2, StepPlaced DEF Step
  <2>2. CASE pc' = [pc EXCEPT ![t] = "probe"] /\ UNCHANGED <<axis, up, best>>
    <3>1. TypeOK'
      BY <1>0, <2>0, <2>2 DEF TypeOK
    <3>2. PlacedAt(t)'
      BY <1>0, <2>0, <2>2 DEF TypeOK, PlacedAt, Asking, Bridging
    <3> QED BY <1>0, <1>5, <2>0, <3>1, <3>2, StepPlaced DEF Step
  <2> QED BY <1>5, <2>1, <2>2 DEF Look
<1>6. ASSUME NEW t \in Thread, Probe(t) PROVE TInv'
  <2>0. /\ pc[t] = "probe" /\ UNCHANGED <<file, vanished, cached, absent, bridges, probed>>
    BY <1>6 DEF Probe
  <2>1. CASE Finish(t, "failed") /\ UNCHANGED <<used, loads>>
    <3>1. TypeOK'
      BY <1>0, <2>0, <2>1, FinishPlaces DEF TypeOK, Phase
    <3>2. PlacedAt(t)'
      BY <2>1, FinishPlaces
    <3> QED BY <1>0, <1>6, <2>0, <3>1, <3>2, StepPlaced DEF Step
  <2>2. CASE UNCHANGED local /\ (pc' = [pc EXCEPT ![t] = "lost"] \/ pc' = [pc EXCEPT ![t] = "found"])
    <3>1. TypeOK'
      BY <1>0, <2>0, <2>2 DEF TypeOK
    <3>2. PlacedAt(t)'
      BY <1>0, <2>0, <2>2 DEF TypeOK, PlacedAt, Asking, Bridging
    <3> QED BY <1>0, <1>6, <2>0, <3>1, <3>2, StepPlaced DEF Step
  <2> QED BY <1>6, <2>1, <2>2 DEF Probe
<1>7. ASSUME NEW t \in Thread, NoteLost(t) PROVE TInv'
  <2>0. /\ pc[t] \in Asking /\ Neighbour(t) \in Node /\ RegisterAbsent(Neighbour(t)) /\ Answer(t, FALSE)
        /\ UNCHANGED <<file, vanished, cached, cell, plan, todo, used, loads, outcome>>
    BY <1>7, AtHole DEF NoteLost, Asking
  <2>1. /\ axis' \in [Thread -> Axis \cup {0}] /\ best' \in [Thread -> Axis \cup {0}]
        /\ up' \in [Thread -> BOOLEAN] /\ pc' \in [Thread -> Phase]
        /\ PlacedAt(t)'
    BY <2>0, AnswerPlaces
  <2>2. TypeOK'
    BY <1>0, <2>0, <2>1, RegisterTypes DEF TypeOK, Phase
  <2> QED BY <1>7, <2>0, <2>1, <2>2, RegisterTypes, StepPlaced DEF Step
<1>8. ASSUME NEW t \in Thread, NoteFound(t) PROVE TInv'
  <2>0. /\ pc[t] \in Asking /\ Neighbour(t) \in Node /\ Answer(t, TRUE)
        /\ probed' = [probed EXCEPT ![Neighbour(t)] = "yes"]
        /\ UNCHANGED <<file, vanished, cached, absent, bridges, cell, plan, todo, used, loads, outcome>>
    BY <1>8, AtHole DEF NoteFound, Asking
  <2>1. /\ axis' \in [Thread -> Axis \cup {0}] /\ best' \in [Thread -> Axis \cup {0}]
        /\ up' \in [Thread -> BOOLEAN] /\ pc' \in [Thread -> Phase]
        /\ PlacedAt(t)'
    BY <2>0, AnswerPlaces
  <2>2. TypeOK'
    BY <1>0, <2>0, <2>1 DEF TypeOK, Phase
  <2> QED BY <1>0, <1>8, <2>0, <2>1, <2>2, StepPlaced DEF Step
<1>9. ASSUME NEW t \in Thread, ChooseNone(t) PROVE TInv'
  <2>0. Finish(t, "failed") /\ UNCHANGED <<file, vanished, cached, absent, bridges, probed, used, loads>>
    BY <1>9 DEF ChooseNone
  <2>1. TypeOK'
    BY <1>0, <2>0, FinishPlaces DEF TypeOK, Phase
  <2> QED BY <1>0, <1>9, <2>0, <2>1, FinishPlaces, StepPlaced DEF Step
<1>10. ASSUME NEW t \in Thread, Choose(t) PROVE TInv'
  <2> DEFINE m == Head(todo[t])  b == best[t]
  <2>0. /\ pc[t] \in Bridging /\ m \in Node /\ b \in Interior(m) /\ Apply(t, b)
        /\ bridges' = Append(bridges, <<m, b>>)
        /\ UNCHANGED <<file, vanished, cached, absent, probed, cell, loads, outcome>>
    BY <1>0, <1>10, AtHole DEF Choose, PlacedAt, Bridging, Asking
  <2>1. /\ plan' \in [Thread -> Seq(Node)] /\ todo' \in [Thread -> Seq(Node)]
        /\ used' \in [Thread -> SUBSET (Node \X Axis)]
        /\ axis' \in [Thread -> Axis \cup {0}] /\ best' \in [Thread -> Axis \cup {0}]
        /\ up' \in [Thread -> BOOLEAN] /\ pc' \in [Thread -> Phase]
        /\ PlacedAt(t)'
    BY <2>0, ApplyPlaces
  <2>2. <<m, b>> \in Node \X Axis
    BY <2>0, InteriorTypes
  <2>3. /\ bridges' \in Seq(Node \X Axis)
        /\ \A i \in DOMAIN bridges' : bridges'[i][2] \in Interior(bridges'[i][1])
    <3> HIDE DEF m, b
    <3>1. bridges \in Seq(Node \X Axis)
      BY <1>0 DEF TypeOK
    <3>2. /\ bridges' \in Seq(Node \X Axis)
          /\ DOMAIN bridges' = 1..(Len(bridges) + 1) /\ DOMAIN bridges = 1..Len(bridges)
          /\ \A i \in 1..(Len(bridges) + 1) : bridges'[i] = IF i = Len(bridges) + 1 THEN <<m, b>> ELSE bridges[i]
      BY <2>0, <2>2, <3>1
    <3>3. ASSUME NEW i \in DOMAIN bridges' PROVE bridges'[i][2] \in Interior(bridges'[i][1])
      <4>1. CASE i = Len(bridges) + 1
        <5>1. bridges'[i] = <<m, b>>
          BY <3>2, <4>1
        <5>2. bridges'[i][1] = m /\ bridges'[i][2] = b
          BY <5>1
        <5> QED BY <2>0, <5>2
      <4>2. CASE i # Len(bridges) + 1
        <5>1. i \in DOMAIN bridges /\ bridges'[i] = bridges[i]
          BY <3>1, <3>2, <4>2
        <5> QED BY <1>0, <5>1
      <4> QED BY <4>1, <4>2
    <3> QED BY <3>2, <3>3
  <2>4. TypeOK'
    BY <1>0, <2>0, <2>1, <2>3 DEF TypeOK, Phase
  <2> QED BY <1>10, <2>1, <2>3, <2>4, StepPlaced DEF Step
<1>11. ASSUME NEW t \in Thread, Fetch(t) PROVE TInv'
  <2> DEFINE n == Head(plan[t])
  <2>0. /\ pc[t] = "fetch" /\ plan[t] \in Seq(Node) /\ n \in Node /\ Tail(plan[t]) \in Seq(Node)
        /\ plan[t] # <<>>
        /\ UNCHANGED <<file, vanished, absent, bridges, probed, used, loads>>
    BY <1>0, <1>11, ListTypes DEF Fetch, TypeOK
  <2>1. CASE /\ cached' = cached \cup {n} /\ plan' = [plan EXCEPT ![t] = Tail(@)]
             /\ UNCHANGED <<pc, cell, todo, axis, up, best, outcome>>
    <3>1. TypeOK'
      BY <1>0, <2>0, <2>1 DEF TypeOK
    <3>2. PlacedAt(t)'
      BY <1>0, <2>0, <2>1 DEF PlacedAt, Asking, Bridging
    <3> QED BY <1>0, <1>11, <2>0, <3>1, <3>2, StepPlaced DEF Step
  <2>2. CASE /\ pc' = [pc EXCEPT ![t] = "missing"]
             /\ UNCHANGED <<cached, cell, plan, todo, axis, up, best, outcome>>
    <3>1. TypeOK'
      BY <1>0, <2>0, <2>2 DEF TypeOK
    <3>2. PlacedAt(t)'
      BY <1>0, <2>0, <2>2 DEF TypeOK, PlacedAt, Asking, Bridging
    <3> QED BY <1>0, <1>11, <2>0, <3>1, <3>2, StepPlaced DEF Step
  <2>3. CASE Finish(t, "failed") /\ UNCHANGED cached
    <3>1. TypeOK'
      BY <1>0, <2>0, <2>3, FinishPlaces DEF TypeOK, Phase
    <3> QED BY <1>0, <1>11, <2>0, <2>3, <3>1, FinishPlaces, StepPlaced DEF Step
  <2> QED BY <1>11, <2>1, <2>2, <2>3 DEF Fetch
<1>12. ASSUME NEW t \in Thread, Missing(t) PROVE TInv'
  <2>0. /\ pc[t] = "missing" /\ Head(plan[t]) \in Node /\ RegisterAbsent(Head(plan[t]))
    BY <1>0, <1>12, ListTypes DEF Missing, TypeOK, PlacedAt
  <2>1. TypeOK'
    BY <1>0, <1>12, <2>0, RegisterTypes DEF Missing, TypeOK
  <2>2. PlacedAt(t)'
    BY <1>0, <1>12, <2>0 DEF Missing, TypeOK, PlacedAt, Asking, Bridging
  <2> QED BY <1>12, <2>0, <2>1, <2>2, RegisterTypes, StepPlaced DEF Step
<1>13. ASSUME NEW t \in Thread, Complete(t) PROVE TInv'
  <2>0. Finish(t, "ok") /\ UNCHANGED <<file, vanished, cached, absent, bridges, probed, used, loads>>
    BY <1>13 DEF Complete
  <2>1. TypeOK'
    BY <1>0, <2>0, FinishPlaces DEF TypeOK, Phase
  <2> QED BY <1>0, <1>13, <2>0, <2>1, FinishPlaces, StepPlaced DEF Step
<1>14. ASSUME NEW n \in Node, Vanish(n) PROVE TInv'
  <2>1. vanished + 1 \in 0..MaxVanish
    BY <1>0, <1>14, LayoutAssumption DEF Vanish, TypeOK
  <2>2. TypeOK'
    BY <1>0, <1>14, <2>1 DEF Vanish, TypeOK, File
  <2> QED BY <1>0, <1>14, <2>2 DEF Vanish, TInv, Placed, PlacedAt
<1>15. ASSUME NEW n \in Node, Evict(n) PROVE TInv'
  <2>1. TypeOK'
    BY <1>0, <1>15 DEF Evict, TypeOK
  <2> QED BY <1>0, <1>15, <2>1 DEF Evict, TInv, Placed, PlacedAt
<1>16. ASSUME UNCHANGED vars PROVE TInv'
  <2>1. TypeOK'
    BY <1>0, <1>16 DEF vars, TypeOK
  <2> QED BY <1>0, <1>16, <2>1 DEF vars, TInv, Placed, PlacedAt
<1> QED
  BY <1>1, <1>2, <1>3, <1>4, <1>5, <1>6, <1>7, <1>8, <1>9, <1>10, <1>11, <1>12,
     <1>13, <1>14, <1>15, <1>16 DEF Next, Step

-----------------------------------------------------------------------------
(* GridHoles: models by the rule, as long as no file vanishes.             *)

\* What is on record and cached is true of the files.
Truth ==
    /\ cached \subseteq There
    /\ \A n \in Node : /\ probed[n] = "yes" => n \in There
                       /\ probed[n] = "no" => n \notin There
    /\ \A i \in DOMAIN bridges :
          /\ bridges[i][1] \notin There
          /\ bridges[i][2] = Rule(bridges[i][1], There)
          /\ bridges[i][2] \in Able(bridges[i][1], There)

\* The holes among the corners that count, and where the rule bridges them.
Holed(t) == Weighted(cell[t]) \ There
ByRule(t) == {<<n, Rule(n, There)>> : n \in Holed(t)}
BesideHole(n, t) ==
    \E m \in Holed(t) : \E a \in Interior(m) : n \in {Below(m, a), Above(m, a)}

\* A round has bridged holes that count, each by the rule, and still has those
\* it has not bridged among its corners; what else it has there stands beside
\* such a hole.
Round(t) ==
    /\ \A m \in ToSet(todo[t]) : m \notin There
    /\ used[t] \subseteq ByRule(t)
    /\ \A n \in Holed(t) : n \in ToSet(plan[t]) \/ <<n, Rule(n, There)>> \in used[t]
    /\ \A n \in ToSet(plan[t]) : n \in Weighted(cell[t]) \/ (n \in There /\ BesideHole(n, t))

\* bridge_for has the best of the axes it is through with.
Choosing(t) ==
    /\ pc[t] \in Asking \cup {"choose"} => Head(todo[t]) \in ToSet(plan[t])
    /\ pc[t] \in Asking =>
          /\ IsBest(Head(todo[t]), {a \in Able(Head(todo[t]), There) : a < axis[t]}, best[t])
          /\ up[t] => Below(Head(todo[t]), axis[t]) \in There
    /\ pc[t] = "choose" => IsBest(Head(todo[t]), Able(Head(todo[t]), There), best[t])
    /\ pc[t] = "found" => Neighbour(t) \in There

\* What thread t keeps, where it is.
RoundAt(t) == (pc[t] \in Bridging \cup {"fetch"} => Round(t)) /\ Choosing(t)

\* Every thread's round goes by the rule.
RInv == Truth /\ \A t \in Thread : RoundAt(t)

\* The whole invariant: the rule is kept as long as no file has vanished.
GInv == IInv /\ TInv /\ (vanished = 0 => RInv)

\* Files that stay are the same files.
LEMMA ThereSame == file' = file => There' = There
BY DEF There

\* A thread that stays where it is keeps its round.
LEMMA RoundSame ==
    ASSUME NEW u \in Thread, RoundAt(u), file' = file,
           pc'[u] = pc[u], cell'[u] = cell[u], plan'[u] = plan[u], todo'[u] = todo[u],
           axis'[u] = axis[u], up'[u] = up[u], best'[u] = best[u], used'[u] = used[u]
    PROVE  RoundAt(u)'
<1>1. There' = There
  BY ThereSame
<1>2. Holed(u)' = Holed(u) /\ ByRule(u)' = ByRule(u) /\ Neighbour(u)' = Neighbour(u)
  BY <1>1 DEF Holed, ByRule, Neighbour
<1>3. \A n : BesideHole(n, u)' <=> BesideHole(n, u)
  BY <1>2 DEF BesideHole
<1>4. Round(u)' <=> Round(u)
  BY <1>1, <1>2, <1>3 DEF Round
<1>5. Choosing(u)' <=> Choosing(u)
  BY <1>1, <1>2 DEF Choosing
<1> QED BY <1>4, <1>5 DEF RoundAt

\* A thread that is between rounds has nothing to keep.
LEMMA Outside ==
    ASSUME NEW t, pc'[t] \in {"idle", "plan", "missing"}
    PROVE  RoundAt(t)'
BY DEF RoundAt, Choosing, Asking, Bridging

\* A round that has just begun: the holes known and the corners that count.
LEMMA RoundBegins ==
    ASSUME GInv, NEW t \in Thread, Plan(t)
    PROVE  RoundAt(t)'
<1>0. TypeOK /\ PlacedAt(t) /\ absent \cap There = {}
  BY DEF GInv, IInv, TInv, Placed, HolesAreHoles
<1>1. cell[t] \in Cells /\ cell[t].nodes \in Seq(Node)
  BY <1>0, LayoutAssumption DEF Plan, PlacedAt
<1>2. There' = There /\ cell' = cell /\ used'[t] = {} /\ pc'[t] \in {"fetch", "bridge"}
  BY <1>0, ThereSame DEF Plan, disk, TypeOK
<1>3. /\ plan'[t] = Only(cell[t].nodes, Node \ cell[t].zero)
      /\ todo'[t] = Only(cell[t].nodes, absent)
  BY <1>0 DEF Plan, TypeOK
<1>4. /\ ToSet(plan'[t]) = ToSet(cell[t].nodes) \cap (Node \ cell[t].zero)
      /\ ToSet(todo'[t]) = ToSet(cell[t].nodes) \cap absent
  BY <1>1, <1>3, OnlyNodes
<1>5. ToSet(plan'[t]) = Weighted(cell[t])
  BY <1>1, <1>4 DEF Weighted, ToSet
<1>6. Holed(t)' = Weighted(cell[t]) \ There
  BY <1>2 DEF Holed
<1>7. Round(t)'
  BY <1>0, <1>2, <1>4, <1>5, <1>6 DEF Round
<1> QED BY <1>2, <1>7 DEF RoundAt, Choosing, Asking

\* A hole bridged by the rule.
LEMMA RoundApplies ==
    ASSUME TInv, NEW t \in Thread, pc[t] \in Bridging, Round(t), Head(todo[t]) \in ToSet(plan[t]),
           NEW a, a \in Able(Head(todo[t]), There), a = Rule(Head(todo[t]), There),
           Apply(t, a), cell' = cell, file' = file
    PROVE  RoundAt(t)'
<1> DEFINE m == Head(todo[t])
           moved == WithNode(WithNode(Only(plan[t], Node \ {m}), Below(m, a)), Above(m, a))
<1>0. /\ TypeOK /\ m \in Node /\ todo[t] \in Seq(Node) /\ todo[t] # <<>> /\ plan[t] \in Seq(Node)
      /\ a \in Interior(m) /\ Below(m, a) \in There /\ Above(m, a) \in There
  BY AtHole DEF TInv, TypeOK, Able
<1>1. There' = There
  BY ThereSame
<1>2. /\ plan'[t] = moved /\ used'[t] = used[t] \cup {<<m, a>>} /\ todo'[t] = Tail(todo[t])
      /\ pc'[t] \in {"fetch", "bridge"} /\ cell'[t] = cell[t]
  BY <1>0 DEF Apply, TypeOK
<1>3. ToSet(moved) = (ToSet(plan[t]) \ {m}) \cup {Below(m, a), Above(m, a)}
  BY <1>0, WeightMoves
<1>4. ToSet(Tail(todo[t])) \subseteq ToSet(todo[t]) /\ m \in ToSet(todo[t])
  BY <1>0, ListTypes
<1>5. m \in Holed(t)
  BY <1>4 DEF Round, Holed
<1>6. Holed(t)' = Holed(t) /\ ByRule(t)' = ByRule(t)
  BY <1>1, <1>2 DEF Holed, ByRule
<1>7. \A n : BesideHole(n, t)' <=> BesideHole(n, t)
  BY <1>6 DEF BesideHole
<1>8. BesideHole(Below(m, a), t) /\ BesideHole(Above(m, a), t)
  BY <1>0, <1>5 DEF BesideHole
<1> HIDE DEF moved
<1>9. used'[t] \subseteq ByRule(t)
  BY <1>2, <1>5 DEF Round, ByRule
<1>10. \A n \in Holed(t) : n \in ToSet(plan'[t]) \/ <<n, Rule(n, There)>> \in used'[t]
  <2>1. ASSUME NEW n \in Holed(t) PROVE n \in ToSet(plan'[t]) \/ <<n, Rule(n, There)>> \in used'[t]
    <3>1. CASE n = m
      BY <1>2, <3>1
    <3>2. CASE n # m
      BY <1>2, <1>3, <3>2 DEF Round
    <3> QED BY <3>1, <3>2
  <2> QED BY <2>1
<1>11. \A n \in ToSet(plan'[t]) : n \in Weighted(cell[t]) \/ (n \in There /\ BesideHole(n, t))
  BY <1>0, <1>2, <1>3, <1>8 DEF Round
<1>12. \A n \in ToSet(todo'[t]) : n \notin There
  BY <1>2, <1>4 DEF Round
<1>13. Round(t)'
  BY <1>1, <1>2, <1>6, <1>7, <1>9, <1>10, <1>11, <1>12 DEF Round
<1> QED BY <1>2, <1>13 DEF RoundAt, Choosing, Asking

\* Nothing but what bridge_for is at changes.
LEMMA RoundGoesOn ==
    ASSUME NEW t \in Thread, Round(t), file' = file,
           cell' = cell, plan' = plan, todo' = todo, used' = used
    PROVE  Round(t)'
<1>1. There' = There
  BY ThereSame
<1>2. Holed(t)' = Holed(t) /\ ByRule(t)' = ByRule(t)
  BY <1>1 DEF Holed, ByRule
<1>3. \A n : BesideHole(n, t)' <=> BesideHole(n, t)
  BY <1>2 DEF BesideHole
<1> QED BY <1>1, <1>2, <1>3 DEF Round

\* bridge_for begins with the first axis.
LEMMA RoundLooks ==
    ASSUME TInv, NEW t \in Thread, pc[t] = "bridge", RoundAt(t), Head(todo[t]) \in ToSet(plan[t]),
           NextAxis(t, 0), file' = file,
           cell' = cell, plan' = plan, todo' = todo, used' = used, best' = best
    PROVE  RoundAt(t)'
<1> DEFINE m == Head(todo[t])
<1>0. TypeOK /\ m \in Node /\ best[t] = 0 /\ Round(t) /\ There' = There
  BY AtHole, ThereSame DEF TInv, Placed, PlacedAt, Bridging, Asking, RoundAt
<1>1. \/ pc'[t] = "choose" /\ AxesAfter(m, 0) = {}
      \/ /\ pc'[t] = "look" /\ ~up'[t]
         /\ \A b \in Interior(m) : b < axis'[t] <=> b <= 0
  BY <1>0, NextAxisPlaces
<1>2. Round(t)'
  BY <1>0, RoundGoesOn
<1>3. Able(m, There) \subseteq Interior(m) /\ Interior(m) \subseteq Nat \ {0}
  BY InteriorTypes DEF Able
<1>4. CASE pc'[t] = "choose" /\ AxesAfter(m, 0) = {}
  <2>1. Able(m, There) = {}
    BY <1>3, <1>4 DEF AxesAfter
  <2>2. IsBest(m, Able(m, There), 0)
    BY <2>1 DEF IsBest
  <2>3. Choosing(t)'
    BY <1>0, <1>4, <2>2 DEF Choosing, Asking
  <2> QED BY <1>2, <2>3 DEF RoundAt
<1>5. CASE pc'[t] = "look" /\ ~up'[t] /\ \A b \in Interior(m) : b < axis'[t] <=> b <= 0
  <2>1. {a \in Able(m, There) : a < axis'[t]} = {}
    BY <1>3, <1>5
  <2>2. IsBest(m, {a \in Able(m, There) : a < axis'[t]}, 0)
    BY <2>1 DEF IsBest
  <2>3. Choosing(t)'
    BY <1>0, <1>5, <2>2 DEF Choosing, Asking
  <2> QED BY <1>2, <2>3 DEF RoundAt
<1> QED BY <1>1, <1>4, <1>5

\* bridge_for hears whether the neighbour it asked for has a file.
LEMMA RoundAnswers ==
    ASSUME TInv, NEW t \in Thread, pc[t] \in Asking, RoundAt(t),
           NEW p \in BOOLEAN, p <=> Neighbour(t) \in There, Answer(t, p), file' = file,
           cell' = cell, plan' = plan, todo' = todo, used' = used
    PROVE  RoundAt(t)'
<1> DEFINE m == Head(todo[t])  c == axis[t]  A == Able(m, There)
<1>0. /\ TypeOK /\ m \in Node /\ Round(t) /\ There' = There
      /\ c \in Interior(m) /\ c \in Nat /\ m \in ToSet(plan[t])
      /\ IsBest(m, {a \in A : a < c}, best[t])
      /\ up[t] => Below(m, c) \in There
      /\ pc[t] \in Bridging /\ up[t] \in BOOLEAN
  BY AtHole, ThereSame DEF TInv, TypeOK, Bridging, Asking, RoundAt, Choosing
<1>1. Round(t)'
  BY <1>0, RoundGoesOn
<1>2. A \subseteq Interior(m) /\ Interior(m) \subseteq Nat \ {0}
  BY InteriorTypes DEF Able
<1>3. CASE p /\ ~up[t]
  <2>1. /\ up' = [up EXCEPT ![t] = TRUE] /\ pc' = [pc EXCEPT ![t] = "look"]
        /\ axis' = axis /\ best' = best
    BY <1>3 DEF Answer
  <2>2. Below(m, c) \in There
    BY <1>3 DEF Neighbour
  <2>3. pc'[t] = "look"
    BY <1>0, <2>1 DEF TypeOK
  <2>4. Choosing(t)'
    BY <1>0, <2>1, <2>2, <2>3 DEF Choosing, Asking
  <2> QED BY <1>1, <2>4 DEF RoundAt
<1>4. CASE ~(p /\ ~up[t])
  <2> DEFINE b == IF p /\ (best[t] = 0 \/ Narrower(m, c, best[t])) THEN c ELSE best[t]
  <2>1. best' = [best EXCEPT ![t] = b] /\ NextAxis(t, c)
    BY <1>4 DEF Answer
  <2>2. best'[t] = b
    BY <1>0, <2>1 DEF TypeOK
  <2>3. c \in A <=> p
    BY <1>0, <1>4 DEF Neighbour, Able
  <2>4. IsBest(m, {a \in A : a <= c}, b)
    <3> DEFINE S == {a \in A : a < c}
    <3>1. CASE p
      <4>1. {a \in A : a <= c} = S \cup {c}
        BY <1>0, <1>2, <2>3, <3>1
      <4>2. S \in SUBSET Interior(m) /\ \A a \in S : a < c
        BY <1>2
      <4>3. IsBest(m, S \cup {c}, IF best[t] = 0 \/ Narrower(m, c, best[t]) THEN c ELSE best[t])
        <5> HIDE DEF S
        <5> QED BY <1>0, <4>2, BestSoFar DEF S
      <4>4. b = IF best[t] = 0 \/ Narrower(m, c, best[t]) THEN c ELSE best[t]
        BY <3>1
      <4> QED BY <4>1, <4>3, <4>4
    <3>2. CASE ~p
      <4>1. {a \in A : a <= c} = S
        BY <1>0, <1>2, <2>3, <3>2
      <4>2. b = best[t]
        BY <3>2
      <4> QED BY <1>0, <4>1, <4>2
    <3> QED BY <3>1, <3>2
  <2>5. \/ pc'[t] = "choose" /\ AxesAfter(m, c) = {}
        \/ /\ pc'[t] = "look" /\ ~up'[t]
           /\ \A a \in Interior(m) : a < axis'[t] <=> a <= c
    BY <1>0, <2>1, NextAxisPlaces
  <2> HIDE DEF b
  <2>6. CASE pc'[t] = "choose" /\ AxesAfter(m, c) = {}
    <3>1. \A a \in A : a <= c
      BY <1>0, <1>2, <2>6 DEF AxesAfter
    <3>2. {a \in A : a <= c} = A
      BY <3>1
    <3>3. Choosing(t)'
      BY <1>0, <2>2, <2>4, <2>6, <3>2 DEF Choosing, Asking
    <3> QED BY <1>1, <3>3 DEF RoundAt
  <2>7. CASE pc'[t] = "look" /\ ~up'[t] /\ \A a \in Interior(m) : a < axis'[t] <=> a <= c
    <3>1. {a \in A : a < axis'[t]} = {a \in A : a <= c}
      BY <1>2, <2>7
    <3>2. Choosing(t)'
      BY <1>0, <2>2, <2>4, <2>7, <3>1 DEF Choosing, Asking
    <3> QED BY <1>1, <3>2 DEF RoundAt
  <2> QED BY <2>5, <2>6, <2>7
<1> QED BY <1>3, <1>4

\* A step of thread t can only disturb the round of t.
LEMMA StepRounds ==
    ASSUME TInv, RInv, NEW t \in Thread, Step(t), Truth', RoundAt(t)'
    PROVE  RInv'
<1>1. ASSUME NEW u \in Thread PROVE RoundAt(u)'
  <2>1. CASE u = t
    BY <2>1
  <2>2. CASE u # t
    BY <2>2, StepFrame, RoundSame DEF TInv, RInv
  <2> QED BY <2>1, <2>2
<1> QED BY <1>1 DEF RInv

\* A table and files that stay are as true as they were.
LEMMA TruthSame ==
    Truth /\ file' = file /\ UNCHANGED <<cached, absent, probed, bridges>> => Truth'
BY ThereSame DEF Truth

\* A node that is gone goes on record as such.
LEMMA TruthRegisters ==
    ASSUME TypeOK, Truth, NEW n \in Node \ There, RegisterAbsent(n), file' = file, cached' = cached
    PROVE  Truth'
<1>1. There' = There
  BY ThereSame
<1>2. \A k \in Node : probed'[k] = IF k = n THEN "no" ELSE probed[k]
  BY DEF RegisterAbsent, TypeOK
<1>3. \A k \in Node : (probed'[k] = "yes" => k \in There) /\ (probed'[k] = "no" => k \notin There)
  BY <1>2 DEF Truth
<1>4. bridges' = bridges \/ bridges' = <<>>
  BY DEF RegisterAbsent
<1>5. \A i \in DOMAIN bridges' :
          /\ bridges'[i][1] \notin There
          /\ bridges'[i][2] = Rule(bridges'[i][1], There)
          /\ bridges'[i][2] \in Able(bridges'[i][1], There)
  <2>1. CASE bridges' = bridges
    BY <2>1 DEF Truth
  <2>2. CASE bridges' = <<>>
    BY <2>2
  <2> QED BY <1>4, <2>1, <2>2
<1> QED BY <1>1, <1>3, <1>5 DEF Truth

\* As long as no file vanishes, every step keeps the rounds by the rule.
LEMMA NextRInv ==
    ASSUME GInv, Next, vanished' = 0
    PROVE  RInv'
<1> USE DEF disk, table, local
<1>0. /\ TInv /\ TypeOK /\ IInv /\ FoundGone /\ absent \cap There = {}
      /\ \A t \in Thread : PlacedAt(t)
  BY DEF GInv, TInv, IInv, Placed, HolesAreHoles
<1>a. vanished = 0
  <2>1. CASE \E t \in Thread : Step(t)
    BY <1>0, <2>1, StepFrame
  <2>2. CASE \E t \in Thread, c \in Cells : Load(t, c)
    BY <2>2 DEF Load
  <2>3. CASE \E n \in Node : Vanish(n) \/ Evict(n)
    BY <1>0, <2>3, LayoutAssumption DEF Vanish, Evict, TypeOK
  <2> QED BY <2>1, <2>2, <2>3 DEF Next
<1>b. RInv /\ Truth /\ \A t \in Thread : RoundAt(t)
  BY <1>a DEF GInv, RInv
<1>1. ASSUME NEW t \in Thread, NEW c \in Cells, Load(t, c) PROVE RInv'
  <2>1. file' = file /\ UNCHANGED <<cached, absent, probed, bridges>> /\ pc'[t] = "plan"
    BY <1>0, <1>1 DEF Load, TypeOK
  <2>2. Truth'
    BY <1>b, <2>1, TruthSame
  <2>3. ASSUME NEW u \in Thread PROVE RoundAt(u)'
    <3>1. CASE u = t
      BY <2>1, <3>1, Outside
    <3>2. CASE u # t
      <4>1. /\ pc'[u] = pc[u] /\ cell'[u] = cell[u] /\ plan'[u] = plan[u] /\ todo'[u] = todo[u]
            /\ axis'[u] = axis[u] /\ up'[u] = up[u] /\ best'[u] = best[u] /\ used'[u] = used[u]
        BY <1>0, <1>1, <3>2 DEF Load, TypeOK
      <4> QED BY <1>b, <2>1, <4>1, RoundSame
    <3> QED BY <3>1, <3>2
  <2> QED BY <2>2, <2>3 DEF RInv
<1>2. ASSUME NEW t \in Thread, Plan(t) PROVE RInv'
  <2>1. Truth'
    BY <1>2, <1>b, TruthSame DEF Plan
  <2>2. Step(t)
    BY <1>2 DEF Step
  <2> QED BY <1>0, <1>2, <1>b, <2>1, <2>2, RoundBegins, StepRounds
<1>3. ASSUME NEW t \in Thread, Skip(t) PROVE RInv'
  <2>1. Truth' /\ Step(t)
    BY <1>3, <1>b, TruthSame DEF Skip, Step
  <2>2. /\ cell' = cell /\ plan' = plan /\ used' = used /\ todo'[t] = Tail(todo[t])
        /\ pc'[t] \in {"bridge", "fetch"} /\ file' = file
    BY <1>0, <1>3 DEF Skip, TypeOK
  <2>3. There' = There /\ Round(t)
    BY <1>3, <1>b, <2>2, ThereSame DEF Skip, RoundAt, Bridging
  <2>4. ToSet(Tail(todo[t])) \subseteq ToSet(todo[t])
    BY <1>0, <1>3, AtHole, ListTypes DEF Skip, Bridging
  <2>5. Holed(t)' = Holed(t) /\ ByRule(t)' = ByRule(t)
    BY <2>2, <2>3 DEF Holed, ByRule
  <2>6. \A n : BesideHole(n, t)' <=> BesideHole(n, t)
    BY <2>5 DEF BesideHole
  <2>7. Round(t)'
    BY <2>2, <2>3, <2>4, <2>5, <2>6 DEF Round
  <2>8. RoundAt(t)'
    BY <2>2, <2>7 DEF RoundAt, Choosing, Asking
  <2> QED BY <1>0, <1>b, <2>1, <2>8, StepRounds
<1>4. ASSUME NEW t \in Thread, Lookup(t) PROVE RInv'
  <2> DEFINE m == Head(todo[t])  onrecord == BridgesOf(m)
  <2>0. /\ pc[t] = "bridge" /\ pc[t] \in Bridging /\ Round(t) /\ Step(t)
        /\ UNCHANGED <<file, vanished, cached, absent, bridges, probed, cell, loads, outcome>>
        /\ plan[t] \in Seq(Node) /\ Contains(plan[t], m)
    BY <1>0, <1>4, <1>b DEF Lookup, Bridging, RoundAt, Step, TypeOK
  <2>1. Truth' /\ m \in ToSet(plan[t])
    BY <1>b, <2>0, TruthSame, ContainsIs
  <2>2. CASE onrecord # {}
    <3>1. Apply(t, bridges[FirstOf(onrecord)][2])
      BY <1>4, <2>2 DEF Lookup
    <3>2. FirstOf(onrecord) \in onrecord
      <4>1. onrecord \in SUBSET Nat
        BY <1>0 DEF BridgesOf, TypeOK
      <4> HIDE DEF onrecord
      <4>2. \E x \in onrecord : \A y \in onrecord : x <= y
        BY <2>2, <4>1, LeastNatural
      <4> QED BY <4>2 DEF FirstOf
    <3> DEFINE a == bridges[FirstOf(onrecord)][2]
    <3>3. a \in Able(m, There) /\ a = Rule(m, There)
      BY <1>b, <3>2 DEF BridgesOf, Truth
    <3> HIDE DEF a, onrecord
    <3>4. RoundAt(t)'
      BY <1>0, <2>0, <2>1, <3>1, <3>3, RoundApplies DEF a
    <3> QED BY <1>0, <1>b, <2>0, <2>1, <3>4, StepRounds
  <2>3. CASE onrecord = {}
    <3>1. NextAxis(t, 0) /\ UNCHANGED <<best, plan, used, todo>>
      BY <1>4, <2>3 DEF Lookup
    <3>2. RoundAt(t)'
      BY <1>0, <1>b, <2>0, <2>1, <3>1, RoundLooks
    <3> QED BY <1>0, <1>b, <2>0, <2>1, <3>2, StepRounds
  <2> QED BY <2>2, <2>3
<1>5. ASSUME NEW t \in Thread, Look(t) PROVE RInv'
  <2> DEFINE n == Neighbour(t)
  <2>0. /\ pc[t] = "look" /\ pc[t] \in Asking /\ Step(t)
        /\ UNCHANGED <<file, vanished, cached, absent, bridges, probed, cell, plan, todo, used, loads, outcome>>
    BY <1>5 DEF Look, Asking, Step
  <2>1. Truth' /\ n \in Node
    BY <1>0, <1>b, <2>0, TruthSame, AtHole
  <2>2. CASE n \in absent
    <3>1. Answer(t, FALSE) /\ n \notin There
      BY <1>0, <1>5, <2>2 DEF Look
    <3>2. RoundAt(t)'
      BY <1>0, <1>b, <2>0, <3>1, RoundAnswers
    <3> QED BY <1>0, <1>b, <2>0, <2>1, <3>2, StepRounds
  <2>3. CASE n \notin absent /\ probed[n] # "unknown"
    <3>1. Answer(t, probed[n] = "yes")
      BY <1>5, <2>3 DEF Look
    <3>2. (probed[n] = "yes") \in BOOLEAN /\ ((probed[n] = "yes") <=> n \in There)
      BY <1>0, <1>b, <2>1, <2>3 DEF Truth, TypeOK
    <3>3. PICK p \in BOOLEAN : p = (probed[n] = "yes")
      BY <3>2
    <3>4. RoundAt(t)'
      BY <1>0, <1>b, <2>0, <3>1, <3>2, <3>3, RoundAnswers
    <3> QED BY <1>0, <1>b, <2>0, <2>1, <3>4, StepRounds
  <2>4. CASE n \notin absent /\ probed[n] = "unknown"
    <3>1. pc' = [pc EXCEPT ![t] = "probe"] /\ UNCHANGED <<axis, up, best>>
      BY <1>5, <2>4 DEF Look
    <3>2. Round(t)' /\ There' = There
      BY <1>b, <2>0, RoundGoesOn, ThereSame DEF RoundAt, Bridging
    <3>3. pc'[t] = "probe"
      BY <1>0, <3>1 DEF TypeOK
    <3>4. RoundAt(t)'
      BY <1>b, <2>0, <3>1, <3>2, <3>3 DEF RoundAt, Choosing, Asking
    <3> QED BY <1>0, <1>b, <2>0, <2>1, <3>4, StepRounds
  <2> QED BY <2>2, <2>3, <2>4
<1>6. ASSUME NEW t \in Thread, Probe(t) PROVE RInv'
  <2>0. /\ pc[t] = "probe" /\ UNCHANGED <<file, vanished, cached, absent, bridges, probed>> /\ Step(t)
    BY <1>6 DEF Probe, Step
  <2>1. Truth'
    BY <1>b, <2>0, TruthSame
  <2>2. CASE Finish(t, "failed")
    <3>1. pc'[t] = "idle"
      BY <1>0, <2>2 DEF Finish, TypeOK
    <3> QED BY <1>0, <1>b, <2>0, <2>1, <3>1, Outside, StepRounds
  <2>3. CASE /\ UNCHANGED local
             /\ \/ pc' = [pc EXCEPT ![t] = "lost"]
                \/ pc' = [pc EXCEPT ![t] = "found"] /\ file[Neighbour(t)] # "gone"
    <3>1. Round(t)' /\ There' = There /\ Neighbour(t)' = Neighbour(t)
      BY <1>b, <2>0, <2>3, RoundGoesOn, ThereSame DEF RoundAt, Bridging, Asking, Neighbour
    <3>2. pc'[t] = "lost" \/ (pc'[t] = "found" /\ Neighbour(t) \in There)
      BY <1>0, <2>0, <2>3, AtHole DEF TypeOK, There, Asking
    <3>3. RoundAt(t)'
      BY <1>b, <2>0, <2>3, <3>1, <3>2 DEF RoundAt, Choosing, Asking
    <3> QED BY <1>0, <1>b, <2>0, <2>1, <3>3, StepRounds
  <2> QED BY <1>6, <2>2, <2>3 DEF Probe
<1>7. ASSUME NEW t \in Thread, NoteLost(t) PROVE RInv'
  <2>0. /\ pc[t] \in Asking /\ Neighbour(t) \in Node \ There /\ Step(t)
        /\ RegisterAbsent(Neighbour(t)) /\ Answer(t, FALSE)
        /\ UNCHANGED <<file, vanished, cached, cell, plan, todo, used, loads, outcome>>
    BY <1>0, <1>7, AtHole DEF NoteLost, Asking, Step, FoundGone
  <2>1. Truth'
    BY <1>0, <1>b, <2>0, TruthRegisters
  <2>2. RoundAt(t)'
    BY <1>0, <1>b, <2>0, RoundAnswers
  <2> QED BY <1>0, <1>b, <2>0, <2>1, <2>2, StepRounds
<1>8. ASSUME NEW t \in Thread, NoteFound(t) PROVE RInv'
  <2>0. /\ pc[t] \in Asking /\ Neighbour(t) \in Node /\ Neighbour(t) \in There /\ Step(t) /\ Answer(t, TRUE)
        /\ probed' = [probed EXCEPT ![Neighbour(t)] = "yes"]
        /\ UNCHANGED <<file, vanished, cached, absent, bridges, cell, plan, todo, used, loads, outcome>>
    BY <1>0, <1>8, <1>b, AtHole DEF NoteFound, Asking, Step, RoundAt, Choosing
  <2>1. Truth'
    <3>1. \A k \in Node : probed'[k] = IF k = Neighbour(t) THEN "yes" ELSE probed[k]
      BY <1>0, <2>0 DEF TypeOK
    <3>2. There' = There
      BY <2>0, ThereSame
    <3> QED BY <1>b, <2>0, <3>1, <3>2 DEF Truth
  <2>2. RoundAt(t)'
    BY <1>0, <1>b, <2>0, RoundAnswers
  <2> QED BY <1>0, <1>b, <2>0, <2>1, <2>2, StepRounds
<1>9. ASSUME NEW t \in Thread, ChooseNone(t) PROVE RInv'
  <2>1. Truth' /\ Step(t)
    BY <1>9, <1>b, TruthSame DEF ChooseNone, Step
  <2>2. pc'[t] = "idle"
    BY <1>0, <1>9 DEF ChooseNone, Finish, TypeOK
  <2> QED BY <1>0, <1>b, <2>1, <2>2, Outside, StepRounds
<1>10. ASSUME NEW t \in Thread, Choose(t) PROVE RInv'
  <2> DEFINE m == Head(todo[t])  b == best[t]
  <2>0. /\ pc[t] = "choose" /\ pc[t] \in Bridging /\ m \in Node /\ Round(t) /\ Step(t)
        /\ todo[t] \in Seq(Node) /\ todo[t] # <<>>
        /\ b # 0 /\ Apply(t, b) /\ bridges' = Append(bridges, <<m, b>>)
        /\ UNCHANGED <<file, vanished, cached, absent, probed, cell, loads, outcome>>
    BY <1>0, <1>10, <1>b, AtHole DEF Choose, Bridging, RoundAt, Step
  <2>1. m \in ToSet(plan[t]) /\ IsBest(m, Able(m, There), b)
    BY <1>b, <2>0 DEF RoundAt, Choosing
  <2>2. b \in Able(m, There) /\ b = Rule(m, There)
    BY <2>0, <2>1, BestIsRule DEF IsBest
  <2>3. m \notin There
    BY <2>0, ListTypes DEF Round
  <2>4. RoundAt(t)'
    BY <1>0, <2>0, <2>1, <2>2, RoundApplies
  <2>5. Truth'
    <3> HIDE DEF m, b
    <3>1. bridges \in Seq(Node \X Axis)
      BY <1>0 DEF TypeOK
    <3>2. /\ DOMAIN bridges' = 1..(Len(bridges) + 1) /\ DOMAIN bridges = 1..Len(bridges)
          /\ \A i \in 1..(Len(bridges) + 1) : bridges'[i] = IF i = Len(bridges) + 1 THEN <<m, b>> ELSE bridges[i]
      BY <2>0, <3>1
    <3>3. ASSUME NEW i \in DOMAIN bridges'
          PROVE  /\ bridges'[i][1] \notin There
                 /\ bridges'[i][2] = Rule(bridges'[i][1], There)
                 /\ bridges'[i][2] \in Able(bridges'[i][1], There)
      <4>1. CASE i = Len(bridges) + 1
        <5>1. bridges'[i] = <<m, b>>
          BY <3>2, <4>1
        <5>2. bridges'[i][1] = m /\ bridges'[i][2] = b
          BY <5>1
        <5> QED BY <2>2, <2>3, <5>2
      <4>2. CASE i # Len(bridges) + 1
        <5>1. i \in DOMAIN bridges /\ bridges'[i] = bridges[i]
          BY <3>1, <3>2, <4>2
        <5> QED BY <1>b, <5>1 DEF Truth
      <4> QED BY <4>1, <4>2
    <3>4. There' = There
      BY <2>0, ThereSame
    <3> QED BY <1>b, <2>0, <3>3, <3>4 DEF Truth
  <2> QED BY <1>0, <1>b, <2>0, <2>4, <2>5, StepRounds
<1>11. ASSUME NEW t \in Thread, Fetch(t) PROVE RInv'
  <2> DEFINE n == Head(plan[t])
  <2>0. /\ pc[t] = "fetch" /\ plan[t] \in Seq(Node) /\ plan[t] # <<>> /\ Step(t) /\ Round(t)
        /\ UNCHANGED <<file, vanished, absent, bridges, probed, used, loads>>
        /\ There' = There
    BY <1>0, <1>11, <1>b, ThereSame DEF Fetch, TypeOK, RoundAt, Step
  <2>1. /\ n \in Node /\ ToSet(Tail(plan[t])) \subseteq ToSet(plan[t])
        /\ ToSet(plan[t]) \subseteq {n} \cup ToSet(Tail(plan[t]))
    BY <2>0, ListTypes
  <2>2. CASE /\ n \in cached \/ file[n] = "sound"
             /\ cached' = cached \cup {n} /\ plan' = [plan EXCEPT ![t] = Tail(@)]
             /\ UNCHANGED <<pc, cell, todo, axis, up, best, outcome>>
    <3>1. n \in There
      BY <1>b, <2>1, <2>2 DEF Truth, There
    <3>2. Truth'
      BY <1>b, <2>0, <2>2, <3>1 DEF Truth
    <3>3. plan'[t] = Tail(plan[t])
      BY <1>0, <2>2 DEF TypeOK
    <3>4. Holed(t)' = Holed(t) /\ ByRule(t)' = ByRule(t)
      BY <2>0, <2>2 DEF Holed, ByRule
    <3>5. \A k : BesideHole(k, t)' <=> BesideHole(k, t)
      BY <3>4 DEF BesideHole
    <3>6. n \notin Holed(t)
      BY <3>1 DEF Holed
    <3>7. Round(t)'
      BY <2>0, <2>1, <2>2, <3>3, <3>4, <3>5, <3>6 DEF Round
    <3>8. RoundAt(t)'
      BY <2>0, <2>2, <3>7 DEF RoundAt, Choosing, Asking
    <3> QED BY <1>0, <1>b, <2>0, <3>2, <3>8, StepRounds
  <2>3. CASE pc' = [pc EXCEPT ![t] = "missing"] /\ UNCHANGED cached
    <3>1. pc'[t] = "missing"
      BY <1>0, <2>3 DEF TypeOK
    <3>2. Truth'
      BY <1>b, <2>0, <2>3, TruthSame
    <3> QED BY <1>0, <1>b, <2>0, <3>1, <3>2, Outside, StepRounds
  <2>4. CASE Finish(t, "failed") /\ UNCHANGED cached
    <3>1. pc'[t] = "idle"
      BY <1>0, <2>4 DEF Finish, TypeOK
    <3>2. Truth'
      BY <1>b, <2>0, <2>4, TruthSame
    <3> QED BY <1>0, <1>b, <2>0, <3>1, <3>2, Outside, StepRounds
  <2> QED BY <1>11, <2>2, <2>3, <2>4 DEF Fetch
<1>12. ASSUME NEW t \in Thread, Missing(t) PROVE RInv'
  <2>0. /\ Head(plan[t]) \in Node \ There /\ RegisterAbsent(Head(plan[t])) /\ Step(t)
        /\ file' = file /\ cached' = cached /\ pc'[t] = "plan"
    BY <1>0, <1>12, ListTypes DEF Missing, TypeOK, PlacedAt, FoundGone, Step
  <2>1. Truth'
    BY <1>0, <1>b, <2>0, TruthRegisters
  <2> QED BY <1>0, <1>b, <2>0, <2>1, Outside, StepRounds
<1>13. ASSUME NEW t \in Thread, Complete(t) PROVE RInv'
  <2>1. Truth' /\ Step(t)
    BY <1>13, <1>b, TruthSame DEF Complete, Step
  <2>2. pc'[t] = "idle"
    BY <1>0, <1>13 DEF Complete, Finish, TypeOK
  <2> QED BY <1>0, <1>b, <2>1, <2>2, Outside, StepRounds
<1>14. ASSUME NEW n \in Node, Vanish(n) PROVE RInv'
  BY <1>a, <1>14 DEF Vanish
<1>15. ASSUME NEW n \in Node, Evict(n) PROVE RInv'
  <2>1. There' = There /\ file' = file
    BY <1>15, ThereSame DEF Evict
  <2>2. Truth'
    BY <1>15, <1>b, <2>1 DEF Evict, Truth
  <2>3. \A u \in Thread : RoundAt(u)'
    BY <1>15, <1>b, <2>1, RoundSame DEF Evict
  <2> QED BY <2>2, <2>3 DEF RInv
<1> QED
  BY <1>1, <1>2, <1>3, <1>4, <1>5, <1>6, <1>7, <1>8, <1>9, <1>10, <1>11, <1>12,
     <1>13, <1>14, <1>15 DEF Next, Step

\* The invariant holds at the start.
LEMMA InitGInv == Init => GInv
<1> SUFFICES ASSUME Init PROVE GInv
  OBVIOUS
<1>1. IInv /\ TInv
  BY InitIInv, InitTInv
<1>2. Truth
  BY DEF Init, Truth
<1>3. \A t \in Thread : RoundAt(t)
  BY DEF Init, RoundAt, Choosing, Asking, Bridging
<1> QED BY <1>1, <1>2, <1>3 DEF GInv, RInv

\* It holds on when nothing happens.
LEMMA RInvSame == RInv /\ UNCHANGED vars => RInv'
<1> SUFFICES ASSUME RInv, UNCHANGED vars PROVE RInv'
  OBVIOUS
<1> USE DEF vars, disk, table, local
<1>1. Truth'
  BY TruthSame DEF RInv
<1>2. \A t \in Thread : RoundAt(t)'
  BY RoundSame DEF RInv
<1> QED BY <1>1, <1>2 DEF RInv

\* It is inductive.
LEMMA NextGInv == GInv /\ [Next]_vars => GInv'
<1> SUFFICES ASSUME GInv, [Next]_vars PROVE GInv'
  OBVIOUS
<1>1. IInv' /\ TInv'
  BY NextIInv, NextTInv DEF GInv
<1>2. CASE Next
  BY <1>1, <1>2, NextRInv DEF GInv
<1>3. CASE UNCHANGED vars
  <2>1. vanished' = vanished
    BY <1>3 DEF vars, disk
  <2> QED BY <1>1, <1>3, <2>1, RInvSame DEF GInv
<1> QED BY <1>2, <1>3

\* The invariant the next two theorems follow from.
LEMMA GridAlways == Spec => []GInv
BY InitGInv, NextGInv, PTL DEF Spec

\* Threads that bridge holes keep every variable's type: in particular no bridge
\* ever leans on a node outside the grid.
THEOREM HolesTypes == Spec => []TypeOK
<1>1. GInv => TypeOK
  BY DEF GInv, TInv
<1> QED BY <1>1, GridAlways, PTL

\* The property, for one step and one thread.
ByRuleStep(t) ==
    vanished = 0 =>
        /\ Ends(t, "ok") => used[t] = {<<n, Rule(n, There)>> : n \in Weighted(cell[t]) \ There}
        /\ Ends(t, "failed") => \E n \in Weighted(cell[t]) : Lost(n)

\* The corners that count are nodes.
LEMMA WeightedNodes ==
    ASSUME TypeOK, NEW t \in Thread
    PROVE  Weighted(cell[t]) \subseteq Node
<1>1. cell[t].nodes \in Seq(Node)
  <2>1. CASE cell[t] \in Cells
    BY <2>1, LayoutAssumption
  <2>2. CASE cell[t] = NoCell
    BY <2>2 DEF NoCell
  <2> QED BY <2>1, <2>2 DEF TypeOK
<1> QED BY <1>1 DEF Weighted, ToSet

\* A hole that counts, with no bridge or with a broken file next to it, is lost.
LEMMA HoleLost ==
    ASSUME TypeOK, NEW t \in Thread, NEW m \in Holed(t),
           \/ Rule(m, There) = 0
           \/ \E a \in Interior(m) : file[Below(m, a)] = "broken" \/ file[Above(m, a)] = "broken"
    PROVE  \E k \in Weighted(cell[t]) : Lost(k)
<1>1. m \in Weighted(cell[t]) /\ m \in Node /\ m \notin There
  BY WeightedNodes DEF Holed
<1>2. file[m] = "gone"
  BY <1>1 DEF There
<1> QED BY <1>1, <1>2 DEF Lost

\* So is the need for a broken node among the corners of a round.
LEMMA BrokenCorner ==
    ASSUME TypeOK, NEW t \in Thread, Round(t), NEW n \in ToSet(plan[t]), file[n] = "broken"
    PROVE  \E k \in Weighted(cell[t]) : Lost(k)
<1>1. CASE n \in Weighted(cell[t])
  BY <1>1 DEF Lost
<1>2. CASE n \notin Weighted(cell[t])
  <2>1. PICK m \in Holed(t) : \E a \in Interior(m) : n \in {Below(m, a), Above(m, a)}
    BY <1>2 DEF Round, BesideHole
  <2> QED BY <2>1, HoleLost
<1> QED BY <1>1, <1>2

\* Every step of every thread keeps the promise.
LEMMA StepByRule == GInv /\ [Next]_vars => \A t \in Thread : ByRuleStep(t)
<1> SUFFICES ASSUME GInv, [Next]_vars, NEW t \in Thread, vanished = 0,
                    pc[t] # "idle", pc'[t] = "idle"
             PROVE  /\ outcome'[t] = "ok" =>
                          used[t] = {<<n, Rule(n, There)>> : n \in Weighted(cell[t]) \ There}
                    /\ outcome'[t] = "failed" => \E n \in Weighted(cell[t]) : Lost(n)
  BY DEF ByRuleStep, Ends
<1> USE DEF disk, table, local
<1>0. TInv /\ TypeOK /\ PlacedAt(t) /\ RoundAt(t)
  BY DEF GInv, TInv, Placed, RInv
<1>1. Step(t)
  <2>1. CASE \E u \in Thread : Step(u)
    BY <1>0, <2>1, StepFrame
  <2>2. CASE \E u \in Thread, c \in Cells : Load(u, c)
    BY <1>0, <2>2 DEF Load, TypeOK
  <2>3. CASE (\E n \in Node : Vanish(n) \/ Evict(n)) \/ UNCHANGED vars
    BY <2>3 DEF Vanish, Evict, vars
  <2> QED BY <2>1, <2>2, <2>3 DEF Next
<1> DEFINE m == Head(todo[t])
<1>2. ASSUME pc[t] \in Asking \cup {"choose"} PROVE m \in Holed(t) /\ m \in Node
  <2>1. pc[t] \in Bridging /\ Round(t) /\ m \in ToSet(plan[t])
    BY <1>0, <1>2 DEF RoundAt, Choosing, Bridging
  <2>2. m \in Node /\ m \in ToSet(todo[t])
    BY <1>0, <2>1, AtHole, ListTypes
  <2> QED BY <2>1, <2>2 DEF Round, Holed
<1>3. CASE Probe(t)
  <2>1. outcome'[t] = "failed" /\ pc[t] = "probe" /\ file[Neighbour(t)] = "broken"
    BY <1>0, <1>3 DEF Probe, Finish, TypeOK
  <2>2. m \in Holed(t) /\ axis[t] \in Interior(m)
    BY <1>0, <1>2, <2>1, AtHole DEF Asking
  <2> QED BY <1>0, <2>1, <2>2, HoleLost DEF Neighbour
<1>4. CASE ChooseNone(t)
  <2>1. outcome'[t] = "failed" /\ pc[t] = "choose" /\ best[t] = 0
    BY <1>0, <1>4 DEF ChooseNone, Finish, TypeOK
  <2>2. m \in Holed(t) /\ m \in Node /\ IsBest(m, Able(m, There), 0)
    BY <1>0, <1>2, <2>1 DEF RoundAt, Choosing
  <2>3. Rule(m, There) = 0
    BY <2>2, BestIsRule
  <2> QED BY <1>0, <2>1, <2>2, <2>3, HoleLost
<1>5. CASE Fetch(t)
  <2>1. /\ outcome'[t] = "failed" /\ pc[t] = "fetch" /\ plan[t] \in Seq(Node) /\ plan[t] # <<>>
        /\ file[Head(plan[t])] # "sound" /\ ~NotThere(Head(plan[t]))
    BY <1>0, <1>5 DEF Fetch, Finish, TypeOK
  <2>2. Head(plan[t]) \in ToSet(plan[t]) /\ Head(plan[t]) \in Node
    BY <2>1, ListTypes
  <2>3. file[Head(plan[t])] = "broken"
    BY <1>0, <2>1, <2>2 DEF TypeOK, File, NotThere
  <2> QED BY <1>0, <2>1, <2>2, <2>3, BrokenCorner DEF RoundAt
<1>6. CASE Complete(t)
  <2>1. outcome'[t] = "ok" /\ pc[t] = "fetch" /\ plan[t] = <<>>
    BY <1>0, <1>6 DEF Complete, Finish, TypeOK
  <2>2. Round(t) /\ ToSet(plan[t]) = {}
    BY <1>0, <2>1 DEF RoundAt, ToSet
  <2>3. used[t] = ByRule(t)
    BY <2>2 DEF Round, ByRule
  <2> QED BY <2>1, <2>3 DEF ByRule, Holed
<1>7. CASE Plan(t) \/ Skip(t) \/ Lookup(t) \/ Look(t) \/ NoteLost(t) \/ NoteFound(t) \/ Choose(t) \/ Missing(t)
  <2>1. CASE Plan(t) \/ Skip(t) \/ Choose(t) \/ Missing(t)
    BY <1>0, <2>1 DEF Plan, Skip, Choose, Apply, Missing, TypeOK
  <2>2. CASE Lookup(t)
    BY <1>0, <2>2 DEF Lookup, Apply, NextAxis, TypeOK
  <2>3. CASE Look(t)
    BY <1>0, <2>3 DEF Look, Answer, NextAxis, TypeOK
  <2>4. CASE NoteLost(t) \/ NoteFound(t)
    BY <1>0, <2>4 DEF NoteLost, NoteFound, Answer, NextAxis, TypeOK
  <2> QED BY <1>7, <2>1, <2>2, <2>3, <2>4
<1> QED BY <1>1, <1>3, <1>4, <1>5, <1>6, <1>7 DEF Step

\* A model is interpolated across the holes among the corners that count, all of
\* them and nothing else, each along the axis the rule names, whatever other
\* threads probe, find and put on record meanwhile, for any grid, cell, file
\* tree and number of threads; and an evaluation fails only for want of a file
\* that its own cell needs.
THEOREM HolesByTheRule == Spec => ModelByTheRule
<1>1. GInv /\ [Next]_vars => [\A t \in Thread : ByRuleStep(t)]_vars
  BY StepByRule
<1>2. Spec => [][\A t \in Thread : ByRuleStep(t)]_vars
  BY <1>1, GridAlways, PTL DEF Spec
<1> QED BY <1>2 DEF ModelByTheRule, ByRuleStep

-----------------------------------------------------------------------------
(* ModelCache.                                                             *)

\* A cached model leans on the holes its grid has next to its parameters.
ModelsKeyed ==
    \A p \in Param : model[p] \in Model => model[p].across = Under[model[p].grid][p]

\* What was on record when an evaluation began still is, and is in the fit's
\* log once the fit has noted it.
Noted ==
    \A f \in Fit : /\ knew[f] \subseteq known
                   /\ stage[f] # "note" => Holes(f) \cap knew[f] \subseteq log[f]

\* A fit keeps the model it was given until its next evaluation begins.
GotKeyed ==
    \A f \in Fit : got[f] # NoModel => /\ stage[f] = "idle"
                                       /\ got[f].across = Under[got[f].grid][at[f]]

ModelsInv == ModelsTypeOK /\ ModelsKeyed /\ Noted /\ GotKeyed

LEMMA HolesType == ModelsTypeOK => \A f \in Fit : Holes(f) \in SUBSET Hole
BY ModelAssumption DEF ModelsTypeOK, Holes

LEMMA ModelsInitially == ModelsInit => ModelsInv
BY ModelAssumption DEF ModelsInit, ModelsInv, ModelsTypeOK, ModelsKeyed, Noted, GotKeyed, Model

LEMMA ModelsStep == ModelsInv /\ [ModelsNext]_mvars => ModelsInv'
<1> SUFFICES ASSUME ModelsInv, [ModelsNext]_mvars PROVE ModelsInv'
  OBVIOUS
<1> USE ModelAssumption DEF ModelsInv
<1>t. \A f \in Fit : Holes(f) \in SUBSET Hole
  BY HolesType
<1>1. ASSUME NEW f \in Fit, NEW p \in Param, Evaluate(f, p) PROVE ModelsInv'
  <2>1. ModelsTypeOK'
    BY <1>1 DEF Evaluate, ModelsTypeOK
  <2>2. ModelsKeyed'
    BY <1>1 DEF Evaluate, ModelsKeyed
  <2>3. Noted'
    BY <1>1 DEF Evaluate, ModelsTypeOK, Noted, Holes
  <2>4. GotKeyed'
    BY <1>1 DEF Evaluate, ModelsTypeOK, GotKeyed
  <2> QED BY <2>1, <2>2, <2>3, <2>4
<1>2. ASSUME NEW f \in Fit, Note(f) PROVE ModelsInv'
  <2>1. ModelsTypeOK'
    BY <1>2, <1>t DEF Note, ModelsTypeOK
  <2>2. ModelsKeyed'
    BY <1>2 DEF Note, ModelsKeyed
  <2>3. Noted'
    BY <1>2 DEF Note, ModelsTypeOK, Noted, Holes
  <2>4. GotKeyed'
    BY <1>2 DEF Note, ModelsTypeOK, GotKeyed
  <2> QED BY <2>1, <2>2, <2>3, <2>4
<1>3. ASSUME NEW f \in Fit, Claim(f) PROVE ModelsInv'
  <2>1. ModelsTypeOK'
    BY <1>3 DEF Claim, ModelsTypeOK
  <2>2. ModelsKeyed'
    BY <1>3 DEF Claim, ModelsTypeOK, ModelsKeyed
  <2>3. Noted'
    BY <1>3 DEF Claim, ModelsTypeOK, Noted, Holes
  <2>4. GotKeyed'
    BY <1>3 DEF Claim, ModelsTypeOK, GotKeyed
  <2> QED BY <2>1, <2>2, <2>3, <2>4
<1>4. ASSUME NEW f \in Fit, Take(f) PROVE ModelsInv'
  <2>1. ModelsTypeOK'
    BY <1>4 DEF Take, ModelsTypeOK
  <2>2. ModelsKeyed'
    BY <1>4 DEF Take, ModelsKeyed
  <2>3. Noted'
    BY <1>4 DEF Take, ModelsTypeOK, Noted, Holes
  <2>4. GotKeyed'
    BY <1>4 DEF Take, ModelsTypeOK, GotKeyed, ModelsKeyed
  <2> QED BY <2>1, <2>2, <2>3, <2>4
<1>5. ASSUME NEW f \in Fit, NEW h \in Hole, Discover(f, h) PROVE ModelsInv'
  <2>1. ModelsTypeOK'
    BY <1>5 DEF Discover, ModelsTypeOK
  <2>2. ModelsKeyed'
    BY <1>5 DEF Discover, ModelsKeyed
  <2>3. Noted'
    BY <1>5 DEF Discover, ModelsTypeOK, Noted, Holes
  <2>4. GotKeyed'
    BY <1>5 DEF Discover, ModelsTypeOK, GotKeyed
  <2> QED BY <2>1, <2>2, <2>3, <2>4
<1>6. ASSUME NEW f \in Fit, Record(f) PROVE ModelsInv'
  <2>1. ModelsTypeOK'
    BY <1>6, <1>t DEF Record, ModelsTypeOK
  <2>2. ModelsKeyed'
    BY <1>6 DEF Record, ModelsKeyed
  <2>3. Noted'
    BY <1>6 DEF Record, ModelsTypeOK, Noted, Holes
  <2>4. GotKeyed'
    BY <1>6 DEF Record, ModelsTypeOK, GotKeyed
  <2> QED BY <2>1, <2>2, <2>3, <2>4
<1>7. ASSUME NEW f \in Fit, Publish(f) PROVE ModelsInv'
  <2>0. got'[f] = [grid |-> GridOf[f], across |-> Holes(f)] /\ got'[f] \in Model
    BY <1>7, <1>t DEF Publish, ModelsTypeOK, Model
  <2>1. ModelsTypeOK'
    BY <1>7, <2>0 DEF Publish, ModelsTypeOK
  <2>2. ModelsKeyed'
    BY <1>7, <2>0 DEF Publish, ModelsTypeOK, ModelsKeyed, Holes
  <2>3. Noted'
    BY <1>7 DEF Publish, ModelsTypeOK, Noted, Holes
  <2>4. GotKeyed'
    BY <1>7, <2>0 DEF Publish, ModelsTypeOK, GotKeyed, Holes
  <2> QED BY <2>1, <2>2, <2>3, <2>4
<1>8. ASSUME NEW f \in Fit, Fail(f) PROVE ModelsInv'
  <2>1. ModelsTypeOK'
    BY <1>8 DEF Fail, ModelsTypeOK
  <2>2. ModelsKeyed'
    BY <1>8 DEF Fail, ModelsTypeOK, ModelsKeyed
  <2>3. Noted'
    BY <1>8 DEF Fail, ModelsTypeOK, Noted, Holes
  <2>4. GotKeyed'
    BY <1>8 DEF Fail, ModelsTypeOK, GotKeyed
  <2> QED BY <2>1, <2>2, <2>3, <2>4
<1>9. ASSUME NEW p \in Param, Forget(p) PROVE ModelsInv'
  BY <1>9 DEF Forget, ModelsTypeOK, ModelsKeyed, Noted, Holes, GotKeyed
<1>10. ASSUME UNCHANGED mvars PROVE ModelsInv'
  BY <1>10 DEF mvars, ModelsTypeOK, ModelsKeyed, Noted, Holes, GotKeyed
<1> QED
  BY <1>1, <1>2, <1>3, <1>4, <1>5, <1>6, <1>7, <1>8, <1>9, <1>10 DEF ModelsNext

\* The invariant the two theorems follow from.
LEMMA ModelsAlways == ModelsSpec => []ModelsInv
<1>1. ModelsInit => ModelsInv
  BY ModelsInitially
<1>2. ModelsInv /\ [ModelsNext]_mvars => ModelsInv'
  BY ModelsStep
<1> QED BY <1>1, <1>2, PTL DEF ModelsSpec

\* compute_synthetic_cached keeps every variable's type; in particular no fit
\* is given a model that is still being built.
THEOREM ModelsTypeCorrect == ModelsSpec => []ModelsTypeOK
<1>1. ModelsInv => ModelsTypeOK
  BY DEF ModelsInv
<1> QED BY <1>1, ModelsAlways, PTL

\* Whoever built a model and whenever, a fit that is given it has in its own
\* log every hole under it that was on record when the evaluation began.
THEOREM CacheHidesNoHole == ModelsSpec => []KnownHolesReported
<1>1. ModelsInv => KnownHolesReported
  BY DEF ModelsInv, ModelsTypeOK, Noted, GotKeyed, KnownHolesReported, Holes
<1> QED BY <1>1, ModelsAlways, PTL

-----------------------------------------------------------------------------
(* Scans: grids and searches.                                              *)

IsGrid(l) == l \in Seq(Int) /\ Len(l) >= 2 /\ \A i \in 2..Len(l) : l[i - 1] <= l[i]

\* What is a number, and what the ends of a grid are.
LEMMA GridShape ==
    ASSUME NEW l, IsGrid(l)
    PROVE  /\ Len(l) \in Nat /\ Len(l) >= 2
           /\ \A i \in 1..Len(l) : l[i] \in Int
           /\ \A i \in 0..(Len(l) - 1) : Pixel(l, i) = l[i + 1] /\ Pixel(l, i) \in Int
           /\ First(l) = l[1] /\ Final(l) = l[Len(l)] /\ First(l) \in Int /\ Final(l) \in Int
BY DEF IsGrid, Pixel, First, Final

\* Neighbours in order are a grid in order.
LEMMA GridOrdered ==
    ASSUME NEW l, IsGrid(l)
    PROVE  \A i, j \in 1..Len(l) : i <= j => l[i] <= l[j]
<1> SUFFICES ASSUME NEW i \in 1..Len(l)
             PROVE  \A j \in 1..Len(l) : i <= j => l[i] <= l[j]
  OBVIOUS
<1> DEFINE S == {m \in 0..Len(l) : i <= m => l[i] <= l[m]}
<1>0. Len(l) \in Nat /\ \A m \in 1..Len(l) : l[m] \in Int
  BY GridShape
<1>1. 0 \in S
  BY <1>0
<1>2. ASSUME NEW m \in 1..Len(l), m - 1 \in S PROVE m \in S
  <2>1. CASE m <= i
    BY <1>0, <2>1
  <2>2. CASE i < m
    <3>1. m \in 2..Len(l) /\ i <= m - 1 /\ m - 1 \in 1..Len(l)
      BY <1>0, <2>2
    <3>2. l[i] <= l[m - 1] /\ l[m - 1] <= l[m]
      BY <1>2, <3>1 DEF IsGrid
    <3> QED BY <1>0, <3>1, <3>2
  <2> QED BY <1>0, <2>1, <2>2
<1> HIDE DEF S
<1>3. \A m \in 0..Len(l) : m \in S
  BY <1>0, <1>1, <1>2, Upwards
<1> QED BY <1>0, <1>3 DEF S

\* std::lower_bound counts the pixels below x, which are the first ones.
LEMMA LowerBoundIs ==
    ASSUME NEW l, IsGrid(l), NEW x \in Int
    PROVE  /\ LowerBound(l, x) \in 0..Len(l)
           /\ \A i \in 1..Len(l) : l[i] < x <=> i <= LowerBound(l, x)
<1> DEFINE S == {i \in 1..Len(l) : l[i] < x}
<1>0. Len(l) \in Nat /\ \A m \in 1..Len(l) : l[m] \in Int
  BY GridShape
<1>1. \A i \in S, j \in 1..Len(l) : j <= i => j \in S
  BY <1>0, GridOrdered
<1>2. S \in SUBSET (1..Len(l))
  OBVIOUS
<1>3. Cardinality(S) \in 0..Len(l) /\ S = 1..Cardinality(S)
  <2> HIDE DEF S
  <2> QED BY <1>0, <1>1, <1>2, InitialSegment
<1>4. LowerBound(l, x) = Cardinality(S)
  BY DEF LowerBound
<1>5. \A i \in 1..Len(l) : l[i] < x <=> i \in 1..Cardinality(S)
  BY <1>3
<1> HIDE DEF S
<1> QED BY <1>0, <1>3, <1>4, <1>5

\* std::upper_bound, likewise.
LEMMA UpperBoundIs ==
    ASSUME NEW l, IsGrid(l), NEW x \in Int
    PROVE  /\ UpperBound(l, x) \in 0..Len(l)
           /\ \A i \in 1..Len(l) : l[i] <= x <=> i <= UpperBound(l, x)
<1> DEFINE S == {i \in 1..Len(l) : l[i] <= x}
<1>0. Len(l) \in Nat /\ \A m \in 1..Len(l) : l[m] \in Int
  BY GridShape
<1>1. \A i \in S, j \in 1..Len(l) : j <= i => j \in S
  BY <1>0, GridOrdered
<1>2. S \in SUBSET (1..Len(l))
  OBVIOUS
<1>3. Cardinality(S) \in 0..Len(l) /\ S = 1..Cardinality(S)
  <2> HIDE DEF S
  <2> QED BY <1>0, <1>1, <1>2, InitialSegment
<1>4. UpperBound(l, x) = Cardinality(S)
  BY DEF UpperBound
<1>5. \A i \in 1..Len(l) : l[i] <= x <=> i \in 1..Cardinality(S)
  BY <1>3
<1> HIDE DEF S
<1> QED BY <1>0, <1>3, <1>4, <1>5

\* Later points are found later.
LEMMA LowerBoundMonotone ==
    ASSUME NEW l, IsGrid(l), NEW x \in Int, NEW y \in Int, x <= y
    PROVE  LowerBound(l, x) <= LowerBound(l, y)
<1> DEFINE c == LowerBound(l, x)
           d == LowerBound(l, y)
<1>1. /\ Len(l) \in Nat /\ c \in 0..Len(l) /\ d \in 0..Len(l)
      /\ \A i \in 1..Len(l) : l[i] \in Int /\ (l[i] < x <=> i <= c) /\ (l[i] < y <=> i <= d)
  BY GridShape, LowerBoundIs
<1> HIDE DEF c, d
<1>2. c = 0 \/ c \in 1..Len(l)
  BY <1>1
<1>3. c \in 1..Len(l) => c <= d
  BY <1>1
<1> QED BY <1>1, <1>2, <1>3 DEF c, d

\* Where a walk from c ends: where the search does, or where it began.
LEMMA WalkIs ==
    ASSUME NEW l, IsGrid(l), NEW x \in Int, NEW c \in 0..Len(l)
    PROVE  /\ Walk(l, c, x) = IF c <= LowerBound(l, x) THEN LowerBound(l, x) ELSE c
           /\ Walk(l, c, x) \in 0..Len(l)
<1> DEFINE b == LowerBound(l, x)
           W == {i \in c..Len(l) : i = Len(l) \/ Pixel(l, i) >= x}
           m == IF c <= b THEN b ELSE c
<1>1. /\ Len(l) \in Nat /\ b \in 0..Len(l)
      /\ \A i \in 1..Len(l) : l[i] \in Int /\ (l[i] < x <=> i <= b)
  BY GridShape, LowerBoundIs
<1>2. Walk(l, c, x) = Min(W)
  BY DEF Walk
<1>3. \A i \in c..Len(l) : i # Len(l) => i + 1 \in 1..Len(l) /\ (Pixel(l, i) >= x <=> ~(i + 1 <= b))
  <2> SUFFICES ASSUME NEW i \in c..Len(l), i # Len(l)
               PROVE  i + 1 \in 1..Len(l) /\ (Pixel(l, i) >= x <=> ~(i + 1 <= b))
    OBVIOUS
  <2>1. i + 1 \in 1..Len(l)
    BY <1>1
  <2>2. l[i + 1] \in Int /\ (l[i + 1] < x <=> i + 1 <= b)
    BY <1>1, <2>1
  <2> HIDE DEF b
  <2> QED BY <2>1, <2>2 DEF Pixel
<1> HIDE DEF b
<1>4. m \in 0..Len(l) /\ m \in W
  <2>1. m \in c..Len(l) /\ b <= m
    BY <1>1
  <2> QED BY <1>1, <1>3, <2>1
<1>5. \A y \in W : m <= y
  <2> SUFFICES ASSUME NEW y \in c..Len(l), y = Len(l) \/ Pixel(l, y) >= x
               PROVE  m <= y
    OBVIOUS
  <2> QED BY <1>1, <1>3
<1>6. W \in SUBSET Int
  OBVIOUS
<1> HIDE DEF W, m
<1>7. Min(W) = m
  BY <1>4, <1>5, <1>6, MinIs
<1> QED BY <1>2, <1>4, <1>7 DEF m, b

\* The interval a search ends in has both its pixels.
LEMMA InsideIs ==
    ASSUME NEW l, IsGrid(l), NEW j \in 0..Len(l)
    PROVE  /\ Inside(l, j) \in 1..(Len(l) - 1)
           /\ j \in 1..(Len(l) - 1) => Inside(l, j) = j
           /\ j >= Len(l) => Inside(l, j) = Len(l) - 1
           /\ \A i \in 0..Len(l) : i <= j => Inside(l, i) <= Inside(l, j)
BY GridShape DEF Inside

\* The cursor of a window end is the search, whatever order the points are in.
LEMMA CursorIs ==
    ASSUME NEW l, IsGrid(l), NEW ends \in Seq(Int)
    PROVE  \A i \in 1..Len(ends) : Cursor(l, ends)[i] = LowerBound(l, ends[i])
<1> DEFINE n == Len(ends)
           V == 0..Len(l)
           stepped(i, c) == IF i > 1 /\ ends[i] < ends[i - 1] THEN LowerBound(l, ends[i])
                            ELSE Walk(l, c, ends[i])
           g == [i \in 1..n |-> [c \in V |-> stepped(i, c)]]
           Cur(f) == f = [i \in 0..n |->
                            CASE i = 0 -> 0
                              [] i > 1 /\ ends[i] < ends[i - 1] -> LowerBound(l, ends[i])
                              [] OTHER -> Walk(l, f[i - 1], ends[i])]
<1>0. n \in Nat /\ 0 \in V /\ \A i \in 1..n : ends[i] \in Int
  BY GridShape
<1>1. \A i \in 1..n : /\ LowerBound(l, ends[i]) \in V
                      /\ \A c \in V : stepped(i, c) \in V
  BY <1>0, LowerBoundIs, WalkIs
<1>2. g \in [1..n -> [V -> V]]
  BY <1>1
<1>3. PICK f \in [0..n -> V] : Follows(f, n, 0, g)
  <2> HIDE DEF g, V
  <2> QED BY <1>0, <1>2, RecursionExists
<1>4. \A i \in 1..n : i - 1 \in 0..n /\ f[i - 1] \in V /\ f[i] = stepped(i, f[i - 1])
  <2>1. \A i \in 1..n : i - 1 \in 0..n
    BY <1>0
  <2> QED BY <1>3, <2>1 DEF Follows
<1>5. Cur(f)
  <2>1. \A i \in 0..n : i # 0 => i \in 1..n
    BY <1>0
  <2>2. \A i \in 0..n : f[i] =
            CASE i = 0 -> 0
              [] i > 1 /\ ends[i] < ends[i - 1] -> LowerBound(l, ends[i])
              [] OTHER -> Walk(l, f[i - 1], ends[i])
    <3> SUFFICES ASSUME NEW i \in 0..n
                 PROVE  f[i] = CASE i = 0 -> 0
                                 [] i > 1 /\ ends[i] < ends[i - 1] -> LowerBound(l, ends[i])
                                 [] OTHER -> Walk(l, f[i - 1], ends[i])
      OBVIOUS
    <3>1. CASE i = 0
      <4>1. f[0] = 0
        BY <1>3 DEF Follows
      <4> QED BY <3>1, <4>1
    <3>2. CASE i # 0
      <4>1. f[i] = stepped(i, f[i - 1])
        BY <1>4, <2>1, <3>2
      <4> QED BY <3>2, <4>1
    <3> QED BY <3>1, <3>2
  <2> QED BY <1>3, <2>2
<1>6. Cur(Cursor(l, ends))
  <2>1. Cursor(l, ends) = CHOOSE h : Cur(h)
    BY DEF Cursor
  <2> HIDE DEF Cur
  <2> QED BY <1>5, <2>1
<1> DEFINE c == Cursor(l, ends)
           S == {i \in 0..n : c[i] \in V /\ (i # 0 => c[i] = LowerBound(l, ends[i]))}
<1>7. \A i \in 0..n : c[i] = CASE i = 0 -> 0
                              [] i > 1 /\ ends[i] < ends[i - 1] -> LowerBound(l, ends[i])
                              [] OTHER -> Walk(l, c[i - 1], ends[i])
  <2> HIDE DEF c
  <2> QED BY <1>6 DEF c
<1> HIDE DEF c
<1>8. 0 \in S
  <2>1. 0 \in 0..n
    BY <1>0
  <2>2. c[0] = 0
    BY <1>7, <2>1
  <2> QED BY <1>0, <2>1, <2>2
<1>9. ASSUME NEW i \in 1..n, i - 1 \in S PROVE i \in S
  <2>1. i \in 0..n /\ i # 0 /\ ends[i] \in Int
    BY <1>0
  <2>2. /\ LowerBound(l, ends[i]) \in V
        /\ c[i - 1] \in V
        /\ c[i - 1] <= LowerBound(l, ends[i]) => Walk(l, c[i - 1], ends[i]) = LowerBound(l, ends[i])
    BY <1>0, <1>9, <2>1, WalkIs, LowerBoundIs
  <2>3. CASE i > 1 /\ ends[i] < ends[i - 1]
    BY <1>7, <2>1, <2>2, <2>3
  <2>4. CASE i = 1
    <3>1. c[i - 1] = 0
      BY <1>7, <1>0, <2>4
    <3>2. c[i] = Walk(l, c[i - 1], ends[i])
      BY <1>7, <2>1, <2>4
    <3> QED BY <2>1, <2>2, <3>1, <3>2
  <2>5. CASE i > 1 /\ ~(ends[i] < ends[i - 1])
    <3>1. i - 1 \in 1..n /\ ends[i - 1] \in Int /\ ends[i - 1] <= ends[i]
      BY <1>0, <2>1, <2>5
    <3>2. c[i - 1] = LowerBound(l, ends[i - 1])
      BY <1>9, <2>5
    <3>3. c[i - 1] <= LowerBound(l, ends[i])
      BY <2>1, <3>1, <3>2, LowerBoundMonotone
    <3>4. c[i] = Walk(l, c[i - 1], ends[i])
      BY <1>7, <2>1, <2>5
    <3> QED BY <2>1, <2>2, <3>3, <3>4
  <2> QED BY <2>1, <2>3, <2>4, <2>5
<1> HIDE DEF S
<1>10. \A i \in 0..n : i \in S
  BY <1>0, <1>8, <1>9, Upwards
<1> QED BY <1>0, <1>10 DEF S, c

-----------------------------------------------------------------------------
(* Scans: the window of an output point and the run filled into it.        *)

\* The intervals the ends of the window of x lie in.
FromInterval(l, x, v) == Inside(l, LowerBound(l, WindowFrom(l, x, v)))
ToInterval(l, x, v) ==
    LET j == Inside(l, LowerBound(l, WindowTo(l, x, v)))
    IN  IF j > FromInterval(l, x, v) THEN j ELSE FromInterval(l, x, v)

\* A window is cut to the grid.
LEMMA WindowEnds ==
    ASSUME NEW l, IsGrid(l), NEW x \in Int, NEW v \in Nat
    PROVE  /\ WindowFrom(l, x, v) = IF x - v > First(l) THEN x - v ELSE First(l)
           /\ WindowTo(l, x, v) = IF x + v < Final(l) THEN x + v ELSE Final(l)
           /\ WindowFrom(l, x, v) \in Int /\ WindowTo(l, x, v) \in Int
<1> DEFINE a == IF x - v > First(l) THEN x - v ELSE First(l)
           b == IF x + v < Final(l) THEN x + v ELSE Final(l)
<1>1. First(l) \in Int /\ Final(l) \in Int
  BY GridShape
<1>2. {x - v, First(l)} \in SUBSET Int /\ {x + v, Final(l)} \in SUBSET Int
  BY <1>1
<1>3. a \in {x - v, First(l)} /\ \A y \in {x - v, First(l)} : y <= a
  BY <1>1
<1>4. b \in {x + v, Final(l)} /\ \A y \in {x + v, Final(l)} : b <= y
  BY <1>1
<1>5. a \in Int /\ b \in Int
  BY <1>1
<1> HIDE DEF a, b
<1>6. WindowFrom(l, x, v) = a
  BY <1>2, <1>3, MaxIs DEF WindowFrom
<1>7. WindowTo(l, x, v) = b
  BY <1>2, <1>4, MinIs DEF WindowTo
<1> QED BY <1>5, <1>6, <1>7 DEF a, b

\* Its first interval is not behind its last.
LEMMA WindowIntervals ==
    ASSUME NEW l, IsGrid(l), NEW x \in Int, NEW v \in Nat
    PROVE  /\ FromInterval(l, x, v) \in 1..(Len(l) - 1)
           /\ ToInterval(l, x, v) \in FromInterval(l, x, v)..(Len(l) - 1)
<1>1. /\ LowerBound(l, WindowFrom(l, x, v)) \in 0..Len(l)
      /\ LowerBound(l, WindowTo(l, x, v)) \in 0..Len(l)
  BY WindowEnds, LowerBoundIs
<1>2. /\ FromInterval(l, x, v) \in 1..(Len(l) - 1)
      /\ Inside(l, LowerBound(l, WindowTo(l, x, v))) \in 1..(Len(l) - 1)
  BY <1>1, InsideIs DEF FromInterval
<1>3. Len(l) \in Nat
  BY GridShape
<1> QED BY <1>2, <1>3 DEF ToInterval

\* Pass 1 gives each point the run between them, whatever order the points are in.
LEMMA WindowsAre ==
    ASSUME NEW l, IsGrid(l), NEW out \in Seq(Int), NEW v \in Nat,
           NEW i \in 0..(Len(out) - 1)
    PROVE  /\ out[i + 1] \in Int
           /\ Windows(l, out, v)[i] =
                  [start |-> FromInterval(l, out[i + 1], v) - 1,
                   length |-> ToInterval(l, out[i + 1], v) - FromInterval(l, out[i + 1], v) + 2]
<1> DEFINE lows == [k \in 1..Len(out) |-> WindowFrom(l, out[k], v)]
           highs == [k \in 1..Len(out) |-> WindowTo(l, out[k], v)]
           ja == FromInterval(l, out[i + 1], v)
           jb == Inside(l, LowerBound(l, WindowTo(l, out[i + 1], v)))
<1>1. Len(out) \in Nat /\ i + 1 \in 1..Len(out) /\ \A k \in 1..Len(out) : out[k] \in Int
  OBVIOUS
<1>2. /\ lows \in Seq(Int) /\ Len(lows) = Len(out)
      /\ highs \in Seq(Int) /\ Len(highs) = Len(out)
  <2>1. \A k \in 1..Len(out) : WindowFrom(l, out[k], v) \in Int /\ WindowTo(l, out[k], v) \in Int
    BY <1>1, WindowEnds
  <2> QED BY <1>1, <2>1
<1>3. /\ Cursor(l, lows)[i + 1] = LowerBound(l, WindowFrom(l, out[i + 1], v))
      /\ Cursor(l, highs)[i + 1] = LowerBound(l, WindowTo(l, out[i + 1], v))
  <2>1. /\ lows[i + 1] = WindowFrom(l, out[i + 1], v)
        /\ highs[i + 1] = WindowTo(l, out[i + 1], v)
    BY <1>1
  <2> HIDE DEF lows, highs
  <2> QED BY <1>1, <1>2, <2>1, CursorIs
<1>4. ja \in Int /\ jb \in Int
  <2>1. LowerBound(l, WindowTo(l, out[i + 1], v)) \in 0..Len(l)
    BY <1>1, WindowEnds, LowerBoundIs
  <2> QED BY <1>1, <2>1, InsideIs, WindowIntervals
<1>5. Max({jb, ja}) = ToInterval(l, out[i + 1], v)
  <2> DEFINE m == IF jb > ja THEN jb ELSE ja
  <2>1. m \in {jb, ja} /\ {jb, ja} \in SUBSET Int /\ \A y \in {jb, ja} : y <= m
    BY <1>4
  <2>2. m = ToInterval(l, out[i + 1], v)
    BY DEF ToInterval
  <2> HIDE DEF m, ja, jb
  <2> QED BY <2>1, <2>2, MaxIs
<1>6. Windows(l, out, v)[i] =
          LET ca == Inside(l, Cursor(l, lows)[i + 1])
              cb == Max({Inside(l, Cursor(l, highs)[i + 1]), ca})
          IN  [start |-> ca - 1, length |-> cb - ca + 2]
  BY DEF Windows
<1> QED BY <1>1, <1>3, <1>5, <1>6 DEF FromInterval

\* Every tap on the grid lies in the window of its point, so the walk from the
\* start of the run finds its interval, and the run covers it.
LEMMA TapInWindow ==
    ASSUME NEW l, IsGrid(l), NEW x \in Int, NEW v \in Nat \ {0}, NEW k \in TapsOn(l, x, v)
    PROVE  LET j == Inside(l, LowerBound(l, x + k))
           IN  /\ k \in Int
               /\ j \in FromInterval(l, x, v)..ToInterval(l, x, v)
               /\ Inside(l, Walk(l, FromInterval(l, x, v), x + k)) = j
<1> DEFINE y == x + k
           a == LowerBound(l, WindowFrom(l, x, v))
           b == LowerBound(l, y)
           c == LowerBound(l, WindowTo(l, x, v))
           from == FromInterval(l, x, v)
<1>1. k \in Int /\ y \in Int /\ k >= 1 - v /\ k <= v - 1 /\ First(l) <= y /\ y <= Final(l)
  BY GridShape DEF TapsOn, Taps
<1>2. /\ WindowFrom(l, x, v) \in Int /\ WindowFrom(l, x, v) <= y
      /\ WindowTo(l, x, v) \in Int /\ y <= WindowTo(l, x, v)
  <2>1. First(l) \in Int /\ Final(l) \in Int
    BY GridShape
  <2> QED BY <1>1, <2>1, WindowEnds
<1>3. a \in 0..Len(l) /\ b \in 0..Len(l) /\ c \in 0..Len(l) /\ a <= b /\ b <= c
  BY <1>1, <1>2, LowerBoundIs, LowerBoundMonotone
<1>4. Len(l) \in Nat /\ Len(l) >= 2
  BY GridShape
<1>5. Inside(l, a) <= Inside(l, b) /\ Inside(l, b) <= Inside(l, c)
  BY <1>3, InsideIs
<1>6. from = Inside(l, a) /\ ToInterval(l, x, v) = IF Inside(l, c) > from THEN Inside(l, c) ELSE from
  BY DEF FromInterval, ToInterval
<1>7. Inside(l, a) \in 1..(Len(l) - 1) /\ Inside(l, b) \in 1..(Len(l) - 1) /\ Inside(l, c) \in 1..(Len(l) - 1)
  BY <1>3, InsideIs
<1>8. from \in 0..Len(l)
  BY <1>4, <1>6, <1>7
<1> HIDE DEF y, a, b, c, from
<1>9. Inside(l, Walk(l, from, y)) = Inside(l, b)
  <2>1. Walk(l, from, y) = IF from <= b THEN b ELSE from
    BY <1>1, <1>8, WalkIs DEF b
  <2>2. CASE from <= b
    BY <2>1, <2>2
  <2>3. CASE ~(from <= b)
    <3>1. a = 0 /\ b = 0
      BY <1>3, <1>4, <1>6, <1>8, <2>3 DEF Inside
    <3> QED BY <1>4, <1>6, <2>1, <2>3, <3>1 DEF Inside
  <2> QED BY <2>2, <2>3
<1>10. Inside(l, b) \in from..ToInterval(l, x, v)
  BY <1>5, <1>6, <1>7
<1> QED BY <1>1, <1>9, <1>10 DEF y, b, from

\* A tap only touches the two pixels of its interval.
LEMMA SharesLie ==
    ASSUME NEW l, NEW j \in Int, NEW y, NEW k, NEW e \in Shares(l, j, y, k)
    PROVE  e[1] \in (j - 1)..j
BY DEF Shares

\* What is filled into a run is what each tap searched for on its own gives, in
\* the run; a point without taps on the grid gets the run's first pixel.
LEMMA FillIs ==
    ASSUME NEW l, IsGrid(l), NEW x \in Int, NEW v \in Nat \ {0}
    PROVE  LET s == FromInterval(l, x, v) - 1
               row == FillPoint(l, x, s, v)
           IN  /\ Correct(l, x, v, row)
               /\ \A e \in row : e[1] \in s..ToInterval(l, x, v)
<1> DEFINE s == FromInterval(l, x, v) - 1
           on == TapsOn(l, x, v)
           into(k) == Inside(l, Walk(l, s + 1, x + k))
           found(k) == Inside(l, LowerBound(l, x + k))
<1>1. /\ Len(l) \in Nat /\ s + 1 = FromInterval(l, x, v) /\ s \in 0..(Len(l) - 2)
      /\ ToInterval(l, x, v) \in (s + 1)..(Len(l) - 1)
  <2>1. Len(l) \in Nat
    BY GridShape
  <2>2. /\ FromInterval(l, x, v) \in 1..(Len(l) - 1)
        /\ ToInterval(l, x, v) \in FromInterval(l, x, v)..(Len(l) - 1)
    BY WindowIntervals
  <2> QED BY <2>1, <2>2
<1>2. CASE on = {}
  <2>1. FillPoint(l, x, s, v) = {<<s, v, 1, 1>>}
    BY <1>2 DEF FillPoint
  <2> QED BY <1>1, <1>2, <2>1 DEF Correct, Has
<1>3. CASE on # {}
  <2>1. \A k \in on : k \in Int /\ into(k) = found(k) /\ found(k) \in (s + 1)..ToInterval(l, x, v)
    BY <1>1, TapInWindow
  <2>2. FillPoint(l, x, s, v) = UNION {Shares(l, into(k), x + k, k) : k \in on}
    BY <1>3 DEF FillPoint
  <2>3. Searched(l, x, v) = UNION {Shares(l, found(k), x + k, k) : k \in on}
    BY DEF Searched
  <2> HIDE DEF into, found, s
  <2>4. FillPoint(l, x, s, v) = Searched(l, x, v)
    BY <2>1, <2>2, <2>3
  <2>5. ASSUME NEW e \in FillPoint(l, x, s, v)
        PROVE  e[1] \in s..ToInterval(l, x, v)
    <3>1. PICK k \in on : e \in Shares(l, found(k), x + k, k)
      BY <2>3, <2>4
    <3>2. found(k) \in (s + 1)..ToInterval(l, x, v)
      BY <2>1
    <3>3. e[1] \in (found(k) - 1)..found(k)
      BY <1>1, <3>1, <3>2, SharesLie
    <3> QED BY <1>1, <3>2, <3>3
  <2> QED BY <1>3, <2>4, <2>5 DEF Correct, s
<1> QED BY <1>2, <1>3

\* On a grid's own points the taps walked to from the first one are found too.
LEMMA WeightsAre ==
    ASSUME NEW l, IsGrid(l), NEW i \in 0..(Len(l) - 1), NEW v \in Nat \ {0}
    PROVE  Weights(l, i, v) = Searched(l, Pixel(l, i), v)
<1> DEFINE x == Pixel(l, i)
           on == TapsOn(l, x, v)
           from == LowerBound(l, x + Min(on))
           into(k) == Inside(l, Walk(l, from, x + k))
           found(k) == Inside(l, LowerBound(l, x + k))
<1>1. x \in Int /\ First(l) \in Int /\ Final(l) \in Int
  BY GridShape
<1>2. 0 \in on
  <2>1. i + 1 \in 1..Len(l) /\ 1 \in 1..Len(l) /\ Len(l) \in 1..Len(l)
    BY GridShape
  <2>2. First(l) <= x /\ x <= Final(l)
    BY <2>1, GridOrdered DEF First, Final, Pixel
  <2> QED BY <1>1, <2>2 DEF TapsOn, Taps
<1>3. \A k \in on : k \in Int /\ k >= 1 - v
  BY DEF TapsOn, Taps
<1> HIDE DEF on, x
<1>4. PICK m \in on : \A k \in on : m <= k
  <2> DEFINE S == {k + v : k \in on}
  <2>1. S \in SUBSET Nat /\ S # {}
    BY <1>2, <1>3
  <2>2. PICK z \in S : \A y \in S : z <= y
    <3> HIDE DEF S
    <3> QED BY <2>1, LeastNatural
  <2>3. PICK k \in on : z = k + v
    BY <2>2
  <2>4. \A h \in on : z <= h + v
    BY <2>2
  <2> QED BY <1>3, <2>3, <2>4
<1>5. Min(on) = m
  BY <1>3, <1>4, MinIs
<1>6. ASSUME NEW k \in on PROVE into(k) = found(k)
  <2>1. x + m \in Int /\ x + k \in Int /\ x + m <= x + k
    BY <1>1, <1>3, <1>4
  <2>2. from \in 0..Len(l) /\ from <= LowerBound(l, x + k)
    BY <1>5, <2>1, LowerBoundIs, LowerBoundMonotone
  <2> QED BY <2>1, <2>2, WalkIs
<1>7. Weights(l, i, v) = UNION {Shares(l, into(k), x + k, k) : k \in on}
  BY <1>2 DEF Weights, on, x
<1>8. Searched(l, x, v) = UNION {Shares(l, found(k), x + k, k) : k \in on}
  BY DEF Searched, on
<1> HIDE DEF into, found
<1> QED BY <1>6, <1>7, <1>8 DEF x

-----------------------------------------------------------------------------
(* Scans: the row all points of a uniform grid share.                      *)

\* S is a run of points around the middle one of n whose windows look like its own.
AlikeRun(w, n, S) ==
    LET mid == n \div 2
    IN  \E low \in 0..mid, high \in mid..(n - 1) :
            /\ S = low..high
            /\ \A i \in low..high : /\ w[i].length = w[mid].length
                                    /\ w[i].start - i = w[mid].start - mid

\* The core is a run around the middle, of windows like the middle one.
LEMMA CoreOfIs ==
    ASSUME NEW w, NEW n \in Nat \ {0}
    PROVE  AlikeRun(w, n, CoreOf(w, n))
<1> DEFINE mid == n \div 2
           alike(i) == w[i].length = w[mid].length /\ w[i].start - i = w[mid].start - mid
           A == {i \in 0..mid : \A k \in i..mid : alike(k)}
           B == {i \in mid..(n - 1) : \A k \in mid..i : alike(k)}
<1>1. mid \in 0..(n - 1) /\ n - 1 \in Nat
  OBVIOUS
<1> HIDE DEF mid
<1>2. alike(mid)
  OBVIOUS
<1> HIDE DEF alike
<1>3. mid \in A /\ mid \in B
  <2>1. \A k \in mid..mid : k = mid
    BY <1>1
  <2> QED BY <1>1, <1>2, <2>1
<1>4. A \in SUBSET Nat /\ B \in SUBSET (0..(n - 1))
  BY <1>1
<1>5. PICK low \in A : \A j \in A : low <= j
  <2> HIDE DEF A
  <2> QED BY <1>3, <1>4, LeastNatural
<1>6. PICK high \in B : \A j \in B : j <= high
  <2> HIDE DEF B
  <2> QED BY <1>1, <1>3, <1>4, GreatestNatural
<1>7. Min(A) = low /\ Max(B) = high
  <2>1. A \in SUBSET Int /\ B \in SUBSET Int
    BY <1>4, <1>1
  <2> HIDE DEF A, B
  <2> QED BY <1>5, <1>6, <2>1, MinIs, MaxIs
<1>8. CoreOf(w, n) = low..high
  <2>1. CoreOf(w, n) = Min(A)..Max(B)
    BY DEF CoreOf, A, B, alike, mid
  <2> QED BY <1>7, <2>1
<1>9. \A i \in low..high : alike(i)
  <2>1. /\ low \in 0..mid /\ \A k \in low..mid : alike(k)
        /\ high \in mid..(n - 1) /\ \A k \in mid..high : alike(k)
    BY <1>5, <1>6
  <2>2. \A i \in low..high : i \in low..mid \/ i \in mid..high
    BY <1>1, <2>1
  <2> QED BY <2>1, <2>2
<1>10. low \in 0..mid /\ high \in mid..(n - 1)
  BY <1>5, <1>6
<1> QED BY <1>8, <1>9, <1>10 DEF AlikeRun, alike, mid

\* On a uniform grid m pixels further is the same distance from everywhere.
LEMMA UniformSteps ==
    ASSUME NEW l, IsGrid(l), LogUniform(l)
    PROVE  /\ \A a, b \in 1..Len(l) : a < b => l[a] < l[b]
           /\ \A m \in Int, a, b \in 1..Len(l) :
                  a + m \in 1..Len(l) /\ b + m \in 1..Len(l) => l[a + m] - l[a] = l[b + m] - l[b]
<1> DEFINE d == l[2] - l[1]
           S == {a \in 0..Len(l) : a # 0 => l[a] = l[1] + (a - 1) * d}
<1>1. Len(l) \in Nat /\ Len(l) >= 3 /\ \A a \in 1..Len(l) : l[a] \in Int
  BY GridShape DEF LogUniform
<1>2. d \in Int /\ d > 0 /\ l[1] \in Int
  BY <1>1 DEF LogUniform
<1>3. \A a \in 2..Len(l) : l[a] = l[a - 1] + d
  <2>1. \A a \in 2..Len(l) : a \in 1..Len(l) /\ a - 1 \in 1..Len(l) /\ l[a] - l[a - 1] = d
    BY <1>1 DEF LogUniform
  <2> HIDE DEF d
  <2> SUFFICES ASSUME NEW a \in 2..Len(l) PROVE l[a] = l[a - 1] + d
    OBVIOUS
  <2>2. l[a] \in Int /\ l[a - 1] \in Int /\ l[a] - l[a - 1] = d
    BY <1>1, <2>1
  <2> QED BY <1>2, <2>2
<1> HIDE DEF d
<1>4. 0 \in S
  BY <1>1
<1>5. ASSUME NEW a \in 1..Len(l), a - 1 \in S PROVE a \in S
  <2>1. CASE a = 1
    BY <1>1, <1>2, <2>1
  <2>2. CASE a # 1
    <3>1. a \in 2..Len(l) /\ a - 1 # 0
      BY <1>1, <2>2
    <3>2. l[a - 1] = l[1] + (a - 2) * d
      BY <1>5, <3>1
    <3>3. l[a] = l[a - 1] + d
      BY <1>3, <3>1
    <3>4. (a - 2) * d + d = (a - 1) * d
      BY <1>2
    <3>5. (a - 2) * d \in Int
      BY <1>2
    <3> QED BY <1>1, <1>2, <3>1, <3>2, <3>3, <3>4, <3>5
  <2> QED BY <2>1, <2>2
<1> HIDE DEF S
<1>6. \A a \in 1..Len(l) : l[a] = l[1] + (a - 1) * d
  <2>1. \A a \in 0..Len(l) : a \in S
    BY <1>1, <1>4, <1>5, Upwards
  <2> QED BY <1>1, <2>1 DEF S
<1>7. ASSUME NEW a \in 1..Len(l), NEW b \in 1..Len(l), a < b
      PROVE  l[a] < l[b]
  <2>1. \E h \in Nat : b = a + h + 1
    <3>1. b - a - 1 \in Nat /\ b = a + (b - a - 1) + 1
      BY <1>1, <1>7
    <3> QED BY <3>1
  <2>2. PICK h \in Nat : b = a + h + 1
    BY <2>1
  <2>3. (b - 1) * d = (a - 1) * d + h * d + d
    BY <1>2, <2>2
  <2>4. h * d >= 0 /\ (a - 1) * d \in Int /\ h * d \in Int
    BY <1>2
  <2> QED BY <1>2, <1>6, <2>3, <2>4
<1>8. ASSUME NEW m \in Int, NEW a \in 1..Len(l), NEW b \in 1..Len(l),
             a + m \in 1..Len(l), b + m \in 1..Len(l)
      PROVE  l[a + m] - l[a] = l[b + m] - l[b]
  <2>1. /\ (a + m - 1) * d = (a - 1) * d + m * d
        /\ (b + m - 1) * d = (b - 1) * d + m * d
    BY <1>2
  <2>2. (a - 1) * d \in Int /\ (b - 1) * d \in Int /\ m * d \in Int
    BY <1>2
  <2>3. /\ l[a] = l[1] + (a - 1) * d /\ l[a + m] = l[1] + (a + m - 1) * d
        /\ l[b] = l[1] + (b - 1) * d /\ l[b + m] = l[1] + (b + m - 1) * d
    BY <1>6, <1>8
  <2> QED BY <1>2, <2>1, <2>2, <2>3
<1> QED BY <1>7, <1>8

\* What is further by m pixels is found m pixels further on.
LEMMA UniformSearch ==
    ASSUME NEW l, IsGrid(l), LogUniform(l),
           NEW a \in 1..Len(l), NEW m \in Int, a + m \in 1..Len(l),
           NEW y \in Int, NEW z \in Int, z = y + l[a + m] - l[a],
           First(l) < y, y <= Final(l), First(l) < z, z <= Final(l)
    PROVE  /\ LowerBound(l, y) \in 1..(Len(l) - 1)
           /\ LowerBound(l, z) \in 1..(Len(l) - 1)
           /\ LowerBound(l, z) = LowerBound(l, y) + m
<1> DEFINE N == Len(l)
           b == LowerBound(l, y)
           c == LowerBound(l, z)
           D == l[a + m] - l[a]
<1>1. /\ N \in Nat /\ N >= 2 /\ \A i \in 1..N : l[i] \in Int
      /\ First(l) = l[1] /\ Final(l) = l[N]
  BY GridShape
<1>2. /\ b \in 0..N /\ \A i \in 1..N : l[i] < y <=> i <= b
      /\ c \in 0..N /\ \A i \in 1..N : l[i] < z <=> i <= c
  BY LowerBoundIs
<1>3. b \in 1..(N - 1) /\ c \in 1..(N - 1)
  <2>1. 1 \in 1..N /\ N \in 1..N
    BY <1>1
  <2>2. 1 <= b /\ ~(N <= b) /\ 1 <= c /\ ~(N <= c)
    BY <1>1, <1>2, <2>1
  <2> HIDE DEF b, c
  <2> QED BY <1>1, <1>2, <2>2
<1>4. D \in Int /\ z = y + D
  BY <1>1
<1>5. \A i \in 1..N : i + m \in 1..N => l[i + m] = l[i] + D
  <2>1. \A i \in 1..N : i + m \in 1..N => l[i + m] - l[i] = D
    BY UniformSteps
  <2> HIDE DEF D
  <2> SUFFICES ASSUME NEW i \in 1..N, i + m \in 1..N PROVE l[i + m] = l[i] + D
    OBVIOUS
  <2>2. l[i + m] \in Int /\ l[i] \in Int /\ l[i + m] - l[i] = D
    BY <1>1, <2>1
  <2> QED BY <1>4, <2>2
<1>6. m \in (1 - N)..(N - 1)
  BY <1>1
<1> HIDE DEF N, b, c, D
<1>7. b + m <= N - 1
  <2> SUFFICES ASSUME ~(b + m <= N - 1) PROVE FALSE
    OBVIOUS
  <2>1. N - m \in 1..N /\ N - m <= b /\ N - m + m = N
    BY <1>1, <1>3, <1>6
  <2>2. l[N - m] < y
    BY <1>2, <2>1
  <2>3. l[N] = l[N - m] + D
    BY <1>1, <1>5, <2>1
  <2>4. l[N - m] \in Int
    BY <1>1, <2>1
  <2> QED BY <1>1, <1>4, <2>2, <2>3, <2>4
<1>8. b + m >= 1
  <2> SUFFICES ASSUME ~(b + m >= 1) PROVE FALSE
    OBVIOUS
  <2>1. 1 - m \in 1..N /\ ~(1 - m <= b) /\ 1 - m + m = 1 /\ 1 \in 1..N
    BY <1>1, <1>3, <1>6
  <2>2. ~(l[1 - m] < y)
    BY <1>2, <2>1
  <2>3. l[1] = l[1 - m] + D
    BY <1>5, <2>1
  <2>4. l[1 - m] \in Int /\ l[1] \in Int
    BY <1>1, <2>1
  <2> QED BY <1>1, <1>4, <2>2, <2>3, <2>4
<1>9. /\ b \in 1..N /\ b + m \in 1..N /\ b + 1 \in 1..N /\ b + 1 + m \in 1..N
      /\ b + m + 1 = b + 1 + m
  BY <1>1, <1>3, <1>6, <1>7, <1>8
<1>10. l[b] < y /\ ~(l[b + 1] < y) /\ l[b] \in Int /\ l[b + 1] \in Int
  <2>1. ~(b + 1 <= b)
    BY <1>3
  <2> QED BY <1>1, <1>2, <1>3, <1>9, <2>1
<1>11. l[b + m] = l[b] + D /\ l[b + 1 + m] = l[b + 1] + D
  BY <1>5, <1>9
<1>12. l[b + m] < z /\ ~(l[b + 1 + m] < z)
  BY <1>4, <1>10, <1>11
<1>13. b + m <= c /\ ~(b + 1 + m <= c)
  BY <1>2, <1>9, <1>12
<1> QED BY <1>3, <1>6, <1>13 DEF b, c, N

\* Of two points of a uniform grid with like windows neither is so far left that
\* its window is cut, nor so far right.
LEMMA AlikeUncut ==
    ASSUME NEW l, IsGrid(l), LogUniform(l), NEW v \in Nat \ {0},
           NEW p \in 0..(Len(l) - 1), NEW q \in 0..(Len(l) - 1), p < q,
           FromInterval(l, Pixel(l, q), v) = FromInterval(l, Pixel(l, p), v) + q - p,
           ToInterval(l, Pixel(l, q), v) = ToInterval(l, Pixel(l, p), v) + q - p
    PROVE  /\ First(l) < Pixel(l, p) - v /\ First(l) < Pixel(l, q) - v
           /\ Pixel(l, p) + v <= Final(l) /\ Pixel(l, q) + v <= Final(l)
<1> DEFINE N == Len(l)
           m == q - p
           x == Pixel(l, p)
           y == Pixel(l, q)
           D == y - x
<1>1. /\ N \in Nat /\ N >= 2 /\ \A i \in 1..N : l[i] \in Int
      /\ First(l) = l[1] /\ Final(l) = l[N] /\ First(l) \in Int /\ Final(l) \in Int
      /\ x = l[p + 1] /\ y = l[q + 1] /\ x \in Int /\ y \in Int
  BY GridShape
<1>2. m \in 1..(N - 1) /\ q = p + m /\ p + 1 \in 1..N /\ q + 1 \in 1..N /\ p + 1 + m = q + 1
  BY <1>1
<1>0. v \in Int /\ v > 0 /\ First(l) \in Int /\ Final(l) \in Int /\ x \in Int /\ y \in Int
  BY <1>1
<1>3. D > 0 /\ D \in Int /\ y = x + D
  <2>1. l[p + 1] < l[q + 1]
    BY <1>2, UniformSteps
  <2> QED BY <1>1, <2>1
<1>4. \A i \in 1..N : i + m \in 1..N => l[i + m] = l[i] + D
  <2> SUFFICES ASSUME NEW i \in 1..N, i + m \in 1..N PROVE l[i + m] = l[i] + D
    OBVIOUS
  <2>1. l[i + m] - l[i] = l[p + 1 + m] - l[p + 1]
    <3>1. m \in Int
      BY <1>2
    <3> HIDE DEF m
    <3> QED BY <1>2, <3>1, UniformSteps
  <2>2. l[i + m] \in Int /\ l[i] \in Int
    BY <1>1
  <2> QED BY <1>1, <1>2, <2>1, <2>2
<1> DEFINE from(z) == FromInterval(l, z, v)
           to(z) == ToInterval(l, z, v)
<1>5. /\ from(y) = from(x) + m /\ to(y) = to(x) + m
      /\ from(x) \in 1..(N - 1) /\ to(x) \in from(x)..(N - 1)
      /\ from(y) \in 1..(N - 1) /\ to(y) \in from(y)..(N - 1)
  <2>1. /\ from(x) \in 1..(N - 1) /\ to(x) \in from(x)..(N - 1)
        /\ from(y) \in 1..(N - 1) /\ to(y) \in from(y)..(N - 1)
    BY <1>1, WindowIntervals
  <2>2. from(y) = from(x) + q - p /\ to(y) = to(x) + q - p
    OBVIOUS
  <2> HIDE DEF from, to
  <2> QED BY <1>1, <2>1, <2>2
<1> HIDE DEF m, D
<1>6. First(l) < x - v
  <2> SUFFICES ASSUME ~(First(l) < x - v) PROVE FALSE
    OBVIOUS
  <2> DEFINE a == LowerBound(l, First(l))
             b == LowerBound(l, WindowFrom(l, y, v))
  <2>1. WindowFrom(l, x, v) = First(l)
    BY <1>1, WindowEnds
  <2>2. a \in 0..N /\ \A i \in 1..N : l[i] < First(l) <=> i <= a
    BY <1>1, LowerBoundIs
  <2>3. a = 0
    BY <1>1, <2>2
  <2>4. from(x) = 1
    BY <2>1, <2>3 DEF FromInterval, Inside
  <2>5. /\ WindowFrom(l, y, v) \in Int
        /\ WindowFrom(l, y, v) = IF y - v > First(l) THEN y - v ELSE First(l)
    BY <1>1, WindowEnds
  <2>6. b \in 0..N /\ \A i \in 1..N : l[i] < WindowFrom(l, y, v) <=> i <= b
    BY <2>5, LowerBoundIs
  <2>7. from(y) = Inside(l, b) /\ from(y) = 1 + m
    BY <1>5, <2>4 DEF FromInterval
  <2> HIDE DEF b, from
  <2>8. 1 + m <= b
    BY <1>1, <1>2, <1>5, <2>6, <2>7 DEF Inside
  <2>9. 1 + m \in 1..N /\ 1 \in 1..N
    BY <1>1, <1>2
  <2>10. l[1 + m] < WindowFrom(l, y, v)
    BY <2>6, <2>8, <2>9
  <2>11. l[1 + m] = l[1] + D /\ l[1 + m] \in Int
    BY <1>1, <1>4, <2>9
  <2>12. l[1 + m] = First(l) + D
    BY <1>1, <2>11
  <2> DEFINE z == l[1 + m]
  <2>13. z < WindowFrom(l, y, v) /\ z = First(l) + D
    BY <2>10, <2>12
  <2> HIDE DEF a, x, y, z
  <2> QED BY <1>0, <1>3, <2>5, <2>13
<1>7. y + v <= Final(l)
  <2> SUFFICES ASSUME ~(y + v <= Final(l)) PROVE FALSE
    OBVIOUS
  <2> DEFINE a == LowerBound(l, Final(l))
             b == LowerBound(l, WindowTo(l, x, v))
  <2>1. WindowTo(l, y, v) = Final(l)
    BY <1>1, WindowEnds
  <2>2. a \in 0..N /\ \A i \in 1..N : l[i] < Final(l) <=> i <= a
    BY <1>1, LowerBoundIs
  <2>3. a = N - 1
    <3>1. N - 1 \in 1..N /\ N \in 1..N /\ N - 1 < N
      BY <1>1
    <3>2. l[N - 1] < l[N]
      BY <3>1, UniformSteps
    <3>3. N - 1 <= a /\ ~(N <= a)
      BY <1>1, <2>2, <3>1, <3>2
    <3> QED BY <1>1, <2>2, <3>3
  <2>4. to(y) = N - 1
    <3>1. Inside(l, a) = N - 1
      BY <1>1, <2>3 DEF Inside
    <3>2. to(y) = IF Inside(l, a) > from(y) THEN Inside(l, a) ELSE from(y)
      BY <2>1 DEF ToInterval
    <3> HIDE DEF a, to, from
    <3> QED BY <1>1, <1>5, <3>1, <3>2
  <2>5. /\ WindowTo(l, x, v) \in Int
        /\ WindowTo(l, x, v) = IF x + v < Final(l) THEN x + v ELSE Final(l)
    BY <1>1, WindowEnds
  <2>6. b \in 0..N /\ \A i \in 1..N : l[i] < WindowTo(l, x, v) <=> i <= b
    BY <2>5, LowerBoundIs
  <2>7. Inside(l, b) <= to(x) /\ to(x) = N - 1 - m
    <3>1. to(x) = IF Inside(l, b) > from(x) THEN Inside(l, b) ELSE from(x)
      BY DEF ToInterval
    <3>2. Inside(l, b) \in 1..(N - 1)
      BY <2>6, InsideIs
    <3>3. to(y) = to(x) + m /\ from(x) \in Int /\ to(x) \in Int /\ m \in Int /\ N \in Nat
      BY <1>1, <1>2, <1>5
    <3> HIDE DEF b, to, from, x, y
    <3> QED BY <2>4, <3>1, <3>2, <3>3
  <2> HIDE DEF a, b, from, to, x, y
  <2>8. b <= N - 1 - m
    BY <1>1, <1>2, <1>5, <2>6, <2>7 DEF Inside
  <2>9. N - m \in 1..N /\ ~(N - m <= b) /\ N - m + m = N /\ N \in 1..N
    BY <1>1, <1>2, <2>6, <2>8
  <2>10. ~(l[N - m] < WindowTo(l, x, v))
    BY <2>6, <2>9
  <2>11. l[N] = l[N - m] + D /\ l[N - m] \in Int
    BY <1>1, <1>4, <2>9
  <2> DEFINE z == l[N - m]
  <2>12. Final(l) = z + D /\ z \in Int /\ ~(z < WindowTo(l, x, v))
    BY <1>1, <2>10, <2>11
  <2> HIDE DEF z
  <2> QED BY <1>0, <1>3, <2>5, <2>12
<1> QED
  <2> HIDE DEF x, y
  <2>1. First(l) < x - v /\ First(l) < y - v /\ x + v <= Final(l) /\ y + v <= Final(l)
    BY <1>0, <1>3, <1>6, <1>7
  <2> QED BY <2>1 DEF x, y

\* Shares as they are for a point as far from i as theirs is from mid.
SlidTo(shares, i, mid) == {<<e[1] + i - mid, e[2], e[3], e[4]>> : e \in shares}

\* Shares of a tap some pixels further on, in an interval like its own.
LEMMA ShareSlides ==
    ASSUME NEW l, NEW j \in Int, NEW i \in Int, NEW mid \in Int, NEW k,
           NEW y \in Int, NEW D \in Int,
           Pixel(l, j - 1) \in Int, Pixel(l, j) \in Int,
           Pixel(l, j + i - mid - 1) = Pixel(l, j - 1) + D,
           Pixel(l, j + i - mid) = Pixel(l, j) + D
    PROVE  Shares(l, j + i - mid, y + D, k) = SlidTo(Shares(l, j, y, k), i, mid)
<1> DEFINE p == Pixel(l, j - 1)
           q == Pixel(l, j)
           a == <<j - 1, k, q - y, q - p>>
           b == <<j, k, y - p, q - p>>
           t(e) == <<e[1] + i - mid, e[2], e[3], e[4]>>
           A == <<j + i - mid - 1, k, q + D - (y + D), q + D - (p + D)>>
           B == <<j + i - mid, k, y + D - (p + D), q + D - (p + D)>>
<1>1. Shares(l, j, y, k) = {s \in {a, b} : s[3] # 0}
  BY DEF Shares
<1>2. Shares(l, j + i - mid, y + D, k) = {s \in {A, B} : s[3] # 0}
  BY DEF Shares
<1>3. A = t(a) /\ B = t(b)
  <2>1. /\ j + i - mid - 1 = j - 1 + i - mid
        /\ q + D - (y + D) = q - y /\ q + D - (p + D) = q - p /\ y + D - (p + D) = y - p
    OBVIOUS
  <2> HIDE DEF p, q
  <2> QED BY <2>1
<1>4. t(a)[3] = a[3] /\ t(b)[3] = b[3]
  OBVIOUS
<1> HIDE DEF A, B, a, b, t
<1>5. {s \in {A, B} : s[3] # 0} = {t(e) : e \in {s \in {a, b} : s[3] # 0}}
  BY <1>3, <1>4
<1> QED BY <1>1, <1>2, <1>5 DEF t, SlidTo

\* A pixel of the grid has a tap on it.
LEMMA TapOnPixel ==
    ASSUME NEW l, IsGrid(l), NEW i \in 0..(Len(l) - 1), NEW v \in Nat \ {0}
    PROVE  0 \in TapsOn(l, Pixel(l, i), v)
<1>1. i + 1 \in 1..Len(l) /\ 1 \in 1..Len(l) /\ Len(l) \in 1..Len(l) /\ Pixel(l, i) \in Int
  BY GridShape
<1>2. First(l) <= Pixel(l, i) /\ Pixel(l, i) <= Final(l) /\ First(l) \in Int /\ Final(l) \in Int
  BY <1>1, GridShape, GridOrdered DEF First, Final, Pixel
<1> QED BY <1>1, <1>2 DEF TapsOn, Taps

\* A tap of one point and the same tap of another, both off the edges: the
\* second's shares are the first's, slid by the points' distance in pixels.
LEMMA TapSlides ==
    ASSUME NEW l, IsGrid(l), LogUniform(l),
           NEW i \in 0..(Len(l) - 1), NEW mid \in 0..(Len(l) - 1), NEW k \in Int,
           First(l) < Pixel(l, mid) + k, Pixel(l, mid) + k <= Final(l),
           First(l) < Pixel(l, i) + k, Pixel(l, i) + k <= Final(l)
    PROVE  LET y == Pixel(l, mid) + k
               z == Pixel(l, i) + k
           IN  Shares(l, Inside(l, LowerBound(l, z)), z, k) =
                   SlidTo(Shares(l, Inside(l, LowerBound(l, y)), y, k), i, mid)
<1> DEFINE N == Len(l)
           y == Pixel(l, mid) + k
           z == Pixel(l, i) + k
           m == i - mid
           D == Pixel(l, i) - Pixel(l, mid)
           b == LowerBound(l, y)
           c == LowerBound(l, z)
<1>1. /\ N \in Nat /\ N >= 2 /\ \A a \in 1..N : l[a] \in Int
      /\ Pixel(l, i) = l[i + 1] /\ Pixel(l, mid) = l[mid + 1]
      /\ Pixel(l, i) \in Int /\ Pixel(l, mid) \in Int
  BY GridShape
<1>2. /\ mid + 1 \in 1..N /\ m \in Int /\ mid + 1 + m = i + 1 /\ i + 1 \in 1..N
      /\ D \in Int /\ y \in Int /\ z \in Int /\ z = y + D
  BY <1>1
<1>3. D = l[mid + 1 + m] - l[mid + 1]
  BY <1>1, <1>2
<1>4. /\ b \in 1..(N - 1) /\ c \in 1..(N - 1) /\ c = b + m
  <2>1. z = y + l[mid + 1 + m] - l[mid + 1]
    <3>1. l[mid + 1 + m] \in Int /\ l[mid + 1] \in Int
      BY <1>1, <1>2
    <3> HIDE DEF y, z, D, m
    <3> QED BY <1>2, <1>3, <3>1
  <2>2. First(l) < y /\ y <= Final(l) /\ First(l) < z /\ z <= Final(l)
    OBVIOUS
  <2> HIDE DEF y, z, m, D
  <2> QED BY <1>2, <2>1, <2>2, UniformSearch
<1>5. Inside(l, b) = b /\ Inside(l, c) = c
  <2>1. \A j \in 1..(N - 1) : j \in 0..N
    BY <1>1
  <2> HIDE DEF b, c
  <2> QED BY <1>4, <2>1, InsideIs
<1> HIDE DEF b, c, y, z, m, D
<1>6. /\ Pixel(l, b - 1) = l[b] /\ Pixel(l, b) = l[b + 1] /\ l[b] \in Int /\ l[b + 1] \in Int
      /\ Pixel(l, c - 1) = l[b + m] /\ Pixel(l, c) = l[b + 1 + m]
      /\ l[b + m] \in Int /\ l[b + 1 + m] \in Int
  <2>1. /\ b \in 1..N /\ b + 1 \in 1..N /\ b - 1 + 1 = b
        /\ c \in 1..N /\ c + 1 \in 1..N /\ c - 1 + 1 = c /\ c = b + m /\ c + 1 = b + 1 + m
    BY <1>1, <1>2, <1>4
  <2> QED BY <1>1, <2>1 DEF Pixel
<1>7. l[b + m] = l[b] + D /\ l[b + 1 + m] = l[b + 1] + D
  <2>1. b \in 1..N /\ b + 1 \in 1..N /\ b + m \in 1..N /\ b + 1 + m \in 1..N
    BY <1>1, <1>2, <1>4
  <2>2. l[b + m] - l[b] = D /\ l[b + 1 + m] - l[b + 1] = D
    BY <1>2, <1>3, <2>1, UniformSteps
  <2> DEFINE p == l[b]
             q == l[b + 1]
             P == l[b + m]
             Q == l[b + 1 + m]
  <2>3. p \in Int /\ q \in Int /\ P \in Int /\ Q \in Int /\ P - p = D /\ Q - q = D
    BY <1>6, <2>2
  <2>4. D \in Int
    BY <1>2
  <2> HIDE DEF p, q, P, Q
  <2>5. P = p + D /\ Q = q + D
    BY <2>3, <2>4
  <2> QED BY <2>5 DEF p, q, P, Q
<1>8. b + i - mid = c /\ b + i - mid - 1 = c - 1 /\ b \in Int
  BY <1>4 DEF m
<1>9. Shares(l, b + i - mid, y + D, k) = SlidTo(Shares(l, b, y, k), i, mid)
  <2>1. i \in Int /\ mid \in Int
    BY <1>1
  <2>2. Pixel(l, b - 1) \in Int /\ Pixel(l, b) \in Int
    BY <1>6
  <2>3. Pixel(l, b + i - mid - 1) = Pixel(l, b - 1) + D
    BY <1>6, <1>7, <1>8
  <2>4. Pixel(l, b + i - mid) = Pixel(l, b) + D
    BY <1>6, <1>7, <1>8
  <2>5. y \in Int /\ D \in Int /\ b \in Int
    BY <1>2, <1>8
  <2> QED BY <2>1, <2>2, <2>3, <2>4, <2>5, ShareSlides
<1> QED BY <1>2, <1>5, <1>8, <1>9 DEF y, z, b, c

\* The row of the middle, slid to a point whose window looks alike, is the
\* point's own.
LEMMA SlidIs ==
    ASSUME NEW l, IsGrid(l), LogUniform(l), NEW v \in Nat \ {0},
           NEW i \in 0..(Len(l) - 1), NEW mid \in 0..(Len(l) - 1), mid = Len(l) \div 2,
           FromInterval(l, Pixel(l, i), v) = FromInterval(l, Pixel(l, mid), v) + i - mid,
           ToInterval(l, Pixel(l, i), v) = ToInterval(l, Pixel(l, mid), v) + i - mid
    PROVE  Slid(l, v, i) = Searched(l, Pixel(l, i), v)
<1> DEFINE x == Pixel(l, mid)
           X == Pixel(l, i)
           s == Windows(l, l, v)[mid].start
           t(e) == <<e[1] + i - mid, e[2], e[3], e[4]>>
           old(k) == Shares(l, Inside(l, LowerBound(l, x + k)), x + k, k)
           new(k) == Shares(l, Inside(l, LowerBound(l, X + k)), X + k, k)
<1>1. x \in Int /\ X \in Int /\ First(l) \in Int /\ Final(l) \in Int
  BY GridShape
<1>2. s = FromInterval(l, x, v) - 1
  <2>1. l \in Seq(Int)
    BY DEF IsGrid
  <2>2. Windows(l, l, v)[mid].start = FromInterval(l, l[mid + 1], v) - 1
    <3>1. v \in Nat
      OBVIOUS
    <3>2. Windows(l, l, v)[mid] =
              [start |-> FromInterval(l, l[mid + 1], v) - 1,
               length |-> ToInterval(l, l[mid + 1], v) - FromInterval(l, l[mid + 1], v) + 2]
      BY <2>1, <3>1, WindowsAre
    <3> QED BY <3>2
  <2> QED BY <2>2 DEF Pixel
<1>3. FillPoint(l, x, s, v) = Searched(l, x, v)
  <2>1. Correct(l, x, v, FillPoint(l, x, s, v))
    BY <1>1, <1>2, FillIs
  <2> QED BY <2>1, TapOnPixel DEF Correct
<1>4. Slid(l, v, i) = {t(e) : e \in FillPoint(l, x, s, v)}
  BY DEF Slid
<1>5. /\ Searched(l, x, v) = UNION {old(k) : k \in TapsOn(l, x, v)}
      /\ Searched(l, X, v) = UNION {new(k) : k \in TapsOn(l, X, v)}
  BY DEF Searched
<1>6. CASE i = mid
  <2>1. ASSUME NEW e \in Searched(l, x, v) PROVE t(e) = e
    <3>1. PICK k \in TapsOn(l, x, v) : e \in old(k)
      BY <1>5
    <3> DEFINE j == Inside(l, LowerBound(l, x + k))
    <3>2. j \in Int
      <4>1. k \in Int
        BY DEF TapsOn, Taps
      <4>2. LowerBound(l, x + k) \in 0..Len(l)
        <5>1. x + k \in Int
          BY <1>1, <4>1
        <5> HIDE DEF x
        <5> QED BY <5>1, LowerBoundIs
      <4> QED BY <4>2, InsideIs
    <3> HIDE DEF j
    <3>3. \E p, q : e = <<j - 1, k, p, q>> \/ e = <<j, k, p, q>>
      BY <3>1 DEF Shares, j
    <3>4. \A a \in Int : a + mid - mid = a
      OBVIOUS
    <3>5. PICK a \in Int : \E p, q : e = <<a, k, p, q>>
      <4>1. j - 1 \in Int
        BY <3>2
      <4> QED BY <3>2, <3>3, <4>1
    <3> QED BY <1>6, <3>4, <3>5
  <2>2. {t(e) : e \in Searched(l, x, v)} = Searched(l, x, v)
    <3> HIDE DEF t
    <3> QED BY <2>1
  <2> QED BY <1>3, <1>4, <1>6, <2>2
<1>7. CASE i # mid
  <2>1. First(l) < x - v /\ First(l) < X - v /\ x + v <= Final(l) /\ X + v <= Final(l)
    <3>1. CASE i < mid
      <4>1. /\ FromInterval(l, x, v) = FromInterval(l, X, v) + mid - i
            /\ ToInterval(l, x, v) = ToInterval(l, X, v) + mid - i
        <5>1. /\ FromInterval(l, x, v) \in Int /\ FromInterval(l, X, v) \in Int
              /\ ToInterval(l, x, v) \in Int /\ ToInterval(l, X, v) \in Int
          BY <1>1, WindowIntervals
        <5>2. /\ FromInterval(l, X, v) = FromInterval(l, x, v) + i - mid
              /\ ToInterval(l, X, v) = ToInterval(l, x, v) + i - mid
          OBVIOUS
        <5> HIDE DEF x, X
        <5> QED BY <5>1, <5>2
      <4> QED BY <3>1, <4>1, AlikeUncut
    <3>2. CASE mid < i
      BY <3>2, AlikeUncut
    <3> QED BY <1>7, <3>1, <3>2
  <2>2. \A k \in Taps(v) : /\ k \in Int
                           /\ First(l) < x + k /\ x + k <= Final(l)
                           /\ First(l) < X + k /\ X + k <= Final(l)
    <3> HIDE DEF x, X
    <3> SUFFICES ASSUME NEW k \in Taps(v)
                 PROVE  /\ k \in Int
                        /\ First(l) < x + k /\ x + k <= Final(l)
                        /\ First(l) < X + k /\ X + k <= Final(l)
      OBVIOUS
    <3>1. k \in Int /\ 1 - v <= k /\ k <= v - 1
      BY DEF Taps
    <3> QED BY <1>1, <2>1, <3>1
  <2>3. TapsOn(l, x, v) = Taps(v) /\ TapsOn(l, X, v) = Taps(v)
    <3> HIDE DEF x, X
    <3>1. \A k \in Taps(v) : x + k \in First(l)..Final(l) /\ X + k \in First(l)..Final(l)
      <4> SUFFICES ASSUME NEW k \in Taps(v)
                   PROVE  x + k \in First(l)..Final(l) /\ X + k \in First(l)..Final(l)
        OBVIOUS
      <4>1. k \in Int /\ First(l) < x + k /\ x + k <= Final(l) /\ First(l) < X + k /\ X + k <= Final(l)
        BY <2>2
      <4> QED BY <1>1, <4>1
    <3> QED BY <3>1 DEF TapsOn
  <2>4. \A k \in Taps(v) : new(k) = {t(e) : e \in old(k)}
    BY <2>2, TapSlides DEF SlidTo
  <2> HIDE DEF x, X, old, new, t
  <2>5. Searched(l, X, v) = {t(e) : e \in Searched(l, x, v)}
    BY <1>5, <2>3, <2>4
  <2> QED BY <1>3, <1>4, <2>5 DEF X
<1> QED BY <1>6, <1>7

-----------------------------------------------------------------------------
(* Scans: what is written to the output.                                   *)

\* The core is empty, or a run of points of a uniform grid with alike windows.
LEMMA CoreIs ==
    ASSUME NEW l, NEW out, Len(out) \in Nat \ {0}, NEW v, NEW uniform, Core(l, out, v, uniform) # {}
    PROVE  /\ out = l /\ uniform = "yes"
           /\ AlikeRun(Windows(l, out, v), Len(out), Core(l, out, v, uniform))
<1> DEFINE w == Windows(l, out, v)
           c == CoreOf(w, Len(out))
<1>1. Core(l, out, v, uniform) =
          IF out = l /\ uniform = "yes" /\ Cardinality(c) > Len(out) \div 2 THEN c ELSE {}
  BY DEF Core
<1>2. out = l /\ uniform = "yes" /\ Core(l, out, v, uniform) = c
  BY <1>1
<1> HIDE DEF w
<1> QED BY <1>2, CoreOfIs DEF w

\* Runs are kept for the points off the core, and written to them.
LEMMA RunsAre ==
    ASSUME NEW n \in Nat \ {0}, NEW core,
           core = {} \/ \E low \in 0..(n - 1) : \E high \in low..(n - 1) : core = low..high
    PROVE  LET R == 0..(n - Cardinality(core) - 1)
           IN  /\ Cardinality(R) + Cardinality(core) = n
               /\ \A r \in R : /\ KeptRun(n, core, r) = OutputOf(core, r)
                               /\ OutputOf(core, r) \in 0..(n - 1)
               /\ {OutputOf(core, r) : r \in R} \cup core = 0..(n - 1)
<1> DEFINE R == 0..(n - Cardinality(core) - 1)
<1>1. CASE core = {}
  <2>1. Cardinality(core) = 0
    BY <1>1, FS_EmptySet
  <2>2. R = 0..(n - 1) /\ Cardinality(R) = n
    <3>1. R = 0..(n - 1)
      BY <2>1
    <3>2. Cardinality(0..(n - 1)) = n
      BY FS_Interval
    <3> QED BY <3>1, <3>2
  <2>3. \A r \in R : KeptRun(n, core, r) = r /\ OutputOf(core, r) = r
    BY <1>1 DEF KeptRun, OutputOf
  <2> QED BY <1>1, <2>1, <2>2, <2>3
<1>2. ASSUME NEW low \in 0..(n - 1), NEW high \in low..(n - 1), core = low..high
      PROVE  /\ Cardinality(R) + Cardinality(core) = n
             /\ \A r \in R : /\ KeptRun(n, core, r) = OutputOf(core, r)
                             /\ OutputOf(core, r) \in 0..(n - 1)
             /\ {OutputOf(core, r) : r \in R} \cup core = 0..(n - 1)
  <2> DEFINE d == high - low + 1
  <2>1. Cardinality(core) = d
    BY <1>2, FS_Interval
  <2>2. Min(core) = low /\ Max(core) = high /\ core # {}
    <3>1. low \in core /\ high \in core /\ core \in SUBSET Int
      BY <1>2
    <3>2. \A y \in core : low <= y /\ y <= high
      BY <1>2
    <3> QED BY <3>1, <3>2, MinIs, MaxIs
  <2>3. d \in 1..n /\ R = 0..(n - d - 1)
    <3>1. d \in 1..n
      OBVIOUS
    <3> QED BY <2>1, <3>1
  <2>4. Cardinality(R) = n - d
    <3>1. n - d - 1 \in Int /\ n - d \in Nat
      BY <2>3
    <3>2. Cardinality(0..(n - d - 1)) = IF 0 > n - d - 1 THEN 0 ELSE n - d - 1 - 0 + 1
      BY <3>1, FS_Interval
    <3> HIDE DEF d, R
    <3> QED BY <2>3, <3>1, <3>2
  <2>5. \A r \in R : /\ KeptRun(n, core, r) = OutputOf(core, r)
                     /\ OutputOf(core, r) = IF r >= low THEN r + d ELSE r
                     /\ OutputOf(core, r) \in 0..(n - 1)
    <3> SUFFICES ASSUME NEW r \in R
                 PROVE  /\ KeptRun(n, core, r) = OutputOf(core, r)
                        /\ OutputOf(core, r) = IF r >= low THEN r + d ELSE r
                        /\ OutputOf(core, r) \in 0..(n - 1)
      OBVIOUS
    <3>1. r \in 0..(n - d - 1)
      BY <2>3
    <3>2. /\ KeptRun(n, core, r) = IF r >= low THEN r + d ELSE r
          /\ OutputOf(core, r) = IF r >= low THEN r - low + high + 1 ELSE r
      BY <2>1, <2>2 DEF KeptRun, OutputOf
    <3> HIDE DEF R
    <3> QED BY <3>1, <3>2
  <2>6. ASSUME NEW i \in 0..(n - 1), i \notin core
        PROVE  \E r \in R : i = OutputOf(core, r)
    <3>1. CASE i < low
      <4>1. i \in R
        <5>1. i \in 0..(n - d - 1)
          BY <3>1
        <5> QED BY <2>3, <5>1
      <4>2. OutputOf(core, i) = i
        BY <2>5, <3>1, <4>1
      <4> QED BY <4>1, <4>2
    <3>2. CASE ~(i < low)
      <4>1. i > high
        BY <1>2, <2>6, <3>2
      <4>2. i - d \in R
        <5>1. i - d \in 0..(n - d - 1)
          BY <4>1
        <5> QED BY <2>3, <5>1
      <4>3. OutputOf(core, i - d) = i
        <5>1. OutputOf(core, i - d) = IF i - d >= low THEN i - d + d ELSE i - d
          BY <2>5, <4>2
        <5> QED BY <4>1, <5>1
      <4> QED BY <4>2, <4>3
    <3> QED BY <3>1, <3>2
  <2>7. core \in SUBSET (0..(n - 1))
    BY <1>2
  <2> HIDE DEF R
  <2>8. {OutputOf(core, r) : r \in R} \cup core = 0..(n - 1)
    BY <2>5, <2>6, <2>7
  <2>9. Cardinality(R) + Cardinality(core) = n
    BY <2>1, <2>3, <2>4
  <2> QED BY <2>5, <2>8, <2>9
<1> QED BY <1>1, <1>2

\* Every output point gets the row of its own taps, once.
LEMMA BroadensIs ==
    ASSUME NEW l, IsGrid(l), NEW out \in Seq(Int), Len(out) >= 1, NEW v \in Nat \ {0},
           NEW uniform, uniform = "yes" => LogUniform(l)
    PROVE  Broadens(l, out, v, uniform)
<1> DEFINE n == Len(out)
           w == Windows(l, out, v)
           core == Core(l, out, v, uniform)
           R == 0..(n - Cardinality(core) - 1)
           a == Applied(l, out, v, uniform)
           mid == n \div 2
<1>1. n \in Nat \ {0} /\ v \in Nat /\ mid \in 0..(n - 1)
  OBVIOUS
<1>2. core # {} =>
          /\ out = l /\ uniform = "yes"
          /\ AlikeRun(w, n, core)
  BY <1>1, CoreIs
<1>3. core = {} \/ \E low \in 0..(n - 1) : \E high \in low..(n - 1) : core = low..high
  <2> HIDE DEF core, n, w
  <2>1. SUFFICES ASSUME core # {}
                 PROVE  \E low \in 0..(n - 1) : \E high \in low..(n - 1) : core = low..high
    OBVIOUS
  <2>2. PICK low \in 0..mid, high \in mid..(n - 1) : core = low..high
    BY <1>2, <2>1 DEF AlikeRun
  <2>3. low \in 0..(n - 1) /\ high \in low..(n - 1)
    BY <1>1
  <2> QED BY <2>2, <2>3
<1>4. /\ Cardinality(R) + Cardinality(core) = n
      /\ \A r \in R : /\ KeptRun(n, core, r) = OutputOf(core, r)
                      /\ OutputOf(core, r) \in 0..(n - 1)
      /\ {OutputOf(core, r) : r \in R} \cup core = 0..(n - 1)
  <2> HIDE DEF n, core
  <2> QED BY <1>1, <1>3, RunsAre
<1>5. /\ DOMAIN a.core = core /\ DOMAIN a.runs = R
      /\ \A i \in core : a.core[i] = Slid(l, v, i)
      /\ \A r \in R : a.runs[r] = [to |-> OutputOf(core, r),
                                   window |-> w[KeptRun(n, core, r)],
                                   row |-> FillPoint(l, Pixel(out, KeptRun(n, core, r)),
                                                     w[KeptRun(n, core, r)].start, v)]
  <2> HIDE DEF core
  <2> QED BY DEF Applied, core
<1> HIDE DEF a
<1>6. \A r \in R : a.runs[r].to = OutputOf(core, r)
  <2> SUFFICES ASSUME NEW r \in R PROVE a.runs[r].to = OutputOf(core, r)
    OBVIOUS
  <2>1. \E x, y : a.runs[r] = [to |-> OutputOf(core, r), window |-> x, row |-> y]
    BY <1>5
  <2> HIDE DEF core
  <2> QED BY <2>1
<1>7. {a.runs[r].to : r \in R} = {OutputOf(core, r) : r \in R}
  <2> HIDE DEF R, core
  <2> QED BY <1>6
<1>8. ASSUME NEW i \in core PROVE Correct(l, Pixel(out, i), v, a.core[i])
  <2>1. /\ out = l /\ uniform = "yes" /\ i \in 0..(n - 1)
        /\ w[i].length = w[mid].length /\ w[i].start - i = w[mid].start - mid
    <3>1. out = l /\ uniform = "yes"
      BY <1>2
    <3>2. PICK low \in 0..mid, high \in mid..(n - 1) :
                 /\ core = low..high
                 /\ \A k \in low..high : /\ w[k].length = w[mid].length
                                         /\ w[k].start - k = w[mid].start - mid
      <4> HIDE DEF core, w, n
      <4> QED BY <1>2 DEF AlikeRun
    <3> HIDE DEF core, w, n
    <3>3. i \in low..high
      BY <3>2
    <3>4. i \in 0..(n - 1)
      BY <1>1, <3>3
    <3> QED BY <3>1, <3>2, <3>3, <3>4
  <2> DEFINE x == Pixel(l, mid)
             X == Pixel(l, i)
  <2>2. /\ x \in Int /\ X \in Int
        /\ w[mid] = [start |-> FromInterval(l, x, v) - 1,
                     length |-> ToInterval(l, x, v) - FromInterval(l, x, v) + 2]
        /\ w[i] = [start |-> FromInterval(l, X, v) - 1,
                   length |-> ToInterval(l, X, v) - FromInterval(l, X, v) + 2]
    BY <1>1, <2>1, WindowsAre DEF Pixel
  <2> HIDE DEF w, x, X
  <2>3. /\ FromInterval(l, X, v) - 1 - i = FromInterval(l, x, v) - 1 - mid
        /\ ToInterval(l, X, v) - FromInterval(l, X, v) + 2 =
           ToInterval(l, x, v) - FromInterval(l, x, v) + 2
    BY <2>1, <2>2
  <2>4. /\ FromInterval(l, x, v) \in Int /\ FromInterval(l, X, v) \in Int
        /\ ToInterval(l, x, v) \in Int /\ ToInterval(l, X, v) \in Int
        /\ i \in Int /\ mid \in Int
    BY <1>1, <2>1, <2>2, WindowIntervals
  <2>5. /\ FromInterval(l, X, v) = FromInterval(l, x, v) + i - mid
        /\ ToInterval(l, X, v) = ToInterval(l, x, v) + i - mid
    <3> DEFINE f == FromInterval(l, x, v)
               F == FromInterval(l, X, v)
               t == ToInterval(l, x, v)
               T == ToInterval(l, X, v)
    <3>1. /\ f \in Int /\ F \in Int /\ t \in Int /\ T \in Int /\ i \in Int /\ mid \in Int
          /\ F - 1 - i = f - 1 - mid /\ T - F + 2 = t - f + 2
      BY <2>3, <2>4
    <3> HIDE DEF mid, f, F, t, T
    <3>2. F = f + i - mid /\ T = t + i - mid
      BY <3>1
    <3> QED BY <3>2 DEF f, F, t, T
  <2>6. /\ i \in 0..(Len(l) - 1) /\ mid \in 0..(Len(l) - 1) /\ mid = Len(l) \div 2
        /\ Pixel(out, i) = X
    BY <1>1, <2>1 DEF X
  <2>7. Slid(l, v, i) = Searched(l, X, v)
    <3> HIDE DEF mid
    <3> QED BY <2>1, <2>5, <2>6, SlidIs DEF x, X
  <2>8. TapsOn(l, X, v) # {}
    BY <2>6, TapOnPixel DEF X
  <2> QED BY <1>5, <2>6, <2>7, <2>8 DEF Correct
<1>9. ASSUME NEW r \in R
      PROVE  LET u == a.runs[r]
             IN  /\ Correct(l, Pixel(out, u.to), v, u.row)
                 /\ \A e \in u.row : e[1] \in u.window.start..(u.window.start + u.window.length - 1)
                 /\ Has(l, u.window.start + u.window.length - 1)
  <2> DEFINE i == OutputOf(core, r)
             x == Pixel(out, i)
             from == FromInterval(l, x, v)
             to == ToInterval(l, x, v)
  <2>1. i \in 0..(n - 1) /\ KeptRun(n, core, r) = i
    BY <1>4
  <2>2. x \in Int /\ w[i] = [start |-> from - 1, length |-> to - from + 2]
    <3> HIDE DEF i
    <3> QED BY <1>1, <2>1, WindowsAre DEF Pixel
  <2>3. a.runs[r] = [to |-> i, window |-> w[i], row |-> FillPoint(l, x, w[i].start, v)]
    BY <1>5, <2>1
  <2> HIDE DEF i, w, x
  <2>4. from \in 1..(Len(l) - 1) /\ to \in from..(Len(l) - 1) /\ Len(l) \in Nat
    BY <1>1, <2>2, WindowIntervals, GridShape
  <2>5. /\ Correct(l, x, v, FillPoint(l, x, from - 1, v))
        /\ \A e \in FillPoint(l, x, from - 1, v) : e[1] \in (from - 1)..to
    BY <2>2, FillIs
  <2> HIDE DEF from, to
  <2>6. from - 1 + (to - from + 2) - 1 = to /\ to \in 0..(Len(l) - 1)
    BY <2>4
  <2>7. /\ a.runs[r].to = i
        /\ a.runs[r].window.start = from - 1 /\ a.runs[r].window.length = to - from + 2
        /\ a.runs[r].row = FillPoint(l, x, from - 1, v)
    BY <2>2, <2>3
  <2> QED BY <2>5, <2>6, <2>7 DEF Has, x
<1> HIDE DEF core, R, n
<1> QED BY <1>4, <1>5, <1>7, <1>8, <1>9 DEF Broadens, a, n

-----------------------------------------------------------------------------
(* Scans: the memo and the tables.                                         *)

Grids == InGrids \cup SameGrids

\* What the memo may hold.
Answers == {[probe |-> ProbeOf(o), ok |-> Verdict(o)] : o \in Grids}

\* What keeps TablesRight: the memo's answers are those of grids it was asked
\* about, and who takes a grid for uniform has it from a uniform one of its probe.
TablesInv ==
    /\ memo \in Seq(Answers) /\ Len(memo) <= MemoSize
    /\ job \in [Caller -> {NoJob} \cup JobType]
    /\ \A t \in Caller : job[t] # NoJob =>
           /\ job[t].in \in Grids /\ job[t].out \in OutGrids \cup Grids /\ job[t].v \in HalfWidths
           /\ job[t].uniform \in {"compute", "yes"} => Same(t)
           /\ job[t].uniform = "yes" =>
                  \E o \in Grids : LogUniform(o) /\ ProbeOf(o) = ProbeOf(job[t].in)

\* GridsAssumption, as the lemmas above want it.
LEMMA GridsAre ==
    /\ \A l \in Grids : IsGrid(l) /\ l \in Seq(Int)
    /\ \A out \in OutGrids \cup Grids : out \in Seq(Int) /\ Len(out) >= 2
    /\ \A v \in HalfWidths : v \in Nat \ {0}
    /\ MemoSize \in Nat \ {0}
BY GridsAssumption DEF Grids, IsGrid

\* A new call is a job.
LEMMA JobIs ==
    ASSUME NEW l \in Grids, NEW out \in OutGrids \cup Grids, NEW v \in HalfWidths
    PROVE  /\ Job(l, out, v) \in JobType
           /\ Job(l, out, v).in = l /\ Job(l, out, v).out = out /\ Job(l, out, v).v = v
           /\ Job(l, out, v).uniform = "unknown"
<1>1. l \in Seq(Int) /\ out \in Seq(Int) /\ v \in Nat
  BY GridsAre
<1> QED BY <1>1 DEF Job, JobType

\* The invariant holds at the start.
LEMMA TablesInvInit == ScansInit => TablesInv
<1> SUFFICES ASSUME ScansInit PROVE TablesInv
  OBVIOUS
<1>1. memo \in Seq(Answers) /\ Len(memo) <= MemoSize
  <2>1. memo = <<>>
    BY DEF ScansInit
  <2> QED BY <2>1, GridsAre
<1>2. CASE job = [t \in Caller |-> NoJob]
  BY <1>1, <1>2 DEF TablesInv
<1>3. ASSUME NEW t \in Caller, NEW l \in InGrids, NEW out \in OutGrids, NEW v \in HalfWidths,
             job = [[u \in Caller |-> NoJob] EXCEPT ![t] = Job(l, out, v)]
      PROVE  TablesInv
  <2>1. /\ Job(l, out, v) \in JobType
        /\ Job(l, out, v).in \in Grids /\ Job(l, out, v).out \in OutGrids \cup Grids
        /\ Job(l, out, v).v \in HalfWidths /\ Job(l, out, v).uniform = "unknown"
    <3>1. l \in Grids
      BY DEF Grids
    <3> QED BY <3>1, JobIs
  <2>2. \A u \in Caller : job[u] = IF u = t THEN Job(l, out, v) ELSE NoJob
    BY <1>3
  <2>3. job \in [Caller -> {NoJob} \cup JobType]
    BY <1>3, <2>1
  <2>4. ASSUME NEW u \in Caller, job[u] # NoJob
        PROVE  /\ job[u].in \in Grids /\ job[u].out \in OutGrids \cup Grids
               /\ job[u].v \in HalfWidths /\ job[u].uniform = "unknown"
    BY <2>1, <2>2, <2>4
  <2> QED BY <1>1, <2>3, <2>4 DEF TablesInv
<1> QED BY <1>2, <1>3 DEF ScansInit

\* The verdict the memo has is that of a grid with the same probe.
LEMMA RecalledIs ==
    ASSUME memo \in Seq(Answers), NEW l, Remembered(l)
    PROVE  \E o \in Grids : Recalled(l) = Verdict(o) /\ ProbeOf(o) = ProbeOf(l)
<1> DEFINE S == {i \in 1..Len(memo) : memo[i].probe = ProbeOf(l)}
<1>1. S # {} /\ S \in SUBSET Nat
  BY DEF Remembered
<1>2. PICK i \in S : \A j \in S : i <= j
  <2> HIDE DEF S
  <2> QED BY <1>1, LeastNatural
<1>3. Min(S) = i
  <2>1. S \in SUBSET Int
    OBVIOUS
  <2> HIDE DEF S
  <2> QED BY <1>2, <2>1, MinIs
<1>4. Recalled(l) = memo[i].ok
  BY <1>3 DEF Recalled
<1>5. memo[i] \in Answers /\ memo[i].probe = ProbeOf(l)
  BY <1>2
<1>6. PICK o \in Grids : memo[i] = [probe |-> ProbeOf(o), ok |-> Verdict(o)]
  BY <1>5 DEF Answers
<1> QED BY <1>4, <1>5, <1>6

\* A step that finds u for t, where u is right, keeps the jobs right.
LEMMA FindsKeeps ==
    ASSUME TablesInv, NEW t \in Caller, job[t] # NoJob, Same(t),
           NEW u \in {"compute", "yes", "no"}, Finds(t, u),
           u = "yes" => \E o \in Grids : LogUniform(o) /\ ProbeOf(o) = ProbeOf(job[t].in),
           memo' \in Seq(Answers), Len(memo') <= MemoSize
    PROVE  TablesInv'
<1> DEFINE j == [job[t] EXCEPT !.uniform = u]
<1>1. job[t] \in JobType /\ job \in [Caller -> {NoJob} \cup JobType]
  BY DEF TablesInv
<1>2. job' = [job EXCEPT ![t] = j]
  BY DEF Finds
<1>3. /\ j \in JobType /\ j.in = job[t].in /\ j.out = job[t].out /\ j.v = job[t].v
      /\ j.uniform = u
  BY <1>1 DEF JobType
<1>4. job' \in [Caller -> {NoJob} \cup JobType] /\ job'[t] = j
  BY <1>1, <1>2, <1>3
<1>5. \A s \in Caller \ {t} : job'[s] = job[s]
  BY <1>1, <1>2
<1> HIDE DEF j
<1>6. ASSUME NEW s \in Caller, job'[s] # NoJob
      PROVE  /\ job'[s].in \in Grids /\ job'[s].out \in OutGrids \cup Grids
             /\ job'[s].v \in HalfWidths
             /\ job'[s].uniform \in {"compute", "yes"} => job'[s].in = job'[s].out
             /\ job'[s].uniform = "yes" =>
                    \E o \in Grids : LogUniform(o) /\ ProbeOf(o) = ProbeOf(job'[s].in)
  <2>1. CASE s = t
    BY <1>3, <1>4, <2>1 DEF TablesInv, Same
  <2>2. CASE s # t
    BY <1>5, <1>6, <2>2 DEF TablesInv, Same
  <2> QED BY <2>1, <2>2
<1> QED BY <1>4, <1>6 DEF TablesInv, Same

\* Each step keeps it: an answer is recorded of the grid it was computed for.
LEMMA TablesInvNext == TablesInv /\ [ScansNext]_scanVars => TablesInv'
<1> SUFFICES ASSUME TablesInv, [ScansNext]_scanVars PROVE TablesInv'
  OBVIOUS
<1>0. /\ memo \in Seq(Answers) /\ Len(memo) <= MemoSize
      /\ job \in [Caller -> {NoJob} \cup JobType]
  BY DEF TablesInv
<1>1. ASSUME NEW t \in Caller, Wants(t) PROVE TablesInv'
  <2>1. PICK l \in SameGrids, v \in HalfWidths : job' = [job EXCEPT ![t] = Job(l, l, v)]
    BY <1>1 DEF Wants
  <2>2. /\ Job(l, l, v) \in JobType
        /\ Job(l, l, v).in \in Grids /\ Job(l, l, v).out \in OutGrids \cup Grids
        /\ Job(l, l, v).v \in HalfWidths /\ Job(l, l, v).uniform = "unknown"
    <3>1. l \in Grids
      BY DEF Grids
    <3> QED BY <3>1, JobIs
  <2>3. job' \in [Caller -> {NoJob} \cup JobType] /\ memo' = memo
    BY <1>0, <1>1, <2>1, <2>2 DEF Wants
  <2>4. \A s \in Caller : job'[s] = IF s = t THEN Job(l, l, v) ELSE job[s]
    BY <1>0, <2>1
  <2>5. ASSUME NEW s \in Caller, job'[s] # NoJob
        PROVE  /\ job'[s].in \in Grids /\ job'[s].out \in OutGrids \cup Grids
               /\ job'[s].v \in HalfWidths
               /\ job'[s].uniform \in {"compute", "yes"} => job'[s].in = job'[s].out
               /\ job'[s].uniform = "yes" =>
                      \E o \in Grids : LogUniform(o) /\ ProbeOf(o) = ProbeOf(job'[s].in)
    <3>1. CASE s = t
      BY <2>2, <2>4, <3>1
    <3>2. CASE s # t
      BY <2>4, <2>5, <3>2 DEF TablesInv, Same
    <3> QED BY <3>1, <3>2
  <2> QED BY <1>0, <2>3, <2>5 DEF TablesInv, Same
<1>2. ASSUME NEW t \in Caller, Recalls(t) PROVE TablesInv'
  <2> DEFINE u == IF Remembered(job[t].in) THEN Recalled(job[t].in) ELSE "compute"
  <2>1. job[t] # NoJob /\ Same(t) /\ Finds(t, u) /\ memo' = memo
    BY <1>2 DEF Recalls, Wonders, Unsure
  <2>2. /\ u \in {"compute", "yes", "no"}
        /\ u = "yes" => \E o \in Grids : LogUniform(o) /\ ProbeOf(o) = ProbeOf(job[t].in)
    <3>1. CASE Remembered(job[t].in)
      <4>1. PICK o \in Grids : Recalled(job[t].in) = Verdict(o) /\ ProbeOf(o) = ProbeOf(job[t].in)
        BY <1>0, <3>1, RecalledIs
      <4> QED BY <3>1, <4>1 DEF Verdict
    <3>2. CASE ~Remembered(job[t].in)
      BY <3>2
    <3> QED BY <3>1, <3>2
  <2> HIDE DEF u
  <2> QED BY <1>0, <2>1, <2>2, FindsKeeps
<1>3. ASSUME NEW t \in Caller, Records(t) PROVE TablesInv'
  <2> DEFINE l == job[t].in
             kept == IF Len(memo) >= MemoSize THEN Tail(memo) ELSE memo
             new == [probe |-> ProbeOf(l), ok |-> Verdict(l)]
  <2>1. job[t] # NoJob /\ job[t].uniform = "compute" /\ Finds(t, Verdict(l)) /\ memo' = Append(kept, new)
    BY <1>3 DEF Records
  <2>2. Same(t) /\ l \in Grids
    BY <2>1 DEF TablesInv
  <2>3. new \in Answers
    BY <2>2 DEF Answers
  <2>4. /\ Verdict(l) \in {"compute", "yes", "no"}
        /\ Verdict(l) = "yes" => \E o \in Grids : LogUniform(o) /\ ProbeOf(o) = ProbeOf(l)
    BY <2>2 DEF Verdict
  <2>5. memo' \in Seq(Answers) /\ Len(memo') <= MemoSize
    <3> HIDE DEF new
    <3>1. MemoSize \in Nat \ {0}
      BY GridsAre
    <3>2. CASE Len(memo) >= MemoSize
      <4>1. memo # <<>> /\ kept = Tail(memo)
        BY <1>0, <3>1, <3>2
      <4>2. kept \in Seq(Answers) /\ Len(kept) = Len(memo) - 1
        BY <1>0, <4>1
      <4> HIDE DEF kept
      <4> QED BY <1>0, <2>1, <2>3, <3>1, <4>2
    <3>3. CASE ~(Len(memo) >= MemoSize)
      BY <1>0, <2>1, <2>3, <3>1, <3>3
    <3> QED BY <3>2, <3>3
  <2> HIDE DEF kept, new
  <2> QED BY <2>1, <2>2, <2>4, <2>5, FindsKeeps
<1>4. ASSUME NEW t \in Caller, Passes(t) PROVE TablesInv'
  <2> DEFINE j == [job[t] EXCEPT !.uniform = "no"]
  <2>1. job[t] # NoJob /\ memo' = memo /\ job' = [job EXCEPT ![t] = j]
    BY <1>4 DEF Passes, Unsure, Finds
  <2>2. job[t] \in JobType
    BY <1>0, <2>1
  <2>3. /\ j \in JobType /\ j.in = job[t].in /\ j.out = job[t].out /\ j.v = job[t].v
        /\ j.uniform = "no"
    BY <2>2 DEF JobType
  <2>4. job' \in [Caller -> {NoJob} \cup JobType] /\ \A s \in Caller : job'[s] = IF s = t THEN j ELSE job[s]
    BY <1>0, <2>1, <2>3
  <2> HIDE DEF j
  <2>5. ASSUME NEW s \in Caller, job'[s] # NoJob
        PROVE  /\ job'[s].in \in Grids /\ job'[s].out \in OutGrids \cup Grids
               /\ job'[s].v \in HalfWidths
               /\ job'[s].uniform \in {"compute", "yes"} => job'[s].in = job'[s].out
               /\ job'[s].uniform = "yes" =>
                      \E o \in Grids : LogUniform(o) /\ ProbeOf(o) = ProbeOf(job'[s].in)
    <3>1. CASE s = t
      BY <2>1, <2>3, <2>4, <3>1 DEF TablesInv
    <3>2. CASE s # t
      BY <2>4, <2>5, <3>2 DEF TablesInv, Same
    <3> QED BY <3>1, <3>2
  <2> QED BY <1>0, <2>1, <2>4, <2>5 DEF TablesInv, Same
<1>5. ASSUME NEW t \in Caller, Broadened(t) PROVE TablesInv'
  <2>1. job' = [job EXCEPT ![t] = NoJob] /\ memo' = memo
    BY <1>5 DEF Broadened
  <2>2. job' \in [Caller -> {NoJob} \cup JobType] /\ \A s \in Caller : job'[s] = IF s = t THEN NoJob ELSE job[s]
    BY <1>0, <2>1
  <2>3. ASSUME NEW s \in Caller, job'[s] # NoJob
        PROVE  job'[s] = job[s] /\ job[s] # NoJob
    BY <2>2, <2>3
  <2> QED BY <1>0, <2>1, <2>2, <2>3 DEF TablesInv, Same
<1>6. CASE UNCHANGED scanVars
  BY <1>6 DEF scanVars, TablesInv, Same
<1> QED BY <1>1, <1>2, <1>3, <1>4, <1>5, <1>6 DEF ScansNext

\* It holds always.
LEMMA TablesInvAlways == ScansSpec => []TablesInv
BY TablesInvInit, TablesInvNext, PTL DEF ScansSpec

\* The weight tables of every call are those of the searches, unless another,
\* uniform grid has the probe of the call's grid.
LEMMA TablesRightHolds == TablesInv => TablesRight
<1> SUFFICES ASSUME TablesInv PROVE TablesRight
  OBVIOUS
<1>1. Len(memo) <= MemoSize
  BY DEF TablesInv
<1>2. ASSUME NEW t \in Caller, Ready(t)
      PROVE  LET j == job[t]
             IN  /\ \/ Broadens(j.in, j.out, j.v, j.uniform)
                    \/ \E o \in InGrids \cup SameGrids :
                           o # j.in /\ LogUniform(o) /\ ProbeOf(o) = ProbeOf(j.in)
                 /\ j.uniform = "yes" => Same(t)
                 /\ Same(t) => \A i \in 0..(Len(j.in) - 1) :
                        Weights(j.in, i, j.v) = Searched(j.in, Pixel(j.in, i), j.v)
  <2> DEFINE j == job[t]
  <2>1. /\ j # NoJob /\ j.in \in Grids /\ j.out \in OutGrids \cup Grids /\ j.v \in HalfWidths
        /\ j.uniform = "yes" => Same(t)
        /\ j.uniform = "yes" => \E o \in Grids : LogUniform(o) /\ ProbeOf(o) = ProbeOf(j.in)
    BY <1>2 DEF TablesInv, Ready
  <2>2. /\ IsGrid(j.in) /\ j.out \in Seq(Int) /\ Len(j.out) >= 1 /\ j.v \in Nat \ {0}
    BY <2>1, GridsAre
  <2> HIDE DEF j
  <2>3. \/ Broadens(j.in, j.out, j.v, j.uniform)
        \/ \E o \in InGrids \cup SameGrids : o # j.in /\ LogUniform(o) /\ ProbeOf(o) = ProbeOf(j.in)
    <3>1. CASE j.uniform = "yes" => LogUniform(j.in)
      BY <2>2, <3>1, BroadensIs
    <3>2. CASE j.uniform = "yes" /\ ~LogUniform(j.in)
      BY <2>1, <3>2 DEF Grids
    <3> QED BY <3>1, <3>2
  <2>4. \A i \in 0..(Len(j.in) - 1) : Weights(j.in, i, j.v) = Searched(j.in, Pixel(j.in, i), j.v)
    BY <2>2, WeightsAre
  <2> QED BY <2>1, <2>3, <2>4 DEF j
<1> QED BY <1>1, <1>2 DEF TablesRight

\* TablesRight for any grids, threads and size of the memo.
THEOREM TablesAlwaysRight == ScansSpec => []TablesRight
BY TablesInvAlways, TablesRightHolds, PTL

-----------------------------------------------------------------------------
(* Scans: the other searches.                                              *)

\* Resolution's two searches give the pixels within r of x.
LEMMA KernelIs ==
    ASSUME NEW l, IsGrid(l), NEW x \in Int, NEW r \in Nat
    PROVE  Kernel(l, x, r) = {j \in 0..(Len(l) - 1) : Pixel(l, j) \in (x - r)..(x + r)}
<1> DEFINE a == LowerBound(l, x - r)
           b == UpperBound(l, x + r)
           m == IF b > a THEN b ELSE a
<1>1. /\ Len(l) \in Nat /\ a \in 0..Len(l) /\ b \in 0..Len(l)
      /\ \A i \in 1..Len(l) : l[i] \in Int /\ (l[i] < x - r <=> i <= a) /\ (l[i] <= x + r <=> i <= b)
  <2>1. x - r \in Int /\ x + r \in Int
    OBVIOUS
  <2> QED BY <2>1, GridShape, LowerBoundIs, UpperBoundIs
<1>2. Max({b, a}) = m
  <2>1. m \in {b, a} /\ {b, a} \in SUBSET Int /\ \A y \in {b, a} : y <= m
    BY <1>1
  <2> HIDE DEF a, b, m
  <2> QED BY <2>1, MaxIs
<1>3. Kernel(l, x, r) = a..(m - 1)
  BY <1>2 DEF Kernel
<1> HIDE DEF a, b
<1>4. ASSUME NEW j \in Int
      PROVE  j \in a..(m - 1) <=> j \in 0..(Len(l) - 1) /\ Pixel(l, j) \in (x - r)..(x + r)
  <2>1. CASE j \in 0..(Len(l) - 1)
    <3> DEFINE y == l[j + 1]
    <3>1. j + 1 \in 1..Len(l)
      BY <1>1, <2>1
    <3>2. y \in Int /\ (y < x - r <=> j + 1 <= a) /\ (y <= x + r <=> j + 1 <= b)
      BY <1>1, <3>1
    <3>3. a \in Nat /\ b \in Nat
      BY <1>1
    <3> HIDE DEF y
    <3>4. j \in a..(m - 1) <=> y \in (x - r)..(x + r)
      BY <3>2, <3>3
    <3> QED BY <2>1, <3>4 DEF Pixel, y
  <2>2. CASE j \notin 0..(Len(l) - 1)
    BY <1>1, <2>2
  <2> QED BY <2>1, <2>2
<1>5. a..(m - 1) \in SUBSET Int
  OBVIOUS
<1> HIDE DEF m
<1> QED BY <1>3, <1>4, <1>5

\* The spline's binary search, and that it does not go down for a higher point.
LEMMA SplineIntervalIs ==
    ASSUME NEW l, IsGrid(l), NEW x \in Int
    PROVE  LET u == UpperBound(l, x)
           IN  /\ SplineInterval(l, x) \in 0..(Len(l) - 2)
               /\ SplineInterval(l, x) =
                      IF u = 0 THEN 0 ELSE IF u - 1 < Len(l) - 2 THEN u - 1 ELSE Len(l) - 2
<1> DEFINE u == UpperBound(l, x)
           a == IF u = 0 THEN 0 ELSE u - 1
           b == IF a < Len(l) - 2 THEN a ELSE Len(l) - 2
<1>1. u \in 0..Len(l) /\ Len(l) \in Nat /\ Len(l) >= 2
  BY GridShape, UpperBoundIs
<1>2. SplineInterval(l, x) = Min({Max({u - 1, 0}), Len(l) - 2})
  BY DEF SplineInterval, UpperBound
<1> HIDE DEF u
<1>3. Max({u - 1, 0}) = a
  <2>1. a \in {u - 1, 0} /\ {u - 1, 0} \in SUBSET Int /\ \A y \in {u - 1, 0} : y <= a
    BY <1>1
  <2> HIDE DEF a
  <2> QED BY <2>1, MaxIs
<1>4. Min({a, Len(l) - 2}) = b
  <2>1. b \in {a, Len(l) - 2} /\ {a, Len(l) - 2} \in SUBSET Int /\ \A y \in {a, Len(l) - 2} : b <= y
    BY <1>1
  <2> HIDE DEF a, b
  <2> QED BY <2>1, MinIs
<1>5. /\ b \in 0..(Len(l) - 2)
      /\ b = IF u = 0 THEN 0 ELSE IF u - 1 < Len(l) - 2 THEN u - 1 ELSE Len(l) - 2
  BY <1>1
<1> HIDE DEF a, b
<1>6. SplineInterval(l, x) = b
  BY <1>2, <1>3, <1>4
<1> QED BY <1>5, <1>6 DEF u

\* Later points are in later intervals.
LEMMA SplineIntervalMonotone ==
    ASSUME NEW l, IsGrid(l), NEW x \in Int, NEW y \in Int, x <= y
    PROVE  SplineInterval(l, x) <= SplineInterval(l, y)
<1> DEFINE u == UpperBound(l, x)
           w == UpperBound(l, y)
<1>1. /\ Len(l) \in Nat /\ Len(l) >= 2 /\ u \in 0..Len(l) /\ w \in 0..Len(l)
      /\ \A i \in 1..Len(l) : l[i] \in Int /\ (l[i] <= x <=> i <= u) /\ (l[i] <= y <=> i <= w)
  BY GridShape, UpperBoundIs
<1>2. /\ SplineInterval(l, x) = IF u = 0 THEN 0 ELSE IF u - 1 < Len(l) - 2 THEN u - 1 ELSE Len(l) - 2
      /\ SplineInterval(l, y) = IF w = 0 THEN 0 ELSE IF w - 1 < Len(l) - 2 THEN w - 1 ELSE Len(l) - 2
  BY SplineIntervalIs
<1> HIDE DEF u, w
<1>3. u = 0 \/ u \in 1..Len(l)
  BY <1>1
<1>4. u \in 1..Len(l) => u <= w
  BY <1>1
<1>5. u <= w
  BY <1>1, <1>3, <1>4
<1>6. Len(l) \in Nat /\ Len(l) >= 2 /\ u \in 0..Len(l) /\ w \in 0..Len(l)
  BY <1>1
<1> QED BY <1>2, <1>5, <1>6

\* Where the spline's walk from c ends.
LEMMA SplineWalkIs ==
    ASSUME NEW l, IsGrid(l), NEW x \in Int, NEW c \in 0..(Len(l) - 2)
    PROVE  Min({j \in c..(Len(l) - 2) : j = Len(l) - 2 \/ Pixel(l, j + 1) > x}) =
               IF c <= SplineInterval(l, x) THEN SplineInterval(l, x) ELSE c
<1> DEFINE N == Len(l)
           u == UpperBound(l, x)
           s == SplineInterval(l, x)
           W == {j \in c..(N - 2) : j = N - 2 \/ Pixel(l, j + 1) > x}
           m == IF c <= s THEN s ELSE c
<1>1. /\ N \in Nat /\ N >= 2 /\ u \in 0..N
      /\ \A i \in 1..N : l[i] \in Int /\ (l[i] <= x <=> i <= u)
  BY GridShape, UpperBoundIs
<1>2. s \in 0..(N - 2) /\ s = IF u = 0 THEN 0 ELSE IF u - 1 < N - 2 THEN u - 1 ELSE N - 2
  BY SplineIntervalIs
<1>3. N \in Nat /\ N >= 2 /\ u \in 0..N
  BY <1>1
<1> HIDE DEF u, s, N
<1>4. ASSUME NEW j \in c..(N - 2) PROVE Pixel(l, j + 1) > x <=> j >= u - 1
  <2> DEFINE y == l[j + 2]
  <2>1. j + 2 \in 1..N
    BY <1>3 DEF N
  <2>2. y \in Int /\ (y <= x <=> j + 2 <= u) /\ j \in Int
    BY <1>1, <2>1 DEF N
  <2>3. Pixel(l, j + 1) = y
    BY <2>2 DEF Pixel
  <2> HIDE DEF y
  <2> QED BY <1>3, <2>2, <2>3
<1>5. c \in 0..(N - 2)
  BY DEF N
<1>6. m \in c..(N - 2)
  BY <1>2, <1>3, <1>5
<1>7. m \in W
  <2>1. m = N - 2 \/ m >= u - 1
    BY <1>2, <1>3, <1>5
  <2> HIDE DEF m
  <2> QED BY <1>4, <1>6, <2>1
<1>8. ASSUME NEW y \in W PROVE m <= y
  <2>1. y \in c..(N - 2) /\ (y = N - 2 \/ y >= u - 1)
    BY <1>4
  <2> QED BY <1>2, <1>3, <1>5, <2>1
<1>9. W \in SUBSET Int
  OBVIOUS
<1> HIDE DEF W, m
<1>10. Min(W) = m
  BY <1>7, <1>8, <1>9, MinIs
<1> QED BY <1>10 DEF W, m, N, s

\* The highest of the first points is one of them and no lower than any.
LEMMA HighestIs ==
    ASSUME NEW out \in Seq(Int), NEW i \in 1..Len(out)
    PROVE  LET m == Max({out[k] : k \in 1..i})
           IN  m \in {out[k] : k \in 1..i} /\ \A k \in 1..i : out[k] <= m
<1> DEFINE S == {h \in 0..Len(out) : h # 0 => \E k \in 1..h : \A g \in 1..h : out[g] <= out[k]}
<1>1. Len(out) \in Nat /\ \A k \in 1..Len(out) : out[k] \in Int
  OBVIOUS
<1>2. 0 \in S
  BY <1>1
<1>3. ASSUME NEW h \in 1..Len(out), h - 1 \in S PROVE h \in S
  <2>1. CASE h = 1
    <3>1. \A g \in 1..h : g = 1
      BY <2>1
    <3>2. out[1] \in Int /\ 1 \in 1..h
      BY <1>1, <2>1
    <3>3. \A g \in 1..h : out[g] <= out[1]
      BY <3>1, <3>2
    <3> QED BY <1>1, <3>2, <3>3
  <2>2. CASE h # 1
    <3>1. PICK k \in 1..(h - 1) : \A g \in 1..(h - 1) : out[g] <= out[k]
      BY <1>3, <2>2
    <3>2. k \in 1..h /\ h \in 1..h /\ \A g \in 1..h : g = h \/ g \in 1..(h - 1)
      OBVIOUS
    <3>3. out[k] \in Int /\ out[h] \in Int
      BY <1>1, <3>2
    <3>4. CASE out[k] >= out[h]
      <4>1. \A g \in 1..h : out[g] <= out[k]
        BY <3>1, <3>2, <3>3, <3>4
      <4> QED BY <3>2, <4>1
    <3>5. CASE out[k] < out[h]
      <4>1. \A g \in 1..h : out[g] <= out[h]
        <5> SUFFICES ASSUME NEW g \in 1..h PROVE out[g] <= out[h]
          OBVIOUS
        <5>1. out[g] \in Int /\ (g = h \/ out[g] <= out[k])
          BY <1>1, <3>1, <3>2
        <5> QED BY <3>3, <3>5, <5>1
      <4> QED BY <3>2, <4>1
    <3>6. out[k] >= out[h] \/ out[k] < out[h]
      BY <3>3
    <3> HIDE DEF S
    <3> QED BY <3>4, <3>5, <3>6
  <2> QED BY <2>1, <2>2
<1> HIDE DEF S
<1>4. i \in S
  <2>1. \A h \in 0..Len(out) : h \in S
    BY <1>1, <1>2, <1>3, Upwards
  <2> QED BY <1>1, <2>1
<1>5. PICK k \in 1..i : \A g \in 1..i : out[g] <= out[k]
  BY <1>4 DEF S
<1> DEFINE T == {out[h] : h \in 1..i}
<1>6. out[k] \in T /\ T \in SUBSET Int /\ \A y \in T : y <= out[k]
  <2>1. \A h \in 1..i : h \in 1..Len(out)
    BY <1>1
  <2> QED BY <1>1, <1>5, <2>1
<1>7. Max(T) = out[k]
  <2> HIDE DEF T
  <2> QED BY <1>6, MaxIs
<1> QED BY <1>5, <1>7

\* A spline asked about many points takes each from its own interval.
LEMMA SplineScanIs ==
    ASSUME NEW l, IsGrid(l), NEW out \in Seq(Int)
    PROVE  \A i \in 1..Len(out) :
               out[i] \in First(l)..Final(l) => SplineScan(l, out)[i] = SplineInterval(l, out[i])
<1> DEFINE n == Len(out)
           V == 0..(Len(l) - 2)
           highest(i) == Max({out[k] : k \in 1..i})
           lower(i) == i > 1 /\ out[i] < highest(i - 1)
           stays(i) == lower(i) \/ out[i] < First(l) \/ out[i] > Final(l)
           walked(i, c) == Min({j \in c..(Len(l) - 2) : j = Len(l) - 2 \/ Pixel(l, j + 1) > out[i]})
           stepped(i, c) == IF stays(i) THEN c ELSE walked(i, c)
           g == [i \in 1..n |-> [c \in V |-> stepped(i, c)]]
           Cur(f) == f = [i \in 0..n |->
                             IF i = 0 THEN 0
                             ELSE IF (i > 1 /\ out[i] < highest(i - 1)) \/ out[i] < First(l) \/ out[i] > Final(l)
                             THEN f[i - 1]
                             ELSE Min({j \in f[i - 1]..(Len(l) - 2) :
                                          j = Len(l) - 2 \/ Pixel(l, j + 1) > out[i]})]
           s(i) == SplineInterval(l, out[i])
<1>0. n \in Nat /\ 0 \in V /\ \A i \in 1..n : out[i] \in Int
  BY GridShape
<1>1. \A i \in 1..n, c \in V : walked(i, c) = IF c <= s(i) THEN s(i) ELSE c
  BY <1>0, SplineWalkIs
<1>2. \A i \in 1..n : s(i) \in V
  BY <1>0, SplineIntervalIs
<1> HIDE DEF highest
<1>3. \A i \in 1..n, c \in V : stepped(i, c) \in V
  <2> HIDE DEF walked, s, V, stays
  <2> QED BY <1>1, <1>2
<1>4. g \in [1..n -> [V -> V]]
  <2> HIDE DEF stepped, V
  <2> QED BY <1>3
<1>5. PICK f \in [0..n -> V] : Follows(f, n, 0, g)
  <2> HIDE DEF g, V
  <2> QED BY <1>0, <1>4, RecursionExists
<1>6. \A i \in 1..n : i - 1 \in 0..n /\ f[i - 1] \in V /\ f[i] = stepped(i, f[i - 1])
  <2>1. \A i \in 1..n : i - 1 \in 0..n
    BY <1>0
  <2> HIDE DEF stepped, V
  <2> QED BY <1>5, <2>1 DEF Follows
<1>7. Cur(f)
  <2>1. \A i \in 0..n : f[i] = IF i = 0 THEN 0 ELSE stepped(i, f[i - 1])
    <3>1. \A i \in 0..n : i # 0 => i \in 1..n
      BY <1>0
    <3> HIDE DEF stepped
    <3> QED BY <1>5, <1>6, <3>1 DEF Follows
  <2> QED BY <1>5, <2>1
<1> DEFINE c == CHOOSE h : Cur(h)
<1>8. Cur(c)
  <2> HIDE DEF Cur
  <2> QED BY <1>7
<1>9. SplineScan(l, out) = [i \in 1..n |-> IF lower(i) THEN s(i) ELSE c[i]]
  BY DEF SplineScan, highest
<1>10. \A i \in 0..n : c[i] = IF i = 0 THEN 0 ELSE stepped(i, c[i - 1])
  <2> HIDE DEF c
  <2> QED BY <1>8
<1> HIDE DEF c
<1> DEFINE S == {i \in 0..n : c[i] \in V /\ (c[i] # 0 => \E k \in 1..i : c[i] = s(k))}
<1>11. 0 \in S
  <2>1. c[0] = 0
    <3>1. 0 \in 0..n
      BY <1>0
    <3> HIDE DEF stepped
    <3> QED BY <1>10, <3>1
  <2> QED BY <1>0, <2>1
<1>12. ASSUME NEW i \in 1..n, i - 1 \in S PROVE i \in S
  <2>1. i \in 0..n /\ i # 0 /\ i - 1 \in 0..n /\ i \in 1..i
    BY <1>0
  <2>2. c[i] = stepped(i, c[i - 1])
    BY <1>10, <2>1
  <2>3. c[i - 1] \in V /\ (c[i - 1] # 0 => \E k \in 1..(i - 1) : c[i - 1] = s(k))
    BY <1>12
  <2>4. c[i] = c[i - 1] \/ c[i] = s(i)
    <3>1. stepped(i, c[i - 1]) = c[i - 1] \/ stepped(i, c[i - 1]) = s(i)
      <4>1. walked(i, c[i - 1]) = c[i - 1] \/ walked(i, c[i - 1]) = s(i)
        BY <1>1, <2>3
      <4> HIDE DEF walked, s, stays
      <4> QED BY <4>1
    <3> HIDE DEF stepped, s
    <3> QED BY <2>2, <3>1
  <2>5. \A k \in 1..(i - 1) : k \in 1..i
    OBVIOUS
  <2> HIDE DEF V, s
  <2> QED BY <1>2, <2>1, <2>3, <2>4, <2>5
<1> HIDE DEF S
<1>13. \A i \in 0..n : i \in S
  BY <1>0, <1>11, <1>12, Upwards
<1>14. ASSUME NEW i \in 1..n, out[i] \in First(l)..Final(l)
       PROVE  SplineScan(l, out)[i] = SplineInterval(l, out[i])
  <2>1. CASE lower(i)
    <3> HIDE DEF lower
    <3> QED BY <1>9, <2>1
  <2>2. CASE ~lower(i)
    <3>1. i \in 0..n /\ i # 0 /\ i - 1 \in 0..n
      BY <1>0
    <3>2. ~stays(i)
      <4>1. First(l) \in Int /\ Final(l) \in Int /\ out[i] \in Int
        BY <1>0, GridShape
      <4> HIDE DEF lower
      <4> QED BY <1>14, <2>2, <4>1
    <3>3. c[i] = walked(i, c[i - 1])
      <4>1. c[i] = stepped(i, c[i - 1])
        BY <1>10, <3>1
      <4> HIDE DEF walked, stays
      <4> QED BY <3>2, <4>1
    <3>4. c[i - 1] \in V /\ (c[i - 1] # 0 => \E k \in 1..(i - 1) : c[i - 1] = s(k))
      BY <1>13, <3>1 DEF S
    <3>5. ASSUME NEW k \in 1..(i - 1) PROVE s(k) <= s(i)
      <4>1. i > 1 /\ i - 1 \in 1..n /\ k \in 1..n
        BY <1>0
      <4>2. out[k] <= highest(i - 1) /\ highest(i - 1) \in {out[h] : h \in 1..(i - 1)}
        BY <4>1, HighestIs DEF highest
      <4>3. highest(i - 1) \in Int
        <5>1. \A h \in 1..(i - 1) : h \in 1..n
          BY <1>0
        <5> QED BY <1>0, <4>2, <5>1
      <4>4. out[k] \in Int /\ out[i] \in Int /\ ~(out[i] < highest(i - 1))
        BY <1>0, <2>2, <4>1
      <4>5. out[k] <= out[i]
        BY <4>2, <4>3, <4>4
      <4> QED BY <4>4, <4>5, SplineIntervalMonotone
    <3>6. c[i - 1] <= s(i)
      <4>1. s(i) >= 0
        BY <1>2
      <4> HIDE DEF s
      <4> QED BY <3>4, <3>5, <4>1
    <3>7. c[i] = s(i)
      <4> HIDE DEF walked, s
      <4> QED BY <1>1, <3>3, <3>4, <3>6
    <3> HIDE DEF lower
    <3> QED BY <1>9, <2>2, <3>7
  <2> QED BY <2>1, <2>2
<1> QED BY <1>14

\* Where the walk through the intervals, and not past the last one, ends.
LEMMA IntervalWalkIs ==
    ASSUME NEW l, IsGrid(l), NEW x \in Int, NEW c \in 1..(Len(l) - 1)
    PROVE  LET s == Inside(l, LowerBound(l, x))
           IN  Min({j \in c..(Len(l) - 1) : j = Len(l) - 1 \/ Pixel(l, j) >= x}) =
                   IF c <= s THEN s ELSE c
<1> DEFINE N == Len(l)
           b == LowerBound(l, x)
           s == Inside(l, b)
           W == {j \in c..(N - 1) : j = N - 1 \/ Pixel(l, j) >= x}
           m == IF c <= s THEN s ELSE c
<1>1. N \in Nat /\ N >= 2 /\ b \in 0..N /\ \A i \in 1..N : l[i] \in Int /\ (l[i] < x <=> i <= b)
  BY GridShape, LowerBoundIs
<1>2. s \in 1..(N - 1) /\ s = IF b = 0 THEN 1 ELSE IF b >= N THEN N - 1 ELSE b
  BY <1>1, InsideIs DEF Inside
<1>3. N \in Nat /\ N >= 2 /\ b \in 0..N /\ c \in 1..(N - 1)
  BY <1>1
<1> HIDE DEF b, s, N
<1>4. ASSUME NEW j \in c..(N - 1) PROVE Pixel(l, j) >= x <=> j >= b
  <2> DEFINE y == l[j + 1]
  <2>1. j + 1 \in 1..N /\ j \in Int
    BY <1>3
  <2>2. y \in Int /\ (y < x <=> j + 1 <= b)
    BY <1>1, <2>1
  <2>3. Pixel(l, j) = y
    BY DEF Pixel
  <2> HIDE DEF y
  <2> QED BY <1>3, <2>1, <2>2, <2>3
<1>5. m \in c..(N - 1) /\ (m = N - 1 \/ m >= b)
  BY <1>2, <1>3
<1>6. m \in W
  <2> HIDE DEF m
  <2> QED BY <1>4, <1>5
<1>7. ASSUME NEW y \in W PROVE m <= y
  <2>1. y \in c..(N - 1) /\ (y = N - 1 \/ y >= b)
    BY <1>4
  <2> QED BY <1>2, <1>3, <2>1
<1>8. W \in SUBSET Int
  OBVIOUS
<1> HIDE DEF W, m
<1>9. Min(W) = m
  BY <1>6, <1>7, <1>8, MinIs
<1> QED BY <1>9 DEF W, m, N, s, b

\* The unrotated case takes points in order from the intervals the search finds.
LEMMA UnrotatedIs ==
    ASSUME NEW l, IsGrid(l), NEW out, IsGrid(out)
    PROVE  \A i \in 1..Len(out) : Unrotated(l, out)[i] = Inside(l, LowerBound(l, out[i]))
<1> DEFINE n == Len(out)
           V == 1..(Len(l) - 1)
           walked(i, c) == Min({j \in c..(Len(l) - 1) : j = Len(l) - 1 \/ Pixel(l, j) >= out[i]})
           g == [i \in 1..n |-> [c \in V |-> walked(i, c)]]
           Cur(f) == f = [i \in 0..n |->
                             IF i = 0 THEN 1
                             ELSE Min({j \in f[i - 1]..(Len(l) - 1) :
                                          j = Len(l) - 1 \/ Pixel(l, j) >= out[i]})]
           s(i) == Inside(l, LowerBound(l, out[i]))
<1>0. n \in Nat /\ 1 \in V /\ \A i \in 1..n : out[i] \in Int
  BY GridShape
<1>1. \A i \in 1..n, c \in V : walked(i, c) = IF c <= s(i) THEN s(i) ELSE c
  BY <1>0, IntervalWalkIs
<1>2. \A i \in 1..n : s(i) \in V
  BY <1>0, LowerBoundIs, InsideIs
<1>3. \A i \in 1..n, c \in V : walked(i, c) \in V
  <2> HIDE DEF walked, s, V
  <2> QED BY <1>1, <1>2
<1>4. g \in [1..n -> [V -> V]]
  <2> HIDE DEF walked, V
  <2> QED BY <1>3
<1>5. PICK f \in [0..n -> V] : Follows(f, n, 1, g)
  <2> HIDE DEF g, V
  <2> QED BY <1>0, <1>4, RecursionExists
<1>6. \A i \in 0..n : f[i] = IF i = 0 THEN 1 ELSE walked(i, f[i - 1])
  <2>1. \A i \in 0..n : i # 0 => i \in 1..n /\ i - 1 \in 0..n
    BY <1>0
  <2> HIDE DEF walked, V
  <2> QED BY <1>5, <2>1 DEF Follows
<1>7. Cur(f)
  BY <1>5, <1>6
<1>8. Cur(Unrotated(l, out))
  <2>1. Unrotated(l, out) = CHOOSE h : Cur(h)
    BY DEF Unrotated
  <2> HIDE DEF Cur
  <2> QED BY <1>7, <2>1
<1> DEFINE c == Unrotated(l, out)
<1>9. \A i \in 0..n : c[i] = IF i = 0 THEN 1 ELSE walked(i, c[i - 1])
  <2> HIDE DEF c
  <2> QED BY <1>8 DEF c
<1> HIDE DEF c
<1> DEFINE S == {i \in 0..n : IF i = 0 THEN c[i] = 1 ELSE c[i] = s(i)}
<1>10. 0 \in S
  <2>1. 0 \in 0..n
    BY <1>0
  <2> HIDE DEF walked
  <2> QED BY <1>9, <2>1
<1>11. ASSUME NEW i \in 1..n, i - 1 \in S PROVE i \in S
  <2>1. i \in 0..n /\ i # 0
    BY <1>0
  <2>2. c[i - 1] \in V /\ c[i - 1] <= s(i)
    <3>1. CASE i = 1
      <4>1. c[i - 1] = 1
        BY <1>11, <3>1
      <4>2. s(i) \in V
        BY <1>2
      <4> HIDE DEF s
      <4> QED BY <1>0, <4>1, <4>2
    <3>2. CASE i # 1
      <4>1. i - 1 \in 1..n /\ i - 1 <= i
        BY <3>2
      <4>2. c[i - 1] = s(i - 1)
        BY <1>11, <3>2
      <4>3. out[i - 1] \in Int /\ out[i] \in Int /\ out[i - 1] <= out[i]
        BY <1>0, <4>1, GridOrdered
      <4>4. LowerBound(l, out[i - 1]) <= LowerBound(l, out[i])
        BY <4>3, LowerBoundMonotone
      <4>5. s(i - 1) <= s(i)
        BY <4>3, <4>4, LowerBoundIs, InsideIs
      <4> HIDE DEF s
      <4> QED BY <1>2, <4>1, <4>2, <4>5
    <3> QED BY <3>1, <3>2
  <2>3. c[i] = walked(i, c[i - 1])
    <3> HIDE DEF walked
    <3> QED BY <1>9, <2>1
  <2>4. c[i] = s(i)
    <3> HIDE DEF walked, s, V
    <3> QED BY <1>1, <2>2, <2>3
  <2> HIDE DEF s
  <2> QED BY <2>1, <2>4
<1> HIDE DEF S
<1>12. \A i \in 0..n : i \in S
  BY <1>0, <1>10, <1>11, Upwards
<1>13. \A i \in 1..n : i \in 0..n /\ i # 0
  BY <1>0
<1> HIDE DEF s
<1> QED BY <1>12, <1>13 DEF S, s, c

\* The walk through the segments, by their left pixels, from k.
SegmentWalk(l, k, x) == Min({j \in k..(Len(l) - 2) : Pixel(l, j + 1) >= x})

\* Where the walk through the segments ends: in that of a search, or where it began.
LEMMA SegmentWalkIs ==
    ASSUME NEW l, IsGrid(l), NEW x \in Int, x < Final(l), NEW c \in 0..(Len(l) - 2)
    PROVE  LET s == LowerBound(l, x) - 1
           IN  /\ s \in -1..(Len(l) - 2)
               /\ First(l) < x => s >= 0
               /\ SegmentWalk(l, c, x) = IF c <= s THEN s ELSE c
<1> DEFINE N == Len(l)
           b == LowerBound(l, x)
           W == {j \in c..(N - 2) : Pixel(l, j + 1) >= x}
           m == IF c <= b - 1 THEN b - 1 ELSE c
<1>1. /\ N \in Nat /\ N >= 2 /\ b \in 0..N /\ \A i \in 1..N : l[i] \in Int /\ (l[i] < x <=> i <= b)
      /\ First(l) = l[1] /\ Final(l) = l[N]
  BY GridShape, LowerBoundIs
<1>2. b <= N - 1 /\ (First(l) < x => b >= 1)
  <2>1. 1 \in 1..N /\ N \in 1..N
    BY <1>1
  <2>2. ~(l[N] < x) /\ (First(l) < x => l[1] < x)
    BY <1>1, <2>1
  <2>3. ~(N <= b) /\ (First(l) < x => 1 <= b)
    BY <1>1, <2>1, <2>2
  <2> HIDE DEF b
  <2> QED BY <1>1, <2>3
<1>3. N \in Nat /\ N >= 2 /\ b \in 0..(N - 1) /\ c \in 0..(N - 2)
  BY <1>1, <1>2
<1> HIDE DEF b, N
<1>4. ASSUME NEW j \in c..(N - 2) PROVE Pixel(l, j + 1) >= x <=> j >= b - 1
  <2> DEFINE y == l[j + 2]
  <2>1. j + 2 \in 1..N /\ j \in Int
    BY <1>3
  <2>2. y \in Int /\ (y < x <=> j + 2 <= b)
    BY <1>1, <2>1
  <2>3. Pixel(l, j + 1) = y
    BY <2>1 DEF Pixel
  <2> HIDE DEF y
  <2> QED BY <1>3, <2>1, <2>2, <2>3
<1>5. m \in c..(N - 2) /\ m >= b - 1
  BY <1>3
<1>6. m \in W
  <2> HIDE DEF m
  <2> QED BY <1>4, <1>5
<1>7. ASSUME NEW y \in W PROVE m <= y
  <2>1. y \in c..(N - 2) /\ y >= b - 1
    BY <1>4
  <2> QED BY <1>3, <2>1
<1>8. W \in SUBSET Int
  OBVIOUS
<1> HIDE DEF W, m
<1>9. Min(W) = m
  BY <1>6, <1>7, <1>8, MinIs
<1>10. b - 1 \in -1..(N - 2) /\ (First(l) < x => b - 1 >= 0)
  BY <1>2, <1>3
<1> QED BY <1>9, <1>10 DEF W, m, N, b, SegmentWalk

\* A cursor over the segments that walks to each point between the ends, and
\* elsewhere stays or begins again, is at the segment the search finds.
LEMMA SegmentScanIs ==
    ASSUME NEW l, IsGrid(l), NEW out, IsGrid(out), NEW c, c[0] = 0,
           \A i \in 1..Len(out) :
               \/ ~(out[i] > First(l) /\ out[i] < Final(l)) /\ c[i] = c[i - 1]
               \/ out[i] <= First(l) /\ c[i] = 0
               \/ /\ out[i] < Final(l)
                  /\ c[i] = SegmentWalk(l, c[i - 1], out[i])
    PROVE  \A i \in 1..Len(out) :
               out[i] > First(l) /\ out[i] < Final(l) => c[i] = LowerBound(l, out[i]) - 1
<1> DEFINE n == Len(out)
           V == 0..(Len(l) - 2)
           s(i) == LowerBound(l, out[i]) - 1
           inside(i) == out[i] > First(l) /\ out[i] < Final(l)
           walked(i, k) == SegmentWalk(l, k, out[i])
           S == {i \in 0..n : /\ c[i] \in V
                              /\ i # 0 => c[i] = 0 \/ c[i] <= s(i)
                              /\ i # 0 => (inside(i) => c[i] = s(i))}
<1>0. /\ n \in Nat /\ 0 \in V /\ \A i \in 1..n : out[i] \in Int
      /\ First(l) \in Int /\ Final(l) \in Int
  BY GridShape
<1>1. \A i \in 1..n : s(i) \in Int
  <2> SUFFICES ASSUME NEW i \in 1..n PROVE s(i) \in Int
    OBVIOUS
  <2>1. LowerBound(l, out[i]) \in 0..Len(l)
    BY <1>0, LowerBoundIs
  <2> QED BY <2>1
<1>2. \A i \in 1..n, k \in V :
          out[i] < Final(l) =>
              /\ s(i) \in -1..(Len(l) - 2)
              /\ First(l) < out[i] => s(i) >= 0
              /\ walked(i, k) = IF k <= s(i) THEN s(i) ELSE k
  BY <1>0, SegmentWalkIs
<1>3. 0 \in S
  BY <1>0
<1>4. ASSUME NEW i \in 1..n, i - 1 \in S PROVE i \in S
  <2> DEFINE d == c[i - 1]
             x == out[i]
             t == s(i)
  <2>1. i \in 0..n /\ i # 0 /\ d \in V /\ x \in Int /\ t \in Int
    BY <1>0, <1>1, <1>4
  <2>2. d = 0 \/ d <= t
    <3>1. CASE i = 1
      BY <1>4, <3>1
    <3>2. CASE i # 1
      <4>1. i - 1 \in 1..n /\ i - 1 # 0 /\ i - 1 <= i
        BY <3>2
      <4>2. out[i - 1] \in Int /\ out[i - 1] <= out[i]
        BY <1>0, <4>1, GridOrdered
      <4>3. s(i - 1) <= s(i) /\ s(i - 1) \in Int
        <5>1. LowerBound(l, out[i - 1]) <= LowerBound(l, out[i])
          BY <1>0, <4>2, LowerBoundMonotone
        <5>2. out[i] \in Int
          BY <1>0
        <5>3. LowerBound(l, out[i - 1]) \in 0..Len(l) /\ LowerBound(l, out[i]) \in 0..Len(l)
          BY <4>2, <5>2, LowerBoundIs
        <5> QED BY <5>1, <5>3
      <4>4. d = 0 \/ d <= s(i - 1)
        BY <1>4, <4>1
      <4>5. d \in Int
        BY <2>1
      <4> HIDE DEF s, d
      <4> QED BY <1>1, <4>3, <4>4, <4>5
    <3> QED BY <3>1, <3>2
  <2>3. CASE ~inside(i) /\ c[i] = d
    <3> HIDE DEF V, s, d, inside
    <3> QED BY <2>1, <2>2, <2>3 DEF t
  <2>4. CASE out[i] <= First(l) /\ c[i] = 0
    <3>1. ~inside(i)
      BY <1>0, <2>1, <2>4
    <3> HIDE DEF V, s, inside
    <3> QED BY <1>0, <2>1, <2>4, <3>1
  <2>5. CASE out[i] < Final(l) /\ c[i] = walked(i, d)
    <3>1. /\ t \in -1..(Len(l) - 2)
          /\ First(l) < out[i] => t >= 0
          /\ c[i] = IF d <= t THEN t ELSE d
      <4> HIDE DEF V, s, walked, d
      <4> QED BY <1>2, <2>1, <2>5
    <3>2. c[i] \in V /\ (c[i] = 0 \/ c[i] <= t)
      <4> HIDE DEF d, t
      <4> QED BY <2>1, <2>2, <3>1
    <3>3. inside(i) => c[i] = t
      <4>1. inside(i) => t >= 0
        BY <1>0, <2>1, <3>1
      <4> HIDE DEF d, t, inside
      <4> QED BY <2>1, <2>2, <3>1, <4>1
    <3> HIDE DEF V, s, inside
    <3> QED BY <2>1, <3>2, <3>3 DEF t
  <2>6. \/ ~inside(i) /\ c[i] = d
        \/ out[i] <= First(l) /\ c[i] = 0
        \/ out[i] < Final(l) /\ c[i] = walked(i, d)
    OBVIOUS
  <2> HIDE DEF S, inside, walked, d
  <2> QED BY <2>3, <2>4, <2>5, <2>6
<1> HIDE DEF S
<1>5. \A i \in 0..n : i \in S
  BY <1>0, <1>3, <1>4, Upwards
<1>6. \A i \in 1..n : i \in 0..n /\ i # 0
  BY <1>0
<1> HIDE DEF s
<1>7. \A i \in 1..n : inside(i) => c[i] = s(i)
  <2> HIDE DEF inside
  <2> QED BY <1>5, <1>6 DEF S
<1> QED BY <1>7 DEF s

\* multiply_interp takes points in order from the segments the search finds.
LEMMA MultipliedIs ==
    ASSUME NEW l, IsGrid(l), NEW out, IsGrid(out)
    PROVE  \A i \in 1..Len(out) :
               out[i] > First(l) /\ out[i] < Final(l) =>
                   Multiplied(l, out)[i] = LowerBound(l, out[i]) - 1
<1> DEFINE n == Len(out)
           V == 0..(Len(l) - 2)
           stays(i) == out[i] <= First(l) \/ \E k \in 1..i : out[k] >= Final(l)
           walked(i, c) == SegmentWalk(l, c, out[i])
           stepped(i, c) == IF stays(i) THEN c ELSE walked(i, c)
           g == [i \in 1..n |-> [c \in V |-> stepped(i, c)]]
           Cur(f) == f = [i \in 0..n |->
                             IF i = 0 THEN 0
                             ELSE IF out[i] <= First(l) \/ \E k \in 1..i : out[k] >= Final(l)
                             THEN f[i - 1]
                             ELSE Min({j \in f[i - 1]..(Len(l) - 2) : Pixel(l, j + 1) >= out[i]})]
<1>0. /\ n \in Nat /\ 0 \in V /\ \A i \in 1..n : out[i] \in Int
      /\ First(l) \in Int /\ Final(l) \in Int
  BY GridShape
<1>1. \A i \in 1..n : i \in 1..i /\ (~stays(i) => out[i] < Final(l) /\ out[i] > First(l))
  <2> SUFFICES ASSUME NEW i \in 1..n
               PROVE  i \in 1..i /\ (~stays(i) => out[i] < Final(l) /\ out[i] > First(l))
    OBVIOUS
  <2>1. i \in 1..i /\ out[i] \in Int
    BY <1>0
  <2> QED BY <1>0, <2>1
<1> HIDE DEF stays
<1>2. \A i \in 1..n, c \in V : stepped(i, c) \in V
  <2>1. ASSUME NEW i \in 1..n, NEW c \in V, ~stays(i) PROVE walked(i, c) \in V
    <3> DEFINE s == LowerBound(l, out[i]) - 1
    <3>1. s \in -1..(Len(l) - 2) /\ walked(i, c) = IF c <= s THEN s ELSE c
      BY <1>0, <1>1, <2>1, SegmentWalkIs
    <3> HIDE DEF s, walked
    <3>2. s \in Int /\ s <= Len(l) - 2 /\ c \in 0..(Len(l) - 2)
      BY <3>1
    <3> QED BY <3>1, <3>2
  <2> HIDE DEF walked, V
  <2> QED BY <2>1
<1>3. g \in [1..n -> [V -> V]]
  <2> HIDE DEF stepped, V
  <2> QED BY <1>2
<1>4. PICK f \in [0..n -> V] : Follows(f, n, 0, g)
  <2> HIDE DEF g, V
  <2> QED BY <1>0, <1>3, RecursionExists
<1>5. \A i \in 0..n : f[i] = IF i = 0 THEN 0 ELSE stepped(i, f[i - 1])
  <2>1. \A i \in 0..n : i # 0 => i \in 1..n /\ i - 1 \in 0..n
    BY <1>0
  <2> HIDE DEF stepped, V
  <2> QED BY <1>4, <2>1 DEF Follows
<1>6. Cur(f)
  BY <1>4, <1>5 DEF stays, SegmentWalk
<1>7. Cur(Multiplied(l, out))
  <2>1. Multiplied(l, out) = CHOOSE h : Cur(h)
    BY DEF Multiplied
  <2> HIDE DEF Cur
  <2> QED BY <1>6, <2>1
<1> DEFINE c == Multiplied(l, out)
<1>8. \A i \in 0..n : c[i] = IF i = 0 THEN 0 ELSE stepped(i, c[i - 1])
  <2> HIDE DEF c
  <2> QED BY <1>7 DEF c, stays, SegmentWalk
<1> HIDE DEF c
<1>9. c[0] = 0
  <2>1. 0 \in 0..n
    BY <1>0
  <2> HIDE DEF stepped
  <2> QED BY <1>8, <2>1
<1>10. ASSUME NEW i \in 1..n
       PROVE  \/ ~(out[i] > First(l) /\ out[i] < Final(l)) /\ c[i] = c[i - 1]
              \/ out[i] <= First(l) /\ c[i] = 0
              \/ out[i] < Final(l) /\ c[i] = walked(i, c[i - 1])
  <2>1. c[i] = stepped(i, c[i - 1])
    <3>1. i \in 0..n /\ i # 0
      BY <1>0
    <3> HIDE DEF stepped
    <3> QED BY <1>8, <3>1
  <2>2. CASE stays(i)
    <3>1. c[i] = c[i - 1]
      <4> HIDE DEF walked
      <4> QED BY <2>1, <2>2
    <3>2. ~(out[i] > First(l) /\ out[i] < Final(l))
      <4>1. out[i] <= First(l) \/ \E k \in 1..i : out[k] >= Final(l)
        BY <2>2 DEF stays
      <4>2. ASSUME NEW k \in 1..i, out[k] >= Final(l) PROVE out[i] >= Final(l)
        <5>1. k \in 1..n /\ k <= i
          BY <1>0
        <5>2. out[k] <= out[i] /\ out[k] \in Int /\ out[i] \in Int
          BY <1>0, <5>1, GridOrdered
        <5> QED BY <1>0, <4>2, <5>2
      <4>3. out[i] \in Int
        BY <1>0
      <4> QED BY <1>0, <4>1, <4>2, <4>3
    <3> HIDE DEF walked
    <3> QED BY <3>1, <3>2
  <2>3. CASE ~stays(i)
    <3>1. c[i] = walked(i, c[i - 1])
      <4> HIDE DEF walked
      <4> QED BY <2>1, <2>3
    <3> HIDE DEF walked
    <3> QED BY <1>1, <2>3, <3>1
  <2> HIDE DEF walked
  <2> QED BY <2>2, <2>3
<1>11. \A i \in 1..n :
          out[i] > First(l) /\ out[i] < Final(l) => c[i] = LowerBound(l, out[i]) - 1
  BY <1>9, <1>10, SegmentScanIs
<1> QED BY <1>11 DEF c

\* interp_linear too.
LEMMA InterpolatedIs ==
    ASSUME NEW l, IsGrid(l), NEW out, IsGrid(out)
    PROVE  \A i \in 1..Len(out) :
               out[i] > First(l) /\ out[i] < Final(l) =>
                   Interpolated(l, out)[i] = LowerBound(l, out[i]) - 1
<1> DEFINE n == Len(out)
           V == 0..(Len(l) - 2)
           before(i) == \A k \in 1..i : out[k] <= First(l)
           behind(i) == \E k \in 1..i : out[k] >= Final(l)
           walked(i, c) == SegmentWalk(l, c, out[i])
           stepped(i, c) == IF before(i) THEN 0 ELSE IF behind(i) THEN c ELSE walked(i, c)
           g == [i \in 1..n |-> [c \in V |-> stepped(i, c)]]
           Cur(f) == f = [i \in 0..n |->
                             IF i = 0 \/ before(i) THEN 0
                             ELSE IF behind(i) THEN f[i - 1]
                             ELSE Min({j \in f[i - 1]..(Len(l) - 2) : Pixel(l, j + 1) >= out[i]})]
<1>0. /\ n \in Nat /\ 0 \in V /\ \A i \in 1..n : out[i] \in Int
      /\ First(l) \in Int /\ Final(l) \in Int
  BY GridShape
<1>1. ASSUME NEW i \in 1..n
      PROVE  /\ before(i) => out[i] <= First(l)
             /\ behind(i) => out[i] >= Final(l)
             /\ ~behind(i) => out[i] < Final(l)
  <2>1. i \in 1..i /\ out[i] \in Int
    BY <1>0
  <2>2. ASSUME NEW k \in 1..i, out[k] >= Final(l) PROVE out[i] >= Final(l)
    <3>1. k \in 1..n /\ k <= i
      BY <1>0
    <3>2. out[k] <= out[i] /\ out[k] \in Int /\ out[i] \in Int
      BY <1>0, <3>1, GridOrdered
    <3> QED BY <1>0, <2>2, <3>2
  <2> QED BY <1>0, <2>1, <2>2
<1> HIDE DEF before, behind
<1>2. \A i \in 1..n, c \in V : stepped(i, c) \in V
  <2>1. ASSUME NEW i \in 1..n, NEW c \in V, ~behind(i) PROVE walked(i, c) \in V
    <3> DEFINE s == LowerBound(l, out[i]) - 1
    <3>1. s \in -1..(Len(l) - 2) /\ walked(i, c) = IF c <= s THEN s ELSE c
      BY <1>0, <1>1, <2>1, SegmentWalkIs
    <3> HIDE DEF s, walked
    <3>2. s \in Int /\ s <= Len(l) - 2 /\ c \in 0..(Len(l) - 2)
      BY <3>1
    <3> QED BY <3>1, <3>2
  <2> HIDE DEF walked, V
  <2> QED BY <1>0, <2>1
<1>3. g \in [1..n -> [V -> V]]
  <2> HIDE DEF stepped, V
  <2> QED BY <1>2
<1>4. PICK f \in [0..n -> V] : Follows(f, n, 0, g)
  <2> HIDE DEF g, V
  <2> QED BY <1>0, <1>3, RecursionExists
<1>5. \A i \in 0..n : f[i] = IF i = 0 THEN 0 ELSE stepped(i, f[i - 1])
  <2>1. \A i \in 0..n : i # 0 => i \in 1..n /\ i - 1 \in 0..n
    BY <1>0
  <2> HIDE DEF stepped, V
  <2> QED BY <1>4, <2>1 DEF Follows
<1>6. Cur(f)
  <2>1. \A i \in 0..n : f[i] = IF i = 0 \/ before(i) THEN 0
                               ELSE IF behind(i) THEN f[i - 1] ELSE walked(i, f[i - 1])
    <3> HIDE DEF walked
    <3> QED BY <1>5
  <2> QED BY <1>4, <2>1 DEF SegmentWalk
<1>7. Cur(Interpolated(l, out))
  <2>1. Interpolated(l, out) = CHOOSE h : Cur(h)
    BY DEF Interpolated, before, behind
  <2> HIDE DEF Cur
  <2> QED BY <1>6, <2>1
<1> DEFINE c == Interpolated(l, out)
<1>8. \A i \in 0..n : c[i] = IF i = 0 \/ before(i) THEN 0
                             ELSE IF behind(i) THEN c[i - 1] ELSE walked(i, c[i - 1])
  <2> HIDE DEF c
  <2> QED BY <1>7 DEF c, SegmentWalk
<1> HIDE DEF c
<1>9. c[0] = 0
  <2>1. 0 \in 0..n
    BY <1>0
  <2> HIDE DEF walked
  <2> QED BY <1>8, <2>1
<1>10. ASSUME NEW i \in 1..n
       PROVE  \/ ~(out[i] > First(l) /\ out[i] < Final(l)) /\ c[i] = c[i - 1]
              \/ out[i] <= First(l) /\ c[i] = 0
              \/ out[i] < Final(l) /\ c[i] = walked(i, c[i - 1])
  <2>1. c[i] = IF before(i) THEN 0 ELSE IF behind(i) THEN c[i - 1] ELSE walked(i, c[i - 1])
    <3>1. i \in 0..n /\ i # 0
      BY <1>0
    <3> HIDE DEF walked
    <3> QED BY <1>8, <3>1
  <2>2. out[i] \in Int
    BY <1>0
  <2> HIDE DEF walked
  <2>3. CASE before(i)
    BY <1>1, <2>1, <2>3
  <2>4. CASE ~before(i) /\ behind(i)
    BY <1>0, <1>1, <2>1, <2>2, <2>4
  <2>5. CASE ~before(i) /\ ~behind(i)
    BY <1>1, <2>1, <2>5
  <2> QED BY <2>3, <2>4, <2>5
<1>11. \A i \in 1..n :
          out[i] > First(l) /\ out[i] < Final(l) => c[i] = LowerBound(l, out[i]) - 1
  BY <1>9, <1>10, SegmentScanIs
<1> QED BY <1>11 DEF c

-----------------------------------------------------------------------------
(* Scans: rebinning.                                                       *)

\* The edges of the bins ascend, whatever the centres.
LEMMA EdgesAscend ==
    ASSUME NEW out \in Seq(Int), Len(out) >= 2, NEW little \in Int
    PROVE  /\ \A i \in 0..Len(out) : Edges(out, little)[i] \in Int
           /\ \A i \in 1..Len(out) : Edges(out, little)[i - 1] < Edges(out, little)[i]
<1> DEFINE n == Len(out)
           wanted(i) == little * (CASE i = 0 -> 3 * out[1] - out[2]
                                [] i = n -> 3 * out[n] - out[n - 1]
                                [] OTHER -> out[i] + out[i + 1])
           stepped(i, x) == IF wanted(i) <= x THEN x + 1 ELSE wanted(i)
           g == [i \in 1..n |-> [x \in Int |-> stepped(i, x)]]
           Cur(f) == f = [i \in 0..n |->
                             LET here == little * (CASE i = 0 -> 3 * out[1] - out[2]
                                                     [] i = n -> 3 * out[n] - out[n - 1]
                                                     [] OTHER -> out[i] + out[i + 1])
                             IN  IF i > 0 /\ here <= f[i - 1] THEN f[i - 1] + 1 ELSE here]
<1>0. n \in Nat /\ n >= 2 /\ \A i \in 1..n : out[i] \in Int
  OBVIOUS
<1>1. \A i \in 0..n : wanted(i) \in Int
  <2> SUFFICES ASSUME NEW i \in 0..n PROVE wanted(i) \in Int
    OBVIOUS
  <2> DEFINE x == CASE i = 0 -> 3 * out[1] - out[2]
                    [] i = n -> 3 * out[n] - out[n - 1]
                    [] OTHER -> out[i] + out[i + 1]
  <2>1. x \in Int
    <3>1. CASE i = 0
      <4>1. out[1] \in Int /\ out[2] \in Int
        BY <1>0
      <4>2. x = 3 * out[1] - out[2]
        BY <3>1
      <4> QED BY <4>1, <4>2
    <3>2. CASE i = n
      <4>1. out[n] \in Int /\ out[n - 1] \in Int
        BY <1>0
      <4>2. x = 3 * out[n] - out[n - 1]
        BY <1>0, <3>2
      <4> QED BY <4>1, <4>2
    <3>3. CASE i # 0 /\ i # n
      <4>1. out[i] \in Int /\ out[i + 1] \in Int
        BY <1>0, <3>3
      <4>2. x = out[i] + out[i + 1]
        BY <3>3
      <4> QED BY <4>1, <4>2
    <3> QED BY <3>1, <3>2, <3>3
  <2> HIDE DEF x
  <2>2. little * x \in Int
    BY <2>1
  <2> QED BY <2>2 DEF x
<1> HIDE DEF wanted
<1>2. g \in [1..n -> [Int -> Int]]
  <2>1. \A i \in 1..n, x \in Int : stepped(i, x) \in Int
    BY <1>1
  <2> HIDE DEF stepped
  <2> QED BY <2>1
<1>3. PICK f \in [0..n -> Int] : Follows(f, n, wanted(0), g)
  <2>1. wanted(0) \in Int
    BY <1>0, <1>1
  <2> HIDE DEF g
  <2> QED BY <1>0, <1>2, <2>1, RecursionExists
<1>4. \A i \in 0..n : f[i] = IF i = 0 THEN wanted(0) ELSE stepped(i, f[i - 1])
  <2>1. \A i \in 0..n : i # 0 => i \in 1..n /\ i - 1 \in 0..n
    BY <1>0
  <2> HIDE DEF stepped
  <2> QED BY <1>3, <2>1 DEF Follows
<1>5. Cur(f)
  <2>1. \A i \in 0..n : f[i] = IF i > 0 /\ wanted(i) <= f[i - 1] THEN f[i - 1] + 1 ELSE wanted(i)
    BY <1>4
  <2>2. f = [i \in 0..n |-> IF i > 0 /\ wanted(i) <= f[i - 1] THEN f[i - 1] + 1 ELSE wanted(i)]
    BY <1>3, <2>1
  <2> QED BY <2>2 DEF wanted
<1> DEFINE e == Edges(out, little)
<1>6. Cur(e)
  <2>1. e = CHOOSE h : Cur(h)
    BY DEF Edges
  <2> HIDE DEF Cur, e
  <2> QED BY <1>5, <2>1
<1>7. \A i \in 0..n : e[i] = IF i > 0 /\ wanted(i) <= e[i - 1] THEN e[i - 1] + 1 ELSE wanted(i)
  <2> HIDE DEF e
  <2>1. e = [i \in 0..n |-> IF i > 0 /\ wanted(i) <= e[i - 1] THEN e[i - 1] + 1 ELSE wanted(i)]
    BY <1>6 DEF wanted
  <2> QED BY <2>1
<1> HIDE DEF e
<1> DEFINE S == {i \in 0..n : e[i] \in Int}
<1>8. 0 \in S
  BY <1>0, <1>1, <1>7
<1>9. ASSUME NEW i \in 1..n, i - 1 \in S PROVE i \in S
  <2>1. i \in 0..n /\ e[i - 1] \in Int /\ wanted(i) \in Int
    BY <1>1, <1>9
  <2> QED BY <1>7, <2>1
<1> HIDE DEF S
<1>10. \A i \in 0..n : i \in S
  BY <1>0, <1>8, <1>9, Upwards
<1>11. ASSUME NEW i \in 1..n PROVE e[i - 1] < e[i]
  <2>1. i \in 0..n /\ i - 1 \in 0..n
    BY <1>0
  <2>2. e[i - 1] \in Int /\ wanted(i) \in Int /\ i > 0
    BY <1>1, <1>10, <2>1 DEF S
  <2>3. e[i] = IF wanted(i) <= e[i - 1] THEN e[i - 1] + 1 ELSE wanted(i)
    BY <1>7, <2>1, <2>2
  <2> QED BY <2>2, <2>3
<1>12. \A i \in 0..n : e[i] \in Int
  BY <1>10 DEF S
<1> QED BY <1>11, <1>12 DEF e

\* The ends trapezoidal_rebin integrates to come in order.
LEMMA BinEndsAscend ==
    ASSUME NEW l, IsGrid(l), NEW out \in Seq(Int), Len(out) >= 2, NEW little \in Int
    PROVE  /\ BinEnds(l, out, little) \in Seq(Int)
           /\ \A k \in 2..Len(BinEnds(l, out, little)) :
                  BinEnds(l, out, little)[k - 1] <= BinEnds(l, out, little)[k]
<1> DEFINE n == Len(out)
           e == Edges(out, little)
           first == 2 * little * First(l)
           final == 2 * little * Final(l)
           low(i) == Max({e[i - 1], first})
           high(i) == Min({e[i], final})
           stepped(i, s) == s \o IF high(i) <= low(i) THEN <<>> ELSE <<low(i), high(i)>>
           g == [i \in 1..n |-> [s \in Seq(Int) |-> stepped(i, s)]]
           Cur(f) == f = [i \in 0..n |->
                             IF i = 0 THEN <<>>
                             ELSE f[i - 1] \o IF high(i) <= low(i) THEN <<>> ELSE <<low(i), high(i)>>]
<1>0. n \in Nat /\ n >= 2 /\ first \in Int /\ final \in Int
  <2>1. First(l) \in Int /\ Final(l) \in Int
    BY GridShape
  <2> DEFINE d == 2 * little
             p == First(l)
             q == Final(l)
  <2>2. d \in Int
    OBVIOUS
  <2>3. d * p \in Int /\ d * q \in Int
    <3>1. p \in Int /\ q \in Int
      BY <2>1
    <3> HIDE DEF d, p, q
    <3> QED BY <2>2, <3>1
  <2> QED BY <2>3
<1>1. /\ \A i \in 0..n : e[i] \in Int
      /\ \A i \in 1..n : e[i - 1] < e[i]
  BY EdgesAscend
<1> HIDE DEF e, first, final
<1>2. ASSUME NEW i \in 1..n
      PROVE  /\ i - 1 \in 0..n /\ e[i - 1] \in Int /\ e[i] \in Int /\ e[i - 1] <= e[i]
             /\ low(i) \in Int /\ e[i - 1] <= low(i)
             /\ high(i) \in Int /\ high(i) <= e[i]
  <2>1. i - 1 \in 0..n /\ e[i - 1] \in Int /\ e[i] \in Int /\ e[i - 1] < e[i]
    BY <1>0, <1>1
  <2> DEFINE a == IF e[i - 1] > first THEN e[i - 1] ELSE first
             b == IF e[i] < final THEN e[i] ELSE final
  <2>2. a \in {e[i - 1], first} /\ {e[i - 1], first} \in SUBSET Int /\ \A y \in {e[i - 1], first} : y <= a
    BY <1>0, <2>1
  <2>3. b \in {e[i], final} /\ {e[i], final} \in SUBSET Int /\ \A y \in {e[i], final} : b <= y
    BY <1>0, <2>1
  <2>4. a \in Int /\ b \in Int /\ e[i - 1] <= a /\ b <= e[i]
    BY <1>0, <2>1
  <2> HIDE DEF a, b
  <2>5. low(i) = a /\ high(i) = b
    BY <2>2, <2>3, MinIs, MaxIs
  <2> QED BY <2>1, <2>4, <2>5
<1> HIDE DEF low, high
<1>3. g \in [1..n -> [Seq(Int) -> Seq(Int)]]
  <2>1. ASSUME NEW i \in 1..n, NEW s \in Seq(Int) PROVE stepped(i, s) \in Seq(Int)
    BY <1>2
  <2> HIDE DEF stepped
  <2> QED BY <2>1
<1>4. PICK f \in [0..n -> Seq(Int)] : Follows(f, n, <<>>, g)
  <2>1. <<>> \in Seq(Int)
    OBVIOUS
  <2> HIDE DEF g
  <2> QED BY <1>0, <1>3, <2>1, RecursionExists
<1>5. \A i \in 0..n : f[i] = IF i = 0 THEN <<>> ELSE stepped(i, f[i - 1])
  <2>1. \A i \in 0..n : i # 0 => i \in 1..n /\ i - 1 \in 0..n
    BY <1>0
  <2> HIDE DEF stepped
  <2> QED BY <1>4, <2>1 DEF Follows
<1>6. Cur(f)
  BY <1>4, <1>5
<1> DEFINE c == CHOOSE h : Cur(h)
<1>7. Cur(c)
  <2> HIDE DEF Cur
  <2> QED BY <1>6
<1>8. BinEnds(l, out, little) = c[n]
  BY DEF BinEnds, low, high, e, first, final
<1>9. \A i \in 0..n : c[i] = IF i = 0 THEN <<>> ELSE stepped(i, c[i - 1])
  <2> HIDE DEF c
  <2> QED BY <1>7
<1> HIDE DEF c
<1> DEFINE S == {i \in 0..n : /\ c[i] \in Seq(Int)
                              /\ \A k \in 2..Len(c[i]) : c[i][k - 1] <= c[i][k]
                              /\ \A k \in 1..Len(c[i]) : c[i][k] <= e[i]}
<1>10. 0 \in S
  <2>1. 0 \in 0..n
    BY <1>0
  <2>2. c[0] = <<>>
    <3> HIDE DEF stepped
    <3> QED BY <1>9, <2>1
  <2>3. c[0] \in Seq(Int) /\ Len(c[0]) = 0
    BY <2>2
  <2> HIDE DEF c
  <2>4. \A k \in 2..Len(c[0]) : FALSE
    BY <2>3
  <2>5. \A k \in 1..Len(c[0]) : FALSE
    BY <2>3
  <2>6. \A k \in 2..Len(c[0]) : c[0][k - 1] <= c[0][k]
    BY <2>4
  <2>7. \A k \in 1..Len(c[0]) : c[0][k] <= e[0]
    BY <2>5
  <2> QED BY <2>1, <2>3, <2>6, <2>7
<1>11. ASSUME NEW i \in 1..n, i - 1 \in S PROVE i \in S
  <2> DEFINE s == c[i - 1]
             t == c[i]
             a == low(i)
             b == high(i)
             m == Len(s)
  <2>1. i \in 0..n /\ i # 0
    BY <1>0
  <2>2. /\ s \in Seq(Int) /\ m \in Nat
        /\ \A k \in 2..m : s[k - 1] <= s[k]
        /\ \A k \in 1..m : s[k] \in Int /\ s[k] <= e[i - 1]
    BY <1>11
  <2>3. t = stepped(i, s)
    <3> HIDE DEF stepped
    <3> QED BY <1>9, <2>1
  <2>4. /\ a \in Int /\ b \in Int /\ e[i - 1] \in Int /\ e[i] \in Int
        /\ e[i - 1] <= a /\ b <= e[i] /\ e[i - 1] <= e[i]
    BY <1>2
  <2> HIDE DEF s, a, b, m, t
  <2>5. CASE b <= a
    <3>1. t = s
      BY <2>2, <2>3, <2>5 DEF a, b
    <3>2. \A k \in 1..m : s[k] <= e[i]
      <4> SUFFICES ASSUME NEW k \in 1..m PROVE s[k] <= e[i]
        OBVIOUS
      <4>1. s[k] \in Int /\ s[k] <= e[i - 1]
        BY <2>2
      <4> QED BY <2>4, <4>1
    <3> QED BY <2>1, <2>2, <3>1, <3>2 DEF t, m
  <2>6. CASE ~(b <= a)
    <3>1. t = s \o <<a, b>>
      BY <2>3, <2>6 DEF a, b
    <3>2. /\ t \in Seq(Int) /\ Len(t) = m + 2
          /\ \A k \in 1..m : t[k] = s[k]
          /\ t[m + 1] = a /\ t[m + 2] = b
      BY <2>2, <2>4, <3>1 DEF m
    <3>3. ASSUME NEW k \in 1..Len(t)
          PROVE  t[k] <= e[i]
      <4>1. k \in 1..m \/ k = m + 1 \/ k = m + 2
        BY <2>2, <3>2
      <4>2. CASE k \in 1..m
        <5>1. t[k] \in Int /\ t[k] <= e[i - 1]
          BY <2>2, <3>2, <4>2
        <5> QED BY <2>4, <5>1
      <4>3. CASE k = m + 1 \/ k = m + 2
        BY <2>4, <2>6, <3>2, <4>3
      <4> QED BY <4>1, <4>2, <4>3
    <3>4. ASSUME NEW k \in 2..Len(t)
          PROVE  t[k - 1] <= t[k]
      <4>1. k \in 2..m \/ k = m + 1 \/ k = m + 2
        BY <2>2, <3>2
      <4>2. CASE k \in 2..m
        <5>1. k - 1 \in 1..m /\ k \in 1..m
          BY <2>2, <4>2
        <5> QED BY <2>2, <3>2, <4>2, <5>1
      <4>3. CASE k = m + 1
        <5>1. k - 1 = m /\ m \in 1..m
          BY <2>2, <4>3
        <5>2. t[m] \in Int /\ t[m] <= e[i - 1]
          BY <2>2, <3>2, <5>1
        <5>3. t[k] = a /\ t[k - 1] = t[m]
          BY <3>2, <4>3, <5>1
        <5> DEFINE z == t[m]
                   y == e[i - 1]
        <5>4. z \in Int /\ z <= y /\ y \in Int /\ y <= a
          BY <2>4, <5>2
        <5> HIDE DEF z, y
        <5>5. z <= a
          BY <2>4, <5>4
        <5> QED BY <5>3, <5>5 DEF z
      <4>4. CASE k = m + 2
        <5>1. k - 1 = m + 1
          BY <2>2, <4>4
        <5> QED BY <2>4, <2>6, <3>2, <4>4, <5>1
      <4> QED BY <4>1, <4>2, <4>3, <4>4
    <3> QED BY <2>1, <3>2, <3>3, <3>4 DEF t
  <2> HIDE DEF S
  <2> QED BY <2>5, <2>6
<1> HIDE DEF S
<1>12. n \in S
  <2>1. \A i \in 0..n : i \in S
    BY <1>0, <1>10, <1>11, Upwards
  <2> QED BY <1>0, <2>1
<1> QED BY <1>8, <1>12 DEF S

\* integral_at finds each of a row of ends in order, where they lie on the grid.
LEMMA IntegratedIs ==
    ASSUME NEW l, IsGrid(l), NEW ends \in Seq(Int), \A k \in 2..Len(ends) : ends[k - 1] <= ends[k]
    PROVE  \A i \in 1..Len(ends) :
               ends[i] > First(l) /\ ends[i] < Final(l) =>
                   Integrated(l, ends)[i] = LowerBound(l, ends[i])
<1> DEFINE n == Len(ends)
           V == 0..Len(l)
           stays(i) == ends[i] <= First(l) \/ ends[i] >= Final(l)
           stepped(i, c) == IF stays(i) THEN c ELSE Walk(l, c, ends[i])
           g == [i \in 1..n |-> [c \in V |-> stepped(i, c)]]
           Cur(f) == f = [i \in 0..n |->
                             IF i = 0 THEN 0
                             ELSE IF ends[i] <= First(l) \/ ends[i] >= Final(l) THEN f[i - 1]
                             ELSE Walk(l, f[i - 1], ends[i])]
           s(i) == LowerBound(l, ends[i])
<1>0. /\ n \in Nat /\ 0 \in V /\ \A i \in 1..n : ends[i] \in Int
      /\ First(l) \in Int /\ Final(l) \in Int
  BY GridShape
<1>1. \A i \in 1..n, c \in V : /\ s(i) \in V
                               /\ Walk(l, c, ends[i]) = IF c <= s(i) THEN s(i) ELSE c
  BY <1>0, LowerBoundIs, WalkIs
<1>2. \A i \in 1..n, c \in V : stepped(i, c) \in V
  <2> HIDE DEF V, s, stays
  <2> QED BY <1>1
<1>3. g \in [1..n -> [V -> V]]
  <2> HIDE DEF stepped, V
  <2> QED BY <1>2
<1>4. PICK f \in [0..n -> V] : Follows(f, n, 0, g)
  <2> HIDE DEF g, V
  <2> QED BY <1>0, <1>3, RecursionExists
<1>5. \A i \in 0..n : f[i] = IF i = 0 THEN 0 ELSE stepped(i, f[i - 1])
  <2>1. \A i \in 0..n : i # 0 => i \in 1..n /\ i - 1 \in 0..n
    BY <1>0
  <2> HIDE DEF stepped, V
  <2> QED BY <1>4, <2>1 DEF Follows
<1>6. Cur(f)
  BY <1>4, <1>5
<1>7. Cur(Integrated(l, ends))
  <2>1. Integrated(l, ends) = CHOOSE h : Cur(h)
    BY DEF Integrated
  <2> HIDE DEF Cur
  <2> QED BY <1>6, <2>1
<1> DEFINE c == Integrated(l, ends)
<1>8. \A i \in 0..n : c[i] = IF i = 0 THEN 0 ELSE stepped(i, c[i - 1])
  <2> HIDE DEF c
  <2> QED BY <1>7 DEF c
<1> HIDE DEF c
<1> DEFINE S == {i \in 0..n : /\ c[i] \in V
                              /\ i # 0 => c[i] <= s(i)
                              /\ i # 0 => (~stays(i) => c[i] = s(i))}
<1>9. 0 \in S
  <2>1. 0 \in 0..n
    BY <1>0
  <2>2. c[0] = 0
    <3> HIDE DEF stepped
    <3> QED BY <1>8, <2>1
  <2> QED BY <1>0, <2>1, <2>2
<1>10. ASSUME NEW i \in 1..n, i - 1 \in S PROVE i \in S
  <2>1. i \in 0..n /\ i # 0 /\ c[i - 1] \in V
    BY <1>0, <1>10
  <2>2. s(i) \in V
    BY <1>0, <1>1
  <2>3. c[i - 1] <= s(i)
    <3>1. CASE i = 1
      <4>1. c[i - 1] = 0
        <5>1. 0 \in 0..n
          BY <1>0
        <5> HIDE DEF stepped
        <5> QED BY <1>8, <3>1, <5>1
      <4> HIDE DEF s
      <4> QED BY <2>2, <4>1
    <3>2. CASE i # 1
      <4>1. i - 1 \in 1..n /\ i \in 2..n /\ i - 1 # 0
        BY <1>0, <3>2
      <4>2. ends[i - 1] \in Int /\ ends[i] \in Int /\ ends[i - 1] <= ends[i]
        BY <1>0, <4>1
      <4>3. s(i - 1) <= s(i)
        BY <4>2, LowerBoundMonotone
      <4>4. c[i - 1] <= s(i - 1) /\ s(i - 1) \in V
        BY <1>0, <1>1, <1>10, <4>1
      <4> HIDE DEF s
      <4> QED BY <2>1, <2>2, <4>3, <4>4
    <3> QED BY <3>1, <3>2
  <2>4. c[i] = stepped(i, c[i - 1])
    <3> HIDE DEF stepped
    <3> QED BY <1>8, <2>1
  <2>5. c[i] = IF stays(i) THEN c[i - 1] ELSE s(i)
    <3> HIDE DEF V, s, stays
    <3> QED BY <1>1, <2>1, <2>3, <2>4
  <2>6. s(i) <= s(i)
    <3> HIDE DEF s
    <3> QED BY <2>2
  <2> HIDE DEF V, s, stays
  <2> QED BY <2>1, <2>2, <2>3, <2>5, <2>6
<1> HIDE DEF S
<1>11. \A i \in 0..n : i \in S
  BY <1>0, <1>9, <1>10, Upwards
<1>12. ASSUME NEW i \in 1..n, ends[i] > First(l) /\ ends[i] < Final(l)
       PROVE  c[i] = s(i)
  <2>1. i \in S /\ i # 0
    BY <1>0, <1>11
  <2>2. ~stays(i)
    BY <1>0, <1>12
  <2> HIDE DEF s, stays
  <2> QED BY <2>1, <2>2 DEF S
<1> QED BY <1>12 DEF c

-----------------------------------------------------------------------------
(* Scans: the knots of the spline.                                         *)

MergeStep(s, x, width) == IF s # <<>> /\ x - Last(s) <= width THEN s ELSE Append(s, x)

GapsIn(s, width) == \A k \in 2..Len(s) : s[k] - s[k - 1] > width

NearOne(x, s, width) == \E k \in 1..Len(s) : Distance(x, s[k]) <= width

\* What has been kept of the candidates once the i-th was looked at.
KeptOf(xs, i, width, s) ==
    /\ s \in Seq(Int) /\ Len(s) >= 1
    /\ s[1] = xs[1] /\ s[Len(s)] <= xs[i]
    /\ GapsIn(s, width)
    /\ \A j \in 1..i : NearOne(xs[j], s, width)

\* A further candidate is kept or lies close to the last one that was.
LEMMA MergeKeeps ==
    ASSUME NEW xs \in Seq(Int), \A i, j \in 1..Len(xs) : i < j => xs[i] < xs[j],
           NEW width \in Nat, NEW i \in 2..Len(xs),
           NEW s, KeptOf(xs, i - 1, width, s)
    PROVE  KeptOf(xs, i, width, MergeStep(s, xs[i], width))
<1> DEFINE n == Len(s)
           x == xs[i]
           y == s[n]
           before == xs[i - 1]
<1>0. /\ n \in Nat /\ n >= 1 /\ s \in Seq(Int) /\ y \in Int /\ Last(s) = y /\ s # <<>>
      /\ \A k \in 1..n : s[k] \in Int
  BY DEF KeptOf, Last
<1>1. x \in Int /\ before \in Int /\ before < x /\ y <= before
  <2>1. i \in 1..Len(xs) /\ i - 1 \in 1..Len(xs) /\ i - 1 < i
    OBVIOUS
  <2>2. x \in Int /\ before \in Int /\ before < x
    BY <2>1
  <2> QED BY <2>2 DEF KeptOf
<1>2. /\ s[1] = xs[1] /\ GapsIn(s, width)
      /\ \A j \in 1..(i - 1) : NearOne(xs[j], s, width)
  BY DEF KeptOf
<1>3. \A j \in 1..i : j = i \/ j \in 1..(i - 1)
  OBVIOUS
<1> HIDE DEF x, y, before
<1>4. CASE x - y <= width
  <2>1. MergeStep(s, x, width) = s
    BY <1>0, <1>4 DEF MergeStep
  <2>2. Distance(x, y) <= width
    BY <1>1, <1>4, <1>0 DEF Distance
  <2>3. NearOne(x, s, width)
    <3>1. n \in 1..Len(s)
      BY <1>0
    <3> QED BY <2>2, <3>1 DEF NearOne, y
  <2>4. \A j \in 1..i : NearOne(xs[j], s, width)
    BY <1>2, <1>3, <2>3 DEF x
  <2>5. y <= x
    BY <1>0, <1>1
  <2> QED BY <1>0, <1>2, <2>1, <2>4, <2>5 DEF KeptOf, x, y
<1>5. CASE ~(x - y <= width)
  <2> DEFINE t == Append(s, x)
  <2>1. MergeStep(s, x, width) = t
    BY <1>0, <1>5 DEF MergeStep
  <2>2. /\ t \in Seq(Int) /\ Len(t) = n + 1 /\ t[n + 1] = x
        /\ \A k \in 1..n : t[k] = s[k]
    BY <1>0, <1>1
  <2> HIDE DEF t
  <2>3. t[1] = xs[1]
    BY <1>0, <1>2, <2>2
  <2>4. GapsIn(t, width)
    <3> SUFFICES ASSUME NEW k \in 2..Len(t) PROVE t[k] - t[k - 1] > width
      BY DEF GapsIn
    <3>1. k \in 2..n \/ k = n + 1
      BY <1>0, <2>2
    <3>2. CASE k \in 2..n
      <4>0. k \in 1..n /\ k - 1 \in 1..n
        BY <1>0, <3>2
      <4>1. t[k] = s[k] /\ t[k - 1] = s[k - 1]
        BY <2>2, <4>0
      <4> QED BY <1>2, <3>2, <4>1 DEF GapsIn
    <3>3. CASE k = n + 1
      <4>1. t[k] = x /\ t[k - 1] = y
        BY <1>0, <2>2, <3>3 DEF y
      <4> QED BY <1>0, <1>1, <1>5, <4>1
    <3> QED BY <3>1, <3>2, <3>3
  <2>5. \A z : NearOne(z, s, width) => NearOne(z, t, width)
    <3> SUFFICES ASSUME NEW z, NEW k \in 1..n, Distance(z, s[k]) <= width
                 PROVE  NearOne(z, t, width)
      BY DEF NearOne
    <3>1. k \in 1..Len(t) /\ t[k] = s[k]
      BY <1>0, <2>2
    <3> QED BY <3>1 DEF NearOne
  <2>6. NearOne(x, t, width)
    <3>1. n + 1 \in 1..Len(t) /\ Distance(x, t[n + 1]) <= width
      BY <1>0, <1>1, <2>2 DEF Distance
    <3> QED BY <3>1 DEF NearOne
  <2>7. \A j \in 1..i : NearOne(xs[j], t, width)
    BY <1>2, <1>3, <2>5, <2>6 DEF x
  <2>8. Len(t) >= 1 /\ t[Len(t)] <= x
    BY <1>0, <1>1, <2>2
  <2> QED BY <2>1, <2>2, <2>3, <2>4, <2>7, <2>8 DEF KeptOf, x
<1> QED BY <1>4, <1>5 DEF x

\* The kept ones lie apart, and each candidate is close to one of them.
LEMMA MergedIs ==
    ASSUME NEW xs \in Seq(Int), Len(xs) >= 1,
           \A i, j \in 1..Len(xs) : i < j => xs[i] < xs[j],
           NEW width \in Nat
    PROVE  KeptOf(xs, Len(xs), width, Merged(xs, width))
<1> DEFINE n == Len(xs)
           stepped(i, s) == MergeStep(s, xs[i], width)
           g == [i \in 1..n |-> [s \in Seq(Int) |-> stepped(i, s)]]
           Cur(f) == f = [i \in 0..n |->
                             IF i = 0 THEN <<>>
                             ELSE IF f[i - 1] # <<>> /\ xs[i] - Last(f[i - 1]) <= width
                             THEN f[i - 1] ELSE Append(f[i - 1], xs[i])]
<1>0. n \in Nat /\ n >= 1 /\ \A i \in 1..n : xs[i] \in Int
  OBVIOUS
<1>1. ASSUME NEW i \in 1..n, NEW s \in Seq(Int) PROVE stepped(i, s) \in Seq(Int)
  <2>1. xs[i] \in Int /\ Append(s, xs[i]) \in Seq(Int)
    BY <1>0
  <2> QED BY <2>1 DEF MergeStep
<1>2. g \in [1..n -> [Seq(Int) -> Seq(Int)]]
  <2> HIDE DEF stepped
  <2> QED BY <1>1
<1>3. PICK f \in [0..n -> Seq(Int)] : Follows(f, n, <<>>, g)
  <2>1. <<>> \in Seq(Int)
    OBVIOUS
  <2> HIDE DEF g
  <2> QED BY <1>0, <1>2, <2>1, RecursionExists
<1>4. \A i \in 0..n : f[i] = IF i = 0 THEN <<>> ELSE stepped(i, f[i - 1])
  <2>1. \A i \in 0..n : i # 0 => i \in 1..n /\ i - 1 \in 0..n
    BY <1>0
  <2> HIDE DEF stepped
  <2> QED BY <1>3, <2>1 DEF Follows
<1>5. Cur(f)
  BY <1>3, <1>4 DEF MergeStep
<1> DEFINE c == CHOOSE h : Cur(h)
<1>6. Cur(c)
  <2> HIDE DEF Cur
  <2> QED BY <1>5
<1>7. Merged(xs, width) = c[n]
  BY DEF Merged
<1>8. \A i \in 0..n : c[i] = IF i = 0 THEN <<>> ELSE stepped(i, c[i - 1])
  <2> HIDE DEF c
  <2> QED BY <1>6 DEF MergeStep
<1> HIDE DEF c
<1> DEFINE S == {i \in 0..n : i # 0 => KeptOf(xs, i, width, c[i])}
<1>9. 0 \in S
  BY <1>0
<1>10. ASSUME NEW i \in 1..n, i - 1 \in S PROVE i \in S
  <2>1. i \in 0..n /\ i # 0
    BY <1>0
  <2>2. c[i] = stepped(i, c[i - 1])
    <3> HIDE DEF stepped
    <3> QED BY <1>8, <2>1
  <2>3. CASE i = 1
    <3>1. c[0] = <<>>
      <4>1. 0 \in 0..n
        BY <1>0
      <4> HIDE DEF stepped
      <4> QED BY <1>8, <4>1
    <3>2. c[i - 1] = <<>>
      BY <2>3, <3>1
    <3> DEFINE x == xs[1]
               t == <<x>>
    <3>3. x \in Int
      BY <1>0
    <3>4. c[i] = t
      BY <2>2, <2>3, <3>2 DEF MergeStep
    <3>5. t \in Seq(Int) /\ Len(t) = 1 /\ t[1] = x
      BY <3>3
    <3> HIDE DEF t, x
    <3>6. GapsIn(t, width)
      <4>1. \A k \in 2..Len(t) : FALSE
        BY <3>5
      <4> QED BY <4>1 DEF GapsIn
    <3>7. NearOne(x, t, width)
      <4>1. 1 \in 1..Len(t) /\ Distance(x, t[1]) <= width
        BY <3>3, <3>5 DEF Distance
      <4> QED BY <4>1 DEF NearOne
    <3>8. \A j \in 1..i : j = 1
      BY <2>3
    <3>9. t[Len(t)] <= x
      BY <3>3, <3>5
    <3>10. KeptOf(xs, i, width, t)
      BY <2>3, <3>5, <3>6, <3>7, <3>8, <3>9 DEF KeptOf, x
    <3> QED BY <2>1, <3>4, <3>10
  <2>4. CASE i # 1
    <3>1. i \in 2..n /\ i - 1 # 0
      BY <1>0, <2>4
    <3>2. KeptOf(xs, i - 1, width, c[i - 1])
      BY <1>10, <3>1
    <3>3. KeptOf(xs, i, width, stepped(i, c[i - 1]))
      BY <3>1, <3>2, MergeKeeps
    <3> HIDE DEF stepped
    <3> QED BY <2>1, <2>2, <3>3
  <2> QED BY <2>3, <2>4
<1> HIDE DEF S
<1>11. n \in S
  <2>1. \A i \in 0..n : i \in S
    BY <1>0, <1>9, <1>10, Upwards
  <2> QED BY <1>0, <2>1
<1> QED BY <1>0, <1>7, <1>11 DEF S

\* Distances are not negative.
LEMMA DistanceIs ==
    ASSUME NEW x \in Int, NEW y \in Int
    PROVE  Distance(x, y) \in Nat
BY DEF Distance

\* The pixels of a grid lie between its ends.
LEMMA PixelRange ==
    ASSUME NEW l, IsGrid(l)
    PROVE  /\ Min(ToSet(l)) = l[1] /\ Max(ToSet(l)) = l[Len(l)]
           /\ l[1] \in Int /\ l[Len(l)] \in Int /\ l[1] <= l[Len(l)]
<1> DEFINE n == Len(l)
           S == ToSet(l)
<1>0. /\ n \in Nat /\ n >= 2 /\ 1 \in 1..n /\ n \in 1..n /\ \A i \in 1..n : l[i] \in Int
      /\ l \in Seq(Int)
  BY GridShape DEF IsGrid
<1>1. S = {l[i] : i \in 1..n}
  BY <1>0 DEF ToSet
<1>2. \A i \in 1..n : l[1] <= l[i] /\ l[i] <= l[n]
  <2>1. \A i \in 1..n : 1 <= i /\ i <= n
    BY <1>0
  <2> QED BY <1>0, <2>1, GridOrdered
<1>3. /\ S \in SUBSET Int /\ l[1] \in S /\ l[n] \in S
      /\ \A y \in S : l[1] <= y
      /\ \A y \in S : y <= l[n]
  BY <1>0, <1>1, <1>2
<1> HIDE DEF S
<1>4. Min(S) = l[1] /\ Max(S) = l[n]
  BY <1>3, MinIs, MaxIs
<1> QED BY <1>0, <1>2, <1>4 DEF S

\* The lowest pixel edge is not above the highest pixel's.
LEMMA EdgesOfData ==
    ASSUME NEW l, IsGrid(l)
    PROVE  LowestEdge(l) \in Int /\ HighestEdge(l) \in Int /\ LowestEdge(l) <= HighestEdge(l)
<1> DEFINE n == Len(l)
           p == l[1]
           q == l[n]
           d == Distance(l[1], l[2])
           e == Distance(l[n - 1], l[n])
<1>1. n \in Nat /\ n >= 2 /\ \A i \in 1..n : l[i] \in Int
  BY GridShape
<1>2. 1 \in 1..n /\ 2 \in 1..n /\ n - 1 \in 1..n /\ n \in 1..n /\ ~(n < 2)
  BY <1>1
<1>3. d \in Nat /\ e \in Nat
  BY <1>1, <1>2, DistanceIs
<1>4. LowestEdge(l) = 2 * p - d
  <2> HIDE DEF d
  <2> QED BY <1>2, PixelRange DEF LowestEdge, d
<1>5. HighestEdge(l) = 2 * q - e
  <2> HIDE DEF e
  <2> QED BY <1>2, PixelRange DEF HighestEdge, e
<1>6. p \in Int /\ q \in Int /\ p <= q
  BY PixelRange
<1>7. 2 * p - d <= 2 * q - e
  <2>1. l[n - 1] \in Int /\ l[n - 1] <= q /\ p <= l[n - 1]
    BY <1>1, <1>2, GridOrdered
  <2>2. e = q - l[n - 1]
    BY <1>6, <2>1 DEF Distance
  <2> DEFINE z == l[n - 1]
  <2> HIDE DEF z, p, q, d, e
  <2>3. z \in Int /\ z <= q /\ p <= z /\ e = q - z
    BY <2>1, <2>2 DEF z
  <2> QED BY <1>3, <1>6, <2>3
<1> HIDE DEF p, q, d, e
<1> QED BY <1>3, <1>4, <1>5, <1>6, <1>7

\* The distance the knots are merged at.
LEMMA MergeWidthIs ==
    ASSUME NEW l, IsGrid(l)
    PROVE  MergeWidth(l) \in Nat
<1> DEFINE bins == {Distance(l[i - 1], l[i]) : i \in 2..Len(l)} \ {0}
<1>1. \A i \in 2..Len(l) : Distance(l[i - 1], l[i]) \in Nat
  <2> SUFFICES ASSUME NEW i \in 2..Len(l) PROVE Distance(l[i - 1], l[i]) \in Nat
    OBVIOUS
  <2>1. i - 1 \in 1..Len(l) /\ i \in 1..Len(l)
    BY GridShape
  <2>2. l[i - 1] \in Int /\ l[i] \in Int
    BY <2>1, GridShape
  <2> QED BY <2>2, DistanceIs
<1>2. bins \in SUBSET Nat
  BY <1>1
<1>3. MergeWidth(l) = IF bins = {} THEN 0 ELSE Min(bins)
  BY DEF MergeWidth
<1> HIDE DEF bins
<1>4. CASE bins = {}
  BY <1>3, <1>4
<1>5. CASE bins # {}
  <2>1. PICK m \in bins : \A y \in bins : m <= y
    BY <1>2, <1>5, LeastNatural
  <2>2. Min(bins) = m
    BY <1>2, <2>1, MinIs
  <2> QED BY <1>2, <1>3, <1>5, <2>1, <2>2
<1> QED BY <1>4, <1>5

\* The candidates are finitely many, and the lower boundary is one of them.
LEMMA CandidatesAre ==
    ASSUME NEW l, IsGrid(l), NEW intervals,
           \A iv \in intervals : iv[1] \in Int /\ iv[2] \in Int,
           NEW angstrom \in Nat
    PROVE  LET C == Candidates(l, intervals, angstrom)
           IN  C \in SUBSET Int /\ IsFiniteSet(C) /\ LowestEdge(l) - 2 * angstrom \in C
<1> DEFINE C == Candidates(l, intervals, angstrom)
           a == LowestEdge(l)
           b == HighestEdge(l)
           d == 2 * angstrom
           D == 4 * angstrom
           U == UNION {Stepped(iv) : iv \in intervals}
<1>1. a \in Int /\ b \in Int /\ a <= b
  BY EdgesOfData
<1>2. d \in Nat /\ D \in Nat /\ d <= D
  OBVIOUS
<1>3. \A x \in U : x \in Int
  <2> SUFFICES ASSUME NEW iv \in intervals, NEW x \in Stepped(iv) PROVE x \in Int
    OBVIOUS
  <2>1. iv[2] \in Int
    OBVIOUS
  <2>2. PICK y \in {z \in iv[1]..iv[2] : (z - iv[1]) % iv[3] = 0} \cup {iv[2]} : x = 2 * y
    BY DEF Stepped
  <2>3. y \in Int
    BY <2>1, <2>2
  <2> QED BY <2>2, <2>3
<1>4. C = {a - d, b + d} \cup {x \in U : x >= a - D /\ x <= b + D}
  BY DEF Candidates, Boundaries
<1> HIDE DEF U, a, b, d, D
<1>5. \A x \in C : x \in (a - D)..(b + D)
  <2>1. a - d \in (a - D)..(b + D) /\ b + d \in (a - D)..(b + D)
    BY <1>1, <1>2
  <2>2. \A x \in U : x >= a - D /\ x <= b + D => x \in (a - D)..(b + D)
    BY <1>1, <1>2, <1>3
  <2> HIDE DEF C
  <2> QED BY <1>4, <2>1, <2>2
<1>6. a - D \in Int /\ b + D \in Int
  BY <1>1, <1>2
<1> HIDE DEF C
<1>7. IsFiniteSet((a - D)..(b + D))
  BY <1>6, FS_Interval
<1>8. IsFiniteSet(C) /\ C \in SUBSET Int
  <2>1. C \subseteq (a - D)..(b + D) /\ (a - D)..(b + D) \subseteq Int
    BY <1>5
  <2> QED BY <1>7, <2>1, FS_Subset
<1>9. a - d \in C
  BY <1>4
<1> QED BY <1>8, <1>9 DEF C, a, d

\* The knots lie apart, none of the candidates is lost, and the first one lies
\* outside the data.
LEMMA KnotsApartIs ==
    ASSUME NEW l, IsGrid(l), NEW intervals,
           \A iv \in intervals : iv[1] \in Int /\ iv[2] \in Int,
           NEW angstrom \in Nat
    PROVE  KnotsApart(l, intervals, angstrom)
<1> DEFINE C == Candidates(l, intervals, angstrom)
           xs == Ascending(C)
           n == Len(xs)
           width == MergeWidth(l)
           m == Merged(xs, width)
           edge == LowestEdge(l) - 2 * angstrom
           knots == Anchors(l, intervals, angstrom)
<1>1. C \in SUBSET Int /\ IsFiniteSet(C) /\ edge \in C
  BY CandidatesAre
<1>2. width \in Nat
  BY MergeWidthIs
<1>3. knots # <<>> => knots = m
  BY DEF Anchors
<1> HIDE DEF C, width, m, edge, knots
<1>4. /\ xs \in Seq(C) /\ n = Cardinality(C)
      /\ \A x \in C : \E i \in 1..n : xs[i] = x
      /\ \A i, j \in 1..n : i < j => xs[i] < xs[j]
  BY <1>1, AscendingLists
<1> HIDE DEF xs
<1>5. xs \in Seq(Int) /\ n \in Nat /\ \A i \in 1..n : xs[i] \in Int
  <2>1. n \in Nat /\ xs \in [1..n -> C]
    BY <1>4
  <2>2. xs \in [1..n -> Int]
    BY <1>1, <2>1
  <2> QED BY <2>1, <2>2
<1>6. PICK f \in 1..n : xs[f] = edge
  BY <1>1, <1>4
<1>7. n >= 1 /\ 1 \in 1..n
  BY <1>5, <1>6
<1>8. xs[1] <= edge
  <2>1. f = 1 \/ 1 < f
    BY <1>5
  <2>2. 1 < f => xs[1] < xs[f]
    BY <1>4, <1>7
  <2>3. xs[1] \in Int /\ xs[f] \in Int
    BY <1>5, <1>7
  <2> QED BY <1>6, <2>1, <2>2, <2>3
<1> HIDE DEF n
<1>9. KeptOf(xs, n, width, m)
  BY <1>2, <1>4, <1>5, <1>7, MergedIs DEF m, n
<1>10. \A x \in C : NearOne(x, m, width)
  BY <1>4, <1>9 DEF KeptOf
<1>11. GapsIn(m, width) /\ m[1] <= edge
  BY <1>8, <1>9 DEF KeptOf
<1> QED BY <1>3, <1>10, <1>11 DEF KnotsApart, GapsIn, NearOne, C, width, edge, knots

-----------------------------------------------------------------------------
(* Scans: the searches agree.                                              *)

\* A grid in sixteenths of a unit is a grid too.
LEMMA FinerIs ==
    ASSUME NEW l, IsGrid(l)
    PROVE  IsGrid([i \in 1..Len(l) |-> 16 * l[i]])
<1> DEFINE f == [i \in 1..Len(l) |-> 16 * l[i]]
<1>1. Len(l) \in Nat /\ Len(l) >= 2 /\ \A i \in 1..Len(l) : l[i] \in Int
  BY GridShape
<1>2. f \in [1..Len(l) -> Int]
  <2>1. \A i \in 1..Len(l) : 16 * l[i] \in Int
    BY <1>1
  <2> QED BY <2>1
<1>3. f \in Seq(Int) /\ Len(f) = Len(l) /\ \A i \in 1..Len(l) : f[i] = 16 * l[i]
  <2>1. \A i \in 1..Len(l) : f[i] = 16 * l[i]
    OBVIOUS
  <2> HIDE DEF f
  <2> QED BY <1>1, <1>2, <2>1
<1>4. ASSUME NEW i \in 2..Len(l) PROVE f[i - 1] <= f[i]
  <2>1. i - 1 \in 1..Len(l) /\ i \in 1..Len(l) /\ l[i - 1] <= l[i]
    BY <1>1 DEF IsGrid
  <2>2. l[i - 1] \in Int /\ l[i] \in Int
    BY <1>1, <2>1
  <2>3. f[i - 1] = 16 * l[i - 1] /\ f[i] = 16 * l[i]
    BY <1>3, <2>1
  <2> HIDE DEF f
  <2> QED BY <2>1, <2>2, <2>3
<1> HIDE DEF f
<1> QED BY <1>1, <1>3, <1>4 DEF IsGrid, f

\* The pieces of ScansRight.
ScanOf(l, out, v) ==
    /\ Len(out) = 3 => KnotsApart(l, {<<out[1], out[2], v>>, <<out[3], out[3] + 1, 1>>}, 1)
    /\ \A i \in 1..Len(out) :
           /\ out[i] \in First(l)..Final(l) => SplineScan(l, out)[i] = SplineInterval(l, out[i])
           /\ Kernel(l, out[i], v) =
                  {j \in 0..(Len(l) - 1) : Pixel(l, j) \in (out[i] - v)..(out[i] + v)}

BinsOf(l, out) ==
    LET finer == [i \in 1..Len(l) |-> 16 * l[i]]
        ends == BinEnds(l, out, 8)
    IN  \A i \in 1..Len(ends) :
            ends[i] > First(finer) /\ ends[i] < Final(finer) =>
                Integrated(finer, ends)[i] = LowerBound(finer, ends[i])

OrderedOf(l, out) ==
    InOrder(out) =>
        \A i \in 1..Len(out) :
            /\ Unrotated(l, out)[i] = Inside(l, LowerBound(l, out[i]))
            /\ out[i] > First(l) /\ out[i] < Final(l) =>
                   /\ Multiplied(l, out)[i] = LowerBound(l, out[i]) - 1
                   /\ Interpolated(l, out)[i] = LowerBound(l, out[i]) - 1

\* The spline, the kernel and the knots.
LEMMA ScanOfIs ==
    ASSUME NEW l, IsGrid(l), NEW out \in Seq(Int), NEW v \in Nat \ {0}
    PROVE  ScanOf(l, out, v)
<1>1. ASSUME Len(out) = 3
      PROVE  KnotsApart(l, {<<out[1], out[2], v>>, <<out[3], out[3] + 1, 1>>}, 1)
  <2> DEFINE I == {<<out[1], out[2], v>>, <<out[3], out[3] + 1, 1>>}
  <2>1. out[1] \in Int /\ out[2] \in Int /\ out[3] \in Int
    BY <1>1
  <2>2. \A iv \in I : iv[1] \in Int /\ iv[2] \in Int
    BY <2>1
  <2> HIDE DEF I
  <2>3. KnotsApart(l, I, 1)
    BY <2>2, KnotsApartIs
  <2> QED BY <2>3 DEF I
<1>2. ASSUME NEW i \in 1..Len(out), out[i] \in First(l)..Final(l)
      PROVE  SplineScan(l, out)[i] = SplineInterval(l, out[i])
  BY <1>2, SplineScanIs
<1>3. ASSUME NEW i \in 1..Len(out)
      PROVE  Kernel(l, out[i], v) =
                 {j \in 0..(Len(l) - 1) : Pixel(l, j) \in (out[i] - v)..(out[i] + v)}
  <2>1. out[i] \in Int /\ v \in Nat
    OBVIOUS
  <2> QED BY <2>1, KernelIs
<1> QED BY <1>1, <1>2, <1>3 DEF ScanOf

\* The rebinning.
LEMMA BinsOfIs ==
    ASSUME NEW l, IsGrid(l), NEW out \in Seq(Int), Len(out) >= 2
    PROVE  BinsOf(l, out)
<1> DEFINE finer == [i \in 1..Len(l) |-> 16 * l[i]]
           ends == BinEnds(l, out, 8)
<1>1. IsGrid(finer)
  BY FinerIs
<1>2. 8 \in Int
  OBVIOUS
<1>3. ends \in Seq(Int) /\ \A k \in 2..Len(ends) : ends[k - 1] <= ends[k]
  BY <1>2, BinEndsAscend
<1> HIDE DEF finer, ends
<1>4. \A i \in 1..Len(ends) :
          ends[i] > First(finer) /\ ends[i] < Final(finer) =>
              Integrated(finer, ends)[i] = LowerBound(finer, ends[i])
  BY <1>1, <1>3, IntegratedIs
<1> QED BY <1>4 DEF BinsOf, finer, ends

\* The scans that rely on points in order.
LEMMA OrderedOfIs ==
    ASSUME NEW l, IsGrid(l), NEW out \in Seq(Int), Len(out) >= 2
    PROVE  OrderedOf(l, out)
<1> SUFFICES ASSUME InOrder(out) PROVE OrderedOf(l, out)
  BY DEF OrderedOf
<1>1. IsGrid(out)
  BY DEF InOrder, IsGrid
<1> QED BY <1>1, UnrotatedIs, MultipliedIs, InterpolatedIs DEF OrderedOf

\* The searches agree for every grid a call may have.
LEMMA ScansRightHolds == TablesInv => ScansRight
<1> SUFFICES ASSUME TablesInv PROVE ScansRight
  OBVIOUS
<1>1. ASSUME NEW t \in Caller, Ready(t)
      PROVE  /\ ScanOf(job[t].in, job[t].out, job[t].v)
             /\ BinsOf(job[t].in, job[t].out)
             /\ OrderedOf(job[t].in, job[t].out)
  <2> DEFINE l == job[t].in
             out == job[t].out
             v == job[t].v
  <2>1. job[t] # NoJob
    BY <1>1 DEF Ready
  <2>2. l \in Grids /\ out \in OutGrids \cup Grids /\ v \in HalfWidths
    BY <2>1 DEF TablesInv
  <2> HIDE DEF l, out, v
  <2>3. IsGrid(l) /\ out \in Seq(Int) /\ Len(out) >= 2 /\ v \in Nat \ {0}
    BY <2>2, GridsAre
  <2>4. ScanOf(l, out, v) /\ BinsOf(l, out) /\ OrderedOf(l, out)
    BY <2>3, ScanOfIs, BinsOfIs, OrderedOfIs
  <2> QED BY <2>4 DEF l, out, v
<1> QED BY <1>1 DEF ScansRight, ScanOf, BinsOf, OrderedOf

\* The cursors of the convolution and resampling routines stop where a binary
\* search would, for points in order, and the spline's and the rebinning's for
\* any; the knots the merging scan leaves lie further apart than the pixels
\* resolve and lose no anchor: in every reachable state, for every grid.
THEOREM ScansAlwaysRight == ScansSpec => []ScansRight
<1>1. ScansSpec => []TablesInv
  BY TablesInvAlways
<1> QED BY <1>1, ScansRightHolds, PTL
=============================================================================
