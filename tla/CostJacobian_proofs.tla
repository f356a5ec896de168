------------------------ MODULE CostJacobian_proofs ------------------------
(***************************************************************************)
(* Proofs about the evaluations of CostJacobian and the weight caches      *)
(* under them, for any keys, tolerance, threads, limits, spectra, masks    *)
(* and knots.                                                              *)
(***************************************************************************)
EXTENDS CostJacobian, Collections, TLAPS

(***************************************************************************)
(* What the proof needs of the types.                                      *)
(***************************************************************************)
Typed ==
    /\ table \in Tables
    /\ inflight \subseteq Key
    /\ pc \in [Thread -> Places]
    /\ want \in [Thread -> Key \cup {NoKey}]
    /\ \A t \in Thread : pc[t] \notin {"out", "ready", "failed"} => want[t] \in Key
    /\ throws \in Nat

(***************************************************************************)
(* OneBuilder, as four facts that are proved one by one.                   *)
(***************************************************************************)
Unlike ==
    \A t, u \in Thread :
        t # u /\ Building(t) /\ Building(u) => want[u] \notin Alike(want[t])
Marked == \A t \in Thread : Building(t) => want[t] \in inflight
Manned ==
    \A k \in inflight :
        \/ \E t \in Thread : Building(t) /\ want[t] = k
        \/ table = "res" /\ throws > 0
Awaited == \A t \in Thread : pc[t] = "wait" => Alike(want[t]) \cap inflight # {}

Inv == Typed /\ Unlike /\ Marked /\ Manned /\ Awaited

\* operator== is reflexive and symmetric, although not transitive.
LEMMA AlikeSymmetric ==
    \A k, l \in Key : k \in Alike(k) /\ (l \in Alike(k) <=> k \in Alike(l))
<1>1. \A k \in Key : At[k] \in Int
  BY WeightKeys
<1>2. Tolerance \in Nat \ {0}
  BY WeightKeys
<1> QED
  BY <1>1, <1>2 DEF Alike

\* A step that leaves the caches alone, except that something was thrown.
LEMMA Elsewhere ==
    ASSUME Inv, UNCHANGED <<table, inflight, pc, want>>,
           UNCHANGED throws \/ throws' = throws + 1
    PROVE  Inv'
<1>1. throws' \in Nat /\ (throws > 0 => throws' > 0)
  BY DEF Inv, Typed
<1>2. Typed' /\ Unlike' /\ Marked' /\ Awaited'
  BY <1>1 DEF Inv, Typed, Unlike, Marked, Awaited, Building, Alike
<1>3. Manned'
  BY <1>1 DEF Inv, Manned, Building
<1> QED
  BY <1>2, <1>3 DEF Inv

\* Thread t moves on, to a place where it builds if and only if it did before.
LEMMA MovesOn ==
    ASSUME NEW t \in Thread, NEW p \in Places, Inv,
           Goes(t, p), UNCHANGED <<table, inflight, want>>,
           UNCHANGED throws \/ throws' = throws + 1,
           p \in {"build", "clear", "raise", "fatal"} <=> Building(t),
           p = "wait" => Alike(want[t]) \cap inflight # {},
           p \notin {"out", "ready", "failed"} => want[t] \in Key
    PROVE  Inv'
<1>1. throws' \in Nat /\ (throws > 0 => throws' > 0)
  BY DEF Inv, Typed
<1>2. /\ pc' \in [Thread -> Places] /\ pc'[t] = p
      /\ \A u \in Thread \ {t} : pc'[u] = pc[u]
  BY DEF Inv, Typed, Goes
<1>3. \A u \in Thread : Building(u)' <=> Building(u)
  BY <1>2 DEF Building
<1>4. Typed'
  BY <1>1, <1>2 DEF Inv, Typed
<1>5. Unlike' /\ Marked'
  BY <1>3 DEF Inv, Unlike, Marked, Alike
<1>6. Manned'
  BY <1>1, <1>3 DEF Inv, Manned
<1>7. Awaited'
  BY <1>2 DEF Inv, Awaited, Alike
<1> QED
  BY <1>4, <1>5, <1>6, <1>7 DEF Inv

\* The marker of a thread that built is erased and the sleepers are woken.
LEMMA Erases ==
    ASSUME NEW t \in Thread, NEW p \in {"ready", "failed"}, Inv,
           Building(t), WakesAll(t, p), inflight' = Unmarked(want[t]),
           UNCHANGED <<table, want>>, UNCHANGED throws \/ throws' = throws + 1
    PROVE  Inv'
<1>1. throws' \in Nat /\ (throws > 0 => throws' > 0)
  BY DEF Inv, Typed
<1>2. /\ pc' \in [Thread -> Places] /\ pc'[t] = p
      /\ \A u \in Thread : pc'[u] # "wait"
      /\ \A u \in Thread \ {t} : Building(u)' <=> Building(u)
      /\ \A u \in Thread \ {t} : pc[u] \in {"out", "ready", "failed"} => pc'[u] = pc[u]
  BY DEF Inv, Typed, WakesAll, Building, Places
<1>3. want[t] \in Key /\ want[t] \in Alike(want[t])
  BY AlikeSymmetric DEF Inv, Typed, Building
<1>4. Typed'
  <2>1. \A u \in Thread : pc'[u] \notin {"out", "ready", "failed"} => want'[u] \in Key
    BY <1>2 DEF Inv, Typed
  <2> QED
    BY <1>1, <1>2, <2>1 DEF Inv, Typed, Unmarked
<1>5. ~Building(t)'
  BY <1>2 DEF Building
<1>6. Unlike'
  BY <1>2, <1>5 DEF Inv, Unlike, Alike
<1>7. Marked'
  <2> SUFFICES ASSUME NEW u \in Thread, Building(u)'
               PROVE  want[u] \in inflight'
    BY DEF Marked
  <2>1. u # t /\ Building(u)
    BY <1>2, <1>5
  <2>2. want[u] \in inflight /\ want[u] \notin Alike(want[t])
    BY <2>1 DEF Inv, Marked, Unlike
  <2> QED
    BY <2>2 DEF Unmarked
<1>8. Manned'
  <2> SUFFICES ASSUME NEW k \in inflight', ~(table = "res" /\ throws > 0)
               PROVE  \E u \in Thread : Building(u)' /\ want'[u] = k
    BY <1>1 DEF Manned
  <2>1. k \in inflight /\ k # want[t]
    BY <1>3 DEF Unmarked
  <2>2. PICK u \in Thread : Building(u) /\ want[u] = k
    BY <2>1 DEF Inv, Manned
  <2> QED
    BY <1>2, <2>1, <2>2
<1>9. Awaited'
  BY <1>2 DEF Awaited
<1> QED
  BY <1>4, <1>6, <1>7, <1>8, <1>9 DEF Inv

\* A caller begins or ends a call: it is not building either way.
LEMMA ComesOrGoes ==
    ASSUME NEW t \in Thread, NEW p \in {"lookup", "out"}, NEW k \in Key \cup {NoKey}, Inv,
           ~Building(t), Goes(t, p), want' = [want EXCEPT ![t] = k],
           p = "lookup" => k \in Key, UNCHANGED <<table, inflight, throws>>
    PROVE  Inv'
<1>1. /\ pc' \in [Thread -> Places] /\ pc'[t] = p
      /\ \A u \in Thread \ {t} : pc'[u] = pc[u] /\ want'[u] = want[u]
  BY DEF Inv, Typed, Goes, Places
<1>2. want' \in [Thread -> Key \cup {NoKey}] /\ want'[t] = k
  BY DEF Inv, Typed
<1>3. ~Building(t)' /\ \A u \in Thread \ {t} : Building(u)' <=> Building(u)
  BY <1>1 DEF Building
<1>4. Typed'
  BY <1>1, <1>2 DEF Inv, Typed
<1>5. Unlike' /\ Marked'
  BY <1>1, <1>3 DEF Inv, Unlike, Marked, Alike
<1>6. Manned'
  BY <1>1, <1>3 DEF Inv, Manned
<1>7. Awaited'
  BY <1>1 DEF Inv, Awaited, Alike
<1> QED
  BY <1>4, <1>5, <1>6, <1>7 DEF Inv

\* The first to want a key marks it.
LEMMA Claims ==
    ASSUME NEW t \in Thread, Inv, ClaimsIt(t)
    PROVE  Inv'
<1>1. /\ pc' \in [Thread -> Places] /\ pc'[t] = "build"
      /\ \A u \in Thread \ {t} : pc'[u] = pc[u]
  BY DEF Inv, Typed, ClaimsIt, Goes, Places
<1>2. /\ want[t] \in Key /\ inflight' = inflight \cup {want[t]}
      /\ UNCHANGED <<table, want, throws>>
  BY DEF Inv, Typed, ClaimsIt
<1>3. \A u \in Thread \ {t} : Building(u)' <=> Building(u)
  BY <1>1 DEF Building
<1>4. \A u \in Thread \ {t} :
          Building(u) => want[u] \notin Alike(want[t]) /\ want[t] \notin Alike(want[u])
  <2> SUFFICES ASSUME NEW u \in Thread \ {t}, Building(u)
               PROVE  want[u] \notin Alike(want[t]) /\ want[t] \notin Alike(want[u])
    OBVIOUS
  <2>1. want[u] \in inflight /\ want[u] \in Key
    BY DEF Inv, Typed, Marked
  <2>2. want[u] \notin Alike(want[t])
    BY <2>1 DEF ClaimsIt
  <2> QED
    BY <1>2, <2>1, <2>2, AlikeSymmetric
<1>5. Typed'
  BY <1>1, <1>2 DEF Inv, Typed
<1>6. Unlike'
  BY <1>2, <1>3, <1>4 DEF Inv, Unlike, Alike
<1>7. Marked'
  BY <1>2, <1>3 DEF Inv, Marked
<1>8. Building(t)'
  BY <1>1 DEF Building
<1>9. Manned'
  <2> SUFFICES ASSUME NEW k \in inflight', ~(table = "res" /\ throws > 0)
               PROVE  \E u \in Thread : Building(u)' /\ want'[u] = k
    BY <1>2 DEF Manned
  <2>1. CASE k = want[t]
    BY <2>1, <1>2, <1>8
  <2>2. CASE k # want[t]
    <3>1. PICK u \in Thread : Building(u) /\ want[u] = k
      BY <2>2, <1>2 DEF Inv, Manned
    <3> QED
      BY <3>1, <2>2, <1>2, <1>3
  <2> QED
    BY <2>1, <2>2
<1>10. Awaited'
  BY <1>1, <1>2 DEF Inv, Awaited, Alike
<1> QED
  BY <1>5, <1>6, <1>7, <1>9, <1>10 DEF Inv

\* The insertion of the instrumental weights throws: nobody clears the marker.
LEMMA Strands ==
    ASSUME NEW t \in Thread, Inv, pc[t] = "build", table = "res",
           Goes(t, "failed"), throws' = throws + 1, UNCHANGED <<table, inflight, want>>
    PROVE  Inv'
<1>1. throws' \in Nat /\ throws' > 0
  BY DEF Inv, Typed
<1>2. /\ pc' \in [Thread -> Places] /\ pc'[t] = "failed"
      /\ \A u \in Thread \ {t} : pc'[u] = pc[u]
  BY DEF Inv, Typed, Goes, Places
<1>3. ~Building(t)' /\ \A u \in Thread : Building(u)' => Building(u)
  BY <1>2 DEF Building
<1>4. Typed'
  BY <1>1, <1>2 DEF Inv, Typed
<1>5. Unlike' /\ Marked'
  BY <1>3 DEF Inv, Unlike, Marked, Alike
<1>6. Manned'
  BY <1>1 DEF Manned
<1>7. Awaited'
  BY <1>2 DEF Inv, Awaited, Alike
<1> QED
  BY <1>4, <1>5, <1>6, <1>7 DEF Inv

\* Every step of a call keeps the invariant.
LEMMA CallKeeps ==
    ASSUME NEW t \in Thread, Inv, CallStep(t)
    PROVE  Inv'
<1>1. CASE FindsIt(t)
  BY <1>1, MovesOn DEF FindsIt, Building, Goes, Places
<1>2. CASE ClaimsIt(t)
  BY <1>2, Claims
<1>3. CASE Sleeps(t)
  <2>1. want[t] \in Key
    BY <1>3 DEF Inv, Typed, Sleeps
  <2> QED
    BY <1>3, <2>1, MovesOn DEF Sleeps, Building, Places
<1>4. CASE Puts(t)
  <2>1. want[t] \in Key
    BY <1>4 DEF Inv, Typed, Puts
  <2> QED
    BY <1>4, <2>1, MovesOn DEF Puts, Building, Places
<1>5. CASE ClearsMarker(t)
  BY <1>5, Erases DEF ClearsMarker, Building
<1>6. CASE Publishes(t)
  BY <1>6, Erases DEF Publishes, Building
<1>7. CASE Corrupts(t)
  <2>1. want[t] \in Key
    BY <1>7 DEF Inv, Typed, Corrupts
  <2> QED
    BY <1>7, <2>1, MovesOn DEF Corrupts, Building, Places
<1>8. CASE BuildThrows(t)
  <2>1. want[t] \in Key
    BY <1>8 DEF Inv, Typed, BuildThrows
  <2> QED
    BY <1>8, <2>1, MovesOn DEF BuildThrows, Building, Places
<1>11. CASE BuildDies(t)
  <2>1. want[t] \in Key
    BY <1>11 DEF Inv, Typed, BuildDies
  <2> QED
    BY <1>11, <2>1, MovesOn DEF BuildDies, Building, Places
<1>9. CASE Unwinds(t)
  BY <1>9, Erases DEF Unwinds, Building
<1>10. CASE InsertThrows(t)
  <2>1. want[t] \in Key
    BY <1>10 DEF Inv, Typed, InsertThrows
  <2>2. CASE table = "rot"
    BY <1>10, <2>1, <2>2, MovesOn DEF InsertThrows, Building, Places
  <2>3. CASE table = "seg"
    BY <1>10, <2>3, Erases DEF InsertThrows, Building
  <2>4. CASE table = "res"
    BY <1>10, <2>4, Strands DEF InsertThrows
  <2>5. table \in {"rot", "seg", "res"}
    BY WeightLimits DEF Inv, Typed
  <2> QED
    BY <2>2, <2>3, <2>4, <2>5
<1> QED
  BY <1>1, <1>2, <1>3, <1>4, <1>5, <1>6, <1>7, <1>8, <1>9, <1>10, <1>11 DEF CallStep

\* The caches start empty and nobody is in a call.
LEMMA InvInitially == Init => Inv
<1> SUFFICES ASSUME Init
             PROVE  Inv
  OBVIOUS
<1>1. /\ table \in Tables /\ inflight = {} /\ throws = 0
      /\ pc = [t \in Thread |-> "out"] /\ want = [t \in Thread |-> NoKey]
  BY DEF Init, WeightsInit
<1>2. Typed
  BY <1>1 DEF Typed, Places
<1>3. \A t \in Thread : ~Building(t)
  BY <1>1 DEF Building
<1> QED
  BY <1>1, <1>2, <1>3 DEF Inv, Unlike, Marked, Manned, Awaited

\* Every step of a thread inside an iteration keeps the invariant.
LEMMA WorksKeeps ==
    ASSUME NEW t \in Thread, Inv, Works(t)
    PROVE  Inv'
<1>1. CASE Begins(t)
  BY <1>1, Elsewhere DEF Begins, wvars
<1>2. CASE Skips(t)
  BY <1>2, Elsewhere DEF Skips, wvars
<1>3. CASE Asks(t)
  <2>1. PICK k \in Key : AskFor(t, k)
    BY <1>3 DEF Asks
  <2> QED
    BY <2>1, ComesOrGoes DEF AskFor, Building
<1>4. CASE FromSpectrumCache(t)
  BY <1>4, Elsewhere DEF FromSpectrumCache, wvars
<1>5. CASE Take(t)
  BY <1>5, ComesOrGoes DEF Take, Building
<1>6. CASE Fails(t) \/ ScratchFails(t)
  BY <1>6, Elsewhere DEF Fails, ScratchFails
<1>7. CASE Completes(t)
  BY <1>7, Elsewhere DEF Completes, wvars
<1>8. CASE CallStep(t)
  BY <1>8, CallKeeps
<1> QED
  BY <1>1, <1>2, <1>3, <1>4, <1>5, <1>6, <1>7, <1>8
     DEF Works, GetsTable, TableFails, InCaches

\* Every step keeps the invariant.
LEMMA InvKept == Inv /\ [Next]_vars => Inv'
<1> SUFFICES ASSUME Inv, [Next]_vars
             PROVE  Inv'
  OBVIOUS
<1>1. CASE UNCHANGED wvars
  BY <1>1, Elsewhere DEF wvars
<1>2. CASE Evaluate
  BY <1>2, <1>1 DEF Evaluate
<1>3. CASE LoopStep
  <2>1. UNCHANGED wvars \/ SerialFails
    BY <1>3 DEF LoopStep, ReturnResiduals, StartFactors, Rethrows, StartAnchors,
       StartTelluric, StartStellar, Return
  <2>2. CASE SerialFails
    BY <2>2, Elsewhere DEF SerialFails
  <2> QED
    BY <2>1, <2>2, <1>1
<1>4. CASE \E t \in Thread : Works(t)
  BY <1>4, WorksKeeps
<1>5. CASE LimitMoves
  BY <1>5, Elsewhere DEF LimitMoves
<1>6. ASSUME NEW t \in Thread, WakesAlone(t)
      PROVE  Inv'
  <2>1. want[t] \in Key
    BY <1>6 DEF Inv, Typed, WakesAlone
  <2> QED
    BY <1>6, <2>1, MovesOn DEF WakesAlone, Building, Places
<1>7. CASE UNCHANGED vars
  BY <1>7, <1>1 DEF vars
<1> QED
  BY <1>2, <1>3, <1>4, <1>5, <1>6, <1>7 DEF Next, Meanwhile

(***************************************************************************)
(* The inductive invariant, for any number of threads, spectra, keys and   *)
(* exceptions: a builder has its marker and every marker its builder, but  *)
(* for one an instrumental insertion stranded, builders' keys are pairwise *)
(* unlike, and a sleeper's marker stands.                                  *)
(***************************************************************************)
THEOREM BuildersMarked == Spec => []Inv
<1> QED
  BY InvInitially, InvKept, PTL DEF Spec

(***************************************************************************)
(* At most one thread computes any given key, in each of the three caches  *)
(* (RotationalConvolution.cpp, get_or_build), whatever the evaluations ask *)
(* for, however the limits move and whatever is thrown.                    *)
(***************************************************************************)
THEOREM OneBuilderAlways == Spec => []OneBuilder
<1>1. Inv => OneBuilder
  BY DEF Inv, Unlike, Marked, Manned, Awaited, OneBuilder
<1> QED
  BY <1>1, BuildersMarked, PTL

-----------------------------------------------------------------------------
(* The entries of the caches and the lists they are evicted from.          *)

\* The types of what a cache holds.
Holds ==
    /\ cached \subseteq Key /\ IsFiniteSet(cached)
    /\ lru \in Seq(Key)
    /\ bytes \in Nat
    /\ limit \in Limits
    /\ throws \in 0..MaxThrows

EInv == Inv /\ Holds /\ EvictableEntries

\* The eviction loop ends somewhere.
LEMMA PopsEnd ==
    ASSUME NEW l \in Seq(Key), NEW m, NEW b
    PROVE  PoppedTo(m, l, b) \in 0..Len(l)
<1> DEFINE S == {n \in 0..Len(l) : Stops(m, l, b, n)}
<1>1. Len(l) \in Nat /\ S \in SUBSET (0..Len(l)) /\ 0 \in S
    BY DEF Stops
<1> HIDE DEF S
<1>2. PICK x \in S : \A y \in S : y <= x
    BY <1>1, GreatestNatural
<1>3. \A y \in S : x >= y
    BY <1>1, <1>2
<1>4. Max(S) \in S
    BY <1>2, <1>3 DEF Max
<1> QED
    BY <1>1, <1>4 DEF PoppedTo, S

\* The bytes left are a number: the pops stop at zero.
LEMMA CountIsNatural ==
    ASSUME NEW m, m \subseteq Key, IsFiniteSet(m), NEW l, NEW b \in Nat, NEW n
    PROVE  CountAt(m, l, b, n) \in Nat
<1> DEFINE gone == m \ KeptAt(m, l, n)
<1>1. IsFiniteSet(gone) /\ gone \subseteq Key
    BY FS_Subset DEF KeptAt
<1>2. \A k \in gone : Cost[k] \in Nat
    BY <1>1, WeightKeys
<1>3. SumOver(Cost, gone) \in Nat
    BY <1>1, <1>2, SumNatural
<1>4. CountAt(m, l, b, n) = IF SumOver(Cost, gone) < b THEN b - SumOver(Cost, gone) ELSE 0
    BY DEF CountAt, SumOver, MapThenSumSet, MapThenFoldSet
<1> HIDE DEF gone
<1> QED
    BY <1>3, <1>4

\* Popping a list takes from the map what it takes from the list.
LEMMA EvictedKeeps ==
    ASSUME NEW m, m \subseteq Key, IsFiniteSet(m), NEW l \in Seq(Key), NEW b \in Nat,
           Evicted(m, l, b)
    PROVE  /\ cached' \subseteq Key /\ IsFiniteSet(cached')
           /\ lru' \in Seq(Key) /\ bytes' \in Nat
           /\ \A k \in cached' : k \in m /\ (k \in ElementsOf(l) => k \in ElementsOf(lru'))
<1> DEFINE n == PoppedTo(m, l, b)
<1>1. n \in 0..Len(l) /\ Len(l) \in Nat
    BY PopsEnd
<1>2. cached' = KeptAt(m, l, n) /\ lru' = SubSeq(l, 1, n) /\ bytes' = CountAt(m, l, b, n)
    BY DEF Evicted
<1> HIDE DEF n
<1>3. cached' \subseteq m /\ IsFiniteSet(cached')
    BY <1>2, FS_Subset DEF KeptAt
<1>4. lru' \in Seq(Key) /\ Len(lru') = n /\ \A i \in 1..n : lru'[i] = l[i]
    BY <1>1, <1>2
<1>5. ASSUME NEW k \in cached', k \in ElementsOf(l) PROVE k \in ElementsOf(lru')
    <2>1. PICK i \in 1..Len(l) : l[i] = k
        BY <1>5 DEF ElementsOf
    <2>2. i \notin (n + 1)..Len(l)
        BY <1>2, <2>1 DEF KeptAt
    <2>3. i \in 1..n
        BY <1>1, <2>1, <2>2
    <2> QED
        BY <1>4, <2>1, <2>3 DEF ElementsOf
<1>6. bytes' \in Nat
    BY <1>2, CountIsNatural
<1> QED
    BY <1>3, <1>4, <1>5, <1>6

\* A new key in front of a list.
LEMMA Fronted ==
    ASSUME NEW l \in Seq(Key), NEW k \in Key
    PROVE  /\ <<k>> \o l \in Seq(Key)
           /\ ElementsOf(<<k>> \o l) = {k} \cup ElementsOf(l)
<1> DEFINE f == <<k>> \o l
<1>1. f \in Seq(Key) /\ Len(f) = Len(l) + 1 /\ Len(l) \in Nat
    OBVIOUS
<1>2. f[1] = k /\ \A i \in 1..Len(l) : f[i + 1] = l[i]
    OBVIOUS
<1> HIDE DEF f
<1>3. \A i \in 1..Len(f) : i = 1 \/ (i - 1 \in 1..Len(l) /\ (i - 1) + 1 = i)
    BY <1>1
<1>4. ASSUME NEW i \in 1..Len(f) PROVE f[i] = k \/ f[i] \in ElementsOf(l)
    <2>1. CASE i = 1
        BY <1>2, <2>1
    <2>2. CASE i - 1 \in 1..Len(l) /\ (i - 1) + 1 = i
        <3>1. f[i] = l[i - 1]
            BY <1>2, <2>2
        <3> QED
            BY <2>2, <3>1 DEF ElementsOf
    <2> QED
        BY <1>3, <2>1, <2>2
<1>5. \A i \in 1..Len(l) : l[i] \in ElementsOf(f)
    <2>1. \A i \in 1..Len(l) : i + 1 \in 1..Len(f)
        BY <1>1
    <2> QED
        BY <1>2, <2>1 DEF ElementsOf
<1>6. k \in ElementsOf(f)
    BY <1>1, <1>2 DEF ElementsOf
<1>7. \A x : x \in ElementsOf(f) => x \in {k} \cup ElementsOf(l)
    BY <1>4 DEF ElementsOf
<1>8. \A x : x \in ElementsOf(l) => x \in ElementsOf(f)
    BY <1>5 DEF ElementsOf
<1> QED
    BY <1>1, <1>6, <1>7, <1>8 DEF f

\* The node of a listed key moves to the front; no key is lost.
LEMMA SplicedKeeps ==
    ASSUME NEW l \in Seq(Key), NEW k \in Key, k \in ElementsOf(l)
    PROVE  Spliced(l, k) \in Seq(Key) /\ ElementsOf(l) \subseteq ElementsOf(Spliced(l, k))
<1> DEFINE P(i) == i \in 1..Len(l) /\ l[i] = k /\ \A j \in 1..(i - 1) : l[j] # k
           N == {i \in 1..Len(l) : l[i] = k}
           p == CHOOSE i \in 1..Len(l) : l[i] = k /\ \A j \in 1..(i - 1) : l[j] # k
           a == SubSeq(l, 1, p - 1)
           z == SubSeq(l, p + 1, Len(l))
<1>0. Len(l) \in Nat
    OBVIOUS
<1>1. \E i : P(i)
    <2>1. N \in SUBSET Nat /\ N # {}
        BY <1>0 DEF ElementsOf
    <2>2. PICK i \in N : \A j \in N : i <= j
        BY <2>1, LeastNatural
    <2>3. i \in 1..Len(l) /\ \A j \in 1..(i - 1) : j \in 1..Len(l) /\ ~(i <= j)
        BY <1>0
    <2> QED
        BY <2>2, <2>3
<1>2. p \in 1..Len(l) /\ l[p] = k
    BY <1>1
<1> HIDE DEF p, N, P
<1>3. /\ a \in Seq(Key) /\ Len(a) = p - 1 /\ \A i \in 1..(p - 1) : a[i] = l[i]
      /\ z \in Seq(Key) /\ Len(z) = Len(l) - p
      /\ \A i \in 1..(Len(l) - p) : z[i] = l[p + i]
    BY <1>0, <1>2
<1> HIDE DEF a, z
<1>4. a \o z \in Seq(Key) /\ Len(a \o z) = Len(l) - 1
      /\ (\A i \in 1..(p - 1) : (a \o z)[i] = l[i])
      /\ (\A i \in p..(Len(l) - 1) : (a \o z)[i] = l[i + 1])
    <2>1. a \o z \in Seq(Key) /\ Len(a \o z) = Len(a) + Len(z)
        BY <1>3
    <2>2. \A i \in 1..(Len(a) + Len(z)) :
              (a \o z)[i] = IF i <= Len(a) THEN a[i] ELSE z[i - Len(a)]
        <3>1. a \in Seq(Key) /\ z \in Seq(Key)
            BY <1>3
        <3> QED
            BY <3>1
    <2>3. \A i \in p..(Len(l) - 1) :
              /\ i \in 1..(Len(a) + Len(z)) /\ ~(i <= Len(a))
              /\ i - Len(a) \in 1..(Len(l) - p) /\ p + (i - Len(a)) = i + 1
        BY <1>0, <1>2, <1>3
    <2>4. \A i \in 1..(p - 1) : i \in 1..(Len(a) + Len(z)) /\ i <= Len(a)
        BY <1>0, <1>2, <1>3
    <2>5. Len(a) + Len(z) = Len(l) - 1
        BY <1>0, <1>2, <1>3
    <2>6. \A i \in p..(Len(l) - 1) : (a \o z)[i] = l[i + 1]
        BY <1>3, <2>2, <2>3
    <2>7. \A i \in 1..(p - 1) : (a \o z)[i] = l[i]
        BY <1>3, <2>2, <2>4
    <2> QED
        BY <2>1, <2>5, <2>6, <2>7
<1>5. Spliced(l, k) = <<k>> \o (a \o z)
    BY DEF Spliced, p, a, z
<1> DEFINE q == a \o z
<1>6. /\ Spliced(l, k) \in Seq(Key)
      /\ ElementsOf(Spliced(l, k)) = {k} \cup ElementsOf(q)
    BY <1>4, <1>5, Fronted
<1>7. ASSUME NEW i \in 1..Len(l) PROVE l[i] \in {k} \cup ElementsOf(q)
    <2> HIDE DEF q
    <2>0. /\ Len(q) = Len(l) - 1
          /\ (\A j \in 1..(p - 1) : q[j] = l[j])
          /\ (\A j \in p..(Len(l) - 1) : q[j] = l[j + 1])
        BY <1>4 DEF q
    <2>1. CASE i < p
        <3>1. i \in 1..(p - 1) /\ i \in 1..Len(q)
            BY <1>0, <1>2, <2>0, <2>1
        <3> QED
            BY <2>0, <3>1 DEF ElementsOf
    <2>2. CASE i = p
        BY <1>2, <2>2
    <2>3. CASE i > p
        <3>1. i - 1 \in p..(Len(l) - 1) /\ i - 1 \in 1..Len(q) /\ (i - 1) + 1 = i
            BY <1>0, <1>2, <2>0, <2>3
        <3> QED
            BY <2>0, <3>1 DEF ElementsOf
    <2> QED
        BY <1>0, <1>2, <2>1, <2>2, <2>3
<1>8. \A x \in ElementsOf(l) : x \in {k} \cup ElementsOf(q)
    BY <1>7 DEF ElementsOf
<1> HIDE DEF q
<1> QED
    BY <1>6, <1>8

\* A key moves to the front: only keys taken for it leave the list.
LEMMA MovedKeeps ==
    ASSUME NEW l \in Seq(Key), NEW k \in Key, table = "rot" => k \in ElementsOf(l)
    PROVE  /\ Moved(l, k) \in Seq(Key)
           /\ \A x \in ElementsOf(l) :
                 x \in ElementsOf(Moved(l, k)) \/ (table # "rot" /\ Alike(x) # {x})
<1>1. CASE table = "rot"
    <2>1. Moved(l, k) = Spliced(l, k)
        BY <1>1 DEF Moved
    <2> QED
        BY <1>1, <2>1, SplicedKeeps
<1>2. CASE table # "rot"
    <2> DEFINE o == Only(l, Key \ Alike(k))
    <2>1. Moved(l, k) = <<k>> \o o
        BY <1>2 DEF Moved
    <2>2. o \in Seq(Key \cap (Key \ Alike(k))) /\ ElementsOf(o) = ElementsOf(l) \cap (Key \ Alike(k))
        <3> DEFINE S == Key \ Alike(k)
        <3> HIDE DEF S
        <3>1. Only(l, S) \in Seq(Key \cap S) /\ ElementsOf(Only(l, S)) = ElementsOf(l) \cap S
            BY OnlyKeeps
        <3> QED
            BY <3>1 DEF S
    <2> HIDE DEF o
    <2>3. o \in Seq(Key)
        <3>1. Key \cap (Key \ Alike(k)) \subseteq Key
            OBVIOUS
        <3> HIDE DEF Alike
        <3> QED
            BY <2>2, <3>1
    <2>4. Moved(l, k) \in Seq(Key) /\ ElementsOf(Moved(l, k)) = {k} \cup ElementsOf(o)
        BY <2>1, <2>3, Fronted
    <2>5. ASSUME NEW x \in ElementsOf(l), x \notin ElementsOf(Moved(l, k)) PROVE Alike(x) # {x}
        <3>1. x \in Key
            BY DEF ElementsOf
        <3>2. x # k /\ x \in Alike(k)
            BY <2>2, <2>4, <2>5, <3>1
        <3>3. k \in Alike(x)
            BY <3>1, <3>2, AlikeSymmetric
        <3> QED
            BY <3>2, <3>3
    <2> QED
        BY <1>2, <2>4, <2>5
<1> QED
    BY <1>1, <1>2

\* What may be said of an entry whose key is not in the list.
Excused(x) == table # "rot" /\ (throws > 0 \/ Alike(x) # {x})

LEMMA EvictableMeans == EvictableEntries <=> \A x \in cached : x \in ElementsOf(lru) \/ Excused(x)
BY DEF EvictableEntries, Listed, ElementsOf, Excused

\* An insertion takes no key of an entry out of the list, except where it moves a
\* key that others are taken for.
LEMMA InsertsKeep ==
    ASSUME EInv, NEW k \in Key, Inserts(k), table' = table, throws' = throws, limit' = limit
    PROVE  Holds' /\ EvictableEntries'
<1>0. /\ cached \subseteq Key /\ IsFiniteSet(cached) /\ lru \in Seq(Key) /\ bytes \in Nat
      /\ \A x \in cached : x \in ElementsOf(lru) \/ Excused(x)
      /\ table \in {"rot", "seg", "res"}
    BY EvictableMeans, WeightLimits DEF EInv, Inv, Typed, Holds
<1>1. /\ cached' \subseteq Key /\ IsFiniteSet(cached') /\ lru' \in Seq(Key) /\ bytes' \in Nat
      /\ \A x \in cached' : x \in ElementsOf(lru') \/ Excused(x)
    <2>1. CASE k \in cached /\ table = "rot"
        <3>1. Evicted(cached, Spliced(lru, k), bytes)
            BY <2>1 DEF Inserts
        <3>2. k \in ElementsOf(lru)
            BY <1>0, <2>1 DEF Excused
        <3>3. Spliced(lru, k) \in Seq(Key) /\ ElementsOf(lru) \subseteq ElementsOf(Spliced(lru, k))
            BY <1>0, <3>2, SplicedKeeps
        <3>4. /\ cached' \subseteq Key /\ IsFiniteSet(cached')
              /\ lru' \in Seq(Key) /\ bytes' \in Nat
              /\ \A x \in cached' : x \in cached /\ (x \in ElementsOf(Spliced(lru, k)) => x \in ElementsOf(lru'))
            BY <1>0, <3>1, <3>3, EvictedKeeps
        <3>5. \A x \in cached' : x \in ElementsOf(lru') \/ Excused(x)
            BY <1>0, <3>3, <3>4
        <3> QED
            BY <3>4, <3>5
    <2>2. CASE k \in cached /\ table = "seg"
        <3>1. UNCHANGED <<cached, lru, bytes>>
            BY <2>2 DEF Inserts, held
        <3> QED
            BY <1>0, <3>1
    <2>3. CASE k \in cached /\ table = "res"
        <3>1. lru' = Moved(lru, k) /\ cached' = cached /\ bytes' = bytes
            BY <2>3 DEF Inserts
        <3>2. /\ Moved(lru, k) \in Seq(Key)
              /\ \A x \in ElementsOf(lru) :
                 x \in ElementsOf(Moved(lru, k)) \/ (table # "rot" /\ Alike(x) # {x})
            BY <1>0, <2>3, MovedKeeps
        <3> QED
            BY <1>0, <3>1, <3>2 DEF Excused
    <2>4. CASE k \notin cached
        <3> DEFINE m == cached \cup {k}
                   l == <<k>> \o lru
                   b == bytes + Cost[k]
        <3>1. Evicted(m, l, b)
            BY <2>4 DEF Inserts
        <3>2. m \subseteq Key /\ IsFiniteSet(m) /\ b \in Nat
            <4>1. Cost[k] \in Nat
                BY WeightKeys
            <4>2. IsFiniteSet(m)
                BY <1>0, FS_AddElement
            <4> QED
                BY <1>0, <4>1, <4>2
        <3>3. l \in Seq(Key) /\ ElementsOf(l) = {k} \cup ElementsOf(lru)
            BY <1>0, Fronted
        <3>4. \A x \in m : x \in ElementsOf(l) \/ Excused(x)
            BY <1>0, <3>3
        <3> HIDE DEF m, l, b
        <3>5. /\ cached' \subseteq Key /\ IsFiniteSet(cached')
              /\ lru' \in Seq(Key) /\ bytes' \in Nat
              /\ \A x \in cached' : x \in m /\ (x \in ElementsOf(l) => x \in ElementsOf(lru'))
            BY <3>1, <3>2, <3>3, EvictedKeeps
        <3>6. \A x \in cached' : x \in ElementsOf(lru') \/ Excused(x)
            BY <3>4, <3>5
        <3> QED
            BY <3>5, <3>6
    <2> QED
        BY <1>0, <2>1, <2>2, <2>3, <2>4
<1>2. Holds'
    BY <1>1 DEF EInv, Holds
<1>3. EvictableEntries'
    BY <1>1 DEF Excused, EvictableEntries, Listed, ElementsOf, Alike
<1> QED
    BY <1>2, <1>3

\* Nothing is put into a cache, or taken out of it.
LEMMA HoldsOn ==
    ASSUME EInv, UNCHANGED <<table, held>>, limit' \in Limits,
           throws' \in 0..MaxThrows, throws' >= throws
    PROVE  Holds' /\ EvictableEntries'
<1>1. UNCHANGED <<cached, lru, bytes>>
    BY DEF held
<1>2. Holds'
    BY <1>1 DEF EInv, Holds
<1>3. throws > 0 => throws' > 0
    BY DEF EInv, Holds
<1>4. EvictableEntries'
    BY <1>1, <1>3 DEF EInv, EvictableEntries, Listed, Alike
<1> QED
    BY <1>2, <1>4

\* A table that is found moves its key to the front.
LEMMA FindKeeps ==
    ASSUME EInv, NEW t \in Thread, FindsIt(t)
    PROVE  Holds' /\ EvictableEntries'
<1> DEFINE k == want[t]
<1>1. /\ k \in Key /\ k \in cached /\ lru' = Moved(lru, k)
      /\ UNCHANGED <<table, cached, bytes, limit, throws>>
    BY DEF FindsIt, EInv, Inv, Typed
<1>2. /\ lru \in Seq(Key)
      /\ \A x \in cached : x \in ElementsOf(lru) \/ Excused(x)
    BY EvictableMeans DEF EInv, Holds
<1>3. table = "rot" => k \in ElementsOf(lru)
    BY <1>1, <1>2 DEF Excused
<1> HIDE DEF k
<1>4. /\ Moved(lru, k) \in Seq(Key)
      /\ \A x \in ElementsOf(lru) :
             x \in ElementsOf(Moved(lru, k)) \/ (table # "rot" /\ Alike(x) # {x})
    BY <1>1, <1>2, <1>3, MovedKeeps
<1>5. \A x \in cached : x \in ElementsOf(lru') \/ Excused(x)
    BY <1>1, <1>2, <1>4 DEF Excused
<1>6. Holds'
    BY <1>1, <1>4 DEF EInv, Holds
<1>7. EvictableEntries'
    BY <1>1, <1>5 DEF Excused, EvictableEntries, Listed, ElementsOf, Alike
<1> QED
    BY <1>6, <1>7

\* An insertion that throws leaves one container ahead of the other, and an
\* exception to blame.
LEMMA ThrowKeeps ==
    ASSUME EInv, NEW t \in Thread, InsertThrows(t)
    PROVE  Holds' /\ EvictableEntries'
<1> DEFINE k == want[t]
<1>1. /\ k \in Key /\ HalfInserts(k) /\ throws' = throws + 1
      /\ throws < MaxThrows /\ UNCHANGED <<table, limit>>
    BY DEF InsertThrows, EInv, Inv, Typed
<1> HIDE DEF k
<1>2. /\ lru \in Seq(Key) /\ cached \subseteq Key /\ IsFiniteSet(cached)
      /\ throws \in 0..MaxThrows /\ MaxThrows \in Nat
      /\ \A x \in cached : x \in ElementsOf(lru) \/ Excused(x)
    BY EvictableMeans, WeightLimits DEF EInv, Holds
<1>3. throws' \in 0..MaxThrows /\ throws' > 0
    BY <1>1, <1>2
<1>4. CASE UNCHANGED held
    BY <1>1, <1>3, <1>4, HoldsOn DEF EInv, Holds
<1>5. CASE table = "rot" /\ lru' = <<k>> \o lru /\ UNCHANGED <<cached, bytes>>
    <2>1. <<k>> \o lru \in Seq(Key) /\ ElementsOf(<<k>> \o lru) = {k} \cup ElementsOf(lru)
        BY <1>1, <1>2, Fronted
    <2>2. Holds'
        BY <1>1, <1>3, <1>5, <2>1 DEF EInv, Holds
    <2>3. \A x \in cached : x \in ElementsOf(lru')
        BY <1>2, <1>5, <2>1 DEF Excused
    <2>4. EvictableEntries'
        BY <1>5, <2>3 DEF EvictableEntries, Listed, ElementsOf
    <2> QED
        BY <2>2, <2>4
<1>6. CASE table # "rot" /\ cached' = cached \cup {k} /\ UNCHANGED <<lru, bytes>>
    <2>1. IsFiniteSet(cached')
        BY <1>2, <1>6, FS_AddElement
    <2>2. Holds'
        BY <1>1, <1>2, <1>3, <1>6, <2>1 DEF EInv, Holds
    <2>3. EvictableEntries'
        BY <1>1, <1>3, <1>6 DEF EvictableEntries
    <2> QED
        BY <2>2, <2>3
<1> QED
    BY <1>1, <1>4, <1>5, <1>6 DEF HalfInserts

LEMMA EntriesInitially == Init => EInv
<1> SUFFICES ASSUME Init PROVE EInv
    OBVIOUS
<1>1. cached = {} /\ lru = <<>> /\ bytes = 0 /\ limit \in Limits /\ throws = 0
    BY DEF Init, WeightsInit
<1>2. Holds
    BY <1>1, FS_EmptySet, WeightLimits DEF Holds
<1>3. EvictableEntries
    BY <1>1 DEF EvictableEntries
<1> QED
    BY <1>2, <1>3, InvInitially DEF EInv

LEMMA EntriesKept == EInv /\ [Next]_vars => EInv'
<1> SUFFICES ASSUME EInv, [Next]_vars PROVE EInv'
    OBVIOUS
<1>0. Inv' /\ throws \in 0..MaxThrows /\ limit \in Limits /\ MaxThrows \in Nat
    BY InvKept, WeightLimits DEF EInv, Holds
<1>1. ASSUME UNCHANGED <<table, held>>, limit' \in Limits,
             throws' = throws \/ (throws < MaxThrows /\ throws' = throws + 1)
      PROVE  EInv'
    <2>1. throws' \in 0..MaxThrows /\ throws' >= throws
        BY <1>0, <1>1
    <2> QED
        BY <1>0, <1>1, <2>1, HoldsOn DEF EInv
<1>2. CASE UNCHANGED wvars
    BY <1>0, <1>1, <1>2 DEF wvars
<1>3. ASSUME NEW t \in Thread, CallStep(t) PROVE EInv'
    <2>1. CASE FindsIt(t)
        BY <1>0, <2>1, FindKeeps DEF EInv
    <2>2. CASE Puts(t) \/ Publishes(t)
        <3>1. want[t] \in Key
            BY <2>2 DEF EInv, Inv, Typed, Puts, Publishes
        <3> QED
            BY <1>0, <2>2, <3>1, InsertsKeep DEF Puts, Publishes, EInv
    <2>3. CASE InsertThrows(t)
        BY <1>0, <2>3, ThrowKeeps DEF EInv
    <2>4. CASE \/ ClaimsIt(t) \/ Sleeps(t) \/ ClearsMarker(t) \/ Corrupts(t)
               \/ BuildThrows(t) \/ BuildDies(t) \/ Unwinds(t)
        BY <1>0, <1>1, <2>4 DEF ClaimsIt, Sleeps, ClearsMarker, Corrupts, BuildThrows, BuildDies,
           Unwinds
    <2> QED
        BY <1>3, <2>1, <2>2, <2>3, <2>4 DEF CallStep
<1>4. ASSUME NEW t \in Thread, Works(t), ~CallStep(t) PROVE EInv'
    BY <1>0, <1>1, <1>4 DEF Works, InCaches, Begins, Skips, Asks, AskFor, FromSpectrumCache,
       GetsTable, TableFails, Take, Fails, ScratchFails, Completes, wvars
<1>5. CASE Evaluate \/ LoopStep
    <2>1. UNCHANGED wvars \/ SerialFails
        BY <1>5 DEF Evaluate, LoopStep, ReturnResiduals, StartFactors, Rethrows, StartAnchors,
           StartTelluric, StartStellar, Return
    <2>2. CASE SerialFails
        BY <1>0, <1>1, <2>2 DEF SerialFails
    <2> QED
        BY <1>2, <2>1, <2>2
<1>6. CASE Meanwhile
    BY <1>0, <1>1, <1>6 DEF Meanwhile, LimitMoves, WakesAlone
<1>7. CASE UNCHANGED vars
    BY <1>2, <1>7 DEF vars
<1> QED
    BY <1>3, <1>4, <1>5, <1>6, <1>7 DEF Next

LEMMA EntriesHeld == Spec => []EInv
BY EntriesInitially, EntriesKept, PTL DEF Spec

\* For any keys, tolerance, limits and exceptions: an entry of a weight cache
\* can be evicted, its key being in the list, unless a key taken for the same
\* was asked for or an insertion failed half way; in the per-point cache, always.
THEOREM EntriesEvictable == Spec => []EvictableEntries
<1>1. EInv => EvictableEntries
    BY DEF EInv
<1> QED
    BY <1>1, EntriesHeld, PTL

\* The eviction loop runs into an empty list only if an entry's key is missing.
LEMMA EmptyListBlamed ==
    ASSUME EInv, NEW k \in Key, PopsEmptyList(k)
    PROVE  table # "rot" /\ (throws > 0 \/ \E x \in Key : Alike(x) # {x})
<1> DEFINE m == cached \cup {k}
           l == <<k>> \o lru
           left == KeptAt(m, l, 0)
<1>1. table # "rot" /\ \E b : OverLimit(left, b)
    BY DEF PopsEmptyList, PopsNothing
<1>2. left # {}
    <2>1. Cardinality({}) = 0
        BY FS_EmptySet
    <2>2. PICK b : OverLimit(left, b)
        BY <1>1
    <2> HIDE DEF left
    <2> QED
        BY <2>1, <2>2 DEF OverLimit, KeptAlways
<1>3. PICK x \in left : TRUE
    BY <1>2
<1>4. lru \in Seq(Key) /\ cached \subseteq Key
    BY DEF EInv, Holds
<1>5. x \in m /\ x \notin ElementsOf(l)
    <2>1. left = m \ ElementsOf(l)
        BY DEF KeptAt, ElementsOf
    <2> QED
        BY <1>3, <2>1
<1>6. ElementsOf(l) = {k} \cup ElementsOf(lru)
    BY <1>4, Fronted
<1>7. x \in cached /\ x \notin ElementsOf(lru)
    BY <1>5, <1>6
<1>8. Excused(x)
    BY <1>7, EvictableMeans DEF EInv
<1> QED
    BY <1>1, <1>4, <1>7, <1>8 DEF Excused

-----------------------------------------------------------------------------
(* The matrix.                                                             *)

\* The iterations of loop p under the free mask F.
TasksOf(p, F) ==
    CASE p \in {"residuals", "factors"} -> Dataset
      [] p = "anchors" -> {j \in F : j >= ContBase}
      [] p = "telluric" ->
           {j \in F : \E d \in Telluric : RowCount[d] > 0 /\ j - TellOffset(d) \in TellSlots}
      [] p = "stellar" -> {j \in F : j < Stellar /\ ParamDatasets(j) # {}}
      [] OTHER -> {}

Bodies(p, F) == [task : TasksOf(p, F), left : Seq(Dataset)]

Phases == {"call", "residuals", "factors", "anchors", "telluric", "stellar"}

\* The types, and what the loops deal out.
JTyped ==
    /\ free \in FreeSets
    /\ phase \in Phases
    /\ todo \in Seq(TasksOf(phase, free))
    /\ body \in [Thread -> Bodies(phase, free) \cup {NoTask}]
    /\ failed \in BOOLEAN
    /\ scratch \in [Thread -> [Rows -> Int]]
    /\ outcome \in {"none", "residuals", "returned", "threw", "died"}
    /\ evaluation \in 0..MaxEvaluations[free]

\* An entry is one of the column and of the rows of its parameter.
CleanIn(J, F) ==
    \A x \in J : \E j \in F : \E d \in Moves(j) :
        x = <<x[1], RankIn(j, F), j>> /\ x[1] \in RowsOf(d)
Clean == CleanIn(jac, free)

\* Iteration b has written into s the rows of the spectra it is done with.
WrittenBy(b, s) ==
    b # NoTask =>
        \A d \in ParamDatasets(b.task) :
            d \in ElementsOf(b.left) \/ \A r \in RowsOf(d) : s[r] = b.task
Written == phase = "stellar" => \A t \in Thread : WrittenBy(body[t], scratch[t])

\* The column of parameter j is complete.
FullIn(J, F, j) ==
    IF j >= ContBase
    THEN \A i \in AnchorPixels(OwnerOf(j), j - ContOffset(OwnerOf(j))) \cap Fitted[OwnerOf(j)] :
             <<RowOfPixel(OwnerOf(j), i), RankIn(j, F), j>> \in J
    ELSE \A d \in Moves(j) : \A r \in RowsOf(d) : <<r, RankIn(j, F), j>> \in J
AllFull(J, F, p) == \A j \in TasksOf(p, F) : FullIn(J, F, j)

\* Nothing of the loop that runs is lost: its columns are complete, or waiting,
\* or in the hands of a thread.
Taken(j) == j \in ElementsOf(todo) \/ \E t \in Thread : body[t] # NoTask /\ body[t].task = j
Dealt ==
    phase \in {"anchors", "telluric", "stellar"} /\ ~failed =>
        \A j \in TasksOf(phase, free) : FullIn(jac, free, j) \/ Taken(j)

\* The loops behind left their columns complete.
Behind ==
    /\ phase = "anchors" => ~failed
    /\ phase \in {"telluric", "stellar"} => AllFull(jac, free, "anchors")
    /\ phase = "stellar" => AllFull(jac, free, "telluric")
    /\ outcome = "returned" =>
           /\ phase = "call"
           /\ \A p \in {"anchors", "telluric", "stellar"} : AllFull(jac, free, p)

JInv == JTyped /\ Clean /\ Written /\ Dealt /\ Behind

\* A thread asks for tables only inside an iteration, for a spectrum it has
\* still to compute, and the serial pass is the caller's alone.
Inside ==
    /\ \A t \in Thread : pc[t] # "out" => body[t] # NoTask /\ body[t].left # <<>>
    /\ phase = "call" => \A t \in Thread : body[t] = NoTask
    /\ phase = "residuals" => \A t \in Thread \ {Master} : body[t] = NoTask

-----------------------------------------------------------------------------
(* The layout of rows and columns.                                         *)

\* Sums of naturals over the indices below d grow by the entry passed.
LEMMA TotalsGrow ==
    ASSUME NEW n \in Nat, NEW w, \A x \in 1..n : w[x] \in Nat,
           NEW d \in 1..(n + 1)
    PROVE  /\ SumOver(w, 1..(d - 1)) \in Nat
           /\ d \in 1..n => SumOver(w, 1..d) = SumOver(w, 1..(d - 1)) + w[d]
           /\ \A e \in 1..n : e < d =>
                  SumOver(w, 1..(e - 1)) + w[e] <= SumOver(w, 1..(d - 1))
<1>1. \A m \in 0..n : /\ IsFiniteSet(1..m) /\ \A x \in 1..m : w[x] \in Nat /\ w[x] \in Int
                      /\ SumOver(w, 1..m) \in Nat
    <2> SUFFICES ASSUME NEW m \in 0..n
                 PROVE  /\ IsFiniteSet(1..m) /\ \A x \in 1..m : w[x] \in Nat /\ w[x] \in Int
                        /\ SumOver(w, 1..m) \in Nat
        OBVIOUS
    <2>1. IsFiniteSet(1..m)
        BY FS_Interval
    <2>2. \A x \in 1..m : x \in 1..n
        OBVIOUS
    <2>3. \A x \in 1..m : w[x] \in Nat
        BY <2>2
    <2>4. SumOver(w, 1..m) \in Nat
        BY <2>1, <2>3, SumNatural
    <2> QED
        BY <2>1, <2>3, <2>4
<1>2. \A e \in 1..n : SumOver(w, 1..e) = SumOver(w, 1..(e - 1)) + w[e]
    <2> SUFFICES ASSUME NEW e \in 1..n
                 PROVE  SumOver(w, 1..e) = SumOver(w, 1..(e - 1)) + w[e]
        OBVIOUS
    <2>1. (1..e) \ {e} = 1..(e - 1) /\ e \in 1..e /\ e \in 0..n /\ e - 1 \in 0..n
        OBVIOUS
    <2>2. SumOver(w, 1..e) = w[e] + SumOver(w, (1..e) \ {e})
        BY <1>1, <2>1, SumRemove
    <2>3. w[e] \in Nat /\ SumOver(w, 1..(e - 1)) \in Nat
        BY <1>1, <2>1
    <2>4. SumOver(w, (1..e) \ {e}) = SumOver(w, 1..(e - 1))
        BY <2>1
    <2> QED
        BY <2>2, <2>3, <2>4
<1>3. ASSUME NEW e \in 1..n, e < d
      PROVE  SumOver(w, 1..(e - 1)) + w[e] <= SumOver(w, 1..(d - 1))
    <2>1. d - 1 \in 0..n /\ e \in 0..n /\ 1..e \in SUBSET (1..(d - 1))
        BY <1>3
    <2>2. SumOver(w, 1..(d - 1)) = SumOver(w, 1..e) + SumOver(w, (1..(d - 1)) \ (1..e))
        BY <1>1, <2>1, SumSplit
    <2>3. SumOver(w, (1..(d - 1)) \ (1..e)) \in Nat
        <3>1. IsFiniteSet((1..(d - 1)) \ (1..e))
            BY <1>1, <2>1, FS_Subset
        <3>2. \A x \in (1..(d - 1)) \ (1..e) : w[x] \in Nat
            BY <1>1, <2>1
        <3> QED
            BY <3>1, <3>2, SumNatural
    <2>4. SumOver(w, 1..e) \in Nat /\ SumOver(w, 1..(d - 1)) \in Nat
        BY <1>1, <2>1
    <2> QED
        BY <1>2, <2>2, <2>3, <2>4
<1>4. d - 1 \in 0..n
    OBVIOUS
<1> QED
    BY <1>1, <1>2, <1>3, <1>4

\* The counts of rows and knots, and the offsets as sums of them.
LEMMA Layout ==
    /\ Len(Lambda) \in Nat /\ Dataset = 1..Len(Lambda)
    /\ \A d \in Dataset : /\ RowCount[d] \in Nat /\ RowCount[d] = Cardinality(Fitted[d])
                          /\ KnotCount[d] \in Nat \ {0} /\ KnotCount[d] = Len(Knots[d])
                          /\ IsFiniteSet(Fitted[d]) /\ Fitted[d] \in SUBSET Int
                          /\ Lambda[d] \in Seq(Int) /\ Knots[d] \in Seq(Int)
    /\ \A d : RowOffset(d) = SumOver(RowCount, 1..(d - 1))
    /\ \A d : ContOffset(d) = ContBase + SumOver(KnotCount, 1..(d - 1))
<1>1. Len(Lambda) \in Nat /\ Dataset = 1..Len(Lambda)
    BY CostAssumption DEF Dataset
<1>2. ASSUME NEW d \in Dataset
      PROVE  /\ RowCount[d] \in Nat /\ RowCount[d] = Cardinality(Fitted[d])
             /\ KnotCount[d] \in Nat \ {0} /\ KnotCount[d] = Len(Knots[d])
             /\ IsFiniteSet(Fitted[d]) /\ Fitted[d] \in SUBSET Int
             /\ Lambda[d] \in Seq(Int) /\ Knots[d] \in Seq(Int)
    <2>1. Lambda[d] \in Seq(Int) /\ Fitted[d] \subseteq 1..Len(Lambda[d]) /\ Knots[d] \in Seq(Int) /\ Knots[d] # <<>>
        BY <1>1, CostAssumption
    <2>2. Len(Lambda[d]) \in Nat /\ IsFiniteSet(1..Len(Lambda[d])) /\ 1..Len(Lambda[d]) \subseteq Int
        BY <2>1, FS_Interval
    <2>3. IsFiniteSet(Fitted[d]) /\ Fitted[d] \subseteq Int
        BY <2>1, <2>2, FS_Subset
    <2>4. Cardinality(Fitted[d]) \in Nat
        BY <2>3, FS_CardinalityType
    <2>5. Len(Knots[d]) \in Nat /\ Len(Knots[d]) # 0
        BY <2>1
    <2>6. RowCount[d] = Cardinality(Fitted[d]) /\ KnotCount[d] = Len(Knots[d])
        BY DEF RowCount, KnotCount
    <2> QED
        BY <2>1, <2>3, <2>4, <2>5, <2>6
<1>3. \A d : RowOffset(d) = SumOver(RowCount, 1..(d - 1))
    BY DEF RowOffset, SumOver, MapThenSumSet, MapThenFoldSet
<1>4. \A d : ContOffset(d) = ContBase + SumOver(KnotCount, 1..(d - 1))
    BY DEF ContOffset, SumOver, MapThenSumSet, MapThenFoldSet
<1> QED
    BY <1>1, <1>2, <1>3, <1>4

\* No row belongs to two spectra.
LEMMA RowsApart ==
    ASSUME NEW d \in Dataset, NEW e \in Dataset, NEW r, r \in RowsOf(d), r \in RowsOf(e)
    PROVE  d = e
<1>1. \A a \in Dataset : a \in Nat /\ a \in 1..(Len(Lambda) + 1) /\ RowCount[a] \in Nat
    BY Layout
<1>2. \A a \in Dataset : RowOffset(a) \in Nat
    BY <1>1, Layout, TotalsGrow
<1>3. \A a, b \in Dataset : a < b => RowOffset(a) + RowCount[a] <= RowOffset(b)
    BY <1>1, Layout, TotalsGrow
<1>4. r \in Int /\ r < RowOffset(d) + RowCount[d] /\ RowOffset(d) <= r
    BY <1>1, <1>2 DEF RowsOf
<1>5. r < RowOffset(e) + RowCount[e] /\ RowOffset(e) <= r
    BY <1>1, <1>2 DEF RowsOf
<1>6. ~(d < e) /\ ~(e < d)
    BY <1>1, <1>2, <1>3, <1>4, <1>5
<1> QED
    BY <1>1, <1>6

\* A fitted pixel has a row of its spectrum.
LEMMA PixelsHaveRows ==
    ASSUME NEW d \in Dataset, NEW i \in Fitted[d]
    PROVE  RowOfPixel(d, i) \in RowsOf(d) /\ RowCount[d] > 0
<1>0. d \in 1..(Len(Lambda) + 1) /\ Len(Lambda) \in Nat /\ \A x \in 1..Len(Lambda) : RowCount[x] \in Nat
    BY Layout
<1>1. RowOffset(d) \in Nat /\ RowCount[d] \in Nat
    BY <1>0, Layout, TotalsGrow
<1>2. RankIn(i, Fitted[d]) \in 0..(RowCount[d] - 1)
    BY Layout, RanksNumber
<1>3. RowOfPixel(d, i) = RowOffset(d) + RankIn(i, Fitted[d])
    BY DEF RowOfPixel, RankIn
<1> QED
    BY <1>1, <1>2, <1>3 DEF RowsOf

\* Rows are numbers.
LEMMA RowsAreNumbers ==
    /\ Rows \subseteq Int
    /\ \A d \in Dataset : RowsOf(d) \subseteq Rows
<1> QED
    BY DEF RowsOf, Rows

\* The blocks of parameters.
LEMMA Blocks ==
    /\ Stellar \in Nat /\ ContBase \in Nat /\ Stellar <= ContBase
    /\ IsFiniteSet(Telluric) /\ Telluric \in SUBSET Int /\ Telluric \subseteq Dataset
    /\ ContBase = Stellar + 3 * Cardinality(Telluric) /\ Cardinality(Telluric) \in Nat
    /\ \A d \in Telluric : TellOffset(d) = Stellar + 3 * RankIn(d, Telluric)
                           /\ RankIn(d, Telluric) \in 0..(Cardinality(Telluric) - 1)
<1>1. Stellar \in Nat /\ Telluric \subseteq Dataset
    BY CostAssumption
<1>2. IsFiniteSet(Telluric) /\ Telluric \in SUBSET Int
    <2>0. Len(Lambda) \in Nat /\ Telluric \subseteq 1..Len(Lambda)
        BY <1>1, Layout
    <2>1. IsFiniteSet(1..Len(Lambda)) /\ Telluric \subseteq 1..Len(Lambda)
        BY <2>0, FS_Interval
    <2>2. IsFiniteSet(Telluric)
        BY <2>1, FS_Subset
    <2> QED
        BY <2>0, <2>2
<1>3. Cardinality(Telluric) \in Nat
    BY <1>2, FS_CardinalityType
<1>4. \A d \in Telluric : RankIn(d, Telluric) \in 0..(Cardinality(Telluric) - 1)
    BY <1>2, RanksNumber
<1>5. \A d \in Telluric : TellOffset(d) = Stellar + 3 * RankIn(d, Telluric)
    BY DEF TellOffset, RankIn
<1> QED
    BY <1>1, <1>2, <1>3, <1>4, <1>5 DEF ContBase

\* Every telluric parameter has its spectrum.
LEMMA TelluricsOwned ==
    ASSUME NEW j \in Nat, j >= Stellar, j < ContBase
    PROVE  OwnerOf(j) \in Telluric /\ j - TellOffset(OwnerOf(j)) \in TellSlots
<1>1. \E d \in Telluric : j - TellOffset(d) \in TellSlots
    <2> DEFINE q == (j - Stellar) \div 3
    <2>0. j - Stellar \in Nat /\ j - Stellar < 3 * Cardinality(Telluric) /\ Cardinality(Telluric) \in Nat
        BY Blocks
    <2>1. q \in 0..(Cardinality(Telluric) - 1) /\ (j - Stellar) - 3 * q \in 0..2
        BY <2>0
    <2> HIDE DEF q
    <2>2. PICK d \in Telluric : RankIn(d, Telluric) = q
        BY <2>1, Blocks, RanksNumber
    <2>3. TellOffset(d) = Stellar + 3 * q
        BY <2>2, Blocks
    <2> QED
        BY <2>1, <2>3, Blocks DEF TellSlots
<1>2. ContBase \in Nat /\ ~(j >= ContBase)
    BY Blocks
<1> QED
    BY <1>1, <1>2 DEF OwnerOf

\* A telluric block lies between the stellar parameters and the anchors.
LEMMA TelluricBlock ==
    ASSUME NEW j \in Nat, NEW d \in Telluric, j - TellOffset(d) \in TellSlots
    PROVE  j >= Stellar /\ j < ContBase
<1>1. /\ TellOffset(d) = Stellar + 3 * RankIn(d, Telluric)
      /\ RankIn(d, Telluric) \in Nat /\ RankIn(d, Telluric) < Cardinality(Telluric)
    BY Blocks
<1> QED
    BY <1>1, Blocks DEF TellSlots

\* Every anchor has its spectrum.
LEMMA AnchorsOwned ==
    ASSUME NEW j \in Parameters, j >= ContBase
    PROVE  OwnerOf(j) \in Dataset /\ j - ContOffset(OwnerOf(j)) \in 0..(KnotCount[OwnerOf(j)] - 1)
<1> DEFINE n == Len(Lambda)
           S == {d \in 1..n : ContOffset(d) <= j}
<1>0. n \in Nat /\ Dataset = 1..n /\ ContBase \in Nat /\ j \in Nat
    BY Layout, Blocks DEF Parameters
<1>1. \A d \in 1..(n + 1) : ContOffset(d) \in Nat
    <2> SUFFICES ASSUME NEW d \in 1..(n + 1) PROVE ContOffset(d) \in Nat
        OBVIOUS
    <2>1. SumOver(KnotCount, 1..(d - 1)) \in Nat
        BY <1>0, Layout, TotalsGrow
    <2> QED
        BY <1>0, <2>1, Layout
<1>2. \A d \in 1..n : KnotCount[d] \in Nat /\ ContOffset(d + 1) = ContOffset(d) + KnotCount[d]
    <2> SUFFICES ASSUME NEW d \in 1..n
                 PROVE  KnotCount[d] \in Nat /\ ContOffset(d + 1) = ContOffset(d) + KnotCount[d]
        OBVIOUS
    <2>1. KnotCount[d] \in Nat /\ d \in 1..(n + 1) /\ (d + 1) - 1 = d
        BY <1>0, Layout
    <2>4. \A x \in 1..n : KnotCount[x] \in Nat
        BY <1>0, Layout
    <2>2. SumOver(KnotCount, 1..d) = SumOver(KnotCount, 1..(d - 1)) + KnotCount[d]
        BY <1>0, <2>1, <2>4, TotalsGrow
    <2>3. SumOver(KnotCount, 1..(d - 1)) \in Nat
        BY <1>0, <2>1, <2>4, TotalsGrow
    <2> QED
        BY <1>0, <2>1, <2>2, <2>3, Layout
<1>3. j < ContOffset(n + 1)
    BY <1>0, <1>1 DEF Parameters
<1>4. ContOffset(1) = ContBase
    <2>1. 1..(1 - 1) = {}
        OBVIOUS
    <2>2. SumOver(KnotCount, {}) = 0
        BY SumPicked, FS_EmptySet
    <2> QED
        BY <1>0, <2>1, <2>2, Layout
<1>5. n # 0
    BY <1>0, <1>3, <1>4
<1>6. S \in SUBSET (0..n) /\ 1 \in S
    BY <1>0, <1>4, <1>5
<1> HIDE DEF S, n
<1>7. PICK d \in S : \A y \in S : y <= d
    BY <1>0, <1>6, GreatestNatural
<1>8. d \in 1..n /\ d + 1 \in 1..(n + 1) /\ d + 1 > d /\ ContOffset(d) <= j
    BY <1>0, <1>7 DEF S
<1>9. j < ContOffset(d + 1)
    <2>1. CASE d = n
        BY <1>3, <2>1
    <2>2. CASE d # n
        <3>1. d + 1 \in 1..n /\ ~(d + 1 <= d)
            BY <1>0, <1>8, <2>2
        <3>2. d + 1 \notin S
            BY <1>7, <3>1
        <3>3. ~(ContOffset(d + 1) <= j)
            BY <3>1, <3>2 DEF S
        <3> QED
            BY <1>0, <1>1, <1>8, <3>3
    <2> QED
        BY <2>1, <2>2
<1>10. j \in ContOffset(d)..(ContOffset(d) + KnotCount[d] - 1)
    BY <1>0, <1>1, <1>2, <1>8, <1>9
<1>11. \E a \in Dataset : j \in ContOffset(a)..(ContOffset(a) + KnotCount[a] - 1)
    BY <1>0, <1>8, <1>10
<1>12. OwnerOf(j) = CHOOSE a \in Dataset : j \in ContOffset(a)..(ContOffset(a) + KnotCount[a] - 1)
    BY DEF OwnerOf
<1> DEFINE o == OwnerOf(j)
<1>13. o \in Dataset /\ j \in ContOffset(o)..(ContOffset(o) + KnotCount[o] - 1)
    BY <1>11, <1>12
<1> HIDE DEF o
<1>14. o \in 1..n /\ o \in 1..(n + 1) /\ ContOffset(o) \in Nat /\ KnotCount[o] \in Nat
    BY <1>0, <1>1, <1>2, <1>13
<1>15. j - ContOffset(o) \in 0..(KnotCount[o] - 1)
    BY <1>0, <1>13, <1>14
<1> QED
    BY <1>13, <1>15 DEF o

\* A free mask is a finite set of parameters, and gives each its own column.
LEMMA Columns ==
    ASSUME NEW F \in FreeSets
    PROVE  /\ F \subseteq Parameters /\ F \subseteq Nat /\ IsFiniteSet(F)
           /\ Cardinality(F) \in Nat
           /\ \A j \in F : RankIn(j, F) \in 0..(Cardinality(F) - 1)
           /\ \A i, j \in F : RankIn(i, F) = RankIn(j, F) => i = j
<1>1. F \subseteq Parameters
    BY MasksOfParameters
<1>2. ContOffset(Len(Lambda) + 1) \in Nat
    <2>1. Len(Lambda) + 1 \in 1..(Len(Lambda) + 1)
        BY Layout
    <2>2. SumOver(KnotCount, 1..((Len(Lambda) + 1) - 1)) \in Nat
        BY <2>1, Layout, TotalsGrow
    <2> QED
        BY <2>2, Layout, Blocks
<1>3. IsFiniteSet(Parameters) /\ Parameters \subseteq Nat
    <2> DEFINE top == ContOffset(Len(Lambda) + 1) - 1
    <2>1. top \in Int /\ Parameters = 0..top
        BY <1>2 DEF Parameters
    <2> HIDE DEF top
    <2> QED
        BY <2>1, FS_Interval
<1>4. IsFiniteSet(F) /\ F \subseteq Nat /\ F \in SUBSET Int
    <2>1. IsFiniteSet(F)
        BY <1>1, <1>3, FS_Subset
    <2> QED
        BY <1>1, <1>3, <2>1
<1>5. /\ \A j \in F : RankIn(j, F) \in 0..(Cardinality(F) - 1)
      /\ \A i, j \in F : i < j => RankIn(i, F) < RankIn(j, F)
      /\ Cardinality(F) \in Nat
    BY <1>4, RanksNumber
<1>6. \A i, j \in F : RankIn(i, F) = RankIn(j, F) => i = j
    <2>1. \A i \in F : i \in Int /\ RankIn(i, F) \in Int
        BY <1>4, <1>5
    <2>2. \A i, j \in F : RankIn(i, F) = RankIn(j, F) => ~(i < j) /\ ~(j < i)
        BY <1>5, <2>1
    <2> QED
        BY <2>1, <2>2
<1> QED
    BY <1>1, <1>4, <1>5, <1>6

-----------------------------------------------------------------------------
(* The reach of an anchor.                                                 *)

\* The smaller and the larger of two numbers.
LEMMA OfTwo ==
    ASSUME NEW a \in Int, NEW b \in Int
    PROVE  Min({a, b}) = (IF a < b THEN a ELSE b) /\ Max({a, b}) = (IF a < b THEN b ELSE a)
<1>1. \E x \in {a, b} : \A y \in {a, b} : x <= y
    OBVIOUS
<1>2. \E x \in {a, b} : \A y \in {a, b} : x >= y
    OBVIOUS
<1>3. Min({a, b}) \in {a, b} /\ \A y \in {a, b} : Min({a, b}) <= y
    BY <1>1 DEF Min
<1>4. Max({a, b}) \in {a, b} /\ \A y \in {a, b} : Max({a, b}) >= y
    BY <1>2 DEF Max
<1> QED
    BY <1>3, <1>4

\* As many knots lie at or below x as the index of the last of them says.
LEMMA KnotsBelow ==
    ASSUME NEW xs \in Seq(Int), NEW x \in Int,
           \A m, n \in 1..Len(xs) : m < n => xs[m] < xs[n]
    PROVE  LET c == Cardinality({k \in 1..Len(xs) : xs[k] <= x})
           IN  c \in 0..Len(xs) /\ \A i \in 1..Len(xs) : xs[i] <= x <=> i <= c
<1> DEFINE n == Len(xs)
           K == {k \in 1..n : xs[k] <= x}
           c == Cardinality(K)
<1>0. n \in Nat /\ \A i \in 1..n : xs[i] \in Int
    OBVIOUS
<1>1. /\ \A m \in 0..n : IsFiniteSet(1..m) /\ Cardinality(1..m) = m
      /\ K \subseteq 1..n
    <2>1. \A m \in 0..n : IsFiniteSet(1..m) /\ Cardinality(1..m) = m
        <3> SUFFICES ASSUME NEW m \in 0..n PROVE IsFiniteSet(1..m) /\ Cardinality(1..m) = m
            OBVIOUS
        <3>1. 1 \in Int /\ m \in Int
            OBVIOUS
        <3>2. IsFiniteSet(1..m) /\ Cardinality(1..m) = IF 1 > m THEN 0 ELSE m - 1 + 1
            BY <3>1, FS_Interval
        <3> QED
            BY <3>2
    <2> QED
        BY <2>1
<1>2. IsFiniteSet(K) /\ c \in Nat /\ c <= n
    <2>1. IsFiniteSet(1..n) /\ Cardinality(1..n) = n
        BY <1>0, <1>1
    <2>2. IsFiniteSet(K) /\ Cardinality(K) <= Cardinality(1..n)
        BY <1>1, <2>1, FS_Subset
    <2> QED
        BY <2>1, <2>2, FS_CardinalityType
<1>3. ASSUME NEW i \in 1..n, xs[i] <= x PROVE i <= c
    <2>1. \A m \in 1..i : m \in 1..n /\ xs[m] <= x
        BY <1>0, <1>3
    <2>2. 1..i \subseteq K /\ i \in 0..n
        BY <1>0, <2>1
    <2>3. Cardinality(1..i) <= c /\ Cardinality(1..i) = i
        BY <1>1, <1>2, <2>2, FS_Subset
    <2> QED
        BY <2>3
<1>4. ASSUME NEW i \in 1..n, ~(xs[i] <= x) PROVE ~(i <= c)
    <2>1. \A m \in K : m < i
        BY <1>0, <1>4
    <2>2. K \subseteq 1..(i - 1) /\ i - 1 \in 0..n
        BY <1>0, <1>1, <2>1
    <2>3. IsFiniteSet(1..(i - 1)) /\ Cardinality(1..(i - 1)) = i - 1
        BY <1>1, <2>2
    <2>4. c <= i - 1
        BY <2>2, <2>3, FS_Subset
    <2> QED
        BY <1>0, <1>2, <2>4
<1> HIDE DEF c
<1>5. c \in 0..n /\ \A i \in 1..n : xs[i] <= x <=> i <= c
    BY <1>0, <1>2, <1>3, <1>4
<1> QED
    BY <1>5 DEF c

\* A number below zero or above a bound taken to the nearer of the two.
LEMMA Clamped ==
    ASSUME NEW n \in Nat, n >= 2, NEW c \in 0..n, NEW m, NEW s,
           m = (IF c - 1 < 0 THEN 0 ELSE c - 1),
           s = (IF m < n - 2 THEN m ELSE n - 2)
    PROVE  s \in 0..(n - 2) /\ (s = 0 \/ c >= s + 1) /\ (s = n - 2 \/ c <= s + 1)
<1> QED
    OBVIOUS

\* The spline's interval, and the ordinates its value there depends on.
LEMMA IntervalBounds ==
    ASSUME NEW xs \in Seq(Int), NEW x \in Int, NEW c \in 0..Len(xs), Len(xs) >= 2,
           c = Cardinality({k \in 1..Len(xs) : xs[k] <= x})
    PROVE  LET s == SplineInterval(xs, x)
           IN  /\ s \in 0..(Len(xs) - 2)
               /\ s = 0 \/ c >= s + 1
               /\ s = Len(xs) - 2 \/ c <= s + 1
<1>1. Len(xs) \in Nat /\ c - 1 \in Int /\ Len(xs) - 2 \in Int
    OBVIOUS
<1>2. Max({c - 1, 0}) = IF c - 1 < 0 THEN 0 ELSE c - 1
    <2>1. c - 1 \in Int /\ 0 \in Int
        BY <1>1
    <2> DEFINE a == c - 1
    <2> HIDE DEF a
    <2>2. Max({a, 0}) = IF a < 0 THEN 0 ELSE a
        BY <2>1, OfTwo DEF a
    <2> QED
        BY <2>2 DEF a
<1>3. Max({c - 1, 0}) \in Int
    BY <1>1, <1>2
<1>4. SplineInterval(xs, x) = Min({Max({c - 1, 0}), Len(xs) - 2})
    BY DEF SplineInterval
<1>5. SplineInterval(xs, x) = IF Max({c - 1, 0}) < Len(xs) - 2 THEN Max({c - 1, 0}) ELSE Len(xs) - 2
    BY <1>1, <1>3, <1>4, OfTwo
<1> DEFINE s == SplineInterval(xs, x)
           m == Max({c - 1, 0})
<1>6. /\ m = IF c - 1 < 0 THEN 0 ELSE c - 1
      /\ s = IF m < Len(xs) - 2 THEN m ELSE Len(xs) - 2
    BY <1>2, <1>5
<1> HIDE DEF s, m
<1>7. s \in 0..(Len(xs) - 2) /\ (s = 0 \/ c >= s + 1) /\ (s = Len(xs) - 2 \/ c <= s + 1)
    BY <1>1, <1>6, Clamped
<1> QED
    BY <1>7 DEF s

\* What an interval needs is near it, or near the end of the knots it is near.
LEMMA NeedsNear ==
    ASSUME NEW n \in Nat, n >= 2, NEW s \in 0..(n - 2), NEW k \in IntervalNeeds(s, n)
    PROVE  /\ k \in Int
           /\ \/ k \in (s - 2)..(s + 3)
              \/ k \in 0..2 /\ s <= 1
              \/ k \in (n - 3)..(n - 1) /\ s >= n - 3
<1>1. CASE k = s
    BY <1>1
<1>2. ASSUME NEW t \in (s - 2)..(s + 2), k \in SecantNeeds(t, n)
      PROVE  /\ k \in Int
             /\ \/ k \in (s - 2)..(s + 3)
                \/ k \in 0..2 /\ s <= 1
                \/ k \in (n - 3)..(n - 1) /\ s >= n - 3
    <2>0. t \in Int
        OBVIOUS
    <2>1. CASE n = 2
        <3>1. k \in {0, 1} /\ s = 0
            BY <1>2, <2>1 DEF SecantNeeds
        <3> QED
            BY <3>1
    <2>2. CASE n # 2 /\ t < 0
        <3>1. k \in 0..2
            BY <1>2, <2>2 DEF SecantNeeds
        <3> QED
            BY <2>2, <3>1
    <2>3. CASE n # 2 /\ ~(t < 0) /\ t > n - 2
        <3>1. k \in (n - 3)..(n - 1)
            BY <1>2, <2>0, <2>3 DEF SecantNeeds
        <3> QED
            BY <2>3, <3>1
    <2>4. CASE n # 2 /\ ~(t < 0) /\ ~(t > n - 2)
        <3>1. k \in {t, t + 1}
            BY <1>2, <2>0, <2>4 DEF SecantNeeds
        <3> QED
            BY <2>4, <3>1
    <2> QED
        BY <2>1, <2>2, <2>3, <2>4
<1>3. k = s \/ \E t \in (s - 2)..(s + 2) : k \in SecantNeeds(t, n)
    BY DEF IntervalNeeds
<1> QED
    BY <1>1, <1>2, <1>3

\* The window of an anchor holds every pixel whose continuum depends on it:
\* four knots reach as far as the slopes at both ends of an interval do, and
\* an end of the knots that is nearer takes its side of the data whole.
LEMMA ReachCovers ==
    ASSUME NEW d \in Dataset, NEW i \in 1..Len(Lambda[d]), NEW k, InSupport(d, k, i)
    PROVE  i \in AnchorPixels(d, k)
<1> DEFINE xs == Knots[d]
           n == Len(Knots[d])
           x == Lambda[d][i]
           c == Cardinality({m \in 1..n : xs[m] <= x})
           s == SplineInterval(xs, x)
<1>1. xs \in Seq(Int) /\ n \in Nat \ {0} /\ x \in Int /\ KnotCount[d] = n
    BY Layout
<1>2. \A l, m \in 1..n : l < m => xs[l] < xs[m]
    BY Layout, CostAssumption
<1>3. k \in IF n = 1 THEN {0} ELSE IntervalNeeds(s, n)
    BY DEF InSupport, OrdinatesAt
<1>4. c \in 0..n /\ \A m \in 1..n : xs[m] <= x <=> m <= c
    BY <1>1, <1>2, KnotsBelow
<1>5. n # 1 => s \in 0..(n - 2) /\ (s = 0 \/ c >= s + 1) /\ (s = n - 2 \/ c <= s + 1)
    <2> SUFFICES ASSUME n # 1
                 PROVE  s \in 0..(n - 2) /\ (s = 0 \/ c >= s + 1) /\ (s = n - 2 \/ c <= s + 1)
        OBVIOUS
    <2>0. \A p \in Nat \ {0} : p # 1 => p >= 2
        OBVIOUS
    <2>1. n >= 2
        BY <1>1, <2>0
    <2> QED
        BY <1>1, <1>4, <2>1, IntervalBounds
<1>6. i \in AnchorPixels(d, k)
         <=> /\ k - 4 > 0 => x >= xs[(k - 4) + 1]
             /\ k + 4 < n - 1 => x <= xs[(k + 4) + 1]
    BY <1>1 DEF AnchorPixels, Reach
<1>7. \A m \in 1..n : xs[m] \in Int
    BY <1>1
<1> HIDE DEF xs, n, x, c, s
<1>8. CASE n = 1
    <2>1. k = 0
        BY <1>3, <1>8
    <2> QED
        BY <1>6, <1>8, <2>1
<1>9. CASE n # 1
    <2>1. /\ k \in Int
          /\ \/ k \in (s - 2)..(s + 3)
             \/ k \in 0..2 /\ s <= 1
             \/ k \in (n - 3)..(n - 1) /\ s >= n - 3
        BY <1>1, <1>3, <1>5, <1>9, NeedsNear
    <2>2. ASSUME k - 4 > 0 PROVE x >= xs[(k - 4) + 1]
        <3>1. (k - 4) + 1 \in 1..n /\ (k - 4) + 1 <= c
            BY <1>1, <1>4, <1>5, <1>9, <2>1, <2>2
        <3>2. xs[(k - 4) + 1] <= x /\ xs[(k - 4) + 1] \in Int
            BY <1>4, <1>7, <3>1
        <3> QED
            BY <1>1, <3>2
    <2>3. ASSUME k + 4 < n - 1 PROVE x <= xs[(k + 4) + 1]
        <3>1. (k + 4) + 1 \in 1..n /\ ~((k + 4) + 1 <= c)
            BY <1>1, <1>4, <1>5, <1>9, <2>1, <2>3
        <3>2. ~(xs[(k + 4) + 1] <= x) /\ xs[(k + 4) + 1] \in Int
            BY <1>4, <1>7, <3>1
        <3> QED
            BY <1>1, <3>2
    <2> QED
        BY <1>6, <2>2, <2>3
<1> QED
    BY <1>8, <1>9
-----------------------------------------------------------------------------
(* The iterations of the loops.                                            *)

JacobianLoops == {"anchors", "telluric", "stellar"}

\* What an iteration's task is, loop by loop.
LEMMA TasksMean ==
    ASSUME NEW F \in FreeSets
    PROVE  /\ \A p \in Phases : TasksOf(p, F) \subseteq Nat /\ IsFiniteSet(TasksOf(p, F))
           /\ \A p \in JacobianLoops : TasksOf(p, F) \subseteq F
           /\ \A p \in {"residuals", "factors"} : TasksOf(p, F) = Dataset
<1>1. F \subseteq Nat /\ IsFiniteSet(F)
    BY Columns
<1>2. Dataset \subseteq Nat /\ IsFiniteSet(Dataset)
    <2>1. Len(Lambda) \in Nat /\ Dataset = 1..Len(Lambda)
        BY Layout
    <2>2. IsFiniteSet(1..Len(Lambda)) /\ 1..Len(Lambda) \subseteq Nat
        BY <2>1, FS_Interval
    <2> QED
        BY <2>1, <2>2
<1>3. \A p \in JacobianLoops : TasksOf(p, F) \subseteq F
    BY DEF JacobianLoops, TasksOf
<1>4. \A p \in {"residuals", "factors"} : TasksOf(p, F) = Dataset
    BY DEF TasksOf
<1>5. TasksOf("call", F) = {} /\ IsFiniteSet({})
    BY FS_EmptySet DEF TasksOf
<1>6. \A p \in JacobianLoops : TasksOf(p, F) \subseteq Nat /\ IsFiniteSet(TasksOf(p, F))
    <2> SUFFICES ASSUME NEW p \in JacobianLoops
                 PROVE  TasksOf(p, F) \subseteq Nat /\ IsFiniteSet(TasksOf(p, F))
        OBVIOUS
    <2>1. TasksOf(p, F) \subseteq F
        BY <1>3
    <2>2. IsFiniteSet(TasksOf(p, F))
        BY <1>1, <2>1, FS_Subset
    <2> QED
        BY <1>1, <2>1, <2>2
<1>7. \A p \in Phases : p \in JacobianLoops \/ p \in {"residuals", "factors"} \/ p = "call"
    BY DEF Phases, JacobianLoops
<1>8. \A p \in Phases : TasksOf(p, F) \subseteq Nat /\ IsFiniteSet(TasksOf(p, F))
    BY <1>2, <1>4, <1>5, <1>6, <1>7
<1> QED
    BY <1>3, <1>4, <1>8

\* Where a free parameter lives, and which spectra it can move.
LEMMA ParametersLive ==
    ASSUME NEW F \in FreeSets, NEW j \in F
    PROVE  /\ j \in Nat /\ Moves(j) \subseteq Dataset
           /\ j >= ContBase => Moves(j) = {OwnerOf(j)} /\ OwnerOf(j) \in Dataset
           /\ j >= Stellar => Moves(j) = {OwnerOf(j)} /\ OwnerOf(j) \in Dataset
           /\ j < Stellar => Moves(j) = ParamDatasets(j) /\ j < ContBase
<1>1. j \in Nat /\ j \in Parameters
    BY Columns
<1>2. Stellar \in Nat /\ ContBase \in Nat /\ Stellar <= ContBase /\ Telluric \subseteq Dataset
    BY Blocks
<1>3. CASE j < Stellar
    <2>1. Moves(j) = ParamDatasets(j) /\ j < ContBase /\ ~(j >= Stellar) /\ ~(j >= ContBase)
        BY <1>1, <1>2, <1>3 DEF Moves
    <2> QED
        BY <1>1, <2>1 DEF ParamDatasets
<1>4. CASE ~(j < Stellar)
    <2>1. Moves(j) = {OwnerOf(j)}
        BY <1>4 DEF Moves
    <2>2. OwnerOf(j) \in Dataset
        BY <1>1, <1>2, <1>4, AnchorsOwned, TelluricsOwned
    <2> QED
        BY <1>1, <1>4, <2>1, <2>2
<1> QED
    BY <1>3, <1>4

\* The tasks of each loop are the parameters of its block.
LEMMA TaskKinds ==
    ASSUME NEW F \in FreeSets
    PROVE  /\ \A j \in TasksOf("anchors", F) : j \in F /\ j >= ContBase
           /\ \A j \in TasksOf("telluric", F) :
                  j \in F /\ ~(j >= ContBase) /\ Moves(j) = {OwnerOf(j)} /\ OwnerOf(j) \in Dataset
           /\ \A j \in TasksOf("stellar", F) :
                  j \in F /\ ~(j >= ContBase) /\ Moves(j) = ParamDatasets(j)
<1>1. Stellar \in Nat /\ ContBase \in Nat /\ F \subseteq Nat
    BY Blocks, Columns
<1>2. \A j \in TasksOf("anchors", F) : j \in F /\ j >= ContBase
    BY DEF TasksOf
<1>3. ASSUME NEW j \in TasksOf("telluric", F)
      PROVE  j \in F /\ ~(j >= ContBase) /\ Moves(j) = {OwnerOf(j)} /\ OwnerOf(j) \in Dataset
    <2>1. j \in F /\ \E d \in Telluric : j - TellOffset(d) \in TellSlots
        BY <1>3 DEF TasksOf
    <2>2. j >= Stellar /\ j < ContBase /\ j \in Nat
        BY <1>1, <2>1, TelluricBlock
    <2> QED
        BY <1>1, <2>1, <2>2, ParametersLive
<1>4. ASSUME NEW j \in TasksOf("stellar", F)
      PROVE  j \in F /\ ~(j >= ContBase) /\ Moves(j) = ParamDatasets(j)
    <2>1. j \in F /\ j < Stellar /\ j \in Nat
        BY <1>1, <1>4 DEF TasksOf
    <2>2. Moves(j) = ParamDatasets(j) /\ j < ContBase
        BY <2>1, ParametersLive
    <2> QED
        BY <1>1, <2>1, <2>2
<1> QED
    BY <1>2, <1>3, <1>4

\* A loop is dealt every one of its tasks.
LEMMA Deals ==
    ASSUME NEW F \in FreeSets, NEW p \in Phases
    PROVE  /\ Ascending(TasksOf(p, F)) \in Seq(TasksOf(p, F))
           /\ TasksOf(p, F) \subseteq ElementsOf(Ascending(TasksOf(p, F)))
<1> DEFINE S == TasksOf(p, F)
<1>1. S \subseteq Nat /\ IsFiniteSet(S)
    BY TasksMean
<1>2. S \in SUBSET Int
    BY <1>1
<1> HIDE DEF S
<1>3. /\ Ascending(S) \in Seq(S) /\ Len(Ascending(S)) = Cardinality(S)
      /\ \A x \in S : \E i \in 1..Cardinality(S) : Ascending(S)[i] = x
    BY <1>1, <1>2, AscendingLists
<1>4. S \subseteq ElementsOf(Ascending(S))
    BY <1>3 DEF ElementsOf
<1> QED
    BY <1>3, <1>4 DEF S

\* A column is dealt every spectrum it feeds.
LEMMA SpectraOf ==
    ASSUME NEW j
    PROVE  /\ Ascending(ParamDatasets(j)) \in Seq(Dataset)
           /\ ParamDatasets(j) \subseteq ElementsOf(Ascending(ParamDatasets(j)))
<1> DEFINE S == ParamDatasets(j)
<1>1. S \subseteq Dataset
    BY DEF ParamDatasets
<1>2. Len(Lambda) \in Nat /\ Dataset = 1..Len(Lambda)
    BY Layout
<1>3. IsFiniteSet(1..Len(Lambda)) /\ 1..Len(Lambda) \subseteq Int
    BY <1>2, FS_Interval
<1> HIDE DEF S
<1>4. IsFiniteSet(S)
    BY <1>1, <1>2, <1>3, FS_Subset
<1>5. S \in SUBSET Int
    BY <1>1, <1>2, <1>3
<1>6. /\ Ascending(S) \in Seq(S) /\ Len(Ascending(S)) = Cardinality(S)
      /\ \A x \in S : \E i \in 1..Cardinality(S) : Ascending(S)[i] = x
    BY <1>4, <1>5, AscendingLists
<1>7. S \subseteq ElementsOf(Ascending(S))
    BY <1>6 DEF ElementsOf
<1>8. Ascending(S) \in Seq(Dataset)
    BY <1>1, <1>6
<1> QED
    BY <1>7, <1>8 DEF S

\* A list without its head.
LEMMA HeadTail ==
    ASSUME NEW S, NEW l \in Seq(S), l # <<>>
    PROVE  /\ Head(l) \in S /\ Tail(l) \in Seq(S)
           /\ \A x : x \in ElementsOf(l) => x = Head(l) \/ x \in ElementsOf(Tail(l))
<1>1. Len(l) \in Nat /\ Len(l) # 0 /\ Head(l) = l[1] /\ Head(l) \in S /\ Tail(l) \in Seq(S)
    OBVIOUS
<1>2. Len(Tail(l)) = Len(l) - 1 /\ \A i \in 1..(Len(l) - 1) : Tail(l)[i] = l[i + 1]
    BY <1>1
<1>3. ASSUME NEW i \in 1..Len(l) PROVE l[i] = Head(l) \/ l[i] \in ElementsOf(Tail(l))
    <2>1. CASE i = 1
        BY <1>1, <2>1
    <2>2. CASE i # 1
        <3>1. i - 1 \in 1..(Len(l) - 1) /\ (i - 1) + 1 = i
            BY <1>1, <2>2
        <3>2. Tail(l)[i - 1] = l[i] /\ i - 1 \in 1..Len(Tail(l))
            BY <1>2, <3>1
        <3> QED
            BY <3>2 DEF ElementsOf
    <2> QED
        BY <2>1, <2>2
<1> QED
    BY <1>1, <1>3 DEF ElementsOf

-----------------------------------------------------------------------------
(* Filling a column.                                                       *)

SegmentsIn(J, c, D, r) ==
    {x \in J : ~(x[2] = c /\ \E d \in D : x[1] \in RowsOf(d))}
        \cup UNION {{<<i, c, r[i]>> : i \in RowsOf(d)} : d \in D}

\* A column of a parameter below the anchors, computed for all its rows.
LEMMA SegmentsFill ==
    ASSUME NEW F \in FreeSets, NEW J, CleanIn(J, F), NEW j \in F, ~(j >= ContBase),
           NEW r, \A d \in Moves(j) : \A i \in RowsOf(d) : r[i] = j
    PROVE  LET K == SegmentsIn(J, RankIn(j, F), Moves(j), r)
           IN  /\ CleanIn(K, F) /\ FullIn(K, F, j)
               /\ \A i \in F : FullIn(J, F, i) => FullIn(K, F, i)
<1> DEFINE c == RankIn(j, F)
           K == SegmentsIn(J, c, Moves(j), r)
<1>1. \A x \in K : x \in J \/ \E d \in Moves(j) : \E i \in RowsOf(d) : x = <<i, c, j>>
    BY DEF SegmentsIn
<1>2. \A d \in Moves(j) : \A i \in RowsOf(d) : <<i, c, j>> \in K
    <2> SUFFICES ASSUME NEW d \in Moves(j), NEW i \in RowsOf(d)
                 PROVE  <<i, c, j>> \in K
        OBVIOUS
    <2>1. <<i, c, r[i]>> \in K
        BY DEF SegmentsIn
    <2> QED
        BY <2>1
<1>3. \A x \in J : x[2] # c => x \in K
    BY DEF SegmentsIn
<1> HIDE DEF K
<1>4. CleanIn(K, F)
    <2> SUFFICES ASSUME NEW x \in K
                 PROVE  \E a \in F : \E d \in Moves(a) :
                            x = <<x[1], RankIn(a, F), a>> /\ x[1] \in RowsOf(d)
        BY DEF CleanIn
    <2>1. CASE x \in J
        BY <2>1 DEF CleanIn
    <2>2. ASSUME NEW d \in Moves(j), NEW i \in RowsOf(d), x = <<i, c, j>>
          PROVE  x = <<x[1], RankIn(j, F), j>> /\ x[1] \in RowsOf(d)
        BY <2>2
    <2> QED
        BY <1>1, <2>1, <2>2
<1>5. FullIn(K, F, j)
    BY <1>2 DEF FullIn
<1>6. ASSUME NEW i \in F, FullIn(J, F, i) PROVE FullIn(K, F, i)
    <2>1. CASE i = j
        BY <1>5, <2>1
    <2>2. CASE i # j
        <3>1. RankIn(i, F) # c
            BY <2>2, Columns
        <3>2. \A q : <<q, RankIn(i, F), i>> \in J => <<q, RankIn(i, F), i>> \in K
            BY <1>3, <3>1
        <3> QED
            BY <1>6, <3>2 DEF FullIn
    <2> QED
        BY <2>1, <2>2
<1> QED
    BY <1>4, <1>5, <1>6 DEF K

\* An anchor's column, computed in its window.
LEMMA AnchorFills ==
    ASSUME NEW F \in FreeSets, NEW J, CleanIn(J, F), NEW j \in F, j >= ContBase
    PROVE  LET d == OwnerOf(j)
               fit == AnchorPixels(d, j - ContOffset(d)) \cap Fitted[d]
               K == J \cup {<<RowOfPixel(d, i), RankIn(j, F), j>> : i \in fit}
           IN  /\ CleanIn(K, F) /\ FullIn(K, F, j)
               /\ \A i \in F : FullIn(J, F, i) => FullIn(K, F, i)
<1> DEFINE d == OwnerOf(j)
           fit == AnchorPixels(d, j - ContOffset(d)) \cap Fitted[d]
           K == J \cup {<<RowOfPixel(d, i), RankIn(j, F), j>> : i \in fit}
<1>0. d \in Dataset /\ d \in Moves(j)
    BY ParametersLive
<1>1. \A x \in K : x \in J \/ \E i \in Fitted[d] : x = <<RowOfPixel(d, i), RankIn(j, F), j>>
    OBVIOUS
<1>2. \A i \in fit : <<RowOfPixel(d, i), RankIn(j, F), j>> \in K
    OBVIOUS
<1>3. J \subseteq K
    OBVIOUS
<1> HIDE DEF K
<1>4. CleanIn(K, F)
    <2> SUFFICES ASSUME NEW x \in K
                 PROVE  \E a \in F : \E e \in Moves(a) :
                            x = <<x[1], RankIn(a, F), a>> /\ x[1] \in RowsOf(e)
        BY DEF CleanIn
    <2>1. CASE x \in J
        BY <2>1 DEF CleanIn
    <2>2. ASSUME NEW i \in Fitted[d], x = <<RowOfPixel(d, i), RankIn(j, F), j>>
          PROVE  x = <<x[1], RankIn(j, F), j>> /\ x[1] \in RowsOf(d)
        BY <1>0, <2>2, PixelsHaveRows
    <2> QED
        BY <1>0, <1>1, <2>1, <2>2
<1>5. FullIn(K, F, j)
    BY <1>2 DEF FullIn
<1>6. ASSUME NEW i \in F, FullIn(J, F, i) PROVE FullIn(K, F, i)
    BY <1>3, <1>6 DEF FullIn
<1> QED
    BY <1>4, <1>5, <1>6 DEF K

-----------------------------------------------------------------------------
(* The steps.                                                              *)

\* The tasks a loop is started with.
LEMMA TaskLists ==
    /\ AnchorTasks = TasksOf("anchors", free)
    /\ TellTasks = TasksOf("telluric", free)
    /\ StellarTasks = TasksOf("stellar", free)
<1> QED
    BY DEF AnchorTasks, TellTasks, StellarTasks, TasksOf

\* The whole matrix survives an extension that keeps each complete column.
LEMMA FullStays ==
    ASSUME NEW F \in FreeSets, NEW J, NEW K,
           \A i \in F : FullIn(J, F, i) => FullIn(K, F, i),
           NEW p \in JacobianLoops, AllFull(J, F, p)
    PROVE  AllFull(K, F, p)
<1> QED
    BY TasksMean DEF AllFull

\* A loop that is done, with nothing thrown, has left its columns complete.
LEMMA LoopFull ==
    ASSUME JInv, LoopDone, phase \in JacobianLoops, ~failed
    PROVE  AllFull(jac, free, phase)
<1>1. \A j : ~Taken(j)
    BY DEF LoopDone, Taken, Idle, ElementsOf
<1> QED
    BY <1>1 DEF JInv, Dealt, JacobianLoops, AllFull

\* The caller goes to a loop with its list of tasks, or out of the call.
LEMMA Enters ==
    ASSUME JInv, NEW p \in Phases,
           NEW tasks \in Seq(TasksOf(p, free)), TasksOf(p, free) \subseteq ElementsOf(tasks),
           Enter(p, tasks), UNCHANGED free, failed' \in BOOLEAN, jac' \in {jac, {}},
           scratch' \in [Thread -> [Rows -> Int]],
           outcome' \in {"none", "residuals", "returned", "threw", "died"},
           evaluation' \in 0..MaxEvaluations[free], Behind'
    PROVE  JInv'
<1>1. phase' = p /\ todo' = tasks /\ free' = free /\ \A t \in Thread : body'[t] = NoTask
    BY DEF Enter, Idle
<1>2. body' \in [Thread -> Bodies(p, free) \cup {NoTask}]
    BY DEF Enter, Idle
<1>3. JTyped'
    BY <1>1, <1>2 DEF JInv, JTyped
<1>4. Clean'
    BY <1>1 DEF JInv, Clean, CleanIn
<1>5. Written'
    BY <1>1 DEF Written, WrittenBy
<1>6. \A j \in TasksOf(p, free) : j \in ElementsOf(tasks)
    OBVIOUS
<1>7. Dealt'
    BY <1>1, <1>6 DEF Dealt, Taken
<1> QED
    BY <1>3, <1>4, <1>5, <1>7 DEF JInv

\* A thread takes the next iteration.
LEMMA BeginKeeps ==
    ASSUME JInv, NEW t \in Thread, Begins(t)
    PROVE  JInv'
<1> DEFINE h == Head(todo)
           left == CASE phase \in {"residuals", "factors"} -> <<Head(todo)>>
                     [] phase = "stellar" -> Ascending(ParamDatasets(Head(todo)))
                     [] OTHER -> <<>>
           b == [task |-> h, left |-> left]
<1>0. /\ todo # <<>> /\ body[t] = NoTask /\ todo' = Tail(todo) /\ body' = [body EXCEPT ![t] = b]
      /\ UNCHANGED <<free, phase, failed, jac, scratch, outcome, evaluation>>
    BY DEF Begins, calls
<1>1. /\ todo \in Seq(TasksOf(phase, free)) /\ free \in FreeSets /\ phase \in Phases
      /\ body \in [Thread -> Bodies(phase, free) \cup {NoTask}]
    BY DEF JInv, JTyped
<1>2. /\ h \in TasksOf(phase, free) /\ Tail(todo) \in Seq(TasksOf(phase, free))
      /\ \A x : x \in ElementsOf(todo) => x = h \/ x \in ElementsOf(Tail(todo))
    BY <1>0, <1>1, HeadTail
<1>3. left \in Seq(Dataset)
    <2>1. CASE phase \in {"residuals", "factors"}
        <3>1. h \in Dataset
            BY <1>1, <1>2, <2>1, TasksMean
        <3> QED
            BY <2>1, <3>1
    <2>2. CASE phase = "stellar"
        BY <2>2, SpectraOf
    <2>3. CASE phase \notin {"residuals", "factors", "stellar"}
        BY <2>3
    <2> QED
        BY <2>1, <2>2, <2>3
<1>4. phase = "stellar" => left = Ascending(ParamDatasets(h))
    OBVIOUS
<1> HIDE DEF h, left
<1>5. b \in Bodies(phase, free) /\ b # NoTask /\ b.task = h /\ b.left = left
    <2>1. h \in Nat
        BY <1>1, <1>2, TasksMean
    <2>2. b \in [task : Nat, left : Seq(Dataset)]
        BY <1>3, <2>1
    <2>3. b # NoTask
        BY <2>2, CostAssumption
    <2> QED
        BY <1>2, <1>3, <2>3 DEF Bodies
<1> HIDE DEF b
<1>6. /\ body' \in [Thread -> Bodies(phase, free) \cup {NoTask}]
      /\ body'[t] = b /\ \A u \in Thread \ {t} : body'[u] = body[u]
    BY <1>0, <1>1, <1>5
<1>7. JTyped'
    BY <1>0, <1>2, <1>6 DEF JInv, JTyped
<1>8. Clean' /\ Behind'
    BY <1>0 DEF JInv, Clean, Behind
<1>9. Written'
    <2>1. phase = "stellar" => WrittenBy(b, scratch[t])
        BY <1>4, <1>5, SpectraOf DEF WrittenBy
    <2>2. \A u \in Thread : phase = "stellar" => WrittenBy(body'[u], scratch[u])
        BY <1>6, <2>1 DEF JInv, Written
    <2> QED
        BY <1>0, <2>2 DEF Written
<1>10. \A j : Taken(j) => Taken(j)'
    <2> SUFFICES ASSUME NEW j, Taken(j) PROVE Taken(j)'
        OBVIOUS
    <2>1. CASE j \in ElementsOf(todo)
        BY <1>0, <1>2, <1>5, <1>6, <2>1 DEF Taken
    <2>2. ASSUME NEW u \in Thread, body[u] # NoTask, body[u].task = j PROVE Taken(j)'
        <3>1. u # t
            BY <1>0, <2>2
        <3> QED
            BY <1>6, <2>2, <3>1 DEF Taken
    <2> QED
        BY <2>1, <2>2 DEF Taken
<1>11. Dealt'
    BY <1>0, <1>10 DEF JInv, Dealt
<1> QED
    BY <1>7, <1>8, <1>9, <1>11 DEF JInv

\* After an exception the rest of the iterations is passed over.
LEMMA SkipKeeps ==
    ASSUME JInv, NEW t \in Thread, Skips(t)
    PROVE  JInv'
<1>0. /\ todo # <<>> /\ failed /\ todo' = Tail(todo)
      /\ UNCHANGED <<free, phase, body, failed, jac, scratch, outcome, evaluation>>
    BY DEF Skips, calls
<1>1. Tail(todo) \in Seq(TasksOf(phase, free))
    BY <1>0, HeadTail DEF JInv, JTyped
<1>2. JTyped'
    BY <1>0, <1>1 DEF JInv, JTyped
<1>3. Clean' /\ Written' /\ Behind'
    BY <1>0 DEF JInv, Clean, Written, Behind
<1>4. Dealt'
    BY <1>0 DEF Dealt
<1> QED
    BY <1>2, <1>3, <1>4 DEF JInv

\* One more spectrum of an iteration is computed.
LEMMA AdvanceKeeps ==
    ASSUME JInv, NEW t \in Thread, body[t] # NoTask, body[t].left # <<>>, Advances(t)
    PROVE  JInv'
<1> DEFINE b == body[t]
           c == [b EXCEPT !.left = Tail(@)]
<1>0. /\ body' = [body EXCEPT ![t].left = Tail(@)]
      /\ UNCHANGED <<free, phase, todo, failed, jac, outcome, evaluation>>
    BY DEF Advances, calls
<1>1. /\ free \in FreeSets /\ phase \in Phases /\ scratch \in [Thread -> [Rows -> Int]]
      /\ body \in [Thread -> Bodies(phase, free) \cup {NoTask}]
    BY DEF JInv, JTyped
<1>2. b \in Bodies(phase, free) /\ b.task \in TasksOf(phase, free) /\ b.left \in Seq(Dataset)
    BY <1>1 DEF Bodies
<1>3. /\ Head(b.left) \in Dataset /\ Tail(b.left) \in Seq(Dataset)
      /\ \A d : d \in ElementsOf(b.left) => d = Head(b.left) \/ d \in ElementsOf(Tail(b.left))
    BY <1>2, HeadTail
<1>4. b.task \in Nat
    BY <1>1, <1>2, TasksMean
<1>5. c \in Bodies(phase, free) /\ c.task = b.task /\ c.left = Tail(b.left) /\ c # NoTask
    <2>1. c \in Bodies(phase, free) /\ c.task = b.task /\ c.left = Tail(b.left)
        BY <1>2, <1>3 DEF Bodies
    <2>2. c \in [task : Nat, left : Seq(Dataset)]
        BY <1>2, <1>3, <1>4 DEF Bodies
    <2> QED
        BY <2>1, <2>2, CostAssumption
<1>6. /\ body' \in [Thread -> Bodies(phase, free) \cup {NoTask}]
      /\ body'[t] = c /\ \A u \in Thread \ {t} : body'[u] = body[u]
    BY <1>0, <1>1, <1>5
<1> DEFINE s == [r \in Rows |-> IF r \in RowsOf(Head(b.left)) THEN b.task ELSE scratch[t][r]]
<1>7. scratch' = IF phase = "stellar" THEN [scratch EXCEPT ![t] = s] ELSE scratch
    BY DEF Advances, calls
<1>8. s \in [Rows -> Int]
    BY <1>1, <1>4
<1>9. \A r \in Rows : s[r] = IF r \in RowsOf(Head(b.left)) THEN b.task ELSE scratch[t][r]
    OBVIOUS
<1> HIDE DEF b, c, s
<1>10. scratch' \in [Thread -> [Rows -> Int]]
    BY <1>1, <1>7, <1>8
<1>11. JTyped'
    BY <1>0, <1>6, <1>10 DEF JInv, JTyped
<1>12. Clean' /\ Behind'
    BY <1>0 DEF JInv, Clean, Behind
<1>13. Written'
    <2> SUFFICES ASSUME phase = "stellar", NEW u \in Thread
                 PROVE  WrittenBy(body'[u], scratch'[u])
        BY <1>0 DEF Written
    <2>1. CASE u # t
        <3>1. body'[u] = body[u] /\ scratch'[u] = scratch[u]
            BY <1>1, <1>6, <1>7, <2>1
        <3> QED
            BY <3>1 DEF JInv, Written
    <2>2. CASE u = t
        <3>1. body'[t] = c /\ scratch'[t] = s
            BY <1>1, <1>6, <1>7
        <3>2. WrittenBy(b, scratch[t]) /\ b # NoTask
            BY DEF JInv, Written, b
        <3>3. ASSUME NEW d \in ParamDatasets(b.task), d \notin ElementsOf(Tail(b.left)),
                     NEW r \in RowsOf(d)
              PROVE  s[r] = b.task
            <4>1. d \in Dataset /\ r \in Rows
                BY RowsAreNumbers DEF ParamDatasets
            <4>2. CASE d = Head(b.left)
                BY <1>9, <4>1, <4>2
            <4>3. CASE d # Head(b.left)
                <5>1. d \notin ElementsOf(b.left)
                    BY <1>3, <3>3, <4>3
                <5>2. scratch[t][r] = b.task
                    BY <3>2, <5>1 DEF WrittenBy
                <5> QED
                    BY <1>9, <4>1, <5>2
            <4> QED
                BY <4>2, <4>3
        <3>4. WrittenBy(c, s)
            BY <1>5, <3>3 DEF WrittenBy
        <3> QED
            BY <2>2, <3>1, <3>4
    <2> QED
        BY <2>1, <2>2
<1>14. \A j : Taken(j) => Taken(j)'
    <2> SUFFICES ASSUME NEW j, Taken(j) PROVE Taken(j)'
        OBVIOUS
    <2>1. CASE j \in ElementsOf(todo)
        BY <1>0, <2>1 DEF Taken
    <2>2. ASSUME NEW u \in Thread, body[u] # NoTask, body[u].task = j PROVE Taken(j)'
        <3>1. body'[u] # NoTask /\ body'[u].task = j
            BY <1>5, <1>6, <2>2 DEF b
        <3> QED
            BY <3>1 DEF Taken
    <2> QED
        BY <2>1, <2>2 DEF Taken
<1>15. Dealt'
    BY <1>0, <1>14 DEF JInv, Dealt
<1> QED
    BY <1>11, <1>12, <1>13, <1>15 DEF JInv

\* An exception leaves an iteration.
LEMMA EscapeKeeps ==
    ASSUME JInv, NEW t \in Thread, body[t] # NoTask, Escapes(t),
           UNCHANGED <<free, jac, scratch, evaluation>>
    PROVE  JInv'
<1>0. /\ free \in FreeSets /\ phase \in Phases /\ scratch \in [Thread -> [Rows -> Int]]
      /\ body \in [Thread -> Bodies(phase, free) \cup {NoTask}]
      /\ failed \in BOOLEAN /\ evaluation \in 0..MaxEvaluations[free]
    BY DEF JInv, JTyped
<1>1. CASE phase = "residuals" /\ Leave("threw") /\ UNCHANGED failed
    <2>1. phase' = "call" /\ outcome' = "threw" /\ Enter("call", <<>>)
        BY <1>1 DEF Leave, Enter
    <2>2. TasksOf("call", free) = {} /\ "call" \in Phases
        BY DEF TasksOf, Phases
    <2>3. Behind'
        BY <2>1 DEF Behind
    <2>4. <<>> \in Seq(TasksOf("call", free)) /\ TasksOf("call", free) \subseteq ElementsOf(<<>>)
        BY <2>2
    <2> QED
        BY <1>0, <1>1, <2>1, <2>2, <2>3, <2>4, Enters
<1>2. CASE phase = "anchors" /\ outcome' = "died" /\ UNCHANGED <<phase, todo, body, failed>>
    <2>1. JTyped'
        BY <1>2 DEF JInv, JTyped
    <2>2. Clean' /\ Written'
        BY <1>2 DEF JInv, Clean, Written
    <2>3. Dealt'
        BY <1>2 DEF JInv, Dealt, Taken
    <2>4. Behind'
        BY <1>2 DEF JInv, Behind
    <2> QED
        BY <2>1, <2>2, <2>3, <2>4 DEF JInv
<1>3. CASE /\ phase \in {"factors", "telluric", "stellar"}
           /\ failed' = TRUE /\ body' = [body EXCEPT ![t] = NoTask]
           /\ UNCHANGED <<phase, todo, outcome>>
    <2>0. /\ body' \in [Thread -> Bodies(phase, free) \cup {NoTask}]
          /\ body'[t] = NoTask /\ \A u \in Thread \ {t} : body'[u] = body[u]
        BY <1>0, <1>3
    <2>1. JTyped'
        BY <1>3, <2>0 DEF JInv, JTyped
    <2>2. Clean' /\ Dealt'
        BY <1>3 DEF JInv, Clean, Dealt
    <2>3. \A u \in Thread : phase = "stellar" => WrittenBy(body'[u], scratch[u])
        BY <2>0 DEF JInv, Written, WrittenBy
    <2>4. Written'
        BY <1>3, <2>3 DEF Written
    <2>5. Behind'
        BY <1>3 DEF JInv, Behind
    <2> QED
        BY <2>1, <2>2, <2>4, <2>5 DEF JInv
<1> QED
    BY <1>1, <1>2, <1>3 DEF Escapes

\* An iteration ends with its column complete and no other column touched.
LEMMA FinishKeeps ==
    ASSUME JInv, NEW t \in Thread, body[t] # NoTask,
           body' = [body EXCEPT ![t] = NoTask],
           UNCHANGED <<free, phase, todo, failed, outcome, evaluation>>,
           scratch' \in [Thread -> [Rows -> Int]], phase = "stellar" => scratch' = scratch,
           phase # "call", CleanIn(jac', free),
           \A i \in free : FullIn(jac, free, i) => FullIn(jac', free, i),
           phase \in JacobianLoops => FullIn(jac', free, body[t].task)
    PROVE  JInv'
<1>0. /\ free \in FreeSets /\ phase \in Phases
      /\ body \in [Thread -> Bodies(phase, free) \cup {NoTask}]
    BY DEF JInv, JTyped
<1>1. /\ body' \in [Thread -> Bodies(phase, free) \cup {NoTask}]
      /\ body'[t] = NoTask /\ \A u \in Thread \ {t} : body'[u] = body[u]
    BY <1>0
<1>2. JTyped'
    BY <1>1 DEF JInv, JTyped
<1>3. Clean'
    BY DEF Clean
<1>4. Written'
    <2>1. \A u \in Thread : phase = "stellar" => WrittenBy(body'[u], scratch'[u])
        BY <1>1 DEF JInv, Written, WrittenBy
    <2> QED
        BY <2>1 DEF Written
<1>5. \A p \in JacobianLoops : AllFull(jac, free, p) => AllFull(jac', free, p)
    BY <1>0, FullStays
<1>6. Behind'
    BY <1>5 DEF JInv, Behind, JacobianLoops
<1>7. Dealt'
    <2> SUFFICES ASSUME phase \in JacobianLoops, ~failed, NEW j \in TasksOf(phase, free)
                 PROVE  FullIn(jac', free, j) \/ Taken(j)'
        BY DEF Dealt, JacobianLoops
    <2>1. FullIn(jac, free, j) \/ Taken(j)
        BY DEF JInv, Dealt, JacobianLoops
    <2>2. j \in free
        BY <1>0, TasksMean
    <2>3. CASE FullIn(jac, free, j)
        BY <2>2, <2>3
    <2>4. CASE j \in ElementsOf(todo)
        BY <2>4 DEF Taken
    <2>5. ASSUME NEW u \in Thread, body[u] # NoTask, body[u].task = j
          PROVE  FullIn(jac', free, j) \/ Taken(j)'
        <3>1. CASE u = t
            BY <2>5, <3>1
        <3>2. CASE u # t
            BY <1>1, <2>5, <3>2 DEF Taken
        <3> QED
            BY <3>1, <3>2
    <2> QED
        BY <2>1, <2>3, <2>4, <2>5 DEF Taken
<1> QED
    BY <1>2, <1>3, <1>4, <1>6, <1>7 DEF JInv

\* An iteration ends.
LEMMA CompleteKeeps ==
    ASSUME JInv, NEW t \in Thread, Completes(t)
    PROVE  JInv'
<1> DEFINE j == body[t].task
<1>0. /\ free \in FreeSets /\ phase \in Phases /\ scratch \in [Thread -> [Rows -> Int]]
      /\ body \in [Thread -> Bodies(phase, free) \cup {NoTask}]
    BY DEF JInv, JTyped
<1>1. /\ body[t] # NoTask /\ phase # "call" /\ body[t].left = <<>>
      /\ body' = [body EXCEPT ![t] = NoTask]
      /\ UNCHANGED <<free, phase, todo, failed, outcome, evaluation>>
    BY DEF Completes, InBody, calls
<1>2. j \in TasksOf(phase, free)
    BY <1>0, <1>1 DEF Bodies
<1>3. CleanIn(jac, free)
    BY DEF JInv, Clean
<1>4. \A r : ColumnOf(r) = RankIn(r, free)
    BY DEF ColumnOf, RankIn
<1>5. CASE phase = "anchors"
    <2>1. j \in free /\ j >= ContBase
        BY <1>0, <1>2, <1>5, TaskKinds
    <2>2. LET d == OwnerOf(j)
              fit == AnchorPixels(d, j - ContOffset(d)) \cap Fitted[d]
          IN  jac' = jac \cup {<<RowOfPixel(d, i), RankIn(j, free), j>> : i \in fit}
        BY <1>4, <1>5 DEF Completes
    <2>3. CleanIn(jac', free) /\ FullIn(jac', free, j)
          /\ \A i \in free : FullIn(jac, free, i) => FullIn(jac', free, i)
        BY <1>0, <1>3, <2>1, <2>2, AnchorFills
    <2>4. scratch' = scratch
        BY <1>5 DEF Completes
    <2> QED
        BY <1>0, <1>1, <1>5, <2>3, <2>4, FinishKeeps
<1>6. CASE phase = "telluric"
    <2> DEFINE r == TelluricRows(j, scratch[t])
    <2>1. j \in free /\ ~(j >= ContBase) /\ Moves(j) = {OwnerOf(j)} /\ OwnerOf(j) \in Dataset
        BY <1>0, <1>2, <1>6, TaskKinds
    <2>2. \A d \in Moves(j) : \A i \in RowsOf(d) : r[i] = j
        <3>1. \A i \in RowsOf(OwnerOf(j)) : i \in Rows
            BY <2>1, RowsAreNumbers
        <3> QED
            BY <2>1, <3>1 DEF TelluricRows
    <2>3. jac' = SegmentsIn(jac, RankIn(j, free), Moves(j), r)
        BY <1>4, <1>6, <2>1 DEF Completes, Segments, SegmentsIn
    <2>5. r \in [Rows -> Int]
        <3>1. j \in Nat
            BY <1>0, <1>2, TasksMean
        <3> QED
            BY <1>0, <3>1 DEF TelluricRows
    <2>6. scratch' = [scratch EXCEPT ![t] = r]
        BY <1>6 DEF Completes
    <2> HIDE DEF r, j
    <2>4. CleanIn(jac', free) /\ FullIn(jac', free, j)
          /\ \A i \in free : FullIn(jac, free, i) => FullIn(jac', free, i)
        BY <1>0, <1>3, <2>1, <2>2, <2>3, SegmentsFill
    <2>7. scratch' \in [Thread -> [Rows -> Int]]
        BY <1>0, <2>5, <2>6
    <2>8. FullIn(jac', free, body[t].task)
        BY <2>4 DEF j
    <2> QED
        BY <1>0, <1>1, <1>6, <2>4, <2>7, <2>8, FinishKeeps
<1>7. CASE phase = "stellar"
    <2>1. j \in free /\ ~(j >= ContBase) /\ Moves(j) = ParamDatasets(j)
        BY <1>0, <1>2, <1>7, TaskKinds
    <2>2. \A d \in Moves(j) : \A i \in RowsOf(d) : scratch[t][i] = j
        <3>1. WrittenBy(body[t], scratch[t])
            BY <1>7 DEF JInv, Written
        <3>2. \A d : d \notin ElementsOf(body[t].left)
            BY <1>1 DEF ElementsOf
        <3> QED
            BY <1>1, <2>1, <3>1, <3>2 DEF WrittenBy
    <2>3. jac' = SegmentsIn(jac, RankIn(j, free), Moves(j), scratch[t])
        BY <1>4, <1>7, <2>1 DEF Completes, Segments, SegmentsIn
    <2>6. scratch' = scratch
        BY <1>7 DEF Completes
    <2> HIDE DEF j
    <2>4. CleanIn(jac', free) /\ FullIn(jac', free, j)
          /\ \A i \in free : FullIn(jac, free, i) => FullIn(jac', free, i)
        BY <1>0, <1>3, <2>1, <2>2, <2>3, SegmentsFill
    <2>8. FullIn(jac', free, body[t].task)
        BY <2>4 DEF j
    <2> QED
        BY <1>0, <1>1, <1>7, <2>4, <2>6, <2>8, FinishKeeps
<1>8. CASE phase \notin {"anchors", "telluric", "stellar"}
    <2>1. jac' = jac /\ scratch' = scratch
        BY <1>8 DEF Completes
    <2> QED
        BY <1>0, <1>1, <1>3, <1>8, <2>1, FinishKeeps DEF JacobianLoops
<1> QED
    BY <1>5, <1>6, <1>7, <1>8

\* The caller's own steps, from one loop to the next.
LEMMA LoopStepKeeps ==
    ASSUME JInv, LoopStep
    PROVE  JInv'
<1>0. /\ free \in FreeSets /\ phase \in Phases /\ failed \in BOOLEAN
      /\ scratch \in [Thread -> [Rows -> Int]]
      /\ outcome \in {"none", "residuals", "returned", "threw", "died"}
      /\ evaluation \in 0..MaxEvaluations[free]
    BY DEF JInv, JTyped
<1>1. \A p \in Phases : /\ Ascending(TasksOf(p, free)) \in Seq(TasksOf(p, free))
                        /\ TasksOf(p, free) \subseteq ElementsOf(Ascending(TasksOf(p, free)))
    BY <1>0, Deals
<1>2. <<>> \in Seq(TasksOf("call", free)) /\ TasksOf("call", free) \subseteq ElementsOf(<<>>)
    BY DEF TasksOf
<1>3. [t \in Thread |-> Nothing] \in [Thread -> [Rows -> Int]]
    BY DEF Nothing, Junk
<1>4. \A p \in {"call", "residuals", "factors", "anchors", "telluric", "stellar"} : p \in Phases
    BY DEF Phases
<1>5. CASE ReturnResiduals
    <2>1. phase' = "call" /\ outcome' = "residuals" /\ Enter("call", <<>>)
          /\ UNCHANGED <<free, failed, jac, scratch, evaluation>>
        BY <1>5 DEF ReturnResiduals, Leave, Enter, calls
    <2>2. Behind'
        BY <2>1 DEF Behind
    <2> QED
        BY <1>0, <1>2, <1>4, <2>1, <2>2, Enters
<1>6. CASE StartFactors
    <2>1. /\ phase' = "factors" /\ Enter("factors", Ascending(TasksOf("factors", free)))
          /\ failed' = FALSE /\ jac' = {} /\ UNCHANGED <<free, scratch, outcome, evaluation>>
          /\ phase = "residuals"
        BY <1>0, <1>6, TasksMean DEF StartFactors, Enter, calls
    <2>2. Behind'
        BY <2>1 DEF JInv, Behind
    <2> QED
        BY <1>0, <1>1, <1>4, <2>1, <2>2, Enters
<1>7. CASE Rethrows
    <2>1. phase' = "call" /\ outcome' = "threw" /\ Enter("call", <<>>)
          /\ UNCHANGED <<free, failed, jac, scratch, evaluation>>
        BY <1>7 DEF Rethrows, Leave, Enter, calls
    <2>2. Behind'
        BY <2>1 DEF Behind
    <2> QED
        BY <1>0, <1>2, <1>4, <2>1, <2>2, Enters
<1>8. CASE StartAnchors
    <2>1. /\ phase' = "anchors" /\ Enter("anchors", Ascending(TasksOf("anchors", free)))
          /\ ~failed /\ UNCHANGED <<free, failed, jac, scratch, outcome, evaluation>>
          /\ phase = "factors"
        BY <1>8, TaskLists DEF StartAnchors, Enter, calls
    <2>2. Behind'
        BY <2>1 DEF JInv, Behind
    <2> QED
        BY <1>0, <1>1, <1>4, <2>1, <2>2, Enters
<1>9. CASE StartTelluric
    <2>1. /\ phase' = "telluric" /\ Enter("telluric", Ascending(TasksOf("telluric", free)))
          /\ scratch' = [t \in Thread |-> Nothing]
          /\ UNCHANGED <<free, failed, jac, outcome, evaluation>>
          /\ phase = "anchors" /\ LoopDone
        BY <1>9, TaskLists DEF StartTelluric, Enter, Scrap, calls
    <2>2. AllFull(jac, free, "anchors")
        BY <2>1, LoopFull DEF JInv, Behind, JacobianLoops
    <2>3. Behind'
        BY <2>1, <2>2 DEF JInv, Behind
    <2> QED
        BY <1>0, <1>1, <1>3, <1>4, <2>1, <2>3, Enters
<1>10. CASE StartStellar
    <2>1. /\ phase' = "stellar" /\ Enter("stellar", Ascending(TasksOf("stellar", free)))
          /\ scratch' = [t \in Thread |-> Nothing]
          /\ UNCHANGED <<free, failed, jac, outcome, evaluation>>
          /\ phase = "telluric" /\ LoopDone /\ ~failed
        BY <1>10, TaskLists DEF StartStellar, Enter, Scrap, calls
    <2>2. AllFull(jac, free, "telluric")
        BY <2>1, LoopFull DEF JacobianLoops
    <2>3. Behind'
        BY <2>1, <2>2 DEF JInv, Behind
    <2> QED
        BY <1>0, <1>1, <1>3, <1>4, <2>1, <2>3, Enters
<1>11. CASE Return
    <2>1. /\ phase' = "call" /\ outcome' = "returned" /\ Enter("call", <<>>)
          /\ scratch' = [t \in Thread |-> Nothing]
          /\ UNCHANGED <<free, failed, jac, evaluation>>
          /\ phase = "stellar" /\ LoopDone /\ ~failed
        BY <1>11 DEF Return, Leave, Enter, Scrap, calls
    <2>2. AllFull(jac, free, "stellar")
        BY <2>1, LoopFull DEF JacobianLoops
    <2>3. Behind'
        BY <2>1, <2>2 DEF JInv, Behind
    <2> QED
        BY <1>0, <1>2, <1>3, <1>4, <2>1, <2>3, Enters
<1>12. CASE SerialFails
    <2>1. phase' = "call" /\ outcome' = "threw" /\ Enter("call", <<>>)
          /\ UNCHANGED <<free, failed, jac, scratch, evaluation>>
        BY <1>12 DEF SerialFails, Leave, Enter, calls
    <2>2. Behind'
        BY <2>1 DEF Behind
    <2> QED
        BY <1>0, <1>2, <1>4, <2>1, <2>2, Enters
<1> QED
    BY <1>5, <1>6, <1>7, <1>8, <1>9, <1>10, <1>11, <1>12 DEF LoopStep

\* The solver asks for a point.
LEMMA EvaluateKeeps ==
    ASSUME JInv, throws \in Nat, Evaluate
    PROVE  JInv'
<1>0. /\ free \in FreeSets /\ scratch \in [Thread -> [Rows -> Int]]
      /\ evaluation \in 0..MaxEvaluations[free]
    BY DEF JInv, JTyped
<1>1. PICK p \in {"residuals", "factors"} : phase' = p /\ Enter(p, Ascending(TasksOf(p, free)))
    BY <1>0, TasksMean DEF Evaluate, Enter
<1>2. /\ failed' = FALSE /\ jac' \in {jac, {}} /\ outcome' = "none"
      /\ UNCHANGED <<free, scratch>>
      /\ evaluation' = evaluation + 1 /\ evaluation + throws < MaxEvaluations[free]
    BY DEF Evaluate
<1>3. MaxEvaluations[free] \in Nat
    BY <1>0, CostAssumption
<1>4. evaluation' \in 0..MaxEvaluations[free]
    BY <1>0, <1>2, <1>3
<1>5. Behind'
    BY <1>1, <1>2 DEF Behind
<1>6. p \in Phases
    BY DEF Phases
<1>7. /\ Ascending(TasksOf(p, free)) \in Seq(TasksOf(p, free))
      /\ TasksOf(p, free) \subseteq ElementsOf(Ascending(TasksOf(p, free)))
    BY <1>0, <1>6, Deals
<1> QED
    BY <1>0, <1>1, <1>2, <1>4, <1>5, <1>6, <1>7, Enters

\* Before the first call there is no matrix.
LEMMA MatrixInitially == Init => JInv
<1> SUFFICES ASSUME Init
             PROVE  JInv
  OBVIOUS
<1>1. /\ free \in FreeSets /\ phase = "call" /\ todo = <<>> /\ body = [t \in Thread |-> NoTask]
      /\ failed = FALSE /\ jac = {} /\ scratch = [t \in Thread |-> Nothing]
      /\ outcome = "none" /\ evaluation = 0
  BY DEF Init, Idle
<1>2. MaxEvaluations[free] \in Nat
  BY <1>1, CostAssumption
<1>3. scratch \in [Thread -> [Rows -> Int]]
  BY <1>1 DEF Nothing, Junk
<1>4. JTyped
  <2>1. todo \in Seq(TasksOf(phase, free)) /\ evaluation \in 0..MaxEvaluations[free]
    BY <1>1, <1>2
  <2>2. body \in [Thread -> Bodies(phase, free) \cup {NoTask}]
    BY <1>1
  <2> QED
    BY <1>1, <1>3, <2>1, <2>2 DEF JTyped, Phases
<1> QED
  BY <1>1, <1>4 DEF JInv, Clean, CleanIn, Written, Dealt, Behind

\* A step that leaves the iterations alone and puts nobody into a call.
LEMMA InsideStays ==
    ASSUME Inside, UNCHANGED <<phase, body>>,
           \A t \in Thread : pc'[t] # "out" => pc[t] # "out"
    PROVE  Inside'
<1> QED
  BY DEF Inside

\* Every step of a call begins and ends inside it.
LEMMA CallsStayInside ==
    ASSUME NEW t \in Thread, Typed, CallStep(t)
    PROVE  \A u \in Thread : pc'[u] # "out" => pc[u] # "out"
<1>1. pc \in [Thread -> Places]
  BY DEF Typed
<1>2. CASE FindsIt(t) \/ ClaimsIt(t) \/ Sleeps(t) \/ Puts(t) \/ Corrupts(t)
          \/ BuildThrows(t) \/ BuildDies(t)
  BY <1>1, <1>2 DEF FindsIt, ClaimsIt, Sleeps, Puts, Corrupts, BuildThrows, BuildDies, Goes
<1>3. CASE ClearsMarker(t) \/ Publishes(t) \/ Unwinds(t)
  BY <1>1, <1>3 DEF ClearsMarker, Publishes, Unwinds, WakesAll
<1>4. CASE InsertThrows(t)
  BY <1>1, <1>4 DEF InsertThrows, WakesAll, Goes
<1> QED
  BY <1>2, <1>3, <1>4 DEF CallStep

\* A thread that works stays inside its iteration.
LEMMA InsideKept == Typed /\ JTyped /\ Inside /\ [Next]_vars => Inside'
<1> SUFFICES ASSUME Typed, JTyped, Inside, [Next]_vars
             PROVE  Inside'
  OBVIOUS
<1>0. /\ pc \in [Thread -> Places] /\ DOMAIN body = Thread /\ Master \in Thread
      /\ free \in FreeSets /\ phase \in Phases
      /\ body \in [Thread -> Bodies(phase, free) \cup {NoTask}]
  BY CostAssumption DEF Typed, JTyped
<1>1. CASE UNCHANGED <<phase, body, pc>>
  BY <1>1 DEF Inside
<1>2. ASSUME LoopDone, body' = Idle, UNCHANGED pc
      PROVE  Inside'
  BY <1>2 DEF LoopDone, Inside, Idle
<1>3. CASE Evaluate
  BY <1>3 DEF Evaluate, Enter, wvars, Inside, Idle
<1>4. CASE LoopStep
  BY <1>2, <1>4 DEF LoopStep, ReturnResiduals, StartFactors, Rethrows, StartAnchors,
     SerialFails, StartTelluric, StartStellar, Return, Leave, Enter, wvars
<1>5. ASSUME NEW t \in Thread, Works(t) PROVE Inside'
  <2>1. CASE Begins(t)
    <3>1. pc' = pc /\ phase' = phase /\ body[t] = NoTask /\ phase # "call"
      <4>1. todo = <<>> \/ phase # "call"
        BY <1>0, HeadTail DEF JTyped, TasksOf
      <4> QED
        BY <2>1, <4>1 DEF Begins, wvars
    <3>2. \A u \in Thread \ {t} : body'[u] = body[u]
      BY <1>0, <2>1 DEF Begins
    <3>3. phase = "residuals" => t = Master
      BY <2>1 DEF Begins
    <3> QED
      BY <3>1, <3>2, <3>3 DEF Inside
  <2>2. CASE Skips(t)
    BY <1>1, <2>2 DEF Skips, wvars
  <2>3. CASE Asks(t)
    <3>1. body[t] # NoTask /\ body[t].left # <<>> /\ UNCHANGED <<phase, body>>
      BY <2>3 DEF Asks, InBody, jvars
    <3>2. \A u \in Thread \ {t} : pc'[u] = pc[u]
      BY <1>0, <2>3 DEF Asks, AskFor, Goes
    <3> QED
      BY <3>1, <3>2 DEF Inside
  <2>4. ASSUME InBody(t), Advances(t), pc'[t] = "out", \A u \in Thread \ {t} : pc'[u] = pc[u]
        PROVE  Inside'
    <3>1. body[t] # NoTask /\ phase # "call" /\ phase' = phase
      BY <2>4 DEF InBody, Advances
    <3>2. \A u \in Thread \ {t} : body'[u] = body[u]
      BY <1>0, <2>4 DEF Advances
    <3>3. phase = "residuals" => t = Master
      BY <3>1 DEF Inside
    <3> QED
      BY <2>4, <3>1, <3>2, <3>3 DEF Inside
  <2>5. CASE FromSpectrumCache(t)
    BY <2>4, <2>5 DEF FromSpectrumCache, wvars
  <2>6. ASSUME Take(t) PROVE pc'[t] = "out" /\ \A u \in Thread \ {t} : pc'[u] = pc[u]
    BY <1>0, <2>6 DEF Take, Goes
  <2>7. CASE GetsTable(t)
    BY <2>4, <2>6, <2>7 DEF GetsTable
  <2>8. ASSUME InBody(t), Escapes(t), pc'[t] = "out", \A u \in Thread \ {t} : pc'[u] = pc[u]
        PROVE  Inside'
    <3>0. body[t] # NoTask /\ phase # "call"
      BY <2>8 DEF InBody
    <3>1. CASE phase = "residuals" /\ Leave("threw")
      <4>1. body' = Idle /\ phase' = "call" /\ t = Master
        BY <3>0, <3>1 DEF Leave, Enter, Inside
      <4>2. \A u \in Thread : pc'[u] = "out"
        BY <2>8, <3>1, <4>1 DEF Inside
      <4> QED
        BY <4>1, <4>2 DEF Inside, Idle
    <3>2. CASE UNCHANGED <<phase, body>>
      BY <2>8, <3>2, InsideStays
    <3>3. CASE body' = [body EXCEPT ![t] = NoTask] /\ UNCHANGED phase
      <4>1. body'[t] = NoTask /\ \A u \in Thread \ {t} : body'[u] = body[u]
        BY <1>0, <3>3
      <4> QED
        BY <2>8, <3>3, <4>1 DEF Inside
    <3> QED
      BY <2>8, <3>1, <3>2, <3>3 DEF Escapes
  <2>9. CASE TableFails(t)
    BY <2>6, <2>8, <2>9 DEF TableFails
  <2>10. CASE Fails(t)
    BY <2>8, <2>10 DEF Fails
  <2>11. CASE Completes(t)
    <3>1. /\ pc' = pc /\ pc[t] = "out" /\ phase' = phase
          /\ body' = [body EXCEPT ![t] = NoTask]
      BY <2>11 DEF Completes, wvars
    <3>2. body'[t] = NoTask /\ \A u \in Thread \ {t} : body'[u] = body[u]
      BY <1>0, <3>1
    <3> QED
      BY <3>1, <3>2 DEF Inside
  <2>12. CASE InCaches(t)
    BY <2>12, CallsStayInside, InsideStays DEF InCaches, jvars
  <2>13. CASE ScratchFails(t)
    BY <1>1, <2>13 DEF ScratchFails
  <2> QED
    BY <1>5, <2>1, <2>2, <2>3, <2>5, <2>7, <2>9, <2>10, <2>11, <2>12, <2>13 DEF Works
<1>6. CASE Meanwhile
  <2>1. UNCHANGED <<phase, body>>
    BY <1>6 DEF Meanwhile, jvars
  <2>2. \A u \in Thread : pc'[u] # "out" => pc[u] # "out"
    BY <1>0, <1>6 DEF Meanwhile, LimitMoves, WakesAlone, Goes
  <2> QED
    BY <2>1, <2>2, InsideStays
<1>7. CASE UNCHANGED vars
  BY <1>1, <1>7 DEF vars, wvars, jvars
<1> QED
  BY <1>3, <1>4, <1>5, <1>6, <1>7 DEF Next

\* Every step keeps the invariant.
LEMMA MatrixKept == EInv /\ JInv /\ Inside /\ [Next]_vars => JInv'
<1> SUFFICES ASSUME EInv, JInv, Inside, [Next]_vars
             PROVE  JInv'
  OBVIOUS
<1>1. CASE UNCHANGED jvars
  BY <1>1 DEF jvars, calls, JInv, JTyped, Clean, Written, Dealt, Taken, Behind
<1>2. CASE Evaluate
  BY <1>2, EvaluateKeeps DEF EInv, Inv, Typed
<1>3. CASE LoopStep
  BY <1>3, LoopStepKeeps
<1>4. ASSUME NEW t \in Thread, Works(t) PROVE JInv'
  <2>1. CASE Begins(t)
    BY <2>1, BeginKeeps
  <2>2. CASE Skips(t)
    BY <2>2, SkipKeeps
  <2>3. CASE Asks(t) \/ InCaches(t)
    BY <1>1, <2>3 DEF Asks, InCaches
  <2>4. CASE FromSpectrumCache(t)
    BY <2>4, AdvanceKeeps DEF FromSpectrumCache, InBody
  <2>5. CASE GetsTable(t)
    <3>1. pc[t] = "ready" /\ InBody(t) /\ Advances(t)
      BY <2>5 DEF GetsTable
    <3>2. body[t].left # <<>> /\ body[t] # NoTask
      BY <3>1 DEF Inside
    <3> QED
      BY <3>1, <3>2, AdvanceKeeps
  <2>6. CASE TableFails(t) \/ Fails(t)
    BY <2>6, EscapeKeeps DEF TableFails, Fails, InBody, calls
  <2>7. CASE Completes(t)
    BY <2>7, CompleteKeeps
  <2>8. CASE ScratchFails(t)
    BY <2>8 DEF ScratchFails, calls, JInv, JTyped, Clean, Written, Dealt, Taken, Behind
  <2> QED
    BY <1>4, <2>1, <2>2, <2>3, <2>4, <2>5, <2>6, <2>7, <2>8 DEF Works
<1>5. CASE Meanwhile \/ UNCHANGED vars
  BY <1>1, <1>5 DEF Meanwhile, vars
<1> QED
  BY <1>2, <1>3, <1>4, <1>5 DEF Next

-----------------------------------------------------------------------------
(* What becomes of an exception.                                           *)

\* A thread has an exception in its hands.
Raising == \E t \in Thread : pc[t] \in {"raise", "failed"}

\* An exception, or keys that are taken for one another.
Blame == throws > 0 \/ (table # "rot" /\ \E k \in Key : Alike(k) # {k})

\* Whatever was thrown in this call is in a thread's hands or kept by run(), and
\* whatever is kept or in a thread's hands was thrown in this call.
Kept ==
    /\ before \in Nat /\ before <= throws
    /\ phase # "call" => outcome \in {"none", "died"}
    /\ phase \in {"residuals", "anchors"} => ~failed
    /\ phase # "call" /\ failed => throws > before
    /\ Raising => throws > before
    /\ phase # "call" /\ Alive /\ throws > before => failed \/ Raising

Answered == Kept /\ FailuresAnswered

\* What a step inside a call does to the exceptions: nothing; or one comes up and
\* is in a thread's hands; or the process ends, and not without a cause.
LEMMA CallRaises ==
    ASSUME NEW t \in Thread, EInv, CallStep(t)
    PROVE  /\ table' = table
           /\ \/ /\ throws' = throws /\ (Raising' <=> Raising)
                 /\ \A u \in Thread : pc'[u] = "fatal" <=> pc[u] = "fatal"
              \/ /\ throws' = throws + 1 /\ Raising'
                 /\ \A u \in Thread : pc'[u] = "fatal" <=> pc[u] = "fatal"
              \/ /\ throws' \in {throws, throws + 1} /\ (Raising' <=> Raising)
                 /\ pc'[t] = "fatal" /\ Blame'
<1>0. pc \in [Thread -> Places] /\ throws \in Nat
    BY DEF EInv, Inv, Typed
<1>1. CASE FindsIt(t) \/ ClaimsIt(t) \/ Sleeps(t) \/ Puts(t)
    BY <1>0, <1>1 DEF FindsIt, ClaimsIt, Sleeps, Puts, Goes, Raising
<1>2. CASE ClearsMarker(t) \/ Publishes(t) \/ Unwinds(t)
    <2>1. table' = table /\ throws' = throws
        BY <1>2 DEF ClearsMarker, Publishes, Unwinds
    <2>2. \A u \in Thread : pc'[u] = "fatal" <=> pc[u] = "fatal"
        BY <1>0, <1>2 DEF ClearsMarker, Publishes, Unwinds, WakesAll
    <2>3. \A u \in Thread : pc'[u] \in {"raise", "failed"} <=> pc[u] \in {"raise", "failed"}
        BY <1>0, <1>2 DEF ClearsMarker, Publishes, Unwinds, WakesAll
    <2> QED
        BY <2>1, <2>2, <2>3 DEF Raising
<1>3. CASE Corrupts(t)
    <2>1. want[t] \in Key /\ PopsEmptyList(want[t])
        BY <1>3 DEF EInv, Inv, Typed, Corrupts
    <2>2. Blame
        BY <2>1, EmptyListBlamed DEF Blame
    <2>3. table' = table /\ throws' = throws /\ pc'[t] = "fatal"
        BY <1>0, <1>3 DEF Corrupts, Goes
    <2>4. Raising' <=> Raising
        BY <1>0, <1>3 DEF Corrupts, Goes, Raising
    <2> QED
        BY <2>2, <2>3, <2>4 DEF Blame, Alike
<1>4. CASE BuildThrows(t)
    BY <1>0, <1>4 DEF BuildThrows, Goes, Raising
<1>5. CASE BuildDies(t)
    <2>1. table' = table /\ throws' = throws + 1 /\ pc'[t] = "fatal"
        BY <1>0, <1>5 DEF BuildDies, Goes
    <2>2. Raising' <=> Raising
        BY <1>0, <1>5 DEF BuildDies, Goes, Raising
    <2> QED
        BY <1>0, <2>1, <2>2 DEF Blame
<1>6. CASE InsertThrows(t)
    <2>1. table' = table /\ throws' = throws + 1
        BY <1>6 DEF InsertThrows
    <2>2. \A u \in Thread : pc'[u] = "fatal" <=> pc[u] = "fatal"
        BY <1>0, <1>6 DEF InsertThrows, WakesAll, Goes
    <2>3. pc'[t] \in {"raise", "failed"}
        BY <1>0, <1>6 DEF InsertThrows, WakesAll, Goes
    <2> QED
        BY <2>1, <2>2, <2>3 DEF Raising
<1> QED
    BY <1>1, <1>2, <1>3, <1>4, <1>5, <1>6 DEF CallStep

\* Outside the iterations no thread has an exception in its hands, so what was
\* thrown in this call has been kept.
LEMMA NothingInHands ==
    ASSUME Inside, phase = "call" \/ LoopDone
    PROVE  ~Raising /\ \A t \in Thread : pc[t] = "out"
<1>1. \A t \in Thread : body[t] = NoTask
    BY DEF Inside, LoopDone, Idle
<1>2. \A t \in Thread : pc[t] = "out"
    BY <1>1 DEF Inside
<1> QED
    BY <1>2 DEF Raising

LEMMA NothingThrown ==
    ASSUME Inside, Kept, throws \in Nat, LoopDone, phase # "call", ~failed
    PROVE  throws = before
<1>1. ~Raising /\ Alive
    BY NothingInHands DEF LoopDone
<1>2. ~(throws > before)
    BY <1>1 DEF Kept
<1> QED
    BY <1>2 DEF Kept

\* Every step answers for its exception.
LEMMA AnsweredKept ==
    EInv /\ JInv /\ Inside /\ Answered /\ [Next]_vars => Answered'
<1> SUFFICES ASSUME EInv, JInv, Inside, Answered, [Next]_vars
             PROVE  Answered'
    OBVIOUS
<1>0. /\ throws \in Nat /\ pc \in [Thread -> Places] /\ failed \in BOOLEAN
      /\ before \in Nat /\ before <= throws
    BY DEF EInv, Inv, Typed, JInv, JTyped, Answered, Kept
<1>1. Blame /\ table' = table /\ throws' \in {throws, throws + 1} => Blame'
    BY <1>0 DEF Blame, Alike
<1>2. FailuresAnswered <=> /\ outcome \in {"residuals", "returned"} => throws = before
                           /\ outcome = "threw" => throws > before
                           /\ ~Alive => Blame
    BY DEF FailuresAnswered, Blame
<1>3. FailuresAnswered' <=> /\ outcome' \in {"residuals", "returned"} => throws' = before'
                            /\ outcome' = "threw" => throws' > before'
                            /\ ~Alive' => Blame'
    BY DEF FailuresAnswered, Blame
<1>4. ASSUME UNCHANGED <<table, throws, phase, outcome, failed, before>>, Raising' <=> Raising,
             \A u \in Thread : pc'[u] = "fatal" <=> pc[u] = "fatal"
      PROVE  Answered'
    <2>1. Alive' <=> Alive
        BY <1>4 DEF Alive
    <2>2. Blame' <=> Blame
        BY <1>4 DEF Blame, Alike
    <2>3. Kept'
        BY <1>0, <1>4, <2>1 DEF Answered, Kept
    <2> QED
        BY <1>2, <1>3, <1>4, <2>1, <2>2, <2>3 DEF Answered
<1>5. ASSUME UNCHANGED <<table, throws, phase, outcome, failed, before, pc>> PROVE Answered'
    BY <1>4, <1>5 DEF Raising
<1>6. ASSUME phase # "call", Alive, throws' = throws + 1, Raising' \/ failed',
             phase \in {"residuals", "anchors"} => ~failed',
             UNCHANGED <<table, phase, outcome, before>>,
             \A u \in Thread : pc'[u] = "fatal" <=> pc[u] = "fatal"
      PROVE  Answered'
    <2>1. outcome' \in {"none", "died"} /\ throws' > before' /\ before' \in Nat
        BY <1>0, <1>6 DEF Answered, Kept
    <2>2. Alive'
        BY <1>6 DEF Alive
    <2>3. Kept'
        BY <1>0, <1>6, <2>1 DEF Kept
    <2> QED
        BY <1>3, <2>1, <2>2, <2>3 DEF Answered
<1>7. ASSUME phase # "call", throws' \in {throws, throws + 1}, Raising' => Raising, ~Alive', Blame',
             outcome' \in {outcome, "died"}, UNCHANGED <<table, phase, failed, before>>
      PROVE  Answered'
    <2>1. outcome' \in {"none", "died"}
        BY <1>7 DEF Answered, Kept
    <2>2. Kept'
        BY <1>0, <1>7, <2>1 DEF Answered, Kept
    <2> QED
        BY <1>3, <1>7, <2>1, <2>2 DEF Answered
<1>8. ASSUME phase' = "call", before' = before, \A u \in Thread : pc'[u] = "out",
             \/ outcome' \in {"residuals", "returned"} /\ throws' = before
             \/ outcome' = "threw" /\ throws' \in {throws, throws + 1} /\ throws' > before
      PROVE  Answered'
    <2>1. ~Raising' /\ Alive'
        BY <1>8 DEF Raising, Alive
    <2>2. before' <= throws' /\ throws' \in Nat
        BY <1>0, <1>8
    <2>3. Kept'
        BY <1>0, <1>8, <2>1, <2>2 DEF Kept
    <2> QED
        BY <1>3, <1>8, <2>1, <2>2, <2>3 DEF Answered
<1>9. CASE Evaluate
    <2>1. ~Raising /\ \A t \in Thread : pc[t] = "out"
        BY <1>9, NothingInHands DEF Evaluate
    <2>2. /\ pc' = pc /\ throws' = throws /\ before' = throws /\ failed' = FALSE
          /\ outcome' = "none"
        BY <1>9 DEF Evaluate, wvars
    <2>3. ~Raising' /\ Alive'
        BY <2>1, <2>2 DEF Raising, Alive
    <2>4. Kept'
        BY <1>0, <2>2, <2>3 DEF Kept
    <2> QED
        BY <1>3, <2>2, <2>3, <2>4 DEF Answered
<1>10. CASE LoopStep
    <2>0. LoopDone /\ phase # "call" /\ Alive
        BY <1>10 DEF LoopStep, ReturnResiduals, StartFactors, Rethrows, SerialFails, StartAnchors,
           StartTelluric, StartStellar, Return, LoopDone
    <2>1. ~Raising /\ (\A t \in Thread : pc[t] = "out") /\ UNCHANGED <<table, pc, before>>
        BY <1>10, <2>0, NothingInHands DEF LoopStep, ReturnResiduals, StartFactors, Rethrows,
           SerialFails, StartAnchors, StartTelluric, StartStellar, Return, wvars, calls
    <2>2. CASE ReturnResiduals \/ Return
        <3>1. ~failed
            BY <2>2 DEF ReturnResiduals, Return, Answered, Kept
        <3>2. throws = before
            BY <1>0, <2>0, <3>1, NothingThrown DEF Answered
        <3> QED
            BY <1>8, <2>1, <2>2, <3>2 DEF ReturnResiduals, Return, Leave, Enter, wvars
    <2>3. CASE Rethrows
        <3>1. throws > before
            BY <2>0, <2>3 DEF Rethrows, Answered, Kept
        <3> QED
            BY <1>8, <2>1, <2>3, <3>1 DEF Rethrows, Leave, Enter, wvars
    <2>4. CASE SerialFails
        <3>1. throws' = throws + 1 /\ throws' > before
            BY <1>0, <2>4 DEF SerialFails
        <3> QED
            BY <1>8, <2>1, <2>4, <3>1 DEF SerialFails, Leave, Enter
    <2>5. CASE StartFactors \/ StartAnchors \/ StartTelluric \/ StartStellar
        <3>1. ~failed
            BY <2>5 DEF StartFactors, StartAnchors, StartTelluric, StartStellar, Answered, Kept
        <3>2. throws = before
            BY <1>0, <2>0, <3>1, NothingThrown DEF Answered
        <3>3. phase' # "call" /\ ~failed' /\ UNCHANGED <<throws, outcome>>
            BY <2>5, <3>1 DEF StartFactors, StartAnchors, StartTelluric, StartStellar, Enter, wvars
        <3>4. ~Raising' /\ (Alive' <=> Alive) /\ (Blame' <=> Blame)
            BY <2>1, <3>3 DEF Raising, Alive, Blame, Alike
        <3>5. outcome \in {"none", "died"}
            BY <2>0 DEF Answered, Kept
        <3>6. Kept'
            BY <1>0, <2>1, <3>2, <3>3, <3>4, <3>5 DEF Kept
        <3> QED
            BY <1>2, <1>3, <2>0, <2>1, <3>3, <3>4, <3>5, <3>6 DEF Answered
    <2> QED
        BY <1>10, <2>2, <2>3, <2>4, <2>5 DEF LoopStep
<1>11. ASSUME NEW t \in Thread, Works(t) PROVE Answered'
    <2>1. CASE Begins(t) \/ Skips(t) \/ FromSpectrumCache(t) \/ Completes(t)
        BY <1>5, <2>1 DEF Begins, Skips, FromSpectrumCache, Advances, Completes, wvars, calls
    <2>2. CASE Asks(t)
        <3>1. UNCHANGED <<table, throws, phase, outcome, failed, before>>
            BY <2>2 DEF Asks, AskFor, jvars, calls
        <3>2. pc[t] = "out" /\ pc' = [pc EXCEPT ![t] = "lookup"]
            BY <2>2 DEF Asks, AskFor, Goes
        <3>3. Raising' <=> Raising
            BY <1>0, <3>2 DEF Raising
        <3> QED
            BY <1>0, <1>4, <3>1, <3>2, <3>3
    <2>3. CASE GetsTable(t)
        <3>1. UNCHANGED <<table, throws, phase, outcome, failed, before>>
            BY <2>3 DEF GetsTable, Take, Advances, calls
        <3>2. pc[t] = "ready" /\ pc' = [pc EXCEPT ![t] = "out"]
            BY <2>3 DEF GetsTable, Take, Goes
        <3>3. Raising' <=> Raising
            BY <1>0, <3>2 DEF Raising
        <3> QED
            BY <1>0, <1>4, <3>1, <3>2, <3>3
    <2>4. ASSUME InBody(t), Escapes(t), UNCHANGED <<table, before>>,
                 throws' \in {throws, throws + 1}, throws' > before,
                 pc'[t] = "out", pc[t] # "fatal",
                 \A u \in Thread \ {t} : pc'[u] = pc[u]
          PROVE  Answered'
        <3>0. phase # "call" /\ body[t] # NoTask /\ Alive
            BY <2>4 DEF InBody
        <3>1. CASE phase = "residuals" /\ Leave("threw") /\ UNCHANGED failed
            <4>1. \A u \in Thread : pc'[u] = "out"
                BY <2>4, <3>0, <3>1 DEF Inside
            <4> QED
                BY <1>8, <2>4, <3>1, <4>1 DEF Leave, Enter
        <3>2. CASE phase = "anchors" /\ outcome' = "died" /\ UNCHANGED <<phase, todo, body, failed>>
            <4>1. ~Alive' /\ Blame'
                BY <1>0, <2>4, <3>2 DEF Alive, Blame
            <4>2. Raising' => Raising
                BY <2>4 DEF Raising
            <4> QED
                BY <1>7, <2>4, <3>0, <3>2, <4>1, <4>2
        <3>3. CASE /\ phase \in {"factors", "telluric", "stellar"}
                   /\ failed' = TRUE /\ body' = [body EXCEPT ![t] = NoTask]
                   /\ UNCHANGED <<phase, todo, outcome>>
            <4>1. outcome' \in {"none", "died"} /\ throws' \in Nat
                BY <1>0, <2>4, <3>0, <3>3 DEF Answered, Kept
            <4>2. Alive'
                BY <2>4, <3>0, <3>3 DEF Alive
            <4>3. Kept'
                BY <1>0, <2>4, <3>3, <4>1 DEF Kept
            <4> QED
                BY <1>3, <4>1, <4>2, <4>3 DEF Answered
        <3> QED
            BY <2>4, <3>1, <3>2, <3>3 DEF Escapes
    <2>5. CASE TableFails(t)
        <3>1. /\ InBody(t) /\ Escapes(t) /\ UNCHANGED <<table, before, throws>>
              /\ pc[t] = "failed" /\ pc' = [pc EXCEPT ![t] = "out"]
            BY <2>5 DEF TableFails, Take, Goes, calls
        <3>2. throws > before
            BY <3>1 DEF Answered, Kept, Raising
        <3> QED
            BY <1>0, <2>4, <3>1, <3>2
    <2>6. CASE Fails(t)
        <3>1. /\ InBody(t) /\ Escapes(t) /\ UNCHANGED <<table, before, pc>>
              /\ pc[t] = "out" /\ throws' = throws + 1
            BY <2>6 DEF Fails, calls
        <3>2. throws' > before
            BY <1>0, <3>1
        <3> QED
            BY <1>0, <2>4, <3>1, <3>2
    <2>7. CASE ScratchFails(t)
        <3>1. /\ phase # "call" /\ throws' = throws + 1 /\ outcome' = "died"
              /\ UNCHANGED <<table, phase, failed, before, pc>>
            BY <2>7 DEF ScratchFails, calls
        <3>2. ~Alive' /\ Blame' /\ (Raising' => Raising)
            BY <1>0, <3>1 DEF Alive, Blame, Raising
        <3> QED
            BY <1>7, <3>1, <3>2
    <2>8. CASE InCaches(t)
        <3>1. Alive /\ CallStep(t) /\ UNCHANGED <<phase, outcome, failed, before>>
            BY <2>8 DEF InCaches, jvars, calls
        <3>2. phase # "call"
            <4>1. pc[t] # "out"
                BY <3>1 DEF CallStep, FindsIt, ClaimsIt, Sleeps, Puts, ClearsMarker, Publishes,
                   Corrupts, BuildThrows, BuildDies, Unwinds, InsertThrows
            <4> QED
                BY <4>1 DEF Inside
        <3>3. CASE /\ throws' = throws /\ table' = table /\ (Raising' <=> Raising)
                   /\ \A u \in Thread : pc'[u] = "fatal" <=> pc[u] = "fatal"
            BY <1>4, <3>1, <3>3
        <3>4. CASE /\ throws' = throws + 1 /\ table' = table /\ Raising'
                   /\ \A u \in Thread : pc'[u] = "fatal" <=> pc[u] = "fatal"
            BY <1>6, <3>1, <3>2, <3>4 DEF Answered, Kept
        <3>5. CASE /\ throws' \in {throws, throws + 1} /\ table' = table /\ (Raising' <=> Raising)
                   /\ pc'[t] = "fatal" /\ Blame'
            <4>1. ~Alive'
                BY <3>5 DEF Alive
            <4> QED
                BY <1>7, <3>1, <3>2, <3>5, <4>1
        <3> QED
            BY <3>1, <3>3, <3>4, <3>5, CallRaises
    <2> QED
        BY <1>11, <2>1, <2>2, <2>3, <2>5, <2>6, <2>7, <2>8 DEF Works
<1>12. CASE Meanwhile
    <2>1. UNCHANGED <<table, throws, phase, outcome, failed, before>>
        BY <1>12 DEF Meanwhile, LimitMoves, WakesAlone, jvars, calls
    <2>2. CASE LimitMoves
        BY <1>5, <2>1, <2>2 DEF LimitMoves
    <2>3. ASSUME NEW t \in Thread, WakesAlone(t) PROVE Answered'
        <3>1. pc[t] = "wait" /\ pc' = [pc EXCEPT ![t] = "lookup"]
            BY <2>3 DEF WakesAlone, Goes
        <3>2. Raising' <=> Raising
            BY <1>0, <3>1 DEF Raising
        <3> QED
            BY <1>0, <1>4, <2>1, <3>1, <3>2
    <2> QED
        BY <1>12, <2>2, <2>3 DEF Meanwhile
<1>13. CASE UNCHANGED vars
    BY <1>5, <1>13 DEF vars, wvars, jvars, calls
<1> QED
    BY <1>9, <1>10, <1>11, <1>12, <1>13 DEF Next

-----------------------------------------------------------------------------
(* The whole invariant, and what follows from it.                          *)

MatrixInv == EInv /\ JInv /\ Inside /\ Answered

\* The invariant of the evaluations: what the caches hold, what the loops have
\* dealt out, written and completed, that a call is made inside an iteration, and
\* where an exception is.
THEOREM MatrixHeld == Spec => []MatrixInv
<1>1. Init => Inside
  BY DEF Init, WeightsInit, Inside, Idle
<1>a. Init => Answered
  BY DEF Init, WeightsInit, Answered, Kept, Raising, Alive, FailuresAnswered
<1>2. Init => MatrixInv
  BY <1>1, <1>a, EntriesInitially, MatrixInitially DEF MatrixInv
<1>3. MatrixInv /\ [Next]_vars => MatrixInv'
  <2> SUFFICES ASSUME MatrixInv, [Next]_vars
               PROVE  MatrixInv'
    OBVIOUS
  <2>1. EInv'
    BY EntriesKept DEF MatrixInv
  <2>2. JInv'
    BY MatrixKept DEF MatrixInv
  <2>3. Inside'
    BY InsideKept DEF MatrixInv, EInv, Inv, JInv
  <2>4. Answered'
    BY AnsweredKept DEF MatrixInv
  <2> QED
    BY <2>1, <2>2, <2>3, <2>4 DEF MatrixInv
<1> QED
  BY <1>2, <1>3, PTL DEF Spec

\* An exception is answered for, wherever and in whichever thread it comes up: a
\* call that returns has had none, a call that throws has had one of its own, and
\* the process is only gone after one or for keys that are taken for one another.
\* For any number of threads, spectra, keys and exceptions, in each weight cache.
THEOREM FailuresAlwaysAnswered == Spec => []FailuresAnswered
<1>1. MatrixInv => FailuresAnswered
  BY DEF MatrixInv, Answered
<1> QED
  BY <1>1, MatrixHeld, PTL

\* Everything the evaluations and the caches keep has its type, however many
\* spectra, parameters, threads and keys there are.
THEOREM CostTypes == Spec => []CostTypeOK
<1>1. MatrixInv => CostTypeOK
  <2> SUFFICES ASSUME MatrixInv
               PROVE  CostTypeOK
    OBVIOUS
  <2>1. WeightsTypeOK
    BY DEF MatrixInv, EInv, Inv, Typed, Holds, WeightsTypeOK
  <2>2. JTyped /\ CleanIn(jac, free)
    BY DEF MatrixInv, JInv, Clean
  <2>3. TasksOf(phase, free) \subseteq Nat
    BY <2>2, TasksMean DEF JTyped
  <2>4. todo \in Seq(Nat)
    BY <2>2, <2>3 DEF JTyped
  <2>5. ASSUME NEW t \in Thread, body[t] # NoTask
        PROVE  body[t].task \in Nat /\ Range(body[t].left) \subseteq Dataset
    <3>1. body[t].task \in TasksOf(phase, free) /\ body[t].left \in Seq(Dataset)
      BY <2>2, <2>5 DEF JTyped, Bodies
    <3> QED
      BY <2>3, <3>1 DEF Range
  <2>6. ASSUME NEW x \in jac
        PROVE  x[1] \in Rows /\ x[2] \in 0..(Cardinality(free) - 1)
    <3>1. PICK j \in free : \E d \in Moves(j) : x = <<x[1], RankIn(j, free), j>> /\ x[1] \in RowsOf(d)
      BY <2>2 DEF CleanIn
    <3>2. Moves(j) \subseteq Dataset /\ RankIn(j, free) \in 0..(Cardinality(free) - 1)
      BY <2>2, <3>1, ParametersLive, Columns DEF JTyped
    <3>3. x[2] = RankIn(j, free)
      BY <3>1
    <3> QED
      BY <3>1, <3>2, <3>3, RowsAreNumbers
  <2>7. \A t \in Thread : DOMAIN scratch[t] = Rows
    BY <2>2 DEF JTyped
  <2>8. before \in 0..throws
    BY DEF MatrixInv, Answered, Kept, EInv, Inv, Typed
  <2> QED
    BY <2>1, <2>2, <2>4, <2>5, <2>6, <2>7, <2>8 DEF JTyped, Phases, CostTypeOK
<1> QED
  BY <1>1, MatrixHeld, PTL

\* A Jacobian that was returned has, in the column of each free parameter, a
\* difference with respect to that parameter in every row it can move and
\* nothing elsewhere (MultiDatasetCost::operator()): for any spectra, knots,
\* fitted pixels, masks and threads, whatever the threads' scratch vectors held.
THEOREM JacobianAlwaysRight == Spec => []JacobianRight
<1>1. MatrixInv => JacobianRight
  <2> SUFFICES ASSUME MatrixInv, outcome = "returned", NEW j \in free, NEW d \in Dataset,
                      NEW i \in Fitted[d]
               PROVE  LET e == Entries(j, RowOfPixel(d, i))
                      IN  /\ e \subseteq {j}
                          /\ d \notin Moves(j) => e = {}
                          /\ d \in Moves(j)
                             /\ (j < ContBase \/ InSupport(d, j - ContOffset(d), i)) => e = {j}
    BY DEF JacobianRight
  <2> DEFINE r == RowOfPixel(d, i)
             c == RankIn(j, free)
             e == Entries(j, r)
  <2>1. /\ free \in FreeSets /\ CleanIn(jac, free)
        /\ \A p \in JacobianLoops : AllFull(jac, free, p)
    BY DEF MatrixInv, JInv, JTyped, Clean, Behind, JacobianLoops
  <2>2. e = {x[3] : x \in {y \in jac : y[1] = r /\ y[2] = c}}
    BY DEF Entries, ColumnOf, RankIn
  <2>3. r \in RowsOf(d) /\ RowCount[d] > 0
    BY PixelsHaveRows
  <2>4. j \in Nat /\ Moves(j) \subseteq Dataset
    BY <2>1, ParametersLive
  <2>5. ContBase \in Nat /\ Stellar \in Nat
    BY Blocks
  <2> HIDE DEF r, c, e
  <2>6. ASSUME NEW x \in jac, x[1] = r, x[2] = c PROVE x[3] = j /\ d \in Moves(j)
    <3>1. PICK a \in free : \E b \in Moves(a) : x = <<x[1], RankIn(a, free), a>> /\ x[1] \in RowsOf(b)
      BY <2>1 DEF CleanIn
    <3>2. x[2] = RankIn(a, free) /\ x[3] = a
      BY <3>1
    <3>3. a = j
      BY <2>1, <2>6, <3>2, Columns DEF c
    <3>4. PICK b \in Moves(j) : r \in RowsOf(b)
      BY <2>6, <3>1, <3>3
    <3>5. b = d
      BY <2>3, <2>4, <3>4, RowsApart
    <3> QED
      BY <3>2, <3>3, <3>4, <3>5
  <2>7. e \subseteq {j} /\ (d \notin Moves(j) => e = {})
    BY <2>2, <2>6
  <2>8. <<r, c, j>> \in jac => e = {j}
    <3>1. <<r, c, j>>[1] = r /\ <<r, c, j>>[2] = c /\ <<r, c, j>>[3] = j
      OBVIOUS
    <3>2. <<r, c, j>> \in jac => j \in e
      BY <2>2, <3>1
    <3> QED
      BY <2>7, <3>2
  <2>9. ASSUME d \in Moves(j), j < ContBase PROVE e = {j}
    <3>0. ~(j >= ContBase)
      BY <2>4, <2>5, <2>9
    <3>1. \E p \in JacobianLoops : j \in TasksOf(p, free)
      <4>1. CASE j < Stellar
        <5>1. ParamDatasets(j) # {}
          BY <2>1, <2>9, <4>1, ParametersLive
        <5>2. j \in TasksOf("stellar", free)
          BY <4>1, <5>1 DEF TasksOf
        <5> QED
          BY <5>2 DEF JacobianLoops
      <4>2. CASE ~(j < Stellar)
        <5>1. j >= Stellar /\ d = OwnerOf(j)
          BY <2>1, <2>4, <2>5, <2>9, <4>2, ParametersLive
        <5>2. d \in Telluric /\ j - TellOffset(d) \in TellSlots
          BY <2>4, <2>9, <5>1, TelluricsOwned
        <5>3. j \in TasksOf("telluric", free)
          BY <2>3, <5>2 DEF TasksOf
        <5> QED
          BY <5>3 DEF JacobianLoops
      <4> QED
        BY <4>1, <4>2
    <3>2. FullIn(jac, free, j)
      BY <2>1, <3>1 DEF AllFull
    <3>3. <<r, c, j>> \in jac
      BY <2>3, <2>9, <3>0, <3>2 DEF FullIn, c
    <3> QED
      BY <2>8, <3>3
  <2>10. ASSUME d \in Moves(j), ~(j < ContBase), InSupport(d, j - ContOffset(d), i)
         PROVE  e = {j}
    <3>1. j >= ContBase
      BY <2>4, <2>5, <2>10
    <3>2. d = OwnerOf(j)
      BY <2>1, <2>10, <3>1, ParametersLive
    <3>3. j \in TasksOf("anchors", free)
      BY <3>1 DEF TasksOf
    <3>4. FullIn(jac, free, j)
      BY <2>1, <3>3 DEF AllFull, JacobianLoops
    <3>5. i \in 1..Len(Lambda[d])
      BY CostAssumption
    <3>6. i \in AnchorPixels(d, j - ContOffset(d))
      BY <2>10, <3>5, ReachCovers
    <3>7. <<r, c, j>> \in jac
      BY <3>1, <3>2, <3>4, <3>6 DEF FullIn, r, c
    <3> QED
      BY <2>8, <3>7
  <2>11. e = Entries(j, RowOfPixel(d, i))
    BY DEF e, r
  <2> QED
    BY <2>7, <2>9, <2>10, <2>11
<1> QED
  BY <1>1, MatrixHeld, PTL
=============================================================================
