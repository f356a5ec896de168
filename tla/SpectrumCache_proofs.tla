------------------------ MODULE SpectrumCache_proofs ------------------------
(***************************************************************************)
(* Proofs about SpectrumCache, for any threads, keys, nesting and limits.  *)
(***************************************************************************)
EXTENDS SpectrumCacheRefinement, Collections, TLAPS

\* A subset of a singleton has at most one element.
LEMMA AtMostOne ==
    ASSUME NEW x, NEW S, S \subseteq {x}
    PROVE  Cardinality(S) \in Nat /\ Cardinality(S) <= 1
<1>1. CASE S = {}
    BY <1>1, FS_EmptySet
<1>2. CASE S = {x}
    BY <1>2, FS_Singleton
<1> QED
    BY <1>1, <1>2

-----------------------------------------------------------------------------
(* The recency list.                                                       *)

Distinct(l) == \A i, j \in 1..Len(l) : i # j => l[i] # l[j]
Elements(l) == {l[i] : i \in 1..Len(l)}

\* Moving an entry to the front loses none, adds none, repeats none.
LEMMA TouchedKeeps ==
    ASSUME NEW l \in Seq(Key), Distinct(l), NEW k \in Elements(l)
    PROVE  /\ Touched(l, k) \in Seq(Key)
           /\ Distinct(Touched(l, k))
           /\ Elements(Touched(l, k)) = Elements(l)
<1> DEFINE p == CHOOSE i \in 1..Len(l) : l[i] = k
           tl == Touched(l, k)
<1>1. p \in 1..Len(l) /\ l[p] = k
    BY DEF Elements
<1>2. /\ tl = [i \in 1..Len(l) |-> CASE i = 1 -> k
                                     [] 1 < i /\ i <= p -> l[i - 1]
                                     [] OTHER -> l[i]]
      /\ Len(l) \in Nat
    BY DEF Touched
<1> HIDE DEF p, tl
<1>3. /\ tl \in Seq(Key) /\ Len(tl) = Len(l)
      /\ tl[1] = k
      /\ \A i \in 1..Len(l) : 1 < i /\ i <= p => tl[i] = l[i - 1]
      /\ \A i \in 1..Len(l) : p < i => tl[i] = l[i]
    BY <1>1, <1>2 DEF Elements
<1>4. Distinct(tl)
    BY <1>1, <1>3 DEF Distinct
<1>5. Elements(tl) \subseteq Elements(l)
    BY <1>1, <1>3 DEF Elements
<1>6. ASSUME NEW x \in Elements(l) PROVE x \in Elements(tl)
    <2>1. PICK i \in 1..Len(l) : x = l[i]
        BY DEF Elements
    <2>2. CASE i = p
        BY <2>1, <2>2, <1>1, <1>3 DEF Elements
    <2>3. CASE i < p
        <3>1. i + 1 \in 1..Len(l) /\ tl[i + 1] = l[i]
            BY <2>1, <2>3, <1>1, <1>3
        <3> QED
            BY <3>1, <2>1, <1>3 DEF Elements
    <2>4. CASE p < i
        BY <2>1, <2>4, <1>1, <1>3 DEF Elements
    <2> QED
        BY <2>2, <2>3, <2>4, <1>1
<1> QED
    BY <1>3, <1>4, <1>5, <1>6 DEF tl

\* Eviction stops at some prefix of the list, never at the empty one.
LEMMA EvictToStops ==
    ASSUME NEW l \in Seq(Key), NEW m, m = Elements(l),
           NEW b, NEW cap, NEW lim
    PROVE  LET e == EvictTo(m, l, b, cap, lim)
           IN  /\ e \in 0..Len(l)
               /\ l # <<>> => e # 0
               /\ ~OverBudget(LeftAt(m, l, e), BytesAt(m, l, b, e), cap, lim)
<1> DEFINE Over(n) == OverBudget(LeftAt(m, l, n), BytesAt(m, l, b, n), cap, lim)
           Ok == {n \in 0..Len(l) : ~Over(n)}
<1>1. ASSUME NEW n \in 0..1 PROVE ~Over(n)
    <2>1. LeftAt(m, l, n) \subseteq {l[1]}
        BY DEF LeftAt, Elements
    <2>2. LET S == LeftAt(m, l, n) IN Cardinality(S) \in Nat /\ Cardinality(S) <= 1
        BY <2>1, AtMostOne
    <2> QED
        BY <2>2 DEF OverBudget
<1> HIDE DEF Over
<1>2. \E n \in Ok : \A i \in Ok : i <= n
    <2>1. Ok \in SUBSET (0..Len(l)) /\ 0 \in Ok /\ Len(l) \in Nat
        BY <1>1
    <2> HIDE DEF Ok
    <2> QED
        BY <2>1, GreatestNatural
<1>3. \E n \in 0..Len(l) : ~Over(n) /\ \A i \in (n + 1)..Len(l) : Over(i)
    BY <1>2
<1>4. EvictTo(m, l, b, cap, lim) =
        CHOOSE n \in 0..Len(l) : ~Over(n) /\ \A i \in (n + 1)..Len(l) : Over(i)
    BY DEF EvictTo, Over
<1> DEFINE e == EvictTo(m, l, b, cap, lim)
<1>5. e \in 0..Len(l) /\ ~Over(e) /\ \A i \in (e + 1)..Len(l) : Over(i)
    BY <1>3, <1>4
<1>6. ~OverBudget(LeftAt(m, l, e), BytesAt(m, l, b, e), cap, lim)
    BY <1>5 DEF Over
<1>7. l # <<>> => e # 0
    BY <1>1, <1>5
<1> QED
    BY <1>5, <1>6, <1>7

\* Trimming leaves a prefix of the list, the map it describes, and its head.
LEMMA TrimKeeps ==
    ASSUME NEW l \in Seq(Key), Distinct(l), NEW m, m = Elements(l),
           NEW b, NEW cap, NEW perFit, Trim(m, l, b, cap, perFit)
    PROVE  /\ cached' \subseteq m
           /\ lru' \in Seq(Key) /\ Distinct(lru')
           /\ cached' = Elements(lru')
           /\ l # <<>> => l[1] \in cached'
<1> DEFINE n == EvictTo(m, l, b, cap, Limit(perFit, fits, share))
<1>1. /\ n \in 0..Len(l)
      /\ l # <<>> => n # 0
    BY EvictToStops
<1>2. cached' = LeftAt(m, l, n) /\ lru' = SubSeq(l, 1, n)
    BY DEF Trim
<1> HIDE DEF n
<1>3. /\ lru' \in Seq(Key) /\ Len(lru') = n
      /\ \A i \in 1..n : lru'[i] = l[i]
    BY <1>1, <1>2
<1>4. Elements(lru') = {l[i] : i \in 1..n}
    BY <1>3 DEF Elements
<1>5. LeftAt(m, l, n) = {l[i] : i \in 1..n}
    BY <1>1 DEF LeftAt, Elements, Distinct
<1>6. Distinct(lru')
    BY <1>1, <1>3 DEF Distinct
<1>7. l # <<>> => 1 \in 1..n
    BY <1>1
<1> QED
    BY <1>1, <1>2, <1>3, <1>4, <1>5, <1>6, <1>7 DEF Elements

-----------------------------------------------------------------------------
(* The inductive invariant.                                                *)

\* What the control point says of a thread's stack and pending key.
Control ==
    \A t \in Thread :
        /\ pc[t] = "idle" => stack[t] = <<>>
        /\ pc[t] \in {"build", "raise"} => stack[t] # <<>>
        /\ pc[t] \in {"lookup", "wait"} => want[t] \in Key

\* Producers nest strictly downwards.
StackRanked ==
    \A t \in Thread : \A i, j \in 1..Len(stack[t]) :
        i < j => Rank[stack[t][j].key] < Rank[stack[t][i].key]

\* A thread only ever waits for a key of a lower level than all it is building.
WaitsDownwards ==
    \A t \in Thread : pc[t] \in {"lookup", "wait"} =>
        \A k \in KeysOf(stack[t]) : Rank[want[t]] < Rank[k]

\* LruMatchesCache, in the terms of the lemmas above.
StoreInv == lru \in Seq(Key) /\ cached = Elements(lru) /\ Distinct(lru)

\* TypeOK, split between the threads and the limits; StoreInv types the rest.
FlowType ==
    /\ inflight \subseteq Key
    /\ pc \in [Thread -> {"idle", "lookup", "wait", "build", "raise"}]
    /\ want \in [Thread -> Key \cup {NoKey}]
    /\ stack \in [Thread -> Seq(Frame)]
    /\ calls \in [Thread -> 0..MaxCalls]
    /\ throws \in 0..MaxThrows
LimitsType ==
    /\ maxEntries \in Nat /\ maxBytes \in Nat
    /\ fits \in Nat \ {0} /\ share \in Nat

\* The invariants that concern threads, and those that concern the store,
\* meet only in NoWastedBuild.
FlowInv == FlowType /\ Control /\ StackRanked /\ SingleFlight
           /\ WaitsDownwards /\ NoLostWakeup
IInv == FlowInv /\ StoreInv /\ LimitsType /\ NoWastedBuild

LEMMA InitInv == Init => IInv
<1> SUFFICES ASSUME Init PROVE IInv
    OBVIOUS
<1> USE DEF Init
<1>1. FlowType /\ LimitsType
    BY SizeAssumption DEF FlowType, LimitsType
<1>2. \A t \in Thread : KeysOf(stack[t]) = {}
    BY DEF KeysOf
<1>3. SingleFlight
    BY <1>2 DEF SingleFlight
<1>4. StoreInv
    BY DEF StoreInv, Elements, Distinct
<1> QED
    BY <1>1, <1>3, <1>4 DEF IInv, FlowInv, Control, StackRanked, WaitsDownwards,
       NoLostWakeup, NoWastedBuild

-----------------------------------------------------------------------------
(* Producer stacks.                                                        *)

Ranked(s) ==
    \A i, j \in 1..Len(s) : i < j => Rank[s[j].key] < Rank[s[i].key]

\* Starting a producer adds its key, on top.
LEMMA PushFrame ==
    ASSUME NEW s \in Seq(Frame), NEW f \in Frame, Ranked(s),
           \A k \in KeysOf(s) : Rank[f.key] < Rank[k]
    PROVE  /\ Append(s, f) \in Seq(Frame) /\ Append(s, f) # <<>>
           /\ Ranked(Append(s, f))
           /\ KeysOf(Append(s, f)) = KeysOf(s) \cup {f.key}
<1> DEFINE a == Append(s, f)
<1>1. /\ a \in Seq(Frame) /\ a # <<>>
      /\ Len(s) \in Nat /\ Len(a) = Len(s) + 1
      /\ \A i \in 1..Len(s) : a[i] = s[i]
      /\ a[Len(s) + 1] = f
    OBVIOUS
<1> HIDE DEF a
<1>2. Ranked(a)
    BY <1>1 DEF Ranked, KeysOf
<1>3. KeysOf(a) = KeysOf(s) \cup {f.key}
    BY <1>1 DEF KeysOf
<1> QED
    BY <1>1, <1>2, <1>3 DEF a

\* Ending the innermost producer removes its key and no other.
LEMMA PopFrame ==
    ASSUME NEW s \in Seq(Frame), s # <<>>, Ranked(s)
    PROVE  LET p == SubSeq(s, 1, Len(s) - 1)
               k == s[Len(s)].key
           IN  /\ p \in Seq(Frame) /\ Ranked(p)
               /\ k \in Key /\ k \in KeysOf(s)
               /\ KeysOf(p) = KeysOf(s) \ {k}
<1> DEFINE p == SubSeq(s, 1, Len(s) - 1)
           k == s[Len(s)].key
<1>1. /\ Len(s) \in Nat \ {0} /\ s[Len(s)] \in Frame
      /\ p \in Seq(Frame) /\ Len(p) = Len(s) - 1
      /\ \A i \in 1..Len(p) : p[i] = s[i]
    <2>1. Len(s) \in Nat \ {0} /\ s[Len(s)] \in Frame
        OBVIOUS
    <2> DEFINE n == Len(s) - 1
    <2>2. n \in 0..Len(s) /\ p = SubSeq(s, 1, n)
        BY <2>1
    <2> HIDE DEF n, p
    <2>3. p \in Seq(Frame) /\ Len(p) = n /\ \A i \in 1..n : p[i] = s[i]
        BY <2>2
    <2> QED
        BY <2>1, <2>3 DEF n
<1> HIDE DEF p
<1>2. Ranked(p)
    BY <1>1 DEF Ranked
<1>3. k \in Key /\ k \in KeysOf(s)
    BY <1>1 DEF Frame, KeysOf
<1>4. \A i \in 1..Len(p) : s[i].key # k
    <2> SUFFICES ASSUME NEW i \in 1..Len(p) PROVE s[i].key # k
        OBVIOUS
    <2>1. s[i] \in Frame /\ s[Len(s)] \in Frame
        BY <1>1
    <2>2. Rank[s[Len(s)].key] \in Nat /\ Rank[s[i].key] \in Nat
        BY <2>1, LayerAssumption DEF Frame
    <2>3. Rank[s[Len(s)].key] < Rank[s[i].key]
        BY <1>1 DEF Ranked
    <2> QED
        BY <2>2, <2>3
<1>5. KeysOf(p) = KeysOf(s) \ {k}
    BY <1>1, <1>4 DEF KeysOf
<1> QED
    BY <1>1, <1>2, <1>3, <1>5 DEF p

\* Counting a producer's call leaves its key, and the rest of the stack, alone.
LEMMA CountAsk ==
    ASSUME NEW s \in Seq(Frame), s # <<>>, s[Len(s)].asks < MaxAsks, Ranked(s)
    PROVE  LET a == [s EXCEPT ![Len(s)].asks = @ + 1]
           IN  /\ a \in Seq(Frame) /\ a # <<>> /\ Ranked(a)
               /\ KeysOf(a) = KeysOf(s)
<1> DEFINE a == [s EXCEPT ![Len(s)].asks = @ + 1]
<1>1. Len(s) \in Nat \ {0} /\ s[Len(s)] \in Frame
    OBVIOUS
<1>2. [s[Len(s)] EXCEPT !.asks = @ + 1] \in Frame
    <2>1. PICK f \in Frame : f = s[Len(s)]
        BY <1>1
    <2>2. f.asks + 1 \in 0..MaxAsks
        BY <2>1, SizeAssumption DEF Frame
    <2>3. [f EXCEPT !.asks = @ + 1] \in Frame
        BY <2>2 DEF Frame
    <2> QED
        BY <2>1, <2>3
<1>3. /\ a \in Seq(Frame) /\ Len(a) = Len(s) /\ a # <<>>
      /\ \A i \in 1..Len(s) : a[i].key = s[i].key
    <2>1. a = [s EXCEPT ![Len(s)] = [s[Len(s)] EXCEPT !.asks = @ + 1]]
        OBVIOUS
    <2>2. /\ a \in Seq(Frame) /\ Len(a) = Len(s)
          /\ \A i \in 1..Len(s) : a[i] = IF i = Len(s)
                  THEN [s[Len(s)] EXCEPT !.asks = @ + 1] ELSE s[i]
        BY <1>1, <1>2, <2>1
    <2> HIDE DEF a
    <2>3. [s[Len(s)] EXCEPT !.asks = @ + 1].key = s[Len(s)].key
        BY <1>1 DEF Frame
    <2> QED
        BY <1>1, <2>2, <2>3
<1> HIDE DEF a
<1>4. Ranked(a) /\ KeysOf(a) = KeysOf(s)
    BY <1>1, <1>3 DEF Ranked, KeysOf
<1> QED
    BY <1>3, <1>4 DEF a

\* No key is twice on a stack whose ranks fall.
LEMMA RankedDistinct ==
    ASSUME NEW s \in Seq(Frame), Ranked(s),
           NEW i \in 1..Len(s), NEW j \in 1..Len(s), i # j
    PROVE  s[i].key # s[j].key
<1>1. Rank[s[i].key] \in Nat /\ Rank[s[j].key] \in Nat
    <2>1. s[i] \in Frame /\ s[j] \in Frame
        OBVIOUS
    <2> QED
        BY <2>1, LayerAssumption DEF Frame
<1>2. CASE i < j
    BY <1>1, <1>2 DEF Ranked
<1>3. CASE j < i
    BY <1>1, <1>3 DEF Ranked
<1> QED
    BY <1>2, <1>3

-----------------------------------------------------------------------------
(* The threads: FlowInv over each kind of step.                            *)

\* A step of t that changes nobody's producers: the call it makes, the lookup
\* it ends, the sleep it starts or leaves, the exception it raises.
LEMMA MoveFlow ==
    ASSUME FlowInv, NEW t \in Thread,
           NEW p \in {"idle", "lookup", "wait", "build", "raise"},
           NEW w \in Key \cup {NoKey},
           pc' = [pc EXCEPT ![t] = p], want' = [want EXCEPT ![t] = w],
           stack' = stack, inflight' = inflight,
           calls' \in [Thread -> 0..MaxCalls], throws' \in 0..MaxThrows,
           p = "idle" => stack[t] = <<>>,
           p \in {"build", "raise"} => stack[t] # <<>>,
           p \in {"lookup", "wait"} =>
               w \in Key /\ \A k \in KeysOf(stack[t]) : Rank[w] < Rank[k],
           p = "wait" => w \in inflight
    PROVE  FlowInv'
<1>1. /\ pc'[t] = p /\ want'[t] = w
      /\ \A u \in Thread : u # t => pc'[u] = pc[u] /\ want'[u] = want[u]
    BY DEF FlowInv, FlowType
<1>2. FlowType'
    BY DEF FlowInv, FlowType
<1>3. Control'
    BY <1>1 DEF FlowInv, Control
<1>4. StackRanked' /\ SingleFlight'
    <2>1. \A u \in Thread : KeysOf(stack[u])' = KeysOf(stack[u])
        BY DEF KeysOf
    <2>2. StackRanked'
        <3>1. StackRanked /\ stack' = stack
            BY DEF FlowInv
        <3> QED
            BY <3>1 DEF StackRanked
    <2>3. SingleFlight'
        <3>1. SingleFlight /\ stack' = stack /\ inflight' = inflight
            BY DEF FlowInv
        <3>2. inflight' = UNION {KeysOf(stack[u])' : u \in Thread}
            BY <2>1, <3>1 DEF SingleFlight
        <3>3. \A u, v \in Thread : u # v =>
                  KeysOf(stack[u])' \cap KeysOf(stack[v])' = {}
            BY <2>1, <3>1 DEF SingleFlight
        <3>4. \A u \in Thread : \A i, j \in 1..Len(stack'[u]) :
                  i # j => stack'[u][i].key # stack'[u][j].key
            BY <3>1 DEF SingleFlight
        <3> QED
            BY <3>2, <3>3, <3>4, Zenon DEF SingleFlight
    <2> QED
        BY <2>2, <2>3
<1>5. WaitsDownwards'
    <2> SUFFICES ASSUME NEW u \in Thread, pc'[u] \in {"lookup", "wait"}
                 PROVE  \A k \in KeysOf(stack[u]) : Rank[want'[u]] < Rank[k]
        BY DEF WaitsDownwards, KeysOf
    <2>1. CASE u = t
        BY <1>1, <2>1
    <2>2. CASE u # t
        BY <1>1, <2>2 DEF FlowInv, WaitsDownwards
    <2> QED
        BY <2>1, <2>2
<1>6. NoLostWakeup'
    BY <1>1 DEF FlowInv, NoLostWakeup
<1> QED
    BY <1>2, <1>3, <1>4, <1>5, <1>6 DEF FlowInv

\* A thread claims the key it looked up.
LEMMA ClaimFlow ==
    ASSUME FlowInv, NEW t \in Thread, Claim(t)
    PROVE  FlowInv'
<1> DEFINE k == want[t]
           s == stack[t]
           f == [key |-> k, asks |-> 0]
           a == Append(s, f)
<1>1. /\ k \in Key /\ s \in Seq(Frame) /\ Ranked(s)
      /\ \A j \in KeysOf(s) : Rank[k] < Rank[j]
    BY DEF Claim, FlowInv, FlowType, Control, StackRanked, Ranked, WaitsDownwards
<1>2. f \in Frame /\ f.key = k
    BY <1>1, SizeAssumption DEF Frame
<1> HIDE DEF f
<1>3. /\ a \in Seq(Frame) /\ a # <<>> /\ Ranked(a)
      /\ KeysOf(a) = KeysOf(s) \cup {k}
    BY <1>1, <1>2, PushFrame
<1>4. /\ stack' = [stack EXCEPT ![t] = a]
      /\ pc' = [pc EXCEPT ![t] = "build"] /\ want' = [want EXCEPT ![t] = NoKey]
      /\ inflight' = inflight \cup {k} /\ k \notin inflight
      /\ calls' = calls /\ throws' = throws
    BY DEF Claim, f
<1> HIDE DEF k, s, a
<1>5. /\ stack'[t] = a /\ pc'[t] = "build"
      /\ \A u \in Thread : u # t =>
             pc'[u] = pc[u] /\ want'[u] = want[u] /\ stack'[u] = stack[u]
    BY <1>4 DEF FlowInv, FlowType
<1>6. FlowType'
    BY <1>1, <1>3, <1>4 DEF FlowInv, FlowType
<1>7. Control'
    BY <1>3, <1>5 DEF FlowInv, Control
<1>8. \A u \in Thread : stack'[u] \in Seq(Frame) /\ Ranked(stack'[u])
    BY <1>3, <1>5 DEF FlowInv, FlowType, StackRanked, Ranked
<1>9. StackRanked'
    BY <1>8 DEF StackRanked, Ranked
<1>10. SingleFlight'
    <2>1. /\ KeysOf(stack'[t]) = KeysOf(stack[t]) \cup {k}
          /\ \A u \in Thread : u # t => KeysOf(stack'[u]) = KeysOf(stack[u])
        BY <1>3, <1>5 DEF s
    <2>2. inflight' = UNION {KeysOf(stack'[u]) : u \in Thread}
        BY <1>4, <2>1 DEF FlowInv, SingleFlight
    <2>3. \A u, v \in Thread : u # v =>
              KeysOf(stack'[u]) \cap KeysOf(stack'[v]) = {}
        BY <1>4, <2>1 DEF FlowInv, SingleFlight
    <2>4. \A u \in Thread : \A i, j \in 1..Len(stack'[u]) :
              i # j => stack'[u][i].key # stack'[u][j].key
        BY <1>8, RankedDistinct
    <2> QED
        BY <2>2, <2>3, <2>4 DEF SingleFlight, KeysOf
<1>11. WaitsDownwards'
    BY <1>5 DEF FlowInv, WaitsDownwards, KeysOf
<1>12. NoLostWakeup'
    BY <1>4, <1>5 DEF FlowInv, NoLostWakeup
<1> QED
    BY <1>6, <1>7, <1>9, <1>10, <1>11, <1>12 DEF FlowInv

\* A producer ends, by returning or by throwing: its key is nobody's any more
\* and every sleeper is woken to look again.
LEMMA PopFlow ==
    ASSUME FlowInv, NEW t \in Thread, pc[t] \in {"build", "raise"},
           NEW p \in {"idle", "build", "raise"},
           p = "idle" <=> Popped(t) = <<>>,
           inflight' = inflight \ {Top(t).key},
           stack' = [stack EXCEPT ![t] = Popped(t)],
           NotifyAll(t, p),
           want' = want, calls' = calls, throws' \in 0..MaxThrows
    PROVE  FlowInv'
<1> DEFINE s == stack[t]
           k == s[Len(s)].key
           b == SubSeq(s, 1, Len(s) - 1)
<1>1. s \in Seq(Frame) /\ s # <<>> /\ Ranked(s)
    BY DEF FlowInv, FlowType, Control, StackRanked, Ranked
<1>2. /\ b \in Seq(Frame) /\ Ranked(b) /\ k \in KeysOf(s)
      /\ KeysOf(b) = KeysOf(s) \ {k}
    BY <1>1, PopFrame
<1>3. /\ inflight' = inflight \ {k} /\ stack' = [stack EXCEPT ![t] = b]
      /\ p = "idle" <=> b = <<>>
    BY DEF Top, Popped
<1> HIDE DEF s, k, b
<1>4. /\ stack'[t] = b /\ pc'[t] = p
      /\ \A u \in Thread : u # t => stack'[u] = stack[u]
      /\ \A u \in Thread : u # t =>
             pc'[u] = IF pc[u] = "wait" THEN "lookup" ELSE pc[u]
    BY <1>3 DEF FlowInv, FlowType, NotifyAll
<1>5. FlowType'
    <2>1. pc' \in [Thread -> {"idle", "lookup", "wait", "build", "raise"}]
        BY DEF FlowInv, FlowType, NotifyAll
    <2> QED
        BY <1>2, <1>3, <2>1 DEF FlowInv, FlowType
<1>6. Control'
    BY <1>3, <1>4 DEF FlowInv, Control
<1>7. \A u \in Thread : stack'[u] \in Seq(Frame) /\ Ranked(stack'[u])
    BY <1>2, <1>4 DEF FlowInv, FlowType, StackRanked, Ranked
<1>8. StackRanked'
    BY <1>7 DEF StackRanked, Ranked
<1>9. SingleFlight'
    <2>1. /\ KeysOf(stack'[t]) = KeysOf(stack[t]) \ {k} /\ k \in KeysOf(stack[t])
          /\ \A u \in Thread : u # t => KeysOf(stack'[u]) = KeysOf(stack[u])
        BY <1>2, <1>4 DEF s
    <2>2. inflight' = UNION {KeysOf(stack'[u]) : u \in Thread}
        BY <1>3, <2>1 DEF FlowInv, SingleFlight
    <2>3. \A u, v \in Thread : u # v =>
              KeysOf(stack'[u]) \cap KeysOf(stack'[v]) = {}
        BY <2>1 DEF FlowInv, SingleFlight
    <2>4. \A u \in Thread : \A i, j \in 1..Len(stack'[u]) :
              i # j => stack'[u][i].key # stack'[u][j].key
        BY <1>7, RankedDistinct
    <2> QED
        BY <2>2, <2>3, <2>4 DEF SingleFlight, KeysOf
<1>10. WaitsDownwards'
    BY <1>4 DEF FlowInv, WaitsDownwards, KeysOf
<1>11. NoLostWakeup'
    BY <1>4 DEF NoLostWakeup
<1> QED
    BY <1>5, <1>6, <1>8, <1>9, <1>10, <1>11 DEF FlowInv

\* A producer calls back into the cache, for a key of a lower level.
LEMMA AskFlow ==
    ASSUME FlowInv, NEW t \in Thread, Ask(t)
    PROVE  FlowInv'
<1> DEFINE s == stack[t]
           a == [s EXCEPT ![Len(s)].asks = @ + 1]
<1>1. s \in Seq(Frame) /\ s # <<>> /\ Ranked(s) /\ s[Len(s)].asks < MaxAsks
    BY DEF Ask, Top, FlowInv, FlowType, Control, StackRanked, Ranked
<1>2. a \in Seq(Frame) /\ a # <<>> /\ Ranked(a) /\ KeysOf(a) = KeysOf(s)
    BY <1>1, CountAsk
<1>3. PICK d \in Needs[s[Len(s)].key] : want' = [want EXCEPT ![t] = d]
    BY DEF Ask, Top
<1>4. d \in Key /\ Rank[d] < Rank[s[Len(s)].key]
    <2>1. s[Len(s)].key \in Key
        <3>1. s[Len(s)] \in Frame
            BY <1>1
        <3> QED
            BY <3>1 DEF Frame
    <2> QED
        BY <2>1, LayerAssumption
<1>5. \A k \in KeysOf(s) : Rank[d] < Rank[k]
    <2> SUFFICES ASSUME NEW i \in 1..Len(s) PROVE Rank[d] < Rank[s[i].key]
        BY DEF KeysOf
    <2>1. Len(s) \in Nat \ {0} /\ s[i] \in Frame /\ s[Len(s)] \in Frame
        BY <1>1
    <2>2. /\ Rank[d] \in Nat /\ Rank[s[i].key] \in Nat
          /\ Rank[s[Len(s)].key] \in Nat
        BY <1>4, <2>1, LayerAssumption DEF Frame
    <2>3. i = Len(s) \/ Rank[s[Len(s)].key] < Rank[s[i].key]
        BY <1>1, <2>1 DEF Ranked
    <2> QED
        BY <1>4, <2>2, <2>3
<1>6. /\ stack' = [stack EXCEPT ![t] = a] /\ pc' = [pc EXCEPT ![t] = "lookup"]
      /\ inflight' = inflight /\ calls' = calls /\ throws' = throws
    BY DEF Ask
<1> HIDE DEF s, a
<1>7. /\ stack'[t] = a /\ pc'[t] = "lookup" /\ want'[t] = d
      /\ \A u \in Thread : u # t =>
             pc'[u] = pc[u] /\ want'[u] = want[u] /\ stack'[u] = stack[u]
    BY <1>3, <1>6 DEF FlowInv, FlowType
<1>8. FlowType'
    BY <1>2, <1>3, <1>4, <1>6 DEF FlowInv, FlowType
<1>9. Control'
    BY <1>4, <1>7 DEF FlowInv, Control
<1>10. \A u \in Thread : stack'[u] \in Seq(Frame) /\ Ranked(stack'[u])
    BY <1>2, <1>7 DEF FlowInv, FlowType, StackRanked, Ranked
<1>11. StackRanked'
    BY <1>10 DEF StackRanked, Ranked
<1>12. \A u \in Thread : KeysOf(stack'[u]) = KeysOf(stack[u])
    BY <1>2, <1>7 DEF s
<1>13. SingleFlight'
    <2>1. inflight' = UNION {KeysOf(stack'[u]) : u \in Thread}
        BY <1>6, <1>12 DEF FlowInv, SingleFlight
    <2>2. \A u, v \in Thread : u # v =>
              KeysOf(stack'[u]) \cap KeysOf(stack'[v]) = {}
        BY <1>12 DEF FlowInv, SingleFlight
    <2>3. \A u \in Thread : \A i, j \in 1..Len(stack'[u]) :
              i # j => stack'[u][i].key # stack'[u][j].key
        BY <1>10, RankedDistinct
    <2> QED
        BY <2>1, <2>2, <2>3 DEF SingleFlight, KeysOf
<1>14. WaitsDownwards'
    <2>1. \A u \in Thread : pc'[u] \in {"lookup", "wait"} =>
              \A k \in KeysOf(stack'[u]) : Rank[want'[u]] < Rank[k]
        BY <1>5, <1>7, <1>12 DEF FlowInv, WaitsDownwards, s
    <2> QED
        BY <2>1 DEF WaitsDownwards, KeysOf
<1>15. NoLostWakeup'
    BY <1>6, <1>7 DEF FlowInv, NoLostWakeup
<1> QED
    BY <1>8, <1>9, <1>11, <1>13, <1>14, <1>15 DEF FlowInv

\* A step of the store alone disturbs no thread.
LEMMA StillFlow == FlowInv /\ UNCHANGED <<inflight, flow>> => FlowInv'
<1> SUFFICES ASSUME FlowInv, UNCHANGED <<inflight, flow>> PROVE FlowInv'
    OBVIOUS
<1>1. \A u \in Thread : KeysOf(stack[u])' = KeysOf(stack[u])
    BY DEF flow, KeysOf
<1>2. FlowType' /\ Control' /\ NoLostWakeup'
    BY DEF FlowInv, flow, FlowType, Control, NoLostWakeup
<1>3. StackRanked' /\ SingleFlight' /\ WaitsDownwards'
    BY <1>1, Zenon DEF FlowInv, flow, StackRanked, SingleFlight, WaitsDownwards
<1> QED
    BY <1>2, <1>3 DEF FlowInv

LEMMA FlowStep == FlowInv /\ [Next]_vars => FlowInv'
<1> SUFFICES ASSUME FlowInv, [Next]_vars PROVE FlowInv'
    OBVIOUS
<1>0. /\ FlowType /\ Control
      /\ \A t \in Thread : calls[t] - 1 \in Int
    BY SizeAssumption DEF FlowInv, FlowType
<1>1. ASSUME NEW t \in Thread, NEW k \in Key, Call(t, k) PROVE FlowInv'
    <2>1. stack[t] = <<>> /\ KeysOf(stack[t]) = {}
        BY <1>0, <1>1 DEF Call, Control, KeysOf
    <2>2. calls' \in [Thread -> 0..MaxCalls]
        BY <1>0, <1>1, SizeAssumption DEF Call, FlowType
    <2> QED
        BY <1>0, <1>1, <2>1, <2>2, MoveFlow DEF Call, FlowType
<1>2. ASSUME NEW t \in Thread, Hit(t) PROVE FlowInv'
    <2>1. After(stack[t]) \in {"idle", "build"}
          /\ (After(stack[t]) = "idle" <=> stack[t] = <<>>)
        BY DEF After
    <2> QED
        BY <1>0, <1>2, <2>1, MoveFlow DEF Hit, FlowType
<1>3. ASSUME NEW t \in Thread, Block(t) PROVE FlowInv'
    <2>1. \A k \in KeysOf(stack[t]) : Rank[want[t]] < Rank[k]
        BY <1>3 DEF Block, FlowInv, WaitsDownwards
    <2>2. want' = [want EXCEPT ![t] = want[t]] /\ want[t] \in Key
        BY <1>0, <1>3 DEF Block, FlowType, Control
    <2> QED
        BY <1>0, <1>3, <2>1, <2>2, MoveFlow DEF Block, FlowType
<1>4. ASSUME NEW t \in Thread, SpuriousWake(t) PROVE FlowInv'
    <2>1. \A k \in KeysOf(stack[t]) : Rank[want[t]] < Rank[k]
        BY <1>4 DEF SpuriousWake, FlowInv, WaitsDownwards
    <2>2. want' = [want EXCEPT ![t] = want[t]] /\ want[t] \in Key
        BY <1>0, <1>4 DEF SpuriousWake, FlowType, Control
    <2> QED
        BY <1>0, <1>4, <2>1, <2>2, MoveFlow DEF SpuriousWake, FlowType
<1>5. ASSUME NEW t \in Thread, Throw(t) PROVE FlowInv'
    <2>1. stack[t] # <<>> /\ want' = [want EXCEPT ![t] = want[t]]
          /\ want[t] \in Key \cup {NoKey}
        BY <1>0, <1>5 DEF Throw, FlowType, Control
    <2>2. throws' \in 0..MaxThrows
        BY <1>0, <1>5, SizeAssumption DEF Throw, FlowType
    <2> QED
        BY <1>0, <1>5, <2>1, <2>2, MoveFlow DEF Throw, FlowType
<1>6. ASSUME NEW t \in Thread, Publish(t) PROVE FlowInv'
    <2>1. After(Popped(t)) \in {"idle", "build"}
          /\ (After(Popped(t)) = "idle" <=> Popped(t) = <<>>)
        BY DEF After
    <2> QED
        BY <1>0, <1>6, <2>1, PopFlow DEF Publish, FlowType
<1>7. ASSUME NEW t \in Thread, Unwind(t) PROVE FlowInv'
    <2>1. After(Popped(t)) \in {"idle", "build"}
          /\ (After(Popped(t)) = "idle" <=> Popped(t) = <<>>)
        BY DEF After
    <2>2. CASE NotifyAll(t, After(Popped(t)))
        BY <1>0, <1>7, <2>1, <2>2, PopFlow DEF Unwind, FlowType
    <2>3. CASE Popped(t) # <<>> /\ NotifyAll(t, "raise")
        BY <1>0, <1>7, <2>3, PopFlow DEF Unwind, FlowType
    <2> QED
        BY <1>7, <2>2, <2>3 DEF Unwind
<1>8. ASSUME UNCHANGED <<inflight, flow>> PROVE FlowInv'
    BY <1>8, StillFlow
<1> QED
    BY <1>1, <1>2, <1>3, <1>4, <1>5, <1>6, <1>7, <1>8, AskFlow, ClaimFlow
       DEF Next, Step, TryGet, SetCapacity, SetMemoryBudget,
           EnsureMemoryBudget, Clear, BudgetMoves, vars

-----------------------------------------------------------------------------
(* The store: StoreInv over each step, and NoWastedBuild with it.          *)

\* Only a publication adds to the cache, and only the key it has just built.
Added == \E t \in Thread : Publish(t) /\ cached' \subseteq cached \cup {Top(t).key}

LEMMA TouchStore ==
    ASSUME StoreInv, NEW k \in cached, lru' = Touched(lru, k), cached' = cached
    PROVE  StoreInv'
<1>1. k \in Elements(lru) /\ lru \in Seq(Key) /\ Distinct(lru)
    BY DEF StoreInv
<1>2. lru' \in Seq(Key) /\ Distinct(lru') /\ Elements(lru') = Elements(lru)
    BY <1>1, TouchedKeeps
<1>3. Elements(lru)' = Elements(lru') /\ (Distinct(lru)' <=> Distinct(lru'))
    BY DEF Elements, Distinct
<1> QED
    BY <1>2, <1>3 DEF StoreInv

LEMMA TrimStore ==
    ASSUME NEW l \in Seq(Key), Distinct(l), NEW m, m = Elements(l),
           NEW b, NEW cap, NEW perFit, Trim(m, l, b, cap, perFit)
    PROVE  StoreInv' /\ cached' \subseteq m /\ (l # <<>> => l[1] \in cached')
<1>1. /\ cached' \subseteq m /\ lru' \in Seq(Key) /\ Distinct(lru')
      /\ cached' = Elements(lru') /\ (l # <<>> => l[1] \in cached')
    BY TrimKeeps
<1>2. Elements(lru)' = Elements(lru') /\ (Distinct(lru)' <=> Distinct(lru'))
    BY DEF Elements, Distinct
<1> QED
    BY <1>1, <1>2 DEF StoreInv

\* The list a publication trims: the new key in front of what was there.
LEMMA PublishList ==
    ASSUME FlowInv, lru \in Seq(Key), cached = Elements(lru),
           NEW t \in Thread, Publish(t)
    PROVE  LET l == <<Top(t).key>> \o lru
           IN  /\ Top(t).key \in Key
               /\ l \in Seq(Key) /\ Len(lru) \in Nat /\ Len(l) = Len(lru) + 1
               /\ l[1] = Top(t).key
               /\ \A i \in 1..Len(l) :
                      i # 1 => i - 1 \in 1..Len(lru) /\ l[i] = lru[i - 1]
               /\ cached \cup {Top(t).key} = Elements(l)
<1> DEFINE k == Top(t).key
           l == <<k>> \o lru
<1>1. k \in Key
    <2>1. stack[t] \in Seq(Frame) /\ stack[t] # <<>>
        BY DEF Publish, FlowInv, FlowType, Control
    <2>2. stack[t][Len(stack[t])] \in Frame
        BY <2>1
    <2> QED
        BY <2>2 DEF Top, Frame
<1> HIDE DEF k
<1>2. /\ l \in Seq(Key) /\ Len(lru) \in Nat /\ Len(l) = Len(lru) + 1
      /\ l[1] = k /\ \A i \in 1..Len(lru) : l[i + 1] = lru[i]
    BY <1>1
<1> HIDE DEF l
<1>3. \A i \in 1..Len(l) :
          i # 1 => i - 1 \in 1..Len(lru) /\ l[i] = lru[i - 1]
    <2>1. ASSUME NEW i \in 1..Len(l), i # 1
          PROVE  i - 1 \in 1..Len(lru) /\ l[i] = lru[i - 1]
        <3>1. i - 1 \in 1..Len(lru) /\ i = (i - 1) + 1
            BY <1>2, <2>1
        <3> QED
            BY <1>2, <3>1
    <2> QED
        BY <2>1
<1>4. Elements(l) = cached \cup {k}
    <2>1. Elements(l) \subseteq cached \cup {k}
        BY <1>2, <1>3 DEF Elements
    <2>2. ASSUME NEW x \in cached PROVE x \in Elements(l)
        <3>1. PICK i \in 1..Len(lru) : x = lru[i]
            BY DEF Elements
        <3>2. i + 1 \in 1..Len(l) /\ l[i + 1] = x
            BY <1>2, <3>1
        <3> QED
            BY <3>2 DEF Elements
    <2>3. k \in Elements(l)
        BY <1>2 DEF Elements
    <2> QED
        BY <2>1, <2>2, <2>3
<1> QED
    BY <1>1, <1>2, <1>3, <1>4 DEF k, l

LEMMA PublishStore ==
    ASSUME FlowInv, StoreInv, NEW t \in Thread, Publish(t)
    PROVE  /\ StoreInv'
           /\ cached' \subseteq cached \cup {Top(t).key} /\ Top(t).key \in cached'
<1> DEFINE k == Top(t).key
           l == <<k>> \o lru
<1>1. lru \in Seq(Key) /\ Distinct(lru) /\ cached = Elements(lru)
    BY DEF StoreInv
<1>2. CASE k \in cached
    <2>1. lru' = Touched(lru, k) /\ cached' = cached
        BY <1>2 DEF Publish
    <2>2. StoreInv'
        BY <1>2, <2>1, TouchStore
    <2> QED
        BY <1>2, <2>1, <2>2
<1>3. CASE k \notin cached
    <2>1. Trim(cached \cup {k}, l, bytes + Cost[k], maxEntries, maxBytes)
        BY <1>3 DEF Publish
    <2>2. /\ l \in Seq(Key) /\ Len(lru) \in Nat /\ Len(l) = Len(lru) + 1
          /\ l[1] = k /\ cached \cup {k} = Elements(l)
          /\ \A i \in 1..Len(l) :
                 i # 1 => i - 1 \in 1..Len(lru) /\ l[i] = lru[i - 1]
        BY <1>1, PublishList
    <2> HIDE DEF k, l
    <2>3. Distinct(l)
        <3>1. \A i \in 1..Len(lru) : lru[i] # k
            BY <1>1, <1>3 DEF Elements
        <3> SUFFICES ASSUME NEW i \in 1..Len(l), NEW j \in 1..Len(l), i # j
                     PROVE  l[i] # l[j]
            BY DEF Distinct
        <3>2. CASE i = 1
            BY <2>2, <3>1, <3>2
        <3>3. CASE j = 1
            BY <2>2, <3>1, <3>3
        <3>4. CASE i # 1 /\ j # 1
            <4>1. i - 1 # j - 1 /\ i - 1 \in 1..Len(lru) /\ j - 1 \in 1..Len(lru)
                BY <2>2, <3>4
            <4>2. lru[i - 1] # lru[j - 1]
                BY <1>1, <4>1 DEF Distinct
            <4> QED
                BY <2>2, <3>4, <4>2
        <3> QED
            BY <3>2, <3>3, <3>4
    <2>4. StoreInv' /\ cached' \subseteq cached \cup {k} /\ k \in cached'
        <3>1. l # <<>>
            BY <2>2
        <3> QED
            BY <2>1, <2>2, <2>3, <3>1, TrimStore
    <2> QED
        BY <2>4 DEF k
<1> QED
    BY <1>2, <1>3

\* What a step may do to the store.
LEMMA StoreStep ==
    ASSUME FlowInv, StoreInv, LimitsType, [Next]_vars
    PROVE  StoreInv' /\ LimitsType' /\ (cached' \subseteq cached \/ Added)
<1>0. lru \in Seq(Key) /\ Distinct(lru) /\ cached = Elements(lru)
    BY DEF StoreInv
<1>1. ASSUME UNCHANGED store PROVE StoreInv'
    <2>1. Elements(lru)' = Elements(lru) /\ (Distinct(lru)' <=> Distinct(lru))
        BY <1>1 DEF store, Elements, Distinct
    <2> QED
        BY <1>0, <1>1, <2>1 DEF store, StoreInv
<1>2. ASSUME NEW t \in Thread, Hit(t) PROVE StoreInv' /\ cached' = cached
    BY <1>2, TouchStore DEF Hit
<1>3. ASSUME NEW t \in Thread, NEW k \in Key, TryGet(t, k)
      PROVE  StoreInv' /\ cached' = cached
    BY <1>3, TouchStore DEF TryGet
<1>4. ASSUME NEW n \in Capacities, SetCapacity(n)
      PROVE  StoreInv' /\ cached' \subseteq cached
    BY <1>0, <1>4, TrimStore DEF SetCapacity
<1>5. ASSUME NEW b \in Budgets, SetMemoryBudget(b)
      PROVE  StoreInv' /\ cached' \subseteq cached
    BY <1>0, <1>5, TrimStore DEF SetMemoryBudget
<1>6. ASSUME NEW b \in Budgets, NEW s \in Shares, EnsureMemoryBudget(b, s)
      PROVE  StoreInv' /\ cached' \subseteq cached
    BY <1>0, <1>6, TrimStore DEF EnsureMemoryBudget
<1>7. ASSUME Clear PROVE StoreInv' /\ cached' \subseteq cached
    <2>1. Elements(lru)' = {} /\ Distinct(lru)'
        BY <1>7 DEF Clear, Elements, Distinct
    <2> QED
        BY <1>7, <2>1 DEF Clear, StoreInv
<1>8. LimitsType'
    <2>1. CASE UNCHANGED limits
        BY <2>1 DEF limits, LimitsType
    <2>2. ASSUME NEW n \in Capacities, SetCapacity(n) PROVE LimitsType'
        BY <2>2, SizeAssumption DEF SetCapacity, LimitsType
    <2>3. ASSUME NEW b \in Budgets, SetMemoryBudget(b) PROVE LimitsType'
        BY <2>3, SizeAssumption DEF SetMemoryBudget, LimitsType
    <2>4. ASSUME NEW b \in Budgets, NEW s \in Shares, EnsureMemoryBudget(b, s) PROVE LimitsType'
        BY <2>4, SizeAssumption DEF EnsureMemoryBudget, LimitsType
    <2>5. CASE BudgetMoves
        BY <2>5, SizeAssumption DEF BudgetMoves, LimitsType
    <2> QED
        BY <2>1, <2>2, <2>3, <2>4, <2>5
           DEF Next, vars, Step, Call, Ask, Hit, Claim, Block, SpuriousWake,
               Publish, Throw, Unwind, TryGet, Clear
<1> QED
    BY <1>1, <1>2, <1>3, <1>4, <1>5, <1>6, <1>7, <1>8, PublishStore
       DEF Added, Next, vars, store, Step, Call, Ask, Claim, Block, SpuriousWake,
           Throw, Unwind, BudgetMoves

\* A key is claimed only while it is not cached, and cached only as its claim
\* is given up.
LEMMA WasteStep ==
    ASSUME FlowInv, NoWastedBuild, [Next]_vars, cached' \subseteq cached \/ Added
    PROVE  NoWastedBuild'
<1>1. CASE Added
    BY <1>1 DEF Added, Publish, NoWastedBuild
<1>2. CASE cached' \subseteq cached
    <2>1. ASSUME NEW t \in Thread, Claim(t) PROVE NoWastedBuild'
        BY <2>1 DEF Claim, store, NoWastedBuild
    <2>2. CASE inflight' \subseteq inflight
        BY <1>2, <2>2 DEF NoWastedBuild
    <2> QED
        BY <2>1, <2>2
           DEF Next, vars, Step, Call, Ask, Hit, Block, SpuriousWake, Publish,
               Throw, Unwind, TryGet, SetCapacity, SetMemoryBudget,
               EnsureMemoryBudget, Clear, BudgetMoves
<1> QED
    BY <1>1, <1>2

LEMMA InvStep == IInv /\ [Next]_vars => IInv'
    BY FlowStep, StoreStep, WasteStep DEF IInv

-----------------------------------------------------------------------------
(* Theorems.                                                               *)

LEMMA Invariance == Spec => []IInv
<1> QED
    BY InitInv, InvStep, PTL DEF Spec

\* Every variable of the cache and of its threads keeps its type: in
\* particular a producer never makes more calls than the bound allows, and
\* the recency list only ever holds hashes.
THEOREM TypeCorrect == Spec => []TypeOK
<1>1. IInv => TypeOK
    <2>1. \A l \in Seq(Key) : Elements(l) \subseteq Key
        BY DEF Elements
    <2> QED
        BY <2>1 DEF IInv, FlowInv, FlowType, StoreInv, LimitsType, TypeOK
<1> QED
    BY <1>1, Invariance, PTL

\* At most one thread of the process builds any one spectrum, however lookups,
\* waits, evictions, clears and exceptions interleave.
THEOREM OneBuilder == Spec => []SingleFlight
<1>1. IInv => SingleFlight
    BY DEF IInv, FlowInv
<1> QED
    BY <1>1, Invariance, PTL

\* A spectrum being built is never already cached: insert_if_absent never finds,
\* on publication, that another thread got there first.
THEOREM NoBuildWasted == Spec => []NoWastedBuild
<1>1. IInv => NoWastedBuild
    BY DEF IInv
<1> QED
    BY <1>1, Invariance, PTL

\* Whoever sleeps on inflight_cv_ sleeps for a key whose builder has yet to
\* notify.
THEOREM WakeupToCome == Spec => []NoLostWakeup
<1>1. IInv => NoLostWakeup
    BY DEF IInv, FlowInv
<1> QED
    BY <1>1, Invariance, PTL

\* The recency list and the map hold the same keys, each once.
THEOREM ListMatchesMap == Spec => []LruMatchesCache
<1>1. IInv => LruMatchesCache
    BY DEF IInv, StoreInv, LruMatchesCache, Elements, Distinct
<1> QED
    BY <1>1, Invariance, PTL

\* However many threads nest builds however deep, they never all sleep waiting
\* for one another: the builder of the lowest key anyone waits for is awake.
THEOREM DeadlockFree == Spec => []NoDeadlock
<1>1. ASSUME IInv PROVE NoDeadlock
    <2> SUFFICES ASSUME \E t \in Thread : pc[t] = "wait"
                 PROVE  \E t \in Thread : pc[t] \in {"lookup", "build", "raise"}
        BY DEF NoDeadlock
    <2> USE <1>1
    <2> DEFINE W == {t \in Thread : pc[t] = "wait"}
               R == {Rank[want[t]] : t \in W}
    <2>1. \A t \in W : want[t] \in Key
        BY DEF IInv, FlowInv, Control
    <2>2. R \in SUBSET Nat /\ R # {}
        BY <2>1, LayerAssumption
    <2>3. PICK r \in R : \A y \in R : r <= y
        BY <2>2, LeastNatural
    <2>4. PICK t \in W : r = Rank[want[t]]
        BY <2>3
    <2>5. PICK u \in Thread : want[t] \in KeysOf(stack[u])
        <3>1. want[t] \in inflight
            BY <2>4 DEF IInv, FlowInv, NoLostWakeup
        <3> QED
            BY <3>1 DEF IInv, FlowInv, SingleFlight
    <2>6. pc[u] # "wait"
        <3> SUFFICES ASSUME pc[u] = "wait" PROVE FALSE
            OBVIOUS
        <3>1. Rank[want[u]] < Rank[want[t]]
            BY <2>5 DEF IInv, FlowInv, WaitsDownwards
        <3>2. r <= Rank[want[u]]
            BY <2>3
        <3>3. Rank[want[u]] \in Nat /\ Rank[want[t]] \in Nat
            BY <2>1, <2>4, LayerAssumption
        <3> QED
            BY <2>4, <3>1, <3>2, <3>3
    <2>7. pc[u] # "idle"
        <3>1. stack[u] # <<>>
            BY <2>5 DEF KeysOf
        <3> QED
            BY <3>1 DEF IInv, FlowInv, Control
    <2> QED
        BY <2>6, <2>7 DEF IInv, FlowInv, FlowType
<1> QED
    BY <1>1, Invariance, PTL

-----------------------------------------------------------------------------
(* Refinement: the cache implements SharedBuilds.                          *)

Builders == [k \in Key |-> BuilderOf(k)]

\* A key on a thread's stack has that thread for its builder.
LEMMA OneHolder ==
    ASSUME NEW s, \A t, u \in Thread : t # u => KeysOf(s[t]) \cap KeysOf(s[u]) = {},
           NEW t \in Thread, NEW k \in KeysOf(s[t])
    PROVE  (CHOOSE u \in Thread : k \in KeysOf(s[u])) = t
<1>1. \A u \in Thread : k \in KeysOf(s[u]) => u = t
    OBVIOUS
<1> QED
    BY <1>1

\* Builders read off the stacks.
LEMMA BuildersAre ==
    FlowInv => \A k \in Key :
        /\ k \notin inflight => Builders[k] = NoThread
        /\ \A t \in Thread : k \in KeysOf(stack[t]) => Builders[k] = t
        /\ k \in inflight => \E t \in Thread : k \in KeysOf(stack[t])
<1> SUFFICES ASSUME FlowInv, NEW k \in Key
             PROVE  /\ k \notin inflight => Builders[k] = NoThread
                    /\ \A t \in Thread : k \in KeysOf(stack[t]) => Builders[k] = t
                    /\ k \in inflight => \E t \in Thread : k \in KeysOf(stack[t])
    OBVIOUS
<1>1. k \in inflight <=> \E t \in Thread : k \in KeysOf(stack[t])
    BY DEF FlowInv, SingleFlight
<1>2. ASSUME NEW t \in Thread, k \in KeysOf(stack[t]) PROVE Builders[k] = t
    <2>1. (CHOOSE u \in Thread : k \in KeysOf(stack[u])) = t
        BY <1>2, OneHolder DEF FlowInv, SingleFlight
    <2> QED
        BY <1>1, <1>2, <2>1 DEF Builders, BuilderOf
<1> QED
    BY <1>1, <1>2 DEF Builders, BuilderOf

\* The same in the next state.
LEMMA BuildersAreNext ==
    FlowInv' => \A k \in Key :
        /\ k \notin inflight' => Builders'[k] = NoThread
        /\ \A t \in Thread : k \in KeysOf(stack'[t]) => Builders'[k] = t
        /\ k \in inflight' => \E t \in Thread : k \in KeysOf(stack'[t])
<1> SUFFICES ASSUME FlowInv', NEW k \in Key
             PROVE  /\ k \notin inflight' => Builders'[k] = NoThread
                    /\ \A t \in Thread : k \in KeysOf(stack'[t]) => Builders'[k] = t
                    /\ k \in inflight' => \E t \in Thread : k \in KeysOf(stack'[t])
    OBVIOUS
<1>1. k \in inflight' <=> \E t \in Thread : k \in KeysOf(stack'[t])
    BY DEF FlowInv, SingleFlight, KeysOf
<1>2. ASSUME NEW t \in Thread, k \in KeysOf(stack'[t]) PROVE Builders'[k] = t
    <2>1. (CHOOSE u \in Thread : k \in KeysOf(stack'[u])) = t
        <3>1. \A v, u \in Thread : v # u =>
                  KeysOf(stack'[v]) \cap KeysOf(stack'[u]) = {}
            BY DEF FlowInv, SingleFlight, KeysOf
        <3> QED
            BY <1>2, <3>1, OneHolder
    <2> QED
        BY <1>1, <1>2, <2>1 DEF Builders, BuilderOf, KeysOf
<1> QED
    BY <1>1, <1>2 DEF Builders, BuilderOf

\* A step that moves no key between stacks changes no builder.
LEMMA SameBuilders ==
    ASSUME FlowInv, FlowInv', inflight' = inflight,
           \A t \in Thread : KeysOf(stack'[t]) = KeysOf(stack[t])
    PROVE  Builders' = Builders
<1>1. \A k \in Key : Builders'[k] = Builders[k]
    BY BuildersAre, BuildersAreNext
<1> QED
    BY <1>1 DEF Builders

LEMMA ClaimStarts ==
    ASSUME FlowInv, FlowInv', NEW t \in Thread, Claim(t)
    PROVE  Promise!Start(t, want[t])
<1> DEFINE k == want[t]
<1>1. /\ k \in Key /\ stack[t] \in Seq(Frame) /\ Ranked(stack[t])
      /\ \A j \in KeysOf(stack[t]) : Rank[k] < Rank[j]
    BY DEF Claim, FlowInv, FlowType, Control, StackRanked, Ranked, WaitsDownwards
<1>2. [key |-> k, asks |-> 0] \in Frame
    BY <1>1, SizeAssumption DEF Frame
<1>3. KeysOf(stack'[t]) = KeysOf(stack[t]) \cup {k}
    <2>1. stack'[t] = Append(stack[t], [key |-> k, asks |-> 0])
        BY DEF Claim, FlowInv, FlowType
    <2> QED
        BY <1>1, <1>2, <2>1, PushFrame
<1>4. \A u \in Thread : u # t => KeysOf(stack'[u]) = KeysOf(stack[u])
    BY DEF Claim, FlowInv, FlowType
<1>5. inflight' = inflight \cup {k} /\ k \notin inflight /\ k \notin cached
      /\ cached' = cached
    BY DEF Claim, store
<1> HIDE DEF k
<1>6. Builders[k] = NoThread /\ Builders'[k] = t
    BY <1>1, <1>3, <1>5, BuildersAre, BuildersAreNext
<1>7. \A j \in Key : j # k => Builders'[j] = Builders[j]
    BY <1>1, <1>3, <1>4, <1>5, BuildersAre, BuildersAreNext
<1>8. Builders' = [Builders EXCEPT ![k] = t]
    BY <1>1, <1>6, <1>7 DEF Builders
<1> QED
    BY <1>1, <1>5, <1>6, <1>8 DEF Promise!Start, Builders, k

\* Ending a producer returns its key to nobody.
LEMMA PopReleases ==
    ASSUME FlowInv, FlowInv', NEW t \in Thread, pc[t] \in {"build", "raise"},
           inflight' = inflight \ {Top(t).key},
           stack' = [stack EXCEPT ![t] = Popped(t)]
    PROVE  /\ Top(t).key \in Key /\ Builders[Top(t).key] = t
           /\ Builders' = [Builders EXCEPT ![Top(t).key] = NoThread]
<1> DEFINE k == stack[t][Len(stack[t])].key
<1>1. stack[t] \in Seq(Frame) /\ stack[t] # <<>> /\ Ranked(stack[t])
    BY DEF FlowInv, FlowType, Control, StackRanked, Ranked
<1>2. stack'[t] = SubSeq(stack[t], 1, Len(stack[t]) - 1)
    BY DEF Popped, FlowInv, FlowType
<1>3. /\ k \in Key /\ k \in KeysOf(stack[t])
      /\ KeysOf(stack'[t]) = KeysOf(stack[t]) \ {k}
    BY <1>1, <1>2, PopFrame
<1>4. \A u \in Thread : u # t => KeysOf(stack'[u]) = KeysOf(stack[u])
    BY DEF FlowInv, FlowType
<1>5. inflight' = inflight \ {k} /\ Top(t).key = k
    BY DEF Top
<1> HIDE DEF k
<1>6. Builders[k] = t /\ Builders'[k] = NoThread
    BY <1>3, <1>5, BuildersAre, BuildersAreNext
<1>7. \A j \in Key : j # k => Builders'[j] = Builders[j]
    BY <1>3, <1>4, <1>5, BuildersAre, BuildersAreNext
<1>8. Builders' = [Builders EXCEPT ![k] = NoThread]
    BY <1>3, <1>6, <1>7 DEF Builders
<1> QED
    BY <1>3, <1>5, <1>6, <1>8

LEMMA StepRefines ==
    IInv /\ IInv' /\ [Next]_vars => [Promise!Next]_(Promise!vars)
<1> SUFFICES ASSUME IInv, IInv', [Next]_vars
             PROVE  [Promise!Next]_(Promise!vars)
    OBVIOUS
<1>0. FlowInv /\ StoreInv /\ LimitsType /\ FlowInv'
    BY DEF IInv
<1>1. ASSUME NEW t \in Thread, Claim(t) PROVE Promise!Next
    <2>1. want[t] \in Key
        BY <1>0, <1>1 DEF Claim, FlowInv, Control
    <2>2. Promise!Start(t, want[t])
        BY <1>0, <1>1, ClaimStarts
    <2> QED
        BY <2>1, <2>2 DEF Promise!Next
<1>2. ASSUME NEW t \in Thread, Publish(t) PROVE Promise!Next
    <2>1. /\ Top(t).key \in Key /\ Builders[Top(t).key] = t
          /\ Builders' = [Builders EXCEPT ![Top(t).key] = NoThread]
        BY <1>0, <1>2, PopReleases DEF Publish
    <2>2. cached' \subseteq cached \cup {Top(t).key} /\ Top(t).key \in cached'
        BY <1>0, <1>2, PublishStore
    <2>3. Promise!Publish(t, Top(t).key)
        BY <2>1, <2>2 DEF Promise!Publish, Builders
    <2> QED
        BY <2>1, <2>3 DEF Promise!Next
<1>3. ASSUME NEW t \in Thread, Unwind(t) PROVE Promise!Next
    <2>1. /\ Top(t).key \in Key /\ Builders[Top(t).key] = t
          /\ Builders' = [Builders EXCEPT ![Top(t).key] = NoThread]
        BY <1>0, <1>3, PopReleases DEF Unwind
    <2>2. Promise!GiveUp(t, Top(t).key)
        BY <1>3, <2>1 DEF Unwind, store, Promise!GiveUp, Builders
    <2> QED
        BY <2>1, <2>2 DEF Promise!Next
<1>4. ASSUME Builders' = Builders, cached' \subseteq cached PROVE Promise!Next
    BY <1>4 DEF Promise!Next, Promise!Forget, Builders
<1>5. ASSUME inflight' = inflight, stack' = stack PROVE Builders' = Builders
    <2>1. \A u \in Thread : KeysOf(stack'[u]) = KeysOf(stack[u])
        BY <1>5
    <2> QED
        BY <1>0, <1>5, <2>1, SameBuilders
<1>6. ASSUME NEW t \in Thread, Ask(t) PROVE Builders' = Builders
    <2>1. stack[t] \in Seq(Frame) /\ stack[t] # <<>> /\ Ranked(stack[t])
          /\ stack[t][Len(stack[t])].asks < MaxAsks
        BY <1>0, <1>6 DEF Ask, Top, FlowInv, FlowType, Control, StackRanked, Ranked
    <2>2. stack'[t] = [stack[t] EXCEPT ![Len(stack[t])].asks = @ + 1]
        BY <1>0, <1>6 DEF Ask, FlowInv, FlowType
    <2>3. KeysOf(stack'[t]) = KeysOf(stack[t])
        BY <2>1, <2>2, CountAsk
    <2>4. \A u \in Thread : u # t => KeysOf(stack'[u]) = KeysOf(stack[u])
        BY <1>0, <1>6 DEF Ask, FlowInv, FlowType
    <2> QED
        BY <1>0, <1>6, <2>3, <2>4, SameBuilders DEF Ask
<1>7. CASE \E t \in Thread : Claim(t) \/ Publish(t) \/ Unwind(t)
    BY <1>1, <1>2, <1>3, <1>7
<1>8. CASE ~(\E t \in Thread : Claim(t) \/ Publish(t) \/ Unwind(t))
    <2>1. cached' \subseteq cached
        BY <1>0, <1>8, StoreStep DEF Added
    <2>2. Builders' = Builders
        BY <1>5, <1>6, <1>8
           DEF Next, vars, flow, Step, Call, Hit, Block, SpuriousWake, Throw,
               TryGet, SetCapacity, SetMemoryBudget, EnsureMemoryBudget,
               Clear, BudgetMoves
    <2> QED
        BY <1>4, <2>1, <2>2
<1> QED
    BY <1>7, <1>8

\* The cache, with its list, limits, markers and sleepers, keeps the promise
\* of SharedBuilds: one builder per key, none while the value is available,
\* and a value that is there for its builder to return once published.
THEOREM CacheKeepsPromise == Spec => ImplementsSharedBuilds
<1>1. Init => Promise!Init
    <2> SUFFICES ASSUME Init PROVE Promise!Init
        OBVIOUS
    <2>1. \A k \in Key : BuilderOf(k) = NoThread
        BY DEF Init, BuilderOf
    <2> QED
        BY <2>1 DEF Init, Promise!Init
<1> QED
    BY <1>1, StepRefines, Invariance, PTL DEF Spec, ImplementsSharedBuilds, Promise!Spec

-----------------------------------------------------------------------------
(* Limits.                                                                 *)

LEMMA TrimSettles ==
    ASSUME NEW l \in Seq(Key), NEW m, m = Elements(l),
           NEW b, NEW cap, NEW perFit, Trim(m, l, b, cap, perFit)
    PROVE  ~OverBudget(cached', bytes', cap, Limit(perFit, fits, share))
    BY EvictToStops DEF Trim

\* Whoever changes the contents or the limits leaves the cache within the
\* limits of that moment, or down to one spectrum.
THEOREM WithinBudget == Spec => LeavesWithinBudget
<1> DEFINE Moved == \/ cached' # cached \/ maxEntries' # maxEntries
                    \/ maxBytes' # maxBytes
<1>1. ASSUME IInv, [Next]_vars, Moved PROVE Settled'
    <2>0. FlowInv /\ lru \in Seq(Key) /\ Distinct(lru) /\ cached = Elements(lru)
        BY <1>1 DEF IInv, StoreInv
    <2>1. ASSUME NEW n \in Capacities, SetCapacity(n) PROVE Settled'
        BY <2>0, <2>1, TrimSettles DEF SetCapacity, Settled, Limit
    <2>2. ASSUME NEW b \in Budgets, SetMemoryBudget(b) PROVE Settled'
        BY <2>0, <2>2, TrimSettles DEF SetMemoryBudget, Settled, Limit
    <2>3. ASSUME NEW b \in Budgets, NEW s \in Shares, EnsureMemoryBudget(b, s) PROVE Settled'
        BY <2>0, <2>3, TrimSettles DEF EnsureMemoryBudget, Settled, Limit
    <2>4. CASE Clear
        <3>1. cached' \subseteq {NoKey}
            BY <2>4 DEF Clear
        <3>2. Cardinality(cached') \in Nat /\ Cardinality(cached') <= 1
            BY <3>1, AtMostOne
        <3> QED
            BY <3>2 DEF Settled, OverBudget
    <2>5. ASSUME NEW t \in Thread, Publish(t) PROVE Settled'
        <3> DEFINE k == Top(t).key
                   l == <<k>> \o lru
        <3>1. Trim(cached \cup {k}, l, bytes + Cost[k], maxEntries, maxBytes)
            BY <1>1, <2>5 DEF Publish, limits
        <3>2. l \in Seq(Key) /\ cached \cup {k} = Elements(l)
            BY <2>0, <2>5, PublishList
        <3>3. ~OverBudget(cached', bytes', maxEntries, Limit(maxBytes, fits, share))
            BY <3>1, <3>2, TrimSettles
        <3> QED
            BY <2>5, <3>3 DEF Publish, limits, Settled, Limit
    <2> QED
        BY <1>1, <2>1, <2>2, <2>3, <2>4, <2>5
           DEF Next, vars, store, limits, Step, Call, Ask, Hit, Claim, Block,
               SpuriousWake, Throw, Unwind, TryGet, BudgetMoves
<1>2. IInv /\ [Next]_vars => [Moved => Settled']_vars
    BY <1>1
<1> QED
    BY <1>2, Invariance, PTL DEF Spec, LeavesWithinBudget

-----------------------------------------------------------------------------
(* Bytes.                                                                  *)

\* A list has finitely many elements.
LEMMA FewElements ==
    ASSUME NEW l \in Seq(Key)
    PROVE  IsFiniteSet(Elements(l)) /\ Elements(l) \subseteq Key
<1>1. IsFiniteSet(1..Len(l))
    BY FS_Interval
<1>2. Elements(l) = {l[i] : i \in 1..Len(l)}
    BY DEF Elements
<1>3. IsFiniteSet({l[i] : i \in 1..Len(l)})
    BY <1>1, FewValues
<1> QED
    BY <1>2, <1>3

LEMMA CostIsTotal ==
    ASSUME NEW S
    PROVE  TotalCost(S) = SumOver(Cost, S)
BY DEF TotalCost, SumOver, MapThenSumSet, MapThenFoldSet

\* What BytesExact says of the next state.
LEMMA ExactNext == bytes' = TotalCost(cached') <=> BytesExact'
BY DEF BytesExact, TotalCost, MapThenSumSet, MapThenFoldSet

\* What the pops give back is what they take, so that a count which was right
\* stays right and never has to stop at zero.
LEMMA TrimCounts ==
    ASSUME NEW l \in Seq(Key), NEW m, m = Elements(l),
           NEW cap, NEW perFit, Trim(m, l, TotalCost(m), cap, perFit)
    PROVE  bytes' = TotalCost(cached')
<1> DEFINE n == EvictTo(m, l, TotalCost(m), cap, Limit(perFit, fits, share))
           left == LeftAt(m, l, n)
<1>1. IsFiniteSet(m) /\ left \subseteq m /\ \A k \in m : Cost[k] \in Nat /\ Cost[k] \in Int
    BY FewElements, SizeAssumption DEF LeftAt
<1>2. cached' = left /\ bytes' = BytesAt(m, l, TotalCost(m), n)
    BY DEF Trim
<1>3. bytes' = IF TotalCost(m \ left) < TotalCost(m)
               THEN TotalCost(m) - TotalCost(m \ left) ELSE 0
    BY <1>2 DEF BytesAt
<1> HIDE DEF left
<1>4. IsFiniteSet(left)
    BY <1>1, FS_Subset
<1>5. SumOver(Cost, m) = SumOver(Cost, left) + SumOver(Cost, m \ left)
    BY <1>1, SumSplit
<1>6. SumOver(Cost, left) \in Nat
    BY <1>1, <1>4, SumNatural
<1>7. SumOver(Cost, m) \in Int /\ SumOver(Cost, m \ left) \in Int
    <2>1. IsFiniteSet(m \ left) /\ \A k \in m \ left : Cost[k] \in Int
        BY <1>1, FS_Subset
    <2> QED
        BY <1>1, <2>1, SumPicked
<1> QED
    BY <1>2, <1>3, <1>5, <1>6, <1>7, CostIsTotal

\* A spectrum that goes in adds its footprint.
LEMMA CostAdded ==
    ASSUME NEW l \in Seq(Key), NEW k \in Key, k \notin Elements(l)
    PROVE  TotalCost(Elements(l) \cup {k}) = TotalCost(Elements(l)) + Cost[k]
<1> DEFINE m == Elements(l) \cup {k}
<1>1. IsFiniteSet(m) /\ \A j \in m : Cost[j] \in Int
    <2>1. IsFiniteSet(Elements(l)) /\ Elements(l) \subseteq Key
        BY FewElements
    <2> QED
        BY <2>1, SizeAssumption, FS_AddElement
<1>2. m \ {k} = Elements(l) /\ k \in m
    OBVIOUS
<1>3. SumOver(Cost, Elements(l)) \in Int
    <2>1. IsFiniteSet(Elements(l)) /\ \A j \in Elements(l) : Cost[j] \in Int
        BY FewElements, SizeAssumption
    <2> QED
        BY <2>1, SumPicked
<1>4. SumOver(Cost, m) = Cost[k] + SumOver(Cost, m \ {k})
    BY <1>1, <1>2, SumRemove
<1>5. Cost[k] \in Int /\ SumOver(Cost, m) = SumOver(Cost, Elements(l)) + Cost[k]
    <2>1. Cost[k] \in Int
        BY <1>1, <1>2
    <2>2. SumOver(Cost, m) = Cost[k] + SumOver(Cost, Elements(l))
        BY <1>2, <1>4
    <2> QED
        BY <2>1, <2>2, <1>3
<1>6. TotalCost(m) = SumOver(Cost, m) /\ TotalCost(Elements(l)) = SumOver(Cost, Elements(l))
    BY CostIsTotal
<1> QED
    BY <1>5, <1>6

\* bytes_ is the footprint of the spectra held, over every insertion, every
\* eviction and every emptying of the cache.
THEOREM BytesRight == Spec => []BytesExact
<1>1. Init => BytesExact
    <2>1. IsFiniteSet({}) /\ SumOver(Cost, {}) = 0
        BY FS_EmptySet, SumPicked
    <2> QED
        BY <2>1, CostIsTotal DEF Init, BytesExact
<1>2. ASSUME IInv, BytesExact, [Next]_vars PROVE BytesExact'
    <2>0. /\ FlowInv /\ lru \in Seq(Key) /\ cached = Elements(lru)
          /\ bytes = TotalCost(cached)
        BY <1>2 DEF IInv, StoreInv, BytesExact
    <2>1. ASSUME NEW n \in Capacities, SetCapacity(n) PROVE BytesExact'
        BY <2>0, <2>1, TrimCounts, ExactNext DEF SetCapacity
    <2>2. ASSUME NEW b \in Budgets, SetMemoryBudget(b) PROVE BytesExact'
        BY <2>0, <2>2, TrimCounts, ExactNext DEF SetMemoryBudget
    <2>3. ASSUME NEW b \in Budgets, NEW s \in Shares, EnsureMemoryBudget(b, s)
          PROVE  BytesExact'
        BY <2>0, <2>3, TrimCounts, ExactNext DEF EnsureMemoryBudget
    <2>4. CASE Clear
        <3>1. IsFiniteSet({}) /\ SumOver(Cost, {}) = 0
            BY FS_EmptySet, SumPicked
        <3>2. bytes' = TotalCost(cached')
            BY <3>1, <2>4, CostIsTotal DEF Clear
        <3> QED
            BY <3>2, ExactNext
    <2>5. ASSUME NEW t \in Thread, Publish(t) PROVE BytesExact'
        <3> DEFINE k == Top(t).key
                   l == <<k>> \o lru
        <3>1. CASE k \in cached
            BY <2>0, <2>5, <3>1, ExactNext DEF Publish
        <3>2. CASE k \notin cached
            <4>1. Trim(cached \cup {k}, l, bytes + Cost[k], maxEntries, maxBytes)
                BY <2>5, <3>2 DEF Publish
            <4>2. k \in Key /\ l \in Seq(Key) /\ cached \cup {k} = Elements(l)
                BY <2>0, <2>5, PublishList
            <4>3. bytes + Cost[k] = TotalCost(cached \cup {k})
                BY <2>0, <3>2, <4>2, CostAdded
            <4> HIDE DEF k, l
            <4>4. bytes' = TotalCost(cached')
                BY <4>1, <4>2, <4>3, TrimCounts
            <4> QED
                BY <4>4, ExactNext
        <3> QED
            BY <3>1, <3>2
    <2>6. CASE UNCHANGED <<cached, bytes>>
        BY <2>0, <2>6, ExactNext
    <2> QED
        BY <1>2, <2>1, <2>2, <2>3, <2>4, <2>5, <2>6
           DEF Next, vars, store, Step, Call, Ask, Hit, Claim, Block,
               SpuriousWake, Throw, Unwind, TryGet, BudgetMoves
<1> QED
    BY <1>1, <1>2, Invariance, PTL DEF Spec
=============================================================================
