------------------------ MODULE MemoryBudget_proofs -------------------------
(***************************************************************************)
(* The memory budget, for any sizes, floors, ceilings and scales.  "Eight  *)
(* fits never get less": every figure total() goes through is monotone in  *)
(* the number of fits.  The accounts: the sum of the reservations is kept  *)
(* through the two additions of reserve(), and a total() read while all    *)
(* moves keeps its bounds.  The valve: how many samples one interval sees. *)
(***************************************************************************)
EXTENDS MCMemoryBudget, Collections, TLAPS

\* The counters are integers; that they are not negative is not needed.
Counters ==
    /\ explicit \in Totals /\ scale \in Scales
    /\ fits \in Int /\ reserved \in Int
    /\ own \in [Fit -> Int] /\ asked \in [Fit -> Int]

-----------------------------------------------------------------------------
(* The figures.                                                            *)

LEMMA TimesMonotone ==
    ASSUME NEW m \in Int, NEW n \in Int, m <= n, NEW k \in Nat
    PROVE  m * k <= n * k
<1>1. \E d \in Nat : n = m + d
  BY n - m \in Nat
<1>2. PICK d \in Nat : n = m + d
  BY <1>1
<1>3. d * k \in Nat
  OBVIOUS
<1>4. (m + d) * k = m * k + d * k
  OBVIOUS
<1> QED BY <1>2, <1>3, <1>4

LEMMA DivMonotone ==
    ASSUME NEW m \in Int, NEW n \in Int, m <= n, NEW k \in Nat \ {0}
    PROVE  m \div k <= n \div k
OBVIOUS

LEMMA AutoTotalMonotone ==
    ASSUME NEW m \in Int, NEW n \in Int, m <= n
    PROVE  /\ AutoTotal(m) \in Nat /\ AutoTotal(n) \in Nat
           /\ AutoTotal(m) <= AutoTotal(n)
<1>1. m * Ceiling \in Int /\ n * Ceiling \in Int /\ m * Ceiling <= n * Ceiling
  BY SizesAssumption, TimesMonotone
<1> QED BY <1>1, SizesAssumption DEF AutoTotal, Most, Least

LEMMA GrossMonotone ==
    ASSUME NEW set \in Totals, NEW m \in Int, NEW n \in Int, m <= n
    PROVE  /\ Gross(set, m) \in Nat /\ Gross(set, n) \in Nat
           /\ Gross(set, m) <= Gross(set, n)
BY AutoTotalMonotone, SizesAssumption DEF Gross

LEMMA FloorMonotone ==
    ASSUME NEW m \in Int, NEW n \in Int, m <= n,
           NEW g \in Nat, NEW h \in Nat, g <= h
    PROVE  /\ FloorOf(g, m) \in Nat /\ FloorOf(h, n) \in Nat
           /\ FloorOf(g, m) <= FloorOf(h, n)
<1>1. m * Floor \in Int /\ n * Floor \in Int /\ m * Floor <= n * Floor
  BY SizesAssumption, TimesMonotone
<1> QED BY <1>1, SizesAssumption DEF FloorOf, Most, Least

LEMMA NetMonotone ==
    ASSUME NEW g \in Nat, NEW h \in Nat, g <= h,
           NEW fl \in Nat, NEW gl \in Nat, fl <= gl, NEW res \in Int
    PROVE  /\ Net(g, fl, res) \in Int /\ Net(h, gl, res) \in Int
           /\ Net(g, fl, res) <= Net(h, gl, res)
BY DEF Net

LEMMA ScaledMonotone ==
    ASSUME NEW a \in Int, NEW b \in Int, a <= b,
           NEW fl \in Nat, NEW gl \in Nat, fl <= gl, NEW s \in Scales
    PROVE  /\ Scaled(a, fl, s) \in Int /\ Scaled(b, gl, s) \in Int
           /\ Scaled(a, fl, s) <= Scaled(b, gl, s)
<1>1. s \in Nat /\ Full \in Nat \ {0}
  BY SizesAssumption
<1>2. a * s \in Int /\ b * s \in Int /\ a * s <= b * s
  BY <1>1, TimesMonotone
<1>3. (a * s) \div Full <= (b * s) \div Full
  BY <1>1, <1>2, DivMonotone
<1>4. (a * s) \div Full \in Int /\ (b * s) \div Full \in Int
  BY <1>1, <1>2
<1> QED BY <1>3, <1>4 DEF Scaled, Most

LEMMA TotalMonotone ==
    ASSUME NEW set \in Totals, NEW m \in Int, NEW n \in Int, m <= n,
           NEW res \in Int, NEW s \in Scales
    PROVE  /\ TotalFor(set, m, res, s) \in Int /\ TotalFor(set, n, res, s) \in Int
           /\ TotalFor(set, m, res, s) <= TotalFor(set, n, res, s)
<1> DEFINE g == Gross(set, m)
           h == Gross(set, n)
<1>1. g \in Nat /\ h \in Nat /\ g <= h
  BY GrossMonotone
<1> HIDE DEF g, h
<1>2. /\ FloorOf(g, m) \in Nat /\ FloorOf(h, n) \in Nat
      /\ FloorOf(g, m) <= FloorOf(h, n)
  BY <1>1, FloorMonotone
<1>3. /\ Net(g, FloorOf(g, m), res) \in Int /\ Net(h, FloorOf(h, n), res) \in Int
      /\ Net(g, FloorOf(g, m), res) <= Net(h, FloorOf(h, n), res)
  BY <1>1, <1>2, NetMonotone
<1>4. /\ Scaled(Net(g, FloorOf(g, m), res), FloorOf(g, m), s) \in Int
      /\ Scaled(Net(h, FloorOf(h, n), res), FloorOf(h, n), s) \in Int
      /\ Scaled(Net(g, FloorOf(g, m), res), FloorOf(g, m), s)
         <= Scaled(Net(h, FloorOf(h, n), res), FloorOf(h, n), s)
  BY <1>2, <1>3, ScaledMonotone
<1> QED BY <1>4 DEF TotalFor, g, h

-----------------------------------------------------------------------------
(* The steps.                                                              *)

LEMMA InitCounters == Init => Counters
BY SizesAssumption DEF Init, Counters

LEMMA NextCounters == Counters /\ [Next]_vars => Counters'
<1> SUFFICES ASSUME Counters, [Next]_vars PROVE Counters'
  OBVIOUS
<1> USE SizesAssumption DEF Counters, scopes, shared, reads
<1>1. ASSUME NEW f \in Fit, Start(f) PROVE Counters'
  BY <1>1 DEF Start
<1>2. ASSUME NEW f \in Fit, NEW n \in Sizes, Reserve(f, n) PROVE Counters'
  BY <1>2 DEF Reserve
<1>3. ASSUME NEW f \in Fit, Replace(f) PROVE Counters'
  BY <1>3 DEF Replace
<1>4. ASSUME NEW f \in Fit, Release(f) PROVE Counters'
  BY <1>4 DEF Release
<1>5. ASSUME NEW f \in Fit, End(f) PROVE Counters'
  BY <1>5 DEF End
<1>6. ASSUME NEW n \in Totals, SetTotal(n) PROVE Counters'
  BY <1>6 DEF SetTotal
<1>7. CASE ScaleMoves
  BY <1>7 DEF ScaleMoves
<1>8. ASSUME NEW r \in Reader,
             ReadExplicit(r) \/ ReadFits(r) \/ ReadFloor(r) \/ ReadReserved(r) \/ ReadScale(r)
      PROVE  Counters'
  BY <1>8 DEF ReadExplicit, ReadFits, ReadFloor, ReadReserved, ReadScale
<1>9. CASE UNCHANGED vars
  BY <1>9 DEF vars
<1> QED
  BY <1>1, <1>2, <1>3, <1>4, <1>5, <1>6, <1>7, <1>8, <1>9 DEF Next

\* Only a fit that starts raises the count, and it moves nothing else.
LEMMA StartRaises ==
    Counters /\ [Next]_vars => (fits' > fits => Total' >= Total)
<1> SUFFICES ASSUME Counters, [Next]_vars, fits' > fits PROVE Total' >= Total
  OBVIOUS
<1>1. PICK f \in Fit : Start(f)
  <2> USE DEF scopes, shared, reads, Counters
  <2>1. ASSUME NEW g \in Fit, Replace(g) \/ Release(g) \/ End(g) PROVE fits' <= fits
    BY <2>1 DEF Replace, Release, End
  <2>2. ASSUME NEW g \in Fit, NEW n \in Sizes, Reserve(g, n) PROVE fits' <= fits
    BY <2>2 DEF Reserve
  <2>3. ASSUME NEW n \in Totals, SetTotal(n) PROVE fits' <= fits
    BY <2>3 DEF SetTotal
  <2>4. CASE ScaleMoves
    BY <2>4 DEF ScaleMoves
  <2>5. ASSUME NEW r \in Reader,
               ReadExplicit(r) \/ ReadFits(r) \/ ReadFloor(r) \/ ReadReserved(r) \/ ReadScale(r)
        PROVE  fits' <= fits
    BY <2>5 DEF ReadExplicit, ReadFits, ReadFloor, ReadReserved, ReadScale
  <2>6. CASE UNCHANGED vars
    BY <2>6 DEF vars
  <2>7. fits' \in Int
    BY NextCounters
  <2> QED BY <2>1, <2>2, <2>3, <2>4, <2>5, <2>6, <2>7 DEF Next
<1>2. explicit' = explicit /\ reserved' = reserved /\ scale' = scale /\ fits' = fits + 1
  BY <1>1 DEF Start
<1>3. Fits(fits) \in Int /\ Fits(fits + 1) \in Int /\ Fits(fits) <= Fits(fits + 1)
  BY DEF Counters, Fits, Most
<1>4. /\ TotalFor(explicit, Fits(fits), reserved, scale) \in Int
      /\ TotalFor(explicit, Fits(fits + 1), reserved, scale) \in Int
      /\ TotalFor(explicit, Fits(fits), reserved, scale)
         <= TotalFor(explicit, Fits(fits + 1), reserved, scale)
  BY <1>3, TotalMonotone DEF Counters
<1>5. Total' = TotalFor(explicit, Fits(fits + 1), reserved, scale)
  BY <1>2 DEF Total, TotalFor, Gross, Net, FloorOf, Scaled, AutoTotal, Fits, Most, Least
<1> QED BY <1>4, <1>5 DEF Total
\* Whatever fits start, reserve and end and however the scale moves, a fit that
\* starts leaves the caches of the process at least the total they had.
THEOREM EightFitsNeverGetLess == Spec => MoreFitsNeverLess
<1>1. Init => Counters
  BY InitCounters
<1>2. Counters /\ [Next]_vars => Counters'
  BY NextCounters
<1>3. Counters /\ [Next]_vars => [fits' > fits => Total' >= Total]_vars
  BY StartRaises
<1> QED BY <1>1, <1>2, <1>3, PTL DEF Spec, MoreFitsNeverLess

-----------------------------------------------------------------------------
(* The accounts.                                                           *)

\* The fits that count.
Counting == {f \in Fit : phase[f] \in {"running", "reserving", "ending"}}

\* The types, but for the two counters, whose signs are results.
Typed ==
    /\ explicit \in Totals /\ scale \in Scales
    /\ phase \in [Fit -> {"none", "running", "reserving", "ending", "ended"}]
    /\ own \in [Fit -> Sizes \cup {0}] /\ asked \in [Fit -> Sizes \cup {0}]
    /\ at \in [Reader -> {"idle", "fits", "floor", "reserved", "scale"}]
    /\ gross \in [Reader -> Nat] /\ floor \in [Reader -> Nat]
    /\ net \in [Reader -> Nat] /\ result \in [Reader -> Nat]

\* What a fit holds or asks for is gone with its scope.
Scoped ==
    \A f \in Fit : /\ phase[f] \notin {"running", "reserving"} => own[f] = 0
                   /\ phase[f] # "reserving" => asked[f] = 0

\* Between the two additions of reserve() both figures are in the sum.
Balanced ==
    /\ reserved = SumOver(own, Fit) + SumOver(asked, Fit)
    /\ fits = Cardinality(Counting)

\* The bounds of the locals of a total() under way, and of its answer.
Bounded(r) ==
    /\ at[r] \in {"reserved", "scale"} =>
           Floor <= floor[r] /\ floor[r] <= Most(Floor, gross[r])
    /\ at[r] = "scale" => floor[r] <= net[r] /\ net[r] <= Most(Floor, gross[r])
    /\ at[r] = "idle" /\ result[r] # 0 =>
           Floor <= result[r] /\ result[r] <= Most(Floor, gross[r])

Locals == \A r \in Reader : Bounded(r)

BInv == Typed /\ Scoped /\ Balanced /\ Locals

\* A scale of at most one makes nothing larger.
LEMMA DivExact ==
    ASSUME NEW n \in Nat, NEW w \in Nat \ {0}
    PROVE  (n * w) \div w = n
OBVIOUS

LEMMA ShareIsLess ==
    ASSUME NEW n \in Nat, NEW w \in Nat \ {0}, NEW s \in 0..w
    PROVE  (n * s) \div w \in Nat /\ (n * s) \div w <= n
<1>1. n * s \in Nat /\ n * w \in Nat
    OBVIOUS
<1>2. s * n <= w * n
    BY TimesMonotone
<1>3. n * s <= n * w
    BY <1>2
<1>4. (n * s) \div w <= (n * w) \div w
    BY <1>1, <1>3, DivMonotone
<1>5. (n * w) \div w = n
    BY DivExact
<1> QED
    BY <1>1, <1>4, <1>5

\* What a fit may hold is a number of bytes.
LEMMA SizesAreNat ==
    ASSUME NEW w \in [Fit -> Sizes \cup {0}], NEW f \in Fit
    PROVE  w[f] \in Nat /\ w[f] \in Int /\ w[f] \in Sizes \cup {0}
<1>1. w[f] \in Sizes \/ w[f] = 0
    OBVIOUS
<1>2. \A n \in Sizes : n \in Nat
    BY SizesAssumption
<1>3. w[f] \in Nat
    BY <1>1, <1>2
<1> QED
    BY <1>1, <1>3

\* The counters of a balanced account.
LEMMA BalancedCounts ==
    ASSUME Typed, Balanced
    PROVE  /\ reserved \in Nat /\ fits \in 0..Cardinality(Fit)
           /\ SumOver(own, Fit) \in Nat /\ SumOver(asked, Fit) \in Nat
<1>1. IsFiniteSet(Fit) /\ Sizes \subseteq Nat
    BY SizesAssumption
<1>2. (\A f \in Fit : own[f] \in Nat) /\ (\A f \in Fit : asked[f] \in Nat)
    BY SizesAreNat DEF Typed
<1>3. SumOver(own, Fit) \in Nat /\ SumOver(asked, Fit) \in Nat
    BY <1>1, <1>2, SumNatural
<1>4. IsFiniteSet(Counting) /\ Cardinality(Counting) <= Cardinality(Fit)
    BY <1>1, FS_Subset DEF Counting
<1>5. Cardinality(Counting) \in Nat /\ Cardinality(Fit) \in Nat
    BY <1>1, <1>4, FS_CardinalityType
<1> QED
    BY <1>3, <1>4, <1>5 DEF Balanced

LEMMA BInvInit == Init => BInv
<1> SUFFICES ASSUME Init PROVE BInv
    OBVIOUS
<1>1. Typed
    BY SizesAssumption DEF Init, Typed
<1>2. Scoped /\ Locals
    BY DEF Init, Scoped, Locals, Bounded
<1>3. Balanced
    <2>1. IsFiniteSet(Fit)
        BY SizesAssumption
    <2>2. (\A f \in Fit : own[f] = 0) /\ (\A f \in Fit : asked[f] = 0)
        BY DEF Init
    <2>3. SumOver(own, Fit) = 0 /\ SumOver(asked, Fit) = 0
        BY <2>1, <2>2, SumNatural
    <2>4. Counting = {} /\ Cardinality({}) = 0
        BY FS_EmptySet DEF Init, Counting
    <2> QED
        BY <2>3, <2>4 DEF Init, Balanced
<1> QED
    BY <1>1, <1>2, <1>3 DEF BInv

\* A total() moves on: none of its figures leaves its bounds.
LEMMA ReaderSteps ==
    ASSUME Typed, Locals, reserved \in Nat, fits \in Int, NEW r \in Reader,
           ReadExplicit(r) \/ ReadFits(r) \/ ReadFloor(r) \/ ReadReserved(r) \/ ReadScale(r)
    PROVE  Typed' /\ Locals'
<1> USE SizesAssumption
<1>0. Bounded(r) /\ Fits(fits) \in Nat
    BY DEF Locals, Fits, Most
<1>1. CASE ReadExplicit(r)
    BY <1>0, <1>1 DEF ReadExplicit, Typed, Locals, Bounded, shared, scopes
<1>2. CASE ReadFits(r)
    <2>1. AutoTotal(Fits(fits)) \in Nat
        BY <1>0, AutoTotalMonotone
    <2> QED
        BY <1>0, <1>2, <2>1 DEF ReadFits, Typed, Locals, Bounded, shared, scopes
<1>3. CASE ReadFloor(r)
    <2> DEFINE fl == FloorOf(gross[r], Fits(fits))
    <2>1. gross[r] \in Nat
        BY DEF Typed
    <2>2. Fits(fits) * Floor \in Nat
        BY <1>0
    <2>3. fl \in Nat /\ Floor <= fl /\ fl <= Most(Floor, gross[r])
        BY <2>1, <2>2 DEF FloorOf, Most, Least
    <2> HIDE DEF fl
    <2> QED
        BY <1>0, <1>3, <2>3 DEF ReadFloor, fl, Typed, Locals, Bounded, shared, scopes
<1>4. CASE ReadReserved(r)
    <2> DEFINE n == Net(gross[r], floor[r], reserved)
    <2>1. gross[r] \in Nat /\ floor[r] \in Nat /\ floor[r] <= Most(Floor, gross[r])
        BY <1>0, <1>4 DEF Typed, Bounded, ReadReserved
    <2>2. n \in Nat /\ floor[r] <= n /\ n <= Most(Floor, gross[r])
        BY <2>1 DEF Net, Most
    <2> HIDE DEF n
    <2> QED
        BY <1>0, <1>4, <2>2 DEF ReadReserved, n, Typed, Locals, Bounded, shared, scopes
<1>5. CASE ReadScale(r)
    <2> DEFINE x == Scaled(net[r], floor[r], scale)
    <2>1. /\ gross[r] \in Nat /\ floor[r] \in Nat /\ net[r] \in Nat
          /\ Floor <= floor[r] /\ floor[r] <= net[r] /\ net[r] <= Most(Floor, gross[r])
        BY <1>0, <1>5 DEF Typed, Bounded, ReadScale
    <2>2. scale \in Nat /\ scale <= Full /\ Full \in Nat \ {0}
        BY DEF Typed
    <2>3. (net[r] * scale) \div Full \in Nat /\ (net[r] * scale) \div Full <= net[r]
        BY <2>1, <2>2, ShareIsLess
    <2>4. x \in Nat /\ Floor <= x /\ x <= Most(Floor, gross[r])
        BY <2>1, <2>3 DEF Scaled, Most
    <2> HIDE DEF x
    <2> QED
        BY <1>0, <1>5, <2>4 DEF ReadScale, x, Typed, Locals, Bounded, shared, scopes
<1> QED
    BY <1>1, <1>2, <1>3, <1>4, <1>5

\* What a fit does to the two sums: one fit's figure changes, the rest stay.
LEMMA SumsMove ==
    ASSUME NEW v, NEW w, NEW f \in Fit, \A g \in Fit : w[g] \in Int,
           v[f] \in Int, SameOn(v, w, Fit \ {f})
    PROVE  /\ SumOver(v, Fit) = SumOver(w, Fit) + v[f] - w[f]
           /\ SumOver(v, Fit) \in Int /\ SumOver(w, Fit) \in Int
<1>1. IsFiniteSet(Fit)
    BY SizesAssumption
<1>2. SumOver(v, Fit) = SumOver(w, Fit) + v[f] - w[f]
    BY <1>1, SumChanged
<1>3. SumOver(w, Fit) \in Int /\ w[f] \in Int
    BY <1>1, SumPicked
<1> QED
    BY <1>2, <1>3

LEMMA HoldingMoves ==
    ASSUME NEW w \in [Fit -> Sizes \cup {0}], NEW f \in Fit, NEW n \in Nat,
           NEW v, v = [w EXCEPT ![f] = n]
    PROVE  SumOver(v, Fit) = SumOver(w, Fit) + n - w[f]
<1>1. v[f] = n /\ SameOn(v, w, Fit \ {f})
    BY DEF SameOn
<1>2. (\A g \in Fit : w[g] \in Int) /\ v[f] \in Int
    BY <1>1, SizesAreNat
<1> HIDE DEF SumOver
<1> QED
    BY <1>1, <1>2, SumsMove

\* A fit that starts or ends counts once more or once less.
LEMMA CountMoves ==
    ASSUME NEW f \in Fit, NEW C, C \subseteq Fit
    PROVE  /\ f \notin C => Cardinality(C \cup {f}) = Cardinality(C) + 1
           /\ f \in C => Cardinality(C \ {f}) = Cardinality(C) - 1
<1>1. IsFiniteSet(C)
    BY SizesAssumption, FS_Subset
<1> QED
    BY <1>1, FS_AddElement, FS_RemoveElement

\* A step of a fit keeps the account.
LEMMA FitSteps ==
    ASSUME Typed, Scoped, Balanced, NEW f \in Fit,
           Start(f) \/ Replace(f) \/ Release(f) \/ End(f) \/ \E n \in Sizes : Reserve(f, n)
    PROVE  Typed' /\ Scoped' /\ Balanced'
<1>0. /\ reserved \in Nat /\ fits \in Nat
      /\ SumOver(own, Fit) \in Nat /\ SumOver(asked, Fit) \in Nat
      /\ Sizes \subseteq Nat /\ own[f] \in Nat /\ asked[f] \in Nat
      /\ own \in [Fit -> Sizes \cup {0}] /\ asked \in [Fit -> Sizes \cup {0}]
      /\ reserved = SumOver(own, Fit) + SumOver(asked, Fit)
      /\ fits = Cardinality(Counting)
    <2>1. reserved \in Nat /\ fits \in 0..Cardinality(Fit)
          /\ SumOver(own, Fit) \in Nat /\ SumOver(asked, Fit) \in Nat
        BY BalancedCounts
    <2>2. Cardinality(Fit) \in Nat
        BY SizesAssumption, FS_CardinalityType
    <2> QED
        BY <2>1, <2>2, SizesAreNat, SizesAssumption DEF Typed, Balanced
<1>1. CASE Start(f)
    <2>1. Typed' /\ Scoped'
        BY <1>1 DEF Start, Typed, Scoped, reads
    <2>2. Counting' = Counting \cup {f} /\ f \notin Counting
        BY <1>1 DEF Start, Typed, Counting
    <2>3. Cardinality(Counting') = Cardinality(Counting) + 1
        BY <2>2, CountMoves DEF Counting
    <2>4. own' = own /\ asked' = asked /\ reserved' = reserved /\ fits' = fits + 1
        BY <1>1 DEF Start
    <2> QED
        BY <1>0, <2>1, <2>3, <2>4 DEF Balanced
<1>2. ASSUME NEW n \in Sizes, Reserve(f, n) PROVE Typed' /\ Scoped' /\ Balanced'
    <2>1. Typed' /\ Scoped'
        BY <1>2 DEF Reserve, Typed, Scoped, reads
    <2>2. Counting' = Counting
        BY <1>2 DEF Reserve, Typed, Counting
    <2>3. asked' = [asked EXCEPT ![f] = n] /\ n \in Nat
        BY <1>0, <1>2 DEF Reserve
    <2>0. own' = own /\ asked[f] = 0 /\ reserved' = reserved + n /\ fits' = fits
        BY <1>2 DEF Reserve, Scoped
    <2>4. SumOver(asked', Fit) = SumOver(asked, Fit) + n
        <3>1. SumOver(asked', Fit) = SumOver(asked, Fit) + n - asked[f]
            BY <1>0, <2>3, HoldingMoves, Zenon
        <3> QED
            BY <1>0, <2>0, <2>3, <3>1
    <2> QED
        BY <1>0, <2>0, <2>1, <2>2, <2>3, <2>4 DEF Balanced
<1>3. CASE Replace(f)
    <2>1. Typed' /\ Scoped'
        BY <1>0, <1>3 DEF Replace, Typed, Scoped, reads
    <2>2. Counting' = Counting
        BY <1>3 DEF Replace, Typed, Counting
    <2>3. /\ own' = [own EXCEPT ![f] = asked[f]] /\ asked' = [asked EXCEPT ![f] = 0]
          /\ reserved' = reserved - own[f] /\ fits' = fits
        BY <1>3 DEF Replace
    <2>4. SumOver(asked', Fit) = SumOver(asked, Fit) - asked[f]
        <3>1. SumOver(asked', Fit) = SumOver(asked, Fit) + 0 - asked[f]
            BY <1>0, <2>3, HoldingMoves, Zenon
        <3> QED
            BY <1>0, <2>3, <3>1
    <2>5. SumOver(own', Fit) = SumOver(own, Fit) + asked[f] - own[f]
        BY <1>0, <2>3, HoldingMoves
    <2> QED
        BY <1>0, <2>1, <2>2, <2>3, <2>4, <2>5 DEF Balanced
<1>4. CASE Release(f)
    <2>1. Typed' /\ Scoped'
        BY <1>0, <1>4 DEF Release, Typed, Scoped, reads
    <2>2. Counting' = Counting
        BY <1>4 DEF Release, Typed, Counting
    <2>3. /\ own' = [own EXCEPT ![f] = 0] /\ asked' = asked
          /\ reserved' = reserved - own[f] /\ fits' = fits
        BY <1>4 DEF Release
    <2>4. SumOver(own', Fit) = SumOver(own, Fit) - own[f]
        <3>1. SumOver(own', Fit) = SumOver(own, Fit) + 0 - own[f]
            BY <1>0, <2>3, HoldingMoves, Zenon
        <3> QED
            BY <1>0, <2>3, <3>1
    <2> QED
        BY <1>0, <2>1, <2>2, <2>3, <2>4 DEF Balanced
<1>5. CASE End(f)
    <2>1. Typed' /\ Scoped'
        BY <1>5 DEF End, Typed, Scoped, reads
    <2>2. Counting' = Counting \ {f} /\ f \in Counting
        BY <1>5 DEF End, Typed, Counting
    <2>3. Cardinality(Counting') = Cardinality(Counting) - 1
        BY <2>2, CountMoves DEF Counting
    <2>4. own' = own /\ asked' = asked /\ reserved' = reserved /\ fits' = fits - 1
        BY <1>5 DEF End
    <2> QED
        BY <1>0, <2>1, <2>3, <2>4 DEF Balanced
<1> QED
    BY <1>1, <1>2, <1>3, <1>4, <1>5

LEMMA BInvNext == BInv /\ [Next]_vars => BInv'
<1> SUFFICES ASSUME BInv, [Next]_vars PROVE BInv'
    OBVIOUS
<1>0. Typed /\ Scoped /\ Balanced /\ Locals
    BY DEF BInv
<1>1. ASSUME NEW f \in Fit,
             Start(f) \/ Replace(f) \/ Release(f) \/ End(f) \/ \E n \in Sizes : Reserve(f, n)
      PROVE  BInv'
    <2>1. Typed' /\ Scoped' /\ Balanced'
        BY <1>0, <1>1, FitSteps
    <2>2. UNCHANGED reads
        BY <1>1 DEF Start, Replace, Release, End, Reserve
    <2>3. Locals'
        BY <1>0, <2>2 DEF Locals, Bounded, reads
    <2> QED
        BY <2>1, <2>3 DEF BInv
<1>2. ASSUME NEW r \in Reader,
             ReadExplicit(r) \/ ReadFits(r) \/ ReadFloor(r) \/ ReadReserved(r) \/ ReadScale(r)
      PROVE  BInv'
    <2>1. Typed' /\ Locals'
        <3>1. reserved \in Nat /\ fits \in Int
            BY <1>0, BalancedCounts
        <3> QED
            BY <1>0, <1>2, <3>1, ReaderSteps
    <2>2. UNCHANGED <<shared, scopes>>
        BY <1>2 DEF ReadExplicit, ReadFits, ReadFloor, ReadReserved, ReadScale
    <2>3. Scoped' /\ Balanced'
        BY <1>0, <2>2 DEF Scoped, Balanced, Counting, shared, scopes
    <2> QED
        BY <2>1, <2>3 DEF BInv
<1>3. CASE \/ \E n \in Totals : SetTotal(n)
           \/ ScaleMoves
           \/ UNCHANGED vars
    <2>1. /\ explicit' \in Totals /\ scale' \in Scales
          /\ UNCHANGED <<fits, reserved, scopes, reads>>
        BY <1>0, <1>3 DEF SetTotal, ScaleMoves, vars, shared, Typed
    <2>2. Typed' /\ Scoped' /\ Balanced'
        BY <1>0, <2>1 DEF Typed, Scoped, Balanced, Counting, scopes, reads
    <2>3. Locals'
        BY <1>0, <2>1 DEF Locals, Bounded, reads
    <2> QED
        BY <2>2, <2>3 DEF BInv
<1> QED
    BY <1>1, <1>2, <1>3 DEF Next

LEMMA BInvAccounts == BInv => TypeOK /\ Accounts
<1> SUFFICES ASSUME BInv PROVE TypeOK /\ Accounts
    OBVIOUS
<1>0. Typed /\ Scoped /\ Balanced /\ Locals
    BY DEF BInv
<1>1. /\ reserved \in Nat /\ fits \in 0..Cardinality(Fit)
      /\ SumOver(own, Fit) \in Nat /\ SumOver(asked, Fit) \in Nat
    BY <1>0, BalancedCounts
<1>2. TypeOK
    BY <1>0, <1>1 DEF TypeOK, Typed
<1>3. reserved >= MapThenSumSet(LAMBDA f : own[f], Fit)
    <2>1. reserved >= SumOver(own, Fit)
        BY <1>0, <1>1 DEF Balanced
    <2> QED
        BY <2>1 DEF SumOver, MapThenSumSet, MapThenFoldSet
<1>4. ASSUME \A f \in Fit : phase[f] \in {"none", "ended"} PROVE fits = 0 /\ reserved = 0
    <2>1. (\A f \in Fit : own[f] = 0) /\ (\A f \in Fit : asked[f] = 0)
        BY <1>0, <1>4 DEF Scoped
    <2>2. SumOver(own, Fit) = 0 /\ SumOver(asked, Fit) = 0
        BY <2>1, SumNatural, SizesAssumption
    <2>3. Counting = {} /\ Cardinality({}) = 0
        BY <1>4, FS_EmptySet DEF Counting
    <2> QED
        BY <1>0, <2>2, <2>3 DEF Balanced
<1>5. ASSUME NEW r \in Reader, at[r] = "idle", result[r] # 0
      PROVE  result[r] \in Floor..Most(Floor, gross[r])
    <2>1. result[r] \in Nat /\ gross[r] \in Nat
        BY <1>0 DEF Typed
    <2>2. Floor <= result[r] /\ result[r] <= Most(Floor, gross[r])
        BY <1>0, <1>5 DEF Locals, Bounded
    <2> QED
        BY <2>1, <2>2, SizesAssumption DEF Most
<1> QED
    BY <1>2, <1>3, <1>4, <1>5 DEF Accounts

\* However many fits start, reserve, reserve again and end, in any interleaving
\* of the atomic additions, no reservation is ever missing from the sum, nothing
\* is left of fits that are gone, and a total() keeps between kFloor and the
\* gross budget it began with.
THEOREM AccountsKept == Spec => []Accounts
BY BInvInit, BInvNext, BInvAccounts, PTL DEF Spec

-----------------------------------------------------------------------------
(* The pressure valve.                                                     *)

\* Threads at the door whose clock reading is older than the last sample.
Late == {r \in Sampler : pc[r] \in {"load", "claim"} /\ now[r] > stamp}

VTyped ==
    /\ stamp \in 0..Valve!MaxAge
    /\ valve \in MinScale..Whole
    /\ free \in Valve!Levels
    /\ pc \in [Sampler -> {"idle", "load", "claim", "read", "scale", "store"}]
    /\ now \in [Sampler -> 0..MaxStall]
    /\ current \in [Sampler -> BOOLEAN]
    /\ seen \in [Sampler -> Valve!Levels]
    /\ loaded \in [Sampler -> MinScale..Whole]
    /\ extra \in Nat

\* As long as the stamp a thread loaded stands, what it found of it holds: one
\* interval old at least, or younger than its own reading.
Spaced ==
    \A r \in Sampler : pc[r] = "claim" /\ current[r] =>
        (stamp - now[r] < 0 \/ stamp - now[r] >= Interval)

\* Every sample out of turn uses up a late thread, and a sample in turn leaves
\* one thread that is not late: itself.
Few == extra + Cardinality(Late) < Cardinality(Sampler)

VInv == VTyped /\ Spaced /\ Few

\* The valve counts the same way.
LEMMA SameCounts ==
    /\ Valve!Cardinality(Sampler) = Cardinality(Sampler)
    /\ Valve!IsFiniteSet(Sampler) <=> IsFiniteSet(Sampler)
BY DEF Valve!Cardinality, Cardinality, Valve!IsFiniteSet, IsFiniteSet

LEMMA ValveConstants ==
    /\ IsFiniteSet(Sampler) /\ Sampler # {} /\ Cardinality(Sampler) \in Nat
    /\ Interval \in Nat \ {0} /\ MaxStall \in Nat
    /\ MinScale \in Nat \ {0} /\ Whole \in Nat /\ MinScale <= Whole
    /\ Valve!MaxAge = Interval + MaxStall
BY ValveAssumed, SameCounts, FS_CardinalityType DEF Valve!ValveAssumption, Valve!MaxAge

\* Fewer late threads are no more of them.
LEMMA LateCounts ==
    ASSUME NEW L, NEW M, M \subseteq Sampler, L \subseteq M
    PROVE  /\ Cardinality(L) \in Nat /\ Cardinality(M) \in Nat
           /\ Cardinality(L) <= Cardinality(M)
           /\ \A r \in M \ L : Cardinality(L) < Cardinality(M)
<1>1. IsFiniteSet(M) /\ IsFiniteSet(L)
    BY ValveConstants, FS_Subset
<1>2. Cardinality(L) \in Nat /\ Cardinality(M) \in Nat /\ Cardinality(L) <= Cardinality(M)
    BY <1>1, FS_Subset, FS_CardinalityType
<1>3. Cardinality(L) = Cardinality(M) => L = M
    BY <1>1, FS_Subset
<1> QED
    BY <1>2, <1>3

LEMMA VInvInit == Valve!Init => VInv
<1> SUFFICES ASSUME Valve!Init PROVE VInv
    OBVIOUS
<1>1. VTyped /\ Spaced
    <2>1. VTyped
        BY ValveConstants DEF Valve!Init, Valve!Levels, VTyped
    <2>2. Spaced
        BY DEF Valve!Init, Spaced
    <2> QED
        BY <2>1, <2>2
<1>2. Late = {} /\ Cardinality({}) = 0 /\ Cardinality(Sampler) # 0
    BY ValveConstants, FS_EmptySet DEF Valve!Init, Late
<1>3. extra = 0
    BY DEF Valve!Init
<1> QED
    BY <1>1, <1>2, <1>3, ValveConstants DEF VInv, Few

\* Steps that leave the stamp and the counter, and make nobody late.
LEMMA QuietlyFew ==
    ASSUME Few, extra' = extra, extra \in Nat, Late' \subseteq Late
    PROVE  Few'
<1>1. /\ Cardinality(Late) \in Nat /\ Cardinality(Late') \in Nat
      /\ Cardinality(Late') <= Cardinality(Late)
    BY LateCounts DEF Late
<1> QED
    BY <1>1, ValveConstants DEF Few

LEMMA ClaimKeeps ==
    ASSUME VInv, NEW r \in Sampler, Valve!Claim(r)
    PROVE  VInv'
<1> USE ValveConstants
<1>0. VTyped /\ Spaced /\ Few
    BY DEF VInv
<1>1. stamp \in Int /\ extra \in Nat /\ (\A u \in Sampler : now[u] \in Nat /\ now[u] <= MaxStall)
    BY <1>0 DEF VTyped
<1>2. CASE ~current[r]
    <2>1. /\ pc' = [pc EXCEPT ![r] = "idle"] /\ now' = [now EXCEPT ![r] = 0]
          /\ UNCHANGED <<stamp, extra, current, valve, free, seen, loaded>>
        BY <1>2 DEF Valve!Claim
    <2>2. VTyped' /\ Spaced'
        BY <1>0, <2>1 DEF VTyped, Spaced
    <2>3. Late' \subseteq Late
        BY <1>0, <2>1 DEF Late, VTyped
    <2> QED
        BY <1>0, <1>1, <2>1, <2>2, <2>3, QuietlyFew DEF VInv
<1>3. CASE current[r]
    <2>0. /\ stamp' = now[r] /\ now' = [now EXCEPT ![r] = 0] /\ pc[r] = "claim"
          /\ current' = [u \in Sampler |-> u # r /\ current[u] /\ stamp = now[r]]
          /\ pc' = [pc EXCEPT ![r] = "read"]
          /\ extra' = IF stamp - now[r] >= Interval THEN 0
                      ELSE Valve!Smaller(extra, Cardinality(Sampler)) + 1
          /\ UNCHANGED <<valve, free, seen, loaded>>
        BY <1>3, SameCounts DEF Valve!Claim, Valve!Elapsed
    <2>1. VTyped'
        BY <1>0, <2>0 DEF VTyped, Valve!Smaller
    <2>2. Spaced'
        BY <1>0, <2>0 DEF VTyped, Spaced
    <2>3. Late \subseteq Sampler /\ Late' \subseteq Sampler
        BY DEF Late
    <2>4. r \notin Late'
        BY <1>0, <2>0 DEF Late, VTyped
    <2>5. CASE stamp - now[r] >= Interval
        <3>1. extra' = 0
            BY <2>0, <2>5
        <3>2. Cardinality(Late') < Cardinality(Sampler) /\ Cardinality(Late') \in Nat
            BY <2>3, <2>4, LateCounts
        <3> QED
            BY <2>1, <2>2, <3>1, <3>2 DEF VInv, Few
    <2>6. CASE ~(stamp - now[r] >= Interval)
        <3>1. stamp - now[r] < 0
            BY <1>0, <1>3, <2>0, <2>6 DEF Spaced
        <3>2. r \in Late
            BY <1>0, <1>1, <2>0, <3>1 DEF Late
        <3>3. Late' \subseteq Late
            BY <1>0, <1>1, <2>0, <3>1 DEF Late, VTyped
        <3>4. /\ Cardinality(Late') < Cardinality(Late)
              /\ Cardinality(Late') \in Nat /\ Cardinality(Late) \in Nat
            BY <2>3, <2>4, <3>2, <3>3, LateCounts
        <3>5. extra + Cardinality(Late) < Cardinality(Sampler)
            BY <1>0 DEF Few
        <3>6. extra' = extra + 1
            BY <1>1, <2>0, <2>6, <3>4, <3>5 DEF Valve!Smaller
        <3> QED
            BY <1>1, <2>1, <2>2, <3>4, <3>5, <3>6 DEF VInv, Few
    <2> QED
        BY <2>5, <2>6
<1> QED
    BY <1>2, <1>3

LEMMA TickKeeps ==
    ASSUME VInv, Valve!Tick
    PROVE  VInv'
<1> USE ValveConstants
<1>0. VTyped /\ Spaced /\ Few
    BY DEF VInv
<1>1. /\ \A r \in Valve!Waiting : now[r] < MaxStall
      /\ stamp' = IF stamp + 1 > Interval + MaxStall THEN Interval + MaxStall ELSE stamp + 1
      /\ now' = [r \in Sampler |-> IF r \in Valve!Waiting THEN now[r] + 1 ELSE now[r]]
      /\ UNCHANGED <<valve, free, pc, current, seen, loaded, extra>>
    BY <1>0 DEF Valve!Tick, Valve!Smaller, VTyped
<1>2. stamp \in 0..(Interval + MaxStall) /\ (\A r \in Sampler : now[r] \in 0..MaxStall)
    BY <1>0 DEF VTyped
<1>3. stamp' \in 0..(Interval + MaxStall) /\ (\A r \in Sampler : now'[r] \in 0..MaxStall)
    BY <1>1, <1>2 DEF Valve!Waiting
<1>4. VTyped'
    BY <1>0, <1>1, <1>3 DEF VTyped
<1>5. \A r \in Sampler : pc[r] \in {"load", "claim"} =>
          \/ stamp' - now'[r] = stamp - now[r]
          \/ stamp' = Interval + MaxStall /\ stamp' - now'[r] >= Interval
    BY <1>1, <1>2, <1>3 DEF Valve!Waiting
<1>6. Spaced'
    BY <1>0, <1>1, <1>2, <1>3, <1>5 DEF Spaced
<1>7. Late' \subseteq Late
    BY <1>0, <1>1, <1>2, <1>3, <1>5 DEF Late
<1> QED
    BY <1>0, <1>1, <1>4, <1>6, <1>7, QuietlyFew DEF VInv, VTyped

LEMMA VInvNext == VInv /\ [Valve!Next]_valveVars => VInv'
<1> SUFFICES ASSUME VInv, [Valve!Next]_valveVars PROVE VInv'
    OBVIOUS
<1> USE ValveConstants
<1>0. VTyped /\ Spaced /\ Few /\ extra \in Nat
    BY DEF VInv, VTyped
<1>1. ASSUME NEW r \in Sampler, Valve!ReadClock(r) PROVE VInv'
    <2>1. VTyped'
        BY <1>0, <1>1 DEF Valve!ReadClock, VTyped
    <2>2. Spaced'
        BY <1>0, <1>1 DEF Valve!ReadClock, VTyped, Spaced
    <2>3. Late' \subseteq Late
        BY <1>0, <1>1 DEF Valve!ReadClock, VTyped, Late
    <2> QED
        BY <1>0, <1>1, <2>1, <2>2, <2>3, QuietlyFew DEF VInv, Valve!ReadClock
<1>2. ASSUME NEW r \in Sampler, Valve!Check(r) PROVE VInv'
    <2>0. /\ pc[r] = "load" /\ UNCHANGED <<stamp, valve, free, seen, loaded, extra>>
          /\ pc' = [pc EXCEPT ![r] = IF Valve!TooSoon(r) THEN "idle" ELSE "claim"]
          /\ current' = [current EXCEPT ![r] = ~Valve!TooSoon(r)]
          /\ now' = IF Valve!TooSoon(r) THEN [now EXCEPT ![r] = 0] ELSE now
        BY <1>2 DEF Valve!Check
    <2>1. VTyped'
        BY <1>0, <2>0 DEF VTyped
    <2>2. Spaced'
        BY <1>0, <2>0 DEF Valve!TooSoon, Valve!Elapsed, VTyped, Spaced
    <2>3. Late' \subseteq Late
        BY <1>0, <2>0 DEF VTyped, Late
    <2> QED
        BY <1>0, <2>0, <2>1, <2>2, <2>3, QuietlyFew DEF VInv
<1>3. ASSUME NEW r \in Sampler, Valve!Claim(r) PROVE VInv'
    BY <1>3, ClaimKeeps
<1>4. ASSUME NEW r \in Sampler,
             Valve!ReadFree(r) \/ Valve!LoadScale(r) \/ Valve!StoreScale(r)
      PROVE  VInv'
    <2>0. /\ pc[r] \in {"read", "scale", "store"} /\ pc' = [pc EXCEPT ![r] = pc'[r]]
          /\ pc'[r] \in {"idle", "scale", "store"}
          /\ UNCHANGED <<stamp, free, now, current, extra>>
        BY <1>0, <1>4 DEF Valve!ReadFree, Valve!LoadScale, Valve!StoreScale, VTyped
    <2>1. valve' \in MinScale..Whole
        <3>1. Valve!Adjusted(loaded[r], seen[r]) \in MinScale..Whole
            <4>1. seen[r] \in {"low", "between", "high"} /\ loaded[r] \in MinScale..Whole
                BY <1>0 DEF VTyped, Valve!Levels
            <4> QED
                BY <4>1 DEF Valve!Adjusted, Valve!Larger, Valve!Smaller
        <3> QED
            BY <1>0, <1>4, <3>1 DEF Valve!ReadFree, Valve!LoadScale, Valve!StoreScale, VTyped
    <2>2. seen' \in [Sampler -> Valve!Levels] /\ loaded' \in [Sampler -> MinScale..Whole]
        BY <1>0, <1>4 DEF Valve!ReadFree, Valve!LoadScale, Valve!StoreScale, VTyped, Valve!Levels
    <2>3. VTyped'
        BY <1>0, <2>0, <2>1, <2>2 DEF VTyped
    <2>4. Spaced'
        BY <1>0, <2>0 DEF VTyped, Spaced
    <2>5. Late' \subseteq Late
        BY <1>0, <2>0 DEF VTyped, Late
    <2> QED
        BY <1>0, <2>0, <2>3, <2>4, <2>5, QuietlyFew DEF VInv
<1>5. CASE Valve!Tick
    BY <1>5, TickKeeps
<1>6. CASE Valve!FreeMoves \/ UNCHANGED valveVars
    <2>1. free' \in Valve!Levels /\ UNCHANGED <<stamp, valve, pc, now, current, seen, loaded, extra>>
        BY <1>0, <1>6 DEF Valve!FreeMoves, valveVars, VTyped
    <2>2. VTyped' /\ Spaced' /\ Late' = Late
        BY <1>0, <2>1 DEF VTyped, Spaced, Late
    <2> QED
        BY <1>0, <2>1, <2>2 DEF VInv, Few
<1> QED
    BY <1>1, <1>2, <1>3, <1>4, <1>5, <1>6 DEF Valve!Next, Valve!Step

LEMMA VInvBounds == VInv => Valve!TypeOK /\ BurstBounded
<1> SUFFICES ASSUME VInv PROVE Valve!TypeOK /\ BurstBounded
    OBVIOUS
<1>1. VTyped /\ Few
    BY DEF VInv
<1>2. Cardinality(Late) \in Nat /\ Late \subseteq Sampler
    BY LateCounts DEF Late
<1>3. extra \in Nat /\ extra < Cardinality(Sampler)
    BY <1>1, <1>2, ValveConstants DEF VTyped, Few
<1> QED
    BY <1>1, <1>3, SameCounts, ValveConstants DEF VTyped, Valve!TypeOK, BurstBounded, Valve!BurstBounded

-----------------------------------------------------------------------------
(* The composition.                                                        *)

Both == BInv /\ VInv

LEMMA BothInvariant == MCSpec => []Both
<1>1. MCInit => Both
    BY BInvInit, VInvInit DEF MCInit, Both
<1>2. ASSUME Both, [MCNext]_all PROVE Both'
    <2>1. [Next]_vars /\ [Valve!Next]_valveVars
        BY <1>2 DEF MCNext, BudgetRuns, ValveRuns, all
    <2> QED
        BY <1>2, <2>1, BInvNext, VInvNext DEF Both
<1> QED
    BY <1>1, <1>2, PTL DEF MCSpec

\* The budget and its valve keep their types; in particular reserved_ and fits_
\* never wrap below zero and the scale stays between kMinScale and one.
THEOREM BudgetTypes == MCSpec => []TypesOK
<1>1. Both => TypesOK
    BY BInvAccounts, VInvBounds DEF Both, TypesOK
<1> QED
    BY <1>1, BothInvariant, PTL

\* However many threads read the budget and however they stall between reading
\* the clock and taking the stamp, an interval sees at most one sample out of
\* turn from every thread but one.
THEOREM BurstsBounded == MCSpec => []BurstBounded
<1>1. Both => BurstBounded
    BY VInvBounds DEF Both
<1> QED
    BY <1>1, BothInvariant, PTL
=============================================================================
