---------------------------- MODULE MemoryBudget ----------------------------
(***************************************************************************)
(* The process-wide memory budget (MemoryBudget.hpp, MemoryBudget.cpp):    *)
(* fits register for as long as they run and reserve what they hold outside*)
(* the caches; the caches ask, while all this moves, what they may hold.   *)
(*                                                                         *)
(* Nothing is locked.  Each field is an atomic of its own, so total() sees *)
(* each at a different moment, and reserve() is two atomic additions: one  *)
(* action is one atomic access.  The pressure valve, which total() runs    *)
(* first, is the module PressureValve; here scale_ is what it leaves.      *)
(***************************************************************************)
EXTENDS Integers, FiniteSetsExt

CONSTANTS
    Fit,          \* MemoryBudget::Fit objects
    Reader,       \* threads asking for the total
    Sizes,        \* bytes a fit reserves
    Totals,       \* arguments of set_total, 0 for the automatic value
    FreeShare,    \* kFractionOfAvailable of detected_, 0 if unknown
    Modest,       \* auto_total of a machine that tells nothing
    Floor,        \* kFloor
    Ceiling,      \* kCeiling
    Full,         \* a scale of 1.0
    Scales        \* values scale_ takes, out of Full

ASSUME SizesAssumption ==
    /\ IsFiniteSet(Fit)
    /\ Sizes \subseteq Nat /\ Sizes # {}
    /\ Totals \subseteq Nat /\ 0 \in Totals
    /\ FreeShare \in Nat /\ Modest \in Nat
    /\ Floor \in Nat /\ Ceiling \in Nat /\ Floor <= Ceiling
    /\ Full \in Nat \ {0}
    /\ Scales \subseteq 1..Full /\ Full \in Scales

VARIABLES
    explicit,     \* explicit_
    fits,         \* fits_
    reserved,     \* reserved_
    scale,        \* scale_
    phase,        \* phase[f]: where the scope of f is
    own,          \* own[f]: its reserved_
    asked,        \* asked[f]: the argument of the reserve() under way
    at,           \* at[r]: the load total() makes next
    gross, floor, net, result   \* the locals of each reader's total()

shared == <<explicit, fits, reserved, scale>>
scopes == <<phase, own, asked>>
reads  == <<at, gross, floor, net, result>>
vars   == <<shared, scopes, reads>>

TypeOK ==
    /\ explicit \in Totals /\ scale \in Scales
    /\ fits \in 0..Cardinality(Fit) /\ reserved \in Nat
    /\ phase \in [Fit -> {"none", "running", "reserving", "ending", "ended"}]
    /\ own \in [Fit -> Sizes \cup {0}] /\ asked \in [Fit -> Sizes \cup {0}]
    /\ at \in [Reader -> {"idle", "fits", "floor", "reserved", "scale"}]
    /\ gross \in [Reader -> Nat] /\ floor \in [Reader -> Nat]
    /\ net \in [Reader -> Nat] /\ result \in [Reader -> Nat]

Init ==
    /\ explicit \in Totals /\ fits = 0 /\ reserved = 0 /\ scale = Full
    /\ phase = [f \in Fit |-> "none"]
    /\ own = [f \in Fit |-> 0] /\ asked = [f \in Fit |-> 0]
    /\ at = [r \in Reader |-> "idle"]
    /\ gross = [r \in Reader |-> 0] /\ floor = [r \in Reader |-> 0]
    /\ net = [r \in Reader |-> 0] /\ result = [r \in Reader |-> 0]

-----------------------------------------------------------------------------
(* The figures, for n = fits() fits in flight.                             *)

Least(a, b) == IF a < b THEN a ELSE b
Most(a, b) == IF a > b THEN a ELSE b

\* fits(): a cache used outside any fit gets one fit's worth.
Fits(count) == Most(1, count)

\* Mutant of AutoTotal: free memory is divided between the fits.
AutoTotalDivided(n) ==
    IF FreeShare = 0 THEN Modest
    ELSE Most(Floor, Least(FreeShare \div n, n * Ceiling))

AutoTotal(n) ==
    IF FreeShare = 0 THEN Modest
    ELSE Most(Floor, Least(FreeShare, n * Ceiling))

Gross(set, n) == IF set # 0 THEN set ELSE AutoTotal(n)

FloorOf(g, n) == Most(Floor, Least(n * Floor, g))

\* Mutant of Net: the reservations come off without regard for the floor.
NetUnfloored(g, fl, res) == g - res

Net(g, fl, res) == IF g > res + fl THEN g - res ELSE fl

Scaled(n, fl, s) == Most(fl, (n * s) \div Full)

\* total() when nothing moves while it runs.
TotalFor(set, n, res, s) ==
    LET g == Gross(set, n)
    IN  Scaled(Net(g, FloorOf(g, n), res), FloorOf(g, n), s)
Total == TotalFor(explicit, Fits(fits), reserved, scale)

-----------------------------------------------------------------------------
(* Fits in flight.                                                         *)

\* Fit::Fit
Start(f) ==
    /\ phase[f] = "none"
    /\ fits' = fits + 1
    /\ phase' = [phase EXCEPT ![f] = "running"]
    /\ UNCHANGED <<explicit, reserved, scale, own, asked, reads>>

\* Fit::reserve: the new reservation is added ...
Reserve(f, n) ==
    /\ phase[f] = "running"
    /\ reserved' = reserved + n
    /\ asked' = [asked EXCEPT ![f] = n]
    /\ phase' = [phase EXCEPT ![f] = "reserving"]
    /\ UNCHANGED <<explicit, fits, scale, own, reads>>

\* ... before the one it replaces is taken off.
Replace(f) ==
    /\ phase[f] = "reserving"
    /\ reserved' = reserved - own[f]
    /\ own' = [own EXCEPT ![f] = asked[f]]
    /\ asked' = [asked EXCEPT ![f] = 0]
    /\ phase' = [phase EXCEPT ![f] = "running"]
    /\ UNCHANGED <<explicit, fits, scale, reads>>

\* Mutant of Release: the scope ends without returning its reservation.
ReleaseNothing(f) ==
    /\ phase[f] = "running"
    /\ own' = [own EXCEPT ![f] = 0]
    /\ phase' = [phase EXCEPT ![f] = "ending"]
    /\ UNCHANGED <<shared, asked, reads>>

\* Fit::~Fit returns the reservation, however the fit ended ...
Release(f) ==
    /\ phase[f] = "running"
    /\ reserved' = reserved - own[f]
    /\ own' = [own EXCEPT ![f] = 0]
    /\ phase' = [phase EXCEPT ![f] = "ending"]
    /\ UNCHANGED <<explicit, fits, scale, asked, reads>>

\* ... and only then stops counting.
End(f) ==
    /\ phase[f] = "ending"
    /\ fits' = fits - 1
    /\ phase' = [phase EXCEPT ![f] = "ended"]
    /\ UNCHANGED <<explicit, reserved, scale, own, asked, reads>>

SetTotal(n) ==
    /\ explicit' = n
    /\ UNCHANGED <<fits, reserved, scale, scopes, reads>>

\* The pressure valve stores a new scale.
ScaleMoves ==
    /\ scale' \in Scales
    /\ UNCHANGED <<explicit, fits, reserved, scopes, reads>>

-----------------------------------------------------------------------------
(* total(), one load at a time.                                            *)

\* explicit_, which if set is the gross budget.
ReadExplicit(r) ==
    /\ at[r] = "idle"
    /\ gross' = [gross EXCEPT ![r] = explicit]
    /\ at' = [at EXCEPT ![r] = IF explicit = 0 THEN "fits" ELSE "floor"]
    /\ UNCHANGED <<shared, scopes, floor, net, result>>

\* fits_, for auto_total.
ReadFits(r) ==
    /\ at[r] = "fits"
    /\ gross' = [gross EXCEPT ![r] = AutoTotal(Fits(fits))]
    /\ at' = [at EXCEPT ![r] = "floor"]
    /\ UNCHANGED <<shared, scopes, floor, net, result>>

\* fits_ again, for floor_.
ReadFloor(r) ==
    /\ at[r] = "floor"
    /\ floor' = [floor EXCEPT ![r] = FloorOf(gross[r], Fits(fits))]
    /\ at' = [at EXCEPT ![r] = "reserved"]
    /\ UNCHANGED <<shared, scopes, gross, net, result>>

ReadReserved(r) ==
    /\ at[r] = "reserved"
    /\ net' = [net EXCEPT ![r] = Net(gross[r], floor[r], reserved)]
    /\ at' = [at EXCEPT ![r] = "scale"]
    /\ UNCHANGED <<shared, scopes, gross, floor, result>>

ReadScale(r) ==
    /\ at[r] = "scale"
    /\ result' = [result EXCEPT ![r] = Scaled(net[r], floor[r], scale)]
    /\ at' = [at EXCEPT ![r] = "idle"]
    /\ floor' = [floor EXCEPT ![r] = 0] /\ net' = [net EXCEPT ![r] = 0]
    /\ UNCHANGED <<shared, scopes, gross>>

-----------------------------------------------------------------------------
Next ==
    \/ \E f \in Fit : Start(f) \/ Replace(f) \/ Release(f) \/ End(f)
    \/ \E f \in Fit, n \in Sizes : Reserve(f, n)
    \/ \E n \in Totals : SetTotal(n)
    \/ ScaleMoves
    \/ \E r \in Reader : ReadExplicit(r) \/ ReadFits(r) \/ ReadFloor(r)
                         \/ ReadReserved(r) \/ ReadScale(r)

Spec == Init /\ [][Next]_vars

-----------------------------------------------------------------------------
(* Properties.                                                             *)

\* What the fits hold and what is read of it.  A reservation that replaces
\* another is never missing from the sum, not even between the two additions of
\* reserve(): a cache that reads the budget then sees too little room, never too
\* much.  Once every fit has ended, in whatever order releases and reservations
\* interleaved, nothing of them is left.  And the mixture of old and new figures
\* a total() computes while all this moves lies between kFloor and the gross
\* budget it began with (or kFloor, if that is below it).
Accounts ==
    /\ reserved >= MapThenSumSet(LAMBDA f : own[f], Fit)
    /\ (\A f \in Fit : phase[f] \in {"none", "ended"}) => fits = 0 /\ reserved = 0
    /\ \A r \in Reader : at[r] = "idle" /\ result[r] # 0 =>
           result[r] \in Floor..Most(Floor, gross[r])

\* A fit that starts never takes room from the caches ("eight fits never get
\* less", test_memory_budget.cpp): the total of the moment does not fall.
MoreFitsNeverLess == [][fits' > fits => Total' >= Total]_vars
=============================================================================
