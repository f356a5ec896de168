--------------------------- MODULE PressureValve ---------------------------
(***************************************************************************)
(* MemoryBudget::refresh_pressure_: every thread that reads the budget may *)
(* be the one that samples the machine's free memory and moves scale_, at  *)
(* most one per interval.  The clock, the stamp of the last sample and     *)
(* scale_ are read and written by relaxed atomics, one action each.        *)
(*                                                                         *)
(* Only differences of times matter, so a time is kept as its age in       *)
(* ticks, and what is older than MaxAge counts as MaxAge.                  *)
(***************************************************************************)
EXTENDS Integers, FiniteSets

CONSTANTS
    Reader,       \* threads calling total()
    Interval,     \* 250 ms, in ticks
    MaxStall,     \* bound: ticks a thread takes from reading the clock to
                  \* leaving the sampler's door
    MinScale,     \* kMinScale, out of Full
    Full          \* a scale of 1.0

ValveAssumption ==
    /\ IsFiniteSet(Reader) /\ Reader # {}
    /\ Interval \in Nat \ {0} /\ MaxStall \in Nat
    /\ MinScale \in Nat \ {0} /\ Full \in Nat /\ MinScale <= Full

MaxAge == Interval + MaxStall
Levels == {"low", "between", "high"}

VARIABLES
    stamp,        \* age of last_sample_ms_
    scale,        \* scale_
    free,         \* the machine's free memory, against the two marks
    pc,           \* where each thread is in refresh_pressure_
    now,          \* age of its now_ms
    current,      \* last_sample_ms_ still has the value it loaded
    seen,         \* the free memory it read
    loaded,       \* the scale it loaded
    extra         \* auxiliary: samples since the last one that kept its distance

vars == <<stamp, scale, free, pc, now, current, seen, loaded, extra>>

TypeOK ==
    /\ stamp \in 0..MaxAge
    /\ scale \in MinScale..Full
    /\ free \in Levels
    /\ pc \in [Reader -> {"idle", "load", "claim", "read", "scale", "store"}]
    /\ now \in [Reader -> 0..MaxStall]
    /\ current \in [Reader -> BOOLEAN]
    /\ seen \in [Reader -> Levels]
    /\ loaded \in [Reader -> MinScale..Full]
    /\ extra \in 0..(Cardinality(Reader) + 1)

Init ==
    /\ stamp = MaxAge /\ scale = Full /\ free \in Levels
    /\ pc = [r \in Reader |-> "idle"]
    /\ now = [r \in Reader |-> 0]
    /\ current = [r \in Reader |-> FALSE]
    /\ seen = [r \in Reader |-> "between"]
    /\ loaded = [r \in Reader |-> Full]
    /\ extra = 0

-----------------------------------------------------------------------------
Larger(a, b) == IF a > b THEN a ELSE b
Smaller(a, b) == IF a < b THEN a ELSE b

\* now_ms - last is unsigned: a stamp younger than this thread's clock reading
\* gives a huge difference, and passes for a very old one.
Elapsed(r) == stamp - now[r]
TooSoon(r) == Elapsed(r) \in 0..(Interval - 1)

\* Mutant of Adjusted: shrinking stops short of the least scale.
AdjustedTimid(s, level) ==
    CASE level = "low"     -> Larger(MinScale + 1, s \div 2)
      [] level = "high"    -> Smaller(Full, (5 * s) \div 4)
      [] level = "between" -> s

\* kShrink and kRecover, between kMinScale and 1.
Adjusted(s, level) ==
    CASE level = "low"     -> Larger(MinScale, s \div 2)
      [] level = "high"    -> Smaller(Full, (5 * s) \div 4)
      [] level = "between" -> s

ReadClock(r) ==
    /\ pc[r] = "idle"
    /\ now' = [now EXCEPT ![r] = 0]
    /\ pc' = [pc EXCEPT ![r] = "load"]
    /\ UNCHANGED <<stamp, scale, free, current, seen, loaded, extra>>

\* Mutant of Check: the interval is not looked at.
CheckNothing(r) ==
    /\ pc[r] = "load"
    /\ pc' = [pc EXCEPT ![r] = "claim"]
    /\ current' = [current EXCEPT ![r] = TRUE]
    /\ UNCHANGED <<stamp, scale, free, now, seen, loaded, extra>>

\* Load the stamp; return if the last sample is recent.
Check(r) ==
    /\ pc[r] = "load"
    /\ pc' = [pc EXCEPT ![r] = IF TooSoon(r) THEN "idle" ELSE "claim"]
    /\ current' = [current EXCEPT ![r] = ~TooSoon(r)]
    /\ now' = IF TooSoon(r) THEN [now EXCEPT ![r] = 0] ELSE now
    /\ UNCHANGED <<stamp, scale, free, seen, loaded, extra>>

\* compare_exchange: one of the threads that loaded the same stamp samples.
Claim(r) ==
    /\ pc[r] = "claim"
    /\ IF current[r]
       THEN /\ stamp' = now[r]
            /\ extra' = IF Elapsed(r) >= Interval THEN 0
                        ELSE Smaller(extra, Cardinality(Reader)) + 1
            /\ current' = [u \in Reader |-> /\ u # r /\ current[u]
                                            /\ stamp = now[r]]
            /\ pc' = [pc EXCEPT ![r] = "read"]
       ELSE /\ pc' = [pc EXCEPT ![r] = "idle"]
            /\ UNCHANGED <<stamp, extra, current>>
    /\ now' = [now EXCEPT ![r] = 0]
    /\ UNCHANGED <<scale, free, seen, loaded>>

\* /proc/meminfo and the cgroup.
ReadFree(r) ==
    /\ pc[r] = "read"
    /\ seen' = [seen EXCEPT ![r] = free]
    /\ pc' = [pc EXCEPT ![r] = "scale"]
    /\ UNCHANGED <<stamp, scale, free, now, current, loaded, extra>>

\* Load scale_; in the dead band that is all.
LoadScale(r) ==
    /\ pc[r] = "scale"
    /\ IF seen[r] = "between"
       THEN pc' = [pc EXCEPT ![r] = "idle"] /\ UNCHANGED loaded
       ELSE /\ pc' = [pc EXCEPT ![r] = "store"]
            /\ loaded' = [loaded EXCEPT ![r] = scale]
    /\ UNCHANGED <<stamp, scale, free, now, current, seen, extra>>

StoreScale(r) ==
    /\ pc[r] = "store"
    /\ scale' = Adjusted(loaded[r], seen[r])
    /\ pc' = [pc EXCEPT ![r] = "idle"]
    /\ seen' = [seen EXCEPT ![r] = "between"]
    /\ loaded' = [loaded EXCEPT ![r] = Full]
    /\ UNCHANGED <<stamp, free, now, current, extra>>

\* Time passes, no further than a thread at the door may stall.
Waiting == {r \in Reader : pc[r] \in {"load", "claim"}}
Tick ==
    /\ \A r \in Waiting : now[r] < MaxStall
    /\ stamp' = Smaller(MaxAge, stamp + 1)
    /\ now' = [r \in Reader |-> IF r \in Waiting THEN now[r] + 1 ELSE now[r]]
    /\ UNCHANGED <<scale, free, pc, current, seen, loaded, extra>>

FreeMoves ==
    /\ free' \in Levels
    /\ UNCHANGED <<stamp, scale, pc, now, current, seen, loaded, extra>>

-----------------------------------------------------------------------------
Step(r) == ReadClock(r) \/ Check(r) \/ Claim(r)
           \/ ReadFree(r) \/ LoadScale(r) \/ StoreScale(r)
Next == Tick \/ FreeMoves \/ \E r \in Reader : Step(r)

Spec == Init /\ [][Next]_vars


-----------------------------------------------------------------------------
(* Properties.                                                             *)

\* refresh_pressure_ wants at most four samples a second.  A thread that read
\* the clock before the stamp it then finds was taken computes a huge unsigned
\* difference and samples out of turn; but it moves the stamp back to its own
\* reading, and one interval sees at most one such sample from every thread but
\* one, so the scale is halved at most that often.
BurstBounded == extra < Cardinality(Reader)

\* If the machine stays short of memory the scale comes down to its least
\* value for good, and if it stays well supplied the scale recovers for good,
\* although samplers overwrite one another's results.
FollowsPressure ==
    /\ <>[](free = "low") => <>[](scale = MinScale)
    /\ <>[](free = "high") => <>[](scale = Full)
=============================================================================
