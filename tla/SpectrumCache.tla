--------------------------- MODULE SpectrumCache ---------------------------
(***************************************************************************)
(* The process-wide cache of spectra (SpectrumCache.hpp, SpectrumCache.cpp):*)
(* a single-flight, least-recently-used cache shared by every thread of    *)
(* every fit.  insert_if_absent() looks a key up under the lock, builds it *)
(* outside the lock when nobody else is, and sleeps on a condition variable*)
(* when somebody is.                                                       *)
(*                                                                         *)
(* A producer is a callback.  While it runs it may ask the cache for the   *)
(* keys it needs (a final spectrum needs its surface, a surface its grid   *)
(* corners), may catch an exception one of those calls raised, may return  *)
(* and may throw; the model lets it do any of these in any order.  One     *)
(* action is one critical section of mtx_, which is all threads can see; the*)
(* two figures evict_if_needed_ asks of MemoryBudget are read at once.      *)
(***************************************************************************)
EXTENDS Integers, Sequences, FiniteSetsExt

CONSTANTS
    Thread,       \* threads calling into the cache
    Key,          \* hashes
    NoKey,        \* no pending call
    Needs,        \* Needs[k]: the keys the producer of k may ask for
    Rank,         \* Rank[k]: nesting level of k's producer, 0 for a file read
    Cost,         \* Cost[k]: footprint_ of the spectrum of k
    Budgets,      \* arguments of set_memory_budget / ensure_memory_budget
    Capacities,   \* arguments of set_capacity
    Shares,       \* values MemoryBudget::model_spectra() takes
    MaxFits,      \* bound: fits in flight
    MaxCalls,     \* bound: top-level calls of one thread
    MaxAsks,      \* bound: calls one run of a producer makes
    MaxThrows     \* bound: exceptions thrown by producers

ASSUME KeyAssumption == NoKey \notin Key

\* Producers are layered: final -> surface -> corner, and never call back up.
ASSUME LayerAssumption ==
    /\ Rank \in [Key -> Nat]
    /\ Needs \in [Key -> SUBSET Key]
    /\ \A k \in Key : \A d \in Needs[k] : Rank[d] < Rank[k]

ASSUME SizeAssumption ==
    /\ Cost \in [Key -> Nat \ {0}]
    /\ Budgets \subseteq Nat /\ Capacities \subseteq Nat /\ Shares \subseteq Nat
    /\ Budgets # {} /\ Shares # {}
    /\ MaxFits \in Nat \ {0} /\ MaxCalls \in Nat
    /\ MaxAsks \in Nat /\ MaxThrows \in Nat

VARIABLES
    cached,       \* keys of cache_
    lru,          \* lru_, most recently used first
    bytes,        \* bytes_
    inflight,     \* inflight_
    maxEntries,   \* max_entries_, 0 for no cap
    maxBytes,     \* max_bytes_, per fit
    fits, share,  \* what MemoryBudget answers now: fits(), model_spectra()
    pc,           \* where each thread is in insert_if_absent()
    want,         \* the key of a thread's pending lookup
    stack,        \* the producers a thread is running, innermost last
    calls,        \* top-level calls a thread has yet to make
    throws        \* exceptions thrown so far

store  == <<cached, lru, bytes>>
limits == <<maxEntries, maxBytes, fits, share>>
flow   == <<pc, want, stack, calls, throws>>
vars   == <<cached, lru, bytes, inflight, limits, flow>>

Frame == [key : Key, asks : 0..MaxAsks]

\* bytes is typed, and more, by BytesExact.
TypeOK ==
    /\ cached \subseteq Key
    /\ lru \in Seq(Key)
    /\ inflight \subseteq Key
    /\ maxEntries \in Nat /\ maxBytes \in Nat
    /\ fits \in Nat \ {0} /\ share \in Nat
    /\ pc \in [Thread -> {"idle", "lookup", "wait", "build", "raise"}]
    /\ want \in [Thread -> Key \cup {NoKey}]
    /\ stack \in [Thread -> Seq(Frame)]
    /\ calls \in [Thread -> 0..MaxCalls]
    /\ throws \in 0..MaxThrows

Init ==
    /\ cached = {} /\ lru = <<>> /\ bytes = 0 /\ inflight = {}
    /\ maxEntries = 0 /\ maxBytes \in Budgets
    /\ fits = 1 /\ share \in Shares
    /\ pc = [t \in Thread |-> "idle"]
    /\ want = [t \in Thread |-> NoKey]
    /\ stack = [t \in Thread |-> <<>>]
    /\ calls = [t \in Thread |-> MaxCalls]
    /\ throws = 0

-----------------------------------------------------------------------------
(* The store: recency, footprint, eviction.                                *)

TotalCost(S) == MapThenSumSet(LAMBDA k : Cost[k], S)

\* Mutant of Touched: the key goes in front of the list, its node stays behind.
TouchedCopied(l, k) == <<k>> \o l

\* touch_: splice the node of k, which lru_pos points at, to the front.
Touched(l, k) ==
    LET p == CHOOSE i \in 1..Len(l) : l[i] = k
    IN  [i \in 1..Len(l) |-> CASE i = 1 -> k
                               [] 1 < i /\ i <= p -> l[i - 1]
                               [] OTHER -> l[i]]

\* What evict_if_needed_ compares bytes_ with, re-read on every pass.
Limit(perFit, n, s) == IF perFit * n < s THEN perFit * n ELSE s

\* The keys left in map m when the list is popped from the back down to its
\* first n entries.
LeftAt(m, l, n) == m \ {l[i] : i \in (n + 1)..Len(l)}

\* Mutant of BytesAt: an eviction forgets to give its bytes back.
BytesAtKept(m, l, b, n) == b

\* bytes_ after those pops; each pop subtracts at most what is there.
BytesAt(m, l, b, n) ==
    LET gone == TotalCost(m \ LeftAt(m, l, n))
    IN  IF gone < b THEN b - gone ELSE 0

OverBudget(m, b, cap, lim) ==
    /\ Cardinality(m) > 1
    /\ \/ cap # 0 /\ Cardinality(m) > cap
       \/ b > lim

\* Mutant of EvictTo: one eviction per insertion is thought to be enough.
EvictToOnce(m, l, b, cap, lim) ==
    IF OverBudget(m, b, cap, lim) THEN Len(l) - 1 ELSE Len(l)

\* evict_if_needed_: pop the back until the cache is no longer over budget.
EvictTo(m, l, b, cap, lim) ==
    CHOOSE n \in 0..Len(l) :
        /\ ~OverBudget(LeftAt(m, l, n), BytesAt(m, l, b, n), cap, lim)
        /\ \A i \in (n + 1)..Len(l) :
               OverBudget(LeftAt(m, l, i), BytesAt(m, l, b, i), cap, lim)

\* The store becomes map m, list l, byte count b, trimmed to the given limits.
Trim(m, l, b, cap, perFit) ==
    LET n == EvictTo(m, l, b, cap, Limit(perFit, fits, share))
    IN  /\ cached' = LeftAt(m, l, n)
        /\ lru' = SubSeq(l, 1, n)
        /\ bytes' = BytesAt(m, l, b, n)

-----------------------------------------------------------------------------
(* insert_if_absent.                                                       *)

Top(t) == stack[t][Len(stack[t])]
Popped(t) == SubSeq(stack[t], 1, Len(stack[t]) - 1)

\* Where a thread is once its innermost call is over.
After(s) == IF s = <<>> THEN "idle" ELSE "build"

\* Mutant of NotifyAll: the notification is forgotten.
NotifyNobody(t, p) == pc' = [pc EXCEPT ![t] = p]

\* Thread t moves to p and inflight_cv_.notify_all() wakes every sleeper.
NotifyAll(t, p) ==
    pc' = [u \in Thread |-> CASE u = t -> p
                              [] u # t /\ pc[u] = "wait" -> "lookup"
                              [] OTHER -> pc[u]]

\* A fit's thread calls insert_if_absent(k, ...).
Call(t, k) ==
    /\ pc[t] = "idle" /\ calls[t] > 0
    /\ pc' = [pc EXCEPT ![t] = "lookup"]
    /\ want' = [want EXCEPT ![t] = k]
    /\ calls' = [calls EXCEPT ![t] = @ - 1]
    /\ UNCHANGED <<store, inflight, limits, stack, throws>>

\* The producer t is running calls insert_if_absent for a key it needs.
Ask(t) ==
    /\ pc[t] = "build" /\ Top(t).asks < MaxAsks
    /\ \E d \in Needs[Top(t).key] : want' = [want EXCEPT ![t] = d]
    /\ pc' = [pc EXCEPT ![t] = "lookup"]
    /\ stack' = [stack EXCEPT ![t][Len(stack[t])].asks = @ + 1]
    /\ UNCHANGED <<store, inflight, limits, calls, throws>>

\* A hit, possibly after waiting: touch the entry and return it.
Hit(t) ==
    /\ pc[t] = "lookup" /\ want[t] \in cached
    /\ lru' = Touched(lru, want[t])
    /\ pc' = [pc EXCEPT ![t] = After(stack[t])]
    /\ want' = [want EXCEPT ![t] = NoKey]
    /\ UNCHANGED <<cached, bytes, inflight, limits, stack, calls, throws>>

\* Mutant of Claim: a missing key is built without looking for its marker.
ClaimUnmarked(t) ==
    /\ pc[t] = "lookup" /\ want[t] \notin cached
    /\ inflight' = inflight \cup {want[t]}
    /\ stack' = [stack EXCEPT ![t] = Append(@, [key |-> want[t], asks |-> 0])]
    /\ pc' = [pc EXCEPT ![t] = "build"]
    /\ want' = [want EXCEPT ![t] = NoKey]
    /\ UNCHANGED <<store, limits, calls, throws>>

\* Neither cached nor in flight: this thread builds it.
Claim(t) ==
    /\ pc[t] = "lookup" /\ want[t] \notin cached
    /\ want[t] \notin inflight
    /\ inflight' = inflight \cup {want[t]}
    /\ stack' = [stack EXCEPT ![t] = Append(@, [key |-> want[t], asks |-> 0])]
    /\ pc' = [pc EXCEPT ![t] = "build"]
    /\ want' = [want EXCEPT ![t] = NoKey]
    /\ UNCHANGED <<store, limits, calls, throws>>

\* Somebody else is on it: sleep until notified.
Block(t) ==
    /\ pc[t] = "lookup" /\ want[t] \notin cached
    /\ want[t] \in inflight
    /\ pc' = [pc EXCEPT ![t] = "wait"]
    /\ UNCHANGED <<store, inflight, limits, want, stack, calls, throws>>

\* A condition variable may return without a notification.
SpuriousWake(t) ==
    /\ pc[t] = "wait"
    /\ pc' = [pc EXCEPT ![t] = "lookup"]
    /\ UNCHANGED <<store, inflight, limits, want, stack, calls, throws>>

\* The producer returned: disarm the guard, clear the marker, insert unless
\* the key is there already, trim, wake everybody, return.
Publish(t) ==
    /\ pc[t] = "build"
    /\ LET k == Top(t).key
       IN  /\ inflight' = inflight \ {k}
           /\ IF k \in cached
              THEN lru' = Touched(lru, k) /\ UNCHANGED <<cached, bytes>>
              ELSE Trim(cached \cup {k}, <<k>> \o lru, bytes + Cost[k],
                        maxEntries, maxBytes)
    /\ stack' = [stack EXCEPT ![t] = Popped(t)]
    /\ NotifyAll(t, After(Popped(t)))
    /\ UNCHANGED <<limits, want, calls, throws>>

\* The producer throws (a missing or unreadable file, out of memory).
Throw(t) ==
    /\ pc[t] = "build" /\ throws < MaxThrows
    /\ throws' = throws + 1
    /\ pc' = [pc EXCEPT ![t] = "raise"]
    /\ UNCHANGED <<store, inflight, limits, want, stack, calls>>

\* ~FlightGuard: clear the marker and wake everybody.  The exception leaves
\* the call; a producer further out may catch it (load_spectrum re-plans
\* around a missing corner) or let it through.
Unwind(t) ==
    /\ pc[t] = "raise"
    /\ inflight' = inflight \ {Top(t).key}
    /\ stack' = [stack EXCEPT ![t] = Popped(t)]
    /\ \/ NotifyAll(t, After(Popped(t)))
       \/ Popped(t) # <<>> /\ NotifyAll(t, "raise")
    /\ UNCHANGED <<store, limits, want, calls, throws>>

-----------------------------------------------------------------------------
(* The rest of the interface.                                              *)

\* try_get on a hit; a miss changes nothing.
TryGet(t, k) ==
    /\ pc[t] \in {"idle", "build"} /\ k \in cached
    /\ lru' = Touched(lru, k)
    /\ UNCHANGED <<cached, bytes, inflight, limits, flow>>

SetCapacity(n) ==
    /\ maxEntries' = n
    /\ Trim(cached, lru, bytes, n, maxBytes)
    /\ UNCHANGED <<inflight, maxBytes, fits, share, flow>>

SetMemoryBudget(b) ==
    /\ maxBytes' = b
    /\ Trim(cached, lru, bytes, maxEntries, b)
    /\ UNCHANGED <<inflight, maxEntries, fits, share, flow>>

\* Only ever raises the per-fit budget, and not past this cache's share as it
\* was (s) before the lock was taken.
EnsureMemoryBudget(b, s) ==
    LET asked == IF b < s THEN b ELSE s
        new   == IF asked > maxBytes THEN asked ELSE maxBytes
    IN  /\ maxBytes' = new
        /\ Trim(cached, lru, bytes, maxEntries, new)
        /\ UNCHANGED <<inflight, maxEntries, fits, share, flow>>

\* Builds in flight are not affected: they publish into the emptied cache.
Clear ==
    /\ cached' = {} /\ lru' = <<>> /\ bytes' = 0
    /\ UNCHANGED <<inflight, limits, flow>>

\* Mutant of BudgetMoves: fits() without its lower bound of one.
BudgetMovesToNone ==
    /\ fits' \in 0..MaxFits /\ share' \in Shares
    /\ UNCHANGED <<store, inflight, maxEntries, maxBytes, flow>>

\* A fit starts or ends, a reservation or the pressure valve moves the share.
BudgetMoves ==
    /\ fits' \in 1..MaxFits /\ share' \in Shares
    /\ UNCHANGED <<store, inflight, maxEntries, maxBytes, flow>>

-----------------------------------------------------------------------------
Step(t) == Ask(t) \/ Hit(t) \/ Claim(t) \/ Block(t)
           \/ Publish(t) \/ Throw(t) \/ Unwind(t)

Next ==
    \/ \E t \in Thread : Step(t) \/ SpuriousWake(t)
    \/ \E t \in Thread, k \in Key : Call(t, k) \/ TryGet(t, k)
    \/ \E n \in Capacities : SetCapacity(n)
    \/ \E b \in Budgets : SetMemoryBudget(b)
    \/ \E b \in Budgets, s \in Shares : EnsureMemoryBudget(b, s)
    \/ Clear
    \/ BudgetMoves

Spec == Init /\ [][Next]_vars

\* A thread inside the cache keeps running: the scheduler is fair and every
\* producer terminates (it makes at most MaxAsks calls).
Fairness == \A t \in Thread : WF_vars(Step(t))

FairSpec == Spec /\ Fairness

-----------------------------------------------------------------------------
(* Properties.                                                             *)

KeysOf(s) == {s[i].key : i \in 1..Len(s)}

\* At most one thread builds any given key (SpectrumCache.hpp, the comment on
\* insert_if_absent): no key is on two producers' stacks, nor twice on one,
\* and the marked keys are exactly those being built.
SingleFlight ==
    /\ inflight = UNION {KeysOf(stack[t]) : t \in Thread}
    /\ \A t, u \in Thread : t # u => KeysOf(stack[t]) \cap KeysOf(stack[u]) = {}
    /\ \A t \in Thread : \A i, j \in 1..Len(stack[t]) :
           i # j => stack[t][i].key # stack[t][j].key

\* A key that is being built is never in the cache, so no build is wasted and
\* the "evicted-and-refilled in between" branch of insert_if_absent is dead.
NoWastedBuild == cached \cap inflight = {}

\* A sleeping thread's key is still being built, so a notification is still
\* to come: clearing a marker and waking the sleepers are one critical section.
NoLostWakeup == \A t \in Thread : pc[t] = "wait" => want[t] \in inflight

\* Threads that build nested keys while waiting for one another's never all
\* sleep: whenever one sleeps, another is awake inside the cache.
NoDeadlock ==
    (\E t \in Thread : pc[t] = "wait") =>
        \E t \in Thread : pc[t] \in {"lookup", "build", "raise"}

\* The recency list holds every cached key once and nothing else, so that the
\* key popped from its back is always a cached one.
LruMatchesCache ==
    /\ cached = {lru[i] : i \in 1..Len(lru)}
    /\ \A i, j \in 1..Len(lru) : i # j => lru[i] # lru[j]

\* bytes_ is the footprint of what is held, over every path that adds or drops.
BytesExact == bytes = TotalCost(cached)

\* Whoever changes what the cache holds or may hold leaves it within the limits
\* as they are at that moment, or with a single entry; a thread that published
\* finds its own spectrum still there.
Settled == ~OverBudget(cached, bytes, maxEntries, Limit(maxBytes, fits, share))
LeavesWithinBudget ==
    [][(cached' # cached \/ maxEntries' # maxEntries \/ maxBytes' # maxBytes)
         => Settled']_vars

\* Every call into the cache returns, with a spectrum or with an exception.
CallsReturn == \A t \in Thread : pc[t] # "idle" ~> pc[t] = "idle"
=============================================================================
