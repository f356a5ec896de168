---------------------------- MODULE WeightCaches ----------------------------
(***************************************************************************)
(* The three process-wide caches of convolution weights: per-point rotation*)
(* tables (RotationalConvolution.cpp, LRUCache), rotation segments (the    *)
(* same file, g_segCache) and instrumental weights (Resolution.cpp).  Each *)
(* builds a missing table once, outside its lock, while every other thread *)
(* that wants it sleeps.  They were written three times and differ in the  *)
(* order of their steps, in what an exception leaves behind and in how they*)
(* keep their lists, which is what is modelled.  They share no lock and no *)
(* state, so a behaviour follows one of them, chosen at the start.         *)
(*                                                                         *)
(* Keys are doubles compared with a tolerance but hashed exactly: the map  *)
(* tells apart two keys that the list and the markers take for one, and of *)
(* three keys the outer two may differ where each is like the middle one.  *)
(* The two limits an insertion reads from MemoryBudget are read at once.   *)
(***************************************************************************)
EXTENDS Lists, FiniteSetsExt

CONSTANTS
    Thread, Key, NoKey,
    At, Tolerance,  \* At[k]: the doubles of k, as one number
    Cost,         \* Cost[k]: bytes() of the table of k
    Limits,       \* <<entries, bytes>>: what entry_cap and the share may be
    Tables,       \* which of the three caches to look at
    MaxThrows     \* bound: exceptions out of a build or an insertion

ASSUME WeightKeys ==
    /\ NoKey \notin Key
    /\ At \in [Key -> Int] /\ Tolerance \in Nat \ {0}
    /\ Cost \in [Key -> Nat \ {0}]

ASSUME WeightLimits ==
    /\ Limits \subseteq (Nat \ {0}) \X Nat /\ Limits # {}
    /\ Tables \subseteq {"rot", "seg", "res"} /\ Tables # {}
    /\ MaxThrows \in Nat

VARIABLES
    table,        \* the cache this behaviour is about
    cached,       \* keys of its map
    lru,          \* its list of keys, most recently used first
    bytes,        \* its byte count
    inflight,     \* its markers
    limit,        \* what MemoryBudget answers now
    pc,           \* where each thread is in the call
    want,         \* the key it asked for
    throws        \* exceptions so far

held  == <<cached, lru, bytes>>
wvars == <<table, held, inflight, limit, pc, want, throws>>

\* The keys operator== takes for k, k among them.  The hash, and with it the
\* map, tells them apart.
Alike(k) == {l \in Key : At[k] - At[l] < Tolerance /\ At[l] - At[k] < Tolerance}

\* "ready": the call has returned a table; "failed": it has thrown;
\* "fatal": it corrupted the heap, or an exception left an OpenMP region, and the
\* process is gone.
Places == {"out", "lookup", "wait", "build", "clear", "raise", "ready", "failed", "fatal"}

WeightsTypeOK ==
    /\ table \in Tables
    /\ cached \subseteq Key /\ lru \in Seq(Key) /\ bytes \in Nat
    /\ inflight \subseteq Key
    /\ limit \in Limits
    /\ pc \in [Thread -> Places]
    /\ want \in [Thread -> Key \cup {NoKey}]
    /\ throws \in 0..MaxThrows

WeightsInit ==
    /\ table \in Tables
    /\ cached = {} /\ lru = <<>> /\ bytes = 0 /\ inflight = {}
    /\ limit \in Limits
    /\ pc = [t \in Thread |-> "out"]
    /\ want = [t \in Thread |-> NoKey]
    /\ throws = 0

-----------------------------------------------------------------------------
(* Recency and eviction.                                                   *)

\* Mutant of Spliced: the per-point cache removes by operator==, as others do.
SplicedAlike(l, k) == <<k>> \o Only(l, Key \ Alike(k))

\* The per-point cache splices the node its map entry points at, the newest
\* one of that key.
Spliced(l, k) ==
    LET p == CHOOSE i \in 1..Len(l) : l[i] = k /\ \A j \in 1..(i - 1) : l[j] # k
    IN  <<k>> \o (SubSeq(l, 1, p - 1) \o SubSeq(l, p + 1, Len(l)))

\* The others remove by operator==, and with the key every key like it.
Moved(l, k) ==
    IF table = "rot" THEN Spliced(l, k)
                     ELSE <<k>> \o Only(l, Key \ Alike(k))

\* Entries a cache keeps whatever the limits say.
KeptAlways == IF table = "seg" THEN 2 ELSE 1

OverLimit(m, b) ==
    /\ Cardinality(m) > KeptAlways
    /\ Cardinality(m) > limit[1] \/ b > limit[2]

\* What map m keeps when list l is popped down to its first n entries.
KeptAt(m, l, n) == m \ {l[i] : i \in (n + 1)..Len(l)}

\* A pop subtracts at most what is there.
CountAt(m, l, b, n) ==
    LET gone == MapThenSumSet(LAMBDA k : Cost[k], m \ KeptAt(m, l, n))
    IN  IF gone < b THEN b - gone ELSE 0

\* Where the eviction loop ends: below the limits, with the list used up, or,
\* in trim_, at the first pop that freed nothing.
Stops(m, l, b, n) ==
    \/ ~OverLimit(KeptAt(m, l, n), CountAt(m, l, b, n))
    \/ n = 0
    \/ table = "rot" /\ n < Len(l) /\ KeptAt(m, l, n) = KeptAt(m, l, n + 1)

PoppedTo(m, l, b) == Max({n \in 0..Len(l) : Stops(m, l, b, n)})

\* Only trim_ looks whether there is anything left to pop.
PopsNothing(m, l, b) ==
    LET n == PoppedTo(m, l, b)
    IN  table # "rot" /\ n = 0 /\ OverLimit(KeptAt(m, l, n), CountAt(m, l, b, n))

\* Map m, list l and count b, evicted down to the limits.
Evicted(m, l, b) ==
    LET n == PoppedTo(m, l, b)
    IN  /\ cached' = KeptAt(m, l, n)
        /\ lru' = SubSeq(l, 1, n)
        /\ bytes' = CountAt(m, l, b, n)

-----------------------------------------------------------------------------
(* One call: get_or_build, or the two-grid rotational_broaden, or          *)
(* degrade_resolution.                                                     *)

Goes(t, p) == pc' = [pc EXCEPT ![t] = p]

\* Thread t goes to p and notify_all wakes the sleepers.
WakesAll(t, p) ==
    pc' = [u \in Thread |-> CASE u = t -> p
                              [] u # t /\ pc[u] = "wait" -> "lookup"
                              [] OTHER -> pc[u]]

\* A caller asks for the table of k.
AskFor(t, k) ==
    /\ pc[t] = "out"
    /\ Goes(t, "lookup")
    /\ want' = [want EXCEPT ![t] = k]
    /\ UNCHANGED <<table, held, inflight, limit, throws>>

\* The caller has what the call returned, or the exception it threw.
Take(t) ==
    /\ pc[t] \in {"ready", "failed"}
    /\ Goes(t, "out")
    /\ want' = [want EXCEPT ![t] = NoKey]
    /\ UNCHANGED <<table, held, inflight, limit, throws>>

FindsIt(t) ==
    /\ pc[t] = "lookup" /\ want[t] \in cached
    /\ lru' = Moved(lru, want[t])
    /\ Goes(t, "ready")
    /\ UNCHANGED <<table, cached, bytes, inflight, limit, want, throws>>

\* Mutant of ClaimsIt: a missing table is built without a look at the markers.
ClaimsUnmarked(t) ==
    /\ pc[t] = "lookup" /\ want[t] \notin cached
    /\ inflight' = inflight \cup {want[t]}
    /\ Goes(t, "build")
    /\ UNCHANGED <<table, held, limit, want, throws>>

\* No marker like it: this thread builds the table.
ClaimsIt(t) ==
    /\ pc[t] = "lookup" /\ want[t] \notin cached
    /\ Alike(want[t]) \cap inflight = {}
    /\ inflight' = inflight \cup {want[t]}
    /\ Goes(t, "build")
    /\ UNCHANGED <<table, held, limit, want, throws>>

Sleeps(t) ==
    /\ pc[t] = "lookup" /\ want[t] \notin cached
    /\ Alike(want[t]) \cap inflight # {}
    /\ Goes(t, "wait")
    /\ UNCHANGED <<table, held, inflight, limit, want, throws>>

\* A condition variable may return without a notification.
WakesAlone(t) ==
    /\ pc[t] = "wait" /\ Goes(t, "lookup")
    /\ UNCHANGED <<table, held, inflight, limit, want, throws>>

\* The markers once that of k is erased: while it stands, no other is like it.
Unmarked(k) == inflight \ Alike(k)

\* The table just built goes into the map, unless it is there: the per-point
\* cache replaces it, the segments leave it alone, the others only move it.
Inserts(k) ==
    IF k \in cached
    THEN CASE table = "rot" -> Evicted(cached, Spliced(lru, k), bytes)
           [] table = "seg" -> UNCHANGED held
           [] OTHER -> lru' = Moved(lru, k) /\ UNCHANGED <<cached, bytes>>
    ELSE Evicted(cached \cup {k}, <<k>> \o lru, bytes + Cost[k])

PopsEmptyList(k) ==
    k \notin cached /\ PopsNothing(cached \cup {k}, <<k>> \o lru, bytes + Cost[k])

\* LRUCache::put is one critical section, the guard's another.
Puts(t) ==
    /\ table = "rot" /\ pc[t] = "build"
    /\ Inserts(want[t])
    /\ Goes(t, "clear")
    /\ UNCHANGED <<table, inflight, limit, want, throws>>

\* Mutant of ClearsMarker: the guard clears its marker and wakes nobody.
ClearsSilently(t) ==
    /\ pc[t] = "clear"
    /\ inflight' = Unmarked(want[t])
    /\ Goes(t, "ready")
    /\ UNCHANGED <<table, held, limit, want, throws>>

\* ~FlightGuard, after the table was put.
ClearsMarker(t) ==
    /\ pc[t] = "clear"
    /\ inflight' = Unmarked(want[t])
    /\ WakesAll(t, "ready")
    /\ UNCHANGED <<table, held, limit, want, throws>>

\* Segments and instrumental weights go in and lose their marker in one section.
Publishes(t) ==
    /\ table # "rot" /\ pc[t] = "build" /\ ~PopsEmptyList(want[t])
    /\ Inserts(want[t])
    /\ inflight' = Unmarked(want[t])
    /\ WakesAll(t, "ready")
    /\ UNCHANGED <<table, limit, want, throws>>

\* back() and pop_back() of an empty list.
Corrupts(t) ==
    /\ table # "rot" /\ pc[t] = "build" /\ PopsEmptyList(want[t])
    /\ Goes(t, "fatal")
    /\ UNCHANGED <<table, held, inflight, limit, want, throws>>

-----------------------------------------------------------------------------
(* Exceptions: out of memory, anywhere an allocation is made.              *)

\* compute_weights or compute_segments throws in its serial part, where the
\* kernel and the empty table are allocated.
BuildThrows(t) ==
    /\ pc[t] = "build" /\ throws < MaxThrows
    /\ throws' = throws + 1
    /\ Goes(t, "raise")
    /\ UNCHANGED <<table, held, inflight, limit, want>>

\* compute_weights, of points and of pixels, throws in its parallel part, where
\* each output point's weights are allocated: nothing catches it in the region.
\* The parallel loops over segments allocate nothing.
BuildDies(t) ==
    /\ table # "seg" /\ pc[t] = "build" /\ throws < MaxThrows
    /\ throws' = throws + 1
    /\ Goes(t, "fatal")
    /\ UNCHANGED <<table, held, inflight, limit, want>>

\* The guard, or degrade_resolution's handler, clears the marker.
Unwinds(t) ==
    /\ pc[t] = "raise"
    /\ inflight' = Unmarked(want[t])
    /\ WakesAll(t, "failed")
    /\ UNCHANGED <<table, held, limit, want, throws>>

\* An insertion throws, with the first of its two containers extended or not:
\* the per-point cache extends its list first, the others their map, and none
\* has counted the bytes yet.
HalfInserts(k) ==
    \/ UNCHANGED held
    \/ /\ table = "rot" /\ lru' = <<k>> \o lru /\ UNCHANGED <<cached, bytes>>
    \/ /\ table # "rot" /\ cached' = cached \cup {k} /\ UNCHANGED <<lru, bytes>>

\* The per-point cache's guard is still to run; the segments' marker is gone
\* already; the instrumental weights' marker stays, and nobody is woken.
InsertThrows(t) ==
    /\ pc[t] = "build" /\ want[t] \notin cached /\ throws < MaxThrows
    /\ throws' = throws + 1
    /\ HalfInserts(want[t])
    /\ \/ table = "rot" /\ Goes(t, "raise") /\ UNCHANGED inflight
       \/ table = "seg" /\ inflight' = Unmarked(want[t]) /\ WakesAll(t, "failed")
       \/ table = "res" /\ Goes(t, "failed") /\ UNCHANGED inflight
    /\ UNCHANGED <<table, limit, want>>

-----------------------------------------------------------------------------
(* The rest of the program.                                                *)

\* A fit starts or ends, a reservation or the pressure valve moves the share.
LimitMoves ==
    /\ limit' \in Limits
    /\ UNCHANGED <<table, held, inflight, pc, want, throws>>

\* What a thread inside a call does next, and must do eventually.
CallStep(t) ==
    \/ FindsIt(t) \/ ClaimsIt(t) \/ Sleeps(t)
    \/ Puts(t) \/ ClearsMarker(t) \/ Publishes(t) \/ Corrupts(t)
    \/ BuildThrows(t) \/ BuildDies(t) \/ Unwinds(t) \/ InsertThrows(t)

-----------------------------------------------------------------------------
(* Properties.                                                             *)

Listed == {lru[i] : i \in 1..Len(lru)}
Building(t) == pc[t] \in {"build", "clear", "raise", "fatal"}

\* At most one thread computes any given key (RotationalConvolution.cpp, the
\* comment on get_or_build), across the gap between put and the guard, across
\* evictions in between and across exceptions; and a marker always has a
\* thread that will clear it, except one an instrumental insertion left behind.
\* Nobody sleeps on a marker that has been cleared, although in the per-point
\* cache the table appears in one section and the wake-up comes in another.
OneBuilder ==
    /\ \A t, u \in Thread :
           t # u /\ Building(t) /\ Building(u) => want[u] \notin Alike(want[t])
    /\ \A t \in Thread : Building(t) => want[t] \in inflight
    /\ \A k \in inflight :
           \/ \E t \in Thread : Building(t) /\ want[t] = k
           \/ table = "res" /\ throws > 0
    /\ \A t \in Thread : pc[t] = "wait" => Alike(want[t]) \cap inflight # {}

\* "One thread computes a given weight set, the others wait for it" (Resolution.cpp,
\* at the single flight of degrade_resolution): whoever sleeps has a thread that
\* builds what it sleeps on.
WaitsForABuilder ==
    \A t \in Thread : pc[t] = "wait" =>
        \E u \in Thread : Building(u) /\ want[u] \in Alike(want[t])

\* An entry can always be evicted, its key being in the list, unless a key
\* taken for the same was asked for, or an insertion failed half way; and
\* the per-point cache, which splices, does not even need the first exception.
EvictableEntries ==
    \A k \in cached \ Listed :
        table # "rot" /\ (throws > 0 \/ Alike(k) # {k})
=============================================================================
