----------------------- MODULE SpectrumCacheRefinement -----------------------
(***************************************************************************)
(* SpectrumCache implements SharedBuilds: the map is what is available and *)
(* the builder of a key is the thread that has it on its producer stack.   *)
(***************************************************************************)
EXTENDS SpectrumCache

CONSTANT NoThread
ASSUME NoThreadAssumption == NoThread \notin Thread

BuilderOf(k) ==
    IF k \in inflight THEN CHOOSE t \in Thread : k \in KeysOf(stack[t])
                      ELSE NoThread

Promise == INSTANCE SharedBuilds
               WITH available <- cached,
                    builder <- [k \in Key |-> BuilderOf(k)]

\* The cache keeps the promise SharedBuilds makes: at most one builder per key,
\* none while the key is available, and a published value is there to return.
ImplementsSharedBuilds == Promise!Spec
=============================================================================
