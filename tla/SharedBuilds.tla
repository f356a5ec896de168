---------------------------- MODULE SharedBuilds ----------------------------
(***************************************************************************)
(* What the spectrum cache promises its callers, without the list, the     *)
(* limits, the markers and the sleeping: a set of available values, each   *)
(* built by one thread at a time, never while it is available, present the *)
(* moment its build is published, and liable to be forgotten at any time.  *)
(***************************************************************************)
CONSTANTS Thread, Key, NoThread

VARIABLES
    available,    \* keys whose value a caller can be given at once
    builder       \* builder[k]: the thread building k, or NoThread

vars == <<available, builder>>

Init == available = {} /\ builder = [k \in Key |-> NoThread]

Start(t, k) ==
    /\ k \notin available /\ builder[k] = NoThread
    /\ builder' = [builder EXCEPT ![k] = t]
    /\ UNCHANGED available

Publish(t, k) ==
    /\ builder[k] = t
    /\ builder' = [builder EXCEPT ![k] = NoThread]
    /\ available' \subseteq available \cup {k}
    /\ k \in available'

GiveUp(t, k) ==
    /\ builder[k] = t
    /\ builder' = [builder EXCEPT ![k] = NoThread]
    /\ UNCHANGED available

Forget ==
    /\ available' \subseteq available
    /\ UNCHANGED builder

Next ==
    \/ \E t \in Thread, k \in Key : Start(t, k) \/ Publish(t, k) \/ GiveUp(t, k)
    \/ Forget

Spec == Init /\ [][Next]_vars
=============================================================================
