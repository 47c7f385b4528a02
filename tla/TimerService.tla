------------------------------- MODULE TimerService -------------------------------
(***************************************************************************)
(* What a timer service promises: a timer that was scheduled fires at most *)
(* once, not before its deadline, and not before a pending one that is due *)
(* earlier; nothing but its firing takes a timer away.                     *)
(***************************************************************************)
EXTENDS Naturals

CONSTANTS Timers, Clock

VARIABLES now, deadline, pending, fired

vars == <<now, deadline, pending, fired>>

Init == now = 0 /\ pending = {} /\ fired = {}

Schedule(t, d) ==
    /\ t \notin pending \cup fired
    /\ deadline' = [deadline EXCEPT ![t] = d]
    /\ pending' = pending \cup {t}
    /\ UNCHANGED <<now, fired>>

Fire(t) ==
    /\ t \in pending
    /\ deadline[t] <= now
    /\ \A u \in pending : deadline[t] <= deadline[u]
    /\ pending' = pending \ {t}
    /\ fired' = fired \cup {t}
    /\ UNCHANGED <<now, deadline>>

Tick == now' > now /\ UNCHANGED <<deadline, pending, fired>>

Next == Tick \/ (\E t \in Timers : Fire(t)) \/ \E t \in Timers, d \in Clock : Schedule(t, d)

Spec == Init /\ [][Next]_vars
=============================================================================
