-------------------------------- MODULE Executor --------------------------------
(***************************************************************************)
(* What an executor of this crate promises of the tasks it is given: each  *)
(* is taken once, in the order they came, and then runs to its end, fails  *)
(* with a panic, or is dropped unrun.                                      *)
(***************************************************************************)
EXTENDS Naturals, Sequences

CONSTANT Tasks

VARIABLES queue, running, finished, failed, dropped

vars == <<queue, running, finished, failed, dropped>>

Queued == {queue[i] : i \in 1..Len(queue)}

Init == queue = <<>> /\ running = {} /\ finished = {} /\ failed = {} /\ dropped = {}

Submit(t) ==
    /\ t \notin Queued \cup running \cup finished \cup failed \cup dropped
    /\ queue' = Append(queue, t)
    /\ UNCHANGED <<running, finished, failed, dropped>>

Take ==
    /\ queue # <<>>
    /\ queue' = Tail(queue)
    /\ running' = running \cup {Head(queue)}
    /\ UNCHANGED <<finished, failed, dropped>>

Drop ==
    /\ queue # <<>>
    /\ queue' = Tail(queue)
    /\ dropped' = dropped \cup {Head(queue)}
    /\ UNCHANGED <<running, finished, failed>>

\* The executor shuts down with tasks on its queue.
Clear ==
    /\ queue' = <<>>
    /\ dropped' = dropped \cup Queued
    /\ UNCHANGED <<running, finished, failed>>

Finish(t) ==
    /\ t \in running
    /\ running' = running \ {t}
    /\ finished' = finished \cup {t}
    /\ UNCHANGED <<queue, failed, dropped>>

Fail(t) ==
    /\ t \in running
    /\ running' = running \ {t}
    /\ failed' = failed \cup {t}
    /\ UNCHANGED <<queue, finished, dropped>>

Next == Take \/ Drop \/ Clear \/ \E t \in Tasks : Submit(t) \/ Finish(t) \/ Fail(t)

Spec == Init /\ [][Next]_vars
=============================================================================
