------------------------------- MODULE ThreadPark -------------------------------
(***************************************************************************)
(* ThreadPark of runtime/park.rs: one thread that parks, any number of     *)
(* threads that unpark it, an atomic state, a mutex and a condition        *)
(* variable.  park() waits with a timeout of a year, park_timeout() with   *)
(* the caller's; a wait that times out, one that returns spuriously and    *)
(* one that is notified take the same path, so TimeOut stands for the      *)
(* first two.                                                              *)
(***************************************************************************)
EXTENDS Integers

CONSTANTS
    Parker,     \* the thread that parks
    Unparkers,  \* the threads that unpark it
    NoThread,   \* the mutex is free
    MaxTimeouts \* bound: waits that end without a notification

ASSUME ParkAssumption ==
    /\ Parker \notin Unparkers
    /\ NoThread \notin Unparkers \cup {Parker}
    /\ MaxTimeouts \in Nat

VARIABLES
    state,    \* ThreadParkInner::state
    mutex,    \* owner of ThreadParkInner::mutex
    waiting,  \* the parker is in the wait set of the condvar
    pc,       \* where each thread is
    seen,     \* the local variable state of park_timeout
    timeouts  \* how much of the bound is used

vars == <<state, mutex, waiting, pc, seen, timeouts>>

Threads == Unparkers \cup {Parker}

Init ==
    /\ state = "EMPTY"
    /\ mutex = NoThread
    /\ waiting = FALSE
    /\ pc = [th \in Threads |-> "out"]
    /\ seen = "EMPTY"
    /\ timeouts = 0

Goto(th, label) == pc' = [pc EXCEPT ![th] = label]

\* A compare_exchange; a failed one returns the value it found.
CompareExchange(old, new, success) ==
    IF state = old
    THEN state' = new /\ Goto(Parker, success) /\ UNCHANGED seen
    ELSE seen' = state /\ UNCHANGED <<state, pc>>

-----------------------------------------------------------------------------
(* park_timeout.                                                           *)

ParkLoad ==
    /\ pc[Parker] = "out"
    /\ seen' = state
    /\ Goto(Parker, "loop")
    /\ UNCHANGED <<state, mutex, waiting, timeouts>>

\* NOTIFIED: take the permit and return.
ParkTake ==
    /\ pc[Parker] = "loop"
    /\ seen = "NOTIFIED"
    /\ CompareExchange("NOTIFIED", "EMPTY", "out")
    /\ UNCHANGED <<mutex, waiting, timeouts>>

\* Mutant: PARKED is stored whatever the state has become.
ParkCommit_Store ==
    /\ pc[Parker] = "loop"
    /\ seen # "NOTIFIED"
    /\ state' = "PARKED"
    /\ Goto(Parker, "lock")
    /\ UNCHANGED <<mutex, waiting, timeouts, seen>>

\* Otherwise announce that the thread is going to sleep.
ParkCommit ==
    /\ pc[Parker] = "loop"
    /\ seen # "NOTIFIED"
    /\ CompareExchange("EMPTY", "PARKED", "lock")
    /\ UNCHANGED <<mutex, waiting, timeouts>>

\* mutex.lock() and condvar.wait_timeout(), which gives the mutex back at once.
ParkWait ==
    /\ pc[Parker] = "lock"
    /\ mutex = NoThread
    /\ waiting' = TRUE
    /\ Goto(Parker, "waiting")
    /\ UNCHANGED <<state, mutex, seen, timeouts>>

TimeOut ==
    /\ waiting
    /\ timeouts < MaxTimeouts
    /\ timeouts' = timeouts + 1
    /\ waiting' = FALSE
    /\ UNCHANGED <<state, mutex, pc, seen>>

\* The wait returns with the mutex held.
ParkWoken ==
    /\ pc[Parker] = "waiting"
    /\ ~waiting
    /\ mutex = NoThread
    /\ mutex' = Parker
    /\ Goto(Parker, "swap")
    /\ UNCHANGED <<state, waiting, seen, timeouts>>

\* state.swap(EMPTY): NOTIFIED and PARKED return, EMPTY is unreachable!().
ParkSwap ==
    /\ pc[Parker] = "swap"
    /\ state' = "EMPTY"
    /\ mutex' = NoThread
    /\ Goto(Parker, IF state = "EMPTY" THEN "panicked" ELSE "out")
    /\ UNCHANGED <<waiting, seen, timeouts>>

-----------------------------------------------------------------------------
(* unpark.                                                                 *)

\* Mutant: the state is emptied when the parker has to be notified.
UnparkSwap_Empties(u) ==
    /\ pc[u] = "out"
    /\ state' = IF state = "PARKED" THEN "EMPTY" ELSE "NOTIFIED"
    /\ Goto(u, IF state = "PARKED" THEN "notify" ELSE "out")
    /\ UNCHANGED <<mutex, waiting, seen, timeouts>>

\* state.swap(NOTIFIED); only a parked thread has to be notified.
UnparkSwap(u) ==
    /\ pc[u] = "out"
    /\ state' = "NOTIFIED"
    /\ Goto(u, IF state = "PARKED" THEN "notify" ELSE "out")
    /\ UNCHANGED <<mutex, waiting, seen, timeouts>>

\* { let _guard = mutex.lock(); condvar.notify_one(); }
UnparkNotify(u) ==
    /\ pc[u] = "notify"
    /\ mutex = NoThread
    /\ waiting' = FALSE
    /\ Goto(u, "out")
    /\ UNCHANGED <<state, mutex, seen, timeouts>>

-----------------------------------------------------------------------------
ParkStep == ParkLoad \/ ParkTake \/ ParkCommit \/ ParkWait \/ ParkWoken \/ ParkSwap

UnparkStep(u) == UnparkSwap(u) \/ UnparkNotify(u)

Next == ParkStep \/ TimeOut \/ \E u \in Unparkers : UnparkStep(u)

Spec == Init /\ [][Next]_vars
-----------------------------------------------------------------------------
(* Properties.                                                             *)

\* Type correctness of the parker; no thread panics.
TypeOK ==
    /\ state \in {"EMPTY", "PARKED", "NOTIFIED"}
    /\ mutex \in Threads \cup {NoThread}
    /\ waiting \in BOOLEAN
    /\ pc \in [Threads -> {"out", "loop", "lock", "waiting", "swap", "notify"}]
    /\ seen \in {"EMPTY", "PARKED", "NOTIFIED"}
    /\ timeouts \in 0..MaxTimeouts

Asleep == pc[Parker] \in {"lock", "waiting", "swap"}

\* Why the unreachable!() after the wait is never reached: while the only parker
\* sleeps the state is PARKED or NOTIFIED, and it is PARKED only then.
NoUnreachable ==
    /\ Asleep => state # "EMPTY"
    /\ state = "PARKED" => Asleep

Promise == INSTANCE Permit WITH permit <- state = "NOTIFIED", parked <- pc[Parker] # "out"

\* ThreadPark implements a permit: no unpark() is forgotten until park() comes
\* back, however their steps interleave.
KeepsPermit == Promise!Spec
=============================================================================
