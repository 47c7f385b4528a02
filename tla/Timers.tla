---------------------------------- MODULE Timers ----------------------------------
(***************************************************************************)
(* The timers of runtime/park.rs: TimeDriver with its heap of deadlines    *)
(* under a mutex, and the Parker that asks it how long to sleep.  Any      *)
(* thread may drive the timers (process), schedule one or unpark; one of   *)
(* them, Owner, parks.                                                     *)
(*                                                                         *)
(* The parker inside is a ThreadPark; what is left of it here is what      *)
(* Permit says: a permit that unpark() leaves, and a sleep that ends with  *)
(* the permit, at its timeout, or for no reason.  Time is a clock that     *)
(* ticks between any two steps.  The Condvar of TimeDriver is notified by  *)
(* schedule() and nobody waits on it, so it is left out.                   *)
(***************************************************************************)
EXTENDS Integers

CONSTANTS
    Owner,       \* the thread that parks
    Helpers,     \* other threads that drive the timers
    Timers,      \* the timers
    Horizon,     \* bound: the last tick of the clock
    Year,        \* longer than the clock runs: the timeout of ThreadPark::park
    Timeouts,    \* timeouts the program gives to park_timeout(Some(timeout))
    MaxSpurious  \* bound: sleeps that end for no reason

ASSUME TimersAssumption ==
    /\ Owner \notin Helpers
    /\ Horizon \in Nat /\ MaxSpurious \in Nat
    /\ Timeouts \subseteq Nat
    /\ Year \in Nat /\ Year > Horizon

Threads == Helpers \cup {Owner}
Clock == 0..Horizon

VARIABLES
    now,      \* Instant::now()
    deadline, \* deadline of each timer
    heap,     \* the timers in TimeDriver::timers
    fired,    \* timers popped and woken
    locked,   \* some thread holds the lock on timers
    poisoned, \* the lock was released by a panic: lock().unwrap() panics
    pc,       \* where each thread is
    seen,     \* the time its process() read, or the deadline its park_timeout() read
    limit,    \* the timeout Owner parks with, Year for park()
    span,     \* the Duration its wait gets, Year for park()
    wakeAt,   \* when its wait times out
    permit,   \* the permit of the ThreadPark
    known,    \* history: the timers in the heap when it looked for a deadline
    late,     \* history: the deadline it read had passed when it read the clock
    drift,    \* history: ticks between its reading of the clock and its wait
    spurious  \* how much of the bound is used

timerVars == <<deadline, heap, fired>>
lockVars == <<locked, poisoned>>
sleepVars == <<limit, span, wakeAt, known, late, drift>>
vars == <<now, timerVars, lockVars, pc, seen, sleepVars, permit, spurious>>

Init ==
    /\ now = 0
    /\ deadline = [t \in Timers |-> 0] /\ heap = {} /\ fired = {}
    /\ locked = FALSE /\ poisoned = FALSE
    /\ pc = [th \in Threads |-> "out"]
    /\ seen = [th \in Threads |-> Year]
    /\ limit = Year /\ span = Year /\ wakeAt = Year
    /\ known = {} /\ late = FALSE /\ drift = 0
    /\ permit = FALSE /\ spurious = 0

\* Mutant: the order of TimerEntry is not reversed, and peek() gives the last one.
Earliest_Reversed(t) == t \in heap /\ \A u \in heap : deadline[u] <= deadline[t]

\* BinaryHeap::peek with the reversed order of TimerEntry: a timer with the
\* earliest deadline.
Earliest(t) == t \in heap /\ \A u \in heap : deadline[t] <= deadline[u]

Goto(th, label) == pc' = [pc EXCEPT ![th] = label]

\* The call is over, and the local variables of the thread with it.
Leave(th) == Goto(th, "out") /\ seen' = [seen EXCEPT ![th] = Year]

-----------------------------------------------------------------------------
(* TimeDriver.                                                             *)

\* schedule(): lock, push.  With the lock poisoned it panics before the push.
Schedule(t, d) ==
    /\ ~locked /\ ~poisoned
    /\ t \notin heap \cup fired
    /\ deadline' = [deadline EXCEPT ![t] = d]
    /\ heap' = heap \cup {t}
    /\ UNCHANGED <<now, fired, lockVars, pc, seen, sleepVars, permit, spurious>>

\* process(): the time is read before the lock is taken ...
ProcessClock(th) ==
    /\ pc[th] = "out"
    /\ seen' = [seen EXCEPT ![th] = now]
    /\ Goto(th, "process")
    /\ UNCHANGED <<now, timerVars, lockVars, sleepVars, permit, spurious>>

\* ... lock().unwrap(), which panics if the lock is poisoned ...
ProcessLock(th) ==
    /\ pc[th] = "process"
    /\ ~locked
    /\ locked' = ~poisoned
    /\ IF poisoned THEN Leave(th) ELSE Goto(th, "expiring") /\ UNCHANGED seen
    /\ UNCHANGED <<now, timerVars, poisoned, sleepVars, permit, spurious>>

\* Mutant: the deadline of the entry is not compared.
ProcessPop_Any(th, t) ==
    /\ pc[th] = "expiring"
    /\ Earliest(t)
    /\ heap' = heap \ {t}
    /\ fired' = fired \cup {t}
    /\ Goto(th, "waking")
    /\ UNCHANGED <<now, deadline, lockVars, seen, sleepVars, permit, spurious>>

\* Mutant: the entry is looked at, as by peek(), and not popped.
ProcessPop_Peeks(th, t) ==
    /\ pc[th] = "expiring"
    /\ Earliest(t)
    /\ deadline[t] <= seen[th]
    /\ fired' = fired \cup {t}
    /\ Goto(th, "waking")
    /\ UNCHANGED <<now, deadline, heap, lockVars, seen, sleepVars, permit, spurious>>

\* ... then every entry with deadline <= now is popped ...
ProcessPop(th, t) ==
    /\ pc[th] = "expiring"
    /\ Earliest(t)
    /\ deadline[t] <= seen[th]
    /\ heap' = heap \ {t}
    /\ fired' = fired \cup {t}
    /\ Goto(th, "waking")
    /\ UNCHANGED <<now, deadline, lockVars, seen, sleepVars, permit, spurious>>

\* ... and its waker called with the lock held.  It may be a waker of this parker,
\* and it may run a task in place (RawTask) that schedules a timer or parks: that
\* takes the lock a second time on the same thread, which never comes back.  A
\* panic of the waker leaves process() with the lock poisoned and released.
ProcessWake(th) ==
    /\ pc[th] = "waking"
    /\ \/ Goto(th, "expiring") /\ permit' \in {permit, TRUE} /\ UNCHANGED <<lockVars, seen>>
       \/ Goto(th, "selflock") /\ UNCHANGED <<permit, lockVars, seen>>
       \/ Leave(th) /\ locked' = FALSE /\ poisoned' = TRUE /\ UNCHANGED permit
    /\ UNCHANGED <<now, timerVars, sleepVars, spurious>>

\* Mutant: the lock is not released.
ProcessDone_Keeps(th) ==
    /\ pc[th] = "expiring"
    /\ \A t \in heap : Earliest(t) => deadline[t] > seen[th]
    /\ Leave(th)
    /\ UNCHANGED <<now, timerVars, lockVars, sleepVars, permit, spurious>>

\* The first entry lies ahead, or there is none: break, and the lock is released.
ProcessDone(th) ==
    /\ pc[th] = "expiring"
    /\ \A t \in heap : Earliest(t) => deadline[t] > seen[th]
    /\ locked' = FALSE
    /\ Leave(th)
    /\ UNCHANGED <<now, timerVars, poisoned, sleepVars, permit, spurious>>

-----------------------------------------------------------------------------
(* Parker.                                                                 *)

\* park() or park_timeout(): next_deadline() locks, peeks and unlocks, or panics.
ParkLook(timeout) ==
    /\ pc[Owner] = "out"
    /\ ~locked /\ ~poisoned
    /\ limit' = timeout
    /\ \/ heap = {} /\ seen' = [seen EXCEPT ![Owner] = Year]
       \/ \E t \in heap : Earliest(t) /\ seen' = [seen EXCEPT ![Owner] = deadline[t]]
    /\ known' = heap
    /\ Goto(Owner, "looked")
    /\ UNCHANGED <<now, timerVars, lockVars, span, wakeAt, late, drift, permit, spurious>>

\* Mutant: the sleep is always as long as the caller allows.
ParkClock_IgnoresDeadline ==
    /\ pc[Owner] = "looked"
    /\ late' = (seen[Owner] <= now)
    /\ span' = limit
    /\ drift' = 0
    /\ Goto(Owner, "timed")
    /\ UNCHANGED <<now, timerVars, lockVars, seen, limit, wakeAt, known, permit, spurious>>

\* Then the clock is read, and how long to sleep is worked out from it.  A deadline
\* ahead shortens the sleep; one that has passed does not end it: the thread sleeps
\* as long as the caller allows.
ParkClock ==
    /\ pc[Owner] = "looked"
    /\ late' = (seen[Owner] <= now)
    /\ span' = IF seen[Owner] \in now+1..Horizon /\ seen[Owner] - now < limit
               THEN seen[Owner] - now ELSE limit
    /\ drift' = 0
    /\ Goto(Owner, "timed")
    /\ UNCHANGED <<now, timerVars, lockVars, seen, limit, wakeAt, known, permit, spurious>>

\* ThreadPark::park_timeout gets to its wait, for that long from then on.
ParkWait ==
    /\ pc[Owner] = "timed"
    /\ wakeAt' = now + span
    /\ Goto(Owner, "asleep")
    /\ UNCHANGED <<now, timerVars, lockVars, seen, limit, span, known, late, drift, permit, spurious>>

\* It returns: with the permit, at its time, or for no reason.
ParkReturns ==
    /\ pc[Owner] = "asleep"
    /\ \/ (permit \/ now >= wakeAt) /\ UNCHANGED spurious
       \/ ~permit /\ now < wakeAt /\ spurious < MaxSpurious /\ spurious' = spurious + 1
    /\ permit' = FALSE
    /\ Leave(Owner)
    /\ limit' = Year /\ span' = Year /\ wakeAt' = Year
    /\ known' = {} /\ late' = FALSE /\ drift' = 0
    /\ UNCHANGED <<now, timerVars, lockVars>>

\* Parker::unpark.
Unpark ==
    /\ permit' = TRUE
    /\ UNCHANGED <<now, timerVars, lockVars, pc, seen, sleepVars, spurious>>

Tick ==
    /\ now < Horizon
    /\ now' = now + 1
    /\ drift' = IF pc[Owner] = "timed" THEN drift + 1 ELSE drift
    /\ UNCHANGED <<timerVars, lockVars, pc, seen, limit, span, wakeAt, known, late, permit, spurious>>

-----------------------------------------------------------------------------
\* A thread that processes timers.
DriverStep(th) ==
    \/ ProcessClock(th) \/ ProcessLock(th) \/ ProcessWake(th) \/ ProcessDone(th)
    \/ \E t \in Timers : ProcessPop(th, t)

\* The thread that parks.
ParkStep ==
    \/ \E timeout \in Timeouts \cup {Year} : ParkLook(timeout)
    \/ ParkClock \/ ParkWait \/ ParkReturns

\* Any thread at any time, in the tasks it runs too.
Others == Unpark \/ \E t \in Timers, d \in Clock : Schedule(t, d)

Next == (\E th \in Threads : DriverStep(th)) \/ ParkStep \/ Others \/ Tick

Spec == Init /\ [][Next]_vars
-----------------------------------------------------------------------------
(* Properties.                                                             *)

\* Where a thread holds the lock.
Held == {"expiring", "waking", "selflock"}

\* Type correctness; the lock is held exactly while one process() goes through the
\* heap, and a timer is never both in the heap and fired.
TypeOK ==
    /\ now \in Clock
    /\ deadline \in [Timers -> Clock]
    /\ heap \in SUBSET Timers /\ fired \in SUBSET (Timers \ heap)
    /\ locked \in BOOLEAN /\ poisoned \in BOOLEAN
    /\ pc \in [Threads -> Held \cup {"out", "process", "looked", "timed", "asleep"}]
    /\ locked <=> \E th \in Threads : pc[th] \in Held
    /\ \A a, b \in Threads : pc[a] \in Held /\ pc[b] \in Held => a = b
    /\ seen \in [Threads -> Nat]
    /\ limit \in Nat /\ span \in Nat /\ wakeAt \in Nat /\ drift \in Nat
    /\ known \in SUBSET Timers /\ late \in BOOLEAN /\ permit \in BOOLEAN
    /\ spurious \in 0..MaxSpurious

Promise == INSTANCE TimerService WITH pending <- heap

\* TimeDriver keeps the promise of a timer service, although process() expires by a
\* clock it read before it had the lock, other threads process and schedule between
\* any two steps, and a waker that panics cuts process() short: each timer fires at
\* most once, not before its deadline, and none before one that is due earlier.
KeepsPromise == Promise!Spec

\* No timer fires before its deadline, although process() goes by a clock it read
\* before it had the lock.
NeverEarly == \A t \in fired : deadline[t] <= now

\* When process() comes to its end, no timer is left in the heap whose deadline had
\* passed when it was called, whatever was scheduled or processed while it waited
\* for the lock: the reversed order of TimerEntry makes peek() the earliest one.
ProcessLeavesNoneExpired ==
    [][\A th \in Threads : pc[th] = "expiring" /\ pc'[th] = "out"
           => \A t \in heap' : deadline[t] > seen[th]]_vars

\* A wait passes the deadline of a timer that was in the heap when park_timeout()
\* looked only by the time that went by between its reading of the clock and the
\* start of the wait, which it does not take off; or without any bound but the
\* caller's timeout if the earliest deadline had passed at that reading: then the
\* timers do not shorten the sleep at all, not even the ones still ahead.  For a
\* timer scheduled after the look nothing is promised: schedule() does not unpark.
SleepsToDeadline ==
    pc[Owner] = "asleep" /\ ~late => \A t \in known : wakeAt <= deadline[t] + drift
=============================================================================
