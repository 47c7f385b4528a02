------------------------------ MODULE Timers_proofs ------------------------------
(***************************************************************************)
(* Proofs about Timers, for any timers, timeouts and bounds.               *)
(***************************************************************************)
EXTENDS Timers, WellFoundedInduction, TLAPS

USE DEF timerVars, lockVars, sleepVars

\* Which operations a step of the system can be.
LEMMA NextCases ==
    ASSUME Next
    PROVE  \/ \E th \in Threads : ProcessClock(th) \/ ProcessLock(th) \/ ProcessWake(th) \/ ProcessDone(th)
           \/ \E th \in Threads, t \in Timers : ProcessPop(th, t)
           \/ \E timeout \in Timeouts \cup {Year} : ParkLook(timeout)
           \/ ParkClock \/ ParkWait \/ ParkReturns \/ Unpark \/ Tick
           \/ \E t \in Timers, d \in Clock : Schedule(t, d)
  BY DEF Next, DriverStep, ParkStep, Others

\* The types of the data; the threads and the lock are in LockInv.
DataTypes ==
    /\ now \in Clock
    /\ deadline \in [Timers -> Clock]
    /\ heap \in SUBSET Timers /\ fired \in SUBSET (Timers \ heap)
    /\ seen \in [Threads -> Nat]
    /\ limit \in Nat /\ span \in Nat /\ wakeAt \in Nat /\ drift \in Nat
    /\ known \in SUBSET Timers /\ late \in BOOLEAN /\ permit \in BOOLEAN
    /\ spurious \in 0..MaxSpurious

\* The lock is held exactly while one process() goes through the heap.
LockInv ==
    /\ locked \in BOOLEAN /\ poisoned \in BOOLEAN
    /\ pc \in [Threads -> Held \cup {"out", "process", "looked", "timed", "asleep"}]
    /\ locked <=> \E th \in Threads : pc[th] \in Held
    /\ \A a, b \in Threads : pc[a] \in Held /\ pc[b] \in Held => a = b

LEMMA Constants ==
    /\ Horizon \in Nat /\ MaxSpurious \in Nat /\ Timeouts \subseteq Nat /\ Year \in Nat
    /\ Clock \subseteq Nat /\ 0 \in Clock
    /\ Owner \in Threads
  BY TimersAssumption DEF Clock, Threads

LEMMA InitTyped == Init => DataTypes /\ LockInv
<1> SUFFICES ASSUME Init PROVE DataTypes /\ LockInv
  OBVIOUS
<1>1. deadline \in [Timers -> Clock] /\ spurious \in 0..MaxSpurious
  BY Constants DEF Init
<1>2. seen \in [Threads -> Nat]
  BY Constants DEF Init
<1>3. DataTypes
  BY <1>1, <1>2, Constants DEF Init, DataTypes
<1>4. LockInv
  BY DEF Init, LockInv, Held
<1> QED
  BY <1>3, <1>4

LEMMA DataKept ==
    ASSUME DataTypes, [Next]_vars
    PROVE  DataTypes'
<1> USE Constants DEF DataTypes
<1>1. ASSUME NEW th \in Threads, ProcessClock(th) PROVE DataTypes'
  BY <1>1 DEF ProcessClock
<1>2. ASSUME NEW th \in Threads, ProcessLock(th) PROVE DataTypes'
  <2>1. seen' \in [Threads -> Nat]
    BY <1>2 DEF ProcessLock, Leave
  <2> QED
    BY <1>2, <2>1 DEF ProcessLock
<1>3. ASSUME NEW th \in Threads, ProcessWake(th) PROVE DataTypes'
  <2>1. seen' \in [Threads -> Nat]
    BY <1>3 DEF ProcessWake, Leave
  <2>2. permit' \in BOOLEAN
    BY <1>3 DEF ProcessWake
  <2> QED
    BY <1>3, <2>1, <2>2 DEF ProcessWake
<1>4. ASSUME NEW th \in Threads, ProcessDone(th) PROVE DataTypes'
  BY <1>4 DEF ProcessDone, Leave
<1>5. ASSUME NEW th \in Threads, NEW t \in Timers, ProcessPop(th, t) PROVE DataTypes'
  BY <1>5 DEF ProcessPop
<1>6. ASSUME NEW timeout \in Timeouts \cup {Year}, ParkLook(timeout) PROVE DataTypes'
  <2>1. seen' \in [Threads -> Nat]
    BY <1>6 DEF ParkLook
  <2> QED
    BY <1>6, <2>1 DEF ParkLook
<1>7. CASE ParkClock
  <2>1. seen[Owner] \in Nat /\ now \in Nat /\ limit \in Nat
    OBVIOUS
  <2>2. (span' = seen[Owner] - now /\ seen[Owner] > now) \/ span' = limit
    BY <1>7, <2>1 DEF ParkClock
  <2>3. span' \in Nat
    BY <2>1, <2>2
  <2>4. late' \in BOOLEAN
    BY <1>7 DEF ParkClock
  <2> QED
    BY <1>7, <2>3, <2>4 DEF ParkClock
<1>8. CASE ParkWait
  <2>1. wakeAt' \in Nat
    BY <1>8 DEF ParkWait
  <2> QED
    BY <1>8, <2>1 DEF ParkWait
<1>9. CASE ParkReturns
  <2>1. spurious' \in 0..MaxSpurious
    BY <1>9 DEF ParkReturns
  <2> QED
    BY <1>9, <2>1 DEF ParkReturns, Leave
<1>10. CASE Unpark
  BY <1>10 DEF Unpark
<1>11. CASE Tick
  <2>1. now' \in Clock
    BY <1>11 DEF Tick, Clock
  <2>2. drift' \in Nat
    BY <1>11 DEF Tick
  <2> QED
    BY <1>11, <2>1, <2>2 DEF Tick
<1>12. ASSUME NEW t \in Timers, NEW d \in Clock, Schedule(t, d) PROVE DataTypes'
  BY <1>12 DEF Schedule
<1>13. CASE UNCHANGED vars
  BY <1>13 DEF vars
<1> HIDE DEF DataTypes
<1> QED
  BY <1>1, <1>2, <1>3, <1>4, <1>5, <1>6, <1>7, <1>8, <1>9, <1>10, <1>11, <1>12, <1>13, NextCases

\* A thread that goes on where it holds no lock, or still holds it.
LEMMA Moves ==
    ASSUME LockInv, NEW th \in Threads,
           NEW label \in Held \cup {"out", "process", "looked", "timed", "asleep"},
           Goto(th, label), UNCHANGED lockVars, label \in Held <=> pc[th] \in Held
    PROVE  LockInv'
  BY DEF LockInv, Goto

LEMMA LockKept ==
    ASSUME LockInv, [Next]_vars
    PROVE  LockInv'
<1>1. ASSUME NEW th \in Threads, ProcessClock(th) PROVE LockInv'
  <2>1. Goto(th, "process") /\ UNCHANGED lockVars /\ pc[th] \notin Held
    BY <1>1 DEF ProcessClock, Held
  <2>2. "process" \notin Held
    BY DEF Held
  <2> QED
    BY <2>1, <2>2, Moves
<1>2. ASSUME NEW th \in Threads, ProcessLock(th) PROVE LockInv'
  <2>1. /\ \A a \in Threads : pc[a] \notin Held
        /\ poisoned' = poisoned /\ poisoned \in BOOLEAN /\ locked' = ~poisoned
    BY <1>2 DEF ProcessLock, LockInv
  <2>2. CASE poisoned
    <3>1. pc' = [pc EXCEPT ![th] = "out"] /\ locked' = FALSE
      BY <1>2, <2>1, <2>2 DEF ProcessLock, Leave, Goto
    <3>2. \A a \in Threads : pc'[a] \notin Held
      BY <3>1, <2>1 DEF Held, LockInv
    <3> QED
      BY <3>1, <3>2, <2>1 DEF LockInv
  <2>3. CASE ~poisoned
    <3>1. pc' = [pc EXCEPT ![th] = "expiring"] /\ locked' = TRUE
      BY <1>2, <2>1, <2>3 DEF ProcessLock, Goto
    <3>2. pc'[th] \in Held /\ \A a \in Threads : pc'[a] \in Held => a = th
      BY <3>1, <2>1 DEF Held, LockInv
    <3>3. pc' \in [Threads -> Held \cup {"out", "process", "looked", "timed", "asleep"}]
      BY <3>1 DEF Held, LockInv
    <3> QED
      BY <3>1, <3>2, <3>3, <2>1 DEF LockInv
  <2> QED
    BY <2>2, <2>3
<1>3. ASSUME NEW th \in Threads, ProcessWake(th) PROVE LockInv'
  <2>1. pc[th] \in Held
    BY <1>3 DEF ProcessWake, Held
  <2>2. CASE Goto(th, "expiring") /\ UNCHANGED lockVars
    BY <2>1, <2>2, Moves DEF Held
  <2>3. CASE Goto(th, "selflock") /\ UNCHANGED lockVars
    BY <2>1, <2>3, Moves DEF Held
  <2>4. CASE Leave(th) /\ locked' = FALSE /\ poisoned' = TRUE
    <3>1. pc' = [pc EXCEPT ![th] = "out"]
      BY <2>4 DEF Leave, Goto
    <3>2. \A a \in Threads : pc'[a] \notin Held
      BY <3>1, <2>1 DEF Held, LockInv
    <3> QED
      BY <2>4, <3>1, <3>2 DEF LockInv
  <2> QED
    BY <1>3, <2>2, <2>3, <2>4 DEF ProcessWake
<1>4. ASSUME NEW th \in Threads, ProcessDone(th) PROVE LockInv'
  <2>1. /\ pc' = [pc EXCEPT ![th] = "out"] /\ locked' = FALSE /\ poisoned' = poisoned
        /\ pc[th] \in Held
    BY <1>4 DEF ProcessDone, Leave, Goto, Held
  <2>2. \A a \in Threads : pc'[a] \notin Held
    BY <2>1 DEF Held, LockInv
  <2> QED
    BY <2>1, <2>2 DEF LockInv
<1>5. ASSUME NEW th \in Threads, NEW t \in Timers, ProcessPop(th, t) PROVE LockInv'
  <2>1. Goto(th, "waking") /\ UNCHANGED lockVars /\ pc[th] \in Held
    BY <1>5 DEF ProcessPop, Held
  <2> QED
    BY <2>1, Moves DEF Held
<1>6. ASSUME NEW timeout \in Timeouts \cup {Year}, ParkLook(timeout) PROVE LockInv'
  <2>1. Goto(Owner, "looked") /\ UNCHANGED lockVars /\ pc[Owner] \notin Held
    BY <1>6 DEF ParkLook, Held
  <2>2. "looked" \notin Held
    BY DEF Held
  <2> QED
    BY <2>1, <2>2, Moves, Constants
<1>7. CASE ParkClock
  <2>1. Goto(Owner, "timed") /\ UNCHANGED lockVars /\ pc[Owner] \notin Held /\ "timed" \notin Held
    BY <1>7 DEF ParkClock, Held
  <2> QED
    BY <2>1, Moves, Constants
<1>8. CASE ParkWait
  <2>1. Goto(Owner, "asleep") /\ UNCHANGED lockVars /\ pc[Owner] \notin Held /\ "asleep" \notin Held
    BY <1>8 DEF ParkWait, Held
  <2> QED
    BY <2>1, Moves, Constants
<1>9. CASE ParkReturns
  <2>1. Goto(Owner, "out") /\ UNCHANGED lockVars /\ pc[Owner] \notin Held /\ "out" \notin Held
    BY <1>9 DEF ParkReturns, Leave, Held
  <2> QED
    BY <2>1, Moves, Constants
<1>10. ASSUME UNCHANGED <<pc, lockVars>> PROVE LockInv'
  BY <1>10 DEF LockInv, lockVars
<1>11. CASE Unpark \/ Tick
  BY <1>10, <1>11 DEF Unpark, Tick
<1>12. ASSUME NEW t \in Timers, NEW d \in Clock, Schedule(t, d) PROVE LockInv'
  BY <1>10, <1>12 DEF Schedule
<1>13. CASE UNCHANGED vars
  BY <1>10, <1>13 DEF vars
<1> QED
  BY <1>1, <1>2, <1>3, <1>4, <1>5, <1>6, <1>7, <1>8, <1>9, <1>11, <1>12, <1>13, NextCases

\* Type correctness; the lock is held exactly while one process() is in the heap.
THEOREM TypeCorrect == Spec => []TypeOK
<1>1. DataTypes /\ LockInv /\ [Next]_vars => DataTypes' /\ LockInv'
  BY DataKept, LockKept
<1>2. DataTypes /\ LockInv => TypeOK
  BY DEF DataTypes, LockInv, TypeOK
<1>3. QED
  BY InitTyped, <1>1, <1>2, PTL DEF Spec

\* The clock that process() goes by is never ahead of the time.
FiringInv ==
    /\ \A th \in Threads : pc[th] \in Held \cup {"process"} => seen[th] <= now
    /\ NeverEarly

\* What park_timeout() read stays true of the timers it saw: none of them gets
\* another deadline.  The span it works out reaches no further than the first of
\* them, measured from the reading of the clock.
SleepInv ==
    /\ known \subseteq heap \cup fired
    /\ pc[Owner] = "looked" => \A t \in known : seen[Owner] <= deadline[t]
    /\ pc[Owner] = "looked" => seen[Owner] = Year \/ seen[Owner] <= Horizon
    /\ pc[Owner] = "looked" /\ seen[Owner] = Year => known = {}
    /\ pc[Owner] = "timed" /\ ~late => \A t \in known : now + span <= deadline[t] + drift
    /\ SleepsToDeadline

LEMMA FiringKept == Spec => []FiringInv
<1> USE Constants DEF FiringInv, NeverEarly
<1>1. Init => FiringInv
  BY DEF Init, Held
<1>2. TypeOK /\ FiringInv /\ [Next]_vars => FiringInv'
  <2> SUFFICES ASSUME TypeOK, FiringInv, [Next]_vars PROVE FiringInv'
    OBVIOUS
  <2>t. /\ now \in Nat /\ seen \in [Threads -> Nat] /\ deadline \in [Timers -> Clock]
        /\ fired \subseteq Timers
        /\ pc \in [Threads -> Held \cup {"out", "process", "looked", "timed", "asleep"}]
    BY DEF TypeOK
  <2>1. ASSUME NEW th \in Threads, ProcessClock(th) PROVE FiringInv'
    BY <2>1, <2>t DEF ProcessClock, Goto
  <2>2. ASSUME NEW th \in Threads, ProcessLock(th) PROVE FiringInv'
    BY <2>2, <2>t DEF ProcessLock, Leave, Goto, Held
  <2>3. ASSUME NEW th \in Threads, ProcessWake(th) PROVE FiringInv'
    BY <2>3, <2>t DEF ProcessWake, Leave, Goto, Held
  <2>4. ASSUME NEW th \in Threads, ProcessDone(th) PROVE FiringInv'
    BY <2>4, <2>t DEF ProcessDone, Leave, Goto, Held
  <2>5. ASSUME NEW th \in Threads, NEW t \in Timers, ProcessPop(th, t) PROVE FiringInv'
    <3>0. deadline[t] \in Nat /\ seen[th] \in Nat /\ deadline[t] <= seen[th] /\ seen[th] <= now
      BY <2>5, <2>t DEF ProcessPop, Held
    <3>1. deadline[t] <= now
      BY <3>0, <2>t
    <3>2. \A u \in fired' : deadline'[u] <= now'
      BY <2>5, <3>1 DEF ProcessPop
    <3> QED
      BY <2>5, <2>t, <3>0, <3>2 DEF ProcessPop, Goto, Held
  <2>6. ASSUME NEW timeout \in Timeouts \cup {Year}, ParkLook(timeout) PROVE FiringInv'
    <3>1. pc' = [pc EXCEPT ![Owner] = "looked"] /\ \A th \in Threads \ {Owner} : seen'[th] = seen[th]
      BY <2>6, <2>t DEF ParkLook, Goto
    <3>2. \A th \in Threads : pc'[th] \in Held \cup {"process"} => th # Owner /\ pc'[th] = pc[th]
      BY <3>1, <2>t DEF Held
    <3> QED
      BY <2>6, <3>1, <3>2 DEF ParkLook
  <2>7. CASE ParkClock \/ ParkWait
    BY <2>7, <2>t DEF ParkClock, ParkWait, Goto, Held
  <2>8. CASE ParkReturns
    BY <2>8, <2>t DEF ParkReturns, Leave, Goto, Held
  <2>9. CASE Tick
    <3>1. \A t \in fired : deadline[t] \in Nat
      BY <2>t
    <3>2. now' = now + 1 /\ now' \in Nat
      BY <2>9, <2>t DEF Tick
    <3>3. \A t \in fired : deadline[t] <= now'
      BY <3>1, <3>2, <2>t
    <3>4. UNCHANGED <<deadline, fired, pc, seen>>
      BY <2>9 DEF Tick
    <3>5. \A th \in Threads : seen[th] \in Nat /\ (seen[th] <= now => seen[th] <= now')
      BY <2>t, <3>2
    <3> QED
      BY <3>3, <3>4, <3>5
  <2>10. ASSUME NEW t \in Timers, NEW d \in Clock, Schedule(t, d) PROVE FiringInv'
    BY <2>10, <2>t DEF Schedule
  <2>11. CASE Unpark \/ UNCHANGED vars
    BY <2>11 DEF Unpark, vars
  <2> HIDE DEF FiringInv
  <2> QED
    BY <2>1, <2>2, <2>3, <2>4, <2>5, <2>6, <2>7, <2>8, <2>9, <2>10, <2>11, NextCases
<1>3. QED
  BY <1>1, <1>2, TypeCorrect, PTL DEF Spec

\* No timer fires before its deadline.
THEOREM NoTimerIsEarly == Spec => []NeverEarly
<1>1. FiringInv => NeverEarly
  BY DEF FiringInv
<1>2. QED
  BY <1>1, FiringKept, PTL

\* A thread that found no expired timer is back before the first deadline it saw,
\* but for the time between its reading of the clock and its wait.
THEOREM DeadlinesAreKept == Spec => []SleepsToDeadline
<1> USE Constants DEF SleepInv, SleepsToDeadline
<1>1. Init => SleepInv
  BY DEF Init
<1>2. TypeOK /\ SleepInv /\ [Next]_vars => SleepInv'
  <2> SUFFICES ASSUME TypeOK, SleepInv, [Next]_vars PROVE SleepInv'
    OBVIOUS
  <2>t. /\ now \in Nat /\ seen \in [Threads -> Nat] /\ limit \in Nat /\ span \in Nat
        /\ wakeAt \in Nat /\ drift \in Nat
        /\ deadline \in [Timers -> Clock]
        /\ heap \subseteq Timers /\ fired \subseteq Timers /\ known \subseteq Timers
        /\ pc \in [Threads -> Held \cup {"out", "process", "looked", "timed", "asleep"}]
    BY DEF TypeOK
  <2>n. \A t \in known : deadline[t] \in Nat
    BY <2>t
  \* What a step of a process() does not touch.
  <2>k. ASSUME NEW th \in Threads, NEW label, label \notin {"looked", "timed", "asleep"},
               pc[th] \notin {"looked", "timed", "asleep"}, Goto(th, label),
               th = Owner \/ seen'[Owner] = seen[Owner],
               heap \cup fired \subseteq heap' \cup fired', UNCHANGED <<now, deadline, sleepVars>>
        PROVE  SleepInv'
    <3>1. pc' = [pc EXCEPT ![th] = label]
      BY <2>k DEF Goto
    <3>2. CASE th = Owner
      <4>1. pc'[Owner] \notin {"looked", "timed", "asleep"}
        BY <3>1, <3>2, <2>k, <2>t
      <4> QED
        BY <4>1, <2>k
    <3>3. CASE th # Owner
      <4>1. pc'[Owner] = pc[Owner] /\ seen'[Owner] = seen[Owner]
        BY <3>1, <3>3, <2>k, <2>t
      <4> QED
        BY <4>1, <2>k
    <3> QED
      BY <3>2, <3>3
  <2>1. ASSUME NEW th \in Threads, ProcessClock(th) PROVE SleepInv'
    <3>1. th = Owner \/ seen'[Owner] = seen[Owner]
      BY <2>1, <2>t DEF ProcessClock
    <3> QED
      BY <2>1, <3>1, <2>k DEF ProcessClock
  <2>2. ASSUME NEW th \in Threads, ProcessLock(th) PROVE SleepInv'
    <3>1. th = Owner \/ seen'[Owner] = seen[Owner]
      BY <2>2, <2>t DEF ProcessLock, Leave
    <3>2. Goto(th, "out") \/ Goto(th, "expiring")
      BY <2>2 DEF ProcessLock, Leave
    <3> QED
      BY <2>2, <3>1, <3>2, <2>k DEF ProcessLock
  <2>3. ASSUME NEW th \in Threads, ProcessWake(th) PROVE SleepInv'
    <3>1. th = Owner \/ seen'[Owner] = seen[Owner]
      BY <2>3, <2>t DEF ProcessWake, Leave
    <3>2. Goto(th, "out") \/ Goto(th, "expiring") \/ Goto(th, "selflock")
      BY <2>3 DEF ProcessWake, Leave
    <3> QED
      BY <2>3, <3>1, <3>2, <2>k DEF ProcessWake
  <2>4. ASSUME NEW th \in Threads, ProcessDone(th) PROVE SleepInv'
    <3>1. th = Owner \/ seen'[Owner] = seen[Owner]
      BY <2>4, <2>t DEF ProcessDone, Leave
    <3> QED
      BY <2>4, <3>1, <2>k DEF ProcessDone, Leave
  <2>5. ASSUME NEW th \in Threads, NEW t \in Timers, ProcessPop(th, t) PROVE SleepInv'
    BY <2>5, <2>k DEF ProcessPop
  <2>6. ASSUME NEW timeout \in Timeouts \cup {Year}, ParkLook(timeout) PROVE SleepInv'
    <3>0. pc'[Owner] = "looked" /\ known' = heap /\ UNCHANGED <<heap, fired, deadline>>
      BY <2>6, <2>t DEF ParkLook, Goto
    <3>1. CASE heap = {} /\ seen' = [seen EXCEPT ![Owner] = Year]
      <4>1. seen'[Owner] = Year
        BY <3>1, <2>t
      <4> QED
        BY <3>0, <3>1, <4>1
    <3>2. ASSUME NEW t \in heap, Earliest(t), seen' = [seen EXCEPT ![Owner] = deadline[t]]
          PROVE  SleepInv'
      <4>1. seen'[Owner] = deadline[t] /\ deadline[t] \in 0..Horizon
        BY <3>2, <2>t DEF Clock
      <4>2. \A u \in heap : seen'[Owner] <= deadline[u]
        BY <3>2, <4>1 DEF Earliest
      <4>3. seen'[Owner] <= Horizon /\ seen'[Owner] # Year
        BY <4>1, TimersAssumption
      <4> QED
        BY <3>0, <4>2, <4>3
    <3> QED
      BY <2>6, <3>1, <3>2 DEF ParkLook
  <2>7. CASE ParkClock
    <3>0. /\ pc'[Owner] = "timed" /\ pc[Owner] = "looked" /\ drift' = 0
          /\ UNCHANGED <<heap, fired, known, deadline, now>>
          /\ late' = (seen[Owner] <= now)
      BY <2>7, <2>t DEF ParkClock, Goto
    <3>1. ASSUME ~late', NEW t \in known PROVE now + span' <= deadline[t]
      <4>1. seen[Owner] \in Nat /\ ~(seen[Owner] <= now) /\ deadline[t] \in Nat
        BY <3>0, <3>1, <2>t, <2>n
      <4>2. seen[Owner] <= Horizon /\ seen[Owner] <= deadline[t]
        BY <3>0, <3>1
      <4>3. seen[Owner] \in now+1..Horizon
        BY <4>1, <4>2, <2>t
      <4>4. CASE seen[Owner] - now < limit
        <5>1. span' = seen[Owner] - now
          BY <2>7, <4>3, <4>4 DEF ParkClock
        <5> QED
          BY <5>1, <4>1, <4>2, <2>t
      <4>5. CASE ~(seen[Owner] - now < limit)
        <5>1. span' = limit
          BY <2>7, <4>3, <4>5 DEF ParkClock
        <5> QED
          BY <5>1, <4>1, <4>2, <4>5, <2>t
      <4> QED
        BY <4>4, <4>5
    <3>2. ~late' => \A t \in known' : now' + span' <= deadline'[t] + drift'
      BY <3>0, <3>1, <2>n
    <3> QED
      BY <3>0, <3>2
  <2>8. CASE ParkWait
    <3>0. /\ pc'[Owner] = "asleep" /\ pc[Owner] = "timed" /\ wakeAt' = now + span
          /\ UNCHANGED <<heap, fired, known, deadline, drift, late>>
      BY <2>8, <2>t DEF ParkWait, Goto
    <3> QED
      BY <3>0
  <2>9. CASE ParkReturns
    <3>0. pc'[Owner] = "out" /\ known' = {}
      BY <2>9, <2>t DEF ParkReturns, Leave, Goto
    <3> QED
      BY <3>0
  <2>10. CASE Tick
    <3>0. /\ now' = now + 1
          /\ UNCHANGED <<heap, fired, known, deadline, late, pc, seen, span, wakeAt>>
      BY <2>10 DEF Tick
    <3>1. CASE pc[Owner] = "timed"
      <4>1. drift' = drift + 1
        BY <2>10, <3>1 DEF Tick
      <4>2. ~late => \A t \in known : now' + span <= deadline[t] + drift'
        BY <3>0, <3>1, <4>1, <2>t, <2>n
      <4> QED
        BY <3>0, <3>1, <4>2
    <3>2. CASE pc[Owner] # "timed"
      <4>1. drift' = drift
        BY <2>10, <3>2 DEF Tick
      <4> QED
        BY <3>0, <3>2, <4>1
    <3> QED
      BY <3>1, <3>2
  <2>11. ASSUME NEW t \in Timers, NEW d \in Clock, Schedule(t, d) PROVE SleepInv'
    <3>1. t \notin known /\ heap' = heap \cup {t}
      BY <2>11 DEF Schedule
    <3>2. \A u \in known : deadline'[u] = deadline[u]
      BY <2>11, <2>t, <3>1 DEF Schedule
    <3> QED
      BY <2>11, <3>1, <3>2 DEF Schedule
  <2>12. CASE Unpark \/ UNCHANGED vars
    BY <2>12 DEF Unpark, vars
  <2> HIDE DEF SleepInv
  <2> QED
    BY <2>1, <2>2, <2>3, <2>4, <2>5, <2>6, <2>7, <2>8, <2>9, <2>10, <2>11, <2>12, NextCases
<1>3. SleepInv => SleepsToDeadline
  OBVIOUS
<1>4. QED
  BY <1>1, <1>2, <1>3, TypeCorrect, PTL DEF Spec

\* A heap that is not empty has a first entry: peek() finds one.
LEMMA FirstEntry ==
    ASSUME TypeOK, heap # {}
    PROVE  \E t \in heap : Earliest(t)
<1> DEFINE D == {deadline[t] : t \in heap}
           Less == {ss \in Nat \X Nat : ss[1] < ss[2]}
<1>1. D \subseteq Nat /\ D # {}
  BY TimersAssumption DEF TypeOK, Clock
<1>2. IsWellFoundedOn(Less, Nat)
  BY NatLessThanWellFounded DEF OpToRel
<1> HIDE DEF Less
<1>3. PICK d \in D : \A e \in D : ~(<<e, d>> \in Less)
  BY <1>1, <1>2, WFMin
<1>4. \A e \in D : ~(e < d)
  BY <1>1, <1>3 DEF Less
<1>5. PICK t \in heap : deadline[t] = d
  BY <1>3
<1>6. \A u \in heap : deadline[u] \in D
  OBVIOUS
<1> HIDE DEF D
<1>7. \A u \in heap : deadline[t] <= deadline[u]
  <2> SUFFICES ASSUME NEW u \in heap PROVE deadline[t] <= deadline[u]
    OBVIOUS
  <2>1. deadline[u] \in Nat /\ d \in Nat /\ ~(deadline[u] < d)
    BY <1>1, <1>3, <1>4, <1>6
  <2> QED
    BY <2>1, <1>5
<1> QED
  BY <1>5, <1>7 DEF Earliest

\* When process() is done no entry is left whose deadline it was to expire.
THEOREM ExpiredAreProcessed == Spec => ProcessLeavesNoneExpired
<1> DEFINE Left == \A th \in Threads : pc[th] = "expiring" /\ pc'[th] = "out"
                       => \A t \in heap' : deadline[t] > seen[th]
<1>1. TypeOK /\ [Next]_vars => [Left]_vars
  <2> SUFFICES ASSUME TypeOK, Next, NEW th \in Threads, pc[th] = "expiring", pc'[th] = "out"
               PROVE  \A t \in heap' : deadline[t] > seen[th]
    OBVIOUS
  <2>t. pc \in [Threads -> Held \cup {"out", "process", "looked", "timed", "asleep"}]
    BY DEF TypeOK
  <2>a. ASSUME NEW a \in Threads, NEW label, Goto(a, label), a # th \/ label # "out" PROVE FALSE
    BY <2>a, <2>t DEF Goto
  <2>b. ASSUME NEW a \in Threads, NEW label, Goto(a, label), pc[a] # "expiring" PROVE FALSE
    BY <2>b, <2>t DEF Goto
  <2>1. ASSUME NEW a \in Threads, ProcessClock(a) \/ ProcessLock(a) \/ ProcessWake(a) PROVE FALSE
    BY <2>1, <2>b DEF ProcessClock, ProcessLock, ProcessWake, Leave
  <2>2. ASSUME NEW a \in Threads, NEW t \in Timers, ProcessPop(a, t) PROVE FALSE
    BY <2>2, <2>a DEF ProcessPop
  <2>3. ASSUME NEW timeout \in Timeouts \cup {Year}, ParkLook(timeout) PROVE FALSE
    BY <2>3, <2>b, Constants DEF ParkLook
  <2>4. ~ParkClock /\ ~ParkWait /\ ~ParkReturns
    BY <2>b, Constants DEF ParkClock, ParkWait, ParkReturns, Leave
  <2>5. ~Unpark /\ ~Tick /\ \A t \in Timers, d \in Clock : ~Schedule(t, d)
    BY DEF Unpark, Tick, Schedule
  <2>6. PICK a \in Threads : ProcessDone(a)
    BY <2>1, <2>2, <2>3, <2>4, <2>5, NextCases
  <2>7. ProcessDone(th)
    BY <2>6, <2>a DEF ProcessDone, Leave
  <2>8. heap' = heap /\ \A t \in heap : Earliest(t) => deadline[t] > seen[th]
    BY <2>7 DEF ProcessDone
  <2>9. seen[th] \in Nat /\ \A t \in heap : deadline[t] \in Nat
    BY Constants DEF TypeOK
  <2> SUFFICES ASSUME NEW t \in heap PROVE deadline[t] > seen[th]
    BY <2>8
  <2>10. PICK u \in heap : Earliest(u)
    BY FirstEntry
  <2>11. deadline[u] > seen[th] /\ deadline[u] <= deadline[t]
    BY <2>8, <2>10 DEF Earliest
  <2> QED
    BY <2>9, <2>11
<1>2. QED
  BY <1>1, TypeCorrect, PTL DEF Spec, ProcessLeavesNoneExpired

\* The driver implements a timer service: a pop is a firing after the deadline, by
\* FiringInv, and of an earliest entry; the other steps leave the timers alone.
THEOREM PromiseKept == Spec => KeepsPromise
<1>1. Init => Promise!Init
  BY DEF Init, Promise!Init
<1>2. TypeOK /\ FiringInv /\ [Next]_vars => [Promise!Next]_Promise!vars
  <2> SUFFICES ASSUME TypeOK, FiringInv, [Next]_vars PROVE [Promise!Next]_Promise!vars
    OBVIOUS
  <2>t. /\ now \in Nat /\ seen \in [Threads -> Nat] /\ deadline \in [Timers -> Clock]
        /\ fired \subseteq Timers
    BY Constants DEF TypeOK
  <2>1. ASSUME NEW th \in Threads,
               ProcessClock(th) \/ ProcessLock(th) \/ ProcessWake(th) \/ ProcessDone(th)
        PROVE  UNCHANGED Promise!vars
    BY <2>1 DEF ProcessClock, ProcessLock, ProcessWake, ProcessDone, Promise!vars
  <2>2. CASE ParkClock \/ ParkWait \/ ParkReturns \/ Unpark
    BY <2>2 DEF ParkClock, ParkWait, ParkReturns, Unpark, Promise!vars
  <2>3. ASSUME NEW timeout \in Timeouts \cup {Year}, ParkLook(timeout) PROVE UNCHANGED Promise!vars
    BY <2>3 DEF ParkLook, Promise!vars
  <2>4. ASSUME NEW th \in Threads, NEW t \in Timers, ProcessPop(th, t) PROVE Promise!Fire(t)
    <3>1. deadline[t] \in Nat /\ seen[th] \in Nat /\ deadline[t] <= seen[th] /\ seen[th] <= now
      BY <2>4, <2>t, Constants DEF ProcessPop, FiringInv, Held
    <3>2. deadline[t] <= now
      BY <3>1, <2>t
    <3> QED
      BY <2>4, <3>2 DEF ProcessPop, Earliest, Promise!Fire
  <2>5. ASSUME NEW t \in Timers, NEW d \in Clock, Schedule(t, d) PROVE Promise!Schedule(t, d)
    BY <2>5 DEF Schedule, Promise!Schedule
  <2>6. ASSUME Tick PROVE Promise!Tick
    BY <2>6, <2>t DEF Tick, Promise!Tick
  <2>7. CASE UNCHANGED vars
    BY <2>7 DEF vars, Promise!vars
  <2> QED
    BY <2>1, <2>2, <2>3, <2>4, <2>5, <2>6, <2>7, NextCases DEF Promise!Next
<1>3. QED
  BY <1>1, <1>2, TypeCorrect, FiringKept, PTL DEF Spec, KeepsPromise, Promise!Spec
=============================================================================
