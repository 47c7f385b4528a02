---------------------------- MODULE RawTask_proofs ----------------------------
(***************************************************************************)
(* Proofs about RawTask, for any set of threads and any bound on wakers.   *)
(***************************************************************************)
EXTENDS RawTask, FiniteSetTheorems, TLAPS

USE DEF At, InUserCode, HasWaker, OwnerIn, Between, Goto, Call, Return, DropRef,
        TakeJoinWaker, TrySchedule, stateVars, threadVars, wakerVars, joinVars

\* Type correctness; in particular no count of the model goes below zero.
THEOREM TypeCorrect == Spec => []TypeOK
<1> USE DEF TypeOK, Lives, Frames, Handles
<1>1. Init => TypeOK
  <2> SUFFICES ASSUME Init PROVE TypeOK
    OBVIOUS
  <2>1. pc \in [Threads -> Frames \cup {"out", "dead"}] /\ depth \in [Threads -> Nat]
    BY DEF Init
  <2>2. life \in Lives /\ handle \in Handles
    BY DEF Init
  <2>3. refs \in Int /\ queue \in Nat /\ clones \in Nat /\ consumed \in Nat /\ polls \in Nat /\ panics \in Nat
    BY DEF Init
  <2>4. /\ aborted \in BOOLEAN /\ interest \in BOOLEAN /\ output \in BOOLEAN
        /\ joinWaker \in BOOLEAN /\ freed \in BOOLEAN /\ woken \in BOOLEAN /\ missed \in BOOLEAN
    BY DEF Init
  <2> QED
    BY <2>1, <2>2, <2>3, <2>4

<1>2. TypeOK /\ [Next]_vars => TypeOK'
  <2> SUFFICES ASSUME TypeOK, [Next]_vars PROVE TypeOK'
    OBVIOUS
  <2>1. ASSUME NEW th \in Threads, Run(th) PROVE TypeOK'
    BY <2>1 DEF Run
  <2>2. ASSUME NEW th \in Threads, PollReady(th) PROVE TypeOK'
    BY <2>2 DEF PollReady
  <2>3. ASSUME NEW th \in Threads, PollPending(th) PROVE TypeOK'
    BY <2>3 DEF PollPending
  <2>4. ASSUME NEW th \in Threads, MarkComplete(th) PROVE TypeOK'
    <3>1. CASE interest
      BY <2>4, <3>1 DEF MarkComplete
    <3>2. CASE ~interest
      BY <2>4, <3>2 DEF MarkComplete
    <3> QED
      BY <3>1, <3>2
  <2>5. ASSUME NEW th \in Threads, WakeJoiner(th) PROVE TypeOK'
    BY <2>5 DEF WakeJoiner
  <2>6. ASSUME NEW th \in Threads, ReleasePoll(th) PROVE TypeOK'
    BY <2>6 DEF ReleasePoll
  <2>7. ASSUME NEW th \in Threads, DropPollWaker(th) PROVE TypeOK'
    <3>1. CASE depth[th] > 0
      BY <2>7, <3>1 DEF DropPollWaker
    <3>2. CASE ~(depth[th] > 0)
      BY <2>7, <3>2 DEF DropPollWaker
    <3> QED
      BY <3>1, <3>2
  <2>8. ASSUME NEW th \in Threads, PollPanics(th) PROVE TypeOK'
    BY <2>8 DEF PollPanics
  <2>9. ASSUME NEW th \in Threads, Unwind(th) PROVE TypeOK'
    <3>1. CASE depth[th] > 0
      BY <2>9, <3>1 DEF Unwind
    <3>2. CASE ~(depth[th] > 0)
      BY <2>9, <3>2 DEF Unwind
    <3> QED
      BY <3>1, <3>2
  <2>10. ASSUME NEW th \in Threads, CloneWaker(th) PROVE TypeOK'
    BY <2>10 DEF CloneWaker
  <2>11. ASSUME NEW th \in Threads, WakeByRef(th) PROVE TypeOK'
    <3>1. CASE life = "idle" /\ ~aborted
      BY <2>11, <3>1 DEF WakeByRef
    <3>2. CASE ~(life = "idle" /\ ~aborted)
      BY <2>11, <3>2 DEF WakeByRef
    <3> QED
      BY <3>1, <3>2
  <2>12. ASSUME NEW th \in Threads, Wake(th) PROVE TypeOK'
    <3>1. CASE life = "idle" /\ ~aborted
      BY <2>12, <3>1 DEF Wake
    <3>2. CASE ~(life = "idle" /\ ~aborted)
      BY <2>12, <3>2 DEF Wake
    <3> QED
      BY <3>1, <3>2
  <2>13. ASSUME NEW th \in Threads, DropWaker(th) PROVE TypeOK'
    BY <2>13 DEF DropWaker
  <2>14. ASSUME NEW th \in Threads, Schedule(th) PROVE TypeOK'
    <3>1. CASE th \in Context
      BY <2>14, <3>1 DEF Schedule
    <3>2. CASE th \notin Context
      BY <2>14, <3>2 DEF Schedule
    <3> QED
      BY <3>1, <3>2
  <2>15. CASE JoinPoll
    BY <2>15 DEF JoinPoll
  <2>16. CASE JoinLoad
    BY <2>16 DEF JoinLoad
  <2>17. CASE JoinRead
    BY <2>17 DEF JoinRead
  <2>18. CASE JoinRegister
    BY <2>18 DEF JoinRegister
  <2>19. CASE JoinStore
    BY <2>19 DEF JoinStore
  <2>20. CASE Abort
    <3>1. CASE interest
      BY <2>20, <3>1 DEF Abort
    <3>2. CASE ~interest
      BY <2>20, <3>2 DEF Abort
    <3> QED
      BY <3>1, <3>2
  <2>21. CASE DropHandle
    <3>1. CASE life = "complete"
      BY <2>21, <3>1 DEF DropHandle
    <3>2. CASE life # "complete"
      BY <2>21, <3>2 DEF DropHandle
    <3> QED
      BY <3>1, <3>2
  <2>22. CASE UNCHANGED vars
    BY <2>22 DEF vars
  <2> HIDE DEF TypeOK, Lives, Frames, Handles
  <2> QED
    BY <2>1, <2>2, <2>3, <2>4, <2>5, <2>6, <2>7, <2>8, <2>9, <2>10, <2>11, <2>12, <2>13,
       <2>14, <2>15, <2>16, <2>17, <2>18, <2>19, <2>20, <2>21, <2>22 DEF Next, ThreadStep, HandleStep
<1>3. QED
  BY <1>1, <1>2, PTL DEF Spec

\* While a wake hands the task to the scheduler no other one can, and what has
\* been handed over before is at most the one entry made on creation.
ScheduleInv ==
    /\ \A a, b \in Threads : pc[a] = "schedule" /\ pc[b] = "schedule" => a = b
    /\ Scheduling => polls + queue <= 1
    /\ polls + queue <= 2
    /\ life = "idle" => polls + queue = 1 /\ ~Scheduling

\* The output is stored before anybody can see COMPLETE, and the owner of the
\* handle excludes abort() while it reads it.
OutputInv ==
    /\ life = "complete" => output
    /\ \A th \in Threads : pc[th] = "complete" => output
    /\ handle = "read" => life = "complete" /\ ~aborted
    /\ JoinOutcome

\* The future of a task is polled at most twice, whatever wakes it.
THEOREM AtMostTwoPolls == Spec => []PolledAtMostTwice
<1> USE DEF ScheduleInv, Scheduling
<1>1. Init => ScheduleInv
  BY TaskAssumption DEF Init
<1>2. TypeOK /\ ScheduleInv /\ [Next]_vars => ScheduleInv'
  <2> SUFFICES ASSUME TypeOK, ScheduleInv, [Next]_vars PROVE ScheduleInv'
    OBVIOUS
  <2>f. pc \in [Threads -> Frames \cup {"out", "dead"}] /\ depth \in [Threads -> Nat]
        /\ polls \in Nat /\ queue \in Nat /\ Context \subseteq Threads
    BY TaskAssumption DEF TypeOK
  <2>1. ASSUME NEW th \in Threads, Run(th) PROVE ScheduleInv'
    BY <2>1, <2>f DEF Run
  <2>2. ASSUME NEW th \in Threads, PollReady(th) PROVE ScheduleInv'
    BY <2>2, <2>f DEF PollReady
  <2>3. ASSUME NEW th \in Threads, PollPending(th) PROVE ScheduleInv'
    BY <2>3, <2>f DEF PollPending
  <2>4. ASSUME NEW th \in Threads, MarkComplete(th) PROVE ScheduleInv'
    <3>1. CASE interest
      BY <2>4, <3>1, <2>f DEF MarkComplete
    <3>2. CASE ~interest
      BY <2>4, <3>2, <2>f DEF MarkComplete
    <3> QED
      BY <3>1, <3>2
  <2>5. ASSUME NEW th \in Threads, WakeJoiner(th) PROVE ScheduleInv'
    BY <2>5, <2>f DEF WakeJoiner
  <2>6. ASSUME NEW th \in Threads, ReleasePoll(th) PROVE ScheduleInv'
    BY <2>6, <2>f DEF ReleasePoll
  <2>7. ASSUME NEW th \in Threads, DropPollWaker(th) PROVE ScheduleInv'
    <3>1. CASE depth[th] > 0
      BY <2>7, <3>1, <2>f DEF DropPollWaker
    <3>2. CASE ~(depth[th] > 0)
      BY <2>7, <3>2, <2>f DEF DropPollWaker
    <3> QED
      BY <3>1, <3>2
  <2>8. ASSUME NEW th \in Threads, PollPanics(th) PROVE ScheduleInv'
    BY <2>8, <2>f DEF PollPanics
  <2>9. ASSUME NEW th \in Threads, Unwind(th) PROVE ScheduleInv'
    <3>1. CASE depth[th] > 0
      BY <2>9, <3>1, <2>f DEF Unwind
    <3>2. CASE ~(depth[th] > 0)
      BY <2>9, <3>2, <2>f DEF Unwind
    <3> QED
      BY <3>1, <3>2
  <2>10. ASSUME NEW th \in Threads, CloneWaker(th) PROVE ScheduleInv'
    BY <2>10, <2>f DEF CloneWaker
  <2>11. ASSUME NEW th \in Threads, WakeByRef(th) PROVE ScheduleInv'
    <3>1. CASE life = "idle" /\ ~aborted
      BY <2>11, <3>1, <2>f DEF WakeByRef
    <3>2. CASE ~(life = "idle" /\ ~aborted)
      BY <2>11, <3>2, <2>f DEF WakeByRef
    <3> QED
      BY <3>1, <3>2
  <2>12. ASSUME NEW th \in Threads, Wake(th) PROVE ScheduleInv'
    <3>1. CASE life = "idle" /\ ~aborted
      BY <2>12, <3>1, <2>f DEF Wake
    <3>2. CASE ~(life = "idle" /\ ~aborted)
      BY <2>12, <3>2, <2>f DEF Wake
    <3> QED
      BY <3>1, <3>2
  <2>13. ASSUME NEW th \in Threads, DropWaker(th) PROVE ScheduleInv'
    BY <2>13, <2>f DEF DropWaker
  <2>14. ASSUME NEW th \in Threads, Schedule(th) PROVE ScheduleInv'
    <3>1. CASE th \in Context
      BY <2>14, <3>1, <2>f DEF Schedule
    <3>2. CASE th \notin Context
      BY <2>14, <3>2, <2>f DEF Schedule
    <3> QED
      BY <3>1, <3>2
  <2>15. CASE JoinPoll
    BY <2>15, <2>f DEF JoinPoll
  <2>16. CASE JoinLoad
    BY <2>16, <2>f DEF JoinLoad
  <2>17. CASE JoinRead
    BY <2>17, <2>f DEF JoinRead
  <2>18. CASE JoinRegister
    BY <2>18, <2>f DEF JoinRegister
  <2>19. CASE JoinStore
    BY <2>19, <2>f DEF JoinStore
  <2>20. CASE Abort
    <3>1. CASE interest
      BY <2>20, <3>1, <2>f DEF Abort
    <3>2. CASE ~interest
      BY <2>20, <3>2, <2>f DEF Abort
    <3> QED
      BY <3>1, <3>2
  <2>21. CASE DropHandle
    <3>1. CASE life = "complete"
      BY <2>21, <3>1, <2>f DEF DropHandle
    <3>2. CASE life # "complete"
      BY <2>21, <3>2, <2>f DEF DropHandle
    <3> QED
      BY <3>1, <3>2
  <2>22. CASE UNCHANGED vars
    BY <2>22 DEF vars
  <2> HIDE DEF ScheduleInv, Scheduling
  <2> QED
    BY <2>1, <2>2, <2>3, <2>4, <2>5, <2>6, <2>7, <2>8, <2>9, <2>10, <2>11, <2>12, <2>13,
       <2>14, <2>15, <2>16, <2>17, <2>18, <2>19, <2>20, <2>21, <2>22 DEF Next, ThreadStep, HandleStep
<1>3. TypeOK /\ ScheduleInv => PolledAtMostTwice
  <2> SUFFICES ASSUME TypeOK, ScheduleInv PROVE PolledAtMostTwice
    OBVIOUS
  <2>f. polls \in Nat /\ queue \in Nat
    BY DEF TypeOK
  <2>1. CASE Scheduling
    BY <2>1, <2>f DEF PolledAtMostTwice
  <2>2. CASE ~Scheduling
    BY <2>2, <2>f DEF PolledAtMostTwice
  <2> QED
    BY <2>1, <2>2
<1>4. QED
  BY <1>1, <1>2, <1>3, TypeCorrect, PTL DEF Spec

\* Ok comes only from a completed task that was not aborted, Aborted only from
\* abort(), before or after the completion, and AlreadyTaken never.
THEOREM JoinOutcomeExplained == Spec => []JoinOutcome
<1> USE DEF OutputInv, JoinOutcome
<1>1. Init => OutputInv
  BY TaskAssumption DEF Init
<1>2. TypeOK /\ OutputInv /\ [Next]_vars => OutputInv'
  <2> SUFFICES ASSUME TypeOK, OutputInv, [Next]_vars PROVE OutputInv'
    OBVIOUS
  <2>f. pc \in [Threads -> Frames \cup {"out", "dead"}] /\ depth \in [Threads -> Nat]
        /\ polls \in Nat /\ queue \in Nat /\ Context \subseteq Threads
    BY TaskAssumption DEF TypeOK
  <2>1. ASSUME NEW th \in Threads, Run(th) PROVE OutputInv'
    BY <2>1, <2>f DEF Run
  <2>2. ASSUME NEW th \in Threads, PollReady(th) PROVE OutputInv'
    BY <2>2, <2>f DEF PollReady
  <2>3. ASSUME NEW th \in Threads, PollPending(th) PROVE OutputInv'
    BY <2>3, <2>f DEF PollPending
  <2>4. ASSUME NEW th \in Threads, MarkComplete(th) PROVE OutputInv'
    <3>1. CASE interest
      BY <2>4, <3>1, <2>f DEF MarkComplete
    <3>2. CASE ~interest
      BY <2>4, <3>2, <2>f DEF MarkComplete
    <3> QED
      BY <3>1, <3>2
  <2>5. ASSUME NEW th \in Threads, WakeJoiner(th) PROVE OutputInv'
    BY <2>5, <2>f DEF WakeJoiner
  <2>6. ASSUME NEW th \in Threads, ReleasePoll(th) PROVE OutputInv'
    BY <2>6, <2>f DEF ReleasePoll
  <2>7. ASSUME NEW th \in Threads, DropPollWaker(th) PROVE OutputInv'
    <3>1. CASE depth[th] > 0
      BY <2>7, <3>1, <2>f DEF DropPollWaker
    <3>2. CASE ~(depth[th] > 0)
      BY <2>7, <3>2, <2>f DEF DropPollWaker
    <3> QED
      BY <3>1, <3>2
  <2>8. ASSUME NEW th \in Threads, PollPanics(th) PROVE OutputInv'
    BY <2>8, <2>f DEF PollPanics
  <2>9. ASSUME NEW th \in Threads, Unwind(th) PROVE OutputInv'
    <3>1. CASE depth[th] > 0
      BY <2>9, <3>1, <2>f DEF Unwind
    <3>2. CASE ~(depth[th] > 0)
      BY <2>9, <3>2, <2>f DEF Unwind
    <3> QED
      BY <3>1, <3>2
  <2>10. ASSUME NEW th \in Threads, CloneWaker(th) PROVE OutputInv'
    BY <2>10, <2>f DEF CloneWaker
  <2>11. ASSUME NEW th \in Threads, WakeByRef(th) PROVE OutputInv'
    <3>1. CASE life = "idle" /\ ~aborted
      BY <2>11, <3>1, <2>f DEF WakeByRef
    <3>2. CASE ~(life = "idle" /\ ~aborted)
      BY <2>11, <3>2, <2>f DEF WakeByRef
    <3> QED
      BY <3>1, <3>2
  <2>12. ASSUME NEW th \in Threads, Wake(th) PROVE OutputInv'
    <3>1. CASE life = "idle" /\ ~aborted
      BY <2>12, <3>1, <2>f DEF Wake
    <3>2. CASE ~(life = "idle" /\ ~aborted)
      BY <2>12, <3>2, <2>f DEF Wake
    <3> QED
      BY <3>1, <3>2
  <2>13. ASSUME NEW th \in Threads, DropWaker(th) PROVE OutputInv'
    BY <2>13, <2>f DEF DropWaker
  <2>14. ASSUME NEW th \in Threads, Schedule(th) PROVE OutputInv'
    <3>1. CASE th \in Context
      BY <2>14, <3>1, <2>f DEF Schedule
    <3>2. CASE th \notin Context
      BY <2>14, <3>2, <2>f DEF Schedule
    <3> QED
      BY <3>1, <3>2
  <2>15. CASE JoinPoll
    BY <2>15, <2>f DEF JoinPoll
  <2>16. CASE JoinLoad
    BY <2>16, <2>f DEF JoinLoad
  <2>17. CASE JoinRead
    BY <2>17, <2>f DEF JoinRead
  <2>18. CASE JoinRegister
    BY <2>18, <2>f DEF JoinRegister
  <2>19. CASE JoinStore
    BY <2>19, <2>f DEF JoinStore
  <2>20. CASE Abort
    <3>1. CASE interest
      BY <2>20, <3>1, <2>f DEF Abort
    <3>2. CASE ~interest
      BY <2>20, <3>2, <2>f DEF Abort
    <3> QED
      BY <3>1, <3>2
  <2>21. CASE DropHandle
    <3>1. CASE life = "complete"
      BY <2>21, <3>1, <2>f DEF DropHandle
    <3>2. CASE life # "complete"
      BY <2>21, <3>2, <2>f DEF DropHandle
    <3> QED
      BY <3>1, <3>2
  <2>22. CASE UNCHANGED vars
    BY <2>22 DEF vars
  <2> HIDE DEF OutputInv, JoinOutcome
  <2> QED
    BY <2>1, <2>2, <2>3, <2>4, <2>5, <2>6, <2>7, <2>8, <2>9, <2>10, <2>11, <2>12, <2>13,
       <2>14, <2>15, <2>16, <2>17, <2>18, <2>19, <2>20, <2>21, <2>22 DEF Next, ThreadStep, HandleStep
<1>3. OutputInv => JoinOutcome
  OBVIOUS
<1>4. QED
  BY <1>1, <1>2, <1>3, TypeCorrect, PTL DEF Spec

\* COMPLETE and ABORTED are final and SCHEDULED never becomes IDLE again.
THEOREM StateAdvances == Spec => StateOnlyAdvances
<1> DEFINE Advance ==
        /\ life = "complete" => life' = "complete"
        /\ life = "scheduled" => life' # "idle"
        /\ aborted => aborted'
        /\ interest /\ ~interest' => life = "complete"
<1>1. [Next]_vars => [Advance]_vars
  <2> SUFFICES ASSUME Next PROVE Advance
    OBVIOUS
  <2>1. ASSUME NEW th \in Threads, ThreadStep(th) PROVE Advance
    BY <2>1 DEF ThreadStep, Run, PollReady, PollPending, MarkComplete, WakeJoiner, ReleasePoll, DropPollWaker,
                PollPanics, Unwind, CloneWaker, WakeByRef, Wake, DropWaker, Schedule
  <2>2. CASE HandleStep
    BY <2>2 DEF HandleStep, JoinPoll, JoinLoad, JoinRead, JoinRegister, JoinStore, Abort, DropHandle
  <2> QED
    BY <2>1, <2>2 DEF Next
<1>2. QED
  BY <1>1, PTL DEF Spec, StateOnlyAdvances

\* The flag that makes a completion look for the waker is set before the waker is
\* stored, and a completion that comes in between is still to look or has missed it.
JoinerInv ==
    /\ handle \in {"store_true", "store_false"} => interest
    /\ handle = "store_false" /\ ~woken /\ life = "complete" =>
           missed \/ \E th \in Threads : pc[th] = "joinwake"
    /\ OwnerIsTold

\* An owner that waits for a complete task is about to be woken, unless the completion
\* looked for its waker before it was stored.
THEOREM OwnersAreTold == Spec => []OwnerIsTold
<1> USE DEF JoinerInv, OwnerIsTold
<1>1. Init => JoinerInv
  BY DEF Init
<1>2. TypeOK /\ JoinerInv /\ [Next]_vars => JoinerInv'
  <2> SUFFICES ASSUME TypeOK, JoinerInv, [Next]_vars PROVE JoinerInv'
    OBVIOUS
  <2>b. /\ joinWaker \in BOOLEAN /\ woken \in BOOLEAN /\ interest \in BOOLEAN /\ missed \in BOOLEAN
        /\ pc \in [Threads -> Frames \cup {"out", "dead"}]
    BY DEF TypeOK
  <2>1. ASSUME NEW th \in Threads, WakeJoiner(th) PROVE JoinerInv'
    <3>1. CASE joinWaker
      <4>1. woken' /\ UNCHANGED <<handle, interest>>
        BY <2>1, <3>1 DEF WakeJoiner
      <4> QED
        BY <4>1
    <3>2. CASE ~joinWaker
      <4>1. UNCHANGED <<handle, interest, woken, life>> /\ joinWaker' = joinWaker
        BY <2>1, <2>b, <3>2 DEF WakeJoiner
      <4>2. handle = "store_false" => missed'
        BY <2>1, <3>2 DEF WakeJoiner
      <4> QED
        BY <4>1, <4>2, <3>2
    <3> QED
      BY <3>1, <3>2
  <2>2. ASSUME NEW th \in Threads, MarkComplete(th) PROVE JoinerInv'
    <3>1. CASE interest
      <4>1. pc'[th] = "joinwake" /\ UNCHANGED <<handle, interest, woken, joinWaker, missed>>
        BY <2>2, <2>b, <3>1 DEF MarkComplete
      <4> QED
        BY <4>1
    <3>2. CASE ~interest
      <4>1. UNCHANGED <<handle, interest, woken, joinWaker>>
        BY <2>2, <3>2 DEF MarkComplete
      <4> QED
        BY <4>1, <3>2
    <3> QED
      BY <3>1, <3>2
  <2>3. ASSUME NEW th \in Threads, ThreadStep(th), ~WakeJoiner(th), ~MarkComplete(th)
        PROVE  JoinerInv'
    <3>1. UNCHANGED <<handle, interest, joinWaker, woken, missed>>
      BY <2>3 DEF ThreadStep, Run, PollReady, PollPending, ReleasePoll, DropPollWaker,
                  PollPanics, Unwind, CloneWaker, WakeByRef, Wake, DropWaker, Schedule
    <3>2. life' = "complete" => life = "complete"
      BY <2>3 DEF ThreadStep, Run, PollReady, PollPending, ReleasePoll, DropPollWaker,
                  PollPanics, Unwind, CloneWaker, WakeByRef, Wake, DropWaker, Schedule
    <3>3. pc[th] # "joinwake"
      BY <2>3 DEF ThreadStep, Run, PollReady, PollPending, ReleasePoll, DropPollWaker,
                  PollPanics, Unwind, CloneWaker, WakeByRef, Wake, DropWaker, Schedule
    <3>4. \A x \in Threads \ {th} : pc'[x] = pc[x]
      BY <2>3, <2>b DEF ThreadStep, Run, PollReady, PollPending, ReleasePoll, DropPollWaker,
                  PollPanics, Unwind, CloneWaker, WakeByRef, Wake, DropWaker, Schedule
    <3> QED
      BY <3>1, <3>2, <3>3, <3>4
  <2>4. CASE JoinPoll \/ JoinLoad \/ JoinRead \/ JoinRegister \/ JoinStore
    BY <2>4 DEF JoinPoll, JoinLoad, JoinRead, JoinRegister, JoinStore
  <2>5. CASE Abort
    <3>1. CASE interest
      BY <2>5, <2>b, <3>1 DEF Abort
    <3>2. CASE ~interest
      BY <2>5, <2>b, <3>2 DEF Abort
    <3> QED
      BY <3>1, <3>2
  <2>6. CASE DropHandle
    BY <2>6 DEF DropHandle
  <2>7. CASE UNCHANGED vars
    BY <2>7 DEF vars
  <2> QED
    BY <2>1, <2>2, <2>3, <2>4, <2>5, <2>6, <2>7 DEF Next, HandleStep
<1>3. QED
  BY <1>1, <1>2, TypeCorrect, PTL DEF Spec

-----------------------------------------------------------------------------
(* The reference count.                                                    *)

\* As many elements for each thread as a function says.
Owed(o) == UNION {{th} \X (1..o[th]) : th \in Threads}

\* A thread that owes one more adds one element.
LEMMA OneMore ==
    ASSUME NEW o \in [Threads -> Nat], NEW p \in [Threads -> Nat], NEW th \in Threads,
           IsFiniteSet(Owed(o)),
           \A x \in Threads \ {th} : p[x] = o[x],
           p[th] = o[th] + 1
    PROVE  IsFiniteSet(Owed(p)) /\ Cardinality(Owed(p)) = Cardinality(Owed(o)) + 1
<1>1. <<th, p[th]>> \notin Owed(o)
  <2> SUFFICES ASSUME NEW x \in Threads, <<th, p[th]>> \in {x} \X (1..o[x]) PROVE FALSE
    BY DEF Owed
  <2>1. p[th] \in 1..o[th]
    OBVIOUS
  <2> QED
    BY <2>1
<1>2. \A k : k \in 1..p[th] <=> k \in 1..o[th] \/ k = p[th]
  OBVIOUS
<1>3. Owed(p) = Owed(o) \cup {<<th, p[th]>>}
  <2>1. ASSUME NEW d \in Owed(p) PROVE d \in Owed(o) \cup {<<th, p[th]>>}
    <3>1. PICK x \in Threads : d \in {x} \X (1..p[x])
      BY DEF Owed
    <3>2. CASE x = th
      <4>1. d[2] \in 1..o[th] \/ d[2] = p[th]
        BY <3>1, <3>2, <1>2
      <4>2. d = <<th, d[2]>>
        BY <3>1, <3>2
      <4> QED
        BY <4>1, <4>2 DEF Owed
    <3>3. CASE x # th
      <4>1. d \in {x} \X (1..o[x])
        BY <3>1, <3>3
      <4> QED
        BY <4>1 DEF Owed
    <3> QED
      BY <3>2, <3>3
  <2>2. ASSUME NEW d \in Owed(o) PROVE d \in Owed(p)
    <3>1. PICK x \in Threads : d \in {x} \X (1..o[x])
      BY DEF Owed
    <3>2. d \in {x} \X (1..p[x])
      BY <3>1, <1>2
    <3> QED
      BY <3>2 DEF Owed
  <2>3. <<th, p[th]>> \in {th} \X (1..p[th])
    BY <1>2
  <2> QED
    BY <2>1, <2>2, <2>3 DEF Owed
<1> QED
  BY <1>1, <1>3, FS_AddElement

\* A thread that owes one less takes one away.
LEMMA OneLess ==
    ASSUME NEW o \in [Threads -> Nat], NEW p \in [Threads -> Nat], NEW th \in Threads,
           IsFiniteSet(Owed(o)),
           \A x \in Threads \ {th} : p[x] = o[x],
           p[th] = o[th] - 1
    PROVE  IsFiniteSet(Owed(p)) /\ Cardinality(Owed(p)) = Cardinality(Owed(o)) - 1
<1>1. \A x \in Threads : 1..p[x] \subseteq 1..o[x]
  OBVIOUS
<1>2. Owed(p) \subseteq Owed(o)
  BY <1>1 DEF Owed
<1>3. IsFiniteSet(Owed(p))
  BY <1>2, FS_Subset
<1>4. Cardinality(Owed(o)) = Cardinality(Owed(p)) + 1
  BY <1>3, OneMore
<1>5. Cardinality(Owed(o)) \in Nat /\ Cardinality(Owed(p)) \in Nat
  BY <1>3, FS_CardinalityType
<1> QED
  BY <1>3, <1>4, <1>5

\* A step of one thread changes what is owed by at most two.
LEMMA OneOwes ==
    ASSUME NEW o \in [Threads -> Nat], NEW p \in [Threads -> Nat], NEW th \in Threads,
           IsFiniteSet(Owed(o)),
           \A x \in Threads \ {th} : p[x] = o[x],
           p[th] - o[th] \in -2..2
    PROVE  /\ IsFiniteSet(Owed(p))
           /\ Cardinality(Owed(p)) = Cardinality(Owed(o)) + (p[th] - o[th])
<1>c. Cardinality(Owed(o)) \in Nat
  BY FS_CardinalityType
<1>1. CASE p[th] = o[th]
  <2>1. Owed(p) = Owed(o)
    BY <1>1 DEF Owed
  <2> QED
    BY <2>1, <1>1, <1>c
<1>2. CASE p[th] = o[th] + 1
  BY <1>2, <1>c, OneMore
<1>3. CASE p[th] = o[th] - 1
  BY <1>3, <1>c, OneLess
<1>4. CASE p[th] = o[th] + 2
  <2> DEFINE q == [o EXCEPT ![th] = o[th] + 1]
  <2>1. q \in [Threads -> Nat] /\ q[th] = o[th] + 1 /\ p[th] = q[th] + 1
    BY <1>4
  <2>2. \A x \in Threads \ {th} : q[x] = o[x] /\ p[x] = q[x]
    OBVIOUS
  <2> HIDE DEF q
  <2>3. IsFiniteSet(Owed(q)) /\ Cardinality(Owed(q)) = Cardinality(Owed(o)) + 1
    BY <2>1, <2>2, OneMore
  <2>4. IsFiniteSet(Owed(p)) /\ Cardinality(Owed(p)) = Cardinality(Owed(q)) + 1
    BY <2>1, <2>2, <2>3, OneMore
  <2> QED
    BY <2>3, <2>4, <1>4, <1>c
<1>5. CASE p[th] = o[th] - 2
  <2> DEFINE q == [o EXCEPT ![th] = o[th] - 1]
  <2>1. q \in [Threads -> Nat] /\ q[th] = o[th] - 1 /\ p[th] = q[th] - 1
    BY <1>5
  <2>2. \A x \in Threads \ {th} : q[x] = o[x] /\ p[x] = q[x]
    OBVIOUS
  <2> HIDE DEF q
  <2>3. IsFiniteSet(Owed(q)) /\ Cardinality(Owed(q)) = Cardinality(Owed(o)) - 1
    BY <2>1, <2>2, OneLess
  <2>4. IsFiniteSet(Owed(p)) /\ Cardinality(Owed(p)) = Cardinality(Owed(q)) - 1
    BY <2>1, <2>2, <2>3, OneLess
  <2> QED
    BY <2>3, <2>4, <1>5, <1>c
<1> QED
  BY <1>1, <1>2, <1>3, <1>4, <1>5

\* A law of the count that mentions no thread: the debts are finitely many.
CountInv == IsFiniteSet(Debts) /\ RefcountLaw

\* The thread of a step owes n more after it, and the others what they owed.
Moved(th, n) ==
    /\ Owes(th)' = Owes(th) + n
    /\ \A x \in Threads \ {th} : Owes(x)' = Owes(x)

LEMMA OwesType == TypeOK => \A th \in Threads : Owes(th) \in Nat
  BY DEF TypeOK, Owes

LEMMA DebtsMove ==
    ASSUME TypeOK, TypeOK', NEW th \in Threads, NEW n \in -2..2, Moved(th, n),
           IsFiniteSet(Debts)
    PROVE  IsFiniteSet(Debts') /\ Cardinality(Debts') = Cardinality(Debts) + n
<1> DEFINE o == [x \in Threads |-> Owes(x)]
           p == [x \in Threads |-> Owes(x)']
<1>1. \A x \in Threads : Owes(x) \in Nat
  BY OwesType
<1>2. \A x \in Threads : Owes(x)' \in Nat
  BY DEF TypeOK, Owes
<1>3. o \in [Threads -> Nat] /\ p \in [Threads -> Nat]
  BY <1>1, <1>2
<1>4. p[th] - o[th] = n /\ \A x \in Threads \ {th} : p[x] = o[x]
  BY <1>1 DEF Moved
<1>5. Debts = Owed(o) /\ Debts' = Owed(p)
  BY DEF Debts, Owed
<1> HIDE DEF o, p
<1> QED
  BY <1>3, <1>4, <1>5, OneOwes

\* What a step of a thread does to the count and to the terms of the law.
LEMMA CountMoves ==
    ASSUME TypeOK, TypeOK', CountInv, NEW th \in Threads, NEW n \in -2..2, Moved(th, n),
           refs' - clones' - consumed' - panics' + 2 * polls'
             = refs - clones - consumed - panics + 2 * polls + n
    PROVE  CountInv'
<1>1. IsFiniteSet(Debts') /\ Cardinality(Debts') = Cardinality(Debts) + n
  BY DebtsMove DEF CountInv
<1>2. /\ refs \in Int /\ clones \in Nat /\ consumed \in Nat /\ panics \in Nat /\ polls \in Nat
      /\ refs' \in Int /\ clones' \in Nat /\ consumed' \in Nat /\ panics' \in Nat /\ polls' \in Nat
  BY DEF TypeOK
<1>3. Cardinality(Debts) \in Nat
  BY FS_CardinalityType DEF CountInv
<1> QED
  BY <1>1, <1>2, <1>3 DEF CountInv, RefcountLaw

\* The law, and that it counts finitely many decrements to come.
LEMMA CountIsFinite == Spec => []CountInv
<1>1. Init => CountInv
  <2> SUFFICES ASSUME Init PROVE CountInv
    OBVIOUS
  <2>1. \A th \in Threads : Owes(th) = 0
    BY DEF Init, Owes
  <2>2. Debts = {}
    BY <2>1 DEF Debts
  <2> QED
    BY <2>2, FS_EmptySet DEF Init, CountInv, RefcountLaw
<1>2. TypeOK /\ TypeOK' /\ CountInv /\ [Next]_vars => CountInv'
  <2> SUFFICES ASSUME TypeOK, TypeOK', CountInv, [Next]_vars PROVE CountInv'
    OBVIOUS
  <2>f. /\ pc \in [Threads -> Frames \cup {"out", "dead"}] /\ depth \in [Threads -> Nat]
        /\ refs \in Int /\ clones \in Nat /\ consumed \in Nat /\ panics \in Nat /\ polls \in Nat
    BY DEF TypeOK
  <2> DEFINE Sum == refs - clones - consumed - panics + 2 * polls
  <2>1. ASSUME NEW th \in Threads, Run(th) PROVE CountInv'
    <3>1. Moved(th, 2)
      <4>1. CASE pc[th] = "poll"
        BY <2>1, <4>1, <2>f DEF Run, Moved, Owes
      <4>2. CASE pc[th] = "out"
        BY <2>1, <4>2, <2>f DEF Run, Moved, Owes
      <4> QED
        BY <2>1, <4>1, <4>2 DEF Run
    <3>2. Sum' = Sum + 2
      BY <2>1, <2>f DEF Run
    <3> QED
      BY <3>1, <3>2, CountMoves
  <2>2. ASSUME NEW th \in Threads, PollReady(th) PROVE CountInv'
    <3>1. Moved(th, 0)
      BY <2>2, <2>f DEF PollReady, Moved, Owes
    <3>2. Sum' = Sum + 0
      BY <2>2, <2>f DEF PollReady
    <3> QED
      BY <3>1, <3>2, CountMoves
  <2>3. ASSUME NEW th \in Threads, PollPending(th) PROVE CountInv'
    <3>1. Moved(th, 0)
      BY <2>3, <2>f DEF PollPending, Moved, Owes
    <3>2. Sum' = Sum + 0
      BY <2>3, <2>f DEF PollPending
    <3> QED
      BY <3>1, <3>2, CountMoves
  <2>4. ASSUME NEW th \in Threads, MarkComplete(th) PROVE CountInv'
    <3>1. CASE interest
      <4>1. Moved(th, 0)
        BY <2>4, <3>1, <2>f DEF MarkComplete, Moved, Owes
      <4>2. Sum' = Sum + 0
        BY <2>4, <3>1, <2>f DEF MarkComplete
      <4> QED
        BY <4>1, <4>2, CountMoves
    <3>2. CASE ~interest
      <4>1. Moved(th, 0)
        BY <2>4, <3>2, <2>f DEF MarkComplete, Moved, Owes
      <4>2. Sum' = Sum + 0
        BY <2>4, <3>2, <2>f DEF MarkComplete
      <4> QED
        BY <4>1, <4>2, CountMoves
    <3> QED
      BY <3>1, <3>2
  <2>5. ASSUME NEW th \in Threads, WakeJoiner(th) PROVE CountInv'
    <3>1. Moved(th, 0)
      BY <2>5, <2>f DEF WakeJoiner, Moved, Owes
    <3>2. Sum' = Sum + 0
      BY <2>5, <2>f DEF WakeJoiner
    <3> QED
      BY <3>1, <3>2, CountMoves
  <2>6. ASSUME NEW th \in Threads, ReleasePoll(th) PROVE CountInv'
    <3>1. Moved(th, -1)
      BY <2>6, <2>f DEF ReleasePoll, Moved, Owes
    <3>2. Sum' = Sum + (-1)
      BY <2>6, <2>f DEF ReleasePoll
    <3> QED
      BY <3>1, <3>2, CountMoves
  <2>7. ASSUME NEW th \in Threads, DropPollWaker(th) PROVE CountInv'
    <3>1. CASE depth[th] > 0
      <4>1. Moved(th, -1)
        BY <2>7, <3>1, <2>f DEF DropPollWaker, Moved, Owes
      <4>2. Sum' = Sum + (-1)
        BY <2>7, <3>1, <2>f DEF DropPollWaker
      <4> QED
        BY <4>1, <4>2, CountMoves
    <3>2. CASE ~(depth[th] > 0)
      <4>1. Moved(th, -1)
        BY <2>7, <3>2, <2>f DEF DropPollWaker, Moved, Owes
      <4>2. Sum' = Sum + (-1)
        BY <2>7, <3>2, <2>f DEF DropPollWaker
      <4> QED
        BY <4>1, <4>2, CountMoves
    <3> QED
      BY <3>1, <3>2
  <2>8. ASSUME NEW th \in Threads, PollPanics(th) PROVE CountInv'
    <3>1. Moved(th, -1)
      BY <2>8, <2>f DEF PollPanics, Moved, Owes
    <3>2. Sum' = Sum + (-1)
      BY <2>8, <2>f DEF PollPanics
    <3> QED
      BY <3>1, <3>2, CountMoves
  <2>9. ASSUME NEW th \in Threads, Unwind(th) PROVE CountInv'
    <3>1. CASE depth[th] > 0
      <4>1. Moved(th, -2)
        BY <2>9, <3>1, <2>f DEF Unwind, Moved, Owes
      <4>2. Sum' = Sum + (-2)
        BY <2>9, <3>1, <2>f DEF Unwind
      <4> QED
        BY <4>1, <4>2, CountMoves
    <3>2. CASE ~(depth[th] > 0)
      <4>1. Moved(th, -1)
        BY <2>9, <3>2, <2>f DEF Unwind, Moved, Owes
      <4>2. Sum' = Sum + (-1)
        BY <2>9, <3>2, <2>f DEF Unwind
      <4> QED
        BY <4>1, <4>2, CountMoves
    <3> QED
      BY <3>1, <3>2
  <2>10. ASSUME NEW th \in Threads, CloneWaker(th) PROVE CountInv'
    <3>1. Moved(th, 0)
      BY <2>10, <2>f DEF CloneWaker, Moved, Owes
    <3>2. Sum' = Sum + 0
      BY <2>10, <2>f DEF CloneWaker
    <3> QED
      BY <3>1, <3>2, CountMoves
  <2>11. ASSUME NEW th \in Threads, WakeByRef(th) PROVE CountInv'
    <3>1. CASE life = "idle" /\ ~aborted
      <4>1. Moved(th, 0)
        BY <2>11, <3>1, <2>f DEF WakeByRef, Moved, Owes
      <4>2. Sum' = Sum + 0
        BY <2>11, <3>1, <2>f DEF WakeByRef
      <4> QED
        BY <4>1, <4>2, CountMoves
    <3>2. CASE ~(life = "idle" /\ ~aborted)
      <4>1. Moved(th, 0)
        BY <2>11, <3>2, <2>f DEF WakeByRef, Moved, Owes
      <4>2. Sum' = Sum + 0
        BY <2>11, <3>2, <2>f DEF WakeByRef
      <4> QED
        BY <4>1, <4>2, CountMoves
    <3> QED
      BY <3>1, <3>2
  <2>12. ASSUME NEW th \in Threads, Wake(th) PROVE CountInv'
    <3>1. CASE life = "idle" /\ ~aborted
      <4>1. Moved(th, 0)
        BY <2>12, <3>1, <2>f DEF Wake, Moved, Owes
      <4>2. Sum' = Sum + 0
        BY <2>12, <3>1, <2>f DEF Wake
      <4> QED
        BY <4>1, <4>2, CountMoves
    <3>2. CASE ~(life = "idle" /\ ~aborted)
      <4>1. Moved(th, 0)
        BY <2>12, <3>2, <2>f DEF Wake, Moved, Owes
      <4>2. Sum' = Sum + 0
        BY <2>12, <3>2, <2>f DEF Wake
      <4> QED
        BY <4>1, <4>2, CountMoves
    <3> QED
      BY <3>1, <3>2
  <2>13. ASSUME NEW th \in Threads, DropWaker(th) PROVE CountInv'
    <3>1. Moved(th, 0)
      BY <2>13, <2>f DEF DropWaker, Moved, Owes
    <3>2. Sum' = Sum + 0
      BY <2>13, <2>f DEF DropWaker
    <3> QED
      BY <3>1, <3>2, CountMoves
  <2>14. ASSUME NEW th \in Threads, Schedule(th) PROVE CountInv'
    <3>1. CASE th \in Context
      <4>1. Moved(th, 0)
        BY <2>14, <3>1, <2>f DEF Schedule, Moved, Owes
      <4>2. Sum' = Sum + 0
        BY <2>14, <3>1, <2>f DEF Schedule
      <4> QED
        BY <4>1, <4>2, CountMoves
    <3>2. CASE th \notin Context
      <4>1. Moved(th, 2)
        BY <2>14, <3>2, <2>f DEF Schedule, Moved, Owes
      <4>2. Sum' = Sum + 2
        BY <2>14, <3>2, <2>f DEF Schedule
      <4> QED
        BY <4>1, <4>2, CountMoves
    <3> QED
      BY <3>1, <3>2
  <2>15. ASSUME HandleStep \/ UNCHANGED vars PROVE CountInv'
    <3>1. UNCHANGED <<pc, depth, refs, clones, consumed, panics, polls>>
      BY <2>15 DEF HandleStep, vars, JoinPoll, JoinLoad, JoinRead, JoinRegister, JoinStore, Abort, DropHandle
    <3> QED
      BY <3>1 DEF CountInv, RefcountLaw, Debts, Owes
  <2> HIDE DEF Sum
  <2> QED
    BY <2>1, <2>2, <2>3, <2>4, <2>5, <2>6, <2>7, <2>8, <2>9, <2>10, <2>11, <2>12, <2>13,
       <2>14, <2>15 DEF Next, ThreadStep
<1>3. QED
  BY <1>1, <1>2, TypeCorrect, PTL DEF Spec

\* The reference count is what the law says of it.
THEOREM CountIsExplained == Spec => []RefcountLaw
<1>1. CountInv => RefcountLaw
  BY DEF CountInv
<1>2. QED
  BY <1>1, CountIsFinite, PTL

\* What the law makes of the bound on polls.
LEMMA CountIsBounded ==
    ASSUME TypeOK, CountInv, PolledAtMostTwice
    PROVE  /\ refs \in Int /\ polls \in 0..2 /\ Cardinality(Debts) \in Nat
           /\ clones + consumed + panics + Cardinality(Debts) \in Nat
           /\ refs = 1 + (clones + consumed + panics + Cardinality(Debts)) - 2 * polls
<1>1. /\ refs \in Int /\ clones \in Nat /\ consumed \in Nat /\ panics \in Nat /\ polls \in Nat
      /\ queue \in Nat
  BY DEF TypeOK
<1>2. Cardinality(Debts) \in Nat
  BY FS_CardinalityType DEF CountInv
<1>3. polls \in 0..2
  BY <1>1 DEF PolledAtMostTwice
<1> QED
  BY <1>1, <1>2, <1>3 DEF CountInv, RefcountLaw

\* The count goes below zero, but never by more than three.
THEOREM UnderflowIsBounded == Spec => []UnderflowIsShallow
<1>1. TypeOK /\ CountInv /\ PolledAtMostTwice => UnderflowIsShallow
  BY CountIsBounded DEF UnderflowIsShallow
<1>2. QED
  BY <1>1, CountIsFinite, TypeCorrect, AtMostTwoPolls, PTL

FreedInv == freed => life = "complete" /\ Refcount = 0

\* deallocate always leaves a reference behind, or follows one that was lost.
THEOREM FreedHasRest == Spec => []FreedWithRest
<1>1. Init => FreedInv
  BY DEF Init, FreedInv
<1>2. TypeOK /\ FreedInv /\ [Next]_vars => FreedInv'
  <2> SUFFICES ASSUME TypeOK, FreedInv, [Next]_vars PROVE FreedInv'
    OBVIOUS
  <2> USE DEF FreedInv
  <2>d. ASSUME DropRef, UNCHANGED life PROVE FreedInv'
    <3>1. refs \in Int
      BY DEF TypeOK
    <3>2. Refcount = 1 => Refcount' = 0
      BY <2>d, <3>1 DEF Refcount, RefMod
    <3> QED
      BY <2>d, <3>2
  <2>1. ASSUME NEW th \in Threads,
               DropPollWaker(th) \/ Unwind(th) \/ DropWaker(th)
        PROVE  FreedInv'
    <3>1. DropRef /\ UNCHANGED life
      BY <2>1 DEF DropPollWaker, Unwind, DropWaker
    <3> HIDE DEF DropRef
    <3> QED
      BY <3>1, <2>d
  <2>2. ASSUME NEW th \in Threads,
               \/ Run(th) \/ PollReady(th) \/ PollPending(th) \/ MarkComplete(th) \/ WakeJoiner(th)
               \/ ReleasePoll(th) \/ PollPanics(th) \/ CloneWaker(th) \/ WakeByRef(th) \/ Wake(th)
               \/ Schedule(th)
        PROVE  FreedInv'
    <3>1. ~freed'
      BY <2>2 DEF Run, PollReady, PollPending, MarkComplete, WakeJoiner, ReleasePoll, PollPanics,
           CloneWaker, WakeByRef, Wake, Schedule
    <3> QED
      BY <3>1
  <2>3. CASE HandleStep
    BY <2>3 DEF HandleStep, JoinPoll, JoinLoad, JoinRead, JoinRegister, JoinStore, Abort, DropHandle,
         Refcount
  <2>4. CASE UNCHANGED vars
    BY <2>4 DEF vars, Refcount
  <2> HIDE DEF FreedInv
  <2> QED
    BY <2>1, <2>2, <2>3, <2>4 DEF Next, ThreadStep
<1>3. TypeOK /\ CountInv /\ PolledAtMostTwice /\ FreedInv => FreedWithRest
  <2> SUFFICES ASSUME TypeOK, CountInv, PolledAtMostTwice, FreedInv, freed
               PROVE  life = "complete" /\ clones + consumed + panics + Cardinality(Debts) >= 1
    BY DEF FreedWithRest
  <2> DEFINE rest == clones + consumed + panics + Cardinality(Debts)
  <2>1. refs % 65536 = 0 /\ life = "complete"
    BY DEF FreedInv, Refcount, RefMod
  <2>2. rest \in Nat /\ polls \in 0..2 /\ refs = 1 + rest - 2 * polls /\ refs \in Int
    BY CountIsBounded
  <2> HIDE DEF rest
  <2>3. rest # 0
    BY <2>1, <2>2
  <2> QED
    BY <2>1, <2>2, <2>3 DEF rest
<1>4. QED
  BY <1>1, <1>2, <1>3, CountIsFinite, TypeCorrect, AtMostTwoPolls, PTL DEF Spec
=============================================================================
