-------------------------- MODULE MultiThread_proofs --------------------------
(***************************************************************************)
(* Proofs about MultiThread, for any number of workers, spawners and tasks *)
(* and for any bounds.                                                     *)
(***************************************************************************)
EXTENDS MultiThread, FiniteSetTheorems, SequenceTheorems, TLAPS

Busy == {"running", "notify", "unpark", "wake_swap", "wake_token"}

\* A thread runs a task exactly while it is inside Task::run.
HeldInv ==
    \A th \in Threads :
        /\ pc[th] = "running" => held[th] # NoTask
        /\ held[th] # NoTask => pc[th] \in Busy

USE DEF queueVars, parkVars, joinVars, taskVars, lockVars, Goto

\* Which operations a step of the system can be, one case per handler.
LEMMA NextCases ==
    ASSUME Next
    PROVE  \/ \E w \in Workers : CheckShutdown(w) \/ Scan(w) \/ LockToSleep(w) \/ Recheck(w)
                                 \/ WaitOrLeave(w) \/ Reacquire(w) \/ Woken(w) \/ SpuriousWakeup(w)
           \/ \E th \in Threads : NotifyOne(th) \/ UnparkOne(th) \/ FinishTask(th)
                                  \/ JoinTake(th) \/ UnparkSwap(th) \/ UnparkToken(th) \/ TaskNudges(th)
                                  \/ TaskPanics(th)
           \/ \E th \in Threads, t \in Tasks : (pc[th] \in {"idle", "running"}) /\ Push(th, t)
           \/ \E th \in Spawners : OutsiderRuns(th)
           \/ PollRoot \/ RegisterRoot \/ StoreRoot \/ HelpOrIdle \/ IdleCheck \/ ParkSwap \/ ParkThread
           \/ StartBlockOn \/ ShutdownStore \/ ShutdownNotifyAll \/ ShutdownUnparkAll
           \/ ShutdownJoin
  BY DEF Next, WorkerStep, CallStep, BlockOnStep, ShutdownStep, Environment, Spawn, TaskSpawns,
         Threads, Tasks

\* Every variable of the scheduler keeps its type, and a thread inside Task::run
\* holds a task.
THEOREM TypesKept == Spec => [](StateTypes /\ HeldInv)
<1>1. Init => StateTypes /\ HeldInv
  <2> SUFFICES ASSUME Init PROVE StateTypes /\ HeldInv
    OBVIOUS
  <2>1. active \in Int
    BY ThreadsAssumption, FS_CardinalityType DEF Init
  <2>2. pc \in [Threads -> Labels]
    BY DEF Init, Labels
  <2>3. held \in [Threads -> Tasks \cup {NoTask}] /\ injector \in Seq(Tasks)
    BY DEF Init
  <2>4. upsets \in 0..MaxUpsets
    BY BoundsAssumption DEF Init
  <2>5. /\ mutex \in Threads \cup {NoThread} /\ unparkers \in Threads \cup {NoThread}
        /\ waiting \in SUBSET Workers
        /\ spawned \in SUBSET Tasks /\ ran \in SUBSET Tasks
        /\ discarded \in SUBSET Tasks /\ failed \in SUBSET Tasks
    BY DEF Init
  <2>6. /\ shutdown \in BOOLEAN /\ unparked \in BOOLEAN /\ token \in BOOLEAN
        /\ registered \in BOOLEAN /\ rootReady \in BOOLEAN
        /\ interest \in BOOLEAN /\ joinWaker \in BOOLEAN /\ missed \in BOOLEAN
        /\ retried \in BOOLEAN
    BY DEF Init
  <2>7. StateTypes
    BY <2>1, <2>2, <2>3, <2>4, <2>5, <2>6 DEF StateTypes
  <2>8. HeldInv
    BY DEF Init, HeldInv
  <2> QED
    BY <2>7, <2>8
<1>2. StateTypes /\ HeldInv /\ [Next]_vars => (StateTypes /\ HeldInv)'
  <2> SUFFICES ASSUME StateTypes, HeldInv, [Next]_vars PROVE StateTypes' /\ HeldInv'
    OBVIOUS
  <2>u. ASSUME NEW kind, Upset(kind) PROVE upsets' \in 0..MaxUpsets
    BY <2>u, BoundsAssumption DEF Upset, StateTypes
  <2>n. StealNone => injector' = injector /\ upsets' \in 0..MaxUpsets /\ retried' \in BOOLEAN
    BY <2>u DEF StealNone, StateTypes
  <2> USE BoundsAssumption, TasksAssumption, ThreadsAssumption
      DEF StateTypes, HeldInv, Labels, Busy, Threads, StealHead
  <2>1. ASSUME NEW w \in Workers, CheckShutdown(w) PROVE StateTypes' /\ HeldInv'
    BY <2>1 DEF CheckShutdown
  <2>2. ASSUME NEW w \in Workers, Scan(w) PROVE StateTypes' /\ HeldInv'
    <3>1. CASE StealHead
      <4>1. Head(injector) \in Tasks /\ Tail(injector) \in Seq(Tasks)
        BY <3>1
      <4>2. CASE /\ held' = [held EXCEPT ![w] = Head(injector)]
                 /\ pc' = [pc EXCEPT ![w] = "running"]
        BY <2>2, <3>1, <4>1, <4>2 DEF Scan
      <4>3. CASE StealNone
        BY <2>2, <2>n, <4>3 DEF Scan
      <4> QED
        BY <2>2, <4>2, <4>3 DEF Scan
    <3>2. CASE StealNone
      BY <2>2, <2>n, <3>2 DEF Scan
    <3> QED
      BY <2>2, <3>1, <3>2 DEF Scan
  <2>3. ASSUME NEW w \in Workers, LockToSleep(w) PROVE StateTypes' /\ HeldInv'
    BY <2>3 DEF LockToSleep
  <2>4. ASSUME NEW w \in Workers, Recheck(w) PROVE StateTypes' /\ HeldInv'
    <3>1. CASE FindAndDiscard(w)
      <4>1. Head(injector) \in Tasks /\ Tail(injector) \in Seq(Tasks)
        BY <3>1 DEF FindAndDiscard
      <4> QED
        BY <2>4, <3>1, <4>1 DEF Recheck, FindAndDiscard
    <3>2. CASE FindNothing(w)
      BY <2>4, <2>n, <3>2 DEF Recheck, FindNothing
    <3> QED
      BY <2>4, <3>1, <3>2 DEF Recheck
  <2>5. ASSUME NEW w \in Workers, WaitOrLeave(w) PROVE StateTypes' /\ HeldInv'
    BY <2>5 DEF WaitOrLeave
  <2>6. ASSUME NEW w \in Workers, Reacquire(w) PROVE StateTypes' /\ HeldInv'
    BY <2>6 DEF Reacquire
  <2>7. ASSUME NEW w \in Workers, Woken(w) PROVE StateTypes' /\ HeldInv'
    <3>1. CASE FindAndDiscard(w)
      <4>1. Head(injector) \in Tasks /\ Tail(injector) \in Seq(Tasks)
        BY <3>1 DEF FindAndDiscard
      <4> QED
        BY <2>7, <3>1, <4>1 DEF Woken, FindAndDiscard
    <3>2. CASE FindNothing(w)
      BY <2>7, <2>n, <3>2 DEF Woken, FindNothing
    <3> QED
      BY <2>7, <3>1, <3>2 DEF Woken
  <2>8. ASSUME NEW w \in Workers, SpuriousWakeup(w) PROVE StateTypes' /\ HeldInv'
    BY <2>8, <2>u DEF SpuriousWakeup
  <2>9. ASSUME NEW th \in Threads, NotifyOne(th) PROVE StateTypes' /\ HeldInv'
    BY <2>9 DEF NotifyOne
  <2>10. ASSUME NEW th \in Threads, UnparkOne(th) PROVE StateTypes' /\ HeldInv'
    BY <2>10 DEF UnparkOne
  <2>11. ASSUME NEW th \in Threads, FinishTask(th) PROVE StateTypes' /\ HeldInv'
    BY <2>11 DEF FinishTask, AfterRun
  <2>11j. ASSUME NEW th \in Threads, JoinTake(th) PROVE StateTypes' /\ HeldInv'
    <3>1. joinWaker' \in BOOLEAN /\ missed' \in BOOLEAN
      BY <2>11j DEF JoinTake
    <3>2. \E l \in {"wake_swap", "poll", "top", "idle"} : pc' = [pc EXCEPT ![th] = l]
      BY <2>11j DEF JoinTake, AfterRun
    <3> QED
      BY <2>11j, <3>1, <3>2 DEF JoinTake
  <2>12. ASSUME NEW th \in Threads, UnparkSwap(th) PROVE StateTypes' /\ HeldInv'
    BY <2>12 DEF UnparkSwap, ResumeAt, AfterRun
  <2>13. ASSUME NEW th \in Threads, UnparkToken(th) PROVE StateTypes' /\ HeldInv'
    BY <2>13 DEF UnparkToken, ResumeAt, AfterRun
  <2>14. ASSUME NEW th \in Threads, TaskNudges(th) PROVE StateTypes' /\ HeldInv'
    BY <2>14, <2>u DEF TaskNudges
  <2>14p. ASSUME NEW th \in Threads, TaskPanics(th) PROVE StateTypes' /\ HeldInv'
    <3>1. upsets' \in 0..MaxUpsets /\ interest' \in BOOLEAN /\ joinWaker' \in BOOLEAN
      BY <2>14p, <2>u DEF TaskPanics, DropHandle
    <3>2. \E l \in {"unwound", "dead"} : pc' = [pc EXCEPT ![th] = l]
      BY <2>14p DEF TaskPanics
    <3> QED
      BY <2>14p, <3>1, <3>2 DEF TaskPanics
  <2>15. ASSUME NEW th \in Threads, NEW t \in Tasks, pc[th] \in {"idle", "running"}, Push(th, t)
         PROVE StateTypes' /\ HeldInv'
    BY <2>15 DEF Push
  <2>15o. ASSUME NEW th \in Spawners, OutsiderRuns(th) PROVE StateTypes' /\ HeldInv'
    <3>1. Head(injector) \in Tasks /\ Tail(injector) \in Seq(Tasks)
      BY <2>15o DEF OutsiderRuns
    <3>2. th \in Threads
      OBVIOUS
    <3> QED
      BY <2>15o, <3>1, <3>2 DEF OutsiderRuns
  <2>m. Main \in Threads
    OBVIOUS
  <2>16. CASE PollRoot
    <3>1. CASE rootReady
      BY <2>16, <3>1, <2>m DEF PollRoot, DropHandle
    <3>2. CASE ~rootReady
      BY <2>16, <3>2, <2>m DEF PollRoot
    <3> QED
      BY <3>1, <3>2
  <2>16r. CASE RegisterRoot
    BY <2>16r, <2>m DEF RegisterRoot
  <2>16s. CASE StoreRoot
    BY <2>16s, <2>m DEF StoreRoot
  <2>17. CASE HelpOrIdle
    <3>1. CASE StealHead
      <4>1. Head(injector) \in Tasks /\ Tail(injector) \in Seq(Tasks)
        BY <3>1
      <4> QED
        BY <2>17, <2>m, <3>1, <4>1 DEF HelpOrIdle
    <3>2. CASE StealNone
      BY <2>17, <2>m, <2>n, <3>2 DEF HelpOrIdle
    <3> QED
      BY <2>17, <3>1, <3>2 DEF HelpOrIdle
  <2>18a. CASE IdleCheck
    BY <2>18a, <2>m DEF IdleCheck
  <2>18b. CASE ParkSwap
    <3>1. \E l \in {"poll", "park_thread"} : pc' = [pc EXCEPT ![Main] = l]
      BY <2>18b DEF ParkSwap
    <3>2. pc' \in [Threads -> Labels] /\ HeldInv'
      BY <2>18b, <3>1, <2>m DEF ParkSwap
    <3>3. unparked' \in BOOLEAN
      BY <2>18b DEF ParkSwap
    <3> QED
      BY <2>18b, <3>2, <3>3 DEF ParkSwap
  <2>18c. CASE ParkThread
    <3>1. upsets' \in 0..MaxUpsets
      BY <2>18c, <2>u DEF ParkThread
    <3>2. pc' \in [Threads -> Labels] /\ HeldInv'
      BY <2>18c, <2>m DEF ParkThread
    <3>3. token' \in BOOLEAN
      BY <2>18c DEF ParkThread
    <3> QED
      BY <2>18c, <3>1, <3>2, <3>3 DEF ParkThread
  <2>18d. CASE StartBlockOn
    BY <2>18d, <2>m DEF StartBlockOn
  <2>19a. CASE ShutdownStore
    BY <2>19a, <2>m DEF ShutdownStore
  <2>19b. CASE ShutdownNotifyAll
    BY <2>19b, <2>m DEF ShutdownNotifyAll
  <2>19c. CASE ShutdownUnparkAll
    BY <2>19c, <2>m DEF ShutdownUnparkAll
  <2>19d. CASE ShutdownJoin
    BY <2>19d, <2>m DEF ShutdownJoin
  <2>20. CASE UNCHANGED vars
    BY <2>20 DEF vars
  <2> HIDE DEF StateTypes, HeldInv, Labels, Busy, Threads, StealHead
  <2>21. QED
    BY <2>1, <2>2, <2>3, <2>4, <2>5, <2>6, <2>7, <2>8, <2>9, <2>10, <2>11, <2>11j, <2>12, <2>13, <2>14, <2>14p,
       <2>15, <2>15o, <2>16, <2>16r, <2>16s, <2>17, <2>18a, <2>18b, <2>18c, <2>18d,
       <2>19a, <2>19b, <2>19c, <2>19d, <2>20, NextCases
<1>3. QED
  BY <1>1, <1>2, PTL DEF Spec

\* The owner has set the flag before it does anything else in shutdown().
ShutdownInv ==
    /\ pc[Main] \in {"sd_notify", "sd_unpark", "sd_join", "closed"} => shutdown
    /\ NoSleeperAfterShutdown

\* Shared::mutex is held exactly inside the sleep section of run(), and only a
\* worker that waits is in the wait set.
LockInv ==
    /\ \A th \in Threads : mutex = th <=> pc[th] \in {"recheck", "waitloop", "woken"}
    /\ \A w \in waiting : pc[w] = "waiting"

\* Some worker is asleep, or holds the lock and is about to be.
Dozing == waiting # {} \/ \E w \in Workers : pc[w] = "waitloop"

\* Every task in the injector has a wakeup of its own under way.
Covered == Len(injector) <= Cardinality(Notifying) + Cardinality(Roused)

\* A worker that goes to the wait loop saw an empty queue, and whoever has pushed
\* since has not yet got the lock to notify: the promise holds before it sleeps.
SleepInv == ~retried /\ Dozing => Covered

\* The labels from the poll that answers Pending to the return of park().
Pending == {"steal", "idle_check", "park_swap", "park_thread"}

\* Where the wakeup of the block_on future is while its thread goes to sleep: in the
\* header of the awaited task, with the thread that completed it, in the flag or in the
\* token.
ParkInv ==
    /\ pc[Main] \in Pending \cup {"store_pending"} => interest
    /\ pc[Main] \in Pending /\ ~rootReady => joinWaker
    /\ (\E th \in Threads : pc[th] = "join_take") => rootReady
    /\ pc[Main] = "park_thread" /\ unparked /\ ~token
          => \E th \in Threads : pc[th] = "wake_token"
    /\ pc[Main] \in Pending \cup {"store_pending"} /\ rootReady /\ ~unparked
          => \/ missed
             \/ \E th \in Threads : pc[th] = "wake_swap"
             \/ /\ \E th \in Threads : pc[th] = "join_take"
                /\ joinWaker \/ pc[Main] = "store_pending"

\* After shutdown() has notified, no worker is asleep or falls asleep again.
THEOREM SleepersLeave == Spec => []NoSleeperAfterShutdown
<1> USE DEF ShutdownInv, NoSleeperAfterShutdown
<1>1. Init => ShutdownInv
  <2> SUFFICES ASSUME Init PROVE ShutdownInv
    OBVIOUS
  <2>1. Main \in Threads /\ Main \notin Workers
    BY ThreadsAssumption DEF Threads
  <2>2. pc[Main] = "idle"
    BY <2>1 DEF Init
  <2> QED
    BY <2>2
<1>2. StateTypes /\ HeldInv /\ ShutdownInv /\ [Next]_vars => ShutdownInv'
  <2> SUFFICES ASSUME StateTypes, HeldInv, ShutdownInv, [Next]_vars PROVE ShutdownInv'
    OBVIOUS
  <2>m. /\ Main \in Threads /\ Main \notin Workers /\ Main \notin Spawners /\ Workers \subseteq Threads
        /\ Spawners \subseteq Threads /\ Workers \cap Spawners = {} /\ NoThread \notin Threads
    BY ThreadsAssumption DEF Threads
  <2>p. pc \in [Threads -> Labels] /\ waiting \subseteq Workers
    BY DEF StateTypes
  <2>1. ASSUME NEW w \in Workers, CheckShutdown(w) PROVE ShutdownInv'
    BY <2>1, <2>m, <2>p DEF CheckShutdown
  <2>2. ASSUME NEW w \in Workers, Scan(w) PROVE ShutdownInv'
    BY <2>2, <2>m, <2>p DEF Scan
  <2>3. ASSUME NEW w \in Workers, LockToSleep(w) PROVE ShutdownInv'
    BY <2>3, <2>m, <2>p DEF LockToSleep
  <2>4. ASSUME NEW w \in Workers, Recheck(w) PROVE ShutdownInv'
    BY <2>4, <2>m, <2>p DEF Recheck, FindAndDiscard, FindNothing, StealHead, StealNone
  <2>5. ASSUME NEW w \in Workers, WaitOrLeave(w) PROVE ShutdownInv'
    BY <2>5, <2>m, <2>p DEF WaitOrLeave
  <2>6. ASSUME NEW w \in Workers, Reacquire(w) PROVE ShutdownInv'
    BY <2>6, <2>m, <2>p DEF Reacquire
  <2>7. ASSUME NEW w \in Workers, Woken(w) PROVE ShutdownInv'
    BY <2>7, <2>m, <2>p DEF Woken, FindAndDiscard, FindNothing, StealHead, StealNone
  <2>8. ASSUME NEW w \in Workers, SpuriousWakeup(w) PROVE ShutdownInv'
    BY <2>8, <2>m, <2>p DEF SpuriousWakeup
  <2>9. ASSUME NEW th \in Threads, NotifyOne(th) PROVE ShutdownInv'
    BY <2>9, <2>m, <2>p DEF NotifyOne
  <2>10. ASSUME NEW th \in Threads, UnparkOne(th) PROVE ShutdownInv'
    BY <2>10, <2>m, <2>p DEF UnparkOne
  <2>11. ASSUME NEW th \in Threads, FinishTask(th) PROVE ShutdownInv'
    BY <2>11, <2>m, <2>p DEF FinishTask, AfterRun
  <2>11j. ASSUME NEW th \in Threads, JoinTake(th) PROVE ShutdownInv'
    BY <2>11j, <2>m, <2>p DEF JoinTake, AfterRun
  <2>12. ASSUME NEW th \in Threads, UnparkSwap(th) PROVE ShutdownInv'
    BY <2>12, <2>m, <2>p DEF UnparkSwap, ResumeAt, AfterRun
  <2>13. ASSUME NEW th \in Threads, UnparkToken(th) PROVE ShutdownInv'
    BY <2>13, <2>m, <2>p DEF UnparkToken, ResumeAt, AfterRun
  <2>14. ASSUME NEW th \in Threads, TaskNudges(th) PROVE ShutdownInv'
    BY <2>14, <2>m, <2>p DEF TaskNudges
  <2>14p. ASSUME NEW th \in Threads, TaskPanics(th) PROVE ShutdownInv'
    BY <2>14p, <2>m, <2>p DEF TaskPanics
  <2>15. ASSUME NEW th \in Threads, NEW t \in Tasks, pc[th] \in {"idle", "running"}, Push(th, t)
         PROVE ShutdownInv'
    BY <2>15, <2>m, <2>p DEF Push
  <2>15o. ASSUME NEW th \in Spawners, OutsiderRuns(th) PROVE ShutdownInv'
    BY <2>15o, <2>m, <2>p DEF OutsiderRuns
  <2>16. CASE PollRoot
    BY <2>16, <2>m, <2>p DEF PollRoot
  <2>16r. CASE RegisterRoot
    BY <2>16r, <2>m, <2>p DEF RegisterRoot
  <2>16s. CASE StoreRoot
    BY <2>16s, <2>m, <2>p DEF StoreRoot
  <2>17. CASE HelpOrIdle
    BY <2>17, <2>m, <2>p DEF HelpOrIdle
  <2>18. CASE IdleCheck
    BY <2>18, <2>m, <2>p DEF IdleCheck
  <2>19. CASE ParkSwap
    BY <2>19, <2>m, <2>p DEF ParkSwap
  <2>20. CASE ParkThread
    BY <2>20, <2>m, <2>p DEF ParkThread
  <2>21. CASE StartBlockOn
    BY <2>21, <2>m, <2>p DEF StartBlockOn
  <2>22. CASE ShutdownStore
    BY <2>22, <2>m, <2>p DEF ShutdownStore
  <2>23. CASE ShutdownNotifyAll
    BY <2>23, <2>m, <2>p DEF ShutdownNotifyAll
  <2>24. CASE ShutdownUnparkAll
    BY <2>24, <2>m, <2>p DEF ShutdownUnparkAll
  <2>25. CASE ShutdownJoin
    BY <2>25, <2>m, <2>p DEF ShutdownJoin
  <2>26. CASE UNCHANGED vars
    BY <2>26 DEF vars
  <2> HIDE DEF ShutdownInv, NoSleeperAfterShutdown
  <2> QED
    BY <2>1, <2>2, <2>3, <2>4, <2>5, <2>6, <2>7, <2>8, <2>9, <2>10, <2>11, <2>11j, <2>12, <2>13,
       <2>14, <2>14p, <2>15, <2>15o, <2>16, <2>16r, <2>16s, <2>17, <2>18, <2>19, <2>20, <2>21, <2>22, <2>23, <2>24, <2>25, <2>26, NextCases
<1>3. ShutdownInv => NoSleeperAfterShutdown
  OBVIOUS
<1>4. QED
  BY <1>1, <1>2, <1>3, TypesKept, PTL DEF Spec

\* The mutex protects the sleep section of every worker.
THEOREM LockDiscipline == Spec => []LockInv
<1> USE DEF LockInv
<1>1. Init => LockInv
  BY ThreadsAssumption DEF Init
<1>2. StateTypes /\ HeldInv /\ LockInv /\ [Next]_vars => LockInv'
  <2> SUFFICES ASSUME StateTypes, HeldInv, LockInv, [Next]_vars PROVE LockInv'
    OBVIOUS
  <2>m. /\ Main \in Threads /\ Main \notin Workers /\ Main \notin Spawners /\ Workers \subseteq Threads
        /\ Spawners \subseteq Threads /\ Workers \cap Spawners = {} /\ NoThread \notin Threads
    BY ThreadsAssumption DEF Threads
  <2>p. pc \in [Threads -> Labels] /\ waiting \subseteq Workers
    BY DEF StateTypes
  <2>1. ASSUME NEW w \in Workers, CheckShutdown(w) PROVE LockInv'
    BY <2>1, <2>m, <2>p DEF CheckShutdown
  <2>2. ASSUME NEW w \in Workers, Scan(w) PROVE LockInv'
    <3>1. CASE StealHead
      BY <2>2, <3>1, <2>m, <2>p DEF Scan
    <3>2. CASE StealNone
      BY <2>2, <3>2, <2>m, <2>p DEF Scan
    <3> QED
      BY <2>2, <3>1, <3>2 DEF Scan
  <2>3. ASSUME NEW w \in Workers, LockToSleep(w) PROVE LockInv'
    BY <2>3, <2>m, <2>p DEF LockToSleep
  <2>4. ASSUME NEW w \in Workers, Recheck(w) PROVE LockInv'
    <3>1. CASE FindAndDiscard(w)
      BY <2>4, <3>1, <2>m, <2>p DEF Recheck, FindAndDiscard
    <3>2. CASE FindNothing(w)
      BY <2>4, <3>2, <2>m, <2>p DEF Recheck, FindNothing
    <3> QED
      BY <2>4, <3>1, <3>2 DEF Recheck
  <2>5. ASSUME NEW w \in Workers, WaitOrLeave(w) PROVE LockInv'
    <3>1. CASE shutdown
      BY <2>5, <3>1, <2>m, <2>p DEF WaitOrLeave
    <3>2. CASE ~shutdown
      BY <2>5, <3>2, <2>m, <2>p DEF WaitOrLeave
    <3> QED
      BY <3>1, <3>2
  <2>6. ASSUME NEW w \in Workers, Reacquire(w) PROVE LockInv'
    BY <2>6, <2>m, <2>p DEF Reacquire
  <2>7. ASSUME NEW w \in Workers, Woken(w) PROVE LockInv'
    <3>1. CASE FindAndDiscard(w)
      BY <2>7, <3>1, <2>m, <2>p DEF Woken, FindAndDiscard
    <3>2. CASE FindNothing(w)
      BY <2>7, <3>2, <2>m, <2>p DEF Woken, FindNothing
    <3> QED
      BY <2>7, <3>1, <3>2 DEF Woken
  <2>8. ASSUME NEW w \in Workers, SpuriousWakeup(w) PROVE LockInv'
    BY <2>8, <2>m, <2>p DEF SpuriousWakeup
  <2>9. ASSUME NEW th \in Threads, NotifyOne(th) PROVE LockInv'
    BY <2>9, <2>m, <2>p DEF NotifyOne
  <2>10. ASSUME NEW th \in Threads, UnparkOne(th) PROVE LockInv'
    BY <2>10, <2>m, <2>p DEF UnparkOne
  <2>11. ASSUME NEW th \in Threads, FinishTask(th) PROVE LockInv'
    BY <2>11, <2>m, <2>p DEF FinishTask, AfterRun
  <2>11j. ASSUME NEW th \in Threads, JoinTake(th) PROVE LockInv'
    BY <2>11j, <2>m, <2>p DEF JoinTake, AfterRun
  <2>12. ASSUME NEW th \in Threads, UnparkSwap(th) PROVE LockInv'
    BY <2>12, <2>m, <2>p DEF UnparkSwap, ResumeAt, AfterRun
  <2>13. ASSUME NEW th \in Threads, UnparkToken(th) PROVE LockInv'
    BY <2>13, <2>m, <2>p DEF UnparkToken, ResumeAt, AfterRun
  <2>14. ASSUME NEW th \in Threads, TaskNudges(th) PROVE LockInv'
    BY <2>14, <2>m, <2>p DEF TaskNudges
  <2>14p. ASSUME NEW th \in Threads, TaskPanics(th) PROVE LockInv'
    BY <2>14p, <2>m, <2>p DEF TaskPanics
  <2>15. ASSUME NEW th \in Threads, NEW t \in Tasks, pc[th] \in {"idle", "running"}, Push(th, t)
         PROVE LockInv'
    BY <2>15, <2>m, <2>p DEF Push
  <2>15o. ASSUME NEW th \in Spawners, OutsiderRuns(th) PROVE LockInv'
    BY <2>15o, <2>m, <2>p DEF OutsiderRuns
  <2>16. CASE PollRoot
    <3>1. CASE rootReady
      BY <2>16, <3>1, <2>m, <2>p DEF PollRoot
    <3>2. CASE ~rootReady
      BY <2>16, <3>2, <2>m, <2>p DEF PollRoot
    <3> QED
      BY <3>1, <3>2
  <2>16r. CASE RegisterRoot
    BY <2>16r, <2>m, <2>p DEF RegisterRoot
  <2>16s. CASE StoreRoot
    BY <2>16s, <2>m, <2>p DEF StoreRoot
  <2>17. CASE HelpOrIdle
    <3>1. CASE StealHead
      BY <2>17, <3>1, <2>m, <2>p DEF HelpOrIdle
    <3>2. CASE StealNone
      BY <2>17, <3>2, <2>m, <2>p DEF HelpOrIdle
    <3> QED
      BY <2>17, <3>1, <3>2 DEF HelpOrIdle
  <2>18. CASE IdleCheck
    BY <2>18, <2>m, <2>p DEF IdleCheck
  <2>19. CASE ParkSwap
    BY <2>19, <2>m, <2>p DEF ParkSwap
  <2>20. CASE ParkThread
    BY <2>20, <2>m, <2>p DEF ParkThread
  <2>21. CASE StartBlockOn
    BY <2>21, <2>m, <2>p DEF StartBlockOn
  <2>22. CASE ShutdownStore
    BY <2>22, <2>m, <2>p DEF ShutdownStore
  <2>23. CASE ShutdownNotifyAll
    BY <2>23, <2>m, <2>p DEF ShutdownNotifyAll
  <2>24. CASE ShutdownUnparkAll
    BY <2>24, <2>m, <2>p DEF ShutdownUnparkAll
  <2>25. CASE ShutdownJoin
    BY <2>25, <2>m, <2>p DEF ShutdownJoin
  <2>26. CASE UNCHANGED vars
    BY <2>26 DEF vars
  <2> HIDE DEF LockInv
  <2> QED
    BY <2>1, <2>2, <2>3, <2>4, <2>5, <2>6, <2>7, <2>8, <2>9, <2>10, <2>11, <2>11j, <2>12, <2>13,
       <2>14, <2>14p, <2>15, <2>15o, <2>16, <2>16r, <2>16s, <2>17, <2>18, <2>19, <2>20, <2>21, <2>22, <2>23, <2>24, <2>25, <2>26, NextCases
<1>3. QED
  BY <1>1, <1>2, TypesKept, PTL DEF Spec

\* A step that leaves the two sets of wakeups alone, pushes nothing and puts nobody
\* to sleep.
LEMMA Undisturbed ==
    ASSUME SleepInv, injector \in Seq(Tasks), injector' \in Seq(Tasks),
           Cardinality(Notifying) \in Nat, Cardinality(Roused) \in Nat,
           Notifying' = Notifying, Roused' = Roused, retried' = retried,
           Len(injector') <= Len(injector), Dozing' => Dozing
    PROVE  SleepInv'
  BY DEF SleepInv, Covered

\* The push / notify_one / double-check protocol loses no wakeup.
THEOREM WorkersHearOfWork == Spec => []NoSleepThroughWork
<1>1. Init => SleepInv
  <2> SUFFICES ASSUME Init PROVE ~Dozing
    BY DEF SleepInv
  <2> QED
    BY DEF Init, Dozing, Threads
<1>2. StateTypes /\ StateTypes' /\ HeldInv /\ LockInv /\ SleepInv /\ [Next]_vars => SleepInv'
  <2> SUFFICES ASSUME StateTypes, StateTypes', HeldInv, LockInv, SleepInv, [Next]_vars PROVE SleepInv'
    OBVIOUS
  <2>m. /\ Main \in Threads /\ Main \notin Workers /\ Main \notin Spawners /\ Workers \subseteq Threads
        /\ Spawners \subseteq Threads /\ Workers \cap Spawners = {} /\ NoThread \notin Threads
    BY ThreadsAssumption DEF Threads
  <2>p. pc \in [Threads -> Labels] /\ waiting \subseteq Workers
    BY DEF StateTypes
  <2>q. injector \in Seq(Tasks) /\ injector' \in Seq(Tasks)
    BY DEF StateTypes
  <2>f. /\ IsFiniteSet(Notifying) /\ Cardinality(Notifying) \in Nat
        /\ IsFiniteSet(Roused) /\ Cardinality(Roused) \in Nat
        /\ injector \in Seq(Tasks) /\ injector' \in Seq(Tasks)
        /\ Len(injector) \in Nat
    <3>1. IsFiniteSet(Threads)
      BY ThreadsAssumption, FS_Union, FS_Singleton DEF Threads
    <3>2. Notifying \subseteq Threads /\ Roused \subseteq Workers
      BY DEF Notifying, Roused
    <3> QED
      BY <3>1, <3>2, <2>q, ThreadsAssumption, BoundsAssumption, FS_Subset, FS_CardinalityType
         DEF StateTypes
  <2>l. \A w \in waiting : pc[w] = "waiting"
    BY DEF LockInv
  <2>1. ASSUME NEW w \in Workers, CheckShutdown(w) PROVE SleepInv'
    <3>1. Notifying' = Notifying /\ Roused' = Roused
      BY <2>1, <2>m, <2>p, <2>l DEF CheckShutdown, Notifying, Roused
    <3>2. retried' = retried /\ injector' = injector /\ (Dozing' => Dozing)
      BY <2>1, <2>m, <2>p, <2>l DEF CheckShutdown, Dozing
    <3> QED
      BY <3>1, <3>2, <2>f, Undisturbed
  <2>2. ASSUME NEW w \in Workers, Scan(w) PROVE SleepInv'
    <3>1. Notifying' = Notifying /\ Roused' = Roused
      BY <2>2, <2>m, <2>p, <2>l DEF Scan, Notifying, Roused
    <3>2. CASE retried'
      BY <3>2 DEF SleepInv
    <3>3. CASE ~retried'
      <4>1. retried' = retried /\ Len(injector') <= Len(injector)
        BY <2>2, <3>3, <2>f, <2>q DEF Scan, StealHead, StealNone
      <4>2. Dozing' => Dozing
        BY <2>2, <2>m, <2>p DEF Scan, Dozing
      <4> QED
        BY <3>1, <4>1, <4>2, <2>f, <2>q, Undisturbed
    <3> QED
      BY <3>2, <3>3
  <2>3. ASSUME NEW w \in Workers, LockToSleep(w) PROVE SleepInv'
    <3>1. Notifying' = Notifying /\ Roused' = Roused
      BY <2>3, <2>m, <2>p, <2>l DEF LockToSleep, Notifying, Roused
    <3>2. retried' = retried /\ injector' = injector /\ (Dozing' => Dozing)
      BY <2>3, <2>m, <2>p, <2>l DEF LockToSleep, Dozing
    <3> QED
      BY <3>1, <3>2, <2>f, Undisturbed
  <2>4. ASSUME NEW w \in Workers, Recheck(w) PROVE SleepInv'
    <3>1. CASE FindAndDiscard(w)
      <4>1. Notifying' = Notifying /\ Roused' = Roused
        BY <2>4, <3>1, <2>m, <2>p, <2>l DEF Recheck, FindAndDiscard, Notifying, Roused
      <4>2. retried' = retried /\ Len(injector') = Len(injector) - 1
        BY <3>1, <2>q DEF FindAndDiscard, StealHead
      <4>3. Dozing' => Dozing
        BY <2>4, <3>1, <2>m, <2>p DEF Recheck, FindAndDiscard, Dozing
      <4> QED
        BY <4>1, <4>2, <4>3, <2>f, <2>q, Undisturbed
    <3>2. CASE FindNothing(w)
      <4>1. CASE retried'
        BY <4>1 DEF SleepInv
      <4>2. CASE ~retried'
        <5>1. injector' = <<>>
          BY <3>2, <4>2, <2>f DEF FindNothing, StealNone
        <5>2. Notifying' = Notifying /\ Roused' = Roused
          BY <2>4, <3>2, <2>m, <2>p, <2>l DEF Recheck, FindNothing, Notifying, Roused
        <5>3. Cardinality(Roused') \in Nat
          BY <5>2, <2>f
        <5> QED
          BY <5>1, <5>2, <5>3, <2>f DEF SleepInv, Covered
      <4> QED
        BY <4>1, <4>2
    <3> QED
      BY <2>4, <3>1, <3>2 DEF Recheck
  <2>5. ASSUME NEW w \in Workers, WaitOrLeave(w) PROVE SleepInv'
    <3>1. pc[w] = "waitloop" /\ Dozing
      BY <2>5 DEF WaitOrLeave, Dozing
    <3>2. Notifying' = Notifying /\ Roused' = Roused
      <4>1. CASE shutdown
        BY <2>5, <4>1, <2>m, <2>p, <2>l DEF WaitOrLeave, Notifying, Roused
      <4>2. CASE ~shutdown
        BY <2>5, <4>2, <2>m, <2>p, <2>l DEF WaitOrLeave, Notifying, Roused
      <4> QED
        BY <4>1, <4>2
    <3>3. retried' = retried /\ injector' = injector
      BY <2>5 DEF WaitOrLeave
    <3> QED
      BY <3>1, <3>2, <3>3, <2>f, Undisturbed
  <2>6. ASSUME NEW w \in Workers, Reacquire(w) PROVE SleepInv'
    <3>1. Notifying' = Notifying /\ Roused' = Roused
      BY <2>6, <2>m, <2>p, <2>l DEF Reacquire, Notifying, Roused
    <3>2. retried' = retried /\ injector' = injector /\ (Dozing' => Dozing)
      BY <2>6, <2>m, <2>p, <2>l DEF Reacquire, Dozing
    <3> QED
      BY <3>1, <3>2, <2>f, Undisturbed
  <2>7. ASSUME NEW w \in Workers, Woken(w) PROVE SleepInv'
    <3>1. CASE FindAndDiscard(w)
      <4>1. Notifying' = Notifying /\ Roused' = Roused \ {w} /\ w \in Roused
        BY <2>7, <3>1, <2>m, <2>p, <2>l DEF Woken, FindAndDiscard, Notifying, Roused
      <4>2. retried' = retried /\ Len(injector') = Len(injector) - 1
        BY <3>1, <2>q DEF FindAndDiscard, StealHead
      <4>3. Dozing' => Dozing
        BY <2>7, <3>1, <2>m, <2>p DEF Woken, FindAndDiscard, Dozing
      <4>4. Cardinality(Roused') = Cardinality(Roused) - 1
        BY <4>1, <2>f, FS_RemoveElement
      <4> QED
        BY <4>1, <4>2, <4>3, <4>4, <2>f DEF SleepInv, Covered
    <3>2. CASE FindNothing(w)
      <4>1. CASE retried'
        BY <4>1 DEF SleepInv
      <4>2. CASE ~retried'
        <5>1. injector' = <<>>
          BY <3>2, <4>2, <2>f DEF FindNothing, StealNone
        <5>2. Notifying' = Notifying /\ Roused' = Roused \ {w}
          BY <2>7, <3>2, <2>m, <2>p, <2>l DEF Woken, FindNothing, Notifying, Roused
        <5>3. Cardinality(Roused') \in Nat
          BY <5>2, <2>f, FS_Subset, FS_CardinalityType
        <5> QED
          BY <5>1, <5>2, <5>3, <2>f DEF SleepInv, Covered
      <4> QED
        BY <4>1, <4>2
    <3> QED
      BY <2>7, <3>1, <3>2 DEF Woken
  <2>8. ASSUME NEW w \in Workers, SpuriousWakeup(w) PROVE SleepInv'
    <3>1. w \notin Roused /\ Roused' = Roused \cup {w} /\ Notifying' = Notifying
      BY <2>8, <2>m, <2>p, <2>l DEF SpuriousWakeup, Notifying, Roused
    <3>2. Cardinality(Roused') = Cardinality(Roused) + 1
      BY <3>1, <2>f, FS_AddElement
    <3>3. retried' = retried /\ injector' = injector /\ (Dozing' => Dozing)
      BY <2>8 DEF SpuriousWakeup, Dozing
    <3> QED
      BY <3>1, <3>2, <3>3, <2>f DEF SleepInv, Covered
  <2>9. ASSUME NEW th \in Threads, NotifyOne(th) PROVE SleepInv'
    <3>1. \A w \in Workers : pc[w] # "waitloop"
      BY <2>9, <2>m DEF NotifyOne, LockInv
    <3>2. pc' = [pc EXCEPT ![th] = "unpark"] /\ pc[th] = "notify"
          /\ retried' = retried /\ injector' = injector
      BY <2>9 DEF NotifyOne
    <3>3. \A w \in Workers : pc'[w] # "waitloop"
      BY <3>1, <3>2, <2>m, <2>p
    <3>4. CASE waiting = {}
      BY <2>9, <3>3, <3>4 DEF NotifyOne, SleepInv, Dozing
    <3>5. CASE waiting # {}
      <4>1. PICK w \in waiting : waiting' = waiting \ {w}
        BY <2>9, <3>5 DEF NotifyOne
      <4>2. th \in Notifying /\ Notifying' = Notifying \ {th}
        BY <3>2, <2>p DEF Notifying, Roused
      <4>3. w \notin Roused /\ Roused' = Roused \cup {w}
        BY <3>2, <4>1, <2>m, <2>p, <2>l DEF Notifying, Roused
      <4>4. Cardinality(Notifying') = Cardinality(Notifying) - 1
        BY <4>2, <2>f, FS_RemoveElement
      <4>5. Cardinality(Roused') = Cardinality(Roused) + 1
        BY <4>3, <2>f, FS_AddElement
      <4> QED
        BY <3>2, <3>5, <4>4, <4>5, <2>f DEF SleepInv, Covered, Dozing
    <3> QED
      BY <3>4, <3>5
  <2>10. ASSUME NEW th \in Threads, UnparkOne(th) PROVE SleepInv'
    <3>1. Notifying' = Notifying /\ Roused' = Roused
      BY <2>10, <2>m, <2>p, <2>l DEF UnparkOne, Notifying, Roused
    <3>2. retried' = retried /\ injector' = injector /\ (Dozing' => Dozing)
      BY <2>10, <2>m, <2>p, <2>l DEF UnparkOne, Dozing
    <3> QED
      BY <3>1, <3>2, <2>f, Undisturbed
  <2>11. ASSUME NEW th \in Threads, FinishTask(th) PROVE SleepInv'
    <3>1. Notifying' = Notifying /\ Roused' = Roused
      BY <2>11, <2>m, <2>p, <2>l DEF FinishTask, AfterRun, Notifying, Roused
    <3>2. retried' = retried /\ injector' = injector /\ (Dozing' => Dozing)
      BY <2>11, <2>m, <2>p, <2>l DEF FinishTask, AfterRun, Dozing
    <3> QED
      BY <3>1, <3>2, <2>f, Undisturbed
  <2>11j. ASSUME NEW th \in Threads, JoinTake(th) PROVE SleepInv'
    <3>1. Notifying' = Notifying /\ Roused' = Roused
      BY <2>11j, <2>m, <2>p, <2>l DEF JoinTake, AfterRun, Notifying, Roused
    <3>2. retried' = retried /\ injector' = injector /\ (Dozing' => Dozing)
      BY <2>11j, <2>m, <2>p, <2>l DEF JoinTake, AfterRun, Dozing
    <3> QED
      BY <3>1, <3>2, <2>f, Undisturbed
  <2>12. ASSUME NEW th \in Threads, UnparkSwap(th) PROVE SleepInv'
    <3>1. Notifying' = Notifying /\ Roused' = Roused
      BY <2>12, <2>m, <2>p, <2>l DEF UnparkSwap, ResumeAt, AfterRun, Notifying, Roused
    <3>2. retried' = retried /\ injector' = injector /\ (Dozing' => Dozing)
      BY <2>12, <2>m, <2>p, <2>l DEF UnparkSwap, ResumeAt, AfterRun, Dozing
    <3> QED
      BY <3>1, <3>2, <2>f, Undisturbed
  <2>13. ASSUME NEW th \in Threads, UnparkToken(th) PROVE SleepInv'
    <3>1. Notifying' = Notifying /\ Roused' = Roused
      BY <2>13, <2>m, <2>p, <2>l DEF UnparkToken, ResumeAt, AfterRun, Notifying, Roused
    <3>2. retried' = retried /\ injector' = injector /\ (Dozing' => Dozing)
      BY <2>13, <2>m, <2>p, <2>l DEF UnparkToken, ResumeAt, AfterRun, Dozing
    <3> QED
      BY <3>1, <3>2, <2>f, Undisturbed
  <2>14. ASSUME NEW th \in Threads, TaskNudges(th) PROVE SleepInv'
    <3>1. Notifying' = Notifying /\ Roused' = Roused
      BY <2>14, <2>m, <2>p, <2>l DEF TaskNudges, Notifying, Roused
    <3>2. retried' = retried /\ injector' = injector /\ (Dozing' => Dozing)
      BY <2>14, <2>m, <2>p, <2>l DEF TaskNudges, Dozing
    <3> QED
      BY <3>1, <3>2, <2>f, Undisturbed
  <2>14p. ASSUME NEW th \in Threads, TaskPanics(th) PROVE SleepInv'
    <3>1. Notifying' = Notifying /\ Roused' = Roused
      BY <2>14p, <2>m, <2>p, <2>l DEF TaskPanics, Notifying, Roused
    <3>2. retried' = retried /\ injector' = injector /\ (Dozing' => Dozing)
      BY <2>14p, <2>m, <2>p, <2>l DEF TaskPanics, Dozing
    <3> QED
      BY <3>1, <3>2, <2>f, Undisturbed
  <2>15. ASSUME NEW th \in Threads, NEW t \in Tasks, pc[th] \in {"idle", "running"}, Push(th, t)
         PROVE SleepInv'
    <3>1. th \notin Notifying /\ Notifying' = Notifying \cup {th} /\ Roused' = Roused
      BY <2>15, <2>m, <2>p, <2>l DEF Push, Notifying, Roused
    <3>2. Cardinality(Notifying') = Cardinality(Notifying) + 1
      BY <3>1, <2>f, FS_AddElement
    <3>3. retried' = retried /\ Len(injector') = Len(injector) + 1
      BY <2>15, <2>q DEF Push
    <3>4. Dozing' => Dozing
      BY <2>15, <2>m, <2>p DEF Push, Dozing
    <3> QED
      BY <3>1, <3>2, <3>3, <3>4, <2>f DEF SleepInv, Covered
  <2>15o. ASSUME NEW th \in Spawners, OutsiderRuns(th) PROVE SleepInv'
    <3>1. Notifying' = Notifying /\ Roused' = Roused
      BY <2>15o, <2>m, <2>p, <2>l DEF OutsiderRuns, Notifying, Roused
    <3>2. retried' = retried /\ Len(injector') <= Len(injector)
      BY <2>15o, <2>f, <2>q DEF OutsiderRuns, StealHead
    <3>3. Dozing' => Dozing
      BY <2>15o, <2>m, <2>p DEF OutsiderRuns, Dozing
    <3> QED
      BY <3>1, <3>2, <3>3, <2>f, <2>q, Undisturbed
  <2>16. CASE PollRoot
    <3>1. Notifying' = Notifying /\ Roused' = Roused
      BY <2>16, <2>m, <2>p, <2>l DEF PollRoot, Notifying, Roused
    <3>2. retried' = retried /\ injector' = injector /\ (Dozing' => Dozing)
      BY <2>16, <2>m, <2>p, <2>l DEF PollRoot, Dozing
    <3> QED
      BY <3>1, <3>2, <2>f, Undisturbed
  <2>16r. CASE RegisterRoot
    <3>1. Notifying' = Notifying /\ Roused' = Roused
      BY <2>16r, <2>m, <2>p, <2>l DEF RegisterRoot, Notifying, Roused
    <3>2. retried' = retried /\ injector' = injector /\ (Dozing' => Dozing)
      BY <2>16r, <2>m, <2>p, <2>l DEF RegisterRoot, Dozing
    <3> QED
      BY <3>1, <3>2, <2>f, Undisturbed
  <2>16s. CASE StoreRoot
    <3>1. Notifying' = Notifying /\ Roused' = Roused
      BY <2>16s, <2>m, <2>p, <2>l DEF StoreRoot, Notifying, Roused
    <3>2. retried' = retried /\ injector' = injector /\ (Dozing' => Dozing)
      BY <2>16s, <2>m, <2>p, <2>l DEF StoreRoot, Dozing
    <3> QED
      BY <3>1, <3>2, <2>f, Undisturbed
  <2>17. CASE HelpOrIdle
    <3>1. Notifying' = Notifying /\ Roused' = Roused
      BY <2>17, <2>m, <2>p, <2>l DEF HelpOrIdle, Notifying, Roused
    <3>2. CASE retried'
      BY <3>2 DEF SleepInv
    <3>3. CASE ~retried'
      <4>1. retried' = retried /\ Len(injector') <= Len(injector)
        BY <2>17, <3>3, <2>f, <2>q DEF HelpOrIdle, StealHead, StealNone
      <4>2. Dozing' => Dozing
        BY <2>17, <2>m, <2>p DEF HelpOrIdle, Dozing
      <4> QED
        BY <3>1, <4>1, <4>2, <2>f, <2>q, Undisturbed
    <3> QED
      BY <3>2, <3>3
  <2>18. CASE IdleCheck
    <3>1. Notifying' = Notifying /\ Roused' = Roused
      BY <2>18, <2>m, <2>p, <2>l DEF IdleCheck, Notifying, Roused
    <3>2. retried' = retried /\ injector' = injector /\ (Dozing' => Dozing)
      BY <2>18, <2>m, <2>p, <2>l DEF IdleCheck, Dozing
    <3> QED
      BY <3>1, <3>2, <2>f, Undisturbed
  <2>19. CASE ParkSwap
    <3>1. Notifying' = Notifying /\ Roused' = Roused
      BY <2>19, <2>m, <2>p, <2>l DEF ParkSwap, Notifying, Roused
    <3>2. retried' = retried /\ injector' = injector /\ (Dozing' => Dozing)
      BY <2>19, <2>m, <2>p, <2>l DEF ParkSwap, Dozing
    <3> QED
      BY <3>1, <3>2, <2>f, Undisturbed
  <2>20. CASE ParkThread
    <3>1. Notifying' = Notifying /\ Roused' = Roused
      BY <2>20, <2>m, <2>p, <2>l DEF ParkThread, Notifying, Roused
    <3>2. retried' = retried /\ injector' = injector /\ (Dozing' => Dozing)
      BY <2>20, <2>m, <2>p, <2>l DEF ParkThread, Dozing
    <3> QED
      BY <3>1, <3>2, <2>f, Undisturbed
  <2>21. CASE StartBlockOn
    <3>1. Notifying' = Notifying /\ Roused' = Roused
      BY <2>21, <2>m, <2>p, <2>l DEF StartBlockOn, Notifying, Roused
    <3>2. retried' = retried /\ injector' = injector /\ (Dozing' => Dozing)
      BY <2>21, <2>m, <2>p, <2>l DEF StartBlockOn, Dozing
    <3> QED
      BY <3>1, <3>2, <2>f, Undisturbed
  <2>22. CASE ShutdownStore
    <3>1. Notifying' = Notifying /\ Roused' = Roused
      BY <2>22, <2>m, <2>p, <2>l DEF ShutdownStore, Notifying, Roused
    <3>2. retried' = retried /\ injector' = injector /\ (Dozing' => Dozing)
      BY <2>22, <2>m, <2>p, <2>l DEF ShutdownStore, Dozing
    <3> QED
      BY <3>1, <3>2, <2>f, Undisturbed
  <2>23. CASE ShutdownNotifyAll
    <3>1. \A w \in Workers : pc[w] # "waitloop"
      BY <2>23, <2>m DEF ShutdownNotifyAll, LockInv
    <3>2. ~Dozing'
      BY <2>23, <3>1, <2>m, <2>p DEF ShutdownNotifyAll, Dozing
    <3> QED
      BY <3>2 DEF SleepInv
  <2>24. CASE ShutdownUnparkAll
    <3>1. Notifying' = Notifying /\ Roused' = Roused
      BY <2>24, <2>m, <2>p, <2>l DEF ShutdownUnparkAll, Notifying, Roused
    <3>2. retried' = retried /\ injector' = injector /\ (Dozing' => Dozing)
      BY <2>24, <2>m, <2>p, <2>l DEF ShutdownUnparkAll, Dozing
    <3> QED
      BY <3>1, <3>2, <2>f, Undisturbed
  <2>25. CASE ShutdownJoin
    <3>1. Notifying' = Notifying /\ Roused' = Roused
      BY <2>25, <2>m, <2>p, <2>l DEF ShutdownJoin, Notifying, Roused
    <3>2. retried' = retried /\ injector' = injector /\ (Dozing' => Dozing)
      BY <2>25, <2>m, <2>p, <2>l DEF ShutdownJoin, Dozing
    <3> QED
      BY <3>1, <3>2, <2>f, Undisturbed
  <2>26. CASE UNCHANGED vars
    BY <2>26 DEF vars, SleepInv, Dozing, Covered, Notifying, Roused
  <2> QED
    BY <2>1, <2>2, <2>3, <2>4, <2>5, <2>6, <2>7, <2>8, <2>9, <2>10, <2>11, <2>11j, <2>12, <2>13, <2>14,
       <2>14p, <2>15, <2>15o, <2>16, <2>16r, <2>16s, <2>17, <2>18, <2>19, <2>20, <2>21, <2>22, <2>23, <2>24, <2>25, <2>26,
       NextCases
<1>3. SleepInv => NoSleepThroughWork
  BY DEF SleepInv, Dozing, Covered, NoSleepThroughWork
<1>4. QED
  BY <1>1, <1>2, <1>3, TypesKept, LockDiscipline, PTL DEF Spec

\* BlockOnParker loses no wakeup of the thread inside block_on.
THEOREM RootWakeArrives == Spec => []RootWakeNotLost
<1> USE DEF ParkInv, Pending
<1>1. Init => ParkInv
  <2> SUFFICES ASSUME Init PROVE ParkInv
    OBVIOUS
  <2>1. Main \in Threads /\ Main \notin Workers
    BY ThreadsAssumption DEF Threads
  <2>2. pc[Main] = "idle" /\ \A th \in Threads : pc[th] # "join_take"
    BY <2>1 DEF Init
  <2> QED
    BY <2>2
<1>2. StateTypes /\ HeldInv /\ ParkInv /\ [Next]_vars => ParkInv'
  <2> SUFFICES ASSUME StateTypes, HeldInv, ParkInv, [Next]_vars PROVE ParkInv'
    OBVIOUS
  <2>m. /\ Main \in Threads /\ Main \notin Workers /\ Main \notin Spawners /\ Workers \subseteq Threads
        /\ Spawners \subseteq Threads /\ Workers \cap Spawners = {} /\ NoThread \notin Threads
    BY ThreadsAssumption DEF Threads
  <2>p. pc \in [Threads -> Labels] /\ waiting \subseteq Workers
    BY DEF StateTypes
  <2>1. ASSUME NEW w \in Workers, CheckShutdown(w) PROVE ParkInv'
    BY <2>1, <2>m, <2>p DEF CheckShutdown
  <2>2. ASSUME NEW w \in Workers, Scan(w) PROVE ParkInv'
    BY <2>2, <2>m, <2>p DEF Scan
  <2>3. ASSUME NEW w \in Workers, LockToSleep(w) PROVE ParkInv'
    BY <2>3, <2>m, <2>p DEF LockToSleep
  <2>4. ASSUME NEW w \in Workers, Recheck(w) PROVE ParkInv'
    BY <2>4, <2>m, <2>p DEF Recheck, FindAndDiscard, FindNothing, StealHead, StealNone
  <2>5. ASSUME NEW w \in Workers, WaitOrLeave(w) PROVE ParkInv'
    <3>1. CASE shutdown
      BY <2>5, <3>1, <2>m, <2>p DEF WaitOrLeave
    <3>2. CASE ~shutdown
      BY <2>5, <3>2, <2>m, <2>p DEF WaitOrLeave
    <3> QED
      BY <3>1, <3>2
  <2>6. ASSUME NEW w \in Workers, Reacquire(w) PROVE ParkInv'
    BY <2>6, <2>m, <2>p DEF Reacquire
  <2>7. ASSUME NEW w \in Workers, Woken(w) PROVE ParkInv'
    BY <2>7, <2>m, <2>p DEF Woken, FindAndDiscard, FindNothing, StealHead, StealNone
  <2>8. ASSUME NEW w \in Workers, SpuriousWakeup(w) PROVE ParkInv'
    BY <2>8, <2>m, <2>p DEF SpuriousWakeup
  <2>9. ASSUME NEW th \in Threads, NotifyOne(th) PROVE ParkInv'
    <3>1. CASE waiting = {}
      BY <2>9, <3>1, <2>m, <2>p DEF NotifyOne
    <3>2. CASE waiting # {}
      BY <2>9, <3>2, <2>m, <2>p DEF NotifyOne
    <3> QED
      BY <3>1, <3>2
  <2>10. ASSUME NEW th \in Threads, UnparkOne(th) PROVE ParkInv'
    BY <2>10, <2>m, <2>p DEF UnparkOne
  <2>11. ASSUME NEW th \in Threads, FinishTask(th) PROVE ParkInv'
    BY <2>11, <2>m, <2>p DEF FinishTask, AfterRun
  <2>11j. ASSUME NEW th \in Threads, JoinTake(th) PROVE ParkInv'
    BY <2>11j, <2>m, <2>p DEF JoinTake, AfterRun
  <2>12. ASSUME NEW th \in Threads, UnparkSwap(th) PROVE ParkInv'
    <3>1. CASE unparked
      BY <2>12, <3>1, <2>m, <2>p DEF UnparkSwap, ResumeAt, AfterRun
    <3>2. CASE ~unparked
      BY <2>12, <3>2, <2>m, <2>p DEF UnparkSwap, ResumeAt, AfterRun
    <3> QED
      BY <3>1, <3>2
  <2>13. ASSUME NEW th \in Threads, UnparkToken(th) PROVE ParkInv'
    BY <2>13, <2>m, <2>p DEF UnparkToken, ResumeAt, AfterRun
  <2>14. ASSUME NEW th \in Threads, TaskNudges(th) PROVE ParkInv'
    BY <2>14, <2>m, <2>p DEF TaskNudges
  <2>14p. ASSUME NEW th \in Threads, TaskPanics(th) PROVE ParkInv'
    BY <2>14p, <2>m, <2>p DEF TaskPanics
  <2>15. ASSUME NEW th \in Threads, NEW t \in Tasks, pc[th] \in {"idle", "running"}, Push(th, t)
         PROVE ParkInv'
    BY <2>15, <2>m, <2>p DEF Push
  <2>15o. ASSUME NEW th \in Spawners, OutsiderRuns(th) PROVE ParkInv'
    BY <2>15o, <2>m, <2>p DEF OutsiderRuns
  <2>16. CASE PollRoot
    <3>1. CASE rootReady
      BY <2>16, <3>1, <2>m, <2>p DEF PollRoot
    <3>2. CASE ~rootReady
      BY <2>16, <3>2, <2>m, <2>p DEF PollRoot
    <3> QED
      BY <3>1, <3>2
  <2>16r. CASE RegisterRoot
    BY <2>16r, <2>m, <2>p DEF RegisterRoot
  <2>16s. CASE StoreRoot
    BY <2>16s, <2>m, <2>p DEF StoreRoot
  <2>17. CASE HelpOrIdle
    <3>1. CASE StealHead
      BY <2>17, <3>1, <2>m, <2>p DEF HelpOrIdle
    <3>2. CASE StealNone
      BY <2>17, <3>2, <2>m, <2>p DEF HelpOrIdle
    <3> QED
      BY <2>17, <3>1, <3>2 DEF HelpOrIdle
  <2>18. CASE IdleCheck
    BY <2>18, <2>m, <2>p DEF IdleCheck
  <2>19. CASE ParkSwap
    <3>1. CASE unparked
      BY <2>19, <3>1, <2>m, <2>p DEF ParkSwap
    <3>2. CASE ~unparked
      BY <2>19, <3>2, <2>m, <2>p DEF ParkSwap
    <3> QED
      BY <3>1, <3>2
  <2>20. CASE ParkThread
    BY <2>20, <2>m, <2>p DEF ParkThread
  <2>21. CASE StartBlockOn
    BY <2>21, <2>m, <2>p DEF StartBlockOn
  <2>22. CASE ShutdownStore
    BY <2>22, <2>m, <2>p DEF ShutdownStore
  <2>23. CASE ShutdownNotifyAll
    BY <2>23, <2>m, <2>p DEF ShutdownNotifyAll
  <2>24. CASE ShutdownUnparkAll
    BY <2>24, <2>m, <2>p DEF ShutdownUnparkAll
  <2>25. CASE ShutdownJoin
    BY <2>25, <2>m, <2>p DEF ShutdownJoin
  <2>26. CASE UNCHANGED vars
    BY <2>26 DEF vars
  <2> HIDE DEF ParkInv, Pending
  <2> QED
    BY <2>1, <2>2, <2>3, <2>4, <2>5, <2>6, <2>7, <2>8, <2>9, <2>10, <2>11, <2>11j, <2>12, <2>13,
       <2>14, <2>14p, <2>15, <2>15o, <2>16, <2>16r, <2>16s, <2>17, <2>18, <2>19, <2>20, <2>21, <2>22, <2>23, <2>24, <2>25, <2>26, NextCases
<1>3. ParkInv => RootWakeNotLost
  BY DEF RootWakeNotLost, Unparking
<1>4. QED
  BY <1>1, <1>2, <1>3, TypesKept, PTL DEF Spec

\* Shared::active counts the workers that are not in the sleep section.
THEOREM SleepersAreCounted == Spec => []ActiveCount
<1> USE DEF ActiveCount, Drowsy
<1>1. Init => ActiveCount
  <2> SUFFICES ASSUME Init PROVE ActiveCount
    OBVIOUS
  <2>1. Drowsy = {}
    BY DEF Init, Threads
  <2>2. Cardinality(Workers) \in Nat
    BY ThreadsAssumption, FS_CardinalityType
  <2>3. Cardinality(Drowsy) = 0
    BY <2>1, FS_EmptySet
  <2>4. active = Cardinality(Workers)
    BY DEF Init
  <2> HIDE DEF Drowsy
  <2> QED
    BY <2>2, <2>3, <2>4
<1>2. StateTypes /\ HeldInv /\ ActiveCount /\ [Next]_vars => ActiveCount'
  <2> SUFFICES ASSUME StateTypes, HeldInv, ActiveCount, [Next]_vars PROVE ActiveCount'
    OBVIOUS
  <2>m. /\ Main \in Threads /\ Main \notin Workers /\ Main \notin Spawners /\ Workers \subseteq Threads
        /\ Spawners \subseteq Threads /\ Workers \cap Spawners = {} /\ NoThread \notin Threads
    BY ThreadsAssumption DEF Threads
  <2>p. pc \in [Threads -> Labels] /\ waiting \subseteq Workers
    BY DEF StateTypes
  <2>f. IsFiniteSet(Drowsy) /\ Cardinality(Drowsy) \in Nat /\ Cardinality(Workers) \in Nat
    <3>1. Drowsy \subseteq Workers
      OBVIOUS
    <3> QED
      BY <3>1, ThreadsAssumption, FS_Subset, FS_CardinalityType
  <2>1. ASSUME NEW w \in Workers, CheckShutdown(w) PROVE ActiveCount'
    <3>1. Drowsy' = Drowsy
      BY <2>1, <2>m, <2>p DEF CheckShutdown
    <3> QED
      BY <2>1, <3>1 DEF CheckShutdown
  <2>2. ASSUME NEW w \in Workers, Scan(w) PROVE ActiveCount'
    <3>1. \E l \in {"running", "lock"} : pc' = [pc EXCEPT ![w] = l]
      BY <2>2 DEF Scan
    <3>2. Drowsy' = Drowsy
      BY <2>2, <3>1, <2>m, <2>p DEF Scan
    <3> QED
      BY <2>2, <3>2 DEF Scan
  <2>3. ASSUME NEW w \in Workers, LockToSleep(w) PROVE ActiveCount'
    <3>1. w \notin Drowsy /\ Drowsy' = Drowsy \cup {w}
      BY <2>3, <2>m, <2>p DEF LockToSleep
    <3>2. Cardinality(Drowsy') = Cardinality(Drowsy) + 1
      BY <3>1, <2>f, FS_AddElement
    <3> QED
      BY <2>3, <3>2, <2>f DEF LockToSleep
  <2>4. ASSUME NEW w \in Workers, Recheck(w) PROVE ActiveCount'
    <3>1. CASE FindAndDiscard(w)
      <4>1. w \in Drowsy /\ Drowsy' = Drowsy \ {w}
        BY <2>4, <3>1, <2>m, <2>p DEF Recheck, FindAndDiscard
      <4>2. Cardinality(Drowsy') = Cardinality(Drowsy) - 1
        BY <4>1, <2>f, FS_RemoveElement
      <4> QED
        BY <2>4, <3>1, <4>2, <2>f DEF Recheck, FindAndDiscard
    <3>2. CASE FindNothing(w)
      <4>1. Drowsy' = Drowsy
        BY <2>4, <3>2, <2>m, <2>p DEF Recheck, FindNothing
      <4> QED
        BY <2>4, <3>2, <4>1 DEF Recheck, FindNothing
    <3> QED
      BY <2>4, <3>1, <3>2 DEF Recheck
  <2>5. ASSUME NEW w \in Workers, WaitOrLeave(w) PROVE ActiveCount'
    <3>1. CASE shutdown
      <4>1. w \in Drowsy /\ Drowsy' = Drowsy \ {w}
        BY <2>5, <3>1, <2>m, <2>p DEF WaitOrLeave
      <4>2. Cardinality(Drowsy') = Cardinality(Drowsy) - 1
        BY <4>1, <2>f, FS_RemoveElement
      <4> QED
        BY <2>5, <3>1, <4>2, <2>f DEF WaitOrLeave
    <3>2. CASE ~shutdown
      <4>1. Drowsy' = Drowsy
        BY <2>5, <3>2, <2>m, <2>p DEF WaitOrLeave
      <4> QED
        BY <2>5, <3>2, <4>1 DEF WaitOrLeave
    <3> QED
      BY <3>1, <3>2
  <2>6. ASSUME NEW w \in Workers, Reacquire(w) PROVE ActiveCount'
    <3>1. Drowsy' = Drowsy
      BY <2>6, <2>m, <2>p DEF Reacquire
    <3> QED
      BY <2>6, <3>1 DEF Reacquire
  <2>7. ASSUME NEW w \in Workers, Woken(w) PROVE ActiveCount'
    <3>1. CASE FindAndDiscard(w)
      <4>1. w \in Drowsy /\ Drowsy' = Drowsy \ {w}
        BY <2>7, <3>1, <2>m, <2>p DEF Woken, FindAndDiscard
      <4>2. Cardinality(Drowsy') = Cardinality(Drowsy) - 1
        BY <4>1, <2>f, FS_RemoveElement
      <4> QED
        BY <2>7, <3>1, <4>2, <2>f DEF Woken, FindAndDiscard
    <3>2. CASE FindNothing(w)
      <4>1. Drowsy' = Drowsy
        BY <2>7, <3>2, <2>m, <2>p DEF Woken, FindNothing
      <4> QED
        BY <2>7, <3>2, <4>1 DEF Woken, FindNothing
    <3> QED
      BY <2>7, <3>1, <3>2 DEF Woken
  <2>8. ASSUME NEW w \in Workers, SpuriousWakeup(w) PROVE ActiveCount'
    <3>1. Drowsy' = Drowsy
      BY <2>8, <2>m, <2>p DEF SpuriousWakeup
    <3> QED
      BY <2>8, <3>1 DEF SpuriousWakeup
  <2>9. ASSUME NEW th \in Threads, NotifyOne(th) PROVE ActiveCount'
    <3>1. Drowsy' = Drowsy
      BY <2>9, <2>m, <2>p DEF NotifyOne
    <3> QED
      BY <2>9, <3>1 DEF NotifyOne
  <2>10. ASSUME NEW th \in Threads, UnparkOne(th) PROVE ActiveCount'
    <3>1. Drowsy' = Drowsy
      BY <2>10, <2>m, <2>p DEF UnparkOne
    <3> QED
      BY <2>10, <3>1 DEF UnparkOne
  <2>11. ASSUME NEW th \in Threads, FinishTask(th) PROVE ActiveCount'
    <3>1. Drowsy' = Drowsy
      BY <2>11, <2>m, <2>p DEF FinishTask, AfterRun
    <3> QED
      BY <2>11, <3>1 DEF FinishTask
  <2>11j. ASSUME NEW th \in Threads, JoinTake(th) PROVE ActiveCount'
    <3>1. Drowsy' = Drowsy
      BY <2>11j, <2>m, <2>p DEF JoinTake, AfterRun
    <3> QED
      BY <2>11j, <3>1 DEF JoinTake
  <2>12. ASSUME NEW th \in Threads, UnparkSwap(th) PROVE ActiveCount'
    <3>1. Drowsy' = Drowsy
      BY <2>12, <2>m, <2>p DEF UnparkSwap, ResumeAt, AfterRun
    <3> QED
      BY <2>12, <3>1 DEF UnparkSwap
  <2>13. ASSUME NEW th \in Threads, UnparkToken(th) PROVE ActiveCount'
    <3>1. Drowsy' = Drowsy
      BY <2>13, <2>m, <2>p DEF UnparkToken, ResumeAt, AfterRun
    <3> QED
      BY <2>13, <3>1 DEF UnparkToken
  <2>14. ASSUME NEW th \in Threads, TaskNudges(th) PROVE ActiveCount'
    <3>1. Drowsy' = Drowsy
      BY <2>14, <2>m, <2>p DEF TaskNudges
    <3> QED
      BY <2>14, <3>1 DEF TaskNudges
  <2>14p. ASSUME NEW th \in Threads, TaskPanics(th) PROVE ActiveCount'
    <3>1. Drowsy' = Drowsy
      BY <2>14p, <2>m, <2>p DEF TaskPanics
    <3> QED
      BY <2>14p, <3>1 DEF TaskPanics
  <2>15. ASSUME NEW th \in Threads, NEW t \in Tasks, pc[th] \in {"idle", "running"}, Push(th, t)
         PROVE ActiveCount'
    <3>1. Drowsy' = Drowsy
      BY <2>15, <2>m, <2>p DEF Push
    <3> QED
      BY <2>15, <3>1 DEF Push
  <2>15o. ASSUME NEW th \in Spawners, OutsiderRuns(th) PROVE ActiveCount'
    <3>1. Drowsy' = Drowsy
      BY <2>15o, <2>m, <2>p DEF OutsiderRuns
    <3> QED
      BY <2>15o, <3>1 DEF OutsiderRuns
  <2>16. CASE PollRoot
    <3>1. \E l \in {"returned", "register"} : pc' = [pc EXCEPT ![Main] = l]
      BY <2>16 DEF PollRoot
    <3>2. Drowsy' = Drowsy
      BY <2>16, <3>1, <2>m, <2>p DEF PollRoot
    <3> QED
      BY <2>16, <3>2 DEF PollRoot
  <2>16r. CASE RegisterRoot
    <3>1. Drowsy' = Drowsy
      BY <2>16r, <2>m, <2>p DEF RegisterRoot
    <3> QED
      BY <2>16r, <3>1 DEF RegisterRoot
  <2>16s. CASE StoreRoot
    <3>1. Drowsy' = Drowsy
      BY <2>16s, <2>m, <2>p DEF StoreRoot
    <3> QED
      BY <2>16s, <3>1 DEF StoreRoot
  <2>17. CASE HelpOrIdle
    <3>1. \E l \in {"running", "idle_check"} : pc' = [pc EXCEPT ![Main] = l]
      BY <2>17 DEF HelpOrIdle
    <3>2. Drowsy' = Drowsy
      BY <2>17, <3>1, <2>m, <2>p DEF HelpOrIdle
    <3> QED
      BY <2>17, <3>2 DEF HelpOrIdle
  <2>18. CASE IdleCheck
    <3>1. Drowsy' = Drowsy
      BY <2>18, <2>m, <2>p DEF IdleCheck
    <3> QED
      BY <2>18, <3>1 DEF IdleCheck
  <2>19. CASE ParkSwap
    <3>1. Drowsy' = Drowsy
      BY <2>19, <2>m, <2>p DEF ParkSwap
    <3> QED
      BY <2>19, <3>1 DEF ParkSwap
  <2>20. CASE ParkThread
    <3>1. Drowsy' = Drowsy
      BY <2>20, <2>m, <2>p DEF ParkThread
    <3> QED
      BY <2>20, <3>1 DEF ParkThread
  <2>21. CASE StartBlockOn
    <3>1. Drowsy' = Drowsy
      BY <2>21, <2>m, <2>p DEF StartBlockOn
    <3> QED
      BY <2>21, <3>1 DEF StartBlockOn
  <2>22. CASE ShutdownStore
    <3>1. Drowsy' = Drowsy
      BY <2>22, <2>m, <2>p DEF ShutdownStore
    <3> QED
      BY <2>22, <3>1 DEF ShutdownStore
  <2>23. CASE ShutdownNotifyAll
    <3>1. Drowsy' = Drowsy
      BY <2>23, <2>m, <2>p DEF ShutdownNotifyAll
    <3> QED
      BY <2>23, <3>1 DEF ShutdownNotifyAll
  <2>24. CASE ShutdownUnparkAll
    <3>1. Drowsy' = Drowsy
      BY <2>24, <2>m, <2>p DEF ShutdownUnparkAll
    <3> QED
      BY <2>24, <3>1 DEF ShutdownUnparkAll
  <2>25. CASE ShutdownJoin
    <3>1. Drowsy' = Drowsy
      BY <2>25, <2>m, <2>p DEF ShutdownJoin
    <3> QED
      BY <2>25, <3>1 DEF ShutdownJoin
  <2>26. CASE UNCHANGED vars
    <3>1. Drowsy' = Drowsy
      BY <2>26 DEF vars
    <3> QED
      BY <2>26, <3>1 DEF vars
  <2> HIDE DEF ActiveCount, Drowsy
  <2> QED
    BY <2>1, <2>2, <2>3, <2>4, <2>5, <2>6, <2>7, <2>8, <2>9, <2>10, <2>11, <2>11j, <2>12, <2>13,
       <2>14, <2>14p, <2>15, <2>15o, <2>16, <2>16r, <2>16s, <2>17, <2>18, <2>19, <2>20, <2>21, <2>22, <2>23, <2>24, <2>25, <2>26, NextCases
<1>3. QED
  BY <1>1, <1>2, TypesKept, PTL DEF Spec

\* Type correctness: Shared::active, a usize, never wraps around.
THEOREM TypeCorrect == Spec => []TypeOK
<1>1. StateTypes /\ ActiveCount => TypeOK
  <2> SUFFICES ASSUME StateTypes, ActiveCount PROVE active \in 0..Cardinality(Workers)
    BY DEF TypeOK
  <2>1. Drowsy \subseteq Workers
    BY DEF Drowsy
  <2>2. Cardinality(Workers) \in Nat /\ Cardinality(Drowsy) \in Nat
        /\ Cardinality(Drowsy) <= Cardinality(Workers)
    BY <2>1, ThreadsAssumption, FS_Subset, FS_CardinalityType
  <2> QED
    BY <2>2 DEF ActiveCount
<1>2. QED
  BY <1>1, TypesKept, SleepersAreCounted, PTL
-----------------------------------------------------------------------------
(* Where tasks are: OnePlace, and the refinement of Executor.  Every step  *)
(* is one of five kinds as far as tasks are concerned.                     *)

Still == UNCHANGED <<injector, held, spawned, ran, discarded, failed>>

Takes(th) ==
    /\ held[th] = NoTask
    /\ StealHead
    /\ held' = [held EXCEPT ![th] = Head(injector)]
    /\ UNCHANGED <<spawned, ran, discarded, failed>>

Drops ==
    /\ StealHead
    /\ discarded' = discarded \cup {Head(injector)}
    /\ UNCHANGED <<held, spawned, ran, failed>>

Ends(th) ==
    /\ held[th] # NoTask
    /\ held' = [held EXCEPT ![th] = NoTask]
    /\ \/ ran' = ran \cup {held[th]} /\ failed' = failed
       \/ failed' = failed \cup {held[th]} /\ ran' = ran
    /\ UNCHANGED <<injector, spawned, discarded>>

Pushes(t) ==
    /\ t \notin spawned
    /\ spawned' = spawned \cup {t}
    /\ injector' = Append(injector, t)
    /\ UNCHANGED <<held, ran, discarded, failed>>

LEMMA StepKinds ==
    ASSUME StateTypes, HeldInv, [Next]_vars
    PROVE  \/ Still
           \/ \E th \in Threads : Takes(th) \/ Ends(th)
           \/ Drops
           \/ \E t \in Tasks : Pushes(t)
<1> DEFINE Goal == \/ Still
                   \/ \E th \in Threads : Takes(th) \/ Ends(th)
                   \/ Drops
                   \/ \E t \in Tasks : Pushes(t)
<1> SUFFICES Goal
  OBVIOUS
<1>m. Main \in Threads /\ Workers \subseteq Threads
  BY DEF Threads
<1>1. ASSUME NEW w \in Workers, CheckShutdown(w) PROVE Goal
  BY <1>1 DEF CheckShutdown, Still
<1>2. ASSUME NEW w \in Workers, Scan(w) PROVE Goal
  <2>1. CASE StealHead /\ held' = [held EXCEPT ![w] = Head(injector)]
    <3>1. held[w] = NoTask
      BY <1>2, <1>m DEF Scan, HeldInv, Busy
    <3> QED
      BY <1>2, <1>m, <2>1, <3>1 DEF Scan, Takes
  <2>2. CASE StealNone /\ UNCHANGED held
    BY <1>2, <2>2 DEF Scan, StealNone, Still
  <2> QED
    BY <1>2, <2>1, <2>2 DEF Scan
<1>3. ASSUME NEW w \in Workers, LockToSleep(w) PROVE Goal
  BY <1>3 DEF LockToSleep, Still
<1>4. ASSUME NEW w \in Workers, Recheck(w) \/ Woken(w) PROVE Goal
  <2>1. CASE FindAndDiscard(w)
    BY <1>4, <2>1 DEF Recheck, Woken, FindAndDiscard, Drops
  <2>2. CASE FindNothing(w)
    BY <1>4, <2>2 DEF Recheck, Woken, FindNothing, StealNone, Still
  <2> QED
    BY <1>4, <2>1, <2>2 DEF Recheck, Woken
<1>5. ASSUME NEW w \in Workers, WaitOrLeave(w) \/ Reacquire(w) \/ SpuriousWakeup(w) PROVE Goal
  BY <1>5 DEF WaitOrLeave, Reacquire, SpuriousWakeup, Still
<1>6. ASSUME NEW th \in Threads,
             NotifyOne(th) \/ UnparkOne(th) \/ JoinTake(th) \/ UnparkSwap(th) \/ UnparkToken(th)
             \/ TaskNudges(th)
      PROVE  Goal
  BY <1>6 DEF NotifyOne, UnparkOne, JoinTake, UnparkSwap, UnparkToken, TaskNudges, Still
<1>7. ASSUME NEW th \in Threads, FinishTask(th) \/ TaskPanics(th) PROVE Goal
  <2>1. held[th] # NoTask
    BY <1>7 DEF FinishTask, TaskPanics, HeldInv
  <2> QED
    BY <1>7, <2>1 DEF FinishTask, TaskPanics, Ends
<1>8. ASSUME NEW th \in Threads, NEW t \in Tasks, Push(th, t) PROVE Goal
  BY <1>8 DEF Push, Pushes
<1>8o. ASSUME NEW th \in Spawners, OutsiderRuns(th) PROVE Goal
  <2>1. th \in Threads /\ held[th] = NoTask
    BY <1>8o DEF OutsiderRuns, HeldInv, Busy, Threads
  <2> QED
    BY <1>8o, <2>1 DEF OutsiderRuns, Takes
<1>9. CASE HelpOrIdle
  <2>1. CASE StealHead /\ held' = [held EXCEPT ![Main] = Head(injector)]
    <3>1. held[Main] = NoTask
      BY <1>9, <1>m DEF HelpOrIdle, HeldInv, Busy
    <3> QED
      BY <1>9, <1>m, <2>1, <3>1 DEF HelpOrIdle, Takes
  <2>2. CASE StealNone /\ UNCHANGED held
    BY <1>9, <2>2 DEF HelpOrIdle, StealNone, Still
  <2> QED
    BY <1>9, <2>1, <2>2 DEF HelpOrIdle
<1>10. CASE PollRoot \/ RegisterRoot \/ StoreRoot \/ IdleCheck \/ ParkSwap \/ ParkThread \/ StartBlockOn
  BY <1>10 DEF PollRoot, RegisterRoot, StoreRoot, IdleCheck, ParkSwap, ParkThread, StartBlockOn, Still
<1>11. CASE ShutdownStore \/ ShutdownNotifyAll \/ ShutdownUnparkAll \/ ShutdownJoin
  BY <1>11 DEF ShutdownStore, ShutdownNotifyAll, ShutdownUnparkAll, ShutdownJoin, Still
<1>12. CASE UNCHANGED vars
  BY <1>12 DEF vars, Still
<1> HIDE DEF Goal
<1>13. ASSUME NEW w \in Workers,
              CheckShutdown(w) \/ Scan(w) \/ LockToSleep(w) \/ Recheck(w) \/ WaitOrLeave(w)
              \/ Reacquire(w) \/ Woken(w) \/ SpuriousWakeup(w)
       PROVE  Goal
  BY <1>1, <1>2, <1>3, <1>4, <1>5, <1>13
<1>14. ASSUME NEW th \in Threads,
              NotifyOne(th) \/ UnparkOne(th) \/ FinishTask(th) \/ JoinTake(th) \/ UnparkSwap(th)
              \/ UnparkToken(th) \/ TaskNudges(th) \/ TaskPanics(th)
       PROVE  Goal
  BY <1>6, <1>7, <1>14
<1>15. Next => Goal
  BY <1>8, <1>8o, <1>9, <1>10, <1>11, <1>13, <1>14, NextCases
<1> QED
  BY <1>12, <1>15

\* The entries of a queue are distinct.
NoRepeat(q) == \A i, j \in 1..Len(q) : q[i] = q[j] => i = j
Entries(q) == {q[i] : i \in 1..Len(q)}

LEMMA AfterTail ==
    ASSUME NEW S, NEW q \in Seq(S), q # <<>>, NoRepeat(q)
    PROVE  /\ NoRepeat(Tail(q))
           /\ Head(q) \in Entries(q)
           /\ Entries(Tail(q)) = Entries(q) \ {Head(q)}
<1>1. /\ Len(q) \in Nat /\ Len(q) >= 1 /\ Len(Tail(q)) = Len(q) - 1
      /\ Head(q) = q[1]
      /\ \A i \in 1..Len(Tail(q)) : Tail(q)[i] = q[i + 1]
  BY HeadTailProperties, EmptySeq
<1>2. NoRepeat(Tail(q))
  BY <1>1 DEF NoRepeat
<1>3. Head(q) \in Entries(q)
  BY <1>1 DEF Entries
<1>4. Entries(Tail(q)) \subseteq Entries(q) \ {Head(q)}
  <2> SUFFICES ASSUME NEW i \in 1..Len(Tail(q)) PROVE Tail(q)[i] \in Entries(q) \ {Head(q)}
    BY DEF Entries
  <2>1. i + 1 \in 1..Len(q) /\ 1 \in 1..Len(q) /\ i + 1 # 1 /\ Tail(q)[i] = q[i + 1]
    BY <1>1
  <2> QED
    BY <1>1, <2>1 DEF Entries, NoRepeat
<1>5. Entries(q) \ {Head(q)} \subseteq Entries(Tail(q))
  <2> SUFFICES ASSUME NEW j \in 1..Len(q), q[j] # Head(q) PROVE q[j] \in Entries(Tail(q))
    BY DEF Entries
  <2>1. j - 1 \in 1..Len(Tail(q)) /\ Tail(q)[j - 1] = q[(j - 1) + 1] /\ (j - 1) + 1 = j
    BY <1>1
  <2> QED
    BY <2>1 DEF Entries
<1> QED
  BY <1>2, <1>3, <1>4, <1>5

LEMMA AfterAppend ==
    ASSUME NEW S, NEW q \in Seq(S), NEW t \in S, t \notin Entries(q), NoRepeat(q)
    PROVE  NoRepeat(Append(q, t)) /\ Entries(Append(q, t)) = Entries(q) \cup {t}
<1> DEFINE r == Append(q, t)
<1>1. /\ Len(q) \in Nat /\ Len(r) = Len(q) + 1 /\ r[Len(q) + 1] = t
      /\ \A i \in 1..Len(q) : r[i] = q[i]
  BY AppendProperties, LenProperties
<1> HIDE DEF r
<1>2. \A i \in 1..Len(r) : i \in 1..Len(q) \/ i = Len(q) + 1
  BY <1>1
<1>3. \A i \in 1..Len(q) : i \in 1..Len(r) /\ q[i] # t
  BY <1>1 DEF Entries
<1>4. NoRepeat(r)
  BY <1>1, <1>2, <1>3 DEF NoRepeat
<1>5. Entries(r) = Entries(q) \cup {t}
  <2>1. Len(q) + 1 \in 1..Len(r)
    BY <1>1
  <2> QED
    BY <1>1, <1>2, <1>3, <2>1 DEF Entries
<1> QED
  BY <1>4, <1>5 DEF r

\* What each kind of step does to the set of running tasks.
LEMMA RunningAfterTake ==
    ASSUME StateTypes, NEW th \in Threads, NEW t \in Tasks, held[th] = NoTask,
           held' = [held EXCEPT ![th] = t]
    PROVE  Running' = Running \cup {t}
<1>1. held \in [Threads -> Tasks \cup {NoTask}] /\ t # NoTask
  BY TasksAssumption DEF StateTypes
<1>2. held'[th] = t /\ \A o \in Threads : o # th => held'[o] = held[o]
  BY <1>1
<1> QED
  BY <1>1, <1>2 DEF Running

LEMMA RunningAfterEnd ==
    ASSUME StateTypes, OnePlace, NEW th \in Threads, held[th] # NoTask,
           held' = [held EXCEPT ![th] = NoTask]
    PROVE  /\ held[th] \in Running
           /\ Running' = Running \ {held[th]}
<1>1. held \in [Threads -> Tasks \cup {NoTask}]
  BY DEF StateTypes
<1>2. held'[th] = NoTask /\ \A o \in Threads : o # th => held'[o] = held[o]
  BY <1>1
<1>3. \A o \in Threads : o # th => held[o] # held[th]
  BY DEF OnePlace
<1> QED
  BY <1>2, <1>3 DEF Running

\* No task is in two places, and none is lost without a trace.
THEOREM OneOwner == Spec => []OnePlace
<1>1. Init => OnePlace
  BY DEF Init, OnePlace, Queued, Running
<1>2. StateTypes /\ HeldInv /\ OnePlace /\ [Next]_vars => OnePlace'
  <2> SUFFICES ASSUME StateTypes, HeldInv, OnePlace, [Next]_vars PROVE OnePlace'
    OBVIOUS
  <2>t. held \in [Threads -> Tasks \cup {NoTask}] /\ injector \in Seq(Tasks)
    BY DEF StateTypes
  <2>q. NoRepeat(injector) /\ Queued = Entries(injector) /\ Queued' = Entries(injector')
    BY DEF OnePlace, NoRepeat, Queued, Entries
  <2>o. /\ \A a, b \in Threads : held[a] = held[b] /\ held[a] # NoTask => a = b
        /\ spawned = Queued \cup Running \cup ran \cup discarded \cup failed
        /\ Queued \cap (Running \cup ran \cup discarded \cup failed) = {}
        /\ Running \cap (ran \cup discarded \cup failed) = {}
    BY DEF OnePlace
  <2>g. ASSUME NoRepeat(injector'),
               \A a, b \in Threads : held'[a] = held'[b] /\ held'[a] # NoTask => a = b,
               spawned' = Queued' \cup Running' \cup ran' \cup discarded' \cup failed',
               Queued' \cap (Running' \cup ran' \cup discarded' \cup failed') = {},
               Running' \cap (ran' \cup discarded' \cup failed') = {}
        PROVE  OnePlace'
    BY <2>g DEF OnePlace, NoRepeat
  <2>1. CASE Still
    BY <2>1 DEF Still, OnePlace, Queued, Running
  <2>2. ASSUME NEW th \in Threads, Takes(th) PROVE OnePlace'
    <3>1. /\ injector # <<>> /\ Head(injector) \in Tasks /\ Head(injector) # NoTask
          /\ injector' = Tail(injector)
      BY <2>2, <2>t, HeadTailProperties, TasksAssumption DEF Takes, StealHead
    <3>2. NoRepeat(injector') /\ Head(injector) \in Queued /\ Queued' = Queued \ {Head(injector)}
      BY <3>1, <2>t, <2>q, AfterTail
    <3>3. Running' = Running \cup {Head(injector)}
      BY <2>2, <3>1, RunningAfterTake DEF Takes
    <3>4. \A a \in Threads : held[a] # Head(injector)
      BY <3>1, <3>2, <2>o DEF Running
    <3>5. \A a, b \in Threads : held'[a] = held'[b] /\ held'[a] # NoTask => a = b
      BY <2>2, <3>4, <2>o, <2>t DEF Takes
    <3>6. UNCHANGED <<spawned, ran, discarded, failed>>
      BY <2>2 DEF Takes
    <3> QED
      BY <3>2, <3>3, <3>5, <3>6, <2>o, <2>g
  <2>3. ASSUME NEW th \in Threads, Ends(th) PROVE OnePlace'
    <3>1. held[th] \in Running /\ Running' = Running \ {held[th]}
      BY <2>3, RunningAfterEnd DEF Ends
    <3>2. \A a, b \in Threads : held'[a] = held'[b] /\ held'[a] # NoTask => a = b
      BY <2>3, <2>o, <2>t DEF Ends
    <3>3. NoRepeat(injector') /\ Queued' = Queued
      BY <2>3, <2>q DEF Ends
    <3>4. /\ ran' \cup failed' = ran \cup failed \cup {held[th]}
          /\ spawned' = spawned /\ discarded' = discarded
      BY <2>3 DEF Ends
    <3> QED
      BY <3>1, <3>2, <3>3, <3>4, <2>o, <2>g
  <2>4. CASE Drops
    <3>1. /\ injector # <<>> /\ injector' = Tail(injector)
      BY <2>4 DEF Drops, StealHead
    <3>2. NoRepeat(injector') /\ Head(injector) \in Queued /\ Queued' = Queued \ {Head(injector)}
      BY <3>1, <2>t, <2>q, AfterTail
    <3>3. held' = held /\ Running' = Running
      BY <2>4 DEF Drops, Running
    <3>4. discarded' = discarded \cup {Head(injector)} /\ UNCHANGED <<spawned, ran, failed>>
      BY <2>4 DEF Drops
    <3> QED
      BY <3>2, <3>3, <3>4, <2>o, <2>g
  <2>5. ASSUME NEW t \in Tasks, Pushes(t) PROVE OnePlace'
    <3>1. t \notin Queued \cup Running \cup ran \cup discarded \cup failed
      BY <2>5, <2>o DEF Pushes
    <3>2. NoRepeat(injector') /\ Queued' = Queued \cup {t}
      BY <2>5, <3>1, <2>t, <2>q, AfterAppend DEF Pushes
    <3>3. held' = held /\ Running' = Running
      BY <2>5 DEF Pushes, Running
    <3>4. spawned' = spawned \cup {t} /\ UNCHANGED <<ran, discarded, failed>>
      BY <2>5 DEF Pushes
    <3> QED
      BY <3>1, <3>2, <3>3, <3>4, <2>o, <2>g
  <2> QED
    BY <2>1, <2>2, <2>3, <2>4, <2>5, StepKinds
<1>3. QED
  BY <1>1, <1>2, TypesKept, PTL DEF Spec

\* The scheduler implements Executor: each kind of step is a step of it.
THEOREM ExecutorImplemented == Spec => ImplementsExecutor
<1>1. Init => Exec!Init
  BY DEF Init, Exec!Init, Running
<1>2. StateTypes /\ HeldInv /\ OnePlace /\ [Next]_vars => [Exec!Next]_Exec!vars
  <2> SUFFICES ASSUME StateTypes, HeldInv, OnePlace, [Next]_vars PROVE [Exec!Next]_Exec!vars
    OBVIOUS
  <2>t. held \in [Threads -> Tasks \cup {NoTask}] /\ injector \in Seq(Tasks)
    BY DEF StateTypes
  <2>1. CASE Still
    BY <2>1 DEF Still, Running, Exec!vars
  <2>2. ASSUME NEW th \in Threads, Takes(th) PROVE Exec!Take
    <3>1. Head(injector) \in Tasks
      BY <2>2, <2>t, HeadTailProperties DEF Takes, StealHead
    <3>2. Running' = Running \cup {Head(injector)}
      BY <2>2, <3>1, RunningAfterTake DEF Takes
    <3> QED
      BY <2>2, <3>2 DEF Takes, StealHead, Exec!Take
  <2>3. ASSUME NEW th \in Threads, Ends(th) PROVE Exec!Next
    <3>1. held[th] \in Running /\ Running' = Running \ {held[th]} /\ held[th] \in Tasks
      BY <2>3, <2>t, RunningAfterEnd DEF Ends
    <3>2. Exec!Finish(held[th]) \/ Exec!Fail(held[th])
      BY <2>3, <3>1 DEF Ends, Exec!Finish, Exec!Fail
    <3> QED
      BY <3>1, <3>2 DEF Exec!Next
  <2>4. ASSUME Drops PROVE Exec!Drop
    BY <2>4 DEF Drops, StealHead, Running, Exec!Drop
  <2>5. ASSUME NEW t \in Tasks, Pushes(t) PROVE Exec!Submit(t)
    BY <2>5 DEF Pushes, Running, OnePlace, Queued, Exec!Submit, Exec!Queued
  <2> QED
    BY <2>1, <2>2, <2>3, <2>4, <2>5, StepKinds DEF Exec!Next
<1>3. QED
  BY <1>1, <1>2, TypesKept, OneOwner, PTL DEF Spec, ImplementsExecutor, Exec!Spec

\* shutdown() holds the unparkers lock while it joins, and returns to a runtime
\* without workers.
QuietInv ==
    /\ unparkers = IF pc[Main] = "sd_join" THEN Main ELSE NoThread
    /\ pc[Main] = "closed" => \A w \in Workers : pc[w] \in {"exited", "dead"}

\* After shutdown() the pool and the owner run no task and the lock is free, for any
\* number of workers; a thread outside the pool may still run one.
THEOREM ShutdownIsQuiet == Spec => []QuietAfterShutdown
<1>m. Main \in Threads /\ Main \notin Workers /\ Main \notin Spawners /\ Spawners \subseteq Threads
      /\ Workers \subseteq Threads /\ Workers \cap Spawners = {} /\ NoThread \notin Threads
  BY ThreadsAssumption DEF Threads
<1>1. Init => QuietInv
  BY <1>m DEF Init, QuietInv
<1>2. StateTypes /\ QuietInv /\ [Next]_vars => QuietInv'
  <2> SUFFICES ASSUME StateTypes, QuietInv, [Next]_vars PROVE QuietInv'
    OBVIOUS
  <2>p. pc \in [Threads -> Labels] /\ held \in [Threads -> Tasks \cup {NoTask}]
    BY DEF StateTypes
  <2> USE DEF QuietInv
  <2>1. ASSUME NEW w \in Workers, CheckShutdown(w) PROVE QuietInv'
    BY <2>1, <1>m, <2>p DEF CheckShutdown
  <2>2. ASSUME NEW w \in Workers, Scan(w) PROVE QuietInv'
    BY <2>2, <1>m, <2>p DEF Scan
  <2>3. ASSUME NEW w \in Workers, LockToSleep(w) PROVE QuietInv'
    BY <2>3, <1>m, <2>p DEF LockToSleep
  <2>4. ASSUME NEW w \in Workers, Recheck(w) \/ Woken(w) PROVE QuietInv'
    BY <2>4, <1>m, <2>p DEF Recheck, Woken, FindAndDiscard, FindNothing
  <2>5. ASSUME NEW w \in Workers, WaitOrLeave(w) PROVE QuietInv'
    BY <2>5, <1>m, <2>p DEF WaitOrLeave
  <2>6. ASSUME NEW w \in Workers, Reacquire(w) \/ SpuriousWakeup(w) PROVE QuietInv'
    BY <2>6, <1>m, <2>p DEF Reacquire, SpuriousWakeup
  <2>7. ASSUME NEW th \in Threads, NotifyOne(th) \/ UnparkOne(th) PROVE QuietInv'
    BY <2>7, <1>m, <2>p DEF NotifyOne, UnparkOne
  <2>8. ASSUME NEW th \in Threads, FinishTask(th) PROVE QuietInv'
    BY <2>8, <1>m, <2>p DEF FinishTask, AfterRun
  <2>8j. ASSUME NEW th \in Threads, JoinTake(th) PROVE QuietInv'
    BY <2>8j, <1>m, <2>p DEF JoinTake, AfterRun
  <2>9. ASSUME NEW th \in Threads, UnparkSwap(th) \/ UnparkToken(th) PROVE QuietInv'
    BY <2>9, <1>m, <2>p DEF UnparkSwap, UnparkToken, ResumeAt, AfterRun
  <2>10. ASSUME NEW th \in Threads, TaskNudges(th) \/ TaskPanics(th) PROVE QuietInv'
    BY <2>10, <1>m, <2>p DEF TaskNudges, TaskPanics
  <2>11. ASSUME NEW th \in Threads, NEW t \in Tasks, pc[th] \in {"idle", "running"}, Push(th, t)
         PROVE  QuietInv'
    BY <2>11, <1>m, <2>p DEF Push
  <2>11o. ASSUME NEW th \in Spawners, OutsiderRuns(th) PROVE QuietInv'
    BY <2>11o, <1>m, <2>p DEF OutsiderRuns
  <2>12r. CASE RegisterRoot \/ StoreRoot
    BY <2>12r, <1>m, <2>p DEF RegisterRoot, StoreRoot
  <2>12. CASE PollRoot \/ HelpOrIdle \/ IdleCheck \/ ParkSwap \/ ParkThread \/ StartBlockOn
    BY <2>12, <1>m, <2>p DEF PollRoot, HelpOrIdle, IdleCheck, ParkSwap, ParkThread, StartBlockOn
  <2>13. CASE ShutdownStore \/ ShutdownNotifyAll \/ ShutdownUnparkAll \/ ShutdownJoin
    BY <2>13, <1>m, <2>p DEF ShutdownStore, ShutdownNotifyAll, ShutdownUnparkAll, ShutdownJoin
  <2>14. CASE UNCHANGED vars
    BY <2>14 DEF vars
  <2> HIDE DEF QuietInv
  <2> QED
    BY <2>1, <2>2, <2>3, <2>4, <2>5, <2>6, <2>7, <2>8, <2>8j, <2>9, <2>10, <2>11, <2>11o, <2>12r,
       <2>12, <2>13, <2>14, NextCases
<1>3. HeldInv /\ QuietInv => QuietAfterShutdown
  <2> SUFFICES ASSUME HeldInv, QuietInv, pc[Main] = "closed"
               PROVE  Running \subseteq {held[th] : th \in Spawners} /\ unparkers = NoThread
    BY DEF QuietAfterShutdown
  <2>1. ASSUME NEW th \in Workers \cup {Main} PROVE held[th] = NoTask
    BY <1>m DEF QuietInv, HeldInv, Busy
  <2> QED
    BY <2>1 DEF QuietInv, Running, Threads
<1>4. QED
  BY <1>1, <1>2, <1>3, TypesKept, PTL DEF Spec

\* The parker of block_on implements the permit specification.
THEOREM RootPermitKept == Spec => RootParkerKeepsPermit
<1>m. /\ Main \in Threads /\ Main \notin Workers /\ Main \notin Spawners
      /\ Spawners \subseteq Threads
  BY ThreadsAssumption DEF Threads
<1> USE DEF RootPermit!Park, RootPermit!Unpark, RootPermit!Return
<1> DEFINE Kept == [RootPermit!Next]_<<unparked, pc[Main] \in {"park_swap", "park_thread"}>>
<1>1. Init => RootPermit!Init
  BY <1>m DEF Init, RootPermit!Init
<1>2. StateTypes /\ [Next]_vars => Kept
  <2> SUFFICES ASSUME StateTypes, [Next]_vars PROVE Kept
    OBVIOUS
  <2>p. pc \in [Threads -> Labels] /\ unparked \in BOOLEAN
    BY DEF StateTypes
  <2> DEFINE Same == /\ unparked' = unparked
                     /\ pc'[Main] \in {"park_swap", "park_thread"} <=> pc[Main] \in {"park_swap", "park_thread"}
  <2>s. Same => Kept
    OBVIOUS
  <2>1. ASSUME NEW w \in Workers,
               CheckShutdown(w) \/ Scan(w) \/ LockToSleep(w) \/ Recheck(w)
               \/ WaitOrLeave(w) \/ Reacquire(w) \/ Woken(w) \/ SpuriousWakeup(w)
        PROVE  Kept
    BY <2>1, <2>p, <1>m DEF CheckShutdown, Scan, LockToSleep, Recheck, WaitOrLeave, Reacquire, Woken,
         SpuriousWakeup, FindAndDiscard, FindNothing
  <2>2. ASSUME NEW th \in Threads, NotifyOne(th) \/ UnparkOne(th) PROVE Same
    BY <2>2, <2>p, <1>m DEF NotifyOne, UnparkOne
  <2>3. ASSUME NEW th \in Threads, FinishTask(th) PROVE Same
    BY <2>3, <2>p, <1>m DEF FinishTask, AfterRun
  <2>3j. ASSUME NEW th \in Threads, JoinTake(th) PROVE Same
    BY <2>3j, <2>p, <1>m DEF JoinTake, AfterRun
  <2>4. ASSUME NEW th \in Threads, UnparkSwap(th) PROVE Kept
    <3>1. unparked' = TRUE
      BY <2>4 DEF UnparkSwap
    <3>2. UNCHANGED (pc[Main] \in {"park_swap", "park_thread"})
      BY <2>4, <2>p, <1>m DEF UnparkSwap, ResumeAt, AfterRun
    <3> QED
      BY <3>1, <3>2 DEF RootPermit!Next
  <2>5. ASSUME NEW th \in Threads, UnparkToken(th) PROVE Same
    BY <2>5, <2>p, <1>m DEF UnparkToken, ResumeAt, AfterRun
  <2>6. ASSUME NEW th \in Threads, TaskNudges(th) \/ TaskPanics(th) PROVE Same
    BY <2>6, <2>p, <1>m DEF TaskNudges, TaskPanics
  <2>7. ASSUME NEW th \in Threads, NEW t \in Tasks, pc[th] \in {"idle", "running"}, Push(th, t)
        PROVE  Same
    BY <2>7, <2>p, <1>m DEF Push
  <2>7o. ASSUME NEW th \in Spawners, OutsiderRuns(th) PROVE Same
    BY <2>7o, <2>p, <1>m DEF OutsiderRuns
  <2>8r. CASE RegisterRoot \/ StoreRoot
    BY <2>8r, <2>p, <1>m DEF RegisterRoot, StoreRoot
  <2>8. CASE PollRoot \/ HelpOrIdle \/ StartBlockOn \/ ParkThread
    BY <2>8, <2>p, <1>m DEF PollRoot, HelpOrIdle, StartBlockOn, ParkThread
  <2>9. CASE IdleCheck
    BY <2>9, <2>p, <1>m DEF IdleCheck, RootPermit!Next
  <2>10. CASE ParkSwap
    <3>1. CASE unparked
      <4>1. pc[Main] = "park_swap" /\ pc'[Main] = "poll" /\ unparked' = FALSE
        BY <2>10, <3>1, <2>p, <1>m DEF ParkSwap
      <4>2. RootPermit!Return
        BY <4>1
      <4> QED
        BY <4>2 DEF RootPermit!Next
    <3>2. CASE ~unparked
      <4>1. Same
        BY <2>10, <3>2, <2>p, <1>m DEF ParkSwap
      <4> QED
        BY <4>1, <2>s
    <3> QED
      BY <3>1, <3>2
  <2>11. CASE ShutdownStore \/ ShutdownNotifyAll \/ ShutdownUnparkAll \/ ShutdownJoin
    BY <2>11, <2>p, <1>m DEF ShutdownStore, ShutdownNotifyAll, ShutdownUnparkAll, ShutdownJoin
  <2>12. CASE UNCHANGED vars
    BY <2>12 DEF vars
  <2> HIDE DEF Kept, Same
  <2> QED
    BY <2>s, <2>1, <2>2, <2>3, <2>3j, <2>4, <2>5, <2>6, <2>7, <2>7o, <2>8, <2>8r, <2>9, <2>10, <2>11, <2>12, NextCases
<1>3. QED
  BY <1>1, <1>2, TypesKept, PTL DEF Spec, RootParkerKeepsPermit, RootPermit!Spec
=============================================================================
