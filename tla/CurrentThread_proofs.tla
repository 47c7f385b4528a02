-------------------------- MODULE CurrentThread_proofs --------------------------
(***************************************************************************)
(* Proofs about CurrentThread, for any number of remote threads and tasks  *)
(* and any bound on early wakeups.                                         *)
(***************************************************************************)
EXTENDS CurrentThread, SequenceTheorems, TLAPS

USE DEF Goto, CompareExchange, UnparkSelf, PushLocal, AfterPark, Completes, CompletesHere,
        Wakes, parkVars, taskVars, joinVars, rootVars, modeVars

\* Where the threads are, and that only a waiting owner is in the wait set.
Labelled ==
    /\ pc \in [Threads -> Labels]
    /\ state \in {"EMPTY", "PARKED", "NOTIFIED"}
    /\ mode \in {"none", "block_on", "turn"}
    /\ waiting => pc[Owner] = "waiting"

\* While the owner sleeps, in either kind of park, the state of its parker is
\* PARKED or NOTIFIED: the unreachable!() after the wait is not reached.
THEOREM ParkerIsSafe == Spec => [](Labelled /\ SleeperState)
<1> USE DEF Labelled, SleeperState, Parking, Labels
<1>1. Init => (Labelled /\ SleeperState)
  <2> SUFFICES ASSUME Init PROVE Labelled /\ SleeperState
    OBVIOUS
  <2>1. Owner \in Threads
    BY DEF Threads
  <2> QED
    BY <2>1 DEF Init
<1>2. (Labelled /\ SleeperState) /\ [Next]_vars => (Labelled /\ SleeperState)'
  <2> SUFFICES ASSUME (Labelled /\ SleeperState), [Next]_vars PROVE (Labelled /\ SleeperState)'
    OBVIOUS
  <2>p. /\ Owner \in Threads /\ Remotes \subseteq Threads /\ Owner \notin Remotes
        /\ Awaited \in LocalTasks /\ NoTask \notin LocalTasks
    BY CurrentThreadAssumption DEF Threads
  <2>1. CASE ParkLoad
    BY <2>1, <2>p DEF ParkLoad
  <2>2. CASE ParkTake
    <3>1. CASE state = "NOTIFIED"
      BY <2>2, <3>1, <2>p DEF ParkTake
    <3>2. CASE ~(state = "NOTIFIED")
      BY <2>2, <3>2, <2>p DEF ParkTake
    <3> QED
      BY <3>1, <3>2
  <2>3. CASE ParkCommit
    <3>1. CASE state = "EMPTY"
      BY <2>3, <3>1, <2>p DEF ParkCommit
    <3>2. CASE ~(state = "EMPTY")
      BY <2>3, <3>2, <2>p DEF ParkCommit
    <3> QED
      BY <3>1, <3>2
  <2>4. CASE ParkWait
    BY <2>4, <2>p DEF ParkWait
  <2>5. CASE SpuriousReturn
    BY <2>5, <2>p DEF SpuriousReturn
  <2>6. CASE TimeOut
    BY <2>6, <2>p DEF TimeOut
  <2>7. CASE ParkWoken
    BY <2>7, <2>p DEF ParkWoken
  <2>8. CASE ParkExpired
    <3>1. CASE state = "PARKED"
      BY <2>8, <3>1, <2>p DEF ParkExpired
    <3>2. CASE ~(state = "PARKED")
      BY <2>8, <3>2, <2>p DEF ParkExpired
    <3> QED
      BY <3>1, <3>2
  <2>9. CASE ParkReset
    BY <2>9, <2>p DEF ParkReset
  <2>10. CASE ParkSwap
    BY <2>10, <2>p DEF ParkSwap
  <2>11. CASE SpawnInTask
    <3>1. CASE borrowed
      BY <2>11, <3>1, <2>p DEF SpawnInTask
    <3>2. CASE ~(borrowed)
      BY <2>11, <3>2, <2>p DEF SpawnInTask
    <3> QED
      BY <3>1, <3>2
  <2>12. CASE RunNext
    BY <2>12, <2>p DEF RunNext
  <2>13. CASE TaskReady
    <3>1. CASE WakesRoot(held[Owner])
      BY <2>13, <3>1, <2>p DEF TaskReady
    <3>2. CASE ~(WakesRoot(held[Owner]))
      BY <2>13, <3>2, <2>p DEF TaskReady
    <3> QED
      BY <3>1, <3>2
  <2>14. CASE TaskPending
    BY <2>14, <2>p DEF TaskPending
  <2>15. CASE StartBlockOn
    BY <2>15, <2>p DEF StartBlockOn
  <2>16. CASE PollRoot
    <3>1. CASE rootReady
      BY <2>16, <3>1, <2>p DEF PollRoot
    <3>2. CASE ~(rootReady)
      BY <2>16, <3>2, <2>p DEF PollRoot
    <3> QED
      BY <3>1, <3>2
  <2>16r. CASE RegisterRoot
    BY <2>16r, <2>p DEF RegisterRoot
  <2>16s. CASE StoreRoot
    BY <2>16s, <2>p DEF StoreRoot
  <2>17. CASE DrainDone
    BY <2>17, <2>p DEF DrainDone
  <2>18. CASE TurnReturns
    BY <2>18, <2>p DEF TurnReturns
  <2>19. CASE Shutdown
    BY <2>19, <2>p DEF Shutdown
  <2>20. ASSUME NEW r \in Remotes, RemoteUnpark(r) PROVE (Labelled /\ SleeperState)'
    <3>1. CASE state = "PARKED"
      BY <2>20, <3>1, <2>p DEF RemoteUnpark
    <3>2. CASE ~(state = "PARKED")
      BY <2>20, <3>2, <2>p DEF RemoteUnpark
    <3> QED
      BY <3>1, <3>2
  <2>21. ASSUME NEW r \in Remotes, RemoteNotify(r) PROVE (Labelled /\ SleeperState)'
    BY <2>21, <2>p DEF RemoteNotify
  <2>22. ASSUME NEW r \in Remotes, RemoteReady(r) PROVE (Labelled /\ SleeperState)'
    BY <2>22, <2>p DEF RemoteReady
  <2>22j. ASSUME NEW r \in Remotes, JoinTake(r) PROVE (Labelled /\ SleeperState)'
    BY <2>22j, <2>p DEF JoinTake
  <2>23. ASSUME NEW r \in Remotes, RemotePending(r) PROVE (Labelled /\ SleeperState)'
    BY <2>23, <2>p DEF RemotePending
  <2>24. ASSUME NEW t \in LocalTasks, Spawn(t) PROVE (Labelled /\ SleeperState)'
    BY <2>24, <2>p DEF Spawn
  <2>25. ASSUME NEW t \in LocalTasks, OwnerRuns(t) PROVE (Labelled /\ SleeperState)'
    <3>1. CASE WakesRoot(t)
      BY <2>25, <3>1, <2>p DEF OwnerRuns
    <3>2. CASE ~(WakesRoot(t))
      BY <2>25, <3>2, <2>p DEF OwnerRuns
    <3> QED
      BY <3>1, <3>2
  <2>26. ASSUME NEW r \in Remotes, NEW t \in HandleTasks, HandleSpawn(r, t) PROVE (Labelled /\ SleeperState)'
    BY <2>26, <2>p DEF HandleSpawn
  <2>27. ASSUME NEW r \in Remotes, NEW t \in LocalTasks, RemoteRuns(r, t) PROVE (Labelled /\ SleeperState)'
    BY <2>27, <2>p DEF RemoteRuns
  <2>28. ASSUME NEW b \in BOOLEAN, StartTurn(b) PROVE (Labelled /\ SleeperState)'
    BY <2>28, <2>p DEF StartTurn
  <2>29. CASE UNCHANGED vars
    BY <2>29 DEF vars
  <2> HIDE DEF Labelled, SleeperState, Parking, Labels
  <2> QED
    BY <2>1, <2>2, <2>3, <2>4, <2>5, <2>6, <2>7, <2>8, <2>9, <2>10, <2>11, <2>12, <2>13, <2>14,
       <2>15, <2>16, <2>16r, <2>16s, <2>17, <2>18, <2>19, <2>20, <2>21, <2>22, <2>22j, <2>23, <2>24, <2>25, <2>26, <2>27, <2>28, <2>29
       DEF Next, OwnerStep, ParkStep, RemoteStep, Environment
<1>3. QED
  BY <1>1, <1>2, PTL DEF Spec

\* The labels from the store of the join waker to the return of park().
Awaiting == {"drain", "running"} \cup Parking

\* What the owner knows about its queue, and where the wakeup of the block_on future is:
\* in the header of the awaited task, with the thread that completed it, or in the parker.
OwnerInv ==
    /\ pc[Owner] \in Parking => queue = <<>> /\ ~borrowed
    /\ (\E r \in Remotes : pc[r] = "join_take") => rootReady
    /\ mode = "block_on" /\ pc[Owner] \in Awaiting \cup {"store_pending"} => interest
    /\ mode = "block_on" /\ pc[Owner] \in Awaiting /\ ~rootReady => joinWaker
    /\ mode = "block_on" /\ pc[Owner] \in Awaiting \cup {"store_pending"} /\ rootReady
          => \/ state = "NOTIFIED"
             \/ \E r \in Remotes : pc[r] = "unpark"
             \/ /\ \E r \in Remotes : pc[r] = "join_take"
                /\ joinWaker \/ pc[Owner] = "store_pending"
             \/ missed

\* The owner parks with an empty queue, and never forgets that its future was
\* woken.
THEOREM OwnerKeepsUp == Spec => [](ParksIdle /\ RootWakeRecorded)
<1> USE DEF OwnerInv, Awaiting, Parking
<1>1. Init => OwnerInv
  <2> SUFFICES ASSUME Init PROVE OwnerInv
    OBVIOUS
  <2>1. pc[Owner] = "out" /\ \A r \in Remotes : pc[r] # "join_take"
    BY DEF Init, Threads
  <2> QED
    BY <2>1
<1>2. Labelled /\ SleeperState /\ OwnerInv /\ [Next]_vars => OwnerInv'
  <2> SUFFICES ASSUME Labelled, SleeperState, OwnerInv, [Next]_vars PROVE OwnerInv'
    OBVIOUS
  <2>p. /\ Owner \in Threads /\ Remotes \subseteq Threads /\ Owner \notin Remotes
        /\ Awaited \in LocalTasks /\ NoTask \notin LocalTasks
    BY CurrentThreadAssumption DEF Threads
  <2>t. /\ waiting => pc[Owner] = "waiting"
        /\ pc \in [Threads -> Labels]
    BY DEF Labelled
  <2>1. CASE ParkLoad
    BY <2>1, <2>p, <2>t DEF ParkLoad
  <2>2. CASE ParkTake
    <3>1. CASE state = "NOTIFIED"
      BY <2>2, <3>1, <2>p, <2>t DEF ParkTake
    <3>2. CASE ~(state = "NOTIFIED")
      BY <2>2, <3>2, <2>p, <2>t DEF ParkTake
    <3> QED
      BY <3>1, <3>2
  <2>3. CASE ParkCommit
    <3>1. CASE state = "EMPTY"
      BY <2>3, <3>1, <2>p, <2>t DEF ParkCommit
    <3>2. CASE ~(state = "EMPTY")
      BY <2>3, <3>2, <2>p, <2>t DEF ParkCommit
    <3> QED
      BY <3>1, <3>2
  <2>4. CASE ParkWait
    BY <2>4, <2>p, <2>t DEF ParkWait
  <2>5. CASE SpuriousReturn
    BY <2>5, <2>p, <2>t DEF SpuriousReturn
  <2>6. CASE TimeOut
    BY <2>6, <2>p, <2>t DEF TimeOut
  <2>7. CASE ParkWoken
    BY <2>7, <2>p, <2>t DEF ParkWoken
  <2>8. CASE ParkExpired
    <3>1. CASE state = "PARKED"
      BY <2>8, <3>1, <2>p, <2>t DEF ParkExpired
    <3>2. CASE ~(state = "PARKED")
      BY <2>8, <3>2, <2>p, <2>t DEF ParkExpired
    <3> QED
      BY <3>1, <3>2
  <2>9. CASE ParkReset
    BY <2>9, <2>p, <2>t DEF ParkReset
  <2>10. CASE ParkSwap
    BY <2>10, <2>p, <2>t DEF ParkSwap
  <2>11. CASE SpawnInTask
    <3>1. CASE borrowed
      <4>1. pc' = [pc EXCEPT ![Owner] = "panicked"] /\ rootReady' = rootReady
        BY <2>11, <3>1 DEF SpawnInTask
      <4> QED
        BY <4>1, <2>p, <2>t
    <3>2. CASE ~(borrowed)
      BY <2>11, <3>2, <2>p, <2>t DEF SpawnInTask
    <3> QED
      BY <3>1, <3>2
  <2>12. CASE RunNext
    BY <2>12, <2>p, <2>t DEF RunNext
  <2>13. CASE TaskReady
    <3>1. CASE WakesRoot(held[Owner])
      <4>1. state' = "NOTIFIED" /\ rootReady' /\ UNCHANGED <<interest, mode>>
        BY <2>13, <3>1 DEF TaskReady, WakesRoot
      <4>2. pc[Owner] = "running" /\ pc' = [pc EXCEPT ![Owner] = "drain"]
        BY <2>13 DEF TaskReady
      <4> QED
        BY <4>1, <4>2, <2>p, <2>t
    <3>2. CASE ~(WakesRoot(held[Owner]))
      BY <2>13, <3>2, <2>p, <2>t DEF TaskReady, WakesRoot
    <3> QED
      BY <3>1, <3>2
  <2>14. CASE TaskPending
    BY <2>14, <2>p, <2>t DEF TaskPending
  <2>15. CASE StartBlockOn
    BY <2>15, <2>p, <2>t DEF StartBlockOn
  <2>16. CASE PollRoot
    <3>1. CASE rootReady
      BY <2>16, <3>1, <2>p, <2>t DEF PollRoot
    <3>2. CASE ~(rootReady)
      BY <2>16, <3>2, <2>p, <2>t DEF PollRoot
    <3> QED
      BY <3>1, <3>2
  <2>16r. CASE RegisterRoot
    BY <2>16r, <2>p, <2>t DEF RegisterRoot
  <2>16s. CASE StoreRoot
    BY <2>16s, <2>p, <2>t DEF StoreRoot
  <2>17. CASE DrainDone
    BY <2>17, <2>p, <2>t DEF DrainDone
  <2>18. CASE TurnReturns
    BY <2>18, <2>p, <2>t DEF TurnReturns
  <2>19. CASE Shutdown
    BY <2>19, <2>p, <2>t DEF Shutdown
  <2>20. ASSUME NEW r \in Remotes, RemoteUnpark(r) PROVE OwnerInv'
    <3>1. CASE state = "PARKED"
      BY <2>20, <3>1, <2>p, <2>t DEF RemoteUnpark
    <3>2. CASE ~(state = "PARKED")
      BY <2>20, <3>2, <2>p, <2>t DEF RemoteUnpark
    <3> QED
      BY <3>1, <3>2
  <2>21. ASSUME NEW r \in Remotes, RemoteNotify(r) PROVE OwnerInv'
    BY <2>21, <2>p, <2>t DEF RemoteNotify
  <2>22. ASSUME NEW r \in Remotes, RemoteReady(r) PROVE OwnerInv'
    <3>1. CASE held[r] = Awaited /\ interest
      BY <2>22, <3>1, <2>p, <2>t DEF RemoteReady
    <3>2. CASE ~(held[r] = Awaited /\ interest)
      BY <2>22, <3>2, <2>p, <2>t DEF RemoteReady
    <3> QED
      BY <3>1, <3>2
  <2>22j. ASSUME NEW r \in Remotes, JoinTake(r) PROVE OwnerInv'
    BY <2>22j, <2>p, <2>t DEF JoinTake
  <2>23. ASSUME NEW r \in Remotes, RemotePending(r) PROVE OwnerInv'
    BY <2>23, <2>p, <2>t DEF RemotePending
  <2>24. ASSUME NEW t \in LocalTasks, Spawn(t) PROVE OwnerInv'
    BY <2>24, <2>p, <2>t DEF Spawn
  <2>25. ASSUME NEW t \in LocalTasks, OwnerRuns(t) PROVE OwnerInv'
    <3>1. UNCHANGED <<pc, queue, borrowed, interest, missed, mode>>
      BY <2>25 DEF OwnerRuns
    <3>2. CASE UNCHANGED <<rootReady, joinWaker, state>>
      BY <3>1, <3>2
    <3>3. ASSUME CompletesHere(t), WakesRoot(t) PROVE OwnerInv'
      <4>1. state' = "NOTIFIED" /\ rootReady'
        BY <3>3 DEF WakesRoot
      <4> QED
        BY <3>1, <4>1
    <3>4. ASSUME CompletesHere(t), ~WakesRoot(t), t = Awaited PROVE OwnerInv'
      <4>1. UNCHANGED <<joinWaker, state>> /\ rootReady' /\ ~(interest /\ joinWaker)
        BY <3>4 DEF WakesRoot
      <4>2. pc[Owner] \in {"out", "poll", "running"}
        BY <2>25 DEF OwnerRuns
      <4>3. CASE rootReady
        BY <3>1, <4>1, <4>3
      <4>4. CASE ~rootReady
        BY <3>1, <4>1, <4>2, <4>4
      <4> QED
        BY <4>3, <4>4
    <3>5. ASSUME CompletesHere(t), ~WakesRoot(t), t # Awaited PROVE OwnerInv'
      <4>1. UNCHANGED <<joinWaker, state>> /\ (rootReady' <=> rootReady)
        BY <3>5
      <4> QED
        BY <3>1, <4>1
    <3> QED
      BY <2>25, <3>2, <3>3, <3>4, <3>5 DEF OwnerRuns
  <2>26. ASSUME NEW r \in Remotes, NEW t \in HandleTasks, HandleSpawn(r, t) PROVE OwnerInv'
    BY <2>26, <2>p, <2>t DEF HandleSpawn
  <2>27. ASSUME NEW r \in Remotes, NEW t \in LocalTasks, RemoteRuns(r, t) PROVE OwnerInv'
    BY <2>27, <2>p, <2>t DEF RemoteRuns
  <2>28. ASSUME NEW b \in BOOLEAN, StartTurn(b) PROVE OwnerInv'
    BY <2>28, <2>p, <2>t DEF StartTurn
  <2>29. CASE UNCHANGED vars
    BY <2>29 DEF vars
  <2> HIDE DEF OwnerInv, Awaiting, Parking
  <2> QED
    BY <2>1, <2>2, <2>3, <2>4, <2>5, <2>6, <2>7, <2>8, <2>9, <2>10, <2>11, <2>12, <2>13, <2>14,
       <2>15, <2>16, <2>16r, <2>16s, <2>17, <2>18, <2>19, <2>20, <2>21, <2>22, <2>22j, <2>23, <2>24, <2>25, <2>26, <2>27, <2>28, <2>29
       DEF Next, OwnerStep, ParkStep, RemoteStep, Environment
<1>3. OwnerInv => ParksIdle /\ RootWakeRecorded
  BY DEF ParksIdle, RootWakeRecorded
<1>4. QED
  BY <1>1, <1>2, <1>3, ParkerIsSafe, PTL DEF Spec

\* The owner thread goes to sleep only with nothing left to run: its queue is empty
\* and not borrowed by a run_until_idle further up its stack.
THEOREM ParksWithNothingToDo == Spec => []ParksIdle
BY OwnerKeepsUp, PTL

\* Taking the head of one sequence and appending it to another keeps their
\* concatenation: what run_until_idle does to the queue, of the order of the runs.
LEMMA MoveHead ==
    ASSUME NEW S, NEW r \in Seq(S), NEW q \in Seq(S), q # <<>>
    PROVE  Append(r, Head(q)) \o Tail(q) = r \o q
OBVIOUS

\* Local tasks run in the order they were spawned, for any set of tasks: push_back
\* of spawn_local and pop_front of run_until_idle keep the equation of FifoOrder.
THEOREM TasksRunInOrder == Spec => []FifoOrder
<1> DEFINE SeqTypes == order \in Seq(LocalTasks) /\ ran \in Seq(LocalTasks) /\ queue \in Seq(LocalTasks)
<1>1. Init => SeqTypes /\ FifoOrder
  BY DEF Init, FifoOrder
<1>2. SeqTypes /\ FifoOrder /\ [Next]_vars => (SeqTypes /\ FifoOrder)'
  <2> SUFFICES ASSUME SeqTypes, FifoOrder, [Next]_vars PROVE (SeqTypes /\ FifoOrder)'
    OBVIOUS
  <2>1. ASSUME NEW t \in LocalTasks, Spawn(t) PROVE (SeqTypes /\ FifoOrder)'
    <3>1. /\ order' = Append(order, t) /\ queue' = Append(queue, t)
          /\ UNCHANGED <<ran, shutdown>>
      BY <2>1 DEF Spawn
    <3> HIDE DEF SeqTypes
    <3>t. t \in LocalTasks /\ ran \in Seq(LocalTasks) /\ queue \in Seq(LocalTasks)
      BY <2>1 DEF SeqTypes
    <3>2. Append(ran \o queue, t) = ran \o Append(queue, t)
      BY ONLY <3>t
    <3>3. SeqTypes'
      BY <3>1, <3>t DEF SeqTypes
    <3>4. ASSUME ~shutdown PROVE order' = ran' \o queue'
      BY <3>1, <3>2, <3>4 DEF FifoOrder
    <3> QED
      BY <3>1, <3>3, <3>4 DEF FifoOrder
  <2>2. CASE RunNext
    <3>1. /\ queue # <<>> /\ ran' = Append(ran, Head(queue)) /\ queue' = Tail(queue)
          /\ UNCHANGED <<order, shutdown>>
      BY <2>2 DEF RunNext
    <3>2. Head(queue) \in LocalTasks /\ queue' \in Seq(LocalTasks)
      BY <3>1
    <3>3. Append(ran, Head(queue)) \o Tail(queue) = ran \o queue
      BY <3>1, MoveHead
    <3>4. SeqTypes'
      BY <3>1, <3>2
    <3>5. ASSUME ~shutdown PROVE order' = ran' \o queue'
      BY <3>1, <3>3, <3>5 DEF FifoOrder
    <3> QED
      BY <3>1, <3>4, <3>5 DEF FifoOrder
  <2>3. CASE Shutdown
    BY <2>3 DEF Shutdown, FifoOrder
  <2>4. CASE UNCHANGED <<order, ran, queue, shutdown>>
    BY <2>4 DEF FifoOrder
  <2>5. ASSUME OwnerStep, ~RunNext PROVE UNCHANGED <<order, ran, queue, shutdown>>
    BY <2>5 DEF OwnerStep, ParkStep, ParkLoad, ParkTake, ParkCommit, ParkWait, ParkWoken, ParkExpired,
                ParkReset, ParkSwap, TaskReady, PollRoot, RegisterRoot, StoreRoot, DrainDone, TurnReturns
  <2>6. ASSUME NEW r \in Remotes, RemoteStep(r) PROVE UNCHANGED <<order, ran, queue, shutdown>>
    BY <2>6 DEF RemoteStep, RemoteUnpark, RemoteNotify, RemoteReady, JoinTake
  <2>7. ASSUME Environment, ~Shutdown, \A t \in LocalTasks : ~Spawn(t)
        PROVE UNCHANGED <<order, ran, queue, shutdown>>
    BY <2>7 DEF Environment, OwnerRuns, HandleSpawn, RemoteRuns, RemotePending, StartTurn,
                SpawnInTask, TaskPending, StartBlockOn, SpuriousReturn, TimeOut
  <2> QED
    BY <2>1, <2>2, <2>3, <2>4, <2>5, <2>6, <2>7 DEF Next, vars
<1>3. QED
  BY <1>1, <1>2, PTL DEF Spec

\* The types of the data; a thread that runs a task holds one.
DataInv ==
    /\ queue \in Seq(LocalTasks) /\ order \in Seq(LocalTasks) /\ ran \in Seq(LocalTasks)
    /\ borrowed \in BOOLEAN
    /\ held \in [Threads -> LocalTasks \cup {NoTask}]
    /\ \A th \in Threads : pc[th] = "running" => held[th] \in LocalTasks
    /\ timed \in BOOLEAN
    /\ injector \in SUBSET HandleTasks
    /\ shutdown \in BOOLEAN /\ rootReady \in BOOLEAN /\ scheduled \in BOOLEAN
    /\ interest \in BOOLEAN /\ joinWaker \in BOOLEAN /\ missed \in BOOLEAN
    /\ pending \in SUBSET LocalTasks
    /\ waiting \in BOOLEAN
    /\ seen \in {"EMPTY", "PARKED", "NOTIFIED"}
    /\ wakeups \in 0..MaxWakeups

LEMMA DataKept == Spec => []DataInv
<1> USE DEF DataInv
<1>1. Init => DataInv
  <2> SUFFICES ASSUME Init PROVE DataInv
    OBVIOUS
  <2>1. wakeups \in 0..MaxWakeups
    BY CurrentThreadAssumption DEF Init
  <2>2. held \in [Threads -> LocalTasks \cup {NoTask}] /\ \A th \in Threads : pc[th] # "running"
    BY DEF Init
  <2>3. queue \in Seq(LocalTasks) /\ order \in Seq(LocalTasks) /\ ran \in Seq(LocalTasks)
    BY DEF Init
  <2>4. seen \in {"EMPTY", "PARKED", "NOTIFIED"} /\ pending \in SUBSET LocalTasks /\ injector \in SUBSET HandleTasks
    BY DEF Init
  <2>5. /\ borrowed \in BOOLEAN /\ timed \in BOOLEAN /\ shutdown \in BOOLEAN
        /\ rootReady \in BOOLEAN /\ scheduled \in BOOLEAN /\ waiting \in BOOLEAN
        /\ interest \in BOOLEAN /\ joinWaker \in BOOLEAN /\ missed \in BOOLEAN
    BY DEF Init
  <2> QED
    BY <2>1, <2>2, <2>3, <2>4, <2>5
<1>2. Labelled /\ DataInv /\ [Next]_vars => DataInv'
  <2> SUFFICES ASSUME Labelled, DataInv, [Next]_vars PROVE DataInv'
    OBVIOUS
  <2>p. /\ Owner \in Threads /\ Remotes \subseteq Threads /\ Owner \notin Remotes
        /\ Awaited \in LocalTasks /\ NoTask \notin LocalTasks /\ MaxWakeups \in Nat
        /\ state \in {"EMPTY", "PARKED", "NOTIFIED"}
        /\ pc \in [Threads -> Labels]
    BY CurrentThreadAssumption DEF Threads, Labelled
  <2>1. CASE ParkLoad
    BY <2>1, <2>p DEF ParkLoad
  <2>2. CASE ParkTake
    <3>1. CASE state = "NOTIFIED"
      BY <2>2, <3>1, <2>p DEF ParkTake
    <3>2. CASE ~(state = "NOTIFIED")
      BY <2>2, <3>2, <2>p DEF ParkTake
    <3> QED
      BY <3>1, <3>2
  <2>3. CASE ParkCommit
    <3>1. CASE state = "EMPTY"
      BY <2>3, <3>1, <2>p DEF ParkCommit
    <3>2. CASE ~(state = "EMPTY")
      BY <2>3, <3>2, <2>p DEF ParkCommit
    <3> QED
      BY <3>1, <3>2
  <2>4. CASE ParkWait
    BY <2>4, <2>p DEF ParkWait
  <2>5. CASE SpuriousReturn
    <3>1. wakeups' \in 0..MaxWakeups
      BY <2>5, <2>p DEF SpuriousReturn
    <3> QED
      BY <2>5, <2>p, <3>1 DEF SpuriousReturn
  <2>6. CASE TimeOut
    <3>1. wakeups' \in 0..MaxWakeups
      BY <2>6, <2>p DEF TimeOut
    <3> QED
      BY <2>6, <2>p, <3>1 DEF TimeOut
  <2>7. CASE ParkWoken
    BY <2>7, <2>p DEF ParkWoken
  <2>8. CASE ParkExpired
    BY <2>8, <2>p DEF ParkExpired
  <2>9. CASE ParkReset
    BY <2>9, <2>p DEF ParkReset
  <2>10. CASE ParkSwap
    BY <2>10, <2>p DEF ParkSwap
  <2>11. CASE SpawnInTask
    BY <2>11, <2>p DEF SpawnInTask, DropHandle
  <2>12. CASE RunNext
    BY <2>12, <2>p DEF RunNext
  <2>13. CASE TaskReady
    <3>1. CASE WakesRoot(held[Owner])
      BY <2>13, <3>1, <2>p DEF TaskReady
    <3>2. CASE ~(WakesRoot(held[Owner]))
      BY <2>13, <3>2, <2>p DEF TaskReady
    <3> QED
      BY <3>1, <3>2
  <2>14. CASE TaskPending
    BY <2>14, <2>p DEF TaskPending
  <2>15. CASE StartBlockOn
    BY <2>15, <2>p DEF StartBlockOn
  <2>16. CASE PollRoot
    <3>1. CASE rootReady
      BY <2>16, <3>1, <2>p DEF PollRoot, DropHandle
    <3>2. CASE ~(rootReady)
      BY <2>16, <3>2, <2>p DEF PollRoot, DropHandle
    <3> QED
      BY <3>1, <3>2
  <2>16r. CASE RegisterRoot
    BY <2>16r, <2>p DEF RegisterRoot
  <2>16s. CASE StoreRoot
    BY <2>16s, <2>p DEF StoreRoot
  <2>17. CASE DrainDone
    BY <2>17, <2>p DEF DrainDone
  <2>18. CASE TurnReturns
    BY <2>18, <2>p DEF TurnReturns
  <2>19. CASE Shutdown
    BY <2>19, <2>p DEF Shutdown
  <2>20. ASSUME NEW r \in Remotes, RemoteUnpark(r) PROVE DataInv'
    BY <2>20, <2>p DEF RemoteUnpark
  <2>21. ASSUME NEW r \in Remotes, RemoteNotify(r) PROVE DataInv'
    BY <2>21, <2>p DEF RemoteNotify
  <2>22. ASSUME NEW r \in Remotes, RemoteReady(r) PROVE DataInv'
    BY <2>22, <2>p DEF RemoteReady
  <2>22j. ASSUME NEW r \in Remotes, JoinTake(r) PROVE DataInv'
    BY <2>22j, <2>p DEF JoinTake
  <2>23. ASSUME NEW r \in Remotes, RemotePending(r) PROVE DataInv'
    BY <2>23, <2>p DEF RemotePending
  <2>24. ASSUME NEW t \in LocalTasks, Spawn(t) PROVE DataInv'
    BY <2>24, <2>p DEF Spawn
  <2>25. ASSUME NEW t \in LocalTasks, OwnerRuns(t) PROVE DataInv'
    <3>1. CASE WakesRoot(t)
      BY <2>25, <3>1, <2>p DEF OwnerRuns
    <3>2. CASE ~WakesRoot(t)
      BY <2>25, <3>2, <2>p DEF OwnerRuns
    <3> QED
      BY <3>1, <3>2
  <2>26. ASSUME NEW r \in Remotes, NEW t \in HandleTasks, HandleSpawn(r, t) PROVE DataInv'
    BY <2>26, <2>p DEF HandleSpawn
  <2>27. ASSUME NEW r \in Remotes, NEW t \in LocalTasks, RemoteRuns(r, t) PROVE DataInv'
    BY <2>27, <2>p DEF RemoteRuns
  <2>28. ASSUME NEW b \in BOOLEAN, StartTurn(b) PROVE DataInv'
    BY <2>28, <2>p DEF StartTurn
  <2>29. CASE UNCHANGED vars
    BY <2>29 DEF vars
  <2> HIDE DEF DataInv
  <2> QED
    BY <2>1, <2>2, <2>3, <2>4, <2>5, <2>6, <2>7, <2>8, <2>9, <2>10, <2>11, <2>12, <2>13, <2>14,
       <2>15, <2>16, <2>16r, <2>16s, <2>17, <2>18, <2>19, <2>20, <2>21, <2>22, <2>22j, <2>23, <2>24, <2>25, <2>26, <2>27, <2>28,
       <2>29
       DEF Next, OwnerStep, ParkStep, RemoteStep, Environment
<1>3. QED
  BY <1>1, <1>2, ParkerIsSafe, PTL DEF Spec

\* Type correctness of the scheduler, for any threads and tasks.
THEOREM TypeCorrect == Spec => []TypeOK
<1>1. Labelled /\ DataInv => TypeOK
  BY DEF Labelled, DataInv, TypeOK
<1>2. QED
  BY <1>1, DataKept, ParkerIsSafe, PTL

-----------------------------------------------------------------------------
(* The parker implements Permit.                                           *)

\* The permit of the ThreadParker is kept until park() returns.
THEOREM PermitKept == Spec => KeepsPermit
<1> DEFINE pvars == <<state = "NOTIFIED", pc[Owner] \in Parking>>
           Goal == Promise!Next \/ UNCHANGED pvars
<1> USE DEF Parking, Promise!Next, Promise!Park, Promise!Unpark, Promise!Return
<1>1. Init => Promise!Init
  BY DEF Init, Promise!Init, Threads
<1>2. Labelled /\ SleeperState /\ [Next]_vars => [Promise!Next]_pvars
  <2> SUFFICES ASSUME Labelled, SleeperState, [Next]_vars PROVE Goal
    OBVIOUS
  <2>p. /\ Owner \in Threads /\ Remotes \subseteq Threads /\ Owner \notin Remotes
        /\ pc \in [Threads -> Labels]
    BY CurrentThreadAssumption DEF Threads, Labelled
  <2> USE DEF SleeperState
  <2>1. CASE ParkLoad \/ ParkWait \/ ParkWoken \/ TimeOut \/ SpuriousReturn
    BY <2>1, <2>p DEF ParkLoad, ParkWait, ParkWoken, TimeOut, SpuriousReturn, Labelled
  <2>2. CASE ParkTake
    BY <2>2, <2>p DEF ParkTake
  <2>3. CASE ParkCommit
    BY <2>3, <2>p DEF ParkCommit
  <2>4. CASE ParkExpired
    BY <2>4, <2>p DEF ParkExpired
  <2>5. CASE ParkReset
    BY <2>5, <2>p DEF ParkReset
  <2>6. CASE ParkSwap
    BY <2>6, <2>p DEF ParkSwap
  <2>7. CASE DrainDone
    BY <2>7, <2>p DEF DrainDone
  <2>8. CASE RunNext \/ TaskPending \/ SpawnInTask \/ StartBlockOn \/ TurnReturns
    BY <2>8, <2>p DEF RunNext, TaskPending, SpawnInTask, StartBlockOn, TurnReturns
  <2>8r. CASE PollRoot \/ RegisterRoot \/ StoreRoot
    BY <2>8r, <2>p DEF PollRoot, RegisterRoot, StoreRoot
  <2>9. CASE TaskReady \/ Shutdown
    BY <2>9, <2>p DEF TaskReady, Shutdown
  <2>10. ASSUME NEW t \in LocalTasks, Spawn(t) \/ OwnerRuns(t) PROVE Goal
    BY <2>10, <2>p DEF Spawn, OwnerRuns
  <2>11. ASSUME NEW r \in Remotes, RemoteUnpark(r) \/ RemoteNotify(r) \/ RemoteReady(r)
                                  \/ RemotePending(r) \/ JoinTake(r)
         PROVE  Goal
    BY <2>11, <2>p DEF RemoteUnpark, RemoteNotify, RemoteReady, RemotePending, JoinTake
  <2>12. ASSUME NEW r \in Remotes, NEW t \in HandleTasks, HandleSpawn(r, t) PROVE Goal
    BY <2>12, <2>p DEF HandleSpawn
  <2>13. ASSUME NEW r \in Remotes, NEW t \in LocalTasks, RemoteRuns(r, t) PROVE Goal
    BY <2>13, <2>p DEF RemoteRuns
  <2>14. ASSUME NEW b \in BOOLEAN, StartTurn(b) PROVE Goal
    BY <2>14, <2>p DEF StartTurn
  <2>15. CASE UNCHANGED vars
    BY <2>15 DEF vars
  <2> HIDE DEF Goal
  <2> QED
    BY <2>1, <2>2, <2>3, <2>4, <2>5, <2>6, <2>7, <2>8, <2>8r, <2>9, <2>10, <2>11, <2>12, <2>13, <2>14, <2>15
       DEF Next, OwnerStep, ParkStep, RemoteStep, Environment
<1>3. QED
  BY <1>1, <1>2, ParkerIsSafe, PTL DEF Spec, KeepsPermit, Promise!Spec

-----------------------------------------------------------------------------
(* The local queue implements Executor.  Every step is one of six kinds as *)
(* far as the tasks of the queue are concerned.                            *)

Still == UNCHANGED <<queue, order, ran, Running, Failed>>

Pushes(t) == PushLocal(t) /\ UNCHANGED <<ran, Running, Failed>>

Takes ==
    /\ queue # <<>> /\ queue' = Tail(queue)
    /\ ran' = Append(ran, Head(queue))
    /\ Running = {} /\ Running' = {Head(queue)}
    /\ UNCHANGED <<order, Failed>>

Ends ==
    /\ Running = {held[Owner]} /\ Running' = {}
    /\ UNCHANGED <<queue, order, ran, Failed>>

Fails ==
    /\ Running = {held[Owner]} /\ Running' = {}
    /\ Failed = {} /\ Failed' = {held[Owner]}
    /\ UNCHANGED <<queue, order, ran>>

Clears == queue' = <<>> /\ UNCHANGED <<order, ran, Running, Failed>>

LEMMA StepKinds ==
    ASSUME Labelled, DataInv, [Next]_vars
    PROVE  \/ Still \/ Takes \/ Ends \/ Fails \/ Clears
           \/ \E t \in LocalTasks : Pushes(t)
<1> DEFINE Goal == \/ Still \/ Takes \/ Ends \/ Fails \/ Clears
                   \/ \E t \in LocalTasks : Pushes(t)
<1> SUFFICES Goal
  OBVIOUS
<1>p. /\ Owner \in Threads /\ Remotes \subseteq Threads /\ Owner \notin Remotes
      /\ pc \in [Threads -> Labels]
      /\ held \in [Threads -> LocalTasks \cup {NoTask}]
  BY CurrentThreadAssumption DEF Threads, Labelled, DataInv
<1> USE DEF Running, Failed
<1>1. CASE ParkLoad \/ ParkTake \/ ParkCommit \/ ParkWait \/ ParkWoken \/ ParkExpired \/ ParkReset \/ ParkSwap
  BY <1>1, <1>p DEF ParkLoad, ParkTake, ParkCommit, ParkWait, ParkWoken, ParkExpired, ParkReset, ParkSwap, Still
<1>2. CASE SpuriousReturn \/ TimeOut
  BY <1>2, <1>p DEF SpuriousReturn, TimeOut, Labelled, Still
<1>3. CASE RunNext
  BY <1>3, <1>p DEF RunNext, Takes
<1>4. CASE TaskReady \/ TaskPending
  BY <1>4, <1>p DEF TaskReady, TaskPending, Ends
<1>5. CASE SpawnInTask
  BY <1>5, <1>p DEF SpawnInTask, Fails, Still
<1>6. CASE Shutdown
  BY <1>6, <1>p DEF Shutdown, Clears
<1>7. CASE StartBlockOn \/ PollRoot \/ RegisterRoot \/ StoreRoot \/ DrainDone \/ TurnReturns
  BY <1>7, <1>p DEF StartBlockOn, PollRoot, RegisterRoot, StoreRoot, DrainDone, TurnReturns, Still
<1>8. ASSUME NEW t \in LocalTasks, Spawn(t) PROVE Goal
  BY <1>8 DEF Spawn, Pushes
<1>9. ASSUME NEW t \in LocalTasks, OwnerRuns(t) PROVE Goal
  BY <1>9 DEF OwnerRuns, Still
<1>10. ASSUME NEW r \in Remotes, RemoteUnpark(r) \/ RemoteNotify(r) \/ RemoteReady(r)
                                \/ RemotePending(r) \/ JoinTake(r)
       PROVE  Goal
  BY <1>10, <1>p DEF RemoteUnpark, RemoteNotify, RemoteReady, RemotePending, JoinTake, Still
<1>11. ASSUME NEW r \in Remotes, NEW t \in HandleTasks, HandleSpawn(r, t) PROVE Goal
  BY <1>11 DEF HandleSpawn, Still
<1>12. ASSUME NEW r \in Remotes, NEW t \in LocalTasks, RemoteRuns(r, t) PROVE Goal
  BY <1>12, <1>p DEF RemoteRuns, Still
<1>13. ASSUME NEW b \in BOOLEAN, StartTurn(b) PROVE Goal
  BY <1>13, <1>p DEF StartTurn, Still
<1>14. CASE UNCHANGED vars
  BY <1>14 DEF vars, Still
<1> HIDE DEF Goal
<1> QED
  BY <1>1, <1>2, <1>3, <1>4, <1>5, <1>6, <1>7, <1>8, <1>9, <1>10, <1>11, <1>12, <1>13, <1>14
     DEF Next, OwnerStep, ParkStep, RemoteStep, Environment

\* What push_back and pop_front do to the tasks on a queue.
LEMMA ElementsAppend ==
    ASSUME NEW S, NEW s \in Seq(S), NEW x \in S
    PROVE  Elements(Append(s, x)) = Elements(s) \cup {x}
<1> DEFINE r == Append(s, x)
<1>1. /\ Len(s) \in Nat /\ Len(r) = Len(s) + 1 /\ r[Len(s) + 1] = x
      /\ \A i \in 1..Len(s) : r[i] = s[i]
  BY AppendProperties, LenProperties
<1> HIDE DEF r
<1>2. 1..Len(r) = (1..Len(s)) \cup {Len(s) + 1}
  BY <1>1
<1>3. Elements(r) = Elements(s) \cup {x}
  BY <1>1, <1>2 DEF Elements
<1> QED
  BY <1>3 DEF r

LEMMA ElementsTail ==
    ASSUME NEW S, NEW s \in Seq(S), s # <<>>
    PROVE  Elements(s) = Elements(Tail(s)) \cup {Head(s)}
<1>1. /\ Len(s) \in Nat /\ Len(s) >= 1 /\ Len(Tail(s)) = Len(s) - 1
      /\ Head(s) = s[1]
      /\ \A i \in 1..Len(Tail(s)) : Tail(s)[i] = s[i + 1]
  BY HeadTailProperties, EmptySeq
<1>2. \A i \in 1..Len(s) : i = 1 \/ (i - 1 \in 1..Len(Tail(s)) /\ s[i] = Tail(s)[i - 1])
  BY <1>1
<1>3. 1 \in 1..Len(s) /\ \A i \in 1..Len(Tail(s)) : i + 1 \in 1..Len(s)
  BY <1>1
<1>4. Elements(s) \subseteq Elements(Tail(s)) \cup {Head(s)}
  BY <1>1, <1>2 DEF Elements
<1>5. Elements(Tail(s)) \cup {Head(s)} \subseteq Elements(s)
  BY <1>1, <1>3 DEF Elements
<1> QED
  BY <1>4, <1>5

Distinct(s) == \A i, j \in 1..Len(s) : s[i] = s[j] => i = j

LEMMA DistinctAppend ==
    ASSUME NEW S, NEW s \in Seq(S), NEW x \in S, x \notin Elements(s), Distinct(s)
    PROVE  Distinct(Append(s, x))
<1> DEFINE r == Append(s, x)
<1>1. /\ Len(s) \in Nat /\ Len(r) = Len(s) + 1 /\ r[Len(s) + 1] = x
      /\ \A i \in 1..Len(s) : r[i] = s[i]
  BY AppendProperties, LenProperties
<1> HIDE DEF r
<1>2. \A i \in 1..Len(r) : i \in 1..Len(s) \/ i = Len(s) + 1
  BY <1>1
<1>3. \A i \in 1..Len(s) : s[i] # x
  BY DEF Elements
<1>4. Distinct(r)
  BY <1>1, <1>2, <1>3 DEF Distinct
<1> QED
  BY <1>4 DEF r

LEMMA DistinctTail ==
    ASSUME NEW S, NEW s \in Seq(S), s # <<>>, Distinct(s)
    PROVE  Distinct(Tail(s)) /\ Head(s) \notin Elements(Tail(s))
<1>1. /\ Len(s) \in Nat /\ Len(s) >= 1 /\ Len(Tail(s)) = Len(s) - 1
      /\ Head(s) = s[1]
      /\ \A i \in 1..Len(Tail(s)) : Tail(s)[i] = s[i + 1]
  BY HeadTailProperties, EmptySeq
<1>2. \A i \in 1..Len(Tail(s)) : i + 1 \in 1..Len(s) /\ i + 1 # 1 /\ 1 \in 1..Len(s)
  BY <1>1
<1>3. Distinct(Tail(s))
  <2> SUFFICES ASSUME NEW i \in 1..Len(Tail(s)), NEW j \in 1..Len(Tail(s)), Tail(s)[i] = Tail(s)[j]
               PROVE  i = j
    BY DEF Distinct
  <2>1. s[i + 1] = s[j + 1] /\ i + 1 \in 1..Len(s) /\ j + 1 \in 1..Len(s)
    BY <1>1, <1>2
  <2>2. i + 1 = j + 1
    BY <2>1 DEF Distinct
  <2> QED
    BY <2>2
<1>4. ASSUME NEW i \in 1..Len(Tail(s)) PROVE Tail(s)[i] # Head(s)
  BY <1>1, <1>2 DEF Distinct
<1> QED
  BY <1>3, <1>4 DEF Elements

\* A spawned task waits on the queue once, or has been taken, or was dropped; and
\* what the owner runs, or was brought down by, has been taken.
QueueInv ==
    /\ Distinct(queue)
    /\ Elements(queue) \cup Elements(ran) \subseteq Elements(order)
    /\ Elements(queue) \cap Elements(ran) = {}
    /\ Running \cup Failed \subseteq Elements(ran)
    /\ Running \cap Failed = {}

LEMMA QueueInvKept ==
    ASSUME Labelled, DataInv, QueueInv, [Next]_vars
    PROVE  QueueInv'
<1>t. queue \in Seq(LocalTasks) /\ order \in Seq(LocalTasks) /\ ran \in Seq(LocalTasks)
  BY DEF DataInv
<1>1. CASE Still
  <2>1. /\ Elements(queue') = Elements(queue) /\ Elements(ran') = Elements(ran)
        /\ Elements(order') = Elements(order) /\ Running' = Running /\ Failed' = Failed
    BY <1>1 DEF Still, Elements
  <2>2. Distinct(queue')
    BY <1>1 DEF Still, QueueInv, Distinct
  <2> QED
    BY <2>1, <2>2 DEF QueueInv, Elements, Distinct
<1>2. ASSUME NEW t \in LocalTasks, Pushes(t) PROVE QueueInv'
  <2>1. t \notin Elements(order)
    BY <1>2 DEF Pushes, Spawned, Elements
  <2>2. Elements(queue') = Elements(queue) \cup {t} /\ Elements(order') = Elements(order) \cup {t}
    BY <1>2, <1>t, ElementsAppend DEF Pushes
  <2>3. Distinct(queue')
    BY <1>2, <1>t, <2>1, DistinctAppend DEF Pushes, QueueInv
  <2>4. ran' = ran /\ Running' = Running /\ Failed' = Failed
    BY <1>2 DEF Pushes
  <2>5. Elements(queue') \cup Elements(ran') \subseteq Elements(order')
    BY <2>2, <2>4 DEF QueueInv
  <2>6. Elements(queue') \cap Elements(ran') = {}
    BY <2>1, <2>2, <2>4 DEF QueueInv
  <2>7. Running' \cup Failed' \subseteq Elements(ran') /\ Running' \cap Failed' = {}
    BY <2>4 DEF QueueInv
  <2> QED
    BY <2>3, <2>5, <2>6, <2>7 DEF QueueInv, Elements, Distinct
<1>3. CASE Takes
  <2>1. Head(queue) \in LocalTasks
    BY <1>3, <1>t, HeadTailProperties DEF Takes
  <2>2. Elements(queue) = Elements(queue') \cup {Head(queue)} /\ Elements(ran') = Elements(ran) \cup {Head(queue)}
    BY <1>3, <1>t, <2>1, ElementsTail, ElementsAppend DEF Takes
  <2>3. Distinct(queue') /\ Head(queue) \notin Elements(queue')
    BY <1>3, <1>t, DistinctTail DEF Takes, QueueInv
  <2>4. order' = order /\ Running' = {Head(queue)} /\ Failed' = Failed
    BY <1>3 DEF Takes
  <2>5. Head(queue) \notin Elements(ran)
    BY <2>2 DEF QueueInv
  <2>6. Elements(queue') \cup Elements(ran') \subseteq Elements(order')
    BY <2>2, <2>4 DEF QueueInv
  <2>7. Elements(queue') \cap Elements(ran') = {}
    BY <2>2, <2>3 DEF QueueInv
  <2>8. Running' \cup Failed' \subseteq Elements(ran') /\ Running' \cap Failed' = {}
    BY <2>2, <2>4, <2>5 DEF QueueInv
  <2> QED
    BY <2>3, <2>6, <2>7, <2>8 DEF QueueInv, Elements, Distinct
<1>4. CASE Ends \/ Fails
  <2>1. UNCHANGED <<queue, order, ran>>
    BY <1>4 DEF Ends, Fails
  <2>2. Running' \cup Failed' \subseteq Running \cup Failed /\ Running' \cap Failed' = {}
    BY <1>4 DEF Ends, Fails, QueueInv
  <2>3. Elements(queue') = Elements(queue) /\ Elements(ran') = Elements(ran) /\ Elements(order') = Elements(order)
    BY <2>1 DEF Elements
  <2>4. Distinct(queue')
    BY <2>1 DEF QueueInv, Distinct
  <2>5. Running' \cup Failed' \subseteq Elements(ran')
    BY <2>2, <2>3 DEF QueueInv
  <2> QED
    BY <2>2, <2>3, <2>4, <2>5 DEF QueueInv, Elements, Distinct
<1>5. CASE Clears
  <2>1. Elements(queue') = {} /\ Distinct(queue')
    BY <1>5 DEF Clears, Elements, Distinct
  <2> QED
    BY <1>5, <2>1 DEF Clears, QueueInv, Elements, Distinct
<1> QED
  BY <1>1, <1>2, <1>3, <1>4, <1>5, StepKinds

\* Each kind of step is a step of Executor.
THEOREM ExecutorImplemented == Spec => ImplementsExecutor
<1>1. Init => QueueInv /\ Exec!Init
  <2> SUFFICES ASSUME Init PROVE QueueInv /\ Exec!Init
    OBVIOUS
  <2>1. Running = {} /\ Failed = {} /\ Elements(queue) = {} /\ Elements(ran) = {} /\ Elements(order) = {}
        /\ Distinct(queue) /\ queue = <<>>
    BY DEF Init, Running, Failed, Elements, Distinct, Threads
  <2> QED
    BY <2>1 DEF QueueInv, Exec!Init
<1>2. Labelled /\ DataInv /\ QueueInv /\ [Next]_vars => QueueInv'
  BY QueueInvKept
<1>3. DataInv /\ Labelled /\ QueueInv /\ [Next]_vars => [Exec!Next]_Exec!vars
  <2> SUFFICES ASSUME Labelled, DataInv, QueueInv, [Next]_vars PROVE [Exec!Next]_Exec!vars
    OBVIOUS
  <2>t. queue \in Seq(LocalTasks) /\ order \in Seq(LocalTasks) /\ ran \in Seq(LocalTasks)
    BY DEF DataInv
  <2> DEFINE Finished == Elements(ran) \ (Running \cup Failed)
             Dropped == Elements(order) \ (Elements(ran) \cup Elements(queue))
  <2>1. CASE Still
    BY <2>1 DEF Still, Elements, Exec!vars
  <2>2. ASSUME NEW t \in LocalTasks, Pushes(t) PROVE Exec!Submit(t)
    <3>1. t \notin Elements(order)
      BY <2>2 DEF Pushes, Spawned, Elements
    <3>2. Elements(queue') = Elements(queue) \cup {t} /\ Elements(order') = Elements(order) \cup {t}
      BY <2>2, <2>t, ElementsAppend DEF Pushes
    <3>3. ran' = ran /\ Running' = Running /\ Failed' = Failed /\ queue' = Append(queue, t)
      BY <2>2 DEF Pushes
    <3>4. Finished' = Finished
      BY <3>3 DEF Elements
    <3>5. Dropped' = Elements(order') \ (Elements(ran) \cup Elements(queue'))
      BY <3>3 DEF Elements
    <3>6. Dropped' = Dropped
      BY <3>1, <3>2, <3>5 DEF QueueInv
    <3>7. t \notin Elements(queue) \cup Running \cup Finished \cup Failed \cup Dropped
      BY <3>1 DEF QueueInv
    <3> QED
      BY <3>3, <3>4, <3>6, <3>7 DEF Exec!Submit, Exec!Queued, Elements
  <2>3. ASSUME Takes PROVE Exec!Take
    <3>1. Head(queue) \in LocalTasks
      BY <2>3, <2>t, HeadTailProperties DEF Takes
    <3>2. Elements(queue) = Elements(queue') \cup {Head(queue)} /\ Elements(ran') = Elements(ran) \cup {Head(queue)}
      BY <2>3, <2>t, <3>1, ElementsTail, ElementsAppend DEF Takes
    <3>3. Running = {} /\ Running' = {Head(queue)} /\ Failed' = Failed /\ order' = order
          /\ queue # <<>> /\ queue' = Tail(queue)
      BY <2>3 DEF Takes
    <3>4. Head(queue) \notin Elements(ran)
      BY <3>2 DEF QueueInv
    <3>5. Finished' = Elements(ran') \ (Running' \cup Failed') /\ Dropped' = Elements(order) \ (Elements(ran') \cup Elements(queue'))
      BY <3>3 DEF Elements
    <3>6. Finished' = Finished
      BY <3>2, <3>3, <3>4, <3>5
    <3>7. Dropped' = Dropped
      BY <3>2, <3>5
    <3>8. Running' = Running \cup {Head(queue)}
      BY <3>3
    <3> QED
      BY <3>3, <3>6, <3>7, <3>8 DEF Exec!Take
  <2>4. ASSUME Ends \/ Fails PROVE Exec!Finish(held[Owner]) \/ Exec!Fail(held[Owner])
    <3>1. UNCHANGED <<queue, order, ran>>
      BY <2>4 DEF Ends, Fails
    <3>2. Dropped' = Dropped /\ Elements(ran') = Elements(ran)
      BY <3>1 DEF Elements
    <3>3. held[Owner] \in Running /\ Running' = Running \ {held[Owner]} /\ held[Owner] \in Elements(ran)
          /\ held[Owner] \notin Failed
      BY <2>4 DEF Ends, Fails, QueueInv
    <3>4. Finished' = Elements(ran) \ (Running' \cup Failed')
      BY <3>2
    <3>5. CASE Ends
      <4>1. Failed' = Failed /\ Running = {held[Owner]}
        BY <3>5 DEF Ends
      <4>2. Finished' = Finished \cup {held[Owner]}
        BY <3>3, <3>4, <4>1
      <4> QED
        BY <3>1, <3>2, <3>3, <4>1, <4>2 DEF Exec!Finish
    <3>6. CASE Fails
      <4>1. Failed' = Failed \cup {held[Owner]} /\ Running = {held[Owner]}
        BY <3>6 DEF Fails
      <4>2. Finished' = Finished
        BY <3>3, <3>4, <4>1
      <4> QED
        BY <3>1, <3>2, <3>3, <4>1, <4>2 DEF Exec!Fail
    <3> QED
      BY <2>4, <3>5, <3>6
  <2>5. ASSUME Clears PROVE Exec!Clear
    <3>1. queue' = <<>> /\ order' = order /\ ran' = ran /\ Running' = Running /\ Failed' = Failed
      BY <2>5 DEF Clears
    <3>2. Elements(queue') = {} /\ Finished' = Finished
      BY <3>1 DEF Elements
    <3>3. Dropped' = Elements(order) \ (Elements(ran) \cup Elements(queue'))
      BY <3>1 DEF Elements
    <3>4. Dropped' = Dropped \cup Elements(queue)
      BY <3>2, <3>3 DEF QueueInv
    <3>5. Elements(queue) = Exec!Queued
      BY DEF Exec!Queued, Elements
    <3> QED
      BY <3>1, <3>2, <3>4, <3>5 DEF Exec!Clear
  <2>6. ASSUME Ends \/ Fails PROVE held[Owner] \in LocalTasks
    <3>1. pc[Owner] = "running"
      BY <2>6 DEF Ends, Fails, Running
    <3> QED
      BY <3>1, CurrentThreadAssumption DEF DataInv, Threads
  <2> QED
    BY <2>1, <2>2, <2>3, <2>4, <2>5, <2>6, StepKinds DEF Exec!Next
<1>4. QED
  BY <1>1, <1>2, <1>3, DataKept, ParkerIsSafe, PTL DEF Spec, ImplementsExecutor, Exec!Spec
=============================================================================
