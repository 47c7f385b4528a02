------------------------------ MODULE CurrentThread ------------------------------
(***************************************************************************)
(* The single-threaded scheduler of runtime/scheduler/current_thread.rs:   *)
(* the thread that owns the runtime with its thread-local TASK_QUEUE, its  *)
(* ThreadParker, block_on, turn and shutdown; and the remote threads that  *)
(* hold a Handle, the waker of the block_on future, or a waker of a task.  *)
(*                                                                         *)
(* Only the parker is shared, so what the owner does on its own between    *)
(* two accesses to the parker is cut where tasks start and end.  No        *)
(* runtime context is set on any thread: a task that is woken runs at once *)
(* on the thread that wakes it (the fallback of create_task).              *)
(***************************************************************************)
EXTENDS Integers, Sequences

CONSTANTS
    Owner,       \* the thread that owns the runtime
    Remotes,     \* the other threads
    LocalTasks,  \* tasks spawned on the owner's queue
    HandleTasks, \* tasks spawned through Runtime::handle()
    Awaited,     \* the local task whose JoinHandle the block_on future awaits
    NoTask,      \* no task is running
    MaxWakeups   \* bound: waits that end without a notification

Threads == Remotes \cup {Owner}

ASSUME CurrentThreadAssumption ==
    /\ Owner \notin Remotes
    /\ LocalTasks \cap HandleTasks = {}
    /\ Awaited \in LocalTasks
    /\ NoTask \notin LocalTasks \cup HandleTasks
    /\ MaxWakeups \in Nat

VARIABLES
    pc,         \* where each thread is
    queue,      \* TASK_QUEUE of the owner
    borrowed,   \* run_until_idle holds the mutable borrow of TASK_QUEUE
    held,       \* the task each thread is polling
    mode,       \* what the owner is in: "block_on", "turn", or "none"
    timed,      \* the park is a park_timeout(Some(duration))
    injector,   \* the injector every Handle of the runtime pushes on
    shutdown,   \* CurrentThread::shutdown
    rootReady,  \* COMPLETE is set in the header of the awaited task
    scheduled,  \* ... it has been woken, and is SCHEDULED until it completes
    interest,   \* ... JOIN_INTEREST is set
    joinWaker,  \* ... its join_waker is Some
    missed,     \* history: the completion looked for that waker before it was stored
    pending,    \* local tasks whose last poll returned Pending, not yet woken
    state, waiting, seen, wakeups, \* the ThreadParker
    order, ran  \* history: local tasks in the order spawned, and taken to be run

parkVars == <<state, waiting, seen, wakeups>>
taskVars == <<queue, borrowed, held, injector, pending, order, ran>>
joinVars == <<interest, joinWaker, missed>>
rootVars == <<rootReady, scheduled, joinVars>>
modeVars == <<mode, timed, shutdown>>
vars == <<pc, taskVars, rootVars, modeVars, parkVars>>

Init ==
    /\ pc = [th \in Threads |-> "out"]
    /\ queue = <<>> /\ borrowed = FALSE
    /\ held = [th \in Threads |-> NoTask]
    /\ mode = "none" /\ timed = FALSE
    /\ injector = {} /\ shutdown = FALSE
    /\ rootReady = FALSE /\ scheduled = FALSE /\ pending = {}
    /\ interest = FALSE /\ joinWaker = FALSE /\ missed = FALSE
    /\ state = "EMPTY" /\ waiting = FALSE
    /\ seen = "EMPTY" /\ wakeups = 0
    /\ order = <<>> /\ ran = <<>>

Goto(th, label) == pc' = [pc EXCEPT ![th] = label]

Spawned(t) == \E i \in 1..Len(order) : order[i] = t

-----------------------------------------------------------------------------
(* ThreadParker.  Its mutex is only held for the steps into and out of the *)
(* wait and for notify_one, never across an access to the state: the steps *)
(* below stand for those critical sections.                                *)

CompareExchange(old, new, success) ==
    IF state = old
    THEN state' = new /\ Goto(Owner, success) /\ UNCHANGED seen
    ELSE seen' = state /\ UNCHANGED <<state, pc>>

\* Where park() returns to.
AfterPark == IF mode = "block_on" THEN "poll" ELSE "turned"

ParkLoad ==
    /\ pc[Owner] = "park"
    /\ seen' = state
    /\ Goto(Owner, "loop")
    /\ UNCHANGED <<taskVars, rootVars, modeVars, state, waiting, wakeups>>

ParkTake ==
    /\ pc[Owner] = "loop"
    /\ seen = "NOTIFIED"
    /\ CompareExchange("NOTIFIED", "EMPTY", AfterPark)
    /\ UNCHANGED <<taskVars, rootVars, modeVars, waiting, wakeups>>

\* Mutant: the parker goes to sleep although it has just been notified.
ParkCommit_Store ==
    /\ pc[Owner] = "loop"
    /\ seen # "NOTIFIED"
    /\ state' = "PARKED"
    /\ Goto(Owner, "lock")
    /\ UNCHANGED <<taskVars, rootVars, modeVars, waiting, seen, wakeups>>

ParkCommit ==
    /\ pc[Owner] = "loop"
    /\ seen # "NOTIFIED"
    /\ CompareExchange("EMPTY", "PARKED", "lock")
    /\ UNCHANGED <<taskVars, rootVars, modeVars, waiting, wakeups>>

\* mutex.lock() and condvar.wait or wait_timeout.
ParkWait ==
    /\ pc[Owner] = "lock"
    /\ waiting' = TRUE
    /\ Goto(Owner, "waiting")
    /\ UNCHANGED <<taskVars, rootVars, modeVars, state, seen, wakeups>>

\* A spurious return of the wait.
SpuriousReturn ==
    /\ waiting
    /\ wakeups < MaxWakeups
    /\ wakeups' = wakeups + 1
    /\ waiting' = FALSE
    /\ UNCHANGED <<pc, taskVars, rootVars, modeVars, state, seen>>

\* wait_timeout times out.
TimeOut ==
    /\ waiting
    /\ timed
    /\ wakeups < MaxWakeups
    /\ wakeups' = wakeups + 1
    /\ waiting' = FALSE
    /\ Goto(Owner, "expired")
    /\ UNCHANGED <<taskVars, rootVars, modeVars, state, seen>>

\* The wait returns after a notification or spuriously.
ParkWoken ==
    /\ pc[Owner] = "waiting"
    /\ ~waiting
    /\ Goto(Owner, "swap")
    /\ UNCHANGED <<taskVars, rootVars, modeVars, parkVars>>

\* timed_out() and state.load() == PARKED: Timeout occurred.
ParkExpired ==
    /\ pc[Owner] = "expired"
    /\ Goto(Owner, IF state = "PARKED" THEN "reset" ELSE "swap")
    /\ UNCHANGED <<taskVars, rootVars, modeVars, parkVars>>

\* Mutant: the return after the store is missing.
ParkReset_FallsThrough ==
    /\ pc[Owner] = "reset"
    /\ state' = "EMPTY"
    /\ Goto(Owner, "swap")
    /\ UNCHANGED <<taskVars, rootVars, modeVars, waiting, seen, wakeups>>

\* state.store(EMPTY), and return.
ParkReset ==
    /\ pc[Owner] = "reset"
    /\ state' = "EMPTY"
    /\ Goto(Owner, AfterPark)
    /\ UNCHANGED <<taskVars, rootVars, modeVars, waiting, seen, wakeups>>

\* state.swap(EMPTY); EMPTY is unreachable!().
ParkSwap ==
    /\ pc[Owner] = "swap"
    /\ state' = "EMPTY"
    /\ Goto(Owner, IF state = "EMPTY" THEN "unreachable" ELSE AfterPark)
    /\ UNCHANGED <<taskVars, rootVars, modeVars, waiting, seen, wakeups>>

\* unpark() on the owner thread, where nobody is parked: the swap only.
UnparkSelf == state' = "NOTIFIED" /\ UNCHANGED <<waiting, seen, wakeups>>

\* Mutant: only a sleeping owner is marked.
RemoteUnpark_Sleeping(r) ==
    /\ pc[r] = "unpark"
    /\ state' = IF state = "PARKED" THEN "NOTIFIED" ELSE state
    /\ Goto(r, IF state = "PARKED" THEN "notify" ELSE "out")
    /\ UNCHANGED <<taskVars, rootVars, modeVars, waiting, seen, wakeups>>

\* unpark() on another thread: state.swap(NOTIFIED) ...
RemoteUnpark(r) ==
    /\ pc[r] = "unpark"
    /\ state' = "NOTIFIED"
    /\ Goto(r, IF state = "PARKED" THEN "notify" ELSE "out")
    /\ UNCHANGED <<taskVars, rootVars, modeVars, waiting, seen, wakeups>>

\* ... and mutex.lock(), condvar.notify_one().
RemoteNotify(r) ==
    /\ pc[r] = "notify"
    /\ waiting' = FALSE
    /\ Goto(r, "out")
    /\ UNCHANGED <<taskVars, rootVars, modeVars, state, seen, wakeups>>

-----------------------------------------------------------------------------
(* Spawning.                                                               *)

PushLocal(t) ==
    /\ ~Spawned(t)
    /\ queue' = Append(queue, t)
    /\ order' = Append(order, t)

\* CurrentThread::spawn, spawn_task and spawn_local on the owner thread, from
\* outside the runtime or from the block_on future.  spawn_local finds no parker
\* to unpark in the thread-local PARKER after shutdown().
Spawn(t) ==
    /\ pc[Owner] \in {"out", "poll"}
    /\ PushLocal(t)
    /\ UnparkSelf \/ (shutdown /\ UNCHANGED parkVars)
    /\ UNCHANGED <<pc, borrowed, held, injector, pending, ran, rootVars, modeVars>>

\* Drop for JoinHandle: a complete task loses the flag and the stored waker.
DropHandle ==
    /\ interest' = (interest /\ ~rootReady)
    /\ joinWaker' = (joinWaker /\ ~rootReady)
    /\ UNCHANGED missed

\* The same from inside a task: run_until_idle still has TASK_QUEUE borrowed,
\* and borrow_mut() panics; block_on drops its future as it unwinds.
SpawnInTask ==
    /\ pc[Owner] = "running"
    /\ IF borrowed THEN Goto(Owner, "panicked") ELSE UNCHANGED pc
    /\ IF borrowed /\ mode = "block_on" THEN DropHandle ELSE UNCHANGED joinVars
    /\ UNCHANGED <<taskVars, rootReady, scheduled, modeVars, parkVars>>

\* Handle::spawn_task: the injector, and notify_worker of a dummy Shared that
\* has no worker to wake.
HandleSpawn(r, t) ==
    /\ pc[r] = "out"
    /\ t \notin injector
    /\ injector' = injector \cup {t}
    /\ UNCHANGED <<pc, queue, borrowed, held, pending, order, ran, rootVars, modeVars, parkVars>>

-----------------------------------------------------------------------------
(* Running tasks.                                                          *)

\* fetch_or(COMPLETE): the awaited task makes the block_on future ready ...
Completes(t) == rootReady' = (rootReady \/ t = Awaited)

\* ... and the waker it finds is taken and woken.  The owner completes a task while it
\* is not inside JoinHandle::poll, so there the three accesses are one step.
WakesRoot(t) == t = Awaited /\ interest /\ joinWaker

CompletesHere(t) ==
    /\ Completes(t)
    /\ IF WakesRoot(t) THEN joinWaker' = FALSE /\ UnparkSelf ELSE UNCHANGED <<joinWaker, parkVars>>

\* A wake takes the awaited task from IDLE to SCHEDULED; no code takes it back.
Wakes(t) == scheduled' = (scheduled \/ t = Awaited)

\* Mutant: tasks are taken from the back of the queue.
RunNext_Back ==
    /\ pc[Owner] = "drain"
    /\ queue # <<>>
    /\ queue' = SubSeq(queue, 1, Len(queue) - 1)
    /\ borrowed' = TRUE
    /\ held' = [held EXCEPT ![Owner] = queue[Len(queue)]]
    /\ ran' = Append(ran, queue[Len(queue)])
    /\ Goto(Owner, "running")
    /\ UNCHANGED <<injector, pending, order, rootVars, modeVars, parkVars>>

\* run_until_idle: while let Some(task) = queue.pop_front() { task.run() }.
RunNext ==
    /\ pc[Owner] = "drain"
    /\ queue # <<>>
    /\ queue' = Tail(queue)
    /\ borrowed' = TRUE
    /\ held' = [held EXCEPT ![Owner] = Head(queue)]
    /\ ran' = Append(ran, Head(queue))
    /\ Goto(Owner, "running")
    /\ UNCHANGED <<injector, pending, order, rootVars, modeVars, parkVars>>

\* The poll of the task the owner runs returns Ready ...
TaskReady ==
    /\ pc[Owner] = "running"
    /\ CompletesHere(held[Owner])
    /\ held' = [held EXCEPT ![Owner] = NoTask]
    /\ Goto(Owner, "drain")
    /\ UNCHANGED <<queue, borrowed, injector, pending, order, ran, scheduled, interest, missed, modeVars>>

\* ... or Pending, with its waker left with some other thread.
TaskPending ==
    /\ pc[Owner] = "running"
    /\ pending' = pending \cup {held[Owner]}
    /\ held' = [held EXCEPT ![Owner] = NoTask]
    /\ Goto(Owner, "drain")
    /\ UNCHANGED <<queue, borrowed, injector, order, ran, rootVars, modeVars, parkVars>>

\* A remote thread wakes a pending task: schedule() runs it right there.
RemoteRuns(r, t) ==
    /\ pc[r] = "out"
    /\ t \in pending
    /\ pending' = pending \ {t}
    /\ Wakes(t)
    /\ held' = [held EXCEPT ![r] = t]
    /\ Goto(r, "running")
    /\ UNCHANGED <<queue, borrowed, injector, order, ran, rootReady, joinVars, modeVars, parkVars>>

\* The owner itself wakes a pending task, from another task or from the block_on
\* future: it runs in place, to completion or to a poll nobody will repeat.
OwnerRuns(t) ==
    /\ pc[Owner] \in {"out", "poll", "running"}
    /\ t \in pending
    /\ pending' = pending \ {t}
    /\ Wakes(t)
    /\ \/ UNCHANGED <<rootReady, joinWaker, parkVars>>
       \/ CompletesHere(t)
    /\ UNCHANGED <<pc, queue, borrowed, held, injector, order, ran, interest, missed, modeVars>>

\* That second poll returns Ready, or Pending for ever: no third wake schedules it.
RemoteReady(r) ==
    /\ pc[r] = "running"
    /\ held' = [held EXCEPT ![r] = NoTask]
    /\ Completes(held[r])
    /\ Goto(r, IF held[r] = Awaited /\ interest THEN "join_take" ELSE "out")
    /\ UNCHANGED <<queue, borrowed, injector, pending, order, ran, scheduled, joinVars, modeVars, parkVars>>

\* join_waker.take() of a completion on another thread: wake it, if it has been stored
\* by now.
JoinTake(r) ==
    /\ pc[r] = "join_take"
    /\ joinWaker' = FALSE
    /\ missed' = (missed \/ (pc[Owner] = "store_pending" /\ ~joinWaker))
    /\ Goto(r, IF joinWaker THEN "unpark" ELSE "out")
    /\ UNCHANGED <<taskVars, rootReady, scheduled, interest, modeVars, parkVars>>

RemotePending(r) ==
    /\ pc[r] = "running"
    /\ held' = [held EXCEPT ![r] = NoTask]
    /\ Goto(r, "out")
    /\ UNCHANGED <<queue, borrowed, injector, pending, order, ran, rootVars, modeVars, parkVars>>

-----------------------------------------------------------------------------
(* block_on, turn and shutdown.                                            *)

StartBlockOn ==
    /\ pc[Owner] = "out"
    /\ mode' = "block_on" /\ timed' = FALSE
    /\ Goto(Owner, "poll")
    /\ UNCHANGED <<taskVars, rootVars, shutdown, parkVars>>

\* future.poll(&mut cx) is JoinHandle::poll: its first load of the state.  The future
\* is dropped when it is Ready.
PollRoot ==
    /\ pc[Owner] = "poll"
    /\ IF rootReady THEN Goto(Owner, "out") /\ mode' = "none" /\ DropHandle
                    ELSE Goto(Owner, "register") /\ UNCHANGED <<mode, joinVars>>
    /\ UNCHANGED <<taskVars, rootReady, scheduled, timed, shutdown, parkVars>>

\* set_join_waker: fetch_or(JOIN_INTEREST) tells whether the task has completed by
\* now; a task that is SCHEDULED passes for complete.
RegisterRoot ==
    /\ pc[Owner] = "register"
    /\ interest' = TRUE
    /\ Goto(Owner, IF rootReady \/ scheduled THEN "store_again" ELSE "store_pending")
    /\ UNCHANGED <<taskVars, rootReady, scheduled, joinWaker, missed, modeVars, parkVars>>

\* ... then the store of the waker: poll again, or Pending.
StoreRoot ==
    /\ pc[Owner] \in {"store_again", "store_pending"}
    /\ joinWaker' = TRUE
    /\ Goto(Owner, IF pc[Owner] = "store_again" THEN "poll" ELSE "drain")
    /\ UNCHANGED <<taskVars, rootReady, scheduled, interest, missed, modeVars, parkVars>>

StartTurn(withTimeout) ==
    /\ pc[Owner] = "out"
    /\ mode' = "turn" /\ timed' = withTimeout
    /\ Goto(Owner, "drain")
    /\ UNCHANGED <<taskVars, rootVars, shutdown, parkVars>>

\* Mutant: turn() parks without looking at the queue or the flag.
DrainDone_Early ==
    /\ pc[Owner] = "drain"
    /\ borrowed' = FALSE
    /\ Goto(Owner, "park")
    /\ UNCHANGED <<queue, held, injector, pending, order, ran, rootVars, modeVars, parkVars>>

\* The queue is empty: the borrow ends, and is_idle() holds.  block_on parks;
\* turn parks unless the runtime has been shut down.
DrainDone ==
    /\ pc[Owner] = "drain"
    /\ queue = <<>>
    /\ borrowed' = FALSE
    /\ Goto(Owner, IF mode = "turn" /\ shutdown THEN "turned" ELSE "park")
    /\ UNCHANGED <<queue, held, injector, pending, order, ran, rootVars, modeVars, parkVars>>

TurnReturns ==
    /\ pc[Owner] = "turned"
    /\ mode' = "none"
    /\ Goto(Owner, "out")
    /\ UNCHANGED <<taskVars, rootVars, timed, shutdown, parkVars>>

\* shutdown(): the flag, an unpark of nobody, and the queue is cleared.
Shutdown ==
    /\ pc[Owner] = "out"
    /\ shutdown' = TRUE
    /\ UnparkSelf
    /\ queue' = <<>>
    /\ UNCHANGED <<pc, borrowed, held, injector, pending, order, ran, rootVars, mode, timed>>

-----------------------------------------------------------------------------
ParkStep == ParkLoad \/ ParkTake \/ ParkCommit \/ ParkWait \/ ParkWoken \/ ParkExpired
            \/ ParkReset \/ ParkSwap

OwnerStep == ParkStep \/ RunNext \/ TaskReady \/ PollRoot \/ RegisterRoot \/ StoreRoot
             \/ DrainDone \/ TurnReturns

RemoteStep(r) == RemoteUnpark(r) \/ RemoteNotify(r) \/ RemoteReady(r) \/ JoinTake(r)

\* What the program and the clock may or may not do.
Environment ==
    \/ \E t \in LocalTasks : Spawn(t) \/ OwnerRuns(t)
    \/ \E r \in Remotes, t \in HandleTasks : HandleSpawn(r, t)
    \/ \E r \in Remotes, t \in LocalTasks : RemoteRuns(r, t)
    \/ \E r \in Remotes : RemotePending(r)
    \/ \E withTimeout \in BOOLEAN : StartTurn(withTimeout)
    \/ SpawnInTask \/ TaskPending \/ StartBlockOn \/ Shutdown
    \/ SpuriousReturn \/ TimeOut

Next == OwnerStep \/ (\E r \in Remotes : RemoteStep(r)) \/ Environment

Spec == Init /\ [][Next]_vars

\* The owner and the remote threads keep running, and polls return.
Fairness == WF_vars(OwnerStep) /\ \A r \in Remotes : WF_vars(RemoteStep(r))

FairSpec == Spec /\ Fairness
-----------------------------------------------------------------------------
(* Properties.                                                             *)

Parking == {"park", "loop", "lock", "waiting", "expired", "reset", "swap"}

Labels == Parking \cup {"out", "poll", "register", "store_again", "store_pending", "drain", "running",
                       "turned", "panicked", "join_take", "unpark", "notify"}

\* Type correctness of the scheduler and its parker; in particular the owner never
\* gets to the unreachable!() of its parker.
TypeOK ==
    /\ pc \in [Threads -> Labels]
    /\ queue \in Seq(LocalTasks) /\ order \in Seq(LocalTasks) /\ ran \in Seq(LocalTasks)
    /\ borrowed \in BOOLEAN
    /\ held \in [Threads -> LocalTasks \cup {NoTask}]
    /\ mode \in {"none", "block_on", "turn"} /\ timed \in BOOLEAN
    /\ injector \in SUBSET HandleTasks
    /\ shutdown \in BOOLEAN /\ rootReady \in BOOLEAN /\ scheduled \in BOOLEAN
    /\ interest \in BOOLEAN /\ joinWaker \in BOOLEAN /\ missed \in BOOLEAN
    /\ pending \in SUBSET LocalTasks
    /\ state \in {"EMPTY", "PARKED", "NOTIFIED"}
    /\ waiting \in BOOLEAN
    /\ seen \in {"EMPTY", "PARKED", "NOTIFIED"}
    /\ wakeups \in 0..MaxWakeups

\* Local tasks are taken to be run in the order they were spawned, and none is
\* skipped or run twice, until shutdown() throws the rest away.
FifoOrder == ~shutdown => order = ran \o queue

Elements(s) == {s[i] : i \in 1..Len(s)}

\* The task of a thread in run_until_idle, or of one that a spawn inside it brought
\* down.
Running == IF pc[Owner] = "running" THEN {held[Owner]} ELSE {}
Failed == IF pc[Owner] = "panicked" THEN {held[Owner]} ELSE {}

Exec == INSTANCE Executor
          WITH Tasks <- LocalTasks, running <- Running, failed <- Failed,
               finished <- Elements(ran) \ (Running \cup Failed),
               dropped <- Elements(order) \ (Elements(ran) \cup Elements(queue))

\* The local queue implements the executor: each task that was spawned is taken
\* once, in the order of the spawns, and its run ends or brings the owner down,
\* unless shutdown() has dropped it unrun.
ImplementsExecutor == Exec!Spec

\* The owner never parks with a task on its queue, nor with TASK_QUEUE borrowed.
ParksIdle == pc[Owner] \in Parking => queue = <<>> /\ ~borrowed

\* A thread parked in block_on whose future is ready has been notified, or will be: the
\* permit of a wake is not lost to the steps of park().  The one wake that is lost never
\* got to the parker: the completion looked for the waker before it was stored (missed).
RootWakeRecorded ==
    mode = "block_on" /\ pc[Owner] \in Parking /\ rootReady
        => \/ state = "NOTIFIED"
           \/ \E r \in Remotes : pc[r] = "unpark" \/ (pc[r] = "join_take" /\ joinWaker)
           \/ missed

\* Why the unreachable!() after the wait is not reached, with two ways out of
\* a timed wait.
SleeperState ==
    /\ pc[Owner] \in {"lock", "waiting", "expired", "reset", "swap"} => state # "EMPTY"
    /\ state = "PARKED"
         => pc[Owner] \in {"lock", "waiting", "expired", "reset", "swap"}

Promise == INSTANCE Permit
             WITH permit <- state = "NOTIFIED", parked <- pc[Owner] \in Parking

\* ThreadParker implements a permit, with both ways out of a timed wait: an unpark()
\* is only ever overwritten by a park() that returns.
KeepsPermit == Promise!Spec

\* A task on the queue is taken from it while the owner is in block_on, unless
\* the future is ready first, a task makes the thread panic or the runtime has
\* been shut down; or the awaited task is SCHEDULED and not complete, in which case
\* JoinHandle::poll calls itself and the owner gets to nothing else.
LocalTasksAreRun ==
    \A t \in LocalTasks : (Spawned(t) /\ mode = "block_on")
        ~> (mode = "none" \/ shutdown \/ pc[Owner] = "panicked" \/ (scheduled /\ ~rootReady)
                          \/ \E i \in 1..Len(ran) : ran[i] = t)

\* Violated.  A thread parked in block_on is woken up when its future is ready and its
\* waker was found.
BlockOnReturns ==
    (mode = "block_on" /\ rootReady) ~> (mode # "block_on" \/ pc[Owner] = "panicked" \/ missed)
=============================================================================
