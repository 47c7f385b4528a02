------------------------------ MODULE MultiThread ------------------------------
(***************************************************************************)
(* The work-sharing scheduler of runtime/scheduler/multi_thread.rs: worker *)
(* threads, the injector queue, the condition variable idle workers sleep  *)
(* on, the thread inside block_on with its BlockOnParker, and shutdown.    *)
(*                                                                         *)
(* One action is one atomic access of the code (an atomic operation, a     *)
(* queue operation, a lock acquisition); a critical section that neither   *)
(* blocks nor is left early is one action.  No code in the crate pushes on *)
(* a Worker<Task> deque, so worker.pop() and stealer.steal() always come   *)
(* back empty: every task travels through the injector, and the two local  *)
(* look-ups before it are part of the step that scans the injector.        *)
(* A ThreadUnpark never learns its thread (ThreadUnpark::park has no       *)
(* caller), so its unpark() only takes and releases the unparkers lock.    *)
(***************************************************************************)
EXTENDS Integers, Sequences, FiniteSets

CONSTANTS
    Workers,     \* worker threads, num_threads of them
    Spawners,    \* threads outside the runtime that hold a Handle
    Main,        \* the thread that owns the MultiThread (block_on, shutdown)
    Outer,       \* tasks spawned from outside the runtime
    Inner,       \* tasks spawned (or woken) by another task while it runs
    Awaited,     \* the task whose JoinHandle the block_on future awaits
    NoTask,      \* a thread runs no task
    NoThread,    \* a lock is free
    Upsets,      \* which of UpsetKinds may happen
    MaxUpsets    \* bound: how many of them

Threads == Workers \cup Spawners \cup {Main}
Tasks == Outer \cup Inner

\* A spurious return of Condvar::wait or thread::park, a Steal::Retry of the injector, a
\* task that panics, a wake of the block_on waker that completes nothing.
UpsetKinds == {"spurious", "retry", "panic", "nudge"}

ASSUME ThreadsAssumption ==
    /\ IsFiniteSet(Workers) /\ IsFiniteSet(Spawners)
    /\ Workers # {}
    /\ Main \notin Workers
    /\ Main \notin Spawners
    /\ Workers \cap Spawners = {}
    /\ NoThread \notin Threads

ASSUME TasksAssumption ==
    /\ Outer \cap Inner = {}
    /\ Awaited \in Tasks
    /\ NoTask \notin Tasks

ASSUME BoundsAssumption == Upsets \subseteq UpsetKinds /\ MaxUpsets \in Nat

VARIABLES
    pc,         \* where each thread is in its code
    held,       \* the task each thread is running
    injector,   \* Shared::injector, a FIFO queue
    active,     \* Shared::active
    shutdown,   \* Shared::shutdown
    mutex,      \* owner of Shared::mutex
    unparkers,  \* owner of the Shared::unparkers lock
    waiting,    \* workers blocked in Shared::condvar.wait
    unparked,   \* BlockOnParker::unparked
    token,      \* the park token std keeps for the Main thread
    registered, \* the block_on future has handed out clones of its waker
    rootReady,  \* COMPLETE is set in the header of the awaited task
    interest,   \* ... and JOIN_INTEREST
    joinWaker,  \* ... and its join_waker is Some
    missed,     \* history: the completion looked for that waker before it was stored
    spawned, ran, discarded,  \* history: tasks created, run, taken and dropped
    failed,     \* history: tasks that panicked
    upsets,     \* how much of the bound is used
    retried     \* history: a steal has answered Retry

queueVars == <<injector, retried, upsets>>
parkVars  == <<unparked, token>>
joinVars  == <<registered, rootReady, interest, joinWaker, missed>>
taskVars  == <<held, spawned, ran, discarded, failed>>
lockVars  == <<mutex, unparkers, waiting>>
vars == <<pc, queueVars, parkVars, joinVars, taskVars, lockVars, active, shutdown>>

Goto(th, label) == pc' = [pc EXCEPT ![th] = label]

Upset(kind) ==
    /\ kind \in Upsets
    /\ upsets < MaxUpsets
    /\ upsets' = upsets + 1

Init ==
    /\ pc = [th \in Threads |-> IF th \in Workers THEN "top" ELSE "idle"]
    /\ held = [th \in Threads |-> NoTask]
    /\ injector = <<>> /\ retried = FALSE /\ upsets = 0
    /\ active = Cardinality(Workers)
    /\ shutdown = FALSE
    /\ mutex = NoThread /\ unparkers = NoThread
    /\ waiting = {}
    /\ unparked = FALSE /\ token = FALSE
    /\ registered = FALSE /\ rootReady = FALSE
    /\ interest = FALSE /\ joinWaker = FALSE /\ missed = FALSE
    /\ spawned = {} /\ ran = {} /\ discarded = {} /\ failed = {}

-----------------------------------------------------------------------------
(* Injector::steal().success(): the head of the queue, or None when the    *)
(* queue is empty or the steal lost a race and answered Steal::Retry.      *)

\* Mutant: the head is read but stays in the queue.
StealHead_Peek == injector # <<>> /\ UNCHANGED queueVars

StealHead ==
    /\ injector # <<>>
    /\ injector' = Tail(injector)
    /\ UNCHANGED <<retried, upsets>>

StealNone ==
    /\ \/ injector = <<>> /\ UNCHANGED <<retried, upsets>>
       \/ injector # <<>> /\ Upset("retry") /\ retried' = TRUE
    /\ UNCHANGED injector

-----------------------------------------------------------------------------
(* Worker threads: WorkerThread::run.                                      *)

\* while !shared.shutdown.load(); leaving the loop clears the thread-locals.
CheckShutdown(w) ==
    /\ pc[w] = "top"
    /\ Goto(w, IF shutdown THEN "exited" ELSE "scan")
    /\ UNCHANGED <<queueVars, parkVars, joinVars, taskVars, lockVars, active, shutdown>>

\* worker.pop(), steal_work() and injector.steal(): take a task and run it,
\* or go for the lock.
Scan(w) ==
    /\ pc[w] = "scan"
    /\ \/ /\ StealHead
          /\ held' = [held EXCEPT ![w] = Head(injector)]
          /\ Goto(w, "running")
       \/ /\ StealNone
          /\ Goto(w, "lock")
          /\ UNCHANGED held
    /\ UNCHANGED <<parkVars, joinVars, lockVars, spawned, ran, discarded, failed, active, shutdown>>

\* shared.mutex.lock() and active.fetch_sub(1).
LockToSleep(w) ==
    /\ pc[w] = "lock"
    /\ mutex = NoThread
    /\ mutex' = w
    /\ active' = active - 1
    /\ Goto(w, "recheck")
    /\ UNCHANGED <<queueVars, parkVars, joinVars, taskVars, unparkers, waiting, shutdown>>

\* Mutant: the early continue forgets active.fetch_add(1).
FindAndDiscard_NoAdd(w) ==
    /\ StealHead
    /\ discarded' = discarded \cup {Head(injector)}
    /\ mutex' = NoThread
    /\ Goto(w, "top")
    /\ UNCHANGED active

\* injector.steal().success().is_some() under the lock: the task that is
\* found is dropped with the Option, the worker is active again and unlocks.
FindAndDiscard(w) ==
    /\ StealHead
    /\ discarded' = discarded \cup {Head(injector)}
    /\ active' = active + 1
    /\ mutex' = NoThread
    /\ Goto(w, "top")

FindNothing(w) ==
    /\ StealNone
    /\ Goto(w, "waitloop")
    /\ UNCHANGED <<discarded, active, mutex>>

\* Mutant: no double-check before sleeping.
Recheck_Skipped(w) ==
    /\ pc[w] = "recheck"
    /\ Goto(w, "waitloop")
    /\ UNCHANGED <<queueVars, parkVars, joinVars, taskVars, lockVars, active, shutdown>>

\* Double-check for work before sleeping.
Recheck(w) ==
    /\ pc[w] = "recheck"
    /\ FindAndDiscard(w) \/ FindNothing(w)
    /\ UNCHANGED <<parkVars, joinVars, held, spawned, ran, failed, unparkers, waiting, shutdown>>

\* Mutant: the wait loop does not look at the shutdown flag.
WaitOrLeave_Always(w) ==
    /\ pc[w] = "waitloop"
    /\ mutex' = NoThread
    /\ waiting' = waiting \cup {w}
    /\ Goto(w, "waiting")
    /\ UNCHANGED <<queueVars, parkVars, joinVars, taskVars, unparkers, active, shutdown>>

\* while !shared.shutdown.load() { condvar.wait(lock) ... }: wait releases the
\* lock and joins the wait set at once; leaving the loop ends the sleep.
WaitOrLeave(w) ==
    /\ pc[w] = "waitloop"
    /\ mutex' = NoThread
    /\ IF shutdown
       THEN /\ active' = active + 1
            /\ Goto(w, "top")
            /\ UNCHANGED waiting
       ELSE /\ waiting' = waiting \cup {w}
            /\ Goto(w, "waiting")
            /\ UNCHANGED active
    /\ UNCHANGED <<queueVars, parkVars, joinVars, taskVars, unparkers, shutdown>>

\* A notified worker gets the lock back and returns from wait.
Reacquire(w) ==
    /\ pc[w] = "waiting"
    /\ w \notin waiting
    /\ mutex = NoThread
    /\ mutex' = w
    /\ Goto(w, "woken")
    /\ UNCHANGED <<queueVars, parkVars, joinVars, taskVars, unparkers, waiting, active, shutdown>>

\* Check for work again after wait.
Woken(w) ==
    /\ pc[w] = "woken"
    /\ FindAndDiscard(w) \/ FindNothing(w)
    /\ UNCHANGED <<parkVars, joinVars, held, spawned, ran, failed, unparkers, waiting, shutdown>>

\* Condvar::wait may return without a notification.
SpuriousWakeup(w) ==
    /\ w \in waiting
    /\ Upset("spurious")
    /\ waiting' = waiting \ {w}
    /\ UNCHANGED <<pc, injector, retried, parkVars, joinVars, taskVars, mutex, unparkers, active, shutdown>>

-----------------------------------------------------------------------------
(* Spawning: the injector push of spawn / Handle::spawn_task, then         *)
(* Shared::notify_worker.                                                  *)

\* Mutant: the queue is a stack.
Push_Front(th, t) ==
    /\ t \notin spawned
    /\ spawned' = spawned \cup {t}
    /\ injector' = <<t>> \o injector
    /\ Goto(th, "notify")
    /\ UNCHANGED <<parkVars, joinVars, held, ran, discarded, failed, lockVars, active, shutdown, retried, upsets>>

Push(th, t) ==
    /\ t \notin spawned
    /\ spawned' = spawned \cup {t}
    /\ injector' = Append(injector, t)
    /\ Goto(th, "notify")
    /\ UNCHANGED <<parkVars, joinVars, held, ran, discarded, failed, lockVars, active, shutdown, retried, upsets>>

Spawn(th, t) == pc[th] = "idle" /\ t \in Outer /\ Push(th, t)

\* A running task spawns or wakes another one through Handle::current().
TaskSpawns(th, t) == pc[th] = "running" /\ t \in Inner /\ Push(th, t)

\* Mutant: the push is not followed by a notification.
NotifyOne_Missing(th) ==
    /\ pc[th] = "notify"
    /\ mutex = NoThread
    /\ Goto(th, "unpark")
    /\ UNCHANGED <<queueVars, parkVars, joinVars, taskVars, lockVars, active, shutdown>>

\* { let _lock = mutex.lock(); condvar.notify_one(); }
NotifyOne(th) ==
    /\ pc[th] = "notify"
    /\ mutex = NoThread
    /\ IF waiting = {} THEN UNCHANGED waiting
                       ELSE \E w \in waiting : waiting' = waiting \ {w}
    /\ Goto(th, "unpark")
    /\ UNCHANGED <<queueVars, parkVars, joinVars, taskVars, mutex, unparkers, active, shutdown>>

\* unparkers.lock() and the unpark of one ThreadUnpark, a no-op.
UnparkOne(th) ==
    /\ pc[th] = "unpark"
    /\ unparkers = NoThread
    /\ Goto(th, IF held[th] = NoTask THEN "idle" ELSE "running")
    /\ UNCHANGED <<queueVars, parkVars, joinVars, taskVars, lockVars, active, shutdown>>

-----------------------------------------------------------------------------
(* Running a task: on a worker, on the thread inside block_on, or on a     *)
(* thread outside the pool.                                                *)

AfterRun(th) == IF th = Main THEN "poll" ELSE IF th \in Workers THEN "top" ELSE "idle"

\* Handle::block_on -> process_some_tasks on a thread outside the pool, before,
\* during or after shutdown(): it takes a task from the injector and runs it.
OutsiderRuns(th) ==
    /\ pc[th] = "idle"
    /\ StealHead
    /\ held' = [held EXCEPT ![th] = Head(injector)]
    /\ Goto(th, "running")
    /\ UNCHANGED <<parkVars, joinVars, lockVars, spawned, ran, discarded, failed, active, shutdown>>

\* The poll of a task returns Ready: fetch_or(COMPLETE), which makes the block_on future
\* ready if it is the awaited task, and tells whether JOIN_INTEREST was set.
FinishTask(th) ==
    /\ pc[th] = "running"
    /\ ran' = ran \cup {held[th]}
    /\ held' = [held EXCEPT ![th] = NoTask]
    /\ rootReady' = (rootReady \/ held[th] = Awaited)
    /\ Goto(th, IF held[th] = Awaited /\ interest THEN "join_take" ELSE AfterRun(th))
    /\ UNCHANGED <<queueVars, parkVars, registered, interest, joinWaker, missed, spawned, discarded,
                   failed, lockVars, active, shutdown>>

\* join_waker.take(): wake it, if it has been stored by now.
JoinTake(th) ==
    /\ pc[th] = "join_take"
    /\ joinWaker' = FALSE
    /\ missed' = (missed \/ (pc[Main] = "store_pending" /\ ~joinWaker))
    /\ Goto(th, IF joinWaker THEN "wake_swap" ELSE AfterRun(th))
    /\ UNCHANGED <<queueVars, parkVars, registered, rootReady, interest, taskVars, lockVars, active, shutdown>>

\* Drop for JoinHandle: a complete task loses the flag and the stored waker.
DropHandle ==
    /\ interest' = (interest /\ ~rootReady)
    /\ joinWaker' = (joinWaker /\ ~rootReady)

\* The task panics.  Nothing between its poll and the end of the thread catches that:
\* a worker is gone without active.fetch_sub or a word to anybody, block_on unwinds
\* and drops its future.
TaskPanics(th) ==
    /\ pc[th] = "running"
    /\ Upset("panic")
    /\ failed' = failed \cup {held[th]}
    /\ held' = [held EXCEPT ![th] = NoTask]
    /\ IF th = Main THEN Goto(th, "unwound") /\ DropHandle
                    ELSE Goto(th, "dead") /\ UNCHANGED <<interest, joinWaker>>
    /\ UNCHANGED <<injector, retried, parkVars, registered, rootReady, missed, spawned, ran, discarded,
                   lockVars, active, shutdown>>

\* A task wakes a clone of the block_on waker without completing.
TaskNudges(th) ==
    /\ pc[th] = "running"
    /\ registered
    /\ Upset("nudge")
    /\ Goto(th, "wake_swap")
    /\ UNCHANGED <<injector, retried, parkVars, joinVars, taskVars, lockVars, active, shutdown>>

ResumeAt(th) == IF held[th] = NoTask THEN AfterRun(th) ELSE "running"

\* Mutant: the test of the swapped flag is inverted.
UnparkSwap_Inverted(th) ==
    /\ pc[th] = "wake_swap"
    /\ unparked' = TRUE
    /\ Goto(th, IF unparked THEN "wake_token" ELSE ResumeAt(th))
    /\ UNCHANGED <<queueVars, token, joinVars, taskVars, lockVars, active, shutdown>>

\* BlockOnParker::unpark: if !unparked.swap(true) ...
UnparkSwap(th) ==
    /\ pc[th] = "wake_swap"
    /\ unparked' = TRUE
    /\ Goto(th, IF unparked THEN ResumeAt(th) ELSE "wake_token")
    /\ UNCHANGED <<queueVars, token, joinVars, taskVars, lockVars, active, shutdown>>

\* ... { self.thread.unpark() }
UnparkToken(th) ==
    /\ pc[th] = "wake_token"
    /\ token' = TRUE
    /\ Goto(th, ResumeAt(th))
    /\ UNCHANGED <<queueVars, unparked, joinVars, taskVars, lockVars, active, shutdown>>

-----------------------------------------------------------------------------
(* The owner of the runtime: block_on, then the Drop that shuts down.      *)

StartBlockOn ==
    /\ pc[Main] = "idle"
    /\ Goto(Main, "poll")
    /\ UNCHANGED <<queueVars, parkVars, joinVars, taskVars, lockVars, active, shutdown>>

\* future.poll(&mut cx) is JoinHandle::poll: its first load of the state.  The future
\* is dropped when it is Ready, and otherwise has a clone of the waker.
PollRoot ==
    /\ pc[Main] = "poll"
    /\ IF rootReady
       THEN Goto(Main, "returned") /\ DropHandle /\ UNCHANGED registered
       ELSE Goto(Main, "register") /\ registered' = TRUE /\ UNCHANGED <<interest, joinWaker>>
    /\ UNCHANGED <<queueVars, parkVars, rootReady, missed, taskVars, lockVars, active, shutdown>>

\* set_join_waker: fetch_or(JOIN_INTEREST) tells whether the task has completed by
\* now; a task that is SCHEDULED passes for complete.
RegisterRoot ==
    /\ pc[Main] = "register"
    /\ interest' = TRUE
    /\ \/ Goto(Main, "store_again")
       \/ ~rootReady /\ Goto(Main, "store_pending")
    /\ UNCHANGED <<queueVars, parkVars, registered, rootReady, joinWaker, missed, taskVars, lockVars,
                   active, shutdown>>

\* ... then the store of the waker: poll again, or Pending.
StoreRoot ==
    /\ pc[Main] \in {"store_again", "store_pending"}
    /\ joinWaker' = TRUE
    /\ Goto(Main, IF pc[Main] = "store_again" THEN "poll" ELSE "steal")
    /\ UNCHANGED <<queueVars, parkVars, registered, rootReady, interest, missed, taskVars, lockVars,
                   active, shutdown>>

\* self.steal_work(): help with a task if there is one.
HelpOrIdle ==
    /\ pc[Main] = "steal"
    /\ \/ /\ StealHead
          /\ held' = [held EXCEPT ![Main] = Head(injector)]
          /\ Goto(Main, "running")
       \/ /\ StealNone
          /\ Goto(Main, "idle_check")
          /\ UNCHANGED held
    /\ UNCHANGED <<parkVars, joinVars, lockVars, spawned, ran, discarded, failed, active, shutdown>>

\* if injector.is_empty() { parker.park() } else { yield_now() }
IdleCheck ==
    /\ pc[Main] = "idle_check"
    /\ Goto(Main, IF injector = <<>> THEN "park_swap" ELSE "poll")
    /\ UNCHANGED <<queueVars, parkVars, joinVars, taskVars, lockVars, active, shutdown>>

\* BlockOnParker::park: while !unparked.swap(false) { thread::park() }
ParkSwap ==
    /\ pc[Main] = "park_swap"
    /\ unparked' = FALSE
    /\ Goto(Main, IF unparked THEN "poll" ELSE "park_thread")
    /\ UNCHANGED <<queueVars, token, joinVars, taskVars, lockVars, active, shutdown>>

\* thread::park() returns when the token is there, or spuriously.
ParkThread ==
    /\ pc[Main] = "park_thread"
    /\ \/ token /\ UNCHANGED upsets
       \/ ~token /\ Upset("spurious")
    /\ token' = FALSE
    /\ Goto(Main, "park_swap")
    /\ UNCHANGED <<injector, retried, unparked, joinVars, taskVars, lockVars, active, shutdown>>

\* shutdown(): shutdown.store(true).
ShutdownStore ==
    /\ pc[Main] \in {"idle", "returned", "unwound"}
    /\ shutdown' = TRUE
    /\ Goto(Main, "sd_notify")
    /\ UNCHANGED <<queueVars, parkVars, joinVars, taskVars, lockVars, active>>

\* Mutant: shutdown notifies one worker only.
ShutdownNotifyAll_One ==
    /\ pc[Main] = "sd_notify"
    /\ mutex = NoThread
    /\ IF waiting = {} THEN UNCHANGED waiting
                       ELSE \E w \in waiting : waiting' = waiting \ {w}
    /\ Goto(Main, "sd_unpark")
    /\ UNCHANGED <<queueVars, parkVars, joinVars, taskVars, mutex, unparkers, active, shutdown>>

\* { let _lock = mutex.lock(); condvar.notify_all(); }
ShutdownNotifyAll ==
    /\ pc[Main] = "sd_notify"
    /\ mutex = NoThread
    /\ waiting' = {}
    /\ Goto(Main, "sd_unpark")
    /\ UNCHANGED <<queueVars, parkVars, joinVars, taskVars, mutex, unparkers, active, shutdown>>

\* let unparkers = self.shared.unparkers.lock(): held to the end of shutdown().
ShutdownUnparkAll ==
    /\ pc[Main] = "sd_unpark"
    /\ unparkers = NoThread
    /\ unparkers' = Main
    /\ Goto(Main, "sd_join")
    /\ UNCHANGED <<queueVars, parkVars, joinVars, taskVars, mutex, waiting, active, shutdown>>

\* Mutant: the loop over the workers is left after the first one is joined.
ShutdownJoin_One ==
    /\ pc[Main] = "sd_join"
    /\ \E w \in Workers : pc[w] \in {"exited", "dead"}
    /\ unparkers' = NoThread
    /\ Goto(Main, "closed")
    /\ UNCHANGED <<queueVars, parkVars, joinVars, taskVars, mutex, waiting, active, shutdown>>

\* worker.join() for every worker, whatever it says, then the guard goes out of scope.
ShutdownJoin ==
    /\ pc[Main] = "sd_join"
    /\ \A w \in Workers : pc[w] \in {"exited", "dead"}
    /\ unparkers' = NoThread
    /\ Goto(Main, "closed")
    /\ UNCHANGED <<queueVars, parkVars, joinVars, taskVars, mutex, waiting, active, shutdown>>

-----------------------------------------------------------------------------
WorkerStep(w) ==
    \/ CheckShutdown(w) \/ Scan(w) \/ LockToSleep(w) \/ Recheck(w)
    \/ WaitOrLeave(w) \/ Reacquire(w) \/ Woken(w)

\* What any thread that spawns or runs tasks does on its own.
CallStep(th) ==
    NotifyOne(th) \/ UnparkOne(th) \/ FinishTask(th) \/ JoinTake(th) \/ UnparkSwap(th) \/ UnparkToken(th)

BlockOnStep == PollRoot \/ RegisterRoot \/ StoreRoot \/ HelpOrIdle \/ IdleCheck \/ ParkSwap \/ ParkThread

ShutdownStep == ShutdownNotifyAll \/ ShutdownUnparkAll \/ ShutdownJoin

\* What the program may or may not do.
Environment ==
    \/ \E th \in Spawners \cup {Main}, t \in Outer : Spawn(th, t)
    \/ \E th \in Spawners : OutsiderRuns(th)
    \/ \E th \in Threads, t \in Inner : TaskSpawns(th, t)
    \/ \E th \in Threads : TaskNudges(th) \/ TaskPanics(th)
    \/ \E w \in Workers : SpuriousWakeup(w)
    \/ StartBlockOn
    \/ ShutdownStore

Next ==
    \/ \E w \in Workers : WorkerStep(w)
    \/ \E th \in Threads : CallStep(th)
    \/ BlockOnStep
    \/ ShutdownStep
    \/ Environment

Spec == Init /\ [][Next]_vars

\* Every thread that can take its next step keeps being scheduled, and a task
\* that is being polled returns.  Nothing forces spawns, wakes or shutdown.
Fairness ==
    /\ \A w \in Workers : WF_vars(WorkerStep(w))
    /\ \A th \in Threads : WF_vars(CallStep(th))
    /\ WF_vars(BlockOnStep)
    /\ WF_vars(ShutdownStep)

FairSpec == Spec /\ Fairness
-----------------------------------------------------------------------------
(* Properties.                                                             *)

Labels == {"top", "scan", "lock", "recheck", "waitloop", "waiting", "woken", "exited", "dead",
           "running", "join_take", "notify", "unpark", "wake_swap", "wake_token",
           "idle", "poll", "register", "store_again", "store_pending", "steal", "idle_check",
           "park_swap", "park_thread", "returned", "unwound",
           "sd_notify", "sd_unpark", "sd_join", "closed"}

StateTypes ==
    /\ pc \in [Threads -> Labels]
    /\ held \in [Threads -> Tasks \cup {NoTask}]
    /\ injector \in Seq(Tasks)
    /\ active \in Int
    /\ shutdown \in BOOLEAN
    /\ mutex \in Threads \cup {NoThread}
    /\ unparkers \in Threads \cup {NoThread}
    /\ waiting \in SUBSET Workers
    /\ unparked \in BOOLEAN /\ token \in BOOLEAN
    /\ registered \in BOOLEAN /\ rootReady \in BOOLEAN
    /\ interest \in BOOLEAN /\ joinWaker \in BOOLEAN /\ missed \in BOOLEAN
    /\ spawned \in SUBSET Tasks
    /\ ran \in SUBSET Tasks
    /\ discarded \in SUBSET Tasks
    /\ failed \in SUBSET Tasks
    /\ upsets \in 0..MaxUpsets
    /\ retried \in BOOLEAN

\* Type correctness of the scheduler state; the counter of active workers, a
\* usize, never goes below zero or above the number of workers.
TypeOK == StateTypes /\ active \in 0..Cardinality(Workers)

\* Workers between active.fetch_sub and the matching fetch_add.
Drowsy == {w \in Workers : pc[w] \in {"recheck", "waitloop", "waiting", "woken"}}

\* Shared::active is always the number of workers that are not in the sleep
\* section of WorkerThread::run, whichever of its three exits they take.
ActiveCount == active = Cardinality(Workers) - Cardinality(Drowsy)

Queued == {injector[i] : i \in 1..Len(injector)}
Running == {held[th] : th \in Threads} \ {NoTask}

\* A spawned task is in exactly one place: once in the injector, on one thread, run,
\* failed or discarded.  No two threads ever run the same queue entry.
OnePlace ==
    /\ \A i, j \in 1..Len(injector) : injector[i] = injector[j] => i = j
    /\ \A a, b \in Threads : held[a] = held[b] /\ held[a] # NoTask => a = b
    /\ spawned = Queued \cup Running \cup ran \cup discarded \cup failed
    /\ Queued \cap (Running \cup ran \cup discarded \cup failed) = {}
    /\ Running \cap (ran \cup discarded \cup failed) = {}

Exec == INSTANCE Executor
          WITH queue <- injector, running <- Running, finished <- ran, dropped <- discarded

\* The scheduler implements the executor: tasks leave the queue in the order of the
\* pushes, each by one thread, and each that is taken to be run is run to its end or
\* its panic.  The one way to lose a task is the look for work around the sleep.
ImplementsExecutor == Exec!Spec

Notifying == {th \in Threads : pc[th] = "notify"}
Roused == {w \in Workers \ waiting : pc[w] \in {"waiting", "woken"}}

\* The push / notify_one protocol loses no wakeup: while any worker is asleep, there
\* is for each task in the injector a push still to be notified, or a worker that
\* was notified and has yet to look at the queue.  A steal that answered Retry
\* breaks this; a worker lost to a panic does not.
NoSleepThroughWork ==
    ~retried /\ waiting # {} => Len(injector) <= Cardinality(Notifying) + Cardinality(Roused)

\* Once shutdown() has notified all workers, none of them is asleep and none
\* falls asleep again: the flag is tested under the lock before every wait.
NoSleeperAfterShutdown ==
    pc[Main] \in {"sd_unpark", "sd_join", "closed"} => waiting = {}

RootPermit == INSTANCE Permit
                WITH permit <- unparked, parked <- pc[Main] \in {"park_swap", "park_thread"}

\* BlockOnParker keeps the permit of a parker: an unpark() between two returns of
\* park() makes the next one return, and nothing but that return takes it back.
RootParkerKeepsPermit == RootPermit!Spec

\* When shutdown() has returned, no task is left on a thread of the pool or on the owner:
\* what was spawned has been run, has panicked, was discarded, stays in the injector, or
\* is run by a thread outside the pool, which Handle::block_on lets it do at any time.
QuietAfterShutdown ==
    pc[Main] = "closed" =>
        /\ unparkers = NoThread
        /\ Running \subseteq {held[th] : th \in Spawners}

Unparking == \E th \in Threads : pc[th] \in {"wake_swap", "wake_token"}

\* BlockOnParker loses no wakeup: a thread parked without a token has an unpark() under
\* way if its flag is set, and if its future is ready an unpark() or a completion that
\* is about to find its waker.  What is lost is lost before the parker is told: the
\* completion looked for the waker between the fetch_or and the store (missed).
RootWakeNotLost ==
    pc[Main] = "park_thread" /\ ~token =>
        /\ unparked => Unparking
        /\ rootReady => \/ missed \/ Unparking
                        \/ joinWaker /\ \E th \in Threads : pc[th] = "join_take"

\* Work pushed on the injector is eventually taken from it, by a worker or by the
\* block_on thread, unless the runtime shuts down first or has lost all its workers.
WorkIsTaken ==
    \A t \in Tasks : (t \in Queued)
        ~> (t \notin Queued \/ shutdown \/ \A w \in Workers : pc[w] = "dead")

InBlockOn ==
    pc[Main] \in {"poll", "register", "store_again", "store_pending", "steal", "idle_check",
                 "park_swap", "park_thread", "running"}

\* block_on returns once the task it awaits has completed, unless a task that the
\* thread helps with panics in it, or the completion missed its waker: that one wakes
\* nobody, and block_on may stay parked for ever.
BlockOnReturns == (rootReady /\ InBlockOn) ~> (pc[Main] \in {"returned", "unwound"} \/ missed)

\* shutdown() comes back: every worker leaves its loop and is joined.
ShutdownCompletes == shutdown ~> pc[Main] = "closed"
=============================================================================
