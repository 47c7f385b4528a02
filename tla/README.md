# Verification of loony-rs-runtime

TLA+ specifications of the async runtime in `src/`, the TLC configurations that
check them on small instances, and TLAPS proofs of the properties that matter
most for every value of the constants. Paths below are relative to `src/src/`.

The crate is work in progress and does not compile as it stands
(`task/mod.rs` and `task/raw.rs` disagree about `Header`, `Shared` is not a
`Fn(*const Header)`, `spawn_local_task` does not exist). Where two versions of
the same thing exist, the models follow the one the rest of the code is written
against: `task/raw.rs` with `task/mod.safe.rs`. Where a call cannot resolve, its
evident meaning is taken (`Handle::spawn` ends in `Handle::spawn_task`).

## 1. The system

| Component | Code | State | Operations |
|---|---|---|---|
| Multi-thread scheduler | `runtime/scheduler/multi_thread.rs` | injector queue, `active`, `shutdown`, `mutex` + `condvar`, `unparkers`, worker threads, `BlockOnParker` of a `block_on` call | `WorkerThread::run`, `spawn`, `notify_worker`, `block_on`, `shutdown` |
| Current-thread scheduler | `runtime/scheduler/current_thread.rs` | thread-local `TASK_QUEUE` and `PARKER`, `ThreadParker`, `shutdown` | `block_on`, `run_until_idle`, `spawn`, `spawn_task`, `spawn_local`, `turn`, `shutdown` |
| Raw task and JoinHandle | `task/raw.rs`, `task/mod.safe.rs` | state word (state, ABORTED, JOIN_INTEREST, reference count), output, `join_waker` | `run`/`poll`, `schedule`, wake, clone and drop of wakers, `deallocate`; `JoinHandle::poll`, `abort`, `drop` |
| ThreadPark | `runtime/park.rs` 9-111 | `state`, `mutex`, `condvar` | `park`, `park_timeout`, `unpark` |
| Handle::block_on | `runtime/handle.rs` 93-259 | future, waker and `completed` under a lock | `block_on_with_worker`, `block_on_simple`, `process_some_tasks` |
| Runtime context | `ContextGuard`, `EnterGuard`, `Handle::current` | `CURRENT_CONTEXT`, `CURRENT_WORKER` per thread | enter, drop of a guard, current |
| Timers | `park::{Parker, TimeDriver}`, `time/mod.rs` | heap of deadlines and wakers | `schedule`, `next_deadline`, `process`, `park_timeout`, `Sleep::poll` |
| Waker references | vtables in `park.rs`, `current_thread.rs`, `task/waker.rs` | `Arc` counts | clone, wake, wake_by_ref, drop |
| SleepPark, YieldPark | `runtime/park.rs` 192-332 | one flag | park, unpark |
| I/O driver | `runtime/park.rs` | mio poll, an empty slab of wakers | register, poll |
| Runtime, Builder | `runtime/mod.rs`, `runtime/builder.rs` | which scheduler | dispatch; `Drop` calls `shutdown` |

How they interact. `spawn` creates a raw task with a *schedule closure* and
pushes it on a queue: the injector (multi-thread) or `TASK_QUEUE` (current
thread). A scheduler thread takes it and calls `Task::run`, which polls the
future once with a fresh waker. A waker moves an IDLE task to SCHEDULED and calls
the closure, which pushes the task on the injector of the *calling thread's*
runtime context, or, without one, runs it right there. Completion wakes the
waker the owner's `JoinHandle` stored; in `block_on` that waker unparks the
thread that waits. All of it is shared-memory concurrency: atomics, one mutex and
condition variable per scheduler or parker, park tokens of `std`.

What is hard here, and what makes each part right:

* *Sleeping.* Each sleeper (workers, both kinds of `block_on`, `ThreadPark`)
  announces itself, looks again and waits; each waker changes the state and
  notifies. A sleeper must not sleep over work or over a permit.
* *The task state word.* One word is a state, two flags and a count. Wakes,
  polls, completion, abort and drops race on it. A task must be polled by one
  thread at a time, must be polled again after each wake, must be freed once and
  only when nobody refers to it.
* *The join protocol.* Interest and waker are stored in two steps, completion
  reads both: the owner must be told, and be told the truth.
* *Shutdown.* A flag, two kinds of notification and a join, against threads that
  are anywhere in their code.
* *Ownership.* A task is in one place; a local task stays on its thread; a waker
  may outlive what it points to.
* *Hand-counted references.* The vtables convert `Arc`s to raw pointers and back; each
  function has to leave the count as it found it, less or plus its own waker.
* *Context.* Which runtime a spawn or a wake goes to depends on guards that
  futures may keep across an await.
* *Time.* Deadlines are read under one lock, compared with a clock read after or
  before it, and slept on without it.

Nothing is persisted and nothing goes over a network, so there is no crash
recovery and no message loss; what fails here is a poll that panics, a steal that
answers `Retry`, and a wait that returns early. The hazards are listed one by one,
each at its line, in `PROJECT.json`.

## 2. The modules

| Module | Models | Checked with |
|---|---|---|
| `MultiThread` | the multi-thread scheduler | `MCMultiThread`, `MultiThread_*.cfg` |
| `Executor` | abstract: what becomes of the tasks given to a scheduler | as a property of `MultiThread` and `CurrentThread` |
| `RawTask` | one task, its wakers, its JoinHandle | `MCRawTask`, `RawTask_*.cfg` |
| `Permit` | abstract: what a parker promises | as a property of `ThreadPark`, `CurrentThread` and `FlagPark` |
| `ThreadPark` | the parker of `park.rs` | `MCThreadPark`, `ThreadPark_safety.cfg` |
| `CurrentThread` | the current-thread scheduler with its own parker | `MCCurrentThread`, `CurrentThread_*.cfg` |
| `HandleBlockOn` | one `Handle::block_on`, its waker, `process_some_tasks` | `MCHandleBlockOn`, `HandleBlockOn_safety.cfg` |
| `Context` | the thread-local runtime context and its guards | `MCContext`, `Context_safety.cfg` |
| `FlagPark` | `SleepPark`, `YieldPark`, and the counts of their wakers | `MCFlagPark`, `FlagPark_safety.cfg` |
| `Timers` | `TimeDriver` of `park.rs` and the `Parker` that sleeps by it | `MCTimers`, `Timers_safety.cfg` |
| `TimerService` | abstract: what a timer driver promises | as a property of `Timers` |
| `*_proofs` | theorems about the module of that name | TLAPS |

Which parts meet. `MultiThread` runs tasks as `RawTask` describes them, with the
wakes that `RawTask` has; `RawTask` is given the threads with a context, which `Context`
says more about; `Timers` rests on the permit that `ThreadPark` is shown to implement,
and the context moves of `HandleBlockOn` are those of `Context`.

Conventions. Every thread has a program counter `pc[th]`; an action is one atomic
access of the code (an atomic operation, a queue operation, a lock acquisition),
and a critical section that neither blocks nor is left early is one action. A
compare-exchange loop without side effects is one action. Definitions named
`Action_Something` are the code with a plausible mistake in it; each breaks a
property (`mutants` in `PROJECT.json`) and none is part of `Next`.

### MultiThread

`pc` follows `WorkerThread::run`: `top` (the flag) - `scan` (queues) - `lock` -
`recheck` - `waitloop` - `waiting` - `woken`, and `exited`. A thread that spawns
goes through `notify` (mutex and `notify_one`) and `unpark` (the `unparkers` lock).
The owner is in `block_on` (`poll`, `register`, `store_again`, `store_pending`, `steal`,
`idle_check`, `park_swap`, `park_thread`) or in `shutdown()` (`sd_notify`, `sd_unpark`,
`sd_join`, `closed`). A thread that wakes the block_on waker does the two steps of
`BlockOnParker::unpark` (`wake_swap`, `wake_token`). `waiting` is the wait set of the
condition variable, `token` the park token of the owner's thread.

The future of `block_on` is the `JoinHandle` of the task `Awaited`. Its poll is three
steps: the load of the state (`PollRoot`), `fetch_or(JOIN_INTEREST)` (`RegisterRoot`) and
the store of the waker (`StoreRoot`); the completion is two: `fetch_or(COMPLETE)`
(`FinishTask`) and the `take` of the waker (`JoinTake`, at `join_take`). `missed` records
a completion that takes between the `fetch_or` and the store, and finds nothing.
`set_join_waker` answers that the task is complete when it is only SCHEDULED; the
scheduler does not follow the state word of a task, so `RegisterRoot` may answer so at
any time (`store_again`).

Threads outside the pool (`Spawners`) spawn tasks, and run them: `Handle::block_on` helps
with the injector in `process_some_tasks`, before, during and after `shutdown()`
(`OutsiderRuns`).

Abstractions:

* No code pushes on a worker's deque, so `worker.pop()` and the stealers find
  nothing, and both are part of the step that scans the injector. For the same
  reason the `stealers` lock protects nothing the model could tell apart.
* `Injector::steal` takes the head, or gives nothing: the queue is empty, or
  it answered `Retry`. This, a wait that returns early, a task that panics and a wake that
  completes nothing are the `Upsets`; `MaxUpsets` bounds their number in a run, the proofs
  are for any bound and any set of them.
* `ThreadUnpark::park` has no caller, so a `ThreadUnpark` has no thread and its
  `unpark()` does nothing; what is left is the `unparkers` lock, and that matters
  (see `MultiThread_shutdown`).
* A run of a task may spawn or wake other tasks, wake the block_on waker, and ends;
  a task that is pending and woken later is an `Inner` task pushed once more, so
  that a name stands for one entry of the queue and not for a task
  (`t \notin spawned` in `Push` is this naming, not a test in the code).
* One call of `block_on`, then `shutdown`, as `Runtime` and its `Drop` do, or
  `shutdown` at once.
* A task that panics (`TaskPanics`) ends its worker (`dead`), since nothing between
  `task.run()` and the end of the thread catches it; in the owner's thread it unwinds
  block_on, after which `Drop` shuts the runtime down. `worker.join()` returns for a
  dead worker too.

`Executor` keeps of all this what becomes of the tasks: a queue, and the sets of
tasks that run, finished, failed and were dropped. `ImplementsExecutor` is the
refinement with `queue <- injector` and `running` the tasks that threads hold. Its
action `Drop` is there because the code has it: `FindAndDiscard`. `Clear` is what the
current-thread `shutdown` does to its queue; `MultiThread` has no such step, its
`shutdown` leaves the rest in the injector. `RootParkerKeepsPermit` says of
`BlockOnParker` what `KeepsPermit` says of the other parkers.

### RawTask

`life` is the two state bits, `refs` the count. The count is kept as a signed
number and read through `Refcount == refs % 65536`, as `refcount()` masks 16 bits
of a word that wraps: taking one from zero borrows from bits nothing reads.
`depth[th]` counts polls of this task suspended below the current one on the same
stack: the inline fallback of the schedule closure polls there, and so does a
future that calls `Handle::block_on`, whose `process_some_tasks` takes the task from
the queue (`Run` is open to a thread inside the poll, `InUserCode`).
`Context` is the set of threads with a runtime context. `queue` is how many times
the task is in a run queue.

The vtable functions map one to one: `CloneWaker`, `Wake`, `WakeByRef`,
`DropWaker`; `Run` to `DropPollWaker` are the steps of `VTableFor::poll`
(`PollReady`/`PollPending`, `MarkComplete`, `WakeJoiner`, `ReleasePoll`); `PollPanics`
and `Unwind` are a future that panics: nothing catches it, and the wakers of all
polls on the stack are dropped. `JoinPoll` to `JoinStore` are `JoinHandle::poll`
with `try_read_output` and `set_join_waker`. `poll` needs `&mut` and `abort` `&`, so
`Abort` happens between polls.

The store of `join_waker` and its `take` are not synchronised: a data race. The
model has both orders, and `missed` records the one in which nobody is woken; a torn value is
not modelled. Nothing is modelled after `deallocate`.

### ThreadPark and Permit

`ThreadPark` has every atomic access of `park_timeout` and `unpark`. A timeout and a
spurious return take the same path and are one action. There is one parking
thread, as every use in the crate has; with two of them the second to come would
find PARKED and spin, and the `unreachable!()` could be reached.

`Permit` is two booleans and three actions: `Unpark` leaves a permit, only the
return of `park()` takes it. `KeepsPermit` is the refinement with
`permit <- state = "NOTIFIED"` and `parked <- pc[Parker] # "out"`.

### CurrentThread

The owner thread is `out` of the runtime, in `block_on` or `turn` (`poll`, `drain`,
`running` and the steps of its parker), or has `panicked`. Its parker differs from
`ThreadPark`: `park()` has no timeout, and a timeout leaves by a store of EMPTY
(`ParkExpired`, `ParkReset`). Only the parker is shared, so the owner's own code is
cut where tasks start and end. Remote threads push on the injector of a `Handle`
(`HandleSpawn`), and wake tasks (`RemoteRuns`): no thread has a runtime context here,
so the task runs on the thread that wakes it. The `Awaited` task is the one the
block_on future joins: `JoinHandle::poll` is the three steps of `MultiThread`, a completion
on a remote thread has its own step for the `take` of the waker (`JoinTake`), one on the
owner cannot fall into the poll. `scheduled` is whether the awaited task has been woken:
then `set_join_waker` takes it for complete and `JoinHandle::poll` calls itself
(`store_again`). `borrowed` is the
`RefCell` of `TASK_QUEUE`, which `run_until_idle` keeps borrowed while it runs tasks.
`ImplementsExecutor` maps the local queue to the abstract one, the history of runs to
`finished`, and what was spawned and is neither queued nor run to `dropped`; a task that
brings the owner down is `failed`. `KeepsPermit` maps the parker to `Permit`.

### HandleBlockOn

One call: `idle` - `check` (the lock, and `completed`) - `polling` (with the lock held)
- `tasks`/`running` (`process_some_tasks`, on this thread) - and out: `leaving`,
`unreachable`, `panicking`. `mode` is the loop that the context of the thread chose.
`refs` is the strong count of the `Arc<Mutex<BlockOnState>>`; `clones` are wakers alive
elsewhere, which hold no count, and `waking` are wakes by value between
`completed = true` and the drop of the `Arc` they made. A batch of tasks ends after ten
of them, with an empty queue, or with a steal that answers `Retry`: `TasksDone` may happen
after any number. `BlockOnState::waker` is never
set, so a wake by reference does nothing and has no action, unless the future makes it
in its own poll (`SelfWake`: the lock is a `parking_lot` mutex, the thread blocks on
itself). Once the count reaches zero under the call (`~Alive`) nothing more is
modelled of its state.

### Context

`guards[th]` are the guards alive that a thread created. `ContextGuard` is a local of
`block_on` and is dropped by its own thread, the last one first; an `EnterGuard` is a
value and may be dropped in any order by any thread (`DropEnter`). `orderly` remembers
for which threads neither that nor a `shutdown()` inside a guard has happened.

### FlagPark

`kind` chooses the parker in `Init`. `token` is the park token of the thread that parks;
since `unpark` calls `thread::current().unpark()`, only an `unpark` by that thread sets it.
`refs` is followed through the four vtable functions, which are the same for all
parkers of the crate: `clone` clones the `Arc` twice and forgets one. `KeepsPermit` maps
the flag to the permit; a timed park that has done its one swap (`dozing`) counts as
returned, for it does not look at the flag again.

### Timers

One thread, `Owner`, parks; it and the `Helpers` call `process`; any thread schedules
timers and unparks. The clock is an integer that may tick between any two steps. `process`
reads it before it takes the lock (`ProcessClock`, `ProcessLock`) and calls wakers with the
lock held (`ProcessWake`): a waker that runs a task in place which comes back for the lock
ends in `selflock`, and one that panics leaves the lock `poisoned`, after which every
`lock().unwrap()` panics. `park_timeout` is `ParkLook` (`next_deadline`), `ParkClock` (the
clock, and the *duration* `span` worked out from it), `ParkWait` (the wait begins, for that
long from then on) and `ParkReturns`. `drift` counts the ticks between the clock and the
wait. `Year` is the timeout of `ThreadPark::park`, beyond the horizon.

`TimerService` is a clock, the pending timers and those that have fired: a timer fires
once, not before its deadline and not before a pending one that is due earlier.
`KeepsPromise` is the refinement with `pending <- heap`; the lock and the time that
`process` read are hidden.

## 3. The runs

| Run | Shows | Distinct states |
|---|---|---|
| `MultiThread_safety` | counter, ownership, both wakeup protocols, shutdown against sleepers, the pool is quiet after it, refinement of `Executor` | 1.4 million (workers symmetric) |
| `MultiThread_liveness` | queued work is taken, block_on returns, shutdown completes | 135,187 |
| `RawTask_safety` | count, number of polls, join outcome, the owner's waker, what is left when the header is freed | 75,658 |
| `ThreadPark_safety` | no `unreachable!()`, refinement of `Permit` | 293 |
| `CurrentThread_safety` | refinement of `Executor` and of `Permit`, a wake of the root is recorded, every local task is taken | 30,636 |
| `HandleBlockOn_safety` | what a wake does to the call and its count; a ready output is returned | 17,100 |
| `Context_safety` | nested guards give the right context | 361,044 |
| `FlagPark_safety` | counts, one return per unpark, refinement of `Permit` | 14,332 |
| `Timers_safety` | refinement of `TimerService`, no timer early or passed over, how far a sleep goes past a deadline | 999,960 |

Bounds and why they are enough to be interesting:

* `MultiThread`: two workers (one sleeps while the other is anywhere), one spawner
  besides the owner, two outer tasks and one that a task spawns, and one upset of any
  kind (early return, `Retry`, panic, stray wake). The lost-wakeup argument is about one push and
  one sleeper at a time; the second worker and task make `notify_one` choose, and
  let the owner help. The liveness run has no inner task, since with one
  `shutdown()` can deadlock (below), and no `Retry`, since then work can sleep.
* `RawTask`: two threads that take the task from queues, one with a context and one
  without, and one that only has wakers; two clones. Every pair of racing
  operations occurs; no task is polled more than twice, so two polls on one stack are
  all there can be.
* `ThreadPark`: three unparkers and three early returns, more than the at most two
  wakes that matter between two accesses of the parker.
* `CurrentThread`: two local tasks, one of them awaited, one task spawned through
  the handle, one remote thread, one early return of a wait.
* `HandleBlockOn`: three wakers (the second wake frees the state, the third finds it
  freed), a batch of two for the ten of the code, and three tasks queued, so that the
  limit is reached with work left.
* `Context`: a worker and an outside thread, two runtimes, two guards per thread: one
  dropped out of order or on the other thread with another below it.
* `FlagPark`: two unparkers besides the parking thread, two wakers, two clones, three
  unparks, one spurious return.
* `Timers`: two timers (one before or after the other), two threads that process them,
  one of which parks, four instants, timeouts shorter and longer than the deadlines, one
  early return. A panic of a waker is not bounded: the first one is the last.

`CHECK_DEADLOCK FALSE` is set where the system may stop: a runtime that has been
shut down, a freed task, a thread that panicked or an owner that waits for ever.
`ThreadPark_safety` and `Timers_safety` check deadlock.

### Where the code does something else than it says

Three runs check a statement of a comment or a doc and end in a counterexample; in
eight other findings the property of a passing run states what the code does instead
(`findings` in `PROJECT.json` quotes the lines).

| Run | What happens |
|---|---|
| `MultiThread_shutdown` | `shutdown()` joins the workers while it holds `unparkers`; a task that spawns waits for that lock |
| `RawTask_twice` | nothing sets RUNNING, so a wake during the first poll starts a second poll beside it |
| `CurrentThread_hang` | an unpark between the PARKED exchange and the wait is not heard: block_on sleeps with its future ready |
| `MultiThread_safety` (`ImplementsExecutor`) | the checks around the sleep steal a task just to see that there is one, and drop it: the abstract executor has to allow `Drop` |
| `RawTask_safety` (`PolledAtMostTwice`) | nothing resets SCHEDULED, so a task that is pending after its second poll cannot be woken |
| `HandleBlockOn_safety` (`CondemnedForGood`) | a wake by value ends the call in `unreachable!()`, a wake from inside the poll blocks it for ever |
| `FlagPark_safety` (`KeepsPermit`) | `SleepPark::unpark` unparks the thread that calls it: all that is left for the sleeper is the flag, and nobody wakes it (theorem `SleeperIsDeaf`) |
| `MultiThread_liveness` (`BlockOnReturns`) | a completion between `fetch_or(JOIN_INTEREST)` and the store of the waker wakes nobody, and block_on parks for ever: the property has to except `missed` |
| `RawTask_safety` (`OwnerIsTold`) | the same window seen from the task: complete, the waker stored, and no thread left to take it |
| `RawTask_safety` (`JoinOutcome`) | an abort after the completion turns the result into `Aborted`, whose doc says "before completion" |
| `CurrentThread_safety` (`LocalTasksAreRun`) | SCHEDULED passes for COMPLETE in `set_join_waker`: `JoinHandle::poll` calls itself without end, and no local task is run |

`ThreadPark` has the window of `CurrentThread_hang` too, bounded by its timeout of a
year.

Other deviations that follow from the same actions and have no run: a waker
used on another thread polls a local task there (`RemoteRuns`); an
aborted task that is queued is polled (`Run` has no guard on `aborted`, since neither
`Task::run` nor `poll` looks at the flag, although the test `test_task_abort` expects
it); a count that polls take two from and clones give one to reaches 1 while wakers
are alive, or never (`RefcountLaw` gives its exact value), so that no header is freed
in good order (`FreedWithRest`); a
panic is not reported to the owner, and the worker it ends is still counted active;
`Steal::Retry` is taken for an empty queue; a
task spawned through the handle of a current-thread runtime stays in the injector;
`spawn_local` inside a task panics on the borrowed queue; wakers of `block_on`
outlive the parker they point to; a second wake by value frees the state of a
`Handle::block_on` under the call (`RefsLaw`); a clone of a parker's waker is never
fully given back (`CountLaw`); a deadline that has passed lets the parker sleep on
(`late` in `SleepsToDeadline`); what `park_timeout` sleeps is counted from the start of the
wait and not from the reading of the clock (`drift`); a timer that is scheduled after the
look does not wake the parker (`known`); a waker that panics poisons the lock on the timers,
and every later call panics (`poisoned`); `YieldPark` never waits, since `should_park` is never set;
`shutdown()` clears the context of a thread that is inside another runtime's guard.

## 4. Fairness

`FairSpec` of `MultiThread` has weak fairness of each worker's step, of each
thread's spawn and wake steps, of the block_on and of the shutdown steps: the
operating system keeps scheduling threads, an uncontended mutex is acquired, and
a poll returns. Nothing forces the program: spawning, waking, entering
block_on, shutting down and early returns of waits are in `Environment` and unfair.
Weak fairness is enough since the mutex is released within the critical
section and no thread of these instances can be overtaken for ever. In
`CurrentThread` the owner and each remote thread are weakly fair, a poll that
returns Pending is not. `LocalTasksAreRun` excuses an owner that panicked
(`SpawnInTask`), a block_on that returned, a runtime that was shut down, and an awaited
task that is SCHEDULED and not complete. `BlockOnReturns` of `MultiThread` excuses a panic
in a task that the owner helps with, and the completion that missed the waker (`missed`).
`FairSpec` of `HandleBlockOn` is weak fairness of the steps the call makes on its own
(`CallStep`: the lock, a poll or a task that returns, the next task of the batch); that
the future becomes ready, that anybody wakes it, spawns or takes tasks is not
assumed. `ReadyIsReturned` needs the limit of `process_some_tasks`: without it tasks
that spawn each other keep the call from polling.

## 5. What is proved

TLAPS proves each theorem below for all values of the constants allowed by the
named assumptions of the module (finite set of workers, disjoint sets of threads,
bounds that are natural numbers).

* `MultiThread_proofs`
  - `TypesKept`, `TypeCorrect` (`TypeOK`). `HeldInv` says in which places a thread
    carries a task; without it a finished task could not be recorded as a task.
  - `LockDiscipline` (`LockInv`): the mutex is held by exactly the worker whose
    program counter is in the critical section. Needed by the next one.
  - `WorkersHearOfWork` (`NoSleepThroughWork`). Without a Retry, while a worker is asleep
    or on its way into the wait, the queue is no longer than the pushes still to
    notify and the notified workers still to look, taken together (`SleepInv`). A
    worker that gets to `waitloop` saw an empty queue under the lock; each later push
    brings its notifier; a notification turns one into the other; a look at the
    queue takes a task. It is a statement of cardinalities, one element per step, and
    a panic does not touch it.
  - `SleepersLeave` (`NoSleeperAfterShutdown`). Strengthened with: after the
    notification the flag is set, so no worker gets from `waitloop` to the wait.
  - `RootWakeArrives` (`RootWakeNotLost`), by `ParkInv`, which says where the wakeup is
    at each step of the owner from the store of its waker on: in the header, with the
    thread that completed the task, in the flag, in the token, or missed.
  - `SleepersAreCounted` (`ActiveCount`): by cardinality of the set of workers in the
    sleep section, one element in or out per step.
  - `OneOwner` (`OnePlace`), inductive with the types. `StepKinds` sorts the steps into
    a push, a take, a drop, the end of a run and those that touch no task.
  - `ExecutorImplemented` (`ImplementsExecutor`): each kind of step is a step of
    `Executor`, the others stutter; `OnePlace` is what makes a pushed task new to the
    abstract queue and a run end only once.
  - `ShutdownIsQuiet` (`QuietAfterShutdown`): when `shutdown()` has returned no thread of
    the pool runs a task, nor does the owner, and `unparkers` is free; threads outside the
    pool may still run some. By `QuietInv` and `HeldInv`: the lock is held exactly during the join, and a
    worker that was joined stays where it ended.
  - `RootPermitKept` (`RootParkerKeepsPermit`, not in a run): the refinement of `Permit` by
    `BlockOnParker`.
* `RawTask_proofs`: `TypeCorrect`; `AtMostTwoPolls` (with `ScheduleInv`: at most one
  thread is handing the task over, and only once the state has left IDLE);
  `JoinOutcomeExplained` (`JoinOutcome`, with `OutputInv`: a complete task has its output,
  and ABORTED does not change while the handle is being polled); `OwnersAreTold`
  (`OwnerIsTold`, with `JoinerInv`: where the owner's waker is at each step of the poll and
  of the completion, so that of the two the later one finds the other, or `missed` is
  set); `StateAdvances` (`StateOnlyAdvances`, an action property, not in a run);
  `CountIsExplained` (`RefcountLaw`). The decrements that frames still have to make are
  counted as the cardinality of a set `Debts`, one element for each; `OneOwes` says what
  it does to that cardinality when one thread owes up to two more or less, `CountMoves`
  that a step which moves both sides alike keeps the law, and each action has one step
  that says by how much it moves them. From the law and `AtMostTwoPolls` follow
  `UnderflowIsBounded` (`UnderflowIsShallow`, not in a run) and, with `FreedInv` (a freed
  header belongs to a complete task and its 16 bits are zero), `FreedHasRest`
  (`FreedWithRest`): the law makes the left-over odd, hence not zero.
* `ThreadPark_proofs`: `TypeCorrect`; `SleeperState` (`NoUnreachable`); `PermitKept`,
  the refinement of `Permit`.
* `CurrentThread_proofs`: `ParkerIsSafe` (`SleeperState`: the state is not EMPTY behind
  the announcement, and PARKED only there); `TypeCorrect` (`TypeOK`, with `DataInv`: a
  thread that runs a task holds one); `OwnerKeepsUp` (`ParksIdle` and `RootWakeRecorded`,
  by `OwnerInv`: the wakeup is in the header, with the completing thread, in the parker, or
  missed) and `ParksWithNothingToDo`; `TasksRunInOrder` (`FifoOrder`).
  `SleeperState`, `ParksIdle` and `FifoOrder` are the invariants behind the two
  refinements and are in no run of their own.
  - `PermitKept` (`KeepsPermit`): `SleeperState` is what makes the store of EMPTY after a
    timeout the return of a park and not the loss of a permit of another.
  - `ExecutorImplemented` (`ImplementsExecutor`), with `QueueInv`: queue entries are
    distinct, what is queued or was taken has been spawned, no task is both, and the
    one that runs or has failed was taken. `StepKinds` sorts the steps; the lemmas on
    `Elements` say what an append and a tail do to the set of entries.
* `HandleBlockOn_proofs`: `CountIsRight` (`RefsLaw`, with `WakersInv`: wakes under way are
  among the wakes made, and the simple loop has none of it) and from it `TypeCorrect`;
  `NoWayBack` (`CondemnedForGood`), which rests on `PollsAreUncompleted`: since a wake
  needs the lock, no call is woken while it polls.
* `Context_proofs`: `TypeCorrect`; `OrderlyThreadsSeeTheirContext` (`ContextFollowsGuards`).
  The inductive invariant `ChainInv` says of each orderly thread that every guard has
  saved the context the one below it set, and the bottom one that of the thread
  itself; `ChainGrows`, `ChainShrinks` and `ChainUndisturbed` are its three cases.
* `FlagPark_proofs`: `TypeCorrect` (`TypeOK`), `CountIsRight` (`CountLaw`),
  `EveryReturnIsEarned` (`ParkIsEarned`), `PermitIsKept` (`KeepsPermit`),
  `SleeperIsDeaf` (`DeafSleeper`, not in a run: a
  counterpart of the finding, that a thread asleep without a token of its own making comes
  back only spuriously).
* `Timers_proofs`: `TypeCorrect` (`DataTypes` for the values, `LockInv` for the one thread
  that holds the lock); `NoTimerIsEarly` (`NeverEarly`, by `FiringInv`: the time
  `process` goes by is never ahead of the clock); `DeadlinesAreKept` (`SleepsToDeadline`, by
  `SleepInv`: no timer that was seen gets another deadline, the duration reaches no further
  than the first deadline counted from the reading of the clock, and the clock is `drift`
  ahead of that reading when the wait begins); `ExpiredAreProcessed`
  (`ProcessLeavesNoneExpired`), which rests on `FirstEntry`: a non-empty heap has an
  earliest entry, by the well-foundedness of `<` on the naturals; `PromiseKept`
  (`KeepsPromise`): a pop is a firing of `TimerService` by `FiringInv`, and all else but
  `Schedule` and the clock stutters.

Every invariant and every action property of the passing runs is proved, the
refinements too. Only model-checked is liveness (`WorkIsTaken`, `BlockOnReturns`,
`ShutdownCompletes`, `LocalTasksAreRun`, `ReadyIsReturned`), which needs fairness and
ENABLED and is beyond the prover.

## 6. What is not modelled

* `time/mod.rs`: its `TimeDriver` is another type than that of `park.rs`; no code
  takes an entry from its heap, so no registration of a `Sleep` is ever used and there
  is no behaviour to check beyond the push.
* The wakers of `task/waker.rs` have no user and repeat the protocol of `raw.rs`;
  `task/mod.rs` is an older variant that does not fit `raw.rs`.
* A thread that fails to start in `MultiThread::new`; more than one `block_on` on one
  runtime at a time; in `MultiThread`, a `Handle::block_on` inside a task on a worker (one
  task suspended below another on a stack); more than one thread that parks on one
  `Parker` of `Timers`; `approx_task_count` and the other counters nobody acts on.
* What a thread finds in freed memory (a waker of a returned `block_on`, a task after
  `deallocate`, a state freed under `Handle::block_on`), torn values of the unsynchronised
  `join_waker`, and the layout of the task's memory block.
* Platform I/O (`IoDriver` wraps mio, and its slab of wakers is never filled),
  `Builder`, `Runtime` and the demo (dispatch), and logging.
