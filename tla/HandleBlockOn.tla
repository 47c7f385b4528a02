------------------------------ MODULE HandleBlockOn ------------------------------
(***************************************************************************)
(* Handle::block_on of runtime/handle.rs, one call of it.  The context of  *)
(* the calling thread decides which of two loops runs.                     *)
(* block_on_with_worker keeps the future in an Arc<Mutex<BlockOnState>>    *)
(* that its waker points to; in block_on_simple the waker does nothing.    *)
(* Both run up to Batch queued tasks between two polls                     *)
(* (process_some_tasks), on the calling thread.                            *)
(*                                                                         *)
(* The lock of BlockOnState is a parking_lot mutex, which is not           *)
(* reentrant.  Only the calling thread keeps it across a step, while it    *)
(* polls.  BlockOnState::waker is never set, so a wake by reference takes  *)
(* and releases the lock and does nothing else.                            *)
(*                                                                         *)
(* What a future or task does to the thread's context is any change here;  *)
(* Context says which ones there are.                                      *)
(***************************************************************************)
EXTENDS Integers

CONSTANTS
    Target,     \* the runtime of the Handle
    Other,      \* another runtime
    None,       \* no runtime
    MaxClones,  \* bound: wakers the future gives away during the call
    Batch,      \* the limit of process_some_tasks (10 in the code)
    MaxQueue    \* bound: tasks in the injector of the runtime

ASSUME HandleAssumption ==
    /\ Target # None
    /\ Other \notin {Target, None}
    /\ MaxClones \in Nat
    /\ Batch \in Nat \ {0}
    /\ MaxQueue \in Nat

VARIABLES
    pc,        \* where the call is
    context,   \* CURRENT_CONTEXT of the calling thread
    mode,      \* "worker" or "simple"
    ready,     \* the next poll of the future returns Ready
    completed, \* BlockOnState::completed
    refs,      \* strong count of the Arc of the BlockOnState
    clones,    \* clones of the waker alive elsewhere
    given,     \* clones made so far
    waking,    \* wakes by value that have set completed and still hold their Arc
    woken,     \* history: wakes by value
    round,     \* tasks run by this call of process_some_tasks
    queue      \* length of the injector

stateVars == <<completed, refs, clones, given, waking, woken>>
taskVars == <<round, queue>>
vars == <<pc, context, mode, ready, stateVars, taskVars>>

Init ==
    /\ pc = "idle" /\ mode = "simple"
    /\ context \in {Target, Other, None}
    /\ ready = FALSE /\ completed = FALSE
    /\ refs = 0 /\ clones = 0 /\ given = 0 /\ waking = 0 /\ woken = 0
    /\ round = 0 /\ queue = 0

\* The call has its BlockOnState, if it needs one.
Alive == mode = "worker" => refs > 0

-----------------------------------------------------------------------------
(* The calling thread.                                                     *)

\* Mutant: the clone of the Arc that becomes the waker is forgotten.
Start_NoClone ==
    /\ pc = "idle"
    /\ mode' = IF context = None THEN "simple" ELSE "worker"
    /\ pc' = "check"
    /\ refs' = IF context = None THEN 0 ELSE 1
    /\ UNCHANGED <<context, ready, completed, clones, given, waking, woken, taskVars>>

\* block_on: try_get_worker answers Some whenever the thread has a context, of this
\* runtime or of another.  Arc::new and the clone that Arc::into_raw leaks.
Start ==
    /\ pc = "idle"
    /\ mode' = IF context = None THEN "simple" ELSE "worker"
    /\ pc' = "check"
    /\ refs' = IF context = None THEN 0 ELSE 2
    /\ UNCHANGED <<context, ready, completed, clones, given, waking, woken, taskVars>>

\* let mut state = state.lock(); if state.completed { break }, and after the loop
\* unreachable!().  The lock is free whenever the caller gets here.
Check ==
    /\ pc = "check"
    /\ Alive
    /\ pc' = IF mode = "worker" /\ completed THEN "unreachable" ELSE "polling"
    /\ UNCHANGED <<context, mode, ready, stateVars, taskVars>>

\* The future is ready: the lock is released and the output returned.
PollReady ==
    /\ pc = "polling"
    /\ ready
    /\ pc' = "leaving"
    /\ UNCHANGED <<context, mode, ready, stateVars, taskVars>>

\* Pending: the future may have given a clone of its waker to somebody.  clone does
\* not count.
PollPending ==
    /\ pc = "polling"
    /\ ~ready
    /\ \/ UNCHANGED <<clones, given>>
       \/ /\ mode = "worker" /\ given < MaxClones
          /\ clones' = clones + 1 /\ given' = given + 1
    /\ pc' = "tasks" /\ round' = 0
    /\ UNCHANGED <<context, mode, ready, completed, refs, waking, woken, queue>>

\* The future wakes its own waker while it is polled, by reference or by value, to
\* be polled again: the lock is taken a second time on the same thread.
SelfWake ==
    /\ pc = "polling"
    /\ mode = "worker"
    /\ pc' = "selfwake"
    /\ UNCHANGED <<context, mode, ready, stateVars, taskVars>>

\* Mutant: process_some_tasks has no limit.
TakeTask_Unbounded ==
    /\ pc = "tasks" /\ queue > 0
    /\ queue' = queue - 1
    /\ pc' = "running"
    /\ UNCHANGED <<context, mode, ready, stateVars, round>>

\* Mutant: one task more, 0..=10.
TakeTask_OneMore ==
    /\ pc = "tasks" /\ queue > 0 /\ round <= Batch
    /\ queue' = queue - 1 /\ round' = round + 1
    /\ pc' = "running"
    /\ UNCHANGED <<context, mode, ready, stateVars>>

\* process_some_tasks: injector.steal(), task.run().
TakeTask ==
    /\ pc = "tasks" /\ queue > 0 /\ round < Batch
    /\ queue' = queue - 1 /\ round' = round + 1
    /\ pc' = "running"
    /\ UNCHANGED <<context, mode, ready, stateVars>>

\* Ten tasks have run, or steal() has no task to give: the queue is empty, or it
\* answers Retry, which ends the batch as well.  yield_now() and the next poll.
TasksDone ==
    /\ pc = "tasks"
    /\ pc' = "check"
    /\ UNCHANGED <<context, mode, ready, stateVars, taskVars>>

TaskReturns ==
    /\ pc = "running"
    /\ pc' = "tasks"
    /\ UNCHANGED <<context, mode, ready, stateVars, taskVars>>

\* A task run here spawns through spawn() or its wakers: the new task goes to the
\* runtime of the caller's context, and to this queue only if that is Target;
\* without one, spawn() panics and nothing between here and the caller catches it.
TaskSpawns ==
    /\ pc = "running"
    /\ \/ context = None /\ pc' = "panicking" /\ UNCHANGED queue
       \/ context = Target /\ queue < MaxQueue /\ queue' = queue + 1 /\ UNCHANGED pc
    /\ UNCHANGED <<context, mode, ready, stateVars, round>>

\* The future or a task panics.
Panics ==
    /\ pc \in {"polling", "running"}
    /\ pc' = "panicking"
    /\ UNCHANGED <<context, mode, ready, stateVars, taskVars>>

\* The local state: Arc goes out of scope; dropping the waker does nothing.
Leave ==
    /\ pc \in {"leaving", "unreachable", "panicking"}
    /\ Alive
    /\ refs' = IF mode = "worker" THEN refs - 1 ELSE refs
    /\ pc' = IF pc = "leaving" THEN "returned" ELSE "unwound"
    /\ UNCHANGED <<context, mode, ready, completed, clones, given, waking, woken, taskVars>>

-----------------------------------------------------------------------------
(* The holders of the wakers: other threads, and the tasks the call runs.  *)

\* Mutant: completed is set without the lock, also while the future is polled.
Wake_NoLock ==
    /\ clones > 0 /\ Alive
    /\ completed' = TRUE
    /\ clones' = clones - 1
    /\ waking' = waking + 1 /\ woken' = woken + 1
    /\ UNCHANGED <<pc, context, mode, ready, refs, given, taskVars>>

\* wake: Arc::from_raw, lock(), completed = true.
Wake ==
    /\ clones > 0 /\ Alive
    /\ pc \notin {"polling", "selfwake"}
    /\ completed' = TRUE
    /\ clones' = clones - 1
    /\ waking' = waking + 1 /\ woken' = woken + 1
    /\ UNCHANGED <<pc, context, mode, ready, refs, given, taskVars>>

\* Mutant: the Arc made by from_raw is forgotten, as in a wake by reference.
WakeEnds_Forgets ==
    /\ waking > 0
    /\ waking' = waking - 1
    /\ UNCHANGED <<pc, context, mode, ready, completed, refs, clones, given, woken, taskVars>>

\* The end of wake: the Arc made by from_raw is dropped.
WakeEnds ==
    /\ waking > 0
    /\ Alive
    /\ waking' = waking - 1
    /\ refs' = refs - 1
    /\ UNCHANGED <<pc, context, mode, ready, completed, clones, given, woken, taskVars>>

\* A clone is dropped without a wake: drop_waker does nothing.
DropClone ==
    /\ clones > 0
    /\ clones' = clones - 1
    /\ UNCHANGED <<pc, context, mode, ready, completed, refs, given, waking, woken, taskVars>>

\* What the future waits for happens: on another thread, or in a task run here.
BecomesReady ==
    /\ ~ready /\ pc # "idle"
    /\ ready' = TRUE
    /\ UNCHANGED <<pc, context, mode, stateVars, taskVars>>

\* Other threads push on the injector and take from it.
Push ==
    /\ queue < MaxQueue /\ queue' = queue + 1
    /\ UNCHANGED <<pc, context, mode, ready, stateVars, round>>

OthersTake ==
    /\ queue > 0 /\ queue' = queue - 1
    /\ UNCHANGED <<pc, context, mode, ready, stateVars, round>>

\* The future or a task enters a runtime, leaves one, or drops a runtime.
ContextMoves ==
    /\ pc \in {"polling", "running"}
    /\ context' \in {Target, Other, None}
    /\ UNCHANGED <<pc, mode, ready, stateVars, taskVars>>

-----------------------------------------------------------------------------
\* What the call does on its own; a poll or a task that returns does so in its time.
CallStep == Check \/ PollReady \/ PollPending \/ TakeTask \/ TasksDone \/ TaskReturns \/ Leave

Environment ==
    \/ Start \/ ContextMoves
    \/ SelfWake \/ TaskSpawns \/ Panics
    \/ Wake \/ WakeEnds \/ DropClone
    \/ BecomesReady \/ Push \/ OthersTake

Next == CallStep \/ Environment

Spec == Init /\ [][Next]_vars

\* The calling thread keeps running, polls and tasks return.
FairSpec == Spec /\ WF_vars(CallStep)
-----------------------------------------------------------------------------
(* Properties.                                                             *)

InLoop == {"check", "polling", "tasks", "running", "selfwake"}
Holding == InLoop \cup {"leaving", "unreachable", "panicking"}

CallTypes ==
    /\ pc \in Holding \cup {"idle", "returned", "unwound"}
    /\ context \in {Target, Other, None}
    /\ mode \in {"worker", "simple"}
    /\ ready \in BOOLEAN /\ completed \in BOOLEAN
    /\ refs \in Int
    /\ clones \in Nat /\ given \in 0..MaxClones
    /\ waking \in Nat /\ woken \in Nat
    /\ round \in 0..Batch
    /\ queue \in 0..MaxQueue

\* Type correctness of the call; the strong count of the BlockOnState is 0, 1 or 2.
TypeOK == CallTypes /\ refs \in 0..2

\* The count is one for the call while it lasts and one that is leaked to all the
\* wakers together, less the one that each wake by value gives back: without a
\* wake the BlockOnState and the future in it are never freed, and a second wake
\* by value frees them under the call.
RefsLaw ==
    mode = "worker" =>
        refs = (IF pc \in Holding THEN 1 ELSE 0) + 1 - (woken - waking)

\* No return with the output is possible any more.
Condemned ==
    \/ pc \in {"selfwake", "unreachable", "panicking", "unwound"}
    \/ completed /\ pc \in InLoop

\* A call whose future has been woken by value, or wakes itself, never returns the
\* output: it ends in unreachable!(), or waits for its own lock for ever.
CondemnedForGood == [][Condemned => Condemned']_vars

\* A future that is ready is polled and its output returned, whatever the tasks
\* that are run in between spawn, unless the call was woken or panicked, or its
\* state has been freed.
ReadyIsReturned == (ready /\ pc \in InLoop) ~> (pc = "returned" \/ Condemned \/ ~Alive)
=============================================================================
