-------------------------------- MODULE RawTask --------------------------------
(***************************************************************************)
(* One spawned task: the Header of task/raw.rs with its state word, the    *)
(* poll function of its vtable, its wakers, and the JoinHandle of          *)
(* task/mod.safe.rs (the variant written against raw.rs).                  *)
(*                                                                         *)
(* One action is one atomic access to the header; load-and-CAS loops are   *)
(* one action, since a failed exchange has no effect.  A thread inside the *)
(* task is at pc[th]; depth[th] polls of the same task are suspended below *)
(* it on its stack, each inside future.poll().  Nothing is modelled after  *)
(* the header is freed: any later access is undefined behaviour.           *)
(***************************************************************************)
EXTENDS Integers, FiniteSets

CONSTANTS
    Threads,   \* threads that hold a Handle or a waker
    Context,   \* threads on which Handle::current() is Some
    MaxClones  \* bound: wakers that are alive or were consumed by wake()

ASSUME TaskAssumption ==
    /\ IsFiniteSet(Threads)
    /\ Context \subseteq Threads
    /\ MaxClones \in Nat

RefMod == 65536  \* REFCOUNT_MASK keeps 16 bits

VARIABLES
    life,      \* bits 0-1 of Header::state
    aborted,   \* TaskState::ABORTED
    interest,  \* TaskState::JOIN_INTEREST
    refs,      \* bits 16.. of Header::state, as a signed number
    output,    \* the output slot has been written
    joinWaker, \* Header::join_waker is Some
    freed,     \* deallocate has run
    queue,     \* entries for this task in the run queue
    pc, depth, \* where each thread is in the task
    clones,    \* wakers cloned and neither dropped nor consumed
    handle,    \* where the owner of the JoinHandle is
    woken,     \* the owner has been woken since its last poll
    missed,    \* history: a completion looked for the waker before it was stored
    polls, consumed, panics \* history: calls of future.poll, wake(self), unwound polls

stateVars  == <<life, aborted, interest>>
threadVars == <<pc, depth, polls, panics, queue>>
wakerVars  == <<refs, clones, consumed, freed>>
joinVars   == <<output, joinWaker, handle, woken, missed>>
vars == <<stateVars, threadVars, wakerVars, joinVars>>

\* create_raw_task, and the push of the new task on a run queue.
Init ==
    /\ life = "idle" /\ aborted = FALSE /\ interest = FALSE
    /\ refs = 1
    /\ output = FALSE /\ joinWaker = FALSE /\ freed = FALSE
    /\ queue = 1
    /\ pc = [th \in Threads |-> "out"]
    /\ depth = [th \in Threads |-> 0]
    /\ clones = 0
    /\ handle = "fresh" /\ woken = FALSE /\ missed = FALSE
    /\ polls = 0 /\ consumed = 0 /\ panics = 0

-----------------------------------------------------------------------------
(* Frames on the stack of a thread.                                        *)

\* A thread may touch the header as long as it has not been freed.
At(th, label) == ~freed /\ pc[th] = label

\* User code runs outside the task or inside its future.
InUserCode(th) == At(th, "out") \/ At(th, "poll")

\* The same for the owner of the JoinHandle.
OwnerIn(labels) == ~freed /\ handle \in labels

Goto(th, label) == pc' = [pc EXCEPT ![th] = label] /\ UNCHANGED depth

Call(th, label) ==
    /\ pc' = [pc EXCEPT ![th] = label]
    /\ depth' = [depth EXCEPT ![th] = @ + (IF pc[th] = "poll" THEN 1 ELSE 0)]

Return(th) ==
    /\ pc' = [pc EXCEPT ![th] = IF depth[th] > 0 THEN "poll" ELSE "out"]
    /\ depth' = [depth EXCEPT ![th] = IF @ > 0 THEN @ - 1 ELSE 0]

-----------------------------------------------------------------------------
(* Reference counting: drop_waker and deallocate.                          *)

Refcount == refs % RefMod

\* Mutant: the last reference frees the header whatever the state of its task.
DropRef_AnyState ==
    /\ refs' = refs - 1
    /\ freed' = (Refcount = 1)

\* fetch_sub, and deallocate if this was the last reference to a complete task.
DropRef ==
    /\ refs' = refs - 1
    /\ freed' = (Refcount = 1 /\ life = "complete")

-----------------------------------------------------------------------------
(* Running the task: Task::run and VTableFor::poll.                        *)

\* A thread takes the task from a run queue and polls it: a worker, the owner of
\* the runtime, or any thread inside Handle::block_on.  A future may call that too,
\* so the task may be taken on the stack of one of its own polls.
Run(th) ==
    /\ InUserCode(th)
    /\ queue > 0
    /\ queue' = queue - 1
    /\ polls' = polls + 1
    /\ Call(th, "poll")
    /\ UNCHANGED <<stateVars, panics, wakerVars, joinVars>>

\* Poll::Ready(output): ptr::write of the output.
PollReady(th) ==
    /\ At(th, "poll")
    /\ output' = TRUE
    /\ Goto(th, "complete")
    /\ UNCHANGED <<stateVars, polls, panics, queue, wakerVars, joinWaker, handle, woken, missed>>

\* Poll::Pending: the state word keeps its state bits.
PollPending(th) ==
    /\ At(th, "poll")
    /\ Goto(th, "release")
    /\ UNCHANGED <<stateVars, polls, panics, queue, wakerVars, joinVars>>

\* state.fetch_or(COMPLETE).
MarkComplete(th) ==
    /\ At(th, "complete")
    /\ life' = "complete"
    /\ Goto(th, IF interest THEN "joinwake" ELSE "release")
    /\ UNCHANGED <<aborted, interest, polls, panics, queue, wakerVars, joinVars>>

\* join_waker.take() and wake().
TakeJoinWaker ==
    /\ woken' = (woken \/ joinWaker)
    /\ joinWaker' = FALSE

WakeJoiner(th) ==
    /\ At(th, "joinwake")
    /\ TakeJoinWaker
    /\ missed' = (missed \/ (handle = "store_false" /\ ~joinWaker))
    /\ Goto(th, "release")
    /\ UNCHANGED <<stateVars, polls, panics, queue, wakerVars, output, handle>>

\* Mutant: the reference of the poll is not given back.
ReleasePoll_NoSub(th) ==
    /\ At(th, "release")
    /\ Goto(th, "dropwaker")
    /\ UNCHANGED <<stateVars, polls, panics, queue, wakerVars, joinVars>>

\* state.fetch_sub(1 << REFCOUNT_SHIFT), for both results of the poll.
ReleasePoll(th) ==
    /\ At(th, "release")
    /\ refs' = refs - 1
    /\ Goto(th, "dropwaker")
    /\ UNCHANGED <<stateVars, polls, panics, queue, clones, consumed, freed, joinVars>>

\* The waker made by waker_from_task goes out of scope at the end of poll.
DropPollWaker(th) ==
    /\ At(th, "dropwaker")
    /\ DropRef
    /\ Return(th)
    /\ UNCHANGED <<stateVars, polls, panics, queue, clones, consumed, joinVars>>

\* future.poll() panics: nothing catches it, the thread unwinds through every
\* poll on its stack, dropping the waker of each, and ends.
PollPanics(th) ==
    /\ At(th, "poll")
    /\ panics' = panics + 1
    /\ Goto(th, "unwind")
    /\ UNCHANGED <<stateVars, polls, queue, wakerVars, joinVars>>

Unwind(th) ==
    /\ At(th, "unwind")
    /\ DropRef
    /\ IF depth[th] > 0
       THEN /\ depth' = [depth EXCEPT ![th] = @ - 1]
            /\ panics' = panics + 1
            /\ UNCHANGED pc
       ELSE Goto(th, "dead") /\ UNCHANGED panics
    /\ UNCHANGED <<stateVars, polls, queue, clones, consumed, joinVars>>

-----------------------------------------------------------------------------
(* Wakers: the vtable of waker_from_task.                                  *)

HasWaker(th) == InUserCode(th) /\ (pc[th] = "poll" \/ clones > 0)

\* clone_waker.
CloneWaker(th) ==
    /\ HasWaker(th)
    /\ clones + consumed < MaxClones
    /\ clones' = clones + 1
    /\ refs' = refs + 1
    /\ UNCHANGED <<stateVars, threadVars, consumed, freed, joinVars>>

\* Mutant: a scheduled task can be scheduled again.
TrySchedule_Again(th) ==
    IF life \in {"idle", "scheduled"} /\ ~aborted
    THEN life' = "scheduled" /\ Call(th, "schedule")
    ELSE UNCHANGED <<life, pc, depth>>

\* The loop of wake_by_ref_waker: IDLE becomes SCHEDULED and the task is
\* scheduled; a complete, aborted, scheduled or running task is left alone.
TrySchedule(th) ==
    IF life = "idle" /\ ~aborted
    THEN life' = "scheduled" /\ Call(th, "schedule")
    ELSE UNCHANGED <<life, pc, depth>>

WakeByRef(th) ==
    /\ HasWaker(th)
    /\ TrySchedule(th)
    /\ UNCHANGED <<aborted, interest, polls, panics, queue, wakerVars, joinVars>>

\* wake_waker takes the waker by value and never decrements the count.
Wake(th) ==
    /\ InUserCode(th)
    /\ clones > 0
    /\ clones' = clones - 1
    /\ consumed' = consumed + 1
    /\ TrySchedule(th)
    /\ UNCHANGED <<aborted, interest, polls, panics, queue, refs, freed, joinVars>>

\* Mutant: a waker can be dropped twice.
DropWaker_Twice(th) ==
    /\ InUserCode(th)
    /\ clones' = clones - 1
    /\ DropRef
    /\ UNCHANGED <<stateVars, threadVars, consumed, joinVars>>

\* drop_waker of a clone.
DropWaker(th) ==
    /\ InUserCode(th)
    /\ clones > 0
    /\ clones' = clones - 1
    /\ DropRef
    /\ UNCHANGED <<stateVars, threadVars, consumed, joinVars>>

\* Task::schedule and the closure of create_task: with a runtime context the
\* task goes to its injector, without one it runs on this thread at once.
Schedule(th) ==
    /\ At(th, "schedule")
    /\ IF th \in Context
       THEN queue' = queue + 1 /\ Return(th) /\ UNCHANGED polls
       ELSE polls' = polls + 1 /\ Goto(th, "poll") /\ UNCHANGED queue
    /\ UNCHANGED <<stateVars, panics, wakerVars, joinVars>>

-----------------------------------------------------------------------------
(* The JoinHandle.  poll() needs exclusive access to it, so abort() and    *)
(* drop() happen between polls.                                            *)

Between == OwnerIn({"fresh", "pending"})

JoinPoll ==
    /\ Between
    /\ handle' = "load"
    /\ woken' = FALSE
    /\ UNCHANGED <<stateVars, threadVars, wakerVars, output, joinWaker, missed>>

\* The first load decides the branch.
JoinLoad ==
    /\ OwnerIn({"load"})
    /\ handle' = CASE life = "complete" /\ ~aborted -> "read"
                   [] aborted -> "err_aborted"
                   [] OTHER -> "register"
    /\ UNCHANGED <<stateVars, threadVars, wakerVars, output, joinWaker, woken, missed>>

\* try_read_output loads the state again; None means AlreadyTaken here.
JoinRead ==
    /\ OwnerIn({"read"})
    /\ handle' = IF aborted THEN "err_taken" ELSE "ok"
    /\ UNCHANGED <<stateVars, threadVars, wakerVars, output, joinWaker, woken, missed>>

\* Mutant: set_join_waker does not look at the state it found.
JoinRegister_Blind ==
    /\ OwnerIn({"register"})
    /\ interest' = TRUE
    /\ handle' = "store_false"
    /\ UNCHANGED <<life, aborted, threadVars, wakerVars, output, joinWaker, woken, missed>>

\* set_join_waker: state.fetch_or(JOIN_INTEREST); any state bit means true.
JoinRegister ==
    /\ OwnerIn({"register"})
    /\ interest' = TRUE
    /\ handle' = IF life # "idle" THEN "store_true" ELSE "store_false"
    /\ UNCHANGED <<life, aborted, threadVars, wakerVars, output, joinWaker, woken, missed>>

\* ... then the store of the waker; true polls again, false is Pending.
JoinStore ==
    /\ OwnerIn({"store_true", "store_false"})
    /\ joinWaker' = TRUE
    /\ handle' = IF handle = "store_true" THEN "load" ELSE "pending"
    /\ UNCHANGED <<stateVars, threadVars, wakerVars, output, woken, missed>>

\* Mutant: abort() also while the handle is being polled.
Abort_Anytime ==
    /\ OwnerIn({"fresh", "load", "read", "register", "store_true", "store_false", "pending"})
    /\ aborted' = TRUE
    /\ IF interest THEN TakeJoinWaker ELSE UNCHANGED <<woken, joinWaker>>
    /\ UNCHANGED <<life, interest, threadVars, wakerVars, output, handle, missed>>

\* abort_task: fetch_or(ABORTED), then wake the owner if it is interested.
Abort ==
    /\ Between
    /\ aborted' = TRUE
    /\ IF interest THEN TakeJoinWaker ELSE UNCHANGED <<woken, joinWaker>>
    /\ UNCHANGED <<life, interest, threadVars, wakerVars, output, handle, missed>>

\* Drop: a complete task loses the flag and the stored waker.
DropHandle ==
    /\ OwnerIn({"fresh", "pending", "ok", "err_aborted", "err_taken"})
    /\ handle' = "dropped"
    /\ IF life = "complete"
       THEN interest' = FALSE /\ joinWaker' = FALSE
       ELSE UNCHANGED <<interest, joinWaker>>
    /\ UNCHANGED <<life, aborted, threadVars, wakerVars, output, woken, missed>>

-----------------------------------------------------------------------------
ThreadStep(th) ==
    \/ Run(th) \/ PollReady(th) \/ PollPending(th) \/ MarkComplete(th) \/ WakeJoiner(th)
    \/ ReleasePoll(th) \/ DropPollWaker(th) \/ PollPanics(th) \/ Unwind(th)
    \/ CloneWaker(th) \/ WakeByRef(th) \/ Wake(th) \/ DropWaker(th) \/ Schedule(th)

HandleStep == JoinPoll \/ JoinLoad \/ JoinRead \/ JoinRegister \/ JoinStore \/ Abort \/ DropHandle

Next == (\E th \in Threads : ThreadStep(th)) \/ HandleStep

Spec == Init /\ [][Next]_vars
-----------------------------------------------------------------------------
(* Properties.                                                             *)

Lives == {"idle", "scheduled", "running", "complete"}
Frames == {"poll", "complete", "joinwake", "release", "dropwaker", "unwind", "schedule"}
Handles == {"fresh", "load", "read", "register", "store_true", "store_false", "pending",
            "ok", "err_aborted", "err_taken", "dropped"}

\* Type correctness of the task header and of its users.
TypeOK ==
    /\ life \in Lives
    /\ aborted \in BOOLEAN /\ interest \in BOOLEAN
    /\ refs \in Int
    /\ output \in BOOLEAN /\ joinWaker \in BOOLEAN /\ freed \in BOOLEAN
    /\ queue \in Nat
    /\ pc \in [Threads -> Frames \cup {"out", "dead"}]
    /\ depth \in [Threads -> Nat]
    /\ clones \in Nat /\ consumed \in Nat
    /\ handle \in Handles /\ woken \in BOOLEAN /\ missed \in BOOLEAN
    /\ polls \in Nat /\ panics \in Nat

\* Decrements of the count that the frame on top of a stack still has to make.
Owes(th) ==
    2 * depth[th] + CASE pc[th] \in {"poll", "complete", "joinwake", "release"} -> 2
                      [] pc[th] \in {"dropwaker", "unwind"} -> 1
                      [] OTHER -> 0

\* All of them, one element for each.
Debts == UNION {{th} \X (1..Owes(th)) : th \in Threads}

\* What the reference count really counts: every poll takes two from it (one
\* after future.poll, one for a waker that was never counted), a panicking one
\* takes one, and a waker consumed by wake() is never given back.
RefcountLaw ==
    refs = 1 + clones + consumed + panics - 2 * polls + Cardinality(Debts)

\* The count, an unsigned field, goes below zero by three at most.
UnderflowIsShallow == refs >= -3

\* deallocate never runs in good order: only on a complete task, but always with a
\* reference left over.  Either someone still holds one (a waker, or a frame that has to
\* give one back), or one was lost for good (a wake by value, a poll that panicked).
FreedWithRest ==
    freed => life = "complete" /\ clones + consumed + panics + Cardinality(Debts) >= 1

Scheduling == \E th \in Threads : pc[th] = "schedule"

\* A task is handed to the scheduler at most twice in its life, on creation and
\* by the first wake: no later wake gets it polled again.
PolledAtMostTwice ==
    /\ polls + queue + (IF Scheduling THEN 1 ELSE 0) <= 2
    /\ life = "idle" => polls + queue = 1 /\ ~Scheduling

\* What the owner of the JoinHandle is told: Ok only with the output of a completed
\* task that it has not aborted, Aborted only after its own abort(), and never
\* AlreadyTaken.  An abort() after the completion still turns the result into Aborted.
JoinOutcome ==
    /\ handle = "ok" => output /\ life = "complete" /\ ~aborted
    /\ handle = "err_aborted" => aborted
    /\ handle # "err_taken"

\* No step takes a state back: COMPLETE and ABORTED are final, a scheduled task
\* never looks idle again, and interest is only withdrawn from a complete task.
StateOnlyAdvances ==
    [][ /\ life = "complete" => life' = "complete"
        /\ life = "scheduled" => life' # "idle"
        /\ aborted => aborted'
        /\ interest /\ ~interest' => life = "complete" ]_vars

\* An owner that was told Pending and not woken since has its waker in the header and,
\* once the task is complete, a thread on its way to take and wake it.  The one exception
\* is the code's: the completion looked between the fetch_or(JOIN_INTEREST) and the
\* store of the waker, found none, and nobody ever looks again.
OwnerIsTold ==
    handle = "pending" /\ ~woken =>
        /\ interest /\ joinWaker
        /\ life = "complete" => missed \/ \E th \in Threads : pc[th] = "joinwake"

\* Violated.  At most one thread is inside the future at a time, once.
OnePollAtATime ==
    /\ \A a, b \in Threads : pc[a] = "poll" /\ pc[b] = "poll" => a = b
    /\ \A th \in Threads : pc[th] = "poll" => depth[th] = 0
=============================================================================
