--------------------------------- MODULE Context ---------------------------------
(***************************************************************************)
(* The thread-local runtime context: CURRENT_CONTEXT and CURRENT_WORKER of *)
(* runtime/scheduler/multi_thread.rs, the guards that set and restore them *)
(* (ContextGuard of MultiThread::block_on, EnterGuard of Handle::enter),   *)
(* the worker threads and shutdown(), which set them for good.             *)
(*                                                                         *)
(* An EnterGuard is a value the program owns and may send: it can be kept  *)
(* after an enclosing guard is gone, or be dropped on another thread, as a *)
(* future does that holds one across an await.  A ContextGuard is a local  *)
(* variable of block_on.                                                   *)
(***************************************************************************)
EXTENDS Integers, Sequences

CONSTANTS
    Threads,   \* the threads of the process
    Runtimes,  \* the runtimes, each with its Shared
    None,      \* no runtime
    Home,      \* the runtime each thread is a worker of, or None
    MaxGuards  \* bound: guards alive at a time on a thread

ASSUME ContextAssumption ==
    /\ None \notin Runtimes
    /\ Home \in [Threads -> Runtimes \cup {None}]
    /\ MaxGuards \in Nat

VARIABLES
    context,   \* CURRENT_CONTEXT of each thread
    workerRef, \* CURRENT_WORKER of each thread is Some
    stage,     \* "up" on a thread outside a runtime or inside WorkerThread::run
    guards,    \* the guards alive that each thread created, in that order
    orderly    \* history: the thread has dropped its guards innermost first, and
               \* no shutdown() has cleared its context under it

vars == <<context, workerRef, stage, guards, orderly>>

Guard == [kind : {"enter", "block_on"}, rt : Runtimes, old : Runtimes \cup {None},
          oldWorker : BOOLEAN]

Init ==
    /\ context = [th \in Threads |-> None]
    /\ workerRef = [th \in Threads |-> FALSE]
    /\ stage = [th \in Threads |-> IF Home[th] = None THEN "up" ELSE "new"]
    /\ guards = [th \in Threads |-> <<>>]
    /\ orderly = [th \in Threads |-> TRUE]

Innermost(th) == guards[th][Len(guards[th])]

\* The context the code on a thread should see: that of the innermost guard, or of
\* the runtime the thread works for.
Expected(th) ==
    IF guards[th] # <<>> THEN Innermost(th).rt
    ELSE IF stage[th] = "up" THEN Home[th] ELSE None

InBlockOn(th) == \E i \in 1..Len(guards[th]) : guards[th][i].kind = "block_on"

\* WorkerThread::run sets both thread-locals first ...
WorkerStarts(th) ==
    /\ stage[th] = "new"
    /\ stage' = [stage EXCEPT ![th] = "up"]
    /\ context' = [context EXCEPT ![th] = Home[th]]
    /\ workerRef' = [workerRef EXCEPT ![th] = TRUE]
    /\ UNCHANGED <<guards, orderly>>

\* Mutant: CURRENT_WORKER is left as it is.
WorkerExits_KeepsWorker(th) ==
    /\ stage[th] = "up" /\ Home[th] # None
    /\ ~InBlockOn(th)
    /\ stage' = [stage EXCEPT ![th] = "gone"]
    /\ context' = [context EXCEPT ![th] = None]
    /\ orderly' = [orderly EXCEPT ![th] = @ /\ guards[th] = <<>>]
    /\ UNCHANGED <<workerRef, guards>>

\* ... and clears both when it leaves its loop; the guards that tasks created on it
\* and that are still alive are then on their way to another thread.
WorkerExits(th) ==
    /\ stage[th] = "up" /\ Home[th] # None
    /\ ~InBlockOn(th)
    /\ stage' = [stage EXCEPT ![th] = "gone"]
    /\ context' = [context EXCEPT ![th] = None]
    /\ workerRef' = [workerRef EXCEPT ![th] = FALSE]
    /\ orderly' = [orderly EXCEPT ![th] = @ /\ guards[th] = <<>>]
    /\ UNCHANGED guards

AddGuard(th, kind, r) ==
    /\ stage[th] = "up"
    /\ Len(guards[th]) < MaxGuards
    /\ guards' = [guards EXCEPT ![th] =
                    Append(@, [kind |-> kind, rt |-> r, old |-> context[th],
                               oldWorker |-> workerRef[th]])]
    /\ context' = [context EXCEPT ![th] = r]

\* Mutant: enter() remembers its own runtime as the one to restore.
Enter_SavesNew(th, r) ==
    /\ stage[th] = "up"
    /\ Len(guards[th]) < MaxGuards
    /\ guards' = [guards EXCEPT ![th] =
                    Append(@, [kind |-> "enter", rt |-> r, old |-> r,
                               oldWorker |-> workerRef[th]])]
    /\ context' = [context EXCEPT ![th] = r]
    /\ UNCHANGED <<workerRef, stage, orderly>>

\* Handle::enter.
Enter(th, r) ==
    /\ AddGuard(th, "enter", r)
    /\ UNCHANGED <<workerRef, stage, orderly>>

\* ContextGuard::new in MultiThread::block_on; inside it the thread is no worker.
BlockOnBegins(th, r) ==
    /\ AddGuard(th, "block_on", r)
    /\ workerRef' = [workerRef EXCEPT ![th] = FALSE]
    /\ UNCHANGED <<stage, orderly>>

Without(s, i) == SubSeq(s, 1, i - 1) \o SubSeq(s, i + 1, Len(s))

\* The part of the history that a drop of guard i of th on thread on leaves.
OrderlyAfter(th, i, on) ==
    IF on = th /\ i = Len(guards[th]) THEN orderly
    ELSE [orderly EXCEPT ![th] = FALSE, ![on] = FALSE]

\* Drop of an EnterGuard: whichever thread does it gets the old context of the
\* thread that created the guard.
DropEnter(th, i, on) ==
    /\ stage[on] = "up"
    /\ i \in 1..Len(guards[th])
    /\ guards[th][i].kind = "enter"
    /\ context' = [context EXCEPT ![on] = guards[th][i].old]
    /\ guards' = [guards EXCEPT ![th] = Without(@, i)]
    /\ orderly' = OrderlyAfter(th, i, on)
    /\ UNCHANGED <<workerRef, stage>>

\* The last ContextGuard of the thread is dropped when block_on returns, whatever
\* EnterGuards its future has left alive.
BlockOnEnds(th, i) ==
    /\ i \in 1..Len(guards[th])
    /\ guards[th][i].kind = "block_on"
    /\ \A j \in (i + 1)..Len(guards[th]) : guards[th][j].kind = "enter"
    /\ context' = [context EXCEPT ![th] = guards[th][i].old]
    /\ workerRef' = [workerRef EXCEPT ![th] = guards[th][i].oldWorker]
    /\ guards' = [guards EXCEPT ![th] = Without(@, i)]
    /\ orderly' = OrderlyAfter(th, i, th)
    /\ UNCHANGED stage

\* shutdown() of some runtime, as Runtime::drop calls it on the thread that owns it:
\* the context of that thread is None afterwards, whatever it was.
ShutdownClears(th) ==
    /\ stage[th] = "up"
    /\ context' = [context EXCEPT ![th] = None]
    /\ orderly' = [orderly EXCEPT ![th] = @ /\ Expected(th) = None]
    /\ UNCHANGED <<workerRef, stage, guards>>

\* What user code running on a thread can do to the context.
ContextStep(th) ==
    \/ \E r \in Runtimes : Enter(th, r) \/ BlockOnBegins(th, r)
    \/ \E from \in Threads : \E i \in 1..Len(guards[from]) : DropEnter(from, i, th)
    \/ \E i \in 1..Len(guards[th]) : BlockOnEnds(th, i)
    \/ ShutdownClears(th)

WorkerLife(th) == WorkerStarts(th) \/ WorkerExits(th)

Next == \E th \in Threads : ContextStep(th) \/ WorkerLife(th)

Spec == Init /\ [][Next]_vars

-----------------------------------------------------------------------------
\* Type correctness of the thread-locals and the guards; a thread that is not up has
\* no block_on under way and is no worker.
TypeOK ==
    /\ context \in [Threads -> Runtimes \cup {None}]
    /\ workerRef \in [Threads -> BOOLEAN]
    /\ stage \in [Threads -> {"new", "up", "gone"}]
    /\ guards \in [Threads -> Seq(Guard)]
    /\ orderly \in [Threads -> BOOLEAN]
    /\ \A th \in Threads : stage[th] = "new" =>
          context[th] = None /\ ~workerRef[th] /\ guards[th] = <<>>
    /\ \A th \in Threads : stage[th] = "gone" => ~workerRef[th] /\ ~InBlockOn(th)

\* On a thread that drops its guards innermost first, and keeps them to itself, the
\* context is at any time that of the innermost guard alive, or its own runtime;
\* the code finds itself on a worker exactly outside block_on.  The conditions in
\* orderly are needed: each of them, broken, leaves a wrong context behind.
ContextFollowsGuards ==
    \A th \in Threads : orderly[th] =>
        /\ context[th] = Expected(th)
        /\ workerRef[th] <=> (stage[th] = "up" /\ Home[th] # None /\ ~InBlockOn(th))
=============================================================================
