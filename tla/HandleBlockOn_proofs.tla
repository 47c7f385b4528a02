--------------------------- MODULE HandleBlockOn_proofs ---------------------------
(***************************************************************************)
(* Proofs about HandleBlockOn, for any batch, queue bound and number of    *)
(* wakers.                                                                 *)
(***************************************************************************)
EXTENDS HandleBlockOn, TLAPS

USE DEF stateVars, taskVars

\* Which operations a step of the system can be.
LEMMA NextCases ==
    ASSUME Next
    PROVE  \/ Check \/ PollReady \/ PollPending \/ TakeTask \/ TasksDone \/ TaskReturns \/ Leave
           \/ Start \/ ContextMoves \/ SelfWake \/ TaskSpawns \/ Panics
           \/ Wake \/ WakeEnds \/ DropClone \/ BecomesReady \/ Push \/ OthersTake
  BY DEF Next, CallStep, Environment

\* Wakes are counted by woken; the simple loop, and a call that has not begun, have
\* neither wakers nor a count.
WakersInv ==
    /\ waking <= woken
    /\ refs >= 0
    /\ mode = "simple" => refs = 0 /\ clones = 0 /\ waking = 0 /\ woken = 0 /\ ~completed
    /\ pc = "idle" => mode = "simple"

\* The variables the count depends on.
countVars == <<mode, refs, clones, waking, woken, completed>>

\* A step inside the call that leaves the count alone keeps the law.
LEMMA CountUndisturbed ==
    ASSUME WakersInv, RefsLaw, UNCHANGED countVars,
           pc \in Holding, pc' \in Holding
    PROVE  WakersInv' /\ RefsLaw'
  BY DEF WakersInv, RefsLaw, countVars, Holding, InLoop

\* The strong count of the BlockOnState follows its law through any number of wakes,
\* and the law keeps it between zero and two.
THEOREM CountIsRight == Spec => [](CallTypes /\ WakersInv /\ RefsLaw)
<1>b. MaxClones \in Nat /\ Batch \in Nat /\ Batch >= 1 /\ MaxQueue \in Nat
  BY HandleAssumption
<1>1. Init => CallTypes /\ WakersInv /\ RefsLaw
  <2> SUFFICES ASSUME Init PROVE CallTypes /\ WakersInv /\ RefsLaw
    OBVIOUS
  <2>1. given \in 0..MaxClones /\ round \in 0..Batch /\ queue \in 0..MaxQueue
    BY <1>b DEF Init
  <2>0. /\ pc = "idle" /\ mode = "simple" /\ context \in {Target, Other, None}
        /\ ready = FALSE /\ completed = FALSE
        /\ refs = 0 /\ clones = 0 /\ waking = 0 /\ woken = 0
    BY DEF Init
  <2>2. CallTypes
    <3>1. ready \in BOOLEAN /\ completed \in BOOLEAN
      BY <2>0
    <3>2. refs \in Int /\ clones \in Nat /\ waking \in Nat /\ woken \in Nat
      BY <2>0
    <3>3. pc \in Holding \cup {"idle", "returned", "unwound"} /\ mode \in {"worker", "simple"}
      BY <2>0
    <3> QED
      BY <2>0, <2>1, <3>1, <3>2, <3>3 DEF CallTypes
  <2>3. WakersInv /\ RefsLaw
    BY DEF Init, WakersInv, RefsLaw
  <2> QED
    BY <2>2, <2>3
<1>2. CallTypes /\ WakersInv /\ RefsLaw /\ [Next]_vars => (CallTypes /\ WakersInv /\ RefsLaw)'
  <2> SUFFICES ASSUME CallTypes, WakersInv, RefsLaw, [Next]_vars
               PROVE  CallTypes' /\ WakersInv' /\ RefsLaw'
    OBVIOUS
  <2>t. /\ refs \in Int /\ clones \in Nat /\ waking \in Nat /\ woken \in Nat /\ given \in 0..MaxClones
        /\ round \in 0..Batch /\ queue \in 0..MaxQueue /\ mode \in {"worker", "simple"}
    BY DEF CallTypes
  <2>1. CASE Check
    <3>1. CallTypes'
      BY <2>1 DEF Check, CallTypes, Holding, InLoop
    <3> QED
      BY <2>1, <3>1, CountUndisturbed DEF Check, countVars, Holding, InLoop
  <2>2. CASE PollReady \/ SelfWake \/ TasksDone \/ TaskReturns \/ Panics
    <3>1. CallTypes'
      BY <2>2 DEF PollReady, SelfWake, TasksDone, TaskReturns, Panics, CallTypes, Holding, InLoop
    <3> QED
      BY <2>2, <3>1, CountUndisturbed
         DEF PollReady, SelfWake, TasksDone, TaskReturns, Panics, countVars, Holding, InLoop
  <2>3. CASE PollPending
    <3>1. given' \in 0..MaxClones /\ clones' \in Nat /\ round' \in 0..Batch
      BY <2>3, <2>t, <1>b DEF PollPending
    <3>2. CallTypes'
      BY <2>3, <3>1 DEF PollPending, CallTypes, Holding, InLoop
    <3>3. WakersInv' /\ RefsLaw'
      BY <2>3 DEF PollPending, WakersInv, RefsLaw, Holding, InLoop
    <3> QED
      BY <3>2, <3>3
  <2>4. CASE TakeTask \/ TaskSpawns \/ ContextMoves
    <3>1. queue' \in 0..MaxQueue /\ round' \in 0..Batch
      BY <2>4, <2>t, <1>b DEF TakeTask, TaskSpawns, ContextMoves
    <3>2. CallTypes'
      BY <2>4, <3>1 DEF TakeTask, TaskSpawns, ContextMoves, CallTypes, Holding, InLoop
    <3> QED
      BY <2>4, <3>2, CountUndisturbed
         DEF TakeTask, TaskSpawns, ContextMoves, countVars, Holding, InLoop
  <2>5. CASE Leave
    <3>1. pc \in Holding /\ pc' \in {"returned", "unwound"}
          /\ UNCHANGED <<context, mode, ready, completed, clones, given, waking, woken, round, queue>>
      BY <2>5 DEF Leave, Holding, InLoop
    <3>2. CASE mode = "worker"
      <4>1. refs > 0 /\ refs' = refs - 1
        BY <2>5, <3>2 DEF Leave, Alive
      <4> QED
        BY <3>1, <3>2, <4>1, <2>t DEF CallTypes, WakersInv, RefsLaw, Holding, InLoop
    <3>3. CASE mode = "simple"
      <4>1. refs' = refs
        BY <2>5, <3>3 DEF Leave
      <4> QED
        BY <3>1, <3>3, <4>1, <2>t DEF CallTypes, WakersInv, RefsLaw, Holding, InLoop
    <3> QED
      BY <3>2, <3>3, <2>t
  <2>6. CASE Start
    <3>1. pc = "idle" /\ mode = "simple" /\ waking = 0 /\ woken = 0 /\ clones = 0 /\ ~completed
      BY <2>6 DEF Start, WakersInv
    <3>2. /\ pc' = "check" /\ UNCHANGED <<context, ready, completed, clones, given, waking, woken, taskVars>>
          /\ \/ mode' = "simple" /\ refs' = 0
             \/ mode' = "worker" /\ refs' = 2
      BY <2>6 DEF Start
    <3> QED
      BY <3>1, <3>2 DEF CallTypes, WakersInv, RefsLaw, Holding, InLoop
  <2>7. CASE Wake
    <3>1. mode = "worker"
      BY <2>7, <2>t DEF Wake, WakersInv
    <3>2. CallTypes'
      BY <2>7, <2>t DEF Wake, CallTypes
    <3>3. woken' - waking' = woken - waking /\ waking' <= woken'
      BY <2>7, <2>t DEF Wake, WakersInv
    <3>4. UNCHANGED <<pc, mode, refs>>
      BY <2>7 DEF Wake
    <3>5. WakersInv'
      BY <3>1, <3>3, <3>4 DEF WakersInv
    <3>6. RefsLaw'
      BY <3>3, <3>4 DEF RefsLaw
    <3> QED
      BY <3>2, <3>5, <3>6
  <2>8. CASE WakeEnds
    <3>1. mode = "worker" /\ refs > 0 /\ waking > 0
      BY <2>8, <2>t DEF WakeEnds, WakersInv, Alive
    <3>2. refs' = refs - 1 /\ waking' = waking - 1
          /\ UNCHANGED <<pc, context, mode, ready, completed, clones, given, woken, taskVars>>
      BY <2>8 DEF WakeEnds
    <3> QED
      BY <3>1, <3>2, <2>t DEF CallTypes, WakersInv, RefsLaw
  <2>9. CASE DropClone
    <3>1. clones > 0 /\ clones' = clones - 1
          /\ UNCHANGED <<pc, context, mode, ready, completed, refs, given, waking, woken, taskVars>>
      BY <2>9 DEF DropClone
    <3> QED
      BY <3>1, <2>t DEF CallTypes, WakersInv, RefsLaw
  <2>10. CASE BecomesReady
    BY <2>10 DEF BecomesReady, CallTypes, WakersInv, RefsLaw
  <2>11. CASE Push \/ OthersTake
    <3>1. queue' \in 0..MaxQueue
      BY <2>11, <2>t, <1>b DEF Push, OthersTake
    <3> QED
      BY <2>11, <3>1 DEF Push, OthersTake, CallTypes, WakersInv, RefsLaw
  <2>12. CASE UNCHANGED vars
    BY <2>12 DEF vars, CallTypes, WakersInv, RefsLaw
  <2> QED
    BY <2>1, <2>2, <2>3, <2>4, <2>5, <2>6, <2>7, <2>8, <2>9, <2>10, <2>11, <2>12, NextCases
<1>3. QED
  BY <1>1, <1>2, PTL DEF Spec

\* Type correctness: the count is never negative and never above two.
THEOREM TypeCorrect == Spec => []TypeOK
<1>1. CallTypes /\ WakersInv /\ RefsLaw => TypeOK
  <2> SUFFICES ASSUME CallTypes, WakersInv, RefsLaw PROVE refs \in 0..2
    BY DEF TypeOK
  <2>t. refs \in Int /\ waking \in Nat /\ woken \in Nat /\ mode \in {"worker", "simple"}
    BY DEF CallTypes
  <2>1. CASE mode = "worker"
    BY <2>1, <2>t DEF WakersInv, RefsLaw
  <2>2. CASE mode = "simple"
    BY <2>2 DEF WakersInv
  <2> QED
    BY <2>1, <2>2, <2>t
<1>2. QED
  BY <1>1, CountIsRight, PTL

\* While it polls, the call knows that nobody has set completed: it holds the lock
\* under which it looked.
PollsUncompleted == pc = "polling" => ~completed

THEOREM PollsAreUncompleted == Spec => []PollsUncompleted
<1>1. Init => PollsUncompleted
  BY DEF Init, PollsUncompleted
<1>2. WakersInv /\ CallTypes /\ PollsUncompleted /\ [Next]_vars => PollsUncompleted'
  <2> SUFFICES ASSUME WakersInv, CallTypes, PollsUncompleted, [Next]_vars, pc' = "polling"
               PROVE  ~completed'
    BY DEF PollsUncompleted
  <2>1. CASE Check
    BY <2>1 DEF Check, WakersInv, CallTypes
  <2>2. CASE Wake
    BY <2>2 DEF Wake
  <2>3. CASE WakeEnds \/ DropClone \/ BecomesReady \/ Push \/ OthersTake \/ ContextMoves
    BY <2>3 DEF WakeEnds, DropClone, BecomesReady, Push, OthersTake, ContextMoves, PollsUncompleted
  <2>4. CASE PollReady \/ PollPending \/ TakeTask \/ TasksDone \/ TaskReturns \/ Leave
             \/ Start \/ SelfWake \/ TaskSpawns \/ Panics
    BY <2>4 DEF PollReady, PollPending, TakeTask, TasksDone, TaskReturns, Leave, Start, SelfWake,
                TaskSpawns, Panics
  <2>5. CASE UNCHANGED vars
    BY <2>5 DEF vars, PollsUncompleted
  <2> QED
    BY <2>1, <2>2, <2>3, <2>4, <2>5, NextCases
<1>3. QED
  BY <1>1, <1>2, CountIsRight, PTL DEF Spec

\* A call that was woken by value, or woke itself, can no longer return its output.
THEOREM NoWayBack == Spec => CondemnedForGood
<1>1. WakersInv /\ CallTypes /\ PollsUncompleted /\ [Next]_vars => [Condemned => Condemned']_vars
  <2> SUFFICES ASSUME WakersInv, CallTypes, PollsUncompleted, Next, Condemned PROVE Condemned'
    OBVIOUS
  <2> USE DEF Condemned, InLoop
  <2>1. CASE Check
    BY <2>1 DEF Check, WakersInv, CallTypes
  <2>2. CASE PollReady \/ PollPending \/ SelfWake
    BY <2>2 DEF PollReady, PollPending, SelfWake, PollsUncompleted
  <2>3. CASE TakeTask \/ TasksDone \/ TaskReturns \/ TaskSpawns \/ Panics
    BY <2>3 DEF TakeTask, TasksDone, TaskReturns, TaskSpawns, Panics
  <2>4. CASE Leave \/ Start
    BY <2>4 DEF Leave, Start
  <2>5. CASE Wake \/ WakeEnds \/ DropClone \/ BecomesReady \/ Push \/ OthersTake \/ ContextMoves
    BY <2>5 DEF Wake, WakeEnds, DropClone, BecomesReady, Push, OthersTake, ContextMoves
  <2> QED
    BY <2>1, <2>2, <2>3, <2>4, <2>5, NextCases
<1>2. QED
  BY <1>1, CountIsRight, PollsAreUncompleted, PTL DEF Spec, CondemnedForGood
=============================================================================
