--------------------------- MODULE ThreadPark_proofs ---------------------------
(***************************************************************************)
(* Proofs about ThreadPark, for any number of unparkers and any bound on   *)
(* the waits that time out.                                                *)
(***************************************************************************)
EXTENDS ThreadPark, TLAPS

USE DEF Goto, CompareExchange

Safe == TypeOK /\ NoUnreachable

LEMMA SafeStep == Spec => []Safe
<1> USE DEF Safe, NoUnreachable, Asleep
<1>1. Init => Safe
  <2> SUFFICES ASSUME Init PROVE Safe
    OBVIOUS
  <2>1. Parker \in Threads
    BY DEF Threads
  <2>2. TypeOK
    <3>1. mutex \in Threads \cup {NoThread}
      BY DEF Init
    <3>2. timeouts \in 0..MaxTimeouts
      BY ParkAssumption DEF Init
    <3>3. pc \in [Threads -> {"out", "loop", "lock", "waiting", "swap", "notify"}]
      BY DEF Init
    <3> QED
      BY <3>1, <3>2, <3>3 DEF Init, TypeOK
  <2> QED
    BY <2>1, <2>2 DEF Init
<1>2. Safe /\ [Next]_vars => Safe'
  <2> SUFFICES ASSUME Safe, [Next]_vars PROVE Safe'
    OBVIOUS
  <2>p. /\ Parker \in Threads /\ Unparkers \subseteq Threads /\ Parker \notin Unparkers
        /\ pc \in [Threads -> {"out", "loop", "lock", "waiting", "swap", "notify"}]
        /\ MaxTimeouts \in Nat
    BY ParkAssumption DEF TypeOK, Threads
  <2> USE DEF TypeOK
  <2>1. CASE ParkLoad
    BY <2>1, <2>p DEF ParkLoad
  <2>2. CASE ParkTake
    <3>1. CASE state = "NOTIFIED"
      BY <2>2, <3>1, <2>p DEF ParkTake
    <3>2. CASE ~(state = "NOTIFIED")
      BY <2>2, <3>2, <2>p DEF ParkTake
    <3> QED
      BY <3>1, <3>2
  <2>3. CASE ParkCommit
    <3>1. CASE state = "EMPTY"
      BY <2>3, <3>1, <2>p DEF ParkCommit
    <3>2. CASE ~(state = "EMPTY")
      BY <2>3, <3>2, <2>p DEF ParkCommit
    <3> QED
      BY <3>1, <3>2
  <2>4. CASE ParkWait
    BY <2>4, <2>p DEF ParkWait
  <2>5. CASE TimeOut
    <3>1. timeouts' \in 0..MaxTimeouts
      BY <2>5, <2>p DEF TimeOut
    <3> QED
      BY <2>5, <2>p, <3>1 DEF TimeOut
  <2>6. CASE ParkWoken
    BY <2>6, <2>p DEF ParkWoken
  <2>7. CASE ParkSwap
    BY <2>7, <2>p DEF ParkSwap
  <2>8. ASSUME NEW u \in Unparkers, UnparkSwap(u) PROVE Safe'
    <3>1. CASE state = "PARKED"
      BY <2>8, <3>1, <2>p DEF UnparkSwap
    <3>2. CASE state # "PARKED"
      BY <2>8, <3>2, <2>p DEF UnparkSwap
    <3> QED
      BY <3>1, <3>2
  <2>9. ASSUME NEW u \in Unparkers, UnparkNotify(u) PROVE Safe'
    BY <2>9, <2>p DEF UnparkNotify
  <2>10. CASE UNCHANGED vars
    BY <2>10 DEF vars
  <2> QED
    BY <2>1, <2>2, <2>3, <2>4, <2>5, <2>6, <2>7, <2>8, <2>9, <2>10
       DEF Next, ParkStep, UnparkStep
<1>3. QED
  BY <1>1, <1>2, PTL DEF Spec

\* Type correctness; the unreachable!() of park_timeout does not panic.
THEOREM TypeCorrect == Spec => []TypeOK
BY SafeStep, PTL DEF Safe

\* The state of the parker while it sleeps is what the code after the wait
\* expects.
THEOREM SleeperState == Spec => []NoUnreachable
BY SafeStep, PTL DEF Safe

\* ThreadPark implements the permit it promises.
THEOREM PermitKept == Spec => KeepsPermit
<1> USE DEF Promise!Next, Promise!Park, Promise!Unpark, Promise!Return
<1>1. Init => Promise!Init
  BY DEF Init, Promise!Init, Threads
<1>2. Safe /\ [Next]_vars => [Promise!Next]_<<state = "NOTIFIED", pc[Parker] # "out">>
  <2> SUFFICES ASSUME Safe, [Next]_vars
               PROVE  Promise!Next \/ UNCHANGED <<state = "NOTIFIED", pc[Parker] # "out">>
    OBVIOUS
  <2>p. /\ Parker \in Threads /\ Unparkers \subseteq Threads /\ Parker \notin Unparkers
        /\ pc \in [Threads -> {"out", "loop", "lock", "waiting", "swap", "notify"}]
        /\ MaxTimeouts \in Nat
    BY ParkAssumption DEF Safe, TypeOK, Threads
  <2> USE DEF Safe, TypeOK, NoUnreachable, Asleep
  <2>1. CASE ParkLoad
    BY <2>1, <2>p DEF ParkLoad
  <2>2. CASE ParkTake
    <3>1. CASE state = "NOTIFIED"
      BY <2>2, <3>1, <2>p DEF ParkTake
    <3>2. CASE ~(state = "NOTIFIED")
      BY <2>2, <3>2, <2>p DEF ParkTake
    <3> QED
      BY <3>1, <3>2
  <2>3. CASE ParkCommit
    <3>1. CASE state = "EMPTY"
      BY <2>3, <3>1, <2>p DEF ParkCommit
    <3>2. CASE ~(state = "EMPTY")
      BY <2>3, <3>2, <2>p DEF ParkCommit
    <3> QED
      BY <3>1, <3>2
  <2>4. CASE ParkWait
    BY <2>4, <2>p DEF ParkWait
  <2>5. CASE TimeOut
    BY <2>5, <2>p DEF TimeOut
  <2>6. CASE ParkWoken
    BY <2>6, <2>p DEF ParkWoken
  <2>7. CASE ParkSwap
    BY <2>7, <2>p DEF ParkSwap
  <2>8. ASSUME NEW u \in Unparkers, UnparkSwap(u) PROVE Promise!Next \/ UNCHANGED <<state = "NOTIFIED", pc[Parker] # "out">>
    <3>1. CASE state = "PARKED"
      BY <2>8, <3>1, <2>p DEF UnparkSwap
    <3>2. CASE state # "PARKED"
      BY <2>8, <3>2, <2>p DEF UnparkSwap
    <3> QED
      BY <3>1, <3>2
  <2>9. ASSUME NEW u \in Unparkers, UnparkNotify(u) PROVE Promise!Next \/ UNCHANGED <<state = "NOTIFIED", pc[Parker] # "out">>
    BY <2>9, <2>p DEF UnparkNotify
  <2>10. CASE UNCHANGED vars
    BY <2>10 DEF vars
  <2> QED
    BY <2>1, <2>2, <2>3, <2>4, <2>5, <2>6, <2>7, <2>8, <2>9, <2>10
       DEF Next, ParkStep, UnparkStep
<1>3. QED
  BY <1>1, <1>2, SafeStep, PTL DEF Spec, KeepsPermit, Promise!Spec
=============================================================================
