----------------------------- MODULE FlagPark_proofs -----------------------------
(***************************************************************************)
(* Proofs about FlagPark, for any set of unparkers and any bounds.         *)
(***************************************************************************)
EXTENDS FlagPark, TLAPS

USE DEF refVars, parkVars

\* Which operations a step of the system can be.
LEMMA NextCases ==
    ASSUME Next
    PROVE  \/ \E label \in {"park", "park_timeout"} : StartPark(label)
           \/ SleepSwap \/ SleepWakes \/ SleepSwapTimed \/ SleepTimedEnds \/ YieldReturns
           \/ MakeWaker \/ Clone \/ WakeEnds \/ DropWaker \/ DropParker
           \/ \E th \in Threads : CallUnpark(th) \/ Wake(th) \/ WakeByRef(th)
  BY DEF Next, ParkStep, CountStep, WakerStep

\* The types of the state and the count of the Arc go together: refs is a natural
\* number because of the law, and the law counts naturals.
THEOREM CountIsRight == Spec => [](TypeOK /\ CountLaw)
<1>b. MaxWakers \in Nat /\ MaxClones \in Nat /\ MaxUnparks \in Nat /\ MaxSpurious \in Nat
  BY FlagParkAssumption
<1> USE <1>b DEF TypeOK, CountLaw
<1>1. Init => TypeOK /\ CountLaw
  <2> SUFFICES ASSUME Init PROVE TypeOK /\ CountLaw
    OBVIOUS
  <2>1. refs = 1 /\ owned = TRUE /\ wakers = 0 /\ waking = 0 /\ cloned = 0
    BY DEF Init
  <2>2. CountLaw
    BY <2>1
  <2>3. /\ made \in 0..MaxWakers /\ cloned \in 0..MaxClones
        /\ unparks \in 0..MaxUnparks /\ spurious \in 0..MaxSpurious
    BY DEF Init
  <2>4. kind \in {"sleep", "yield"} /\ flag = FALSE /\ token = FALSE /\ pc = "out" /\ returns = 0
    BY DEF Init
  <2>5. TypeOK
    BY <2>1, <2>3, <2>4
  <2> QED
    BY <2>2, <2>5
<1>2. TypeOK /\ CountLaw /\ [Next]_vars => (TypeOK /\ CountLaw)'
  <2> SUFFICES ASSUME TypeOK, CountLaw, [Next]_vars PROVE TypeOK' /\ CountLaw'
    OBVIOUS
  <2>1. ASSUME NEW label \in {"park", "park_timeout"}, StartPark(label) PROVE TypeOK' /\ CountLaw'
    BY <2>1 DEF StartPark
  <2>2. CASE SleepSwap
    <3>1. CountLaw'
      BY <2>2 DEF SleepSwap
    <3>2. pc' \in {"out", "asleep"} /\ returns' \in Nat /\ flag' = FALSE
      BY <2>2 DEF SleepSwap
    <3> QED
      BY <2>2, <3>1, <3>2 DEF SleepSwap
  <2>3. CASE SleepWakes
    <3>1. spurious' \in 0..MaxSpurious
      BY <2>3 DEF SleepWakes
    <3> QED
      BY <2>3, <3>1 DEF SleepWakes
  <2>4. CASE SleepSwapTimed
    BY <2>4 DEF SleepSwapTimed
  <2>5. CASE SleepTimedEnds
    BY <2>5 DEF SleepTimedEnds
  <2>6. CASE YieldReturns
    BY <2>6 DEF YieldReturns
  <2>7. CASE MakeWaker
    BY <2>7 DEF MakeWaker
  <2>8. CASE Clone
    BY <2>8 DEF Clone
  <2>9. CASE WakeEnds
    BY <2>9 DEF WakeEnds
  <2>10. CASE DropWaker
    BY <2>10 DEF DropWaker
  <2>11. CASE DropParker
    <3>1. owned' = FALSE /\ refs' = refs - 1 /\ wakers' = wakers /\ waking' = waking
          /\ cloned' = cloned /\ refs = 1 + wakers + waking + cloned
      BY <2>11 DEF DropParker
    <3>2. CountLaw' /\ refs' \in Nat
      BY <3>1
    <3> QED
      BY <2>11, <3>1, <3>2 DEF DropParker
  <2>12. ASSUME NEW th \in Threads, CallUnpark(th) PROVE TypeOK' /\ CountLaw'
    <3>1. flag' \in BOOLEAN /\ token' \in BOOLEAN /\ (kind' = "yield" => ~flag')
      BY <2>12 DEF CallUnpark, Unpark
    <3>2. unparks' \in 0..MaxUnparks
      BY <2>12 DEF CallUnpark, Unpark
    <3> QED
      BY <2>12, <3>1, <3>2 DEF CallUnpark, Unpark
  <2>13. ASSUME NEW th \in Threads, Wake(th) PROVE TypeOK' /\ CountLaw'
    BY <2>13 DEF Wake, Unpark
  <2>14. ASSUME NEW th \in Threads, WakeByRef(th) PROVE TypeOK' /\ CountLaw'
    BY <2>14 DEF WakeByRef, Unpark
  <2>15. CASE UNCHANGED vars
    BY <2>15 DEF vars
  <2> HIDE DEF TypeOK, CountLaw
  <2> QED
    BY <2>1, <2>2, <2>3, <2>4, <2>5, <2>6, <2>7, <2>8, <2>9, <2>10, <2>11, <2>12, <2>13,
       <2>14, <2>15, NextCases
<1>3. QED
  BY <1>1, <1>2, PTL DEF Spec

\* Type correctness; the flag of a YieldPark is never set.
THEOREM TypeCorrect == Spec => []TypeOK
  BY CountIsRight, PTL

\* SleepPark::park returns at most once for every unpark().
THEOREM EveryReturnIsEarned == Spec => []ParkIsEarned
<1> USE FlagParkAssumption DEF ParkIsEarned
<1>1. Init => ParkIsEarned
  BY DEF Init
<1>2. TypeOK /\ ParkIsEarned /\ [Next]_vars => ParkIsEarned'
  <2> SUFFICES ASSUME TypeOK, ParkIsEarned, [Next]_vars PROVE ParkIsEarned'
    OBVIOUS
  <2>t. returns \in Nat /\ unparks \in Nat /\ flag \in BOOLEAN
    BY DEF TypeOK
  <2>1. ASSUME NEW label \in {"park", "park_timeout"}, StartPark(label) PROVE ParkIsEarned'
    BY <2>1 DEF StartPark
  <2>2. CASE SleepSwap
    BY <2>2, <2>t DEF SleepSwap
  <2>3. CASE SleepWakes \/ SleepTimedEnds \/ YieldReturns
    BY <2>3 DEF SleepWakes, SleepTimedEnds, YieldReturns
  <2>4. CASE SleepSwapTimed
    BY <2>4, <2>t DEF SleepSwapTimed
  <2>5. CASE MakeWaker \/ Clone \/ WakeEnds \/ DropWaker \/ DropParker
    BY <2>5 DEF MakeWaker, Clone, WakeEnds, DropWaker, DropParker
  <2>6. ASSUME NEW th \in Threads, Unpark(th) PROVE ParkIsEarned'
    BY <2>6, <2>t DEF Unpark
  <2>7. ASSUME NEW th \in Threads, CallUnpark(th) \/ Wake(th) \/ WakeByRef(th) PROVE Unpark(th)
    BY <2>7 DEF CallUnpark, Wake, WakeByRef
  <2>8. CASE UNCHANGED vars
    BY <2>8 DEF vars
  <2> HIDE DEF ParkIsEarned
  <2> QED
    BY <2>1, <2>2, <2>3, <2>4, <2>5, <2>6, <2>7, <2>8, NextCases
<1>3. QED
  BY <1>1, <1>2, CountIsRight, PTL DEF Spec

\* An unpark() does not reach a thread asleep in SleepPark::park: if it went to sleep
\* without a token of its own making, it comes back only by a spurious return.
DeafSleeper ==
    [][pc = "asleep" /\ ~token => token' = FALSE /\ (pc' # "asleep" => spurious' > spurious)]_vars

\* No unpark() gives the token to a thread that sleeps in SleepPark::park.
THEOREM SleeperIsDeaf == Spec => DeafSleeper
<1> DEFINE Deaf == pc = "asleep" /\ ~token
                     => token' = FALSE /\ (pc' # "asleep" => spurious' > spurious)
<1>1. TypeOK /\ [Next]_vars => [Deaf]_vars
  <2> SUFFICES ASSUME TypeOK, Next, pc = "asleep", ~token
               PROVE  token' = FALSE /\ (pc' # "asleep" => spurious' > spurious)
    OBVIOUS
  <2>t. spurious \in Nat /\ token = FALSE
    BY FlagParkAssumption DEF TypeOK
  <2>1. CASE SleepWakes
    BY <2>1, <2>t DEF SleepWakes
  <2>2. CASE MakeWaker \/ Clone \/ WakeEnds \/ DropWaker
    BY <2>2, <2>t DEF MakeWaker, Clone, WakeEnds, DropWaker
  <2>3. ASSUME NEW th \in Threads, CallUnpark(th) \/ Wake(th) \/ WakeByRef(th)
        PROVE  token' = FALSE /\ pc' = pc
    <3>1. th # Parker /\ Unpark(th)
      BY <2>3 DEF CallUnpark, Wake, WakeByRef, MayCall
    <3> QED
      BY <3>1, <2>t DEF Unpark
  <2>4. /\ \A label \in {"park", "park_timeout"} : ~StartPark(label)
        /\ ~SleepSwap /\ ~SleepSwapTimed /\ ~SleepTimedEnds /\ ~YieldReturns /\ ~DropParker
    BY DEF StartPark, SleepSwap, SleepSwapTimed, SleepTimedEnds, YieldReturns, DropParker
  <2> QED
    BY <2>1, <2>2, <2>3, <2>4, NextCases
<1>2. QED
  BY <1>1, CountIsRight, PTL DEF Spec, DeafSleeper

\* No unpark() is lost: only a swap takes the flag back, and the park that makes it
\* has not returned yet.
THEOREM PermitIsKept == Spec => KeepsPermit
<1> DEFINE Waiting == {"park", "park_timeout", "asleep"}
           Step == Permits!Next \/ UNCHANGED <<flag, pc \in Waiting>>
<1>1. Init => Permits!Init
  <2> SUFFICES ASSUME Init PROVE flag = FALSE /\ (pc \in Waiting) = FALSE
    BY DEF Permits!Init
  <2> QED
    BY DEF Init
<1>2. TypeOK /\ [Next]_vars => Step
  <2> SUFFICES ASSUME TypeOK, [Next]_vars PROVE Step
    OBVIOUS
  <2>t. flag \in BOOLEAN /\ (kind = "yield" => flag = FALSE)
    BY DEF TypeOK
  <2>1. ASSUME NEW label \in {"park", "park_timeout"}, StartPark(label) PROVE Step
    <3>1. (pc \in Waiting) = FALSE /\ (pc' \in Waiting) = TRUE /\ flag' = flag
      BY <2>1 DEF StartPark
    <3> QED
      BY <3>1 DEF Permits!Next, Permits!Park
  <2>2. CASE SleepSwap
    <3>1. pc \in Waiting /\ flag' = FALSE
      BY <2>2 DEF SleepSwap
    <3>2. CASE flag = TRUE
      <4>1. (pc' \in Waiting) = FALSE
        BY <2>2, <3>2 DEF SleepSwap
      <4> QED
        BY <3>1, <4>1 DEF Permits!Next, Permits!Return
    <3>3. CASE flag = FALSE
      <4>1. pc' \in Waiting
        BY <2>2, <3>3 DEF SleepSwap
      <4> QED
        BY <3>1, <3>3, <4>1
    <3> QED
      BY <3>2, <3>3, <2>t
  <2>3. CASE SleepWakes
    BY <2>3 DEF SleepWakes
  <2>4. CASE SleepSwapTimed
    <3>1. pc \in Waiting /\ flag' = FALSE /\ (pc' \in Waiting) = FALSE
      BY <2>4 DEF SleepSwapTimed
    <3> QED
      BY <3>1 DEF Permits!Next, Permits!Return
  <2>5. CASE SleepTimedEnds
    BY <2>5 DEF SleepTimedEnds
  <2>6. CASE YieldReturns
    <3>1. pc \in Waiting /\ (pc' \in Waiting) = FALSE /\ flag' = FALSE
      BY <2>6, <2>t DEF YieldReturns
    <3> QED
      BY <3>1 DEF Permits!Next, Permits!Return
  <2>7. CASE MakeWaker \/ Clone \/ WakeEnds \/ DropWaker \/ DropParker
    BY <2>7 DEF MakeWaker, Clone, WakeEnds, DropWaker, DropParker
  <2>8. ASSUME NEW th \in Threads, CallUnpark(th) \/ Wake(th) \/ WakeByRef(th) PROVE Step
    <3>1. pc' = pc /\ flag' = (kind = "sleep")
      BY <2>8 DEF CallUnpark, Wake, WakeByRef, Unpark
    <3>2. CASE kind = "sleep"
      BY <3>1, <3>2 DEF Permits!Next, Permits!Unpark
    <3>3. CASE kind # "sleep"
      <4>1. flag = FALSE /\ flag' = FALSE
        BY <3>1, <3>3, <2>t DEF TypeOK
      <4> QED
        BY <3>1, <4>1
    <3> QED
      BY <3>2, <3>3
  <2>9. CASE UNCHANGED vars
    BY <2>9 DEF vars
  <2> HIDE DEF Step
  <2> QED
    BY <2>1, <2>2, <2>3, <2>4, <2>5, <2>6, <2>7, <2>8, <2>9, NextCases
<1>3. Step => [Permits!Next]_<<flag, pc \in Waiting>>
  OBVIOUS
<1>4. QED
  BY <1>1, <1>2, <1>3, CountIsRight, PTL DEF Spec, KeepsPermit, Permits!Spec
=============================================================================
