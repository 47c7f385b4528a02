------------------------------ MODULE Context_proofs ------------------------------
(***************************************************************************)
(* Proofs about Context, for any threads, runtimes and depth of guards.    *)
(***************************************************************************)
EXTENDS Context, SequenceTheorems, TLAPS

\* Which operations a step of the system can be.
LEMMA NextCases ==
    ASSUME Next
    PROVE  \/ \E th \in Threads : WorkerStarts(th) \/ WorkerExits(th) \/ ShutdownClears(th)
           \/ \E th \in Threads, r \in Runtimes : Enter(th, r) \/ BlockOnBegins(th, r)
           \/ \E on, th \in Threads : \E i \in 1..Len(guards[th]) : DropEnter(th, i, on)
           \/ \E th \in Threads : \E i \in 1..Len(guards[th]) : BlockOnEnds(th, i)
  BY DEF Next, ContextStep, WorkerLife

\* Without(s, i) keeps the entries of s before place i, and adds none.
LEMMA WithoutProperties ==
    ASSUME NEW S, NEW s \in Seq(S), NEW i \in 1..Len(s)
    PROVE  /\ Without(s, i) \in Seq(S)
           /\ Len(Without(s, i)) = Len(s) - 1
           /\ \A j \in 1..(i - 1) : Without(s, i)[j] = s[j]
           /\ \A j \in 1..(Len(s) - 1) : \E k \in 1..Len(s) : Without(s, i)[j] = s[k]
<1> DEFINE a == SubSeq(s, 1, i - 1)
           b == SubSeq(s, i + 1, Len(s))
<1>0. Len(s) \in Nat /\ i \in Nat /\ i >= 1 /\ i <= Len(s)
  BY LenProperties
<1>1. a \in Seq(S) /\ Len(a) = i - 1 /\ \A j \in 1..(i - 1) : a[j] = s[j]
  <2>1. 1 \in 1..(Len(s) + 1) /\ i - 1 \in (1 - 1)..Len(s)
    BY <1>0
  <2>2. a \in Seq(S) /\ Len(a) = (i - 1) - 1 + 1 /\ \A j \in 1..((i - 1) - 1 + 1) : a[j] = s[1 + j - 1]
    BY <2>1, SubSeqProperties
  <2> QED
    BY <2>2, <1>0
<1>2. b \in Seq(S) /\ Len(b) = Len(s) - i /\ \A j \in 1..(Len(s) - i) : b[j] = s[i + j]
  <2>1. i + 1 \in 1..(Len(s) + 1) /\ Len(s) \in ((i + 1) - 1)..Len(s)
    BY <1>0
  <2>2. b \in Seq(S) /\ Len(b) = Len(s) - (i + 1) + 1
        /\ \A j \in 1..(Len(s) - (i + 1) + 1) : b[j] = s[(i + 1) + j - 1]
    BY <2>1, SubSeqProperties
  <2> QED
    BY <2>2, <1>0
<1> HIDE DEF a, b
<1>3. Without(s, i) = a \o b
  BY DEF Without, a, b
<1>4. /\ a \o b \in Seq(S) /\ Len(a \o b) = Len(a) + Len(b)
      /\ \A j \in 1..(Len(a) + Len(b)) : (a \o b)[j] = IF j <= Len(a) THEN a[j] ELSE b[j - Len(a)]
  BY <1>1, <1>2, ConcatProperties
<1>5. Len(a) + Len(b) = Len(s) - 1
  BY <1>0, <1>1, <1>2
<1>6. \A j \in 1..(i - 1) : (a \o b)[j] = s[j]
  BY <1>0, <1>1, <1>4, <1>5
<1>7. ASSUME NEW j \in 1..(Len(s) - 1) PROVE \E k \in 1..Len(s) : (a \o b)[j] = s[k]
  <2>1. CASE j <= i - 1
    <3>1. j \in 1..(i - 1) /\ j \in 1..Len(s)
      BY <2>1, <1>0
    <3> QED
      BY <3>1, <1>6
  <2>2. CASE j > i - 1
    <3>1. j - (i - 1) \in 1..(Len(s) - i) /\ j + 1 \in 1..Len(s) /\ i + (j - (i - 1)) = j + 1
      BY <2>2, <1>0
    <3>2. (a \o b)[j] = b[j - (i - 1)]
      BY <2>2, <1>0, <1>1, <1>4, <1>5
    <3> QED
      BY <3>1, <3>2, <1>2
  <2>3. j <= i - 1 \/ j > i - 1
    BY <1>0
  <2> QED
    BY <2>1, <2>2, <2>3
<1> QED
  BY <1>3, <1>4, <1>5, <1>6, <1>7

\* Types.  The conjuncts about the stages go by the guards each thread still has.
THEOREM TypeCorrect == Spec => []TypeOK
<1> USE ContextAssumption
<1>1. Init => TypeOK
  BY DEF Init, TypeOK
<1>2. TypeOK /\ [Next]_vars => TypeOK'
  <2> SUFFICES ASSUME TypeOK, [Next]_vars PROVE TypeOK'
    OBVIOUS
  <2>t. /\ context \in [Threads -> Runtimes \cup {None}] /\ workerRef \in [Threads -> BOOLEAN]
        /\ stage \in [Threads -> {"new", "up", "gone"}] /\ guards \in [Threads -> Seq(Guard)]
        /\ orderly \in [Threads -> BOOLEAN]
    BY DEF TypeOK
  <2>1. ASSUME NEW th \in Threads, WorkerStarts(th) PROVE TypeOK'
    <3>1. /\ stage[th] = "new" /\ stage' = [stage EXCEPT ![th] = "up"]
          /\ context' = [context EXCEPT ![th] = Home[th]]
          /\ workerRef' = [workerRef EXCEPT ![th] = TRUE]
          /\ guards' = guards /\ orderly' = orderly
      BY <2>1 DEF WorkerStarts
    <3>2. /\ stage' \in [Threads -> {"new", "up", "gone"}]
          /\ context' \in [Threads -> Runtimes \cup {None}]
          /\ workerRef' \in [Threads -> BOOLEAN]
      BY <3>1, <2>t
    <3>3. \A o \in Threads : stage'[o] # "up" =>
             stage'[o] = stage[o] /\ context'[o] = context[o] /\ workerRef'[o] = workerRef[o]
      BY <3>1, <2>t
    <3> QED
      BY <3>1, <3>2, <3>3, <2>t DEF TypeOK, InBlockOn
  <2>2. ASSUME NEW th \in Threads, WorkerExits(th) PROVE TypeOK'
    BY <2>2 DEF WorkerExits, TypeOK, InBlockOn
  <2>3. ASSUME NEW th \in Threads, ShutdownClears(th) PROVE TypeOK'
    BY <2>3 DEF ShutdownClears, TypeOK, InBlockOn
  <2>4. ASSUME NEW th \in Threads, NEW r \in Runtimes, Enter(th, r) \/ BlockOnBegins(th, r)
        PROVE  TypeOK'
    <3>1. PICK kind \in {"enter", "block_on"} : AddGuard(th, kind, r)
      BY <2>4 DEF Enter, BlockOnBegins
    <3> DEFINE g == [kind |-> kind, rt |-> r, old |-> context[th], oldWorker |-> workerRef[th]]
    <3>2. g \in Guard
      BY <2>t DEF Guard
    <3>3. guards' = [guards EXCEPT ![th] = Append(@, g)] /\ context' = [context EXCEPT ![th] = r]
          /\ stage[th] = "up"
      BY <3>1 DEF AddGuard
    <3>4. guards' \in [Threads -> Seq(Guard)]
      BY <3>2, <3>3, <2>t, AppendProperties
    <3>5. \A o \in Threads : stage[o] # "up" => guards'[o] = guards[o] /\ context'[o] = context[o]
      BY <3>3, <2>t
    <3>6. stage' = stage /\ orderly' = orderly /\ workerRef' \in [Threads -> BOOLEAN]
          /\ \A o \in Threads : stage[o] # "up" => workerRef'[o] = workerRef[o]
      BY <2>4, <3>3, <2>t DEF Enter, BlockOnBegins
    <3>7. context' \in [Threads -> Runtimes \cup {None}]
      BY <3>3, <2>t
    <3>8. \A o \in Threads : stage[o] = "new" => guards'[o] = <<>> /\ context'[o] = None /\ ~workerRef'[o]
      BY <3>5, <3>6 DEF TypeOK
    <3>9. \A o \in Threads : stage[o] = "gone" => ~workerRef'[o] /\ ~InBlockOn(o)'
      BY <3>5, <3>6 DEF TypeOK, InBlockOn
    <3> QED
      BY <3>4, <3>6, <3>7, <3>8, <3>9, <2>t DEF TypeOK
  <2>5. ASSUME NEW on \in Threads, NEW th \in Threads, NEW i \in 1..Len(guards[th]),
               DropEnter(th, i, on)
        PROVE  TypeOK'
    <3>1. guards' = [guards EXCEPT ![th] = Without(@, i)] /\ stage[on] = "up"
          /\ context' = [context EXCEPT ![on] = guards[th][i].old]
          /\ UNCHANGED <<workerRef, stage>>
      BY <2>5 DEF DropEnter
    <3>2. guards[th] \in Seq(Guard) /\ guards[th][i] \in Guard
      BY <2>t, ElementOfSeq
    <3>3. /\ Without(guards[th], i) \in Seq(Guard)
          /\ Len(Without(guards[th], i)) = Len(guards[th]) - 1
          /\ \A j \in 1..(Len(guards[th]) - 1) :
                \E k \in 1..Len(guards[th]) : Without(guards[th], i)[j] = guards[th][k]
      BY <3>2, WithoutProperties
    <3>4. guards' \in [Threads -> Seq(Guard)]
      BY <3>1, <3>3, <2>t
    <3>5. context' \in [Threads -> Runtimes \cup {None}]
      BY <3>1, <3>2, <2>t DEF Guard
    <3>6. orderly' \in [Threads -> BOOLEAN]
      BY <2>5, <2>t DEF DropEnter, OrderlyAfter
    <3>7. guards[th] # <<>>
      BY <3>2, EmptySeq
    <3>8. \A o \in Threads : stage[o] = "new" => guards'[o] = <<>> /\ context'[o] = None /\ ~workerRef[o]
      BY <3>1, <3>7, <2>t DEF TypeOK
    <3>9. \A o \in Threads : ~InBlockOn(o) => ~InBlockOn(o)'
      <4> SUFFICES ASSUME NEW o \in Threads, ~InBlockOn(o) PROVE ~InBlockOn(o)'
        OBVIOUS
      <4>1. CASE o = th
        <5>1. guards'[th] = Without(guards[th], i)
          BY <3>1, <2>t
        <5>2. \A k \in 1..Len(guards[th]) : guards[th][k].kind # "block_on"
          BY <4>1 DEF InBlockOn
        <5>3. \A j \in 1..Len(guards'[th]) : guards'[th][j].kind # "block_on"
          BY <5>1, <5>2, <3>3
        <5> QED
          BY <4>1, <5>3 DEF InBlockOn
      <4>2. CASE o # th
        BY <4>2, <3>1, <2>t DEF InBlockOn
      <4> QED
        BY <4>1, <4>2
    <3> QED
      BY <3>1, <3>4, <3>5, <3>6, <3>8, <3>9, <2>t DEF TypeOK
  <2>6. ASSUME NEW th \in Threads, NEW i \in 1..Len(guards[th]), BlockOnEnds(th, i) PROVE TypeOK'
    <3>1. guards' = [guards EXCEPT ![th] = Without(@, i)] /\ stage' = stage
          /\ context' = [context EXCEPT ![th] = guards[th][i].old]
          /\ workerRef' = [workerRef EXCEPT ![th] = guards[th][i].oldWorker]
          /\ guards[th][i].kind = "block_on"
      BY <2>6 DEF BlockOnEnds
    <3>2. guards[th] \in Seq(Guard) /\ guards[th][i] \in Guard
      BY <2>t, ElementOfSeq
    <3>3. Without(guards[th], i) \in Seq(Guard)
      BY <3>2, WithoutProperties
    <3>4. guards[th] # <<>>
      BY <3>2, EmptySeq
    <3>5. stage[th] = "up"
      BY <3>1, <3>4, <2>t DEF TypeOK, InBlockOn
    <3>6. guards' \in [Threads -> Seq(Guard)]
      BY <3>1, <3>3, <2>t
    <3>7. context' \in [Threads -> Runtimes \cup {None}] /\ workerRef' \in [Threads -> BOOLEAN]
      BY <3>1, <3>2, <2>t DEF Guard
    <3>8. orderly' \in [Threads -> BOOLEAN]
      BY <2>6, <2>t DEF BlockOnEnds, OrderlyAfter
    <3>9. \A o \in Threads : stage[o] # "up" =>
             guards'[o] = guards[o] /\ context'[o] = context[o] /\ workerRef'[o] = workerRef[o]
      BY <3>1, <3>5, <2>t
    <3> QED
      BY <3>1, <3>6, <3>7, <3>8, <3>9, <2>t DEF TypeOK, InBlockOn
  <2>7. CASE UNCHANGED vars
    BY <2>7 DEF vars, TypeOK, InBlockOn
  <2> QED
    BY <2>1, <2>2, <2>3, <2>4, <2>5, <2>6, <2>7, NextCases
<1>3. QED
  BY <1>1, <1>2, PTL DEF Spec
-----------------------------------------------------------------------------
(* What an orderly thread sees.  Each guard remembers what the thread saw  *)
(* below it: so dropping the innermost one restores just that.             *)

\* The context, and whether the thread is at work, below place i of its guards.
Below(th, i) == IF i = 1 THEN (IF stage[th] = "up" THEN Home[th] ELSE None)
                         ELSE guards[th][i - 1].rt
Working(th, i) ==
    stage[th] = "up" /\ Home[th] # None /\ \A j \in 1..(i - 1) : guards[th][j].kind # "block_on"

Chain(th) ==
    /\ \A i \in 1..Len(guards[th]) :
          guards[th][i].old = Below(th, i) /\ (guards[th][i].oldWorker <=> Working(th, i))
    /\ guards[th] # <<>> => stage[th] = "up"
    /\ context[th] = Below(th, Len(guards[th]) + 1)
    /\ workerRef[th] <=> Working(th, Len(guards[th]) + 1)

ChainInv ==
    /\ \A th \in Threads : orderly[th] => Chain(th)
    /\ \A th \in Threads : stage[th] = "new" => Home[th] # None

LEMMA ChainUndisturbed ==
    ASSUME NEW th \in Threads, Chain(th), guards'[th] = guards[th], stage'[th] = stage[th],
           context'[th] = context[th], workerRef'[th] = workerRef[th]
    PROVE  Chain(th)'
<1>1. \A i : Below(th, i)' = Below(th, i) /\ (Working(th, i)' <=> Working(th, i))
  BY DEF Below, Working
<1> QED
  BY <1>1 DEF Chain

\* A new guard saves what the thread sees.
LEMMA ChainGrows ==
    ASSUME TypeOK, NEW th \in Threads, Chain(th), NEW g \in Guard,
           stage[th] = "up", stage'[th] = stage[th],
           guards'[th] = Append(guards[th], g),
           g.old = context[th], g.oldWorker = workerRef[th], context'[th] = g.rt,
           workerRef'[th] <=> (workerRef[th] /\ g.kind = "enter"),
           NEW n \in Nat, n = Len(guards[th])
    PROVE  Chain(th)'
<1>1. /\ guards[th] \in Seq(Guard) /\ n \in Nat
      /\ Len(guards'[th]) = n + 1 /\ guards'[th] # <<>> /\ guards'[th][n + 1] = g
      /\ \A i \in 1..n : guards'[th][i] = guards[th][i]
  BY AppendProperties, LenProperties DEF TypeOK
<1>2. g.kind \in {"enter", "block_on"}
  BY DEF Guard
<1>3. context[th] = Below(th, n + 1) /\ (workerRef[th] <=> Working(th, n + 1))
      /\ \A i \in 1..n : guards[th][i].old = Below(th, i) /\ (guards[th][i].oldWorker <=> Working(th, i))
  BY DEF Chain
<1>4. \A i \in 1..(n + 1) : Below(th, i)' = Below(th, i)
  BY <1>1 DEF Below
<1>5. \A i \in 1..(n + 1) : Working(th, i)' <=> Working(th, i)
  BY <1>1 DEF Working
<1>6. ASSUME NEW i \in 1..(n + 1)
      PROVE  guards'[th][i].old = Below(th, i)' /\ (guards'[th][i].oldWorker <=> Working(th, i)')
  <2>1. CASE i = n + 1
    BY <2>1, <1>1, <1>3, <1>4, <1>5
  <2>2. CASE i # n + 1
    <3>1. i \in 1..n
      BY <2>2, <1>1
    <3> QED
      BY <3>1, <1>1, <1>3, <1>4, <1>5
  <2> QED
    BY <2>1, <2>2
<1>7. context'[th] = Below(th, (n + 1) + 1)'
  <2>1. (n + 1) + 1 # 1 /\ ((n + 1) + 1) - 1 = n + 1
    BY <1>1
  <2> QED
    BY <2>1, <1>1 DEF Below
<1>8. workerRef'[th] <=> Working(th, (n + 1) + 1)'
  <2>1. ((n + 1) + 1) - 1 = n + 1 /\ (n + 1) - 1 = n
        /\ (\A j \in 1..(n + 1) : (j \in 1..n \/ j = n + 1))
        /\ n + 1 \in 1..(n + 1) /\ \A j \in 1..n : j \in 1..(n + 1)
    BY <1>1
  <2>2. Working(th, (n + 1) + 1)' <=> Working(th, n + 1)' /\ g.kind # "block_on"
    BY <2>1, <1>1 DEF Working
  <2>3. n + 1 \in 1..(n + 1)
    BY <2>1
  <2> QED
    BY <2>2, <2>3, <1>2, <1>3, <1>5
<1> QED
  BY <1>1, <1>6, <1>7, <1>8 DEF Chain

\* The innermost guard puts back what was below it.
LEMMA ChainShrinks ==
    ASSUME TypeOK, NEW th \in Threads, Chain(th), NEW i \in 1..Len(guards[th]), i = Len(guards[th]),
           stage'[th] = stage[th],
           guards'[th] = Without(guards[th], i),
           context'[th] = guards[th][i].old,
           \/ guards[th][i].kind = "block_on" /\ workerRef'[th] = guards[th][i].oldWorker
           \/ guards[th][i].kind = "enter" /\ workerRef'[th] = workerRef[th]
    PROVE  Chain(th)'
<1>1. /\ guards[th] \in Seq(Guard) /\ i \in Nat /\ i >= 1 /\ guards[th] # <<>>
      /\ Len(guards'[th]) = i - 1
      /\ \A j \in 1..(i - 1) : guards'[th][j] = guards[th][j]
  <2>1. guards[th] \in Seq(Guard)
    BY DEF TypeOK
  <2>2. Len(Without(guards[th], i)) = Len(guards[th]) - 1
        /\ \A j \in 1..(i - 1) : Without(guards[th], i)[j] = guards[th][j]
    BY <2>1, WithoutProperties
  <2>3. guards[th] # <<>> /\ i \in Nat /\ i >= 1
    BY <2>1, EmptySeq, LenProperties
  <2> QED
    BY <2>1, <2>2, <2>3
<1>2. /\ \A j \in 1..i : guards[th][j].old = Below(th, j)
                         /\ (guards[th][j].oldWorker <=> Working(th, j))
      /\ stage[th] = "up"
      /\ workerRef[th] <=> Working(th, i + 1)
  BY <1>1 DEF Chain
<1>3. \A j \in 1..i : Below(th, j)' = Below(th, j)
  BY <1>1 DEF Below
<1>4. \A j \in 1..i : Working(th, j)' <=> Working(th, j)
  BY <1>1 DEF Working
<1>5. i \in 1..i /\ (i - 1) + 1 = i /\ (i + 1) - 1 = i /\ \A j \in 1..(i - 1) : j \in 1..i
  BY <1>1
<1>6. context'[th] = Below(th, i)'
  BY <1>2, <1>3, <1>5
<1>7. workerRef'[th] <=> Working(th, i)'
  <2>1. CASE guards[th][i].kind = "block_on" /\ workerRef'[th] = guards[th][i].oldWorker
    BY <2>1, <1>2, <1>4, <1>5
  <2>2. CASE guards[th][i].kind = "enter" /\ workerRef'[th] = workerRef[th]
    <3>1. \A j \in 1..i : j \in 1..(i - 1) \/ j = i
      BY <1>1
    <3>2. Working(th, i + 1) <=> Working(th, i)
      BY <2>2, <3>1, <1>5 DEF Working
    <3> QED
      BY <2>2, <3>2, <1>2, <1>4, <1>5
  <2> QED
    BY <2>1, <2>2
<1>8. \A j \in 1..(i - 1) : guards'[th][j].old = Below(th, j)'
                            /\ (guards'[th][j].oldWorker <=> Working(th, j)')
  BY <1>1, <1>2, <1>3, <1>4, <1>5
<1> QED
  BY <1>1, <1>2, <1>5, <1>6, <1>7, <1>8 DEF Chain

\* A thread that drops its guards innermost first, and keeps them to itself, always
\* sees the context of its innermost guard, or its own runtime.
THEOREM OrderlyThreadsSeeTheirContext == Spec => []ContextFollowsGuards
<1> USE ContextAssumption
<1>1. Init => ChainInv
  <2> SUFFICES ASSUME Init, NEW th \in Threads PROVE Chain(th)
    BY DEF ChainInv, Init
  <2>1. guards[th] = <<>> /\ context[th] = None /\ workerRef[th] = FALSE /\ Len(guards[th]) = 0
    BY DEF Init
  <2>2. stage[th] = "up" => Home[th] = None
    BY DEF Init
  <2> QED
    BY <2>1, <2>2 DEF Chain, Below, Working
<1>2. TypeOK /\ ChainInv /\ [Next]_vars => ChainInv'
  <2>n. ASSUME TypeOK, ChainInv, [Next]_vars, NEW o \in Threads
        PROVE  stage'[o] = "new" => Home[o] # None
    <3>1. stage'[o] = "new" => stage[o] = "new"
      BY <2>n, NextCases
         DEF TypeOK, WorkerStarts, WorkerExits, ShutdownClears, Enter, BlockOnBegins, DropEnter,
             BlockOnEnds, vars
    <3> QED
      BY <2>n, <3>1 DEF ChainInv
  <2> SUFFICES ASSUME TypeOK, ChainInv, [Next]_vars, NEW o \in Threads, orderly'[o]
               PROVE  Chain(o)'
    BY <2>n DEF ChainInv
  <2>t. /\ context \in [Threads -> Runtimes \cup {None}] /\ workerRef \in [Threads -> BOOLEAN]
        /\ stage \in [Threads -> {"new", "up", "gone"}] /\ guards \in [Threads -> Seq(Guard)]
        /\ orderly \in [Threads -> BOOLEAN]
    BY DEF TypeOK
  <2>c. orderly[o] => Chain(o)
    BY DEF ChainInv
  <2>1. ASSUME NEW th \in Threads, WorkerStarts(th) PROVE Chain(o)'
    <3>0. Chain(o)
      BY <2>1, <2>c DEF WorkerStarts
    <3>1. CASE o # th
      BY <2>1, <2>t, <3>0, <3>1, ChainUndisturbed DEF WorkerStarts
    <3>2. CASE o = th
      <4>1. /\ guards'[o] = <<>> /\ stage'[o] = "up" /\ context'[o] = Home[o] /\ workerRef'[o] = TRUE
            /\ Len(guards'[o]) = 0
        BY <2>1, <2>t, <3>2 DEF WorkerStarts, TypeOK
      <4>2. Home[o] # None
        BY <2>1, <3>2 DEF WorkerStarts, ChainInv
      <4> QED
        BY <4>1, <4>2 DEF Chain, Below, Working
    <3> QED
      BY <3>1, <3>2
  <2>2. ASSUME NEW th \in Threads, WorkerExits(th) PROVE Chain(o)'
    <3>0. Chain(o)
      BY <2>2, <2>t, <2>c DEF WorkerExits
    <3>1. CASE o # th
      BY <2>2, <2>t, <3>0, <3>1, ChainUndisturbed DEF WorkerExits
    <3>2. CASE o = th
      <4>0. orderly'[o] = (orderly[o] /\ guards[o] = <<>>) /\ guards' = guards
        BY <2>2, <2>t, <3>2 DEF WorkerExits
      <4>a. stage'[o] = "gone" /\ context'[o] = None /\ workerRef'[o] = FALSE
        BY <2>2, <2>t, <3>2 DEF WorkerExits
      <4>1. /\ guards'[o] = <<>> /\ stage'[o] = "gone" /\ context'[o] = None /\ workerRef'[o] = FALSE
            /\ Len(guards'[o]) = 0
        BY <4>0, <4>a, EmptySeq
      <4> QED
        BY <4>1 DEF Chain, Below, Working
    <3> QED
      BY <3>1, <3>2
  <2>3. ASSUME NEW th \in Threads, ShutdownClears(th) PROVE Chain(o)'
    <3>0. Chain(o) /\ guards'[o] = guards[o] /\ stage'[o] = stage[o] /\ workerRef'[o] = workerRef[o]
      BY <2>3, <2>t, <2>c DEF ShutdownClears
    <3>1. CASE o # th
      BY <2>3, <2>t, <3>0, <3>1, ChainUndisturbed DEF ShutdownClears
    <3>2. CASE o = th
      <4>1. Expected(o) = None /\ context'[o] = None
        BY <2>3, <2>t, <3>2 DEF ShutdownClears
      <4>2. guards[o] \in Seq(Guard) /\ Len(guards[o]) \in Nat /\ (guards[o] # <<>> => Len(guards[o]) >= 1)
        BY <2>t, LenProperties, EmptySeq
      <4>3. CASE guards[o] = <<>>
        <5>1. Len(guards[o]) + 1 = 1
          BY <4>3, EmptySeq
        <5>2. context[o] = None
          BY <4>1, <4>3, <3>0, <5>1 DEF Expected, Chain, Below
        <5> QED
          BY <4>1, <5>2, <3>0, ChainUndisturbed
      <4>4. CASE guards[o] # <<>>
        <5>1. (Len(guards[o]) + 1) - 1 = Len(guards[o]) /\ Len(guards[o]) + 1 # 1
          BY <4>2, <4>4
        <5>2. context[o] = None
          BY <4>1, <4>4, <3>0, <5>1 DEF Expected, Innermost, Chain, Below
        <5> QED
          BY <4>1, <5>2, <3>0, ChainUndisturbed
      <4> QED
        BY <4>3, <4>4
    <3> QED
      BY <3>1, <3>2
  <2>4. ASSUME NEW th \in Threads, NEW r \in Runtimes, Enter(th, r) \/ BlockOnBegins(th, r)
        PROVE  Chain(o)'
    <3>0. Chain(o)
      BY <2>4, <2>c DEF Enter, BlockOnBegins
    <3>1. PICK kind \in {"enter", "block_on"} :
             /\ AddGuard(th, kind, r) /\ UNCHANGED stage
             /\ \/ kind = "enter" /\ UNCHANGED workerRef
                \/ kind = "block_on" /\ workerRef' = [workerRef EXCEPT ![th] = FALSE]
      BY <2>4 DEF Enter, BlockOnBegins
    <3> DEFINE g == [kind |-> kind, rt |-> r, old |-> context[th], oldWorker |-> workerRef[th]]
    <3>2. /\ guards' = [guards EXCEPT ![th] = Append(@, g)] /\ context' = [context EXCEPT ![th] = r]
          /\ stage[th] = "up"
      BY <3>1 DEF AddGuard
    <3>3. CASE o # th
      <4>1. guards'[o] = guards[o] /\ context'[o] = context[o] /\ workerRef'[o] = workerRef[o]
            /\ stage'[o] = stage[o]
        BY <2>t, <3>1, <3>2, <3>3
      <4> QED
        BY <4>1, <3>0, ChainUndisturbed
    <3>4. CASE o = th
      <4>1. /\ guards'[th] = Append(guards[th], g) /\ context'[th] = r
            /\ workerRef'[th] <=> (workerRef[th] /\ kind = "enter")
            /\ stage'[th] = stage[th]
        BY <2>t, <3>1, <3>2
      <4>2. g \in Guard /\ g.old = context[th] /\ g.oldWorker = workerRef[th] /\ g.rt = r /\ g.kind = kind
        BY <2>t DEF Guard
      <4>3. Len(guards[th]) \in Nat
        BY <2>t, LenProperties
      <4> HIDE DEF g
      <4> QED
        BY <4>1, <4>2, <4>3, <3>0, <3>2, <3>4, ChainGrows
    <3> QED
      BY <3>3, <3>4
  <2>5. ASSUME NEW on \in Threads, NEW th \in Threads, NEW i \in 1..Len(guards[th]),
               DropEnter(th, i, on)
        PROVE  Chain(o)'
    <3>0. /\ guards' = [guards EXCEPT ![th] = Without(@, i)]
          /\ context' = [context EXCEPT ![on] = guards[th][i].old]
          /\ guards[th][i].kind = "enter"
          /\ orderly' = OrderlyAfter(th, i, on) /\ UNCHANGED <<workerRef, stage>>
      BY <2>5 DEF DropEnter
    <3>1. CASE o # th /\ o # on
      <4>1. Chain(o)
        BY <3>0, <3>1, <2>t, <2>c DEF OrderlyAfter
      <4>2. guards'[o] = guards[o] /\ context'[o] = context[o] /\ workerRef'[o] = workerRef[o]
            /\ stage'[o] = stage[o]
        BY <3>0, <3>1, <2>t
      <4> QED
        BY <4>1, <4>2, ChainUndisturbed
    <3>2. CASE o = th \/ o = on
      <4>1. on = th /\ i = Len(guards[th]) /\ o = th /\ orderly' = orderly
        BY <3>0, <3>2, <2>t DEF OrderlyAfter
      <4>2. Chain(th)
        BY <4>1, <2>c
      <4>3. guards'[th] = Without(guards[th], i) /\ context'[th] = guards[th][i].old
            /\ workerRef'[th] = workerRef[th] /\ stage'[th] = stage[th]
        BY <3>0, <4>1, <2>t
      <4>4. Chain(th)'
        BY <3>0, <4>1, <4>2, <4>3, ChainShrinks
      <4> QED
        BY <4>1, <4>4
    <3> QED
      BY <3>1, <3>2
  <2>6. ASSUME NEW th \in Threads, NEW i \in 1..Len(guards[th]), BlockOnEnds(th, i) PROVE Chain(o)'
    <3>0. /\ guards' = [guards EXCEPT ![th] = Without(@, i)]
          /\ context' = [context EXCEPT ![th] = guards[th][i].old]
          /\ workerRef' = [workerRef EXCEPT ![th] = guards[th][i].oldWorker]
          /\ guards[th][i].kind = "block_on"
          /\ orderly' = OrderlyAfter(th, i, th) /\ UNCHANGED stage
      BY <2>6 DEF BlockOnEnds
    <3>1. CASE o # th
      <4>1. Chain(o)
        BY <3>0, <3>1, <2>t, <2>c DEF OrderlyAfter
      <4>2. guards'[o] = guards[o] /\ context'[o] = context[o] /\ workerRef'[o] = workerRef[o]
            /\ stage'[o] = stage[o]
        BY <3>0, <3>1, <2>t
      <4> QED
        BY <4>1, <4>2, ChainUndisturbed
    <3>2. CASE o = th
      <4>1. i = Len(guards[th]) /\ orderly' = orderly
        BY <3>0, <3>2, <2>t DEF OrderlyAfter
      <4>2. Chain(th)
        BY <4>1, <3>2, <2>c
      <4>3. guards'[th] = Without(guards[th], i) /\ context'[th] = guards[th][i].old
            /\ workerRef'[th] = guards[th][i].oldWorker /\ stage'[th] = stage[th]
        BY <3>0, <2>t
      <4>4. Chain(th)'
        BY <3>0, <4>1, <4>2, <4>3, ChainShrinks
      <4> QED
        BY <3>2, <4>4
    <3> QED
      BY <3>1, <3>2
  <2>7. CASE UNCHANGED vars
    <3>1. Chain(o)
      BY <2>7, <2>c DEF vars
    <3> QED
      BY <2>7, <3>1, ChainUndisturbed DEF vars
  <2> QED
    BY <2>1, <2>2, <2>3, <2>4, <2>5, <2>6, <2>7, NextCases
<1>3. TypeOK /\ ChainInv => ContextFollowsGuards
  <2> SUFFICES ASSUME TypeOK, NEW th \in Threads, Chain(th)
               PROVE  /\ context[th] = Expected(th)
                      /\ workerRef[th] <=> (stage[th] = "up" /\ Home[th] # None /\ ~InBlockOn(th))
    BY DEF ContextFollowsGuards, ChainInv
  <2>1. guards[th] \in Seq(Guard) /\ Len(guards[th]) \in Nat
        /\ (guards[th] # <<>> => Len(guards[th]) >= 1) /\ (Len(guards[th]) + 1) - 1 = Len(guards[th])
    BY LenProperties, EmptySeq DEF TypeOK
  <2>2. context[th] = Expected(th)
    <3>1. CASE guards[th] = <<>>
      <4>1. Len(guards[th]) + 1 = 1
        BY <3>1, EmptySeq
      <4> QED
        BY <3>1, <4>1 DEF Chain, Below, Expected
    <3>2. CASE guards[th] # <<>>
      <4>1. Len(guards[th]) + 1 # 1
        BY <3>2, <2>1
      <4> QED
        BY <3>2, <4>1, <2>1 DEF Chain, Below, Expected, Innermost
    <3> QED
      BY <3>1, <3>2
  <2>3. workerRef[th] <=> (stage[th] = "up" /\ Home[th] # None /\ ~InBlockOn(th))
    BY <2>1 DEF Chain, Working, InBlockOn
  <2> QED
    BY <2>2, <2>3
<1>4. QED
  BY <1>1, <1>2, <1>3, TypeCorrect, PTL DEF Spec
=============================================================================
