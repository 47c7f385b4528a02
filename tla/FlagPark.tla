-------------------------------- MODULE FlagPark --------------------------------
(***************************************************************************)
(* SleepPark and YieldPark of runtime/park.rs, the two parkers that are    *)
(* one atomic flag, and the Arc they share with their wakers.  The four    *)
(* functions of the waker vtable are the same for all parkers of the crate *)
(* (ThreadWaker, SleepWaker, YieldWaker, ThreadParker::waker), so what is  *)
(* said here of the count holds for each.                                  *)
(*                                                                         *)
(* token is the park token that std keeps for the thread that parks: it is *)
(* set by an unpark() of that thread's Thread, and SleepPark::unpark calls *)
(* thread::current().unpark().  The tokens of the other threads do not     *)
(* matter, they do not park here.                                          *)
(***************************************************************************)
EXTENDS Integers

CONSTANTS
    Parker,      \* the thread that parks
    Unparkers,   \* the other threads
    MaxWakers,   \* bound: wakers made by waker()
    MaxClones,   \* bound: calls of clone
    MaxUnparks,  \* bound: calls of unpark()
    MaxSpurious  \* bound: early returns of thread::park

ASSUME FlagParkAssumption ==
    /\ Parker \notin Unparkers
    /\ {MaxWakers, MaxClones, MaxUnparks, MaxSpurious} \subseteq Nat

Threads == Unparkers \cup {Parker}

VARIABLES
    kind,     \* "sleep" (SleepPark) or "yield" (YieldPark)
    flag,     \* SleepParkInner::state, YieldParkInner::should_park
    token,    \* the park token of the Parker thread
    pc,       \* where the Parker thread is
    refs,     \* strong count of the Arc
    owned,    \* the SleepPark or YieldPark itself is alive
    wakers,   \* wakers alive
    waking,   \* wakes by value that still hold their Arc
    made, cloned, unparks, spurious, \* how much of the bounds is used
    returns   \* history: park() has returned, without a timeout

refVars == <<refs, owned, wakers, waking, made, cloned>>
parkVars == <<flag, token, pc, unparks, spurious, returns>>
vars == <<kind, parkVars, refVars>>

Init ==
    /\ kind \in {"sleep", "yield"}
    /\ flag = FALSE /\ token = FALSE /\ pc = "out"
    /\ refs = 1 /\ owned = TRUE
    /\ wakers = 0 /\ waking = 0
    /\ made = 0 /\ cloned = 0 /\ unparks = 0 /\ spurious = 0
    /\ returns = 0

-----------------------------------------------------------------------------
(* The thread that parks.                                                  *)

StartPark(label) ==
    /\ pc = "out" /\ owned
    /\ pc' = label
    /\ UNCHANGED <<kind, flag, token, unparks, spurious, returns, refVars>>

\* Mutant: the flag is read and left set.
SleepSwap_Load ==
    /\ kind = "sleep" /\ pc = "park"
    /\ IF flag THEN pc' = "out" /\ returns' = returns + 1
               ELSE pc' = "asleep" /\ UNCHANGED returns
    /\ UNCHANGED <<kind, flag, token, unparks, spurious, refVars>>

\* SleepPark::park: while !state.swap(false) ...
SleepSwap ==
    /\ kind = "sleep" /\ pc = "park"
    /\ flag' = FALSE
    /\ IF flag THEN pc' = "out" /\ returns' = returns + 1
               ELSE pc' = "asleep" /\ UNCHANGED returns
    /\ UNCHANGED <<kind, token, unparks, spurious, refVars>>

\* ... { thread::park() }, which returns with the token, or spuriously.
SleepWakes ==
    /\ pc = "asleep"
    /\ \/ token /\ UNCHANGED spurious
       \/ ~token /\ spurious < MaxSpurious /\ spurious' = spurious + 1
    /\ token' = FALSE
    /\ pc' = "park"
    /\ UNCHANGED <<kind, flag, unparks, returns, refVars>>

\* SleepPark::park_timeout: one swap, and at most one sleep, after which the flag
\* is not looked at.
SleepSwapTimed ==
    /\ kind = "sleep" /\ pc = "park_timeout"
    /\ flag' = FALSE
    /\ pc' = IF flag THEN "out" ELSE "dozing"
    /\ UNCHANGED <<kind, token, unparks, spurious, returns, refVars>>

\* Mutant: the flag is reset when the sleep is over, as after a swap.
SleepTimedEnds_Resets ==
    /\ pc = "dozing"
    /\ flag' = FALSE /\ token' = FALSE
    /\ pc' = "out"
    /\ UNCHANGED <<kind, unparks, spurious, returns, refVars>>

SleepTimedEnds ==
    /\ pc = "dozing"
    /\ token' = FALSE
    /\ pc' = "out"
    /\ UNCHANGED <<kind, flag, unparks, spurious, returns, refVars>>

\* YieldPark: while should_park.load() { yield_now() }, until a timeout if there is
\* one.  should_park is never set.
YieldReturns ==
    /\ kind = "yield" /\ pc \in {"park", "park_timeout"}
    /\ ~flag \/ pc = "park_timeout"
    /\ pc' = "out"
    /\ UNCHANGED <<kind, flag, token, unparks, spurious, returns, refVars>>

-----------------------------------------------------------------------------
(* unpark, and the vtable of the wakers.                                   *)

\* Mutant: should_park is set, as the flag of a SleepPark is.
Unpark_Sets(th) ==
    /\ unparks < MaxUnparks
    /\ unparks' = unparks + 1
    /\ flag' = TRUE
    /\ token' = (token \/ (kind = "sleep" /\ ~flag /\ th = Parker))
    /\ UNCHANGED <<kind, pc, spurious, returns>>

\* SleepPark: if !state.swap(true) { thread::current().unpark() }.
\* YieldPark: should_park.store(false).
Unpark(th) ==
    /\ unparks < MaxUnparks
    /\ unparks' = unparks + 1
    /\ flag' = (kind = "sleep")
    /\ token' = (token \/ (kind = "sleep" /\ ~flag /\ th = Parker))
    /\ UNCHANGED <<kind, pc, spurious, returns>>

\* The Parker thread runs other code only while it does not park.
MayCall(th) == th = Parker => pc = "out"

\* unpark() on the parker itself.
CallUnpark(th) == MayCall(th) /\ owned /\ Unpark(th) /\ UNCHANGED refVars

\* waker().into_waker(): the clone of the Arc goes into the waker.
MakeWaker ==
    /\ owned /\ made < MaxWakers
    /\ made' = made + 1
    /\ wakers' = wakers + 1
    /\ refs' = refs + 1
    /\ UNCHANGED <<kind, parkVars, owned, waking, cloned>>

\* Mutant: the Arc that from_raw makes is dropped, not forgotten.
Clone_DropsInner ==
    /\ wakers > 0 /\ cloned < MaxClones
    /\ cloned' = cloned + 1
    /\ wakers' = wakers + 1
    /\ refs' = refs + 1
    /\ UNCHANGED <<kind, parkVars, owned, waking, made>>

\* waker_clone: one clone becomes the new waker, another one is forgotten.
Clone ==
    /\ wakers > 0 /\ cloned < MaxClones
    /\ cloned' = cloned + 1
    /\ wakers' = wakers + 1
    /\ refs' = refs + 2
    /\ UNCHANGED <<kind, parkVars, owned, waking, made>>

\* waker_wake: unpark(), then the Arc is dropped with the parker made for the call.
Wake(th) ==
    /\ wakers > 0 /\ MayCall(th)
    /\ Unpark(th)
    /\ wakers' = wakers - 1
    /\ waking' = waking + 1
    /\ UNCHANGED <<refs, owned, made, cloned>>

WakeEnds ==
    /\ waking > 0
    /\ waking' = waking - 1
    /\ refs' = refs - 1
    /\ UNCHANGED <<kind, parkVars, owned, wakers, made, cloned>>

\* waker_wake_by_ref: the clone it makes is dropped, the Arc of the waker forgotten.
WakeByRef(th) ==
    /\ wakers > 0 /\ MayCall(th)
    /\ Unpark(th)
    /\ UNCHANGED refVars

\* waker_drop.
DropWaker ==
    /\ wakers > 0
    /\ wakers' = wakers - 1
    /\ refs' = refs - 1
    /\ UNCHANGED <<kind, parkVars, owned, waking, made, cloned>>

DropParker ==
    /\ owned /\ pc = "out"
    /\ owned' = FALSE
    /\ refs' = refs - 1
    /\ UNCHANGED <<kind, parkVars, wakers, waking, made, cloned>>

-----------------------------------------------------------------------------
ParkStep ==
    \/ \E label \in {"park", "park_timeout"} : StartPark(label)
    \/ SleepSwap \/ SleepWakes \/ SleepSwapTimed \/ SleepTimedEnds \/ YieldReturns

WakerStep(th) == CallUnpark(th) \/ Wake(th) \/ WakeByRef(th)

CountStep == MakeWaker \/ Clone \/ WakeEnds \/ DropWaker \/ DropParker

Next == ParkStep \/ CountStep \/ \E th \in Threads : WakerStep(th)

Spec == Init /\ [][Next]_vars
-----------------------------------------------------------------------------
(* Properties.                                                             *)

\* Type correctness; should_park of a YieldPark is never set, so it never waits.
TypeOK ==
    /\ kind \in {"sleep", "yield"}
    /\ flag \in BOOLEAN /\ token \in BOOLEAN
    /\ kind = "yield" => ~flag
    /\ pc \in {"out", "park", "park_timeout", "asleep", "dozing"}
    /\ refs \in Nat /\ owned \in BOOLEAN
    /\ wakers \in Nat /\ waking \in Nat
    /\ made \in 0..MaxWakers /\ cloned \in 0..MaxClones
    /\ unparks \in 0..MaxUnparks /\ spurious \in 0..MaxSpurious
    /\ returns \in Nat

\* The strong count is one for the parker, one for each waker and each wake under
\* way, and one more for every clone ever made: it does not reach zero while
\* somebody uses the parker, nor ever again after the first clone.
CountLaw == refs = (IF owned THEN 1 ELSE 0) + wakers + waking + cloned

\* Every return of SleepPark::park has an unpark() of its own: a flag that was set
\* once lets park() through once, however wakes and parks interleave.
ParkIsEarned == returns + (IF flag THEN 1 ELSE 0) <= unparks

Permits == INSTANCE Permit WITH permit <- flag, parked <- pc \in {"park", "park_timeout", "asleep"}

\* The flag is a permit, as far as it goes: an unpark() that comes before, during or
\* after a park is kept for this park or the next one, also one that comes while
\* park_timeout() sleeps, which has done its only swap by then and gives it no
\* attention.  (That the thread wakes up for it is not said, and not so.)
KeepsPermit == Permits!Spec
=============================================================================
