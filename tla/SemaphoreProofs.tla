-------------------------- MODULE SemaphoreProofs --------------------------
(* Proofs about module Semaphore, for any callers, contexts and capacities.   *)
EXTENDS Semaphore, FiniteSetTheorems, TLAPS

USE SemaphoreAssumption
USE DEF SemaphoreAssumption

Places == {"ready", "check", "wait", "parked", "woken", "holding", "failed", "released"}

(* A call waits only after it saw no free slot, and keeps the mutex until it  *)
(* is queued, so no slot comes free in between.                               *)
SawNoSlot == \A c \in Caller : pc[c] = "wait" => current >= max

(* Finitely many calls hold a slot, wait for one or were woken.               *)
FinitelyMany == IsFiniteSet(Holding) /\ IsFiniteSet(Awake)

Inv == TypeOK /\ FinitelyMany /\ CountIsExact /\ SawNoSlot

(* What a queue of tickets holds after a ticket is added, or its oldest one   *)
(* is taken away.                                                             *)
LEMMA AppendedTicket ==
    ASSUME NEW w \in Seq(Caller), IsInjective(w), NEW c \in Caller, c \notin ToSet(w)
    PROVE  /\ Append(w, c) \in Seq(Caller) /\ IsInjective(Append(w, c))
           /\ ToSet(Append(w, c)) = ToSet(w) \union {c}
<1>1. /\ Append(w, c) \in Seq(Caller)
      /\ DOMAIN w = 1 .. Len(w) /\ Len(w) \in Nat
      /\ DOMAIN Append(w, c) = 1 .. (Len(w) + 1)
      /\ \A i \in 1 .. Len(w) : Append(w, c)[i] = w[i]
      /\ Append(w, c)[Len(w) + 1] = c
  OBVIOUS
<1>2. ToSet(Append(w, c)) = ToSet(w) \union {c}
  BY <1>1 DEF ToSet
<1>3. \A i \in 1 .. Len(w) : w[i] # c
  BY <1>1 DEF ToSet
<1>4. IsInjective(Append(w, c))
  BY <1>1, <1>3 DEF IsInjective
<1> QED
  BY <1>1, <1>2, <1>4

LEMMA OldestTicket ==
    ASSUME NEW w \in Seq(Caller), IsInjective(w), w # <<>>
    PROVE  /\ Tail(w) \in Seq(Caller) /\ IsInjective(Tail(w))
           /\ Head(w) \in ToSet(w) /\ ToSet(Tail(w)) = ToSet(w) \ {Head(w)}
<1>1. /\ Tail(w) \in Seq(Caller) /\ Head(w) = w[1]
      /\ DOMAIN w = 1 .. Len(w) /\ Len(w) \in Nat \ {0}
      /\ DOMAIN Tail(w) = 1 .. (Len(w) - 1)
      /\ \A i \in 1 .. (Len(w) - 1) : Tail(w)[i] = w[i + 1]
  OBVIOUS
<1>2. IsInjective(Tail(w))
  BY <1>1 DEF IsInjective
<1>3. Head(w) \in ToSet(w)
  BY <1>1 DEF ToSet
<1>4. ToSet(Tail(w)) \subseteq ToSet(w) \ {Head(w)}
  BY <1>1 DEF ToSet, IsInjective
<1>5. ASSUME NEW x \in ToSet(w) \ {Head(w)} PROVE x \in ToSet(Tail(w))
  <2>1. PICK i \in 1 .. Len(w) : x = w[i]
    BY <1>1 DEF ToSet
  <2>2. i # 1 /\ i - 1 \in 1 .. (Len(w) - 1) /\ Tail(w)[i - 1] = x
    BY <1>1, <1>5, <2>1
  <2> QED
    BY <1>1, <2>2 DEF ToSet
<1> QED
  BY <1>1, <1>2, <1>3, <1>4, <1>5

LEMMA EmptyQueue ==
    <<>> \in Seq(Caller) /\ IsInjective(<<>>) /\ ToSet(<<>>) = {}
BY DEF IsInjective, ToSet

LEMMA WaitersFinite ==
    ASSUME NEW w \in Seq(Caller) PROVE IsFiniteSet(ToSet(w))
<1>1. IsFiniteSet(1 .. Len(w))
  BY FS_Interval
<1>2. w \in Surjection(1 .. Len(w), ToSet(w))
  BY DEF ToSet, Surjection
<1> QED
  BY <1>1, <1>2, FS_Surjection

LEMMA InitInv == Init => Inv
<1> SUFFICES ASSUME Init PROVE Inv
  OBVIOUS
<1> USE DEF Init
<1>1. TypeOK
  BY EmptyQueue DEF TypeOK
<1>2. Holding = {} /\ Awake = {}
  BY DEF Holding, Awake
<1> QED
  BY <1>1, <1>2, FS_EmptySet DEF Inv, FinitelyMany, CountIsExact, SawNoSlot

-----------------------------------------------------------------------------
(* What each step does to the calls that hold a slot and to those awake.      *)
LEMMA LockStep ==
    ASSUME Inv, NEW c \in Caller, Lock(c)
    PROVE  /\ TypeOK'
           /\ Holding' = Holding /\ Awake' = Awake \union {c}
<1> USE DEF Inv, TypeOK, Lock
<1>1. /\ mu' = c /\ max' = max /\ current' = current /\ waiters' = waiters
      /\ ctxDone' = ctxDone
      /\ pc' = [pc EXCEPT ![c] = "check"]
  OBVIOUS
<1>2. watcher' \in [Caller -> {"none", "armed", "gone"}]
  OBVIOUS
<1>3. {d \in Caller : pc'[d] \in {"check", "wait"}} = {c}
  BY <1>1
<1>4. {d \in Caller : pc'[d] = "parked"} = {d \in Caller : pc[d] = "parked"}
  BY <1>1
<1>5. TypeOK'
  BY <1>1, <1>2, <1>3, <1>4
<1>6. Holding' = Holding /\ Awake' = Awake \union {c}
  BY <1>1 DEF Holding, Awake
<1> QED
  BY <1>5, <1>6

LEMMA TakeStep ==
    ASSUME Inv, NEW c \in Caller, Take(c)
    PROVE  /\ TypeOK'
           /\ c \notin Holding /\ c \in Awake
           /\ Holding' = Holding \union {c} /\ Awake' = Awake \ {c}
<1> USE DEF Inv, TypeOK, Take
<1>1. /\ mu' = Nobody /\ mu = c
      /\ pc' = [pc EXCEPT ![c] = "holding"]
  OBVIOUS
<1>2. {d \in Caller : pc'[d] \in {"check", "wait"}} = {}
  BY <1>1
<1>3. {d \in Caller : pc'[d] = "parked"} = {d \in Caller : pc[d] = "parked"}
  BY <1>1
<1>4. TypeOK'
  BY <1>1, <1>2, <1>3
<1>5. /\ c \notin Holding /\ c \in Awake
      /\ Holding' = Holding \union {c} /\ Awake' = Awake \ {c}
  BY <1>1 DEF Holding, Awake
<1> QED
  BY <1>4, <1>5

LEMMA FailStep ==
    ASSUME Inv, NEW c \in Caller, Fail(c)
    PROVE  /\ TypeOK'
           /\ Holding' = Holding /\ Awake' = Awake \ {c}
<1> USE DEF Inv, TypeOK, Fail
<1>1. /\ mu' = Nobody /\ mu = c
      /\ pc' = [pc EXCEPT ![c] = "failed"]
  OBVIOUS
<1>2. {d \in Caller : pc'[d] \in {"check", "wait"}} = {}
  BY <1>1
<1>3. {d \in Caller : pc'[d] = "parked"} = {d \in Caller : pc[d] = "parked"}
  BY <1>1
<1>4. TypeOK'
  BY <1>1, <1>2, <1>3
<1>5. Holding' = Holding /\ Awake' = Awake \ {c}
  BY <1>1 DEF Holding, Awake
<1> QED
  BY <1>4, <1>5

LEMMA DecideStep ==
    ASSUME Inv, NEW c \in Caller, DecideToWait(c)
    PROVE  /\ TypeOK'
           /\ Holding' = Holding /\ Awake' = Awake \ {c}
<1> USE DEF Inv, TypeOK, DecideToWait
<1>1. /\ mu' = mu /\ mu = c
      /\ pc' = [pc EXCEPT ![c] = "wait"]
  OBVIOUS
<1>2. {d \in Caller : pc'[d] \in {"check", "wait"}} = {c}
  BY <1>1
<1>3. {d \in Caller : pc'[d] = "parked"} = {d \in Caller : pc[d] = "parked"}
  BY <1>1
<1>4. TypeOK'
  BY <1>1, <1>2, <1>3
<1>5. Holding' = Holding /\ Awake' = Awake \ {c}
  BY <1>1 DEF Holding, Awake
<1> QED
  BY <1>4, <1>5

LEMMA WaitStep ==
    ASSUME Inv, NEW c \in Caller, Wait(c)
    PROVE  /\ TypeOK'
           /\ Holding' = Holding /\ Awake' = Awake
<1> USE DEF Inv, TypeOK, Wait
<1>1. /\ mu' = Nobody /\ mu = c /\ c \notin ToSet(waiters)
      /\ waiters' = Append(waiters, c)
      /\ pc' = [pc EXCEPT ![c] = "parked"]
  OBVIOUS
<1>2. {d \in Caller : pc'[d] \in {"check", "wait"}} = {}
  BY <1>1
<1>3. {d \in Caller : pc'[d] = "parked"} = {d \in Caller : pc[d] = "parked"} \union {c}
  BY <1>1
<1>4. /\ waiters' \in Seq(Caller) /\ IsInjective(waiters')
      /\ ToSet(waiters') = ToSet(waiters) \union {c}
  BY <1>1, AppendedTicket
<1>5. TypeOK'
  BY <1>1, <1>2, <1>3, <1>4
<1>6. Holding' = Holding /\ Awake' = Awake
  BY <1>1 DEF Holding, Awake
<1> QED
  BY <1>5, <1>6

(* Broadcast empties the queue and wakes all that were in it.                 *)
LEMMA BroadcastStep ==
    ASSUME Inv, Broadcast(pc), mu' = mu, max' \in Size, current' = current, ctxDone' = ctxDone,
           watcher' \in [Caller -> {"none", "armed", "gone"}]
    PROVE  /\ TypeOK' /\ waiters' = <<>>
           /\ \A d \in Caller : pc'[d] = "wait" <=> pc[d] = "wait"
           /\ Holding' = Holding /\ Awake' = Awake \union ToSet(waiters)
<1> USE DEF Inv, TypeOK
<1>1. /\ waiters' = <<>> /\ ToSet(waiters) = {d \in Caller : pc[d] = "parked"}
      /\ pc' = [d \in Caller |-> IF d \in ToSet(waiters) THEN "woken" ELSE pc[d]]
  BY DEF Broadcast, Awakened
<1>2. \A d \in Caller : pc'[d] = IF pc[d] = "parked" THEN "woken" ELSE pc[d]
  BY <1>1
<1>3. {d \in Caller : pc'[d] \in {"check", "wait"}} = {d \in Caller : pc[d] \in {"check", "wait"}}
  BY <1>2
<1>4. {d \in Caller : pc'[d] = "parked"} = {}
  BY <1>2
<1>5. pc' \in [Caller -> Places]
  BY <1>1 DEF Places
<1>6. TypeOK'
  BY <1>1, <1>3, <1>4, <1>5, EmptyQueue DEF Places
<1>7. Holding' = Holding /\ Awake' = Awake \union ToSet(waiters)
  BY <1>1, <1>2 DEF Holding, Awake
<1> QED
  BY <1>1, <1>2, <1>6, <1>7

(* Release wakes the oldest waiter, if there is one.                          *)
LEMMA ReleaseStep ==
    ASSUME Inv, NEW c \in Caller, Release(c)
    PROVE  /\ TypeOK' /\ c \in Holding
           /\ \A d \in Caller : pc'[d] # "wait"
           /\ Holding' = Holding \ {c}
           /\ waiters = <<>> => waiters' = <<>> /\ Awake' = Awake
           /\ waiters # <<>> => \E h \in ToSet(waiters) \ Awake :
                                  /\ ToSet(waiters') = ToSet(waiters) \ {h}
                                  /\ Awake' = Awake \union {h}
<1> USE DEF Inv, TypeOK, Release
<1>0. /\ mu' = Nobody /\ mu = Nobody /\ c \in Holding
      /\ max' = max /\ watcher' = watcher /\ ctxDone' = ctxDone
      /\ Signal([pc EXCEPT ![c] = "released"])
  BY DEF Holding
<1>1. current \in Nat /\ current # 0 /\ current' = current - 1
  BY <1>0, FS_EmptySet DEF CountIsExact, FinitelyMany
<1>2. \A d \in Caller : pc[d] \notin {"check", "wait"}
  BY <1>0
<1>3. CASE waiters = <<>>
  <2>1. waiters' = <<>> /\ pc' = [pc EXCEPT ![c] = "released"]
    BY <1>0, <1>3 DEF Signal, Awakened
  <2>2. {d \in Caller : pc'[d] \in {"check", "wait"}} = {}
    BY <1>2, <2>1
  <2>3. {d \in Caller : pc'[d] = "parked"} = {d \in Caller : pc[d] = "parked"}
    BY <1>0, <2>1
  <2>4. TypeOK'
    BY <1>0, <1>1, <1>3, <2>1, <2>2, <2>3
  <2>5. Holding' = Holding \ {c} /\ Awake' = Awake
    BY <1>0, <2>1 DEF Holding, Awake
  <2> QED
    BY <1>0, <1>2, <1>3, <2>1, <2>4, <2>5
<1>4. CASE waiters # <<>>
  <2> DEFINE h == Head(waiters)
  <2>1. /\ waiters' \in Seq(Caller) /\ IsInjective(waiters') /\ h \in ToSet(waiters)
        /\ ToSet(waiters') = ToSet(waiters) \ {h}
    BY <1>0, <1>4, OldestTicket DEF Signal
  <2>2. h \in Caller /\ pc[h] = "parked" /\ h # c
    BY <2>1
  <2>3. pc' = [d \in Caller |-> IF d = h THEN "woken" ELSE IF d = c THEN "released" ELSE pc[d]]
    BY <1>0, <1>4 DEF Signal, Awakened
  <2>4. {d \in Caller : pc'[d] \in {"check", "wait"}} = {}
    BY <1>2, <2>3
  <2>5. {d \in Caller : pc'[d] = "parked"} = {d \in Caller : pc[d] = "parked"} \ {h}
    BY <1>0, <2>2, <2>3
  <2>6. pc' \in [Caller -> Places]
    BY <2>3 DEF Places
  <2>7. TypeOK'
    BY <1>0, <1>1, <2>1, <2>4, <2>5, <2>6 DEF Places
  <2>8. Holding' = Holding \ {c} /\ Awake' = Awake \union {h} /\ h \notin Awake
    BY <1>0, <2>2, <2>3 DEF Holding, Awake
  <2> QED
    BY <1>0, <1>2, <1>4, <2>1, <2>3, <2>7, <2>8
<1> QED
  BY <1>3, <1>4

-----------------------------------------------------------------------------
(* Every step keeps the invariant.                                            *)
LEMMA StepInv == Inv /\ [Next]_vars => Inv'
<1> SUFFICES ASSUME Inv, [Next]_vars PROVE Inv'
  OBVIOUS
<1>0. /\ TypeOK /\ IsFiniteSet(Holding) /\ IsFiniteSet(Awake)
      /\ current = Cardinality(Holding) /\ current \in Nat /\ SawNoSlot
  BY DEF Inv, FinitelyMany, CountIsExact, TypeOK
<1>1. ASSUME NEW c \in Caller, Lock(c) PROVE Inv'
  <2>1. SawNoSlot'
    BY <1>0, <1>1 DEF Lock, SawNoSlot, TypeOK
  <2>2. TypeOK' /\ current' = current /\ Holding' = Holding
    BY <1>1, LockStep DEF Lock
  <2>3. IsFiniteSet(Awake')
    BY <1>0, <1>1, LockStep, FS_AddElement
  <2> QED
    BY <1>0, <2>1, <2>2, <2>3 DEF Inv, FinitelyMany, CountIsExact
<1>2. ASSUME NEW c \in Caller, Take(c) PROVE Inv'
  <2>1. SawNoSlot'
    BY <1>0, <1>2 DEF Take, SawNoSlot, TypeOK
  <2>2. current' = current + 1
    BY <1>2 DEF Take
  <2> QED
    BY <1>0, <1>2, <2>1, <2>2, TakeStep, FS_AddElement, FS_RemoveElement
       DEF Inv, FinitelyMany, CountIsExact
<1>3. ASSUME NEW c \in Caller, Fail(c) PROVE Inv'
  <2>1. SawNoSlot'
    BY <1>0, <1>3 DEF Fail, SawNoSlot, TypeOK
  <2>2. TypeOK' /\ current' = current /\ Holding' = Holding
    BY <1>3, FailStep DEF Fail
  <2>3. IsFiniteSet(Awake')
    BY <1>0, <1>3, FailStep, FS_RemoveElement
  <2> QED
    BY <1>0, <2>1, <2>2, <2>3 DEF Inv, FinitelyMany, CountIsExact
<1>4. ASSUME NEW c \in Caller, DecideToWait(c) PROVE Inv'
  <2>1. SawNoSlot'
    BY <1>0, <1>4 DEF DecideToWait, SawNoSlot, TypeOK
  <2>2. TypeOK' /\ current' = current /\ Holding' = Holding
    BY <1>4, DecideStep DEF DecideToWait
  <2>3. IsFiniteSet(Awake')
    BY <1>0, <1>4, DecideStep, FS_RemoveElement
  <2> QED
    BY <1>0, <2>1, <2>2, <2>3 DEF Inv, FinitelyMany, CountIsExact
<1>5. ASSUME NEW c \in Caller, Wait(c) PROVE Inv'
  <2>1. SawNoSlot'
    BY <1>0, <1>5 DEF Wait, SawNoSlot, TypeOK
  <2> QED
    BY <1>0, <1>5, <2>1, WaitStep DEF Wait, Inv, FinitelyMany, CountIsExact
<1>6. ASSUME NEW c \in Caller, WatcherBroadcasts(c) PROVE Inv'
  <2>1. /\ Broadcast(pc) /\ mu' = mu /\ max' \in Size /\ current' = current
        /\ ctxDone' = ctxDone /\ max' = max
        /\ watcher' \in [Caller -> {"none", "armed", "gone"}]
    BY <1>0, <1>6 DEF WatcherBroadcasts, TypeOK
  <2>2. IsFiniteSet(Awake \union ToSet(waiters))
    BY <1>0, WaitersFinite, FS_Union DEF TypeOK
  <2> QED
    BY <1>0, <2>1, <2>2, BroadcastStep DEF Inv, FinitelyMany, CountIsExact, SawNoSlot
<1>7. ASSUME NEW c \in Caller, WatcherExits(c) PROVE Inv'
  BY <1>0, <1>7 DEF WatcherExits, Inv, TypeOK, FinitelyMany, CountIsExact, SawNoSlot,
     Holding, Awake
<1>8. ASSUME NEW c \in Caller, Release(c) PROVE Inv'
  <2>1. current' = current - 1 /\ max' = max
    BY <1>8 DEF Release
  <2>2. /\ TypeOK' /\ c \in Holding /\ Holding' = Holding \ {c}
        /\ \A d \in Caller : pc'[d] # "wait"
        /\ Awake' = Awake \/ \E h \in Caller : Awake' = Awake \union {h}
    BY <1>0, <1>8, ReleaseStep DEF TypeOK
  <2>3. IsFiniteSet(Awake')
    BY <1>0, <2>2, FS_AddElement
  <2> QED
    BY <1>0, <2>1, <2>2, <2>3, FS_RemoveElement
       DEF Inv, FinitelyMany, CountIsExact, SawNoSlot
<1>9. ASSUME NEW n \in Size, Resize(n) PROVE Inv'
  <2>1. /\ Broadcast(pc) /\ mu' = mu /\ max' \in Size /\ current' = current
        /\ ctxDone' = ctxDone
        /\ watcher' \in [Caller -> {"none", "armed", "gone"}]
    BY <1>0, <1>9 DEF Resize, TypeOK
  <2>2. IsFiniteSet(Awake \union ToSet(waiters))
    BY <1>0, WaitersFinite, FS_Union DEF TypeOK
  <2>3. \A c \in Caller : pc[c] # "wait"
    BY <1>0, <1>9 DEF Resize, TypeOK
  <2> QED
    BY <1>0, <2>1, <2>2, <2>3, BroadcastStep DEF Inv, FinitelyMany, CountIsExact, SawNoSlot
<1>10. ASSUME NEW x \in Ctx, Cancel(x) PROVE Inv'
  BY <1>0, <1>10 DEF Cancel, Inv, TypeOK, FinitelyMany, CountIsExact, SawNoSlot,
     Holding, Awake
<1>11. CASE UNCHANGED vars
  BY <1>0, <1>11 DEF vars, Inv, TypeOK, FinitelyMany, CountIsExact, SawNoSlot, Holding, Awake
<1> QED
  BY <1>1, <1>2, <1>3, <1>4, <1>5, <1>6, <1>7, <1>8, <1>9, <1>10, <1>11
     DEF Next, AcquireStep, WatcherStep

LEMMA InvHolds == Spec => []Inv
BY InitInv, StepInv, PTL DEF Spec

(* Every variable keeps its type; the mutex is held by the call between Lock   *)
(* and its next unlock, and the queue holds each parked call once.            *)
THEOREM TypeCorrect == Spec => []TypeOK
BY InvHolds, PTL DEF Inv

(* s.current counts the calls that hold a slot (scaler.go:56-77).             *)
THEOREM CountAlwaysExact == Spec => []CountIsExact
BY InvHolds, PTL DEF Inv

(* The semaphore implements the abstract slot pool.                           *)
THEOREM RefinesPool == Spec => ImplementsPool
<1>1. Init => Pool!PoolInit
  BY DEF Init, Pool!PoolInit, Holding
<1>2. Inv /\ [Next]_vars => [Pool!PoolNext]_Pool!poolVars
  <2> SUFFICES ASSUME Inv, [Next]_vars
               PROVE  Pool!PoolNext \/ UNCHANGED <<max, Holding>>
    BY DEF Pool!poolVars
  <2>1. ASSUME NEW c \in Caller, Take(c) PROVE Pool!Grant(c)
    BY <2>1, TakeStep DEF Take, Inv, CountIsExact, Pool!Grant, Pool!Cardinality, Cardinality
  <2>2. ASSUME NEW c \in Caller, Release(c) PROVE Pool!GiveBack(c)
    BY <2>2, ReleaseStep DEF Release, Pool!GiveBack
  <2>3. ASSUME NEW n \in Size, Resize(n) PROVE Pool!SetSize(n)
    BY <2>3, BroadcastStep DEF Resize, Inv, TypeOK, Pool!SetSize
  <2>4. ASSUME NEW c \in Caller,
               \/ Lock(c) \/ Fail(c) \/ DecideToWait(c) \/ Wait(c)
               \/ WatcherBroadcasts(c) \/ WatcherExits(c)
        PROVE  UNCHANGED <<max, Holding>>
    <3>1. CASE Lock(c)
      BY <3>1, LockStep DEF Lock
    <3>2. CASE Fail(c)
      BY <3>2, FailStep DEF Fail
    <3>3. CASE DecideToWait(c)
      BY <3>3, DecideStep DEF DecideToWait
    <3>4. CASE Wait(c)
      BY <3>4, WaitStep DEF Wait
    <3>5. CASE WatcherBroadcasts(c)
      <4>1. /\ Broadcast(pc) /\ mu' = mu /\ max' \in Size /\ current' = current
            /\ ctxDone' = ctxDone /\ max' = max
            /\ watcher' \in [Caller -> {"none", "armed", "gone"}]
        BY <3>5 DEF WatcherBroadcasts, Inv, TypeOK
      <4> QED
        BY <4>1, BroadcastStep
    <3>6. CASE WatcherExits(c)
      BY <3>6 DEF WatcherExits, Holding
    <3> QED
      BY <2>4, <3>1, <3>2, <3>3, <3>4, <3>5, <3>6
  <2>5. ASSUME NEW x \in Ctx, Cancel(x) PROVE UNCHANGED <<max, Holding>>
    BY <2>5 DEF Cancel, Holding
  <2>6. CASE UNCHANGED vars
    BY <2>6 DEF vars, Holding
  <2> QED
    BY <2>1, <2>2, <2>3, <2>4, <2>5, <2>6
       DEF Next, AcquireStep, WatcherStep, Pool!PoolNext
<1> QED
  BY <1>1, <1>2, InvHolds, PTL DEF Spec, ImplementsPool, Pool!PoolSpec

-----------------------------------------------------------------------------
(* A step keeps a taker awake for every free slot, as long as all calls are   *)
(* made with one context, as the daemon makes them: a woken call that fails   *)
(* then leaves no live call behind.                                           *)
LEMMA StepTakers ==
    ASSUME \A c, d \in Caller : CtxOf[c] = CtxOf[d],
           Inv, FreeSlotsHaveTakers, [Next]_vars
    PROVE  FreeSlotsHaveTakers'
<1>0. /\ TypeOK /\ IsFiniteSet(Awake) /\ Cardinality(Awake) \in Nat
      /\ current \in Nat /\ max \in Nat /\ SawNoSlot
  BY FS_CardinalityType DEF Inv, FinitelyMany, CountIsExact, TypeOK
<1>1. ASSUME NEW c \in Caller, Lock(c) PROVE FreeSlotsHaveTakers'
  <2>1. /\ waiters' = waiters /\ ctxDone' = ctxDone /\ max' = max /\ current' = current
        /\ Awake' = Awake \union {c}
    BY <1>1, LockStep DEF Lock
  <2>2. Cardinality(Awake') >= Cardinality(Awake)
    BY <1>0, <2>1, FS_AddElement
  <2>3. Cardinality(Awake') \in Nat
    BY <1>0, <2>1, FS_AddElement, FS_CardinalityType
  <2> QED
    BY <1>0, <2>1, <2>2, <2>3 DEF FreeSlotsHaveTakers, Cancelled
<1>2. ASSUME NEW c \in Caller, Take(c) PROVE FreeSlotsHaveTakers'
  <2>1. /\ waiters' = waiters /\ ctxDone' = ctxDone /\ max' = max /\ current' = current + 1
        /\ c \in Awake /\ Awake' = Awake \ {c}
    BY <1>2, TakeStep DEF Take
  <2>2. Cardinality(Awake') = Cardinality(Awake) - 1
    BY <1>0, <2>1, FS_RemoveElement
  <2> QED
    BY <1>0, <2>1, <2>2 DEF FreeSlotsHaveTakers, Cancelled
<1>3. ASSUME NEW c \in Caller, Fail(c) PROVE FreeSlotsHaveTakers'
  <2>1. \A d \in Caller : Cancelled(d)' <=> Cancelled(d)
    BY <1>3 DEF Fail, Cancelled
  <2>2. \A d \in Caller : Cancelled(d)
    BY <1>3 DEF Fail, Cancelled
  <2>3. ToSet(waiters') \subseteq Caller
    BY <1>0, <1>3 DEF Fail, TypeOK
  <2> QED
    BY <2>1, <2>2, <2>3 DEF FreeSlotsHaveTakers
<1>4. ASSUME NEW c \in Caller, DecideToWait(c) PROVE FreeSlotsHaveTakers'
  <2>1. max' = max /\ current' = current /\ current >= max /\ Awake' = Awake \ {c}
    BY <1>4, DecideStep DEF DecideToWait
  <2>2. Cardinality(Awake') \in Nat
    BY <1>0, <2>1, FS_RemoveElement, FS_CardinalityType
  <2> QED
    BY <1>0, <2>1, <2>2 DEF FreeSlotsHaveTakers
<1>5. ASSUME NEW c \in Caller, Wait(c) PROVE FreeSlotsHaveTakers'
  <2>1. max' = max /\ current' = current /\ current >= max /\ Awake' = Awake
    BY <1>0, <1>5, WaitStep DEF Wait, SawNoSlot
  <2> QED
    BY <1>0, <2>1 DEF FreeSlotsHaveTakers
<1>6. ASSUME NEW c \in Caller, WatcherBroadcasts(c) PROVE FreeSlotsHaveTakers'
  BY <1>6, EmptyQueue DEF WatcherBroadcasts, Broadcast, FreeSlotsHaveTakers
<1>7. ASSUME NEW c \in Caller, WatcherExits(c) PROVE FreeSlotsHaveTakers'
  BY <1>7 DEF WatcherExits, FreeSlotsHaveTakers, Awake, Cancelled
<1>8. ASSUME NEW c \in Caller, Release(c) PROVE FreeSlotsHaveTakers'
  <2>1. max' = max /\ current' = current - 1 /\ ctxDone' = ctxDone
    BY <1>8 DEF Release
  <2>2. CASE waiters = <<>>
    BY <1>8, <2>2, ReleaseStep, EmptyQueue DEF FreeSlotsHaveTakers
  <2>3. CASE waiters # <<>>
    <3>1. PICK h \in ToSet(waiters) \ Awake : /\ ToSet(waiters') = ToSet(waiters) \ {h}
                                           /\ Awake' = Awake \union {h}
      BY <1>8, <2>3, ReleaseStep
    <3>2. Cardinality(Awake') = Cardinality(Awake) + 1
      BY <1>0, <3>1, FS_AddElement
    <3> QED
      BY <1>0, <2>1, <3>1, <3>2 DEF FreeSlotsHaveTakers, Cancelled
  <2> QED
    BY <2>2, <2>3
<1>9. ASSUME NEW n \in Size, Resize(n) PROVE FreeSlotsHaveTakers'
  BY <1>9, EmptyQueue DEF Resize, Broadcast, FreeSlotsHaveTakers
<1>10. ASSUME NEW x \in Ctx, Cancel(x) PROVE FreeSlotsHaveTakers'
  BY <1>10 DEF Cancel, FreeSlotsHaveTakers, Awake, Cancelled
<1>11. CASE UNCHANGED vars
  BY <1>11 DEF vars, FreeSlotsHaveTakers, Awake, Cancelled
<1> QED
  BY <1>1, <1>2, <1>3, <1>4, <1>5, <1>6, <1>7, <1>8, <1>9, <1>10, <1>11
     DEF Next, AcquireStep, WatcherStep

(* With one context for all calls (cmd/start.go:57), no wake-up for a free     *)
(* slot goes missing while a call with a live context waits.                  *)
THEOREM NoWakeupMissing ==
    ASSUME \A c, d \in Caller : CtxOf[c] = CtxOf[d]
    PROVE  Spec => []FreeSlotsHaveTakers
<1>1. Init => FreeSlotsHaveTakers
  BY EmptyQueue DEF Init, FreeSlotsHaveTakers
<1>2. Inv /\ FreeSlotsHaveTakers /\ [Next]_vars => FreeSlotsHaveTakers'
  BY StepTakers
<1> QED
  BY <1>1, <1>2, InvHolds, PTL DEF Spec
=============================================================================
