----------------------------- MODULE Semaphore -----------------------------
(* The global concurrency semaphore of internal/scaler/scaler.go, at the      *)
(* grain of its mutex, its sync.Cond and the goroutine that Acquire starts to *)
(* watch the caller's context.  A Caller is one call of Acquire, followed, if *)
(* it succeeds, by at most one Release (the scaler wraps it in a sync.Once).  *)
(*                                                                            *)
(* sync.Cond is a queue of tickets: Wait takes a ticket while it still holds  *)
(* the mutex and then unlocks it; Signal wakes the oldest ticket, Broadcast   *)
(* all of them.  A wake-up with nobody queued is lost.                        *)
EXTENDS Integers, Sequences, FiniteSets, SequencesExt

CONSTANTS Caller,     \* calls of Acquire
          Ctx,        \* contexts a call may be made with
          CtxOf,      \* the context of each call
          Size,       \* capacities that New and Resize may be given
          Nobody      \* the mutex is unlocked

ASSUME SemaphoreAssumption ==
    /\ CtxOf \in [Caller -> Ctx]
    /\ Size \subseteq Nat \ {0}
    /\ Nobody \notin Caller

VARIABLES mu,       \* the caller that holds s.mu across steps, or Nobody
          max,      \* s.max
          current,  \* s.current
          waiters,  \* tickets of s.cond, oldest first
          pc,       \* where each call of Acquire is
          watcher,  \* the context-watching goroutine of each call
          ctxDone   \* contexts that have been cancelled

vars == <<mu, max, current, waiters, pc, watcher, ctxDone>>

Cancelled(c) == CtxOf[c] \in ctxDone
Holding == {c \in Caller : pc[c] = "holding"}
Pending(c) == pc[c] \in {"check", "wait", "parked", "woken"}
Returned(c) == pc[c] \in {"holding", "failed", "released"}

Init ==
    /\ mu = Nobody
    /\ max \in Size
    /\ current = 0
    /\ waiters = <<>>
    /\ pc = [c \in Caller |-> "ready"]
    /\ watcher = [c \in Caller |-> "none"]
    /\ ctxDone = {}

-----------------------------------------------------------------------------
(* Effects on the condition variable, applied to a program-counter function.  *)
Awakened(p, woken) == [c \in Caller |-> IF c \in woken THEN "woken" ELSE p[c]]

LostSignal(p) == \* wrong: Release does not signal
    /\ pc' = p
    /\ UNCHANGED waiters

Signal(p) ==
    /\ waiters' = IF waiters = <<>> THEN <<>> ELSE Tail(waiters)
    /\ pc' = Awakened(p, IF waiters = <<>> THEN {} ELSE {Head(waiters)})

Broadcast(p) ==
    /\ waiters' = <<>>
    /\ pc' = Awakened(p, ToSet(waiters))

-----------------------------------------------------------------------------
(* Plausible wrong versions of the actions below, named by what they do;      *)
(* no specification uses them.                                                *)
TakeOffByOne(c) == \* the loop tests current > max
    /\ pc[c] = "check"
    /\ current <= max
    /\ ~Cancelled(c)
    /\ current' = current + 1
    /\ pc' = [pc EXCEPT ![c] = "holding"]
    /\ mu' = Nobody
    /\ UNCHANGED <<max, waiters, watcher, ctxDone>>

WaitKeepsMutex(c) == \* the wait does not unlock
    /\ pc[c] = "wait"
    /\ waiters' = Append(waiters, c)
    /\ pc' = [pc EXCEPT ![c] = "parked"]
    /\ UNCHANGED <<mu, max, current, watcher, ctxDone>>

WatcherStaysSilent(c) == \* nobody is woken on cancellation
    /\ watcher[c] = "armed"
    /\ Cancelled(c)
    /\ watcher' = [watcher EXCEPT ![c] = "gone"]
    /\ UNCHANGED <<mu, max, current, waiters, pc, ctxDone>>

ReleaseHandsOver(c) == \* the count is left to the waiter it wakes
    /\ mu = Nobody
    /\ pc[c] = "holding"
    /\ current' = IF waiters = <<>> THEN current - 1 ELSE current
    /\ Signal([pc EXCEPT ![c] = "released"])
    /\ UNCHANGED <<mu, max, watcher, ctxDone>>

-----------------------------------------------------------------------------
(* s.mu.Lock, at the head of Acquire (where the watcher is then started) and  *)
(* again inside cond.Wait after a wake-up.                                    *)
Lock(c) ==
    /\ mu = Nobody
    /\ pc[c] \in {"ready", "woken"}
    /\ mu' = c
    /\ pc' = [pc EXCEPT ![c] = "check"]
    /\ watcher' = [watcher EXCEPT ![c] = IF @ = "none" THEN "armed" ELSE @]
    /\ UNCHANGED <<max, current, waiters, ctxDone>>

(* Acquire takes a slot: the loop condition is false and ctx.Err() is nil.    *)
Take(c) ==
    /\ pc[c] = "check"
    /\ current < max
    /\ ~Cancelled(c)
    /\ current' = current + 1
    /\ pc' = [pc EXCEPT ![c] = "holding"]
    /\ mu' = Nobody
    /\ UNCHANGED <<max, waiters, watcher, ctxDone>>

(* ctx.Err() is not nil, in the loop or after it: Acquire returns the error,  *)
(* unlocks, and wakes nobody else.                                            *)
Fail(c) ==
    /\ pc[c] = "check"
    /\ Cancelled(c)
    /\ pc' = [pc EXCEPT ![c] = "failed"]
    /\ mu' = Nobody
    /\ UNCHANGED <<max, current, waiters, watcher, ctxDone>>

(* No free slot and ctx.Err() still nil: the call is about to wait.  It holds *)
(* the mutex, which the watchers do not take.                                 *)
DecideToWait(c) ==
    /\ pc[c] = "check"
    /\ current >= max
    /\ ~Cancelled(c)
    /\ pc' = [pc EXCEPT ![c] = "wait"]
    /\ UNCHANGED <<mu, max, current, waiters, watcher, ctxDone>>

(* cond.Wait takes a ticket and unlocks the mutex.                            *)
Wait(c) ==
    /\ pc[c] = "wait"
    /\ waiters' = Append(waiters, c)
    /\ pc' = [pc EXCEPT ![c] = "parked"]
    /\ mu' = Nobody
    /\ UNCHANGED <<max, current, watcher, ctxDone>>

(* The watcher saw ctx.Done: it broadcasts without holding the mutex.         *)
WatcherBroadcasts(c) ==
    /\ watcher[c] = "armed"
    /\ Cancelled(c)
    /\ watcher' = [watcher EXCEPT ![c] = "gone"]
    /\ Broadcast(pc)
    /\ UNCHANGED <<mu, max, current, ctxDone>>

(* The watcher saw `done', closed by Acquire's return, and just exits.        *)
WatcherExits(c) ==
    /\ watcher[c] = "armed"
    /\ Returned(c)
    /\ watcher' = [watcher EXCEPT ![c] = "gone"]
    /\ UNCHANGED <<mu, max, current, waiters, pc, ctxDone>>

-----------------------------------------------------------------------------
Release(c) ==
    /\ mu = Nobody
    /\ pc[c] = "holding"
    /\ current' = current - 1
    /\ Signal([pc EXCEPT ![c] = "released"])
    /\ UNCHANGED <<mu, max, watcher, ctxDone>>

Resize(newMax) ==
    /\ mu = Nobody
    /\ max' = newMax
    /\ Broadcast(pc)
    /\ UNCHANGED <<mu, current, watcher, ctxDone>>

Cancel(x) ==
    /\ ctxDone' = ctxDone \union {x}
    /\ UNCHANGED <<mu, max, current, waiters, pc, watcher>>

AcquireStep(c) ==
    \/ Take(c)
    \/ Fail(c)
    \/ DecideToWait(c)
    \/ Wait(c)

WatcherStep(c) ==
    \/ WatcherBroadcasts(c)
    \/ WatcherExits(c)

Next ==
    \/ \E c \in Caller : Lock(c) \/ AcquireStep(c) \/ WatcherStep(c) \/ Release(c)
    \/ \E n \in Size : Resize(n)
    \/ \E x \in Ctx : Cancel(x)

(* Goroutines that can run do run, and Go's mutex hands itself to a waiter    *)
(* that has been passed over (its starvation mode), hence strong fairness on  *)
(* Lock once a call has been made.                                            *)
GoroutineFairness ==
    \A c \in Caller :
        /\ SF_vars(pc[c] = "woken" /\ Lock(c))
        /\ WF_vars(AcquireStep(c))
        /\ WF_vars(WatcherStep(c))

Spec == Init /\ [][Next]_vars /\ GoroutineFairness

(* In addition, whoever holds a slot gives it back: a runner process ends.    *)
HoldersRelease == \A c \in Caller : SF_vars(Release(c))

ReleasingSpec == Spec /\ HoldersRelease

-----------------------------------------------------------------------------
(* Properties.                                                                *)

(* The mutex is held exactly by the call that is between Lock and its next    *)
(* unlock, and the ticket queue holds exactly the parked calls.               *)
TypeOK ==
    /\ mu \in Caller \union {Nobody}
    /\ max \in Size
    /\ current \in Nat
    /\ waiters \in Seq(Caller)
    /\ pc \in [Caller -> {"ready", "check", "wait", "parked", "woken",
                          "holding", "failed", "released"}]
    /\ watcher \in [Caller -> {"none", "armed", "gone"}]
    /\ ctxDone \subseteq Ctx
    /\ {c \in Caller : pc[c] \in {"check", "wait"}} = {mu} \ {Nobody}
    /\ ToSet(waiters) = {c \in Caller : pc[c] = "parked"}
    /\ IsInjective(waiters)

(* s.current is the number of calls that hold a slot, through every return of *)
(* Acquire, wake-up and Release (what Available and Max compute from it).     *)
CountIsExact == current = Cardinality(Holding)

(* The semaphore implements the abstract pool: a slot is granted only below   *)
(* the capacity in force at that moment, whatever Resize does around it.      *)
Pool == INSTANCE SlotPool
            WITH Client <- Caller, size <- max, holders <- Holding

ImplementsPool == Pool!PoolSpec

(* While a caller whose context is live sleeps on the condition variable,     *)
(* every free slot has a caller awake to take it: no signal of Release or     *)
(* Resize goes missing between the test of the loop and cond.Wait.            *)
Awake == {c \in Caller : pc[c] \in {"check", "woken"}}
FreeSlotsHaveTakers ==
    (\E c \in ToSet(waiters) : ~Cancelled(c)) =>
        Cardinality(Awake) >= max - current

(* A call of Acquire returns (with a slot or with ctx.Err()), if every holder *)
(* eventually releases.                                                       *)
EveryCallReturns == \A c \in Caller : Pending(c) ~> Returned(c)

(* scaler.go:40: "Acquire blocks until a slot is available or ctx is          *)
(* cancelled."  Once the context is cancelled the call returns, whether or    *)
(* not anybody releases a slot.                                               *)
CancelledCallReturns ==
    \A c \in Caller : Pending(c) /\ Cancelled(c) ~> Returned(c)
=============================================================================
