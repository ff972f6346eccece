------------------------------ MODULE Scaler -------------------------------
(* The scalers of internal/scaler/scaler.go, one per repository, that share   *)
(* one semaphore.  Three kinds of goroutine interleave on the maps of each:   *)
(* its listener, which runs the three callbacks one at a time; one goroutine  *)
(* per runner, which waits for the worker process and then cleans up; and the *)
(* control server, which may cancel a runner or resize the semaphore.  Every  *)
(* critical section of Scaler.mu is one action, and so is every call of the   *)
(* semaphore, whose own protocol is in module Semaphore.                      *)
(*                                                                            *)
(* Left out: the text of names and events, and lastDecision, which only keeps *)
(* an unchanged decision from being published again.                          *)
EXTENDS Integers, FiniteSets

CONSTANTS Repo,    \* repositories, one listener and one Scaler each
          Name,    \* runner names; uuid.NewString makes each one unique
          RepoOf,  \* the repository whose scaler draws the name
          NoName,  \* no runner
          Size,    \* capacities the semaphore may be given
          Count    \* desired runner counts the listener may report

ASSUME ScalerAssumption ==
    /\ RepoOf \in [Name -> Repo]
    /\ IsFiniteSet(Name)
    /\ NoName \notin Name
    /\ Size \subseteq Nat \ {0}
    /\ Count \subseteq Nat

VARIABLES
    max,          \* Semaphore.max
    current,      \* Semaphore.current
    ctxDone,      \* the context given to the callbacks has been cancelled
    runners,      \* keys of Scaler.runners, of every repository
    releases,     \* keys of Scaler.releases
    spawnedAt,    \* keys of Scaler.spawnedAt
    jobStartedAt, \* keys of Scaler.jobStartedAt
    cancelled,    \* names whose runnerCtx has been cancelled on its own
    holds,        \* names granted a slot whose releaseOnce has not fired
    phase,        \* life of each runner: its JIT config, slot and goroutine
    pc,           \* where each listener is
    desired, existing, available, created,
                  \* locals of each HandleDesiredRunnerCount (0 outside a call)
    target,       \* the runner a listener is starting or completing
    grabbed       \* what HandleJobCompleted took out of the maps

semVars == <<max, current, holds>>
mapVars == <<runners, releases, spawnedAt, jobStartedAt>>
runnerVars == <<cancelled, phase>>
callVars == <<desired, existing, available, created>>
listenerVars == <<pc, callVars, target, grabbed>>
vars == <<semVars, mapVars, runnerVars, listenerVars, ctxDone>>

-----------------------------------------------------------------------------
NamesOf(r) == {n \in Name : RepoOf[n] = r}
Tracked(r) == runners \intersect NamesOf(r)        \* one Scaler's runners map
StoppedAlone(n) == n \in cancelled \* wrong: runnerCtx is no child of ctx

Stopped(n) == n \in cancelled \/ ctxDone           \* runnerCtx.Done is closed
Processes == {n \in Name : phase[n] = "running"}   \* inside worker.Run

Lower(a, b) == IF a < b THEN a ELSE b
Upper(a, b) == IF a < b THEN b ELSE a

IgnoreExisting(want, have, free) == \* wrong: counts only free slots
    Lower(Upper(want, 0), Upper(free, 0))

RunnersToCreate(want, have, free) ==
    Lower(Upper(want - have, 0), Upper(free, 0))

(* Where a listener is: between callbacks, in HandleDesiredRunnerCount, or    *)
(* past the critical section of HandleJobCompleted.                           *)
InDesired == {"sample", "loop", "acquire", "register", "launch"}
InCompleted == {"cancel", "release"}
Places == {"idle"} \union InDesired \union InCompleted

(* A runner's life: JIT configuration issued (and perhaps wasted), slot       *)
(* granted, goroutine in worker.Run, and its deferred calls one by one.       *)
Phases == {"unused", "issued", "wasted", "starting", "running", "exited",
           "cleaned", "gone"}

MoreToCreate(r) ==
    created[r] < RunnersToCreate(desired[r], existing[r], available[r])

Goto(r, l) == pc' = [pc EXCEPT ![r] = l]

EndCall(r) ==
    /\ desired' = [desired EXCEPT ![r] = 0]
    /\ existing' = [existing EXCEPT ![r] = 0]
    /\ available' = [available EXCEPT ![r] = 0]
    /\ created' = [created EXCEPT ![r] = 0]
    /\ Goto(r, "idle")

(* A runner's release: releaseOnce.Do(s.sem.Release).                         *)
ReleaseTwice(n) == \* wrong: the semaphore is released without the Once
    /\ holds' = holds \ {n}
    /\ current' = current - 1
    /\ UNCHANGED max

ReleaseOnce(n) ==
    /\ holds' = holds \ {n}
    /\ current' = IF n \in holds THEN current - 1 ELSE current
    /\ UNCHANGED max

Init ==
    /\ max \in Size
    /\ current = 0
    /\ ctxDone = FALSE
    /\ runners = {} /\ releases = {} /\ spawnedAt = {} /\ jobStartedAt = {}
    /\ cancelled = {}
    /\ holds = {}
    /\ phase = [n \in Name |-> "unused"]
    /\ pc = [r \in Repo |-> "idle"]
    /\ desired = [r \in Repo |-> 0]
    /\ existing = [r \in Repo |-> 0]
    /\ available = [r \in Repo |-> 0]
    /\ created = [r \in Repo |-> 0]
    /\ target = [r \in Repo |-> NoName]
    /\ grabbed = [r \in Repo |-> {}]

-----------------------------------------------------------------------------
(* Plausible wrong versions of the actions below, named by what they do;      *)
(* no specification uses them.                                                *)
GenerateJitRetries(r) == \* the loop goes on after an error
    /\ pc[r] = "loop"
    /\ MoreToCreate(r)
    /\ UNCHANGED vars

AcquireAtCapacity(r) == \* the semaphore admits one too many
    /\ pc[r] = "acquire"
    /\ current <= max
    /\ ~ctxDone
    /\ current' = current + 1
    /\ holds' = holds \union {target[r]}
    /\ phase' = [phase EXCEPT ![target[r]] = "starting"]
    /\ Goto(r, "register")
    /\ UNCHANGED <<max, mapVars, cancelled, callVars, target, grabbed, ctxDone>>

JobStartedUnchecked(r, n) == \* the start is recorded unconditionally
    /\ pc[r] = "idle"
    /\ jobStartedAt' = jobStartedAt \union {n}
    /\ UNCHANGED <<semVars, runners, releases, spawnedAt, runnerVars,
                   listenerVars, ctxDone>>

JobCompletedKeepsRelease(r, n) == \* s.releases keeps its entry
    /\ pc[r] = "idle"
    /\ n \in NamesOf(r)
    /\ target' = [target EXCEPT ![r] = n]
    /\ grabbed' = [grabbed EXCEPT ![r] =
                      (IF n \in runners THEN {"cancel"} ELSE {}) \union
                      (IF n \in releases THEN {"release"} ELSE {})]
    /\ jobStartedAt' = jobStartedAt \ {n}
    /\ spawnedAt' = spawnedAt \ {n}
    /\ runners' = runners \ {n}
    /\ Goto(r, "cancel")
    /\ UNCHANGED <<semVars, releases, runnerVars, callVars, ctxDone>>

JobCompletedLeavesSlot(r) == \* the slot is left to the process's exit
    /\ pc[r] = "release"
    /\ target' = [target EXCEPT ![r] = NoName]
    /\ grabbed' = [grabbed EXCEPT ![r] = {}]
    /\ Goto(r, "idle")
    /\ UNCHANGED <<semVars, mapVars, runnerVars, callVars, ctxDone>>

JobCompletedReleasesDirectly(r) == \* calls sem.Release, not release
    /\ pc[r] = "release"
    /\ current' = IF "release" \in grabbed[r] THEN current - 1 ELSE current
    /\ target' = [target EXCEPT ![r] = NoName]
    /\ grabbed' = [grabbed EXCEPT ![r] = {}]
    /\ Goto(r, "idle")
    /\ UNCHANGED <<max, holds, mapVars, runnerVars, callVars, ctxDone>>

RunnerEndsKeepsSlot(n) == \* the release is left to the callback
    /\ phase[n] = "cleaned"
    /\ phase' = [phase EXCEPT ![n] = "gone"]
    /\ cancelled' = cancelled \union {n}
    /\ UNCHANGED <<semVars, mapVars, listenerVars, ctxDone>>

ForgetRunner(n) == \* recycling drops the entry without cancelling
    /\ n \in runners
    /\ runners' = runners \ {n}
    /\ UNCHANGED <<semVars, releases, spawnedAt, jobStartedAt, runnerVars,
                   listenerVars, ctxDone>>

-----------------------------------------------------------------------------
(* HandleDesiredRunnerCount: read len(s.runners) under the lock...            *)
DesiredBegin(r, count) ==
    /\ pc[r] = "idle"
    /\ desired' = [desired EXCEPT ![r] = count]
    /\ existing' = [existing EXCEPT ![r] = Cardinality(Tracked(r))]
    /\ Goto(r, "sample")
    /\ UNCHANGED <<semVars, mapVars, runnerVars, available, created, target,
                   grabbed, ctxDone>>

(* ...then the free slots, from another lock: both are stale when used.       *)
DesiredSample(r) ==
    /\ pc[r] = "sample"
    /\ available' = [available EXCEPT ![r] = max - current]
    /\ Goto(r, "loop")
    /\ UNCHANGED <<semVars, mapVars, runnerVars, desired, existing, created,
                   target, grabbed, ctxDone>>

(* The loop has run out: the decision is recorded and the call returns.       *)
DesiredReturn(r) ==
    /\ pc[r] = "loop"
    /\ ~MoreToCreate(r)
    /\ EndCall(r)
    /\ UNCHANGED <<semVars, mapVars, runnerVars, target, grabbed, ctxDone>>

(* startRunner: a fresh name and its JIT configuration from GitHub.           *)
GenerateJit(r, n) ==
    /\ pc[r] = "loop"
    /\ MoreToCreate(r)
    /\ ~ctxDone
    /\ n \in NamesOf(r)
    /\ phase[n] = "unused"
    /\ phase' = [phase EXCEPT ![n] = "issued"]
    /\ target' = [target EXCEPT ![r] = n]
    /\ Goto(r, "acquire")
    /\ UNCHANGED <<semVars, mapVars, cancelled, callVars, grabbed, ctxDone>>

(* GitHub refuses or the context is done: the error ends the loop.            *)
GenerateJitFails(r) ==
    /\ pc[r] = "loop"
    /\ MoreToCreate(r)
    /\ EndCall(r)
    /\ UNCHANGED <<semVars, mapVars, runnerVars, target, grabbed, ctxDone>>

(* sem.Acquire returns a slot; until one is free the listener is blocked.     *)
AcquireSlot(r) ==
    /\ pc[r] = "acquire"
    /\ current < max
    /\ ~ctxDone
    /\ current' = current + 1
    /\ holds' = holds \union {target[r]}
    /\ phase' = [phase EXCEPT ![target[r]] = "starting"]
    /\ Goto(r, "register")
    /\ UNCHANGED <<max, mapVars, cancelled, callVars, target, grabbed, ctxDone>>

(* sem.Acquire returns ctx.Err(): the JIT configuration is never used.        *)
AcquireFails(r) ==
    /\ pc[r] = "acquire"
    /\ ctxDone
    /\ phase' = [phase EXCEPT ![target[r]] = "wasted"]
    /\ target' = [target EXCEPT ![r] = NoName]
    /\ EndCall(r)
    /\ UNCHANGED <<semVars, mapVars, cancelled, grabbed, ctxDone>>

Register(r) ==
    /\ pc[r] = "register"
    /\ runners' = runners \union {target[r]}
    /\ releases' = releases \union {target[r]}
    /\ spawnedAt' = spawnedAt \union {target[r]}
    /\ Goto(r, "launch")
    /\ UNCHANGED <<semVars, jobStartedAt, runnerVars, callVars, target, grabbed,
                   ctxDone>>

(* After publishing runner.spawned, the go statement; back to the loop.       *)
Launch(r) ==
    /\ pc[r] = "launch"
    /\ phase' = [phase EXCEPT ![target[r]] = "running"]
    /\ target' = [target EXCEPT ![r] = NoName]
    /\ created' = [created EXCEPT ![r] = @ + 1]
    /\ Goto(r, "loop")
    /\ UNCHANGED <<semVars, mapVars, cancelled, desired, existing, available,
                   grabbed, ctxDone>>

-----------------------------------------------------------------------------
(* The job callbacks name any runner: one of this process, in any phase, also *)
(* one that is long gone, or ("unused") one this process never started.       *)
JobStarted(r, n) ==
    /\ pc[r] = "idle"
    /\ n \in spawnedAt \intersect NamesOf(r)
    /\ jobStartedAt' = jobStartedAt \union {n}
    /\ UNCHANGED <<semVars, runners, releases, spawnedAt, runnerVars,
                   listenerVars, ctxDone>>

(* HandleJobCompleted: forget the runner under the lock, keeping its cancel   *)
(* and release functions...                                                   *)
JobCompletedUntrack(r, n) ==
    /\ pc[r] = "idle"
    /\ n \in NamesOf(r)
    /\ target' = [target EXCEPT ![r] = n]
    /\ grabbed' = [grabbed EXCEPT ![r] =
                      (IF n \in runners THEN {"cancel"} ELSE {}) \union
                      (IF n \in releases THEN {"release"} ELSE {})]
    /\ jobStartedAt' = jobStartedAt \ {n}
    /\ spawnedAt' = spawnedAt \ {n}
    /\ runners' = runners \ {n}
    /\ releases' = releases \ {n}
    /\ Goto(r, "cancel")
    /\ UNCHANGED <<semVars, runnerVars, callVars, ctxDone>>

(* ...then, after publishing job.completed, cancel the runner's context...    *)
JobCompletedCancel(r) ==
    /\ pc[r] = "cancel"
    /\ cancelled' = IF "cancel" \in grabbed[r]
                    THEN cancelled \union {target[r]} ELSE cancelled
    /\ Goto(r, "release")
    /\ UNCHANGED <<semVars, mapVars, phase, callVars, target, grabbed, ctxDone>>

(* ...and free its slot without waiting for the process to exit.              *)
JobCompletedRelease(r) ==
    /\ pc[r] = "release"
    /\ IF "release" \in grabbed[r] THEN ReleaseOnce(target[r])
                                    ELSE UNCHANGED semVars
    /\ target' = [target EXCEPT ![r] = NoName]
    /\ grabbed' = [grabbed EXCEPT ![r] = {}]
    /\ Goto(r, "idle")
    /\ UNCHANGED <<mapVars, runnerVars, callVars, ctxDone>>

-----------------------------------------------------------------------------
(* The runner's goroutine: worker.Run returns, by itself or because its       *)
(* context is done, and the deferred calls run in reverse order.              *)
WorkerReturns(n) ==
    /\ phase[n] = "running"
    /\ phase' = [phase EXCEPT ![n] = "exited"]
    /\ UNCHANGED <<semVars, mapVars, cancelled, listenerVars, ctxDone>>

CleanUp(n) ==
    /\ phase[n] = "exited"
    /\ phase' = [phase EXCEPT ![n] = "cleaned"]
    /\ runners' = runners \ {n}
    /\ releases' = releases \ {n}
    /\ spawnedAt' = spawnedAt \ {n}
    /\ jobStartedAt' = jobStartedAt \ {n}
    /\ UNCHANGED <<semVars, cancelled, listenerVars, ctxDone>>

RunnerEnds(n) ==
    /\ phase[n] = "cleaned"
    /\ phase' = [phase EXCEPT ![n] = "gone"]
    /\ cancelled' = cancelled \union {n}
    /\ ReleaseOnce(n)
    /\ UNCHANGED <<mapVars, listenerVars, ctxDone>>

-----------------------------------------------------------------------------
(* CancelRunner, for the control server's recycle request.                    *)
CancelRunner(n) ==
    /\ n \in runners
    /\ cancelled' = cancelled \union {n}
    /\ runners' = runners \ {n}
    /\ UNCHANGED <<semVars, releases, spawnedAt, jobStartedAt, phase,
                   listenerVars, ctxDone>>

Resize(newMax) ==
    /\ max' = newMax
    /\ UNCHANGED <<current, holds, mapVars, runnerVars, listenerVars, ctxDone>>

(* The daemon's context is cancelled: SIGINT, SIGTERM or a stop request.      *)
Shutdown ==
    /\ ~ctxDone
    /\ ctxDone' = TRUE
    /\ UNCHANGED <<semVars, mapVars, runnerVars, listenerVars>>

DesiredStep(r) ==
    \/ DesiredSample(r)
    \/ DesiredReturn(r)
    \/ \E n \in Name : GenerateJit(r, n)
    \/ GenerateJitFails(r)
    \/ AcquireSlot(r)
    \/ AcquireFails(r)
    \/ Register(r)
    \/ Launch(r)

CompletedStep(r) ==
    \/ JobCompletedCancel(r)
    \/ JobCompletedRelease(r)

Callback(r) ==
    \/ \E count \in Count : DesiredBegin(r, count)
    \/ \E n \in Name : JobStarted(r, n) \/ JobCompletedUntrack(r, n)

RunnerStep(n) ==
    \/ WorkerReturns(n)
    \/ CleanUp(n)
    \/ RunnerEnds(n)

Next ==
    \/ \E r \in Repo : Callback(r) \/ DesiredStep(r) \/ CompletedStep(r)
    \/ \E n \in Name : RunnerStep(n) \/ CancelRunner(n)
    \/ \E newMax \in Size : Resize(newMax)
    \/ Shutdown

Spec == Init /\ [][Next]_vars

(* Running goroutines make progress, and a worker whose context is done       *)
(* returns (the process is killed, the container force-removed).  A worker    *)
(* that was not told to stop may wait for a job for ever.                     *)
Fairness ==
    /\ \A r \in Repo : WF_vars(DesiredStep(r) \/ CompletedStep(r))
    /\ \A n \in Name : /\ WF_vars(Stopped(n) /\ WorkerReturns(n))
                        /\ WF_vars(CleanUp(n) \/ RunnerEnds(n))

FairSpec == Spec /\ Fairness

-----------------------------------------------------------------------------
(* Properties.                                                                *)

TypeOK ==
    /\ max \in Size
    /\ current \in Nat
    /\ ctxDone \in BOOLEAN
    /\ runners \subseteq Name
    /\ releases \subseteq Name
    /\ spawnedAt \subseteq Name
    /\ jobStartedAt \subseteq Name
    /\ cancelled \subseteq Name
    /\ holds \subseteq Name
    /\ phase \in [Name -> Phases]
    /\ pc \in [Repo -> Places]
    /\ desired \in [Repo -> Nat]
    /\ existing \in [Repo -> Nat]
    /\ available \in [Repo -> Int]
    /\ created \in [Repo -> Nat]
    /\ target \in [Repo -> Name \union {NoName}]
    /\ grabbed \in [Repo -> SUBSET {"cancel", "release"}]

(* The semaphore's count is the number of runners whose slot is outstanding:  *)
(* the completion callback and the runner's own goroutine both give the slot  *)
(* back, in either order or at once, and it is counted once.                  *)
SlotAccounting == current = Cardinality(holds)

(* A slot never outlives the goroutine that has to give it back.              *)
NoLeakedSlot ==
    \A n \in holds : phase[n] \in {"starting", "running", "exited", "cleaned"}

(* The four maps tell one story however callbacks, exits and recycling race:  *)
(* a runner with a cancel function has a release function, which still holds  *)
(* a slot; job times exist only for runners with a spawn time; and nothing is *)
(* left in a map once the runner's goroutine has cleaned up.                  *)
MapsAgree ==
    /\ runners \subseteq releases
    /\ releases = spawnedAt
    /\ jobStartedAt \subseteq spawnedAt
    /\ releases \subseteq holds
    /\ \A n \in releases : phase[n] \in {"starting", "running", "exited"}

(* Whose turn a runner is: a listener in startRunner is the only one to move  *)
(* its runner (issued, granted, registered, launched) although the control    *)
(* server may cancel it before the go statement; a listener past the critical *)
(* section of HandleJobCompleted works on a runner no map releases any more.  *)
ListenerOwnsTarget ==
    \A r \in Repo :
        /\ pc[r] \in {"acquire", "register", "launch"} \union InCompleted =>
              target[r] \in NamesOf(r)
        /\ pc[r] = "acquire" => phase[target[r]] = "issued"
        /\ pc[r] \in {"register", "launch"} =>
              target[r] \in holds /\ phase[target[r]] = "starting"
        /\ pc[r] = "launch" => target[r] \in runners \union cancelled
        /\ pc[r] \in InCompleted => target[r] \notin releases

(* No worker process is out of reach: each is in the map that CancelRunner    *)
(* and the status commands read, or was told to stop, or its listener is just *)
(* about to tell it.                                                          *)
NoUnstoppableProcess ==
    \A n \in Processes \ runners :
        \/ Stopped(n)
        \/ \E r \in Repo :
              pc[r] = "cancel" /\ target[r] = n /\ "cancel" \in grabbed[r]

(* A call never leaves its repository with more tracked runners than assigned *)
(* jobs, or than it found: runnersToCreate is right although the count and    *)
(* the free slots it reads are stale by the time runners are started.         *)
NoOvershoot ==
    \A r \in Repo : pc[r] \in InDesired =>
        Cardinality(Tracked(r)) <= Upper(desired[r], existing[r])

(* The scalers use the semaphore as the abstract pool allows.                 *)
Pool == INSTANCE SlotPool WITH Client <- Name, size <- max, holders <- holds

ImplementsPool == Pool!PoolSpec

(* scaler.go:263: when HandleJobCompleted returns, the job's slot is free for *)
(* the HandleDesiredRunnerCount that follows, unless the runner's goroutine   *)
(* has emptied the maps and is between that and its own release.              *)
CompletionFreesSlot ==
    [][\A r \in Repo : pc[r] = "release" /\ pc'[r] = "idle" =>
          target[r] \notin holds' \/ phase[target[r]] = "cleaned"]_vars

(* README: max_runners is the "Maximum concurrent runner processes."          *)
ProcessesWithinMax == Cardinality(Processes) <= max

(* A runner told to stop, by a recycle request, a completed job or shutdown,  *)
(* gives its slot back.                                                       *)
StoppedSlotFreed == \A n \in Name : n \in holds /\ Stopped(n) ~> n \notin holds

(* After shutdown all slots are given back, no worker process is left, and it *)
(* stays so although callbacks may still arrive.                              *)
ShutdownDrains == ctxDone ~> [](holds = {} /\ Processes = {})

(* Shutdown also unblocks a listener, wherever its callback is.               *)
CallbacksReturn ==
    \A r \in Repo : ctxDone /\ pc[r] # "idle" ~> pc[r] = "idle"

(* Shutdown comes to its end (cmd/start.go, runStart; orchestrator.go, Run).  *)
ShutdownCompletes == ShutdownDrains /\ CallbacksReturn
=============================================================================
