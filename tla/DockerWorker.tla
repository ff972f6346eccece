---------------------------- MODULE DockerWorker ----------------------------
(* The Docker executor (internal/runner/docker.go): one container per runner, *)
(* over the starts and ends of the manager.  A request is sent, carried out   *)
(* by Docker, and answered; the client may be gone before each of the last    *)
(* two, because its context is cancelled, time runs out or the manager dies.  *)
EXTENDS Naturals

CONSTANT Name    \* runner names, each used for one container

VARIABLES
    manager,     \* what Orchestrator.Run is doing
    ctxDone,     \* the daemon's context is cancelled
    listed,      \* Reconcile: containers it still has to delete
    pc,          \* where DockerWorker.Run is, for each runner
    cancelled,   \* runners whose own context is cancelled
    result,      \* what Run returns
    creating,    \* create requests Docker is working on
    removing,    \* delete requests Docker is working on
    container,   \* containers at Docker
    job,         \* how far the job in the container got
    fresh,       \* history: containers made since the last listing
    abandoned,   \* history: runs that ended without an answer to their delete
    calm         \* from now on nothing fails

managerVars == <<manager, ctxDone, listed>>
runVars == <<pc, cancelled, result>>
dockerVars == <<creating, removing, container, job, fresh>>
vars == <<managerVars, runVars, dockerVars, abandoned, calm>>

Active == {"prepare", "create", "creating", "start", "wait", "logs", "remove", "removing"}
Owning == {"creating", "start", "wait", "logs", "remove", "removing"}
Present(n) == container[n] # "absent"

(* The context of a run is a child of the daemon's (scaler.go:319).           *)
Stopped(n) == ctxDone \/ n \in cancelled

Goto(n, place) == pc' = [pc EXCEPT ![n] = place]
Return(n, r) == result' = [result EXCEPT ![n] = r]
At(n, place) == manager = "up" /\ pc[n] = place

(* The process ends: every goroutine with it, whatever it was doing.          *)
Exit ==
    /\ manager' = "down"
    /\ listed' = {}
    /\ pc' = [n \in Name |-> IF pc[n] \in Active THEN "killed" ELSE pc[n]]
    /\ abandoned' = abandoned \union {n \in Name : pc[n] \in Owning}
    /\ UNCHANGED <<ctxDone, cancelled, result, dockerVars, calm>>

Init ==
    /\ manager = "down" /\ ctxDone = FALSE /\ listed = {}
    /\ pc = [n \in Name |-> "idle"]
    /\ cancelled = {}
    /\ result = [n \in Name |-> "none"]
    /\ creating = {} /\ removing = {} /\ fresh = {}
    /\ container = [n \in Name |-> "absent"]
    /\ job = [n \in Name |-> "none"]
    /\ abandoned = {}
    /\ calm = FALSE

-----------------------------------------------------------------------------
(* Orchestrator.Run: Reconcile first, then the listeners.                     *)
Start ==
    /\ manager = "down"
    /\ manager' = "listing"
    /\ ctxDone' = FALSE
    /\ UNCHANGED <<listed, runVars, dockerVars, abandoned, calm>>

ListRunning == \* wrong: asks Docker without all=1
    /\ manager = "listing"
    /\ ~ctxDone
    /\ listed' = {n \in Name : container[n] = "running"}
    /\ fresh' = {}
    /\ manager' = "sweeping"
    /\ UNCHANGED <<ctxDone, runVars, creating, removing, container, job, abandoned, calm>>

List ==
    /\ manager = "listing"
    /\ ~ctxDone
    /\ listed' = {n \in Name : Present(n)}
    /\ fresh' = {}
    /\ manager' = "sweeping"
    /\ UNCHANGED <<ctxDone, runVars, creating, removing, container, job, abandoned, calm>>

Sweep(n) ==
    /\ manager = "sweeping"
    /\ ~ctxDone
    /\ n \in listed /\ Present(n) /\ n \notin removing
    /\ container' = [container EXCEPT ![n] = "absent"]
    /\ job' = [job EXCEPT ![n] = IF @ = "running" THEN "killed" ELSE @]
    /\ listed' = listed \ {n}
    /\ UNCHANGED <<manager, ctxDone, runVars, creating, removing, fresh, abandoned, calm>>

(* Listing or deleting fails, also because the container is gone or being     *)
(* removed at the request of the previous manager.  Run returns the error.    *)
ReconcileFails ==
    /\ \/ manager = "listing" /\ (ctxDone \/ ~calm)
       \/ /\ manager = "sweeping"
          /\ ctxDone \/ ~calm \/ \E n \in listed : ~Present(n) \/ n \in removing
    /\ Exit

Reconciled ==
    /\ manager = "sweeping"
    /\ listed = {}
    /\ manager' = "up"
    /\ UNCHANGED <<ctxDone, listed, runVars, dockerVars, abandoned, calm>>

Shutdown ==
    /\ manager # "down" /\ ~ctxDone
    /\ ctxDone' = TRUE
    /\ UNCHANGED <<manager, listed, runVars, dockerVars, abandoned, calm>>

(* Run returns when the listeners have; it does not wait for the runners.     *)
RunReturns == manager = "up" /\ ctxDone /\ Exit
Crash == manager # "down" /\ ~calm /\ Exit

-----------------------------------------------------------------------------
(* DockerWorker.Run.                                                          *)
Unaffected == UNCHANGED <<managerVars, calm>>

(* The scaler starts the goroutine, maybe with a context already cancelled.   *)
Launch(n) ==
    /\ At(n, "idle")
    /\ Goto(n, "prepare")
    /\ Unaffected /\ UNCHANGED <<cancelled, result, dockerVars, abandoned>>

(* The cache directory is made and given to the runner's user, or not.        *)
Prepare(n) ==
    /\ At(n, "prepare")
    /\ \/ Goto(n, "create") /\ UNCHANGED result
       \/ ~calm /\ Goto(n, "returned") /\ Return(n, "failed")
    /\ Unaffected /\ UNCHANGED <<cancelled, dockerVars, abandoned>>

SendCreate(n) ==
    /\ At(n, "create")
    /\ ~Stopped(n)
    /\ creating' = creating \union {n}
    /\ Goto(n, "creating")
    /\ Unaffected
    /\ UNCHANGED <<cancelled, result, removing, container, job, fresh, abandoned>>

CreateFailsUnreported(n) == \* wrong: the error is dropped
    /\ pc[n] \in {"create", "creating"} /\ manager = "up"
    /\ Stopped(n) \/ ~calm
    /\ Goto(n, "returned")
    /\ abandoned' = IF pc[n] = "creating" THEN abandoned \union {n} ELSE abandoned
    /\ Unaffected /\ UNCHANGED <<cancelled, result, dockerVars>>

(* No answer, or one without an ID.  Docker may go on with the request.       *)
CreateFails(n) ==
    /\ pc[n] \in {"create", "creating"} /\ manager = "up"
    /\ \/ Stopped(n) \/ ~calm
       \/ pc[n] = "creating" /\ n \notin creating /\ ~Present(n)
    /\ Goto(n, "returned")
    /\ Return(n, "failed")
    /\ abandoned' = IF pc[n] = "creating" THEN abandoned \union {n} ELSE abandoned
    /\ Unaffected /\ UNCHANGED <<cancelled, dockerVars>>

Created(n) ==
    /\ At(n, "creating")
    /\ n \notin creating /\ Present(n)
    /\ Goto(n, "start")
    /\ Unaffected /\ UNCHANGED <<cancelled, result, dockerVars, abandoned>>

StartContainer(n) ==
    /\ At(n, "start")
    /\ ~Stopped(n)
    /\ container' = [container EXCEPT ![n] = "running"]
    /\ job' = [job EXCEPT ![n] = "running"]
    /\ Goto(n, "wait")
    /\ Unaffected
    /\ UNCHANGED <<cancelled, result, creating, removing, fresh, abandoned>>

StartFailsKeeping(n) == \* wrong: returns before the removal is deferred
    /\ At(n, "start")
    /\ Stopped(n) \/ ~calm
    /\ \/ UNCHANGED <<container, job>>
       \/ /\ container' = [container EXCEPT ![n] = "running"]
          /\ job' = [job EXCEPT ![n] = "running"]
    /\ Goto(n, "returned")
    /\ Return(n, "failed")
    /\ Unaffected
    /\ UNCHANGED <<cancelled, creating, removing, fresh, abandoned>>

StartFails(n) ==
    /\ At(n, "start")
    /\ Stopped(n) \/ ~calm
    /\ \/ UNCHANGED <<container, job>>
       \/ /\ container' = [container EXCEPT ![n] = "running"]
          /\ job' = [job EXCEPT ![n] = "running"]
    /\ Goto(n, "remove")
    /\ Return(n, "failed")
    /\ Unaffected
    /\ UNCHANGED <<cancelled, creating, removing, fresh, abandoned>>

WaitIgnoringStatus(n) == \* wrong: takes any exit for success
    /\ At(n, "wait")
    /\ \/ /\ Stopped(n)
          /\ Goto(n, "remove") /\ Return(n, "failed")
       \/ /\ ~Stopped(n)
          /\ container[n] = "exited"
          /\ Goto(n, "logs") /\ Return(n, "completed")
       \/ /\ ~Stopped(n) /\ ~calm
          /\ Goto(n, "logs") /\ Return(n, "failed")
    /\ Unaffected /\ UNCHANGED <<cancelled, dockerVars, abandoned>>

WaitDeaf(n) == \* wrong: waits without the runner's context
    /\ At(n, "wait")
    /\ \/ /\ container[n] = "exited"
          /\ Goto(n, "logs")
          /\ Return(n, IF job[n] = "succeeded" THEN "completed" ELSE "failed")
       \/ /\ ~calm
          /\ Goto(n, "logs") /\ Return(n, "failed")
    /\ Unaffected /\ UNCHANGED <<cancelled, dockerVars, abandoned>>

(* A cancelled context comes first, even if the container has exited.         *)
Wait(n) ==
    /\ At(n, "wait")
    /\ \/ /\ Stopped(n)
          /\ Goto(n, "remove") /\ Return(n, "failed")
       \/ /\ ~Stopped(n)
          /\ container[n] = "exited"
          /\ Goto(n, "logs")
          /\ Return(n, IF job[n] = "succeeded" THEN "completed" ELSE "failed")
       \/ /\ ~Stopped(n) /\ ~calm
          /\ Goto(n, "logs") /\ Return(n, "failed")
    /\ Unaffected /\ UNCHANGED <<cancelled, dockerVars, abandoned>>

(* With a context of its own; an error is only logged.                        *)
Logs(n) ==
    /\ At(n, "logs")
    /\ Goto(n, "remove")
    /\ Unaffected /\ UNCHANGED <<cancelled, result, dockerVars, abandoned>>

SendRemove(n) ==
    /\ At(n, "remove")
    /\ removing' = removing \union {n}
    /\ Goto(n, "removing")
    /\ Unaffected
    /\ UNCHANGED <<cancelled, result, creating, container, job, fresh, abandoned>>

Removed(n) ==
    /\ At(n, "removing")
    /\ n \notin removing /\ ~Present(n)
    /\ Goto(n, "returned")
    /\ Unaffected /\ UNCHANGED <<cancelled, result, dockerVars, abandoned>>

(* Twenty seconds have passed, or Docker answers with an error: only logged.  *)
RemoveFails(n) ==
    /\ At(n, "remove") \/ At(n, "removing")
    /\ ~calm \/ (pc[n] = "removing" /\ n \notin removing /\ Present(n))
    /\ Goto(n, "returned")
    /\ abandoned' = abandoned \union {n}
    /\ Unaffected /\ UNCHANGED <<cancelled, result, dockerVars>>

(* The job completed, or the runner is recycled (scaler.go:261, 295).         *)
Cancel(n) ==
    /\ manager = "up"
    /\ pc[n] \in Active /\ n \notin cancelled
    /\ cancelled' = cancelled \union {n}
    /\ Unaffected /\ UNCHANGED <<pc, result, dockerVars, abandoned>>

-----------------------------------------------------------------------------
(* Docker, and the job in the container.                                      *)
Elsewhere == UNCHANGED <<managerVars, runVars, abandoned, calm>>

DockerCreates(n) ==
    /\ n \in creating
    /\ creating' = creating \ {n}
    /\ container' = [container EXCEPT ![n] = "created"]
    /\ fresh' = fresh \union {n}
    /\ Elsewhere /\ UNCHANGED <<removing, job>>

(* It gives the request up only when the client is gone.                      *)
DockerDrops(n) ==
    /\ pc[n] \notin {"creating", "removing"} \/ ~calm
    /\ n \in creating \union removing
    /\ creating' = creating \ {n}
    /\ removing' = removing \ {n}
    /\ Elsewhere /\ UNCHANGED <<container, job, fresh>>

DockerRemoves(n) ==
    /\ n \in removing
    /\ removing' = removing \ {n}
    /\ container' = [container EXCEPT ![n] = "absent"]
    /\ job' = [job EXCEPT ![n] = IF @ = "running" THEN "killed" ELSE @]
    /\ Elsewhere /\ UNCHANGED <<creating, fresh>>

JobEnds(n) ==
    /\ container[n] = "running"
    /\ container' = [container EXCEPT ![n] = "exited"]
    /\ \E r \in {"succeeded", "failed"} : job' = [job EXCEPT ![n] = r]
    /\ Elsewhere /\ UNCHANGED <<creating, removing, fresh>>

CalmDown ==
    /\ ~calm
    /\ calm' = TRUE
    /\ UNCHANGED <<managerVars, runVars, dockerVars, abandoned>>

-----------------------------------------------------------------------------
RunStep(n) ==
    \/ Prepare(n) \/ SendCreate(n) \/ CreateFails(n) \/ Created(n)
    \/ StartContainer(n) \/ StartFails(n) \/ Wait(n) \/ Logs(n)
    \/ SendRemove(n) \/ Removed(n) \/ RemoveFails(n)

DockerStep(n) == DockerCreates(n) \/ DockerDrops(n) \/ DockerRemoves(n)

ReconcileStep == List \/ ReconcileFails \/ Reconciled \/ \E n \in Name : Sweep(n)

Next ==
    \/ Start \/ ReconcileStep \/ Shutdown \/ RunReturns \/ Crash \/ CalmDown
    \/ \E n \in Name : \/ Launch(n) \/ Cancel(n) \/ RunStep(n)
                       \/ DockerStep(n) \/ JobEnds(n)

Spec == Init /\ [][Next]_vars

(* Goroutines that can run do run, requests end, Docker does what it was asked.*)
(* Jobs need not end, and nothing makes the manager start, stop or exit.      *)
FairSpec ==
    /\ Spec
    /\ WF_vars(ReconcileStep)
    /\ \A n \in Name : WF_vars(RunStep(n)) /\ WF_vars(DockerStep(n))

-----------------------------------------------------------------------------
(* Every variable keeps its type, and a run that returned has a result        *)
(* (docker.go:131-192).                                                       *)
TypeOK ==
    /\ manager \in {"down", "listing", "sweeping", "up"}
    /\ ctxDone \in BOOLEAN /\ calm \in BOOLEAN
    /\ listed \subseteq Name /\ cancelled \subseteq Name
    /\ pc \in [Name -> Active \union {"idle", "returned", "killed"}]
    /\ result \in [Name -> {"none", "completed", "failed"}]
    /\ \A n \in Name : pc[n] = "returned" => result[n] # "none"
    /\ creating \subseteq Name /\ removing \subseteq Name
    /\ container \in [Name -> {"absent", "created", "running", "exited"}]
    /\ job \in [Name -> {"none", "running", "succeeded", "failed", "killed"}]
    /\ fresh \subseteq Name /\ abandoned \subseteq Name

(* Once Reconcile has returned there is no container older than its listing,  *)
(* whatever state the previous manager left it in (docker.go:109-134).        *)
NothingStale == manager = "up" => \A n \in Name : Present(n) => n \in fresh

(* A container, or a request that may still make one, has a run that will     *)
(* delete it, unless that run ended without an answer: a create whose ID      *)
(* never arrived, a delete that failed, an exit of the manager                *)
(* (docker.go:151-158, 195).                                                  *)
ContainersOwned ==
    \A n \in Name : (Present(n) \/ n \in creating) => n \in abandoned \/ pc[n] \in Owning

(* Run reports success only for a job that ended by itself with status zero,  *)
(* never for one that was killed or whose wait was cut (docker.go:170-190).   *)
SuccessIsReal ==
    \A n \in Name : result[n] = "completed" => job[n] = "succeeded"

(* README.md:292, "Cancellation force-removes the container": if nothing      *)
(* fails, the container of a cancelled run that learned its ID goes away, or  *)
(* the daemon ends before, which does not wait for it (orchestrator.go:201).  *)
CancelledRemoved ==
    \A n \in Name :
        (calm /\ Stopped(n) /\ pc[n] \in {"start", "wait", "logs", "remove"})
            ~> (~Present(n) \/ manager = "down")
=============================================================================
