------------------------------- MODULE Runners -------------------------------
(* The two executors of internal/runner.  A daemon's configuration chooses    *)
(* one of them for all its runners (orchestrator.go:147-156), and they share  *)
(* no state: in every behaviour one of them works and the other is at rest.   *)
EXTENDS DockerWorker

CONSTANTS Entry, RunScript, Link, Job   \* as in RunnerCache

VARIABLES executor,   \* "docker" or "subprocess"
          daemon, checksum, tarball, tree, sha, done, work, copied

(* Both models speak of the same calm, from which nothing fails.              *)
Cache == INSTANCE RunnerCache

ASSUME RunnersAssumption == Cache!RunnerCacheAssumption

dockerOnly == <<managerVars, runVars, dockerVars, abandoned>>
cacheOnly == <<daemon, checksum, tarball, tree, sha, done, work, copied>>
runnersVars == <<executor, vars, cacheOnly>>

Docker == executor = "docker" /\ UNCHANGED <<executor, cacheOnly>>
Subprocess == executor = "subprocess" /\ UNCHANGED <<executor, dockerOnly>>

RunnersInit == executor \in {"docker", "subprocess"} /\ Init /\ Cache!Init
RunnersNext == (Docker /\ Next) \/ (Subprocess /\ Cache!Next)

(* The fairness of DockerWorker and of RunnerCache, each for the executor     *)
(* that works.                                                                *)
RunnersSpec ==
    /\ RunnersInit /\ [][RunnersNext]_runnersVars
    /\ WF_runnersVars(Docker /\ ReconcileStep)
    /\ \A n \in Name : /\ WF_runnersVars(Docker /\ RunStep(n))
                       /\ WF_runnersVars(Docker /\ DockerStep(n))
    /\ WF_runnersVars(Subprocess /\ Cache!RunnerDirStep)
    /\ \A j \in Job : WF_runnersVars(Subprocess /\ Cache!WorkerStep(j))

(* The types of both (DockerWorker and RunnerCache, TypeOK).                  *)
TypesOK == TypeOK /\ Cache!TypeOK

(* The properties of RunnerCache, under their names.                          *)
VerifiedRunnerIsWhole == Cache!VerifiedRunnerIsWhole
CacheRecovers == Cache!CacheRecovers
=============================================================================
