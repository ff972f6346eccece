---------------------------- MODULE RunnersProofs ----------------------------
(* Proofs about the two executors: DockerWorker for any set of runners,        *)
(* RunnerCache for any archive and any jobs, and both as Runners composes     *)
(* them.                                                                      *)
EXTENDS Runners, TLAPS

-----------------------------------------------------------------------------
(* The Docker executor.                                                       *)
USE DEF managerVars, runVars, dockerVars, vars, Active, Owning, At, Goto, Return,
        Present, Stopped, Unaffected, Elsewhere

(* Only a manager that is up has runs, and these have created what they own:  *)
(* a create request without a run that waits for it is abandoned.             *)
OwnedInv ==
    /\ manager # "up" => \A n \in Name : pc[n] \notin Active
    /\ \A n \in creating : n \in abandoned \/ pc[n] = "creating"
    /\ ContainersOwned

(* While Reconcile deletes, what is older than its listing is on its list; a  *)
(* run starts only a container that is younger.                               *)
StaleInv ==
    /\ manager = "sweeping" => \A n \in Name : Present(n) => n \in fresh \union listed
    /\ \A n \in Name : pc[n] = "start" => n \in fresh
    /\ NothingStale

(* A run has its result when it has waited; after a success its container     *)
(* does not run again.                                                        *)
ResultInv ==
    /\ \A n \in Name : pc[n] \in {"logs", "remove", "removing"} => result[n] # "none"
    /\ \A n \in Name : result[n] = "completed" =>
        /\ pc[n] \in {"logs", "remove", "removing", "returned", "killed"}
        /\ container[n] # "running"
    /\ SuccessIsReal

Inv == TypeOK /\ OwnedInv /\ StaleInv /\ ResultInv

LEMMA InitInv == Init => Inv
BY DEF Init, Inv, TypeOK, OwnedInv, StaleInv, ResultInv, ContainersOwned, NothingStale,
   SuccessIsReal

(* Every step keeps the types.                                                *)
LEMMA StepType == Inv /\ [Next]_vars => TypeOK'
<1> SUFFICES ASSUME Inv, [Next]_vars PROVE TypeOK'
  OBVIOUS
<1> USE DEF Inv, TypeOK, ResultInv
<1>1. ASSUME Start PROVE TypeOK'
  BY <1>1 DEF Start
<1>2. ASSUME List PROVE TypeOK'
  BY <1>2 DEF List
<1>3. ASSUME ReconcileFails PROVE TypeOK'
  BY <1>3 DEF ReconcileFails, Exit
<1>4. ASSUME Reconciled PROVE TypeOK'
  BY <1>4 DEF Reconciled
<1>5. ASSUME Shutdown PROVE TypeOK'
  BY <1>5 DEF Shutdown
<1>6. ASSUME RunReturns PROVE TypeOK'
  BY <1>6 DEF RunReturns, Exit
<1>7. ASSUME Crash PROVE TypeOK'
  BY <1>7 DEF Crash, Exit
<1>8. ASSUME CalmDown PROVE TypeOK'
  BY <1>8 DEF CalmDown
<1>9. ASSUME NEW n \in Name, Sweep(n) PROVE TypeOK'
  BY <1>9 DEF Sweep
<1>10. ASSUME NEW n \in Name, Launch(n) PROVE TypeOK'
  BY <1>10 DEF Launch
<1>11. ASSUME NEW n \in Name, Cancel(n) PROVE TypeOK'
  BY <1>11 DEF Cancel
<1>12. ASSUME NEW n \in Name, Prepare(n) PROVE TypeOK'
  BY <1>12 DEF Prepare
<1>13. ASSUME NEW n \in Name, SendCreate(n) PROVE TypeOK'
  BY <1>13 DEF SendCreate
<1>14. ASSUME NEW n \in Name, CreateFails(n) PROVE TypeOK'
  BY <1>14 DEF CreateFails
<1>15. ASSUME NEW n \in Name, Created(n) PROVE TypeOK'
  BY <1>15 DEF Created
<1>16. ASSUME NEW n \in Name, StartContainer(n) PROVE TypeOK'
  BY <1>16 DEF StartContainer
<1>17. ASSUME NEW n \in Name, StartFails(n) PROVE TypeOK'
  BY <1>17 DEF StartFails
<1>18. ASSUME NEW n \in Name, Wait(n) PROVE TypeOK'
  BY <1>18 DEF Wait
<1>19. ASSUME NEW n \in Name, Logs(n) PROVE TypeOK'
  BY <1>19 DEF Logs
<1>20. ASSUME NEW n \in Name, SendRemove(n) PROVE TypeOK'
  BY <1>20 DEF SendRemove
<1>21. ASSUME NEW n \in Name, Removed(n) PROVE TypeOK'
  BY <1>21 DEF Removed
<1>22. ASSUME NEW n \in Name, RemoveFails(n) PROVE TypeOK'
  BY <1>22 DEF RemoveFails
<1>23. ASSUME NEW n \in Name, DockerCreates(n) PROVE TypeOK'
  BY <1>23 DEF DockerCreates
<1>24. ASSUME NEW n \in Name, DockerDrops(n) PROVE TypeOK'
  BY <1>24 DEF DockerDrops
<1>25. ASSUME NEW n \in Name, DockerRemoves(n) PROVE TypeOK'
  BY <1>25 DEF DockerRemoves
<1>26. ASSUME NEW n \in Name, JobEnds(n) PROVE TypeOK'
  BY <1>26 DEF JobEnds
<1>27. CASE UNCHANGED vars
  BY <1>27
<1> QED
  BY <1>1, <1>2, <1>3, <1>4, <1>5, <1>6, <1>7, <1>8, <1>9, <1>10, <1>11,
     <1>12, <1>13, <1>14, <1>15, <1>16, <1>17, <1>18, <1>19, <1>20, <1>21,
     <1>22, <1>23, <1>24, <1>25, <1>26, <1>27
     DEF Next, RunStep, DockerStep, ReconcileStep

(* Every step leaves each container, and each request for one, to somebody.   *)
LEMMA StepOwned == Inv /\ [Next]_vars => OwnedInv'
<1> SUFFICES ASSUME Inv, [Next]_vars PROVE OwnedInv'
  OBVIOUS
<1> USE DEF Inv, TypeOK, OwnedInv, ContainersOwned
<1>1. ASSUME Start PROVE OwnedInv'
  BY <1>1 DEF Start
<1>2. ASSUME List PROVE OwnedInv'
  BY <1>2 DEF List
<1>3. ASSUME ReconcileFails PROVE OwnedInv'
  BY <1>3 DEF ReconcileFails, Exit
<1>4. ASSUME Reconciled PROVE OwnedInv'
  BY <1>4 DEF Reconciled
<1>5. ASSUME Shutdown PROVE OwnedInv'
  BY <1>5 DEF Shutdown
<1>6. ASSUME RunReturns PROVE OwnedInv'
  BY <1>6 DEF RunReturns, Exit
<1>7. ASSUME Crash PROVE OwnedInv'
  BY <1>7 DEF Crash, Exit
<1>8. ASSUME CalmDown PROVE OwnedInv'
  BY <1>8 DEF CalmDown
<1>9. ASSUME NEW n \in Name, Sweep(n) PROVE OwnedInv'
  BY <1>9 DEF Sweep
<1>10. ASSUME NEW n \in Name, Launch(n) PROVE OwnedInv'
  BY <1>10 DEF Launch
<1>11. ASSUME NEW n \in Name, Cancel(n) PROVE OwnedInv'
  BY <1>11 DEF Cancel
<1>12. ASSUME NEW n \in Name, Prepare(n) PROVE OwnedInv'
  BY <1>12 DEF Prepare
<1>13. ASSUME NEW n \in Name, SendCreate(n) PROVE OwnedInv'
  BY <1>13 DEF SendCreate
<1>14. ASSUME NEW n \in Name, CreateFails(n) PROVE OwnedInv'
  BY <1>14 DEF CreateFails
<1>15. ASSUME NEW n \in Name, Created(n) PROVE OwnedInv'
  BY <1>15 DEF Created
<1>16. ASSUME NEW n \in Name, StartContainer(n) PROVE OwnedInv'
  BY <1>16 DEF StartContainer
<1>17. ASSUME NEW n \in Name, StartFails(n) PROVE OwnedInv'
  BY <1>17 DEF StartFails
<1>18. ASSUME NEW n \in Name, Wait(n) PROVE OwnedInv'
  BY <1>18 DEF Wait
<1>19. ASSUME NEW n \in Name, Logs(n) PROVE OwnedInv'
  BY <1>19 DEF Logs
<1>20. ASSUME NEW n \in Name, SendRemove(n) PROVE OwnedInv'
  BY <1>20 DEF SendRemove
<1>21. ASSUME NEW n \in Name, Removed(n) PROVE OwnedInv'
  BY <1>21 DEF Removed
<1>22. ASSUME NEW n \in Name, RemoveFails(n) PROVE OwnedInv'
  BY <1>22 DEF RemoveFails
<1>23. ASSUME NEW n \in Name, DockerCreates(n) PROVE OwnedInv'
  BY <1>23 DEF DockerCreates
<1>24. ASSUME NEW n \in Name, DockerDrops(n) PROVE OwnedInv'
  BY <1>24 DEF DockerDrops
<1>25. ASSUME NEW n \in Name, DockerRemoves(n) PROVE OwnedInv'
  BY <1>25 DEF DockerRemoves
<1>26. ASSUME NEW n \in Name, JobEnds(n) PROVE OwnedInv'
  BY <1>26 DEF JobEnds
<1>27. CASE UNCHANGED vars
  BY <1>27
<1> QED
  BY <1>1, <1>2, <1>3, <1>4, <1>5, <1>6, <1>7, <1>8, <1>9, <1>10, <1>11,
     <1>12, <1>13, <1>14, <1>15, <1>16, <1>17, <1>18, <1>19, <1>20, <1>21,
     <1>22, <1>23, <1>24, <1>25, <1>26, <1>27
     DEF Next, RunStep, DockerStep, ReconcileStep

(* No step keeps a container over the end of Reconcile.                       *)
LEMMA StepStale == Inv /\ [Next]_vars => StaleInv'
<1> SUFFICES ASSUME Inv, [Next]_vars PROVE StaleInv'
  OBVIOUS
<1> USE DEF Inv, TypeOK, OwnedInv, StaleInv, NothingStale
<1>1. ASSUME Start PROVE StaleInv'
  BY <1>1 DEF Start
<1>2. ASSUME List PROVE StaleInv'
  BY <1>2 DEF List
<1>3. ASSUME ReconcileFails PROVE StaleInv'
  BY <1>3 DEF ReconcileFails, Exit
<1>4. ASSUME Reconciled PROVE StaleInv'
  BY <1>4 DEF Reconciled
<1>5. ASSUME Shutdown PROVE StaleInv'
  BY <1>5 DEF Shutdown
<1>6. ASSUME RunReturns PROVE StaleInv'
  BY <1>6 DEF RunReturns, Exit
<1>7. ASSUME Crash PROVE StaleInv'
  BY <1>7 DEF Crash, Exit
<1>8. ASSUME CalmDown PROVE StaleInv'
  BY <1>8 DEF CalmDown
<1>9. ASSUME NEW n \in Name, Sweep(n) PROVE StaleInv'
  BY <1>9 DEF Sweep
<1>10. ASSUME NEW n \in Name, Launch(n) PROVE StaleInv'
  BY <1>10 DEF Launch
<1>11. ASSUME NEW n \in Name, Cancel(n) PROVE StaleInv'
  BY <1>11 DEF Cancel
<1>12. ASSUME NEW n \in Name, Prepare(n) PROVE StaleInv'
  BY <1>12 DEF Prepare
<1>13. ASSUME NEW n \in Name, SendCreate(n) PROVE StaleInv'
  BY <1>13 DEF SendCreate
<1>14. ASSUME NEW n \in Name, CreateFails(n) PROVE StaleInv'
  BY <1>14 DEF CreateFails
<1>15. ASSUME NEW n \in Name, Created(n) PROVE StaleInv'
  BY <1>15 DEF Created
<1>16. ASSUME NEW n \in Name, StartContainer(n) PROVE StaleInv'
  BY <1>16 DEF StartContainer
<1>17. ASSUME NEW n \in Name, StartFails(n) PROVE StaleInv'
  BY <1>17 DEF StartFails
<1>18. ASSUME NEW n \in Name, Wait(n) PROVE StaleInv'
  BY <1>18 DEF Wait
<1>19. ASSUME NEW n \in Name, Logs(n) PROVE StaleInv'
  BY <1>19 DEF Logs
<1>20. ASSUME NEW n \in Name, SendRemove(n) PROVE StaleInv'
  BY <1>20 DEF SendRemove
<1>21. ASSUME NEW n \in Name, Removed(n) PROVE StaleInv'
  BY <1>21 DEF Removed
<1>22. ASSUME NEW n \in Name, RemoveFails(n) PROVE StaleInv'
  BY <1>22 DEF RemoveFails
<1>23. ASSUME NEW n \in Name, DockerCreates(n) PROVE StaleInv'
  BY <1>23 DEF DockerCreates
<1>24. ASSUME NEW n \in Name, DockerDrops(n) PROVE StaleInv'
  BY <1>24 DEF DockerDrops
<1>25. ASSUME NEW n \in Name, DockerRemoves(n) PROVE StaleInv'
  BY <1>25 DEF DockerRemoves
<1>26. ASSUME NEW n \in Name, JobEnds(n) PROVE StaleInv'
  BY <1>26 DEF JobEnds
<1>27. CASE UNCHANGED vars
  BY <1>27
<1> QED
  BY <1>1, <1>2, <1>3, <1>4, <1>5, <1>6, <1>7, <1>8, <1>9, <1>10, <1>11,
     <1>12, <1>13, <1>14, <1>15, <1>16, <1>17, <1>18, <1>19, <1>20, <1>21,
     <1>22, <1>23, <1>24, <1>25, <1>26, <1>27
     DEF Next, RunStep, DockerStep, ReconcileStep

(* No step changes a success, or the job it stands for.                       *)
LEMMA StepResult == Inv /\ [Next]_vars => ResultInv'
<1> SUFFICES ASSUME Inv, [Next]_vars PROVE ResultInv'
  OBVIOUS
<1> USE DEF Inv, TypeOK, ResultInv, SuccessIsReal
<1>1. ASSUME Start PROVE ResultInv'
  BY <1>1 DEF Start
<1>2. ASSUME List PROVE ResultInv'
  BY <1>2 DEF List
<1>3. ASSUME ReconcileFails PROVE ResultInv'
  BY <1>3 DEF ReconcileFails, Exit
<1>4. ASSUME Reconciled PROVE ResultInv'
  BY <1>4 DEF Reconciled
<1>5. ASSUME Shutdown PROVE ResultInv'
  BY <1>5 DEF Shutdown
<1>6. ASSUME RunReturns PROVE ResultInv'
  BY <1>6 DEF RunReturns, Exit
<1>7. ASSUME Crash PROVE ResultInv'
  BY <1>7 DEF Crash, Exit
<1>8. ASSUME CalmDown PROVE ResultInv'
  BY <1>8 DEF CalmDown
<1>9. ASSUME NEW n \in Name, Sweep(n) PROVE ResultInv'
  BY <1>9 DEF Sweep
<1>10. ASSUME NEW n \in Name, Launch(n) PROVE ResultInv'
  BY <1>10 DEF Launch
<1>11. ASSUME NEW n \in Name, Cancel(n) PROVE ResultInv'
  BY <1>11 DEF Cancel
<1>12. ASSUME NEW n \in Name, Prepare(n) PROVE ResultInv'
  BY <1>12 DEF Prepare
<1>13. ASSUME NEW n \in Name, SendCreate(n) PROVE ResultInv'
  BY <1>13 DEF SendCreate
<1>14. ASSUME NEW n \in Name, CreateFails(n) PROVE ResultInv'
  BY <1>14 DEF CreateFails
<1>15. ASSUME NEW n \in Name, Created(n) PROVE ResultInv'
  BY <1>15 DEF Created
<1>16. ASSUME NEW n \in Name, StartContainer(n) PROVE ResultInv'
  BY <1>16 DEF StartContainer
<1>17. ASSUME NEW n \in Name, StartFails(n) PROVE ResultInv'
  BY <1>17 DEF StartFails
<1>18. ASSUME NEW n \in Name, Wait(n) PROVE ResultInv'
  BY <1>18 DEF Wait
<1>19. ASSUME NEW n \in Name, Logs(n) PROVE ResultInv'
  BY <1>19 DEF Logs
<1>20. ASSUME NEW n \in Name, SendRemove(n) PROVE ResultInv'
  BY <1>20 DEF SendRemove
<1>21. ASSUME NEW n \in Name, Removed(n) PROVE ResultInv'
  BY <1>21 DEF Removed
<1>22. ASSUME NEW n \in Name, RemoveFails(n) PROVE ResultInv'
  BY <1>22 DEF RemoveFails
<1>23. ASSUME NEW n \in Name, DockerCreates(n) PROVE ResultInv'
  BY <1>23 DEF DockerCreates
<1>24. ASSUME NEW n \in Name, DockerDrops(n) PROVE ResultInv'
  BY <1>24 DEF DockerDrops
<1>25. ASSUME NEW n \in Name, DockerRemoves(n) PROVE ResultInv'
  BY <1>25 DEF DockerRemoves
<1>26. ASSUME NEW n \in Name, JobEnds(n) PROVE ResultInv'
  BY <1>26 DEF JobEnds
<1>27. CASE UNCHANGED vars
  BY <1>27
<1> QED
  BY <1>1, <1>2, <1>3, <1>4, <1>5, <1>6, <1>7, <1>8, <1>9, <1>10, <1>11,
     <1>12, <1>13, <1>14, <1>15, <1>16, <1>17, <1>18, <1>19, <1>20, <1>21,
     <1>22, <1>23, <1>24, <1>25, <1>26, <1>27
     DEF Next, RunStep, DockerStep, ReconcileStep

LEMMA InvHolds == Spec => []Inv
<1>1. Inv /\ [Next]_vars => Inv'
  BY StepType, StepOwned, StepStale, StepResult DEF Inv
<1> QED
  BY <1>1, InitInv, PTL DEF Spec

(* Every variable keeps its type, and a run that returned has a result.       *)
LEMMA DockerTypes == Spec => []TypeOK
BY InvHolds, PTL DEF Inv

(* However often the manager ends and starts, wherever its requests are, no   *)
(* container older than Reconcile's listing is left when runners start        *)
(* (docker.go:109-134).                                                       *)
THEOREM ReconcileLeavesNothing == Spec => []NothingStale
BY InvHolds, PTL DEF Inv, StaleInv

(* A container has a run that will delete it, or one that got no answer       *)
(* (docker.go:151-158, 195).                                                  *)
THEOREM ContainersAlwaysOwned == Spec => []ContainersOwned
BY InvHolds, PTL DEF Inv, OwnedInv

(* A success is that of a job that ended by itself (docker.go:170-190).       *)
THEOREM SuccessAlwaysReal == Spec => []SuccessIsReal
BY InvHolds, PTL DEF Inv, ResultInv

(* A run that returned with an answer to its delete has left nothing: no      *)
(* container, and no request that would still make one (docker.go:151-195).   *)
ReturnedClean ==
    \A n \in Name : (pc[n] = "returned" /\ n \notin abandoned) => ~ Present(n) /\ n \notin creating

(* A container is not taken from a run that works with it: Reconcile deletes  *)
(* before runs begin, and a delete is sent by the run itself, at its end.     *)
RunsKeepContainers ==
    [][\A n \in Name :
          (pc[n] \in {"creating", "start", "wait", "logs", "remove"} /\ Present(n)) => Present(n)']_vars

(* A delete request comes from a run that has nothing else left to do.        *)
RemovingInv == \A n \in removing : pc[n] \in {"removing", "returned", "killed"}

LEMMA StepRemoving == Inv /\ RemovingInv /\ [Next]_vars => RemovingInv'
<1> SUFFICES ASSUME Inv, RemovingInv, [Next]_vars PROVE RemovingInv'
  OBVIOUS
<1> USE DEF Inv, TypeOK, RemovingInv
<1>1. ASSUME Start PROVE RemovingInv'
  BY <1>1 DEF Start
<1>2. ASSUME List PROVE RemovingInv'
  BY <1>2 DEF List
<1>3. ASSUME ReconcileFails PROVE RemovingInv'
  BY <1>3 DEF ReconcileFails, Exit
<1>4. ASSUME Reconciled PROVE RemovingInv'
  BY <1>4 DEF Reconciled
<1>5. ASSUME Shutdown PROVE RemovingInv'
  BY <1>5 DEF Shutdown
<1>6. ASSUME RunReturns PROVE RemovingInv'
  BY <1>6 DEF RunReturns, Exit
<1>7. ASSUME Crash PROVE RemovingInv'
  BY <1>7 DEF Crash, Exit
<1>8. ASSUME CalmDown PROVE RemovingInv'
  BY <1>8 DEF CalmDown
<1>9. ASSUME NEW n \in Name, Sweep(n) PROVE RemovingInv'
  BY <1>9 DEF Sweep
<1>10. ASSUME NEW n \in Name, Launch(n) PROVE RemovingInv'
  BY <1>10 DEF Launch
<1>11. ASSUME NEW n \in Name, Cancel(n) PROVE RemovingInv'
  BY <1>11 DEF Cancel
<1>12. ASSUME NEW n \in Name, Prepare(n) PROVE RemovingInv'
  BY <1>12 DEF Prepare
<1>13. ASSUME NEW n \in Name, SendCreate(n) PROVE RemovingInv'
  BY <1>13 DEF SendCreate
<1>14. ASSUME NEW n \in Name, CreateFails(n) PROVE RemovingInv'
  BY <1>14 DEF CreateFails
<1>15. ASSUME NEW n \in Name, Created(n) PROVE RemovingInv'
  BY <1>15 DEF Created
<1>16. ASSUME NEW n \in Name, StartContainer(n) PROVE RemovingInv'
  BY <1>16 DEF StartContainer
<1>17. ASSUME NEW n \in Name, StartFails(n) PROVE RemovingInv'
  BY <1>17 DEF StartFails
<1>18. ASSUME NEW n \in Name, Wait(n) PROVE RemovingInv'
  BY <1>18 DEF Wait
<1>19. ASSUME NEW n \in Name, Logs(n) PROVE RemovingInv'
  BY <1>19 DEF Logs
<1>20. ASSUME NEW n \in Name, SendRemove(n) PROVE RemovingInv'
  BY <1>20 DEF SendRemove
<1>21. ASSUME NEW n \in Name, Removed(n) PROVE RemovingInv'
  BY <1>21 DEF Removed
<1>22. ASSUME NEW n \in Name, RemoveFails(n) PROVE RemovingInv'
  BY <1>22 DEF RemoveFails
<1>23. ASSUME NEW n \in Name, DockerCreates(n) PROVE RemovingInv'
  BY <1>23 DEF DockerCreates
<1>24. ASSUME NEW n \in Name, DockerDrops(n) PROVE RemovingInv'
  BY <1>24 DEF DockerDrops
<1>25. ASSUME NEW n \in Name, DockerRemoves(n) PROVE RemovingInv'
  BY <1>25 DEF DockerRemoves
<1>26. ASSUME NEW n \in Name, JobEnds(n) PROVE RemovingInv'
  BY <1>26 DEF JobEnds
<1>27. CASE UNCHANGED vars
  BY <1>27
<1> QED
  BY <1>1, <1>2, <1>3, <1>4, <1>5, <1>6, <1>7, <1>8, <1>9, <1>10, <1>11,
     <1>12, <1>13, <1>14, <1>15, <1>16, <1>17, <1>18, <1>19, <1>20, <1>21,
     <1>22, <1>23, <1>24, <1>25, <1>26, <1>27
     DEF Next, RunStep, DockerStep, ReconcileStep

(* No step but a delete of Reconcile or of a run takes a container away.      *)
LEMMA StepKeeps ==
    ASSUME Inv, RemovingInv, Next, NEW m \in Name, Present(m), ~ Present(m)'
    PROVE  pc[m] \notin {"creating", "start", "wait", "logs", "remove"}
<1> USE DEF Inv, TypeOK
<1>1. ASSUME NEW n \in Name, Sweep(n) PROVE pc[m] \notin Active
  BY <1>1 DEF Sweep, OwnedInv
<1>2. ASSUME NEW n \in Name, DockerRemoves(n) PROVE m = n /\ n \in removing
  BY <1>2 DEF DockerRemoves
<1>3. ASSUME NEW n \in Name,
             \/ StartContainer(n) \/ StartFails(n) \/ DockerCreates(n) \/ JobEnds(n)
      PROVE  FALSE
  BY <1>3 DEF StartContainer, StartFails, DockerCreates, JobEnds
<1>4. ASSUME NEW n \in Name,
             \/ Launch(n) \/ Cancel(n) \/ Prepare(n) \/ SendCreate(n) \/ CreateFails(n)
             \/ Created(n) \/ Wait(n) \/ Logs(n) \/ SendRemove(n) \/ Removed(n)
             \/ RemoveFails(n) \/ DockerDrops(n)
      PROVE  FALSE
  BY <1>4 DEF Launch, Cancel, Prepare, SendCreate, CreateFails, Created, Wait, Logs,
     SendRemove, Removed, RemoveFails, DockerDrops
<1>5. ASSUME Start \/ List \/ ReconcileFails \/ Reconciled \/ Shutdown \/ RunReturns \/ Crash
             \/ CalmDown
      PROVE  FALSE
  BY <1>5 DEF Start, List, ReconcileFails, Reconciled, Shutdown, RunReturns, Crash, CalmDown, Exit
<1> QED
  BY <1>1, <1>2, <1>3, <1>4, <1>5 DEF RemovingInv, Next, RunStep, DockerStep, ReconcileStep

(* Whatever Docker still does after its client is gone, a run that returned   *)
(* after an answered delete is the end of its container.                      *)
THEOREM ReturnedRunsAreClean == Spec => []ReturnedClean
<1>1. Inv => ReturnedClean
  BY DEF Inv, TypeOK, OwnedInv, ContainersOwned, ReturnedClean
<1> QED
  BY <1>1, InvHolds, PTL

(* Nobody removes the container of a run that has not asked for it, neither   *)
(* Reconcile nor a request of another run or of an earlier manager            *)
(* (docker.go:109-134, 151-158).                                              *)
THEOREM NobodyElseRemoves == Spec => RunsKeepContainers
<1>1. Init => RemovingInv
  BY DEF Init, RemovingInv
<1>2. Inv /\ RemovingInv /\ [Next]_vars =>
        [\A n \in Name :
            (pc[n] \in {"creating", "start", "wait", "logs", "remove"} /\ Present(n)) => Present(n)']_vars
  BY StepKeeps
<1> QED
  BY <1>1, <1>2, StepRemoving, InvHolds, PTL DEF Spec, RunsKeepContainers

-----------------------------------------------------------------------------
(* The subprocess executor.                                                   *)
USE RunnersAssumption

USE DEF Cache!cacheVars, Cache!jobVars, Cache!vars, Cache!Step, Cache!Idle, Cache!Torn, Cache!Serving, Cache!Go

(* A checksum file that says the right thing stands beside a whole tree.  A   *)
(* download begins only without such a file, so that none stands beside a     *)
(* tree that is being removed or extracted.                                   *)
TreeInv ==
    /\ sha = "right" => \A e \in Entry : tree[e] \in {"whole", "changed"}
    /\ daemon \in {"fetch", "compare", "clear", "extract"} => sha # "right"
    /\ daemon \in {"compare", "clear"} => done = {}
    /\ daemon = "extract" => \A e \in done : tree[e] # "absent"
    /\ daemon = "sign" => \A e \in Entry : tree[e] \in {"whole", "changed"}
    /\ daemon = "serving" /\ checksum = "known" => sha = "right"

(* Only a manager that serves has workers.                                    *)
WorkInv ==
    /\ daemon # "serving" =>
        \A j \in Job : work[j] \notin {"copying", "running", "removing"}
    /\ daemon = "serving" /\ checksum = "known" =>
        \A j \in Job : work[j] = "running" => copied[j] = Entry

CacheInv == Cache!TypeOK /\ TreeInv /\ WorkInv

LEMMA CacheInitInv == Cache!Init => CacheInv
BY DEF Cache!Init, CacheInv, Cache!TypeOK, TreeInv, WorkInv

(* Every step keeps the types.                                                *)
LEMMA CacheStepType ==
    ASSUME Cache!RunnerCacheAssumption, CacheInv, [Cache!Next]_(Cache!vars)
    PROVE  Cache!TypeOK'
<1> USE DEF CacheInv, Cache!TypeOK
<1>1. ASSUME Cache!Start PROVE Cache!TypeOK'
  BY <1>1 DEF Cache!Start
<1>2. ASSUME Cache!LatestRelease PROVE Cache!TypeOK'
  BY <1>2 DEF Cache!LatestRelease
<1>3. ASSUME Cache!Verify PROVE Cache!TypeOK'
  BY <1>3 DEF Cache!Verify, Cache!Cached, Cache!RunnerCacheAssumption
<1>4. ASSUME Cache!Fetch PROVE Cache!TypeOK'
  BY <1>4 DEF Cache!Fetch
<1>5. ASSUME Cache!Compare PROVE Cache!TypeOK'
  BY <1>5 DEF Cache!Compare
<1>6. ASSUME Cache!Clear PROVE Cache!TypeOK'
  BY <1>6 DEF Cache!Clear
<1>7. ASSUME Cache!Extracted PROVE Cache!TypeOK'
  BY <1>7 DEF Cache!Extracted
<1>8. ASSUME Cache!Sign PROVE Cache!TypeOK'
  BY <1>8 DEF Cache!Sign
<1>9. ASSUME Cache!Fails PROVE Cache!TypeOK'
  BY <1>9 DEF Cache!Fails, Cache!Exit
<1>10. ASSUME Cache!Stop PROVE Cache!TypeOK'
  BY <1>10 DEF Cache!Stop, Cache!Exit
<1>11. ASSUME Cache!CalmDown PROVE Cache!TypeOK'
  BY <1>11 DEF Cache!CalmDown
<1>12. ASSUME NEW e \in Entry, Cache!Extract(e) PROVE Cache!TypeOK'
  BY <1>12 DEF Cache!Extract
<1>13. ASSUME NEW j \in Job, Cache!MakeWorkspace(j) PROVE Cache!TypeOK'
  BY <1>13 DEF Cache!MakeWorkspace
<1>14. ASSUME NEW j \in Job, Cache!RunJob(j) PROVE Cache!TypeOK'
  BY <1>14 DEF Cache!RunJob
<1>15. ASSUME NEW j \in Job, Cache!CopyFails(j) PROVE Cache!TypeOK'
  BY <1>15 DEF Cache!CopyFails
<1>16. ASSUME NEW j \in Job, Cache!JobEnds(j) PROVE Cache!TypeOK'
  BY <1>16 DEF Cache!JobEnds
<1>17. ASSUME NEW j \in Job, Cache!RemoveWorkspace(j) PROVE Cache!TypeOK'
  BY <1>17 DEF Cache!RemoveWorkspace
<1>18. ASSUME NEW j \in Job, NEW e \in Entry, Cache!CopyEntry(j, e) PROVE Cache!TypeOK'
  BY <1>18 DEF Cache!CopyEntry
<1>19. ASSUME NEW j \in Job, NEW e \in Entry, Cache!JobWrites(j, e) PROVE Cache!TypeOK'
  BY <1>19 DEF Cache!JobWrites
<1>20. CASE UNCHANGED Cache!vars
  BY <1>20
<1> QED
  BY <1>1, <1>2, <1>3, <1>4, <1>5, <1>6, <1>7, <1>8, <1>9, <1>10, <1>11,
     <1>12, <1>13, <1>14, <1>15, <1>16, <1>17, <1>18, <1>19, <1>20
     DEF Cache!Next, Cache!RunnerDirStep, Cache!WorkerStep

(* No step leaves the right checksum beside a tree that is not whole.         *)
LEMMA CacheStepTree ==
    ASSUME Cache!RunnerCacheAssumption, CacheInv, [Cache!Next]_(Cache!vars)
    PROVE  TreeInv'
<1> USE DEF CacheInv, Cache!TypeOK, TreeInv
<1>1. ASSUME Cache!Start PROVE TreeInv'
  BY <1>1 DEF Cache!Start
<1>2. ASSUME Cache!LatestRelease PROVE TreeInv'
  BY <1>2 DEF Cache!LatestRelease
<1>3. ASSUME Cache!Verify PROVE TreeInv'
  BY <1>3 DEF Cache!Verify, Cache!Cached, Cache!RunnerCacheAssumption
<1>4. ASSUME Cache!Fetch PROVE TreeInv'
  BY <1>4 DEF Cache!Fetch
<1>5. ASSUME Cache!Compare PROVE TreeInv'
  BY <1>5 DEF Cache!Compare
<1>6. ASSUME Cache!Clear PROVE TreeInv'
  BY <1>6 DEF Cache!Clear
<1>7. ASSUME Cache!Extracted PROVE TreeInv'
  BY <1>7 DEF Cache!Extracted
<1>8. ASSUME Cache!Sign PROVE TreeInv'
  BY <1>8 DEF Cache!Sign
<1>9. ASSUME Cache!Fails PROVE TreeInv'
  BY <1>9 DEF Cache!Fails, Cache!Exit
<1>10. ASSUME Cache!Stop PROVE TreeInv'
  BY <1>10 DEF Cache!Stop, Cache!Exit
<1>11. ASSUME Cache!CalmDown PROVE TreeInv'
  BY <1>11 DEF Cache!CalmDown
<1>12. ASSUME NEW e \in Entry, Cache!Extract(e) PROVE TreeInv'
  BY <1>12 DEF Cache!Extract
<1>13. ASSUME NEW j \in Job, Cache!MakeWorkspace(j) PROVE TreeInv'
  BY <1>13 DEF Cache!MakeWorkspace
<1>14. ASSUME NEW j \in Job, Cache!RunJob(j) PROVE TreeInv'
  BY <1>14 DEF Cache!RunJob
<1>15. ASSUME NEW j \in Job, Cache!CopyFails(j) PROVE TreeInv'
  BY <1>15 DEF Cache!CopyFails
<1>16. ASSUME NEW j \in Job, Cache!JobEnds(j) PROVE TreeInv'
  BY <1>16 DEF Cache!JobEnds
<1>17. ASSUME NEW j \in Job, Cache!RemoveWorkspace(j) PROVE TreeInv'
  BY <1>17 DEF Cache!RemoveWorkspace
<1>18. ASSUME NEW j \in Job, NEW e \in Entry, Cache!CopyEntry(j, e) PROVE TreeInv'
  BY <1>18 DEF Cache!CopyEntry
<1>19. ASSUME NEW j \in Job, NEW e \in Entry, Cache!JobWrites(j, e) PROVE TreeInv'
  BY <1>19 DEF Cache!JobWrites
<1>20. CASE UNCHANGED Cache!vars
  BY <1>20
<1> QED
  BY <1>1, <1>2, <1>3, <1>4, <1>5, <1>6, <1>7, <1>8, <1>9, <1>10, <1>11,
     <1>12, <1>13, <1>14, <1>15, <1>16, <1>17, <1>18, <1>19, <1>20
     DEF Cache!Next, Cache!RunnerDirStep, Cache!WorkerStep

(* No step starts a job in a workspace that lacks a file.                     *)
LEMMA CacheStepWork ==
    ASSUME Cache!RunnerCacheAssumption, CacheInv, [Cache!Next]_(Cache!vars)
    PROVE  WorkInv'
<1> USE DEF CacheInv, Cache!TypeOK, TreeInv, WorkInv
<1>1. ASSUME Cache!Start PROVE WorkInv'
  BY <1>1 DEF Cache!Start
<1>2. ASSUME Cache!LatestRelease PROVE WorkInv'
  BY <1>2 DEF Cache!LatestRelease
<1>3. ASSUME Cache!Verify PROVE WorkInv'
  BY <1>3 DEF Cache!Verify, Cache!Cached, Cache!RunnerCacheAssumption
<1>4. ASSUME Cache!Fetch PROVE WorkInv'
  BY <1>4 DEF Cache!Fetch
<1>5. ASSUME Cache!Compare PROVE WorkInv'
  BY <1>5 DEF Cache!Compare
<1>6. ASSUME Cache!Clear PROVE WorkInv'
  BY <1>6 DEF Cache!Clear
<1>7. ASSUME Cache!Extracted PROVE WorkInv'
  BY <1>7 DEF Cache!Extracted
<1>8. ASSUME Cache!Sign PROVE WorkInv'
  BY <1>8 DEF Cache!Sign
<1>9. ASSUME Cache!Fails PROVE WorkInv'
  BY <1>9 DEF Cache!Fails, Cache!Exit
<1>10. ASSUME Cache!Stop PROVE WorkInv'
  BY <1>10 DEF Cache!Stop, Cache!Exit
<1>11. ASSUME Cache!CalmDown PROVE WorkInv'
  BY <1>11 DEF Cache!CalmDown
<1>12. ASSUME NEW e \in Entry, Cache!Extract(e) PROVE WorkInv'
  BY <1>12 DEF Cache!Extract
<1>13. ASSUME NEW j \in Job, Cache!MakeWorkspace(j) PROVE WorkInv'
  BY <1>13 DEF Cache!MakeWorkspace
<1>14. ASSUME NEW j \in Job, Cache!RunJob(j) PROVE WorkInv'
  BY <1>14 DEF Cache!RunJob
<1>15. ASSUME NEW j \in Job, Cache!CopyFails(j) PROVE WorkInv'
  BY <1>15 DEF Cache!CopyFails
<1>16. ASSUME NEW j \in Job, Cache!JobEnds(j) PROVE WorkInv'
  BY <1>16 DEF Cache!JobEnds
<1>17. ASSUME NEW j \in Job, Cache!RemoveWorkspace(j) PROVE WorkInv'
  BY <1>17 DEF Cache!RemoveWorkspace
<1>18. ASSUME NEW j \in Job, NEW e \in Entry, Cache!CopyEntry(j, e) PROVE WorkInv'
  BY <1>18 DEF Cache!CopyEntry
<1>19. ASSUME NEW j \in Job, NEW e \in Entry, Cache!JobWrites(j, e) PROVE WorkInv'
  BY <1>19 DEF Cache!JobWrites
<1>20. CASE UNCHANGED Cache!vars
  BY <1>20
<1> QED
  BY <1>1, <1>2, <1>3, <1>4, <1>5, <1>6, <1>7, <1>8, <1>9, <1>10, <1>11,
     <1>12, <1>13, <1>14, <1>15, <1>16, <1>17, <1>18, <1>19, <1>20
     DEF Cache!Next, Cache!RunnerDirStep, Cache!WorkerStep

LEMMA CacheInvHolds ==
    ASSUME Cache!RunnerCacheAssumption
    PROVE  Cache!Spec => []CacheInv
<1>1. CacheInv /\ [Cache!Next]_(Cache!vars) => CacheInv'
  BY CacheStepType, CacheStepTree, CacheStepWork DEF CacheInv
<1> QED
  BY <1>1, CacheInitInv, PTL DEF Cache!Spec

(* What a job of a daemon that knows the checksum needs follows.              *)
LEMMA CacheWhole == CacheInv => Cache!VerifiedRunnerIsWhole
BY DEF CacheInv, Cache!TypeOK, TreeInv, WorkInv, Cache!VerifiedRunnerIsWhole

-----------------------------------------------------------------------------
(* Their composition.  Only CalmDown changes the calm they share: it is the   *)
(* step of the other executor too; every other step is a stutter of the other.*)
LEMMA DockerKeepsCalm == Next => CalmDown \/ UNCHANGED calm
BY DEF Next, ReconcileStep, RunStep, DockerStep, Start, List, ReconcileFails,
       Reconciled, Sweep, Shutdown, RunReturns, Crash, Launch, Cancel, Prepare,
       SendCreate, CreateFails, Created, StartContainer, StartFails, Wait, Logs,
       SendRemove, Removed, RemoveFails, DockerCreates, DockerDrops,
       DockerRemoves, JobEnds, Exit, Unaffected, Elsewhere

LEMMA CacheKeepsCalm == Cache!Next => Cache!CalmDown \/ UNCHANGED calm
BY DEF Cache!Next, Cache!RunnerDirStep, Cache!WorkerStep, Cache!Start,
       Cache!LatestRelease, Cache!Verify, Cache!Fetch, Cache!Compare,
       Cache!Clear, Cache!Extract, Cache!Extracted, Cache!Sign, Cache!Fails,
       Cache!Exit, Cache!Stop, Cache!MakeWorkspace, Cache!CopyEntry,
       Cache!RunJob, Cache!CopyFails, Cache!JobWrites, Cache!JobEnds,
       Cache!RemoveWorkspace

LEMMA StepOfDocker == [RunnersNext]_runnersVars => [Next]_vars
<1> SUFFICES ASSUME Subprocess, Cache!Next PROVE [Next]_vars
  BY DEF RunnersNext, runnersVars, Docker, cacheOnly
<1>1. UNCHANGED dockerOnly
  BY DEF Subprocess
<1>2. CASE Cache!CalmDown
  BY <1>1, <1>2 DEF Cache!CalmDown, dockerOnly, CalmDown, Next
<1>3. CASE UNCHANGED calm
  BY <1>1, <1>3 DEF dockerOnly
<1> QED
  BY <1>2, <1>3, CacheKeepsCalm

LEMMA StepOfCache == [RunnersNext]_runnersVars => [Cache!Next]_(Cache!vars)
<1> SUFFICES ASSUME Docker, Next PROVE [Cache!Next]_(Cache!vars)
  BY DEF RunnersNext, runnersVars, Subprocess, cacheOnly, dockerOnly
<1>1. UNCHANGED cacheOnly
  BY DEF Docker
<1>2. CASE CalmDown
  BY <1>1, <1>2 DEF CalmDown, cacheOnly, Cache!CalmDown, Cache!Next
<1>3. CASE UNCHANGED calm
  BY <1>1, <1>3 DEF cacheOnly
<1> QED
  BY <1>2, <1>3, DockerKeepsCalm

(* A behaviour of a daemon's runners is one of the Docker executor.           *)
THEOREM RunnersAreDocker == RunnersSpec => Spec
BY StepOfDocker, PTL DEF RunnersSpec, RunnersInit, Spec

(* And it is one of the subprocess executor.                                  *)
THEOREM RunnersAreSubprocess == RunnersSpec => Cache!Spec
BY StepOfCache, PTL DEF RunnersSpec, RunnersInit, Cache!Spec

(* Every variable of both keeps its type.                                     *)
THEOREM RunnersTypes == RunnersSpec => []TypesOK
<1>1. CacheInv => Cache!TypeOK
  BY DEF CacheInv
<1> QED
  BY <1>1, DockerTypes, CacheInvHolds, RunnersAssumption, RunnersAreDocker,
     RunnersAreSubprocess, PTL DEF TypesOK

(* A job of a daemon that knows the checksum has the whole runner, wherever   *)
(* earlier starts ended (manager.go:72-160, worker.go:32-66).                 *)
THEOREM RunnerAlwaysWhole == RunnersSpec => []VerifiedRunnerIsWhole
BY CacheWhole, CacheInvHolds, RunnersAssumption, RunnersAreSubprocess, PTL
   DEF VerifiedRunnerIsWhole
=============================================================================
