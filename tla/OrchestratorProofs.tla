------------------------ MODULE OrchestratorProofs -------------------------
(* Proofs about module Orchestrator, for every finite set of repositories and *)
(* all requested counts.                                                      *)
EXTENDS Orchestrator, FiniteSetTheorems, TLAPS

USE OrchestratorAssumption
USE DEF remoteVars, repoVars, capacityVars, setterVars, vars, NoMax,
        OrchestratorAssumption

(* Where the capacity is in the middle of SetMaxRunners: set in the semaphore *)
(* after the first step, and in the listeners that were told.                 *)
CapacityInv ==
    /\ OneCapacity
    /\ setter # "listeners" => todo = {}
    /\ setter = "listeners" =>
        /\ sem # NoMax => sem = cfgMax
        /\ \A r \in registered \ todo : listenerMax[r] = cfgMax

(* runRepo owns the session from its request on, and is registered only while *)
(* its listener runs; a process that does not run has nothing registered.     *)
SessionInv ==
    /\ \A r \in Repo : pc[r] \in Holding => r \in session /\ r \in known
    /\ \A r \in registered : pc[r] \in {"listening", "unregister"}
    /\ daemon # "running" => registered = {}

Inv == TypeOK /\ CapacityInv /\ SessionInv

(* The number of repositories, which bounds errCh, is a natural number.       *)
LEMMA RepoCount == Cardinality(Repo) \in Nat
BY FS_CardinalityType

(* A daemon that was never started satisfies the invariant.                   *)
LEMMA InitInv == Init => Inv
<1> SUFFICES ASSUME Init PROVE Inv
  OBVIOUS
<1> USE DEF Init
<1>1. /\ session \subseteq scaleSet /\ scaleSet \subseteq Repo
      /\ known \subseteq scaleSet
      /\ registered \subseteq Repo /\ todo \subseteq registered
  OBVIOUS
<1>2. /\ daemon \in {"down", "preparing", "running"}
      /\ ctxDone \in BOOLEAN /\ calm \in BOOLEAN
      /\ setter \in {"idle", "resize", "listeners"}
  OBVIOUS
<1>3. pc \in [Repo -> Places] /\ errs \in 0 .. Cardinality(Repo)
  BY RepoCount DEF Places
<1>4. /\ cfgMax \in Capacity /\ sem \in Capacity \union {NoMax}
      /\ listenerMax \in [Repo -> Capacity \union {NoMax}]
  BY DEF Capacity
<1>5. CapacityInv
  BY DEF CapacityInv, OneCapacity, MuFree
<1>6. SessionInv
  BY DEF SessionInv, Holding
<1> QED
  BY <1>1, <1>2, <1>3, <1>4, <1>5, <1>6 DEF Inv, TypeOK

(* A process that ends leaves the types as they are.                          *)
LEMMA ExitType ==
    ASSUME TypeOK, Exit, UNCHANGED <<remoteVars, calm>>
    PROVE  TypeOK'
<1> USE DEF Exit, TypeOK
<1>1. /\ session' \subseteq scaleSet' /\ scaleSet' \subseteq Repo
      /\ known' \subseteq scaleSet'
      /\ registered' \subseteq Repo /\ todo' \subseteq registered'
  OBVIOUS
<1>2. /\ daemon' \in {"down", "preparing", "running"}
      /\ ctxDone' \in BOOLEAN /\ calm' \in BOOLEAN
      /\ setter' \in {"idle", "resize", "listeners"}
  OBVIOUS
<1>3. pc' \in [Repo -> Places] /\ errs' \in 0 .. Cardinality(Repo)
  BY RepoCount DEF Places
<1>4. /\ cfgMax' \in Capacity /\ sem' \in Capacity \union {NoMax}
      /\ listenerMax' \in [Repo -> Capacity \union {NoMax}]
  BY DEF Capacity
<1> QED
  BY <1>1, <1>2, <1>3, <1>4

(* Every step keeps the types.                                                *)
LEMMA StepType ==
    Inv /\ [Next]_vars => TypeOK'
<1> SUFFICES ASSUME Inv, [Next]_vars PROVE TypeOK'
  OBVIOUS
<1> USE DEF Inv, Goto, Unaffected, At
<1>1. ASSUME Start
      PROVE  TypeOK'
  BY <1>1 DEF Start, TypeOK, Capacity, Places, Requests, Holding
<1>2. ASSUME PrepareFails
      PROVE  TypeOK'
  BY <1>2, ExitType DEF PrepareFails
<1>3. ASSUME Prepare
      PROVE  TypeOK'
  BY <1>3 DEF Prepare, TypeOK, Capacity, Places, Requests, Holding,
     SessionInv
<1>4. ASSUME RunReturns
      PROVE  TypeOK'
  BY <1>4, ExitType DEF RunReturns
<1>5. ASSUME Shutdown
      PROVE  TypeOK'
  BY <1>5 DEF Shutdown, TypeOK, Capacity, Places, Requests, Holding
<1>6. ASSUME Crash
      PROVE  TypeOK'
  BY <1>6, ExitType DEF Crash
<1>7. ASSUME CalmDown
      PROVE  TypeOK'
  BY <1>7 DEF CalmDown, TypeOK, Capacity, Places, Requests, Holding
<1>8. ASSUME NEW r \in Repo, ClientFails(r)
      PROVE  TypeOK'
  BY <1>8 DEF ClientFails, TypeOK, Capacity, Places, Requests, Holding
<1>9. ASSUME NEW r \in Repo, Get(r)
      PROVE  TypeOK'
  BY <1>9 DEF Get, TypeOK, Capacity, Places, Requests, Holding
<1>10. ASSUME NEW r \in Repo, GetFindsNone(r)
       PROVE  TypeOK'
  BY <1>10 DEF GetFindsNone, TypeOK, Capacity, Places, Requests, Holding
<1>11. ASSUME NEW r \in Repo, Create(r)
       PROVE  TypeOK'
  BY <1>11 DEF Create, TypeOK, Capacity, Places, Requests, Holding
<1>12. ASSUME NEW r \in Repo, Open(r)
       PROVE  TypeOK'
  BY <1>12 DEF Open, TypeOK, Capacity, Places, Requests, Holding
<1>13. ASSUME NEW r \in Repo, Conflict(r)
       PROVE  TypeOK'
  BY <1>13 DEF Conflict, TypeOK, Capacity, Places, Requests, Holding
<1>14. ASSUME NEW r \in Repo, Delete(r)
       PROVE  TypeOK'
  BY <1>14 DEF Delete, TypeOK, Capacity, Places, Requests, Holding
<1>15. ASSUME NEW r \in Repo, Recreate(r)
       PROVE  TypeOK'
  BY <1>15 DEF Recreate, TypeOK, Capacity, Places, Requests, Holding
<1>16. ASSUME NEW r \in Repo, RequestFails(r)
       PROVE  TypeOK'
  BY <1>16 DEF RequestFails, Lost, Refused, TypeOK, Capacity, Places,
     Requests, Holding
<1>17. ASSUME NEW r \in Repo, Sample(r)
       PROVE  TypeOK'
  BY <1>17 DEF Sample, TypeOK, Capacity, Places, Requests, Holding
<1>18. ASSUME NEW r \in Repo, NewListener(r)
       PROVE  TypeOK'
  BY <1>18 DEF NewListener, TypeOK, Capacity, Places, Requests, Holding
<1>19. ASSUME NEW r \in Repo, NewListenerFails(r)
       PROVE  TypeOK'
  BY <1>19 DEF NewListenerFails, TypeOK, Capacity, Places, Requests, Holding
<1>20. ASSUME NEW r \in Repo, Register(r)
       PROVE  TypeOK'
  BY <1>20 DEF Register, TypeOK, Capacity, Places, Requests, Holding,
     CapacityInv, MuFree
<1>21. ASSUME NEW r \in Repo, ListenerReturns(r)
       PROVE  TypeOK'
  BY <1>21 DEF ListenerReturns, TypeOK, Capacity, Places, Requests, Holding
<1>22. ASSUME NEW r \in Repo, Unregister(r)
       PROVE  TypeOK'
  BY <1>22 DEF Unregister, TypeOK, Capacity, Places, Requests, Holding,
     CapacityInv, MuFree
<1>23. ASSUME NEW r \in Repo, Close(r)
       PROVE  TypeOK'
  BY <1>23 DEF Close, TypeOK, Capacity, Places, Requests, Holding
<1>24. ASSUME NEW r \in Repo, Report(r)
       PROVE  TypeOK'
  BY <1>24, RepoCount DEF Report, TypeOK, Capacity, Places, Requests,
     Holding, ErrChCapacity
<1>25. ASSUME NEW c \in Count, SetMaxRunners(c)
       PROVE  TypeOK'
  BY <1>25 DEF SetMaxRunners, TypeOK, Capacity, Places, Requests, Holding,
     CapacityInv, MuFree
<1>26. ASSUME ResizeSemaphore
       PROVE  TypeOK'
  BY <1>26 DEF ResizeSemaphore, TypeOK, Capacity, Places, Requests, Holding
<1>27. ASSUME NEW r \in Repo, TellListener(r)
       PROVE  TypeOK'
  BY <1>27 DEF TellListener, TypeOK, Capacity, Places, Requests, Holding
<1>28. ASSUME SetReturns
       PROVE  TypeOK'
  BY <1>28 DEF SetReturns, TypeOK, Capacity, Places, Requests, Holding
<1>29. CASE UNCHANGED vars
  BY <1>29 DEF TypeOK, Capacity, Places, Requests, Holding
<1> QED
  BY <1>1, <1>2, <1>3, <1>4, <1>5, <1>6, <1>7, <1>8, <1>9, <1>10, <1>11,
     <1>12, <1>13, <1>14, <1>15, <1>16, <1>17, <1>18, <1>19, <1>20, <1>21,
     <1>22, <1>23, <1>24, <1>25, <1>26, <1>27, <1>28, <1>29 DEF Next, RepoStep,
     SetterStep

(* Every step of a resize, and every listener that comes or goes, keeps the   *)
(* capacities in agreement.                                                   *)
LEMMA StepCapacity ==
    Inv /\ [Next]_vars => CapacityInv'
<1> SUFFICES ASSUME Inv, [Next]_vars PROVE CapacityInv'
  OBVIOUS
<1> USE DEF Inv, Goto, Unaffected, At
<1>1. ASSUME Start
      PROVE  CapacityInv'
  BY <1>1 DEF Start, TypeOK, CapacityInv, OneCapacity, MuFree, Capacity
<1>2. ASSUME PrepareFails
      PROVE  CapacityInv'
  BY <1>2 DEF PrepareFails, Exit, TypeOK, CapacityInv, OneCapacity, MuFree,
     Capacity
<1>3. ASSUME Prepare
      PROVE  CapacityInv'
  BY <1>3 DEF Prepare, TypeOK, CapacityInv, OneCapacity, MuFree, Capacity,
     SessionInv
<1>4. ASSUME RunReturns
      PROVE  CapacityInv'
  BY <1>4 DEF RunReturns, Exit, TypeOK, CapacityInv, OneCapacity, MuFree,
     Capacity
<1>5. ASSUME Shutdown
      PROVE  CapacityInv'
  BY <1>5 DEF Shutdown, TypeOK, CapacityInv, OneCapacity, MuFree, Capacity
<1>6. ASSUME Crash
      PROVE  CapacityInv'
  BY <1>6 DEF Crash, Exit, TypeOK, CapacityInv, OneCapacity, MuFree,
     Capacity
<1>7. ASSUME CalmDown
      PROVE  CapacityInv'
  BY <1>7 DEF CalmDown, TypeOK, CapacityInv, OneCapacity, MuFree, Capacity
<1>8. ASSUME NEW r \in Repo, ClientFails(r)
      PROVE  CapacityInv'
  BY <1>8 DEF ClientFails, TypeOK, CapacityInv, OneCapacity, MuFree,
     Capacity
<1>9. ASSUME NEW r \in Repo, Get(r)
      PROVE  CapacityInv'
  BY <1>9 DEF Get, TypeOK, CapacityInv, OneCapacity, MuFree, Capacity
<1>10. ASSUME NEW r \in Repo, GetFindsNone(r)
       PROVE  CapacityInv'
  BY <1>10 DEF GetFindsNone, TypeOK, CapacityInv, OneCapacity, MuFree,
     Capacity
<1>11. ASSUME NEW r \in Repo, Create(r)
       PROVE  CapacityInv'
  BY <1>11 DEF Create, TypeOK, CapacityInv, OneCapacity, MuFree, Capacity
<1>12. ASSUME NEW r \in Repo, Open(r)
       PROVE  CapacityInv'
  BY <1>12 DEF Open, TypeOK, CapacityInv, OneCapacity, MuFree, Capacity
<1>13. ASSUME NEW r \in Repo, Conflict(r)
       PROVE  CapacityInv'
  BY <1>13 DEF Conflict, TypeOK, CapacityInv, OneCapacity, MuFree, Capacity
<1>14. ASSUME NEW r \in Repo, Delete(r)
       PROVE  CapacityInv'
  BY <1>14 DEF Delete, TypeOK, CapacityInv, OneCapacity, MuFree, Capacity
<1>15. ASSUME NEW r \in Repo, Recreate(r)
       PROVE  CapacityInv'
  BY <1>15 DEF Recreate, TypeOK, CapacityInv, OneCapacity, MuFree, Capacity
<1>16. ASSUME NEW r \in Repo, RequestFails(r)
       PROVE  CapacityInv'
  BY <1>16 DEF RequestFails, Lost, Refused, TypeOK, CapacityInv,
     OneCapacity, MuFree, Capacity
<1>17. ASSUME NEW r \in Repo, Sample(r)
       PROVE  CapacityInv'
  BY <1>17 DEF Sample, TypeOK, CapacityInv, OneCapacity, MuFree, Capacity
<1>18. ASSUME NEW r \in Repo, NewListener(r)
       PROVE  CapacityInv'
  BY <1>18 DEF NewListener, TypeOK, CapacityInv, OneCapacity, MuFree,
     Capacity
<1>19. ASSUME NEW r \in Repo, NewListenerFails(r)
       PROVE  CapacityInv'
  BY <1>19 DEF NewListenerFails, TypeOK, CapacityInv, OneCapacity, MuFree,
     Capacity, SessionInv
<1>20. ASSUME NEW r \in Repo, Register(r)
       PROVE  CapacityInv'
  BY <1>20 DEF Register, TypeOK, CapacityInv, OneCapacity, MuFree, Capacity
<1>21. ASSUME NEW r \in Repo, ListenerReturns(r)
       PROVE  CapacityInv'
  BY <1>21 DEF ListenerReturns, TypeOK, CapacityInv, OneCapacity, MuFree,
     Capacity
<1>22. ASSUME NEW r \in Repo, Unregister(r)
       PROVE  CapacityInv'
  BY <1>22 DEF Unregister, TypeOK, CapacityInv, OneCapacity, MuFree,
     Capacity
<1>23. ASSUME NEW r \in Repo, Close(r)
       PROVE  CapacityInv'
  BY <1>23 DEF Close, TypeOK, CapacityInv, OneCapacity, MuFree, Capacity
<1>24. ASSUME NEW r \in Repo, Report(r)
       PROVE  CapacityInv'
  BY <1>24 DEF Report, TypeOK, CapacityInv, OneCapacity, MuFree, Capacity
<1>25. ASSUME NEW c \in Count, SetMaxRunners(c)
       PROVE  CapacityInv'
  BY <1>25 DEF SetMaxRunners, TypeOK, CapacityInv, OneCapacity, MuFree,
     Capacity
<1>26. ASSUME ResizeSemaphore
       PROVE  CapacityInv'
  BY <1>26 DEF ResizeSemaphore, TypeOK, CapacityInv, OneCapacity, MuFree,
     Capacity
<1>27. ASSUME NEW r \in Repo, TellListener(r)
       PROVE  CapacityInv'
  BY <1>27 DEF TellListener, TypeOK, CapacityInv, OneCapacity, MuFree,
     Capacity
<1>28. ASSUME SetReturns
       PROVE  CapacityInv'
  BY <1>28 DEF SetReturns, TypeOK, CapacityInv, OneCapacity, MuFree,
     Capacity
<1>29. CASE UNCHANGED vars
  BY <1>29 DEF TypeOK, CapacityInv, OneCapacity, MuFree, Capacity
<1> QED
  BY <1>1, <1>2, <1>3, <1>4, <1>5, <1>6, <1>7, <1>8, <1>9, <1>10, <1>11,
     <1>12, <1>13, <1>14, <1>15, <1>16, <1>17, <1>18, <1>19, <1>20, <1>21,
     <1>22, <1>23, <1>24, <1>25, <1>26, <1>27, <1>28, <1>29 DEF Next, RepoStep,
     SetterStep

(* Every step leaves the sessions of the listening repositories alone.        *)
LEMMA StepSession ==
    Inv /\ [Next]_vars => SessionInv'
<1> SUFFICES ASSUME Inv, [Next]_vars PROVE SessionInv'
  OBVIOUS
<1> USE DEF Inv, Goto, Unaffected, At
<1>1. ASSUME Start
      PROVE  SessionInv'
  BY <1>1 DEF Start, TypeOK, SessionInv, Requests, Holding,
     RegisteredOwnsSession
<1>2. ASSUME PrepareFails
      PROVE  SessionInv'
  BY <1>2 DEF PrepareFails, Exit, TypeOK, SessionInv, Requests, Holding,
     RegisteredOwnsSession
<1>3. ASSUME Prepare
      PROVE  SessionInv'
  BY <1>3 DEF Prepare, TypeOK, SessionInv, Requests, Holding,
     RegisteredOwnsSession
<1>4. ASSUME RunReturns
      PROVE  SessionInv'
  BY <1>4 DEF RunReturns, Exit, TypeOK, SessionInv, Requests, Holding,
     RegisteredOwnsSession
<1>5. ASSUME Shutdown
      PROVE  SessionInv'
  BY <1>5 DEF Shutdown, TypeOK, SessionInv, Requests, Holding,
     RegisteredOwnsSession
<1>6. ASSUME Crash
      PROVE  SessionInv'
  BY <1>6 DEF Crash, Exit, TypeOK, SessionInv, Requests, Holding,
     RegisteredOwnsSession
<1>7. ASSUME CalmDown
      PROVE  SessionInv'
  BY <1>7 DEF CalmDown, TypeOK, SessionInv, Requests, Holding,
     RegisteredOwnsSession
<1>8. ASSUME NEW r \in Repo, ClientFails(r)
      PROVE  SessionInv'
  BY <1>8 DEF ClientFails, TypeOK, SessionInv, Requests, Holding,
     RegisteredOwnsSession
<1>9. ASSUME NEW r \in Repo, Get(r)
      PROVE  SessionInv'
  BY <1>9 DEF Get, TypeOK, SessionInv, Requests, Holding,
     RegisteredOwnsSession
<1>10. ASSUME NEW r \in Repo, GetFindsNone(r)
       PROVE  SessionInv'
  BY <1>10 DEF GetFindsNone, TypeOK, SessionInv, Requests, Holding,
     RegisteredOwnsSession
<1>11. ASSUME NEW r \in Repo, Create(r)
       PROVE  SessionInv'
  BY <1>11 DEF Create, TypeOK, SessionInv, Requests, Holding,
     RegisteredOwnsSession
<1>12. ASSUME NEW r \in Repo, Open(r)
       PROVE  SessionInv'
  BY <1>12 DEF Open, TypeOK, SessionInv, Requests, Holding,
     RegisteredOwnsSession
<1>13. ASSUME NEW r \in Repo, Conflict(r)
       PROVE  SessionInv'
  BY <1>13 DEF Conflict, TypeOK, SessionInv, Requests, Holding,
     RegisteredOwnsSession
<1>14. ASSUME NEW r \in Repo, Delete(r)
       PROVE  SessionInv'
  BY <1>14 DEF Delete, TypeOK, SessionInv, Requests, Holding,
     RegisteredOwnsSession
<1>15. ASSUME NEW r \in Repo, Recreate(r)
       PROVE  SessionInv'
  BY <1>15 DEF Recreate, TypeOK, SessionInv, Requests, Holding,
     RegisteredOwnsSession
<1>16. ASSUME NEW r \in Repo, RequestFails(r)
       PROVE  SessionInv'
  BY <1>16 DEF RequestFails, Lost, Refused, TypeOK, SessionInv, Requests,
     Holding, RegisteredOwnsSession
<1>17. ASSUME NEW r \in Repo, Sample(r)
       PROVE  SessionInv'
  BY <1>17 DEF Sample, TypeOK, SessionInv, Requests, Holding,
     RegisteredOwnsSession
<1>18. ASSUME NEW r \in Repo, NewListener(r)
       PROVE  SessionInv'
  BY <1>18 DEF NewListener, TypeOK, SessionInv, Requests, Holding,
     RegisteredOwnsSession
<1>19. ASSUME NEW r \in Repo, NewListenerFails(r)
       PROVE  SessionInv'
  BY <1>19 DEF NewListenerFails, TypeOK, SessionInv, Requests, Holding,
     RegisteredOwnsSession
<1>20. ASSUME NEW r \in Repo, Register(r)
       PROVE  SessionInv'
  BY <1>20 DEF Register, TypeOK, SessionInv, Requests, Holding,
     RegisteredOwnsSession
<1>21. ASSUME NEW r \in Repo, ListenerReturns(r)
       PROVE  SessionInv'
  BY <1>21 DEF ListenerReturns, TypeOK, SessionInv, Requests, Holding,
     RegisteredOwnsSession
<1>22. ASSUME NEW r \in Repo, Unregister(r)
       PROVE  SessionInv'
  BY <1>22 DEF Unregister, TypeOK, SessionInv, Requests, Holding,
     RegisteredOwnsSession
<1>23. ASSUME NEW r \in Repo, Close(r)
       PROVE  SessionInv'
  BY <1>23 DEF Close, TypeOK, SessionInv, Requests, Holding,
     RegisteredOwnsSession
<1>24. ASSUME NEW r \in Repo, Report(r)
       PROVE  SessionInv'
  BY <1>24 DEF Report, TypeOK, SessionInv, Requests, Holding,
     RegisteredOwnsSession
<1>25. ASSUME NEW c \in Count, SetMaxRunners(c)
       PROVE  SessionInv'
  BY <1>25 DEF SetMaxRunners, TypeOK, SessionInv, Requests, Holding,
     RegisteredOwnsSession
<1>26. ASSUME ResizeSemaphore
       PROVE  SessionInv'
  BY <1>26 DEF ResizeSemaphore, TypeOK, SessionInv, Requests, Holding,
     RegisteredOwnsSession
<1>27. ASSUME NEW r \in Repo, TellListener(r)
       PROVE  SessionInv'
  BY <1>27 DEF TellListener, TypeOK, SessionInv, Requests, Holding,
     RegisteredOwnsSession
<1>28. ASSUME SetReturns
       PROVE  SessionInv'
  BY <1>28 DEF SetReturns, TypeOK, SessionInv, Requests, Holding,
     RegisteredOwnsSession
<1>29. CASE UNCHANGED vars
  BY <1>29 DEF TypeOK, SessionInv, Requests, Holding, RegisteredOwnsSession
<1> QED
  BY <1>1, <1>2, <1>3, <1>4, <1>5, <1>6, <1>7, <1>8, <1>9, <1>10, <1>11,
     <1>12, <1>13, <1>14, <1>15, <1>16, <1>17, <1>18, <1>19, <1>20, <1>21,
     <1>22, <1>23, <1>24, <1>25, <1>26, <1>27, <1>28, <1>29 DEF Next, RepoStep,
     SetterStep

(* The invariant holds in every reachable state.                              *)
LEMMA InvHolds == Spec => []Inv
<1>1. Inv /\ [Next]_vars => Inv'
  BY StepType, StepCapacity, StepSession DEF Inv
<1> QED
  BY <1>1, InitInv, PTL DEF Spec

(* Every variable keeps its type; no request makes a capacity less than one.  *)
THEOREM TypeCorrect == Spec => []TypeOK
BY InvHolds, PTL DEF Inv

(* Configuration, semaphore and registered listeners agree on the capacity    *)
(* whenever no resize is in progress, whatever resizes ran while a listener   *)
(* was created (orchestrator.go:310-335).                                     *)
THEOREM CapacitiesAgree == Spec => []OneCapacity
BY InvHolds, PTL DEF Inv, CapacityInv

(* A registered listener has its session, for the scale set that exists, also *)
(* when a stale one had to be replaced (orchestrator.go:267-298).             *)
THEOREM ListenersOwnSessions == Spec => []RegisteredOwnsSession
<1>1. Inv => RegisteredOwnsSession
  BY DEF Inv, TypeOK, SessionInv, RegisteredOwnsSession, Holding
<1> QED
  BY <1>1, InvHolds, PTL

(* errCh holds one error for every repository whose goroutine is done; before *)
(* Run starts the goroutines there are none.                                  *)
Reported == {r \in Repo : pc[r] = "done"}
ErrsInv ==
    /\ errs = Cardinality(Reported)
    /\ daemon # "running" => \A r \in Repo : pc[r] = "off"

(* Whoever reports finds room in errCh: the send at the end of a repository's *)
(* goroutine does not block (orchestrator.go:175-190), also when every        *)
(* repository fails and nobody receives before wg.Wait returns.               *)
ReportsFindRoom == \A r \in Repo : At(r, "report") => errs < ErrChCapacity

(* A goroutine that is done stays done, and none but Report makes one so.     *)
LEMMA ReportedKept ==
    ASSUME TypeOK, NEW r \in Repo, NEW p \in Places \ {"done"},
           pc[r] # "done", Goto(r, p)
    PROVE  Reported' = Reported
BY DEF TypeOK, Goto, Reported

(* A repository that has not reported yet leaves room for its error.          *)
LEMMA RoomLeft ==
    ASSUME ErrsInv, NEW r \in Repo, pc[r] # "done"
    PROVE  errs < ErrChCapacity
<1>1. Reported \subseteq Repo /\ Reported # Repo
  BY DEF Reported
<1>2. Cardinality(Reported) < Cardinality(Repo)
  <2>1. Cardinality(Reported) \in Nat /\ Cardinality(Reported) <= Cardinality(Repo)
    BY <1>1, FS_Subset, FS_CardinalityType
  <2>2. Cardinality(Reported) # Cardinality(Repo)
    BY <1>1, FS_Subset
  <2> QED
    BY <2>1, <2>2, RepoCount
<1> QED
  BY <1>2 DEF ErrsInv, ErrChCapacity

(* A process that ends forgets its errors and its goroutines.                 *)
LEMMA ExitErrs ==
    ASSUME Exit PROVE ErrsInv'
<1>1. Reported' = {}
  BY DEF Exit, Reported
<1> QED
  BY <1>1, FS_EmptySet DEF Exit, ErrsInv

(* A step of a repository that is not its report leaves the errors alone.     *)
LEMMA RepoErrs ==
    ASSUME Inv, ErrsInv, NEW r \in Repo, NEW p \in Places \ {"done"},
           daemon = "running", pc[r] # "done", Goto(r, p), UNCHANGED <<daemon, errs>>
    PROVE  ErrsInv'
BY ReportedKept DEF Inv, ErrsInv

(* Every step keeps the count of the errors.                                  *)
LEMMA StepErrs ==
    ASSUME Inv, ErrsInv, [Next]_vars
    PROVE  ErrsInv'
<1> USE DEF At, Unaffected, Places, Requests, Holding
<1>1. ASSUME PrepareFails \/ RunReturns \/ Crash PROVE ErrsInv'
  BY <1>1, ExitErrs DEF PrepareFails, RunReturns, Crash
<1>2. ASSUME Prepare PROVE ErrsInv'
  <2>1. Reported = {} /\ Reported' = {}
    BY <1>2 DEF Prepare, ErrsInv, Reported
  <2> QED
    BY <1>2, <2>1 DEF Prepare, ErrsInv
<1>3. ASSUME NEW r \in Repo,
             ClientFails(r) \/ Get(r) \/ GetFindsNone(r) \/ Create(r) \/ Open(r)
      PROVE  ErrsInv'
  BY <1>3, RepoErrs DEF ClientFails, Get, GetFindsNone, Create, Open
<1>4. ASSUME NEW r \in Repo, Conflict(r) \/ Delete(r) \/ Recreate(r) \/ RequestFails(r)
      PROVE  ErrsInv'
  BY <1>4, RepoErrs DEF Conflict, Delete, Recreate, RequestFails
<1>5. ASSUME NEW r \in Repo, Sample(r) \/ NewListener(r) \/ NewListenerFails(r) \/ Register(r)
      PROVE  ErrsInv'
  BY <1>5, RepoErrs DEF Sample, NewListener, NewListenerFails, Register
<1>6. ASSUME NEW r \in Repo, ListenerReturns(r) \/ Unregister(r) \/ Close(r)
      PROVE  ErrsInv'
  BY <1>6, RepoErrs DEF ListenerReturns, Unregister, Close
<1>7. ASSUME NEW r \in Repo, Report(r) PROVE ErrsInv'
  <2>1. Reported' = Reported \union {r} /\ r \notin Reported
    BY <1>7 DEF Report, Goto, Reported, Inv, TypeOK
  <2>2. IsFiniteSet(Reported)
    BY FS_Subset DEF Reported
  <2>3. Cardinality(Reported') = Cardinality(Reported) + 1
    BY <2>1, <2>2, FS_AddElement
  <2> QED
    BY <1>7, <2>3 DEF Report, ErrsInv
<1>8. ASSUME UNCHANGED <<pc, errs>>, daemon' = daemon \/ daemon' = "preparing",
             daemon' # daemon => daemon = "down"
      PROVE  ErrsInv'
  BY <1>8 DEF ErrsInv, Reported
<1>9. ASSUME Start \/ Shutdown \/ CalmDown \/ SetterStep \/ UNCHANGED vars
      PROVE  ErrsInv'
  BY <1>9, <1>8 DEF Start, Shutdown, CalmDown, SetterStep, ResizeSemaphore, SetReturns,
     TellListener
<1>10. ASSUME NEW c \in Count, SetMaxRunners(c) PROVE ErrsInv'
  BY <1>10, <1>8 DEF SetMaxRunners
<1> QED
  BY <1>1, <1>2, <1>3, <1>4, <1>5, <1>6, <1>7, <1>9, <1>10 DEF Next, RepoStep

(* No repository ever waits to report: errCh is as large as there are         *)
(* repositories, each reports once, and a daemon that starts again starts     *)
(* with an empty one (orchestrator.go:180-190).                               *)
THEOREM ErrChHasRoom == Spec => []ReportsFindRoom
<1>1. Init => ErrsInv
  <2>1. Init => Reported = {}
    BY DEF Init, Reported
  <2> QED
    BY <2>1, FS_EmptySet DEF Init, ErrsInv
<1>2. ErrsInv => ReportsFindRoom
  BY RoomLeft DEF ReportsFindRoom, At
<1> QED
  BY <1>1, <1>2, StepErrs, InvHolds, PTL DEF Spec
=============================================================================
