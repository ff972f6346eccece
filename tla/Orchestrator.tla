---------------------------- MODULE Orchestrator ----------------------------
(* The daemon of internal/orchestrator/orchestrator.go across crashes and     *)
(* restarts: Run with one runRepo goroutine per repository, the scale set and *)
(* the message session each keeps at GitHub, and SetMaxRunners, which control *)
(* requests call while listeners come and go.                                 *)
(*                                                                            *)
(* GitHub is external: a request takes effect or not, and its answer arrives  *)
(* or not.  A scale set has at most one session, a second request for one is  *)
(* a conflict, and deleting a scale set ends its session.  The runners of the *)
(* listening repositories are in module Scaler.                               *)
EXTENDS Integers, FiniteSets

CONSTANTS Repo,       \* configured repositories
          Count,      \* the counts control requests ask for
          ConfigMax,  \* max_runners of the configuration file
          StartsCalm  \* TRUE: nothing ever fails

ASSUME OrchestratorAssumption ==
    /\ Count \subseteq Int
    /\ ConfigMax \in Nat \ {0}
    /\ StartsCalm \in BOOLEAN
    /\ IsFiniteSet(Repo)

VARIABLES
    scaleSet,    \* at GitHub: repositories whose scale set exists
    session,     \* at GitHub: repositories whose scale set has a session
    daemon,      \* "down", "preparing" (Run before the goroutines), "running"
    ctxDone,     \* the daemon's context is cancelled
    pc,          \* where runRepo is
    known,       \* repositories whose ss.ID is that of the existing scale set
    errs,        \* errors waiting in errCh
    cfgMax,      \* Orchestrator.cfg.MaxRunners
    sem,         \* Semaphore.max, or NoMax while o.sem is nil
    listenerMax, \* what each listener announces as its capacity, or NoMax
    registered,  \* keys of o.scalers and o.listeners
    setter,      \* SetMaxRunners holds o.mu unless it is "idle"
    todo,        \* listeners SetMaxRunners has not told yet
    calm         \* from now on no crash and no failing request

remoteVars == <<scaleSet, session>>
repoVars == <<pc, known, errs>>
capacityVars == <<cfgMax, sem, listenerMax, registered>>
setterVars == <<setter, todo>>
vars == <<remoteVars, daemon, ctxDone, repoVars, capacityVars, setterVars, calm>>

-----------------------------------------------------------------------------
NoMax == 0

(* runRepo's requests, in their order; the critical sections that follow; and *)
(* what its deferred calls and the goroutine around it do on return.          *)
Requests == {"get", "create", "open", "delete", "recreate", "reopen"}
Holding == {"sample", "new", "register", "listening", "unregister"}
Places == {"off", "report", "done", "close"} \union Requests \union Holding

ErrChCapacityOne == 1              \* wrong: sized for one repository
ErrChCapacity == Cardinality(Repo)

MuFree == setter = "idle"                   \* o.mu can be locked

At(r, p) == daemon = "running" /\ pc[r] = p
Goto(r, p) == pc' = [pc EXCEPT ![r] = p]

(* The state of a process that does not run, and of one that just started.    *)
Exit ==
    /\ daemon' = "down"
    /\ pc' = [r \in Repo |-> "off"]
    /\ known' = {}
    /\ errs' = 0
    /\ ctxDone' = FALSE
    /\ cfgMax' = ConfigMax
    /\ sem' = NoMax
    /\ listenerMax' = [r \in Repo |-> NoMax]
    /\ registered' = {}
    /\ setter' = "idle"
    /\ todo' = {}

Init ==
    /\ scaleSet = {}
    /\ session = {}
    /\ daemon = "down"
    /\ pc = [r \in Repo |-> "off"]
    /\ known = {}
    /\ errs = 0
    /\ ctxDone = FALSE
    /\ cfgMax = ConfigMax
    /\ sem = NoMax
    /\ listenerMax = [r \in Repo |-> NoMax]
    /\ registered = {}
    /\ setter = "idle"
    /\ todo = {}
    /\ calm = StartsCalm

-----------------------------------------------------------------------------
(* The process and Run.                                                       *)
Start ==
    /\ daemon = "down"
    /\ daemon' = "preparing"
    /\ UNCHANGED <<remoteVars, ctxDone, repoVars, capacityVars, setterVars, calm>>

(* Reconcile or the runner download fails, and with it Run.                   *)
PrepareFails ==
    /\ daemon = "preparing"
    /\ ~calm \/ ctxDone
    /\ Exit
    /\ UNCHANGED <<remoteVars, calm>>

Prepare ==
    /\ daemon = "preparing"
    /\ MuFree
    /\ daemon' = "running"
    /\ sem' = cfgMax
    /\ pc' = [r \in Repo |-> "get"]
    /\ UNCHANGED <<remoteVars, ctxDone, known, errs, cfgMax, listenerMax,
                   registered, setterVars, calm>>

(* wg.Wait returns, and the process ends with the first error, if any.        *)
RunReturns ==
    /\ daemon = "running"
    /\ \A r \in Repo : pc[r] = "done"
    /\ Exit
    /\ UNCHANGED <<remoteVars, calm>>

Shutdown ==
    /\ daemon # "down"
    /\ ctxDone' = TRUE
    /\ UNCHANGED <<remoteVars, daemon, repoVars, capacityVars, setterVars, calm>>

Crash ==
    /\ daemon # "down"
    /\ ~calm
    /\ Exit
    /\ UNCHANGED <<remoteVars, calm>>

CalmDown ==
    /\ ~calm
    /\ calm' = TRUE
    /\ UNCHANGED <<remoteVars, daemon, ctxDone, repoVars, capacityVars, setterVars>>

-----------------------------------------------------------------------------
(* runRepo: requests to GitHub.  A request that fails returns from runRepo.   *)
Unaffected == UNCHANGED <<daemon, ctxDone, errs, capacityVars, setterVars, calm>>

(* NewScaleSetClient fails (no token), or GetRunnerScaleSet finds the scale   *)
(* set, or finds none or fails, which the code treats alike.                  *)
ClientFails(r) ==
    /\ At(r, "get")
    /\ ~calm
    /\ Goto(r, "report")
    /\ Unaffected /\ UNCHANGED <<remoteVars, known>>

Get(r) ==
    /\ At(r, "get")
    /\ ~ctxDone
    /\ r \in scaleSet
    /\ known' = known \union {r}
    /\ Goto(r, "open")
    /\ Unaffected /\ UNCHANGED remoteVars

GetFindsNone(r) ==
    /\ At(r, "get")
    /\ r \notin scaleSet \/ ctxDone \/ ~calm
    /\ Goto(r, "create")
    /\ Unaffected /\ UNCHANGED <<remoteVars, known>>

Create(r) ==
    /\ At(r, "create")
    /\ ~ctxDone
    /\ r \notin scaleSet
    /\ scaleSet' = scaleSet \union {r}
    /\ known' = known \union {r}
    /\ Goto(r, "open")
    /\ Unaffected /\ UNCHANGED session

(* A request for a session succeeds on a known scale set without one.         *)
Open(r) ==
    /\ At(r, "open") \/ At(r, "reopen")
    /\ ~ctxDone
    /\ r \in known \ session
    /\ session' = session \union {r}
    /\ Goto(r, "sample")
    /\ Unaffected /\ UNCHANGED <<scaleSet, known>>

Conflict(r) ==
    /\ At(r, "open")
    /\ ~ctxDone
    /\ r \in session
    /\ Goto(r, "delete")
    /\ Unaffected /\ UNCHANGED <<remoteVars, known>>

Delete(r) ==
    /\ At(r, "delete")
    /\ ~ctxDone
    /\ scaleSet' = scaleSet \ {r}
    /\ session' = session \ {r}
    /\ known' = known \ {r}
    /\ Goto(r, "recreate")
    /\ Unaffected

RecreateKeepsId(r) == \* wrong: goes on with the deleted scale set's ID
    /\ At(r, "recreate")
    /\ ~ctxDone
    /\ scaleSet' = scaleSet \union {r}
    /\ Goto(r, "reopen")
    /\ Unaffected /\ UNCHANGED <<session, known>>

Recreate(r) ==
    /\ At(r, "recreate")
    /\ ~ctxDone
    /\ scaleSet' = scaleSet \union {r}
    /\ known' = known \union {r}
    /\ Goto(r, "reopen")
    /\ Unaffected /\ UNCHANGED session

(* The request fails: without effect, or with the effect but no answer.  It   *)
(* also fails when GitHub refuses it: a name that exists, an ID that does not.*)
Refused(r) ==
    \/ pc[r] = "create" /\ r \in scaleSet
    \/ pc[r] \in {"open", "reopen"} /\ r \notin known

Lost(r) ==
    \/ /\ pc[r] \in {"create", "recreate"}
       /\ scaleSet' = scaleSet \union {r}
       /\ UNCHANGED session
    \/ /\ pc[r] \in {"open", "reopen"} /\ r \in known
       /\ session' = session \union {r}
       /\ UNCHANGED scaleSet
    \/ /\ pc[r] = "delete"
       /\ scaleSet' = scaleSet \ {r}
       /\ session' = session \ {r}

RequestFails(r) ==
    /\ daemon = "running"
    /\ pc[r] \in Requests \ {"get"}
    /\ \/ /\ ~calm \/ ctxDone \/ Refused(r)
          /\ UNCHANGED remoteVars
       \/ /\ ~calm
          /\ Lost(r)
    /\ Goto(r, "report")
    /\ known' = known \ {r}
    /\ Unaffected

-----------------------------------------------------------------------------
(* runRepo: from the session to its return.                                   *)
Sample(r) ==
    /\ At(r, "sample")
    /\ MuFree
    /\ listenerMax' = [listenerMax EXCEPT ![r] = cfgMax]
    /\ Goto(r, "new")
    /\ UNCHANGED <<remoteVars, daemon, ctxDone, known, errs, cfgMax, sem,
                   registered, setterVars, calm>>

NewListener(r) ==
    /\ At(r, "new")
    /\ Goto(r, "register")
    /\ Unaffected /\ UNCHANGED <<remoteVars, known>>

NewListenerFails(r) ==
    /\ At(r, "new")
    /\ ~calm
    /\ listenerMax' = [listenerMax EXCEPT ![r] = NoMax]
    /\ Goto(r, "close")
    /\ UNCHANGED <<remoteVars, daemon, ctxDone, known, errs, cfgMax, sem,
                   registered, setterVars, calm>>

RegisterAsSampled(r) == \* wrong: takes the maximum as it was sampled
    /\ At(r, "register")
    /\ MuFree
    /\ registered' = registered \union {r}
    /\ Goto(r, "listening")
    /\ UNCHANGED <<remoteVars, daemon, ctxDone, known, errs, cfgMax, sem,
                   listenerMax, setterVars, calm>>

Register(r) ==
    /\ At(r, "register")
    /\ MuFree
    /\ listenerMax' = [listenerMax EXCEPT ![r] = cfgMax]
    /\ registered' = registered \union {r}
    /\ Goto(r, "listening")
    /\ UNCHANGED <<remoteVars, daemon, ctxDone, known, errs, cfgMax, sem,
                   setterVars, calm>>

ListenerReturnsClosing(r) == \* wrong: closes the session while registered
    /\ At(r, "listening")
    /\ ~calm \/ ctxDone
    /\ Goto(r, "unregister")
    /\ session' = session \ {r}
    /\ Unaffected /\ UNCHANGED <<scaleSet, known>>

(* l.Run ends with the context, or because polling or a callback failed.      *)
ListenerReturns(r) ==
    /\ At(r, "listening")
    /\ ~calm \/ ctxDone
    /\ Goto(r, "unregister")
    /\ Unaffected /\ UNCHANGED <<remoteVars, known>>

Unregister(r) ==
    /\ At(r, "unregister")
    /\ MuFree
    /\ registered' = registered \ {r}
    /\ listenerMax' = [listenerMax EXCEPT ![r] = NoMax]
    /\ Goto(r, "close")
    /\ UNCHANGED <<remoteVars, daemon, ctxDone, known, errs, cfgMax, sem,
                   setterVars, calm>>

(* sessionClient.Close(ctx): a request with a cancelled context is not sent.  *)
(* Its error is ignored.                                                      *)
Close(r) ==
    /\ At(r, "close")
    /\ \/ ~ctxDone /\ session' = session \ {r}
       \/ (ctxDone \/ ~calm) /\ UNCHANGED session
    /\ known' = known \ {r}
    /\ Goto(r, "report")
    /\ Unaffected /\ UNCHANGED scaleSet

(* runRepo has failed, or l.Run has returned ctx.Err(): an error either way.  *)
Report(r) ==
    /\ At(r, "report")
    /\ errs < ErrChCapacity
    /\ errs' = errs + 1
    /\ Goto(r, "done")
    /\ UNCHANGED <<remoteVars, daemon, ctxDone, known, capacityVars, setterVars, calm>>

-----------------------------------------------------------------------------
(* SetMaxRunners, under o.mu throughout: the configuration, the semaphore and *)
(* the listeners one by one.                                                  *)
SetWithoutCheck(c) == \* wrong: accepts any count
    /\ daemon # "down"
    /\ MuFree
    /\ cfgMax' = c
    /\ setter' = "resize"
    /\ UNCHANGED <<remoteVars, daemon, ctxDone, repoVars, sem, listenerMax,
                   registered, todo, calm>>

SetMaxRunners(c) ==
    /\ daemon # "down"
    /\ c >= 1
    /\ MuFree
    /\ cfgMax' = c
    /\ setter' = "resize"
    /\ UNCHANGED <<remoteVars, daemon, ctxDone, repoVars, sem, listenerMax,
                   registered, todo, calm>>

ResizeSemaphore ==
    /\ setter = "resize"
    /\ sem' = IF sem = NoMax THEN NoMax ELSE cfgMax
    /\ setter' = "listeners"
    /\ todo' = registered
    /\ UNCHANGED <<remoteVars, daemon, ctxDone, repoVars, cfgMax, listenerMax,
                   registered, calm>>

TellListener(r) ==
    /\ r \in todo
    /\ listenerMax' = [listenerMax EXCEPT ![r] = cfgMax]
    /\ todo' = todo \ {r}
    /\ UNCHANGED <<remoteVars, daemon, ctxDone, repoVars, cfgMax, sem,
                   registered, setter, calm>>

SetReturns ==
    /\ setter = "listeners"
    /\ todo = {}
    /\ setter' = "idle"
    /\ UNCHANGED <<remoteVars, daemon, ctxDone, repoVars, capacityVars, todo, calm>>

-----------------------------------------------------------------------------
RepoStep(r) ==
    \/ ClientFails(r) \/ Get(r) \/ GetFindsNone(r) \/ Create(r)
    \/ Open(r) \/ Conflict(r) \/ Delete(r) \/ Recreate(r) \/ RequestFails(r)
    \/ Sample(r) \/ NewListener(r) \/ NewListenerFails(r) \/ Register(r)
    \/ ListenerReturns(r) \/ Unregister(r) \/ Close(r) \/ Report(r)

SetterStep ==
    ResizeSemaphore \/ SetReturns \/ \E r \in Repo : TellListener(r)

Next ==
    \/ Start \/ PrepareFails \/ Prepare \/ RunReturns
    \/ Shutdown \/ Crash \/ CalmDown
    \/ \E r \in Repo : RepoStep(r)
    \/ \E c \in Count : SetMaxRunners(c)
    \/ SetterStep

Spec == Init /\ [][Next]_vars

(* Goroutines that can run do run.  o.mu is contended by requests to resize;  *)
(* sync.Mutex does not starve, hence SF.                                      *)
FairSpec ==
    /\ Spec
    /\ \A r \in Repo : SF_vars(RepoStep(r))
    /\ SF_vars(Prepare \/ PrepareFails) /\ WF_vars(RunReturns) /\ WF_vars(SetterStep)

-----------------------------------------------------------------------------
(* Every variable keeps its type; in particular the semaphore and the         *)
(* listeners never get a capacity below one.                                  *)
Capacity == Nat \ {0}
TypeOK ==
    /\ session \subseteq scaleSet /\ scaleSet \subseteq Repo
    /\ daemon \in {"down", "preparing", "running"}
    /\ ctxDone \in BOOLEAN
    /\ pc \in [Repo -> Places]
    /\ known \subseteq scaleSet
    /\ errs \in 0 .. Cardinality(Repo)
    /\ cfgMax \in Capacity
    /\ sem \in Capacity \union {NoMax}
    /\ listenerMax \in [Repo -> Capacity \union {NoMax}]
    /\ registered \subseteq Repo
    /\ setter \in {"idle", "resize", "listeners"}
    /\ todo \subseteq registered
    /\ calm \in BOOLEAN

(* Whenever o.mu is free, the configuration, the semaphore and every          *)
(* registered listener agree on the capacity, whatever resizes happened while *)
(* a listener was being created (orchestrator.go:310-335).                    *)
OneCapacity ==
    MuFree => /\ sem # NoMax => sem = cfgMax
              /\ \A r \in registered : listenerMax[r] = cfgMax

(* A registered listener polls with a session that GitHub has, for the scale  *)
(* set that exists, even after a conflict made the daemon recreate it; the    *)
(* deferred calls close the session only after the listener is unregistered.  *)
RegisteredOwnsSession ==
    \A r \in registered : r \in session /\ r \in known

(* README.md:318-320: if nothing fails any more, a repository gets to listen  *)
(* after a start, stale session or not, unless the daemon is told to stop.    *)
StaleSessionRecovered ==
    \A r \in Repo : (calm /\ At(r, "get")) ~> (At(r, "listening") \/ ctxDone)

(* A daemon told to stop gets to return from Run, whatever each repository is *)
(* doing and even if all fail: no goroutine blocks on errCh or on o.mu.       *)
ShutdownReturns == ctxDone ~> daemon = "down"

(* README.md:320 has a stale session come from a crash.  If nothing fails, a  *)
(* daemon that is not running has left none.                                  *)
StaleOnlyAfterCrash == (StartsCalm /\ daemon = "down") => session = {}
=============================================================================
