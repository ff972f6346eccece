------------------------- MODULE ControlSocketProofs -------------------------
(* Proofs about module ControlSocket, for any daemons and clients.            *)
EXTENDS ControlSocket, TLAPS

USE ControlSocketAssumption
USE DEF ControlSocketAssumption, serverVars, clientVars, vars, Requests, Up, At, Go, StopAt,
        Answer, Outside, Inside, CloseListener

(* One daemon at a time has the socket from its Listen on.  It publishes its  *)
(* listener later, so that nothing closes it before, and from then on only    *)
(* when its context is done.                                                  *)
SocketInv ==
    /\ \A d, e \in Daemon : Up(d) /\ Up(e) => d = e
    /\ \A d \in Daemon :
        Up(d) /\ srv[d] \in {"stat", "dial", "remove", "listen", "chmod", "publish"} =>
            d \notin published
    /\ \A d \in Daemon :
        (main[d] = "running" /\ srv[d] \in {"chmod", "publish"}) => path = d
    /\ \A d \in Daemon :
        (main[d] = "running" /\ srv[d] \in {"tcp", "accept"} /\ d \notin ctxDone) => path = d

LEMMA InitTypes == Init => TypeOK
<1> SUFFICES ASSUME Init PROVE TypeOK
  OBVIOUS
<1> USE DEF Init
<1>1. /\ main \in [Daemon -> {"down", "running", "stopping", "removing", "exiting"}]
      /\ srv \in [Daemon -> {"off", "stat", "dial", "remove", "listen", "chmod", "publish",
                             "tcp", "accept", "ended", "failed"}]
  OBVIOUS
<1>2. /\ conn \in [Client -> {"idle", "queued", "open", "sent", "handled", "answered", "failed"}]
      /\ peer \in [Client -> Daemon \union {None}] /\ request \in [Client -> Requests]
      /\ \A c \in Client : conn[c] = "idle"
  OBVIOUS
<1> QED
  BY <1>1, <1>2 DEF TypeOK

(* Every step keeps the types.                                                *)
LEMMA StepType ==
    ASSUME TypeOK, [Next]_vars
    PROVE  TypeOK'
<1> USE DEF TypeOK, Listened
<1>1. ASSUME CalmDown PROVE TypeOK'
  BY <1>1 DEF CalmDown
<1>2. ASSUME NEW d \in Daemon, StartDaemon(d) PROVE TypeOK'
  BY <1>2 DEF StartDaemon
<1>3. ASSUME NEW d \in Daemon, Signal(d) PROVE TypeOK'
  BY <1>3 DEF Signal
<1>4. ASSUME NEW d \in Daemon, RunReturns(d) PROVE TypeOK'
  BY <1>4 DEF RunReturns
<1>5. ASSUME NEW d \in Daemon, StopListeners(d) PROVE TypeOK'
  BY <1>5 DEF StopListeners
<1>6. ASSUME NEW d \in Daemon, RemoveSocket(d) PROVE TypeOK'
  BY <1>6 DEF RemoveSocket
<1>7. ASSUME NEW d \in Daemon, ExitAfterStop(d) PROVE TypeOK'
  BY <1>7 DEF ExitAfterStop, Exit
<1>8. ASSUME NEW d \in Daemon, Crash(d) PROVE TypeOK'
  BY <1>8 DEF Crash, Exit
<1>9. ASSUME NEW d \in Daemon, StatSocket(d) PROVE TypeOK'
  BY <1>9 DEF StatSocket
<1>10. ASSUME NEW d \in Daemon, DialSocket(d) PROVE TypeOK'
  BY <1>10 DEF DialSocket
<1>11. ASSUME NEW d \in Daemon, RemoveStale(d) PROVE TypeOK'
  BY <1>11 DEF RemoveStale
<1>12. ASSUME NEW d \in Daemon, Listen(d) PROVE TypeOK'
  BY <1>12 DEF Listen
<1>13. ASSUME NEW d \in Daemon, Chmod(d) PROVE TypeOK'
  BY <1>13 DEF Chmod
<1>14. ASSUME NEW d \in Daemon, Publish(d) PROVE TypeOK'
  BY <1>14 DEF Publish
<1>15. ASSUME NEW d \in Daemon, ListenTcp(d) PROVE TypeOK'
  BY <1>15 DEF ListenTcp
<1>16. ASSUME NEW d \in Daemon, CloseOnDone(d) PROVE TypeOK'
  BY <1>16 DEF CloseOnDone
<1>17. ASSUME NEW d \in Daemon, AcceptLoopEnds(d) PROVE TypeOK'
  BY <1>17 DEF AcceptLoopEnds
<1>18. ASSUME NEW d \in Daemon, AcceptError(d) PROVE TypeOK'
  BY <1>18 DEF AcceptError
<1>19. ASSUME NEW c \in Client, Connect(c) PROVE TypeOK'
  BY <1>19 DEF Connect
<1>20. ASSUME NEW c \in Client, Accept(c) PROVE TypeOK'
  BY <1>20 DEF Accept
<1>21. ASSUME NEW c \in Client, QueueDropped(c) PROVE TypeOK'
  BY <1>21 DEF QueueDropped
<1>22. ASSUME NEW c \in Client, Send(c) PROVE TypeOK'
  BY <1>22 DEF Send
<1>23. ASSUME NEW c \in Client, Handle(c) PROVE TypeOK'
  BY <1>23 DEF Handle
<1>24. ASSUME NEW c \in Client, Reply(c) PROVE TypeOK'
  BY <1>24 DEF Reply
<1>25. ASSUME NEW c \in Client, Deadline(c) PROVE TypeOK'
  BY <1>25 DEF Deadline
<1>26. ASSUME NEW c \in Client, Again(c) PROVE TypeOK'
  BY <1>26 DEF Again
<1>27. CASE UNCHANGED vars
  BY <1>27
<1> QED
  BY <1>1, <1>2, <1>3, <1>4, <1>5, <1>6, <1>7, <1>8, <1>9, <1>10, <1>11,
     <1>12, <1>13, <1>14, <1>15, <1>16, <1>17, <1>18, <1>19, <1>20, <1>21,
     <1>22, <1>23, <1>24, <1>25, <1>26, <1>27
     DEF Next, ServerStep, MainStep, ConnStep

(* Without an overlap, no step takes the socket from a daemon that serves.    *)
LEMMA StepSocket ==
    ASSUME ~ Overlap, TypeOK, SocketInv, [Next]_vars
    PROVE  SocketInv'
<1> USE DEF TypeOK, SocketInv
<1>1. ASSUME CalmDown PROVE SocketInv'
  BY <1>1 DEF CalmDown
<1>2. ASSUME NEW d \in Daemon, StartDaemon(d) PROVE SocketInv'
  BY <1>2 DEF StartDaemon
<1>3. ASSUME NEW d \in Daemon, Signal(d) PROVE SocketInv'
  BY <1>3 DEF Signal
<1>4. ASSUME NEW d \in Daemon, RunReturns(d) PROVE SocketInv'
  BY <1>4 DEF RunReturns
<1>5. ASSUME NEW d \in Daemon, StopListeners(d) PROVE SocketInv'
  BY <1>5 DEF StopListeners
<1>6. ASSUME NEW d \in Daemon, RemoveSocket(d) PROVE SocketInv'
  BY <1>6 DEF RemoveSocket
<1>7. ASSUME NEW d \in Daemon, ExitAfterStop(d) PROVE SocketInv'
  BY <1>7 DEF ExitAfterStop, Exit
<1>8. ASSUME NEW d \in Daemon, Crash(d) PROVE SocketInv'
  BY <1>8 DEF Crash, Exit
<1>9. ASSUME NEW d \in Daemon, StatSocket(d) PROVE SocketInv'
  BY <1>9 DEF StatSocket
<1>10. ASSUME NEW d \in Daemon, DialSocket(d) PROVE SocketInv'
  BY <1>10 DEF DialSocket
<1>11. ASSUME NEW d \in Daemon, RemoveStale(d) PROVE SocketInv'
  BY <1>11 DEF RemoveStale
<1>12. ASSUME NEW d \in Daemon, Listen(d) PROVE SocketInv'
  BY <1>12 DEF Listen
<1>13. ASSUME NEW d \in Daemon, Chmod(d) PROVE SocketInv'
  BY <1>13 DEF Chmod
<1>14. ASSUME NEW d \in Daemon, Publish(d) PROVE SocketInv'
  BY <1>14 DEF Publish
<1>15. ASSUME NEW d \in Daemon, ListenTcp(d) PROVE SocketInv'
  BY <1>15 DEF ListenTcp
<1>16. ASSUME NEW d \in Daemon, CloseOnDone(d) PROVE SocketInv'
  BY <1>16 DEF CloseOnDone
<1>17. ASSUME NEW d \in Daemon, AcceptLoopEnds(d) PROVE SocketInv'
  BY <1>17 DEF AcceptLoopEnds
<1>18. ASSUME NEW d \in Daemon, AcceptError(d) PROVE SocketInv'
  BY <1>18 DEF AcceptError
<1>19. ASSUME NEW c \in Client, Connect(c) \/ ConnStep(c) \/ Again(c) PROVE SocketInv'
  <2>1. UNCHANGED <<main, serverVars>> /\ ctxDone \subseteq ctxDone'
    BY <1>19 DEF Connect, ConnStep, Accept, QueueDropped, Send, Handle, Reply, Deadline, Again
  <2> QED
    BY <2>1
<1>20. CASE UNCHANGED vars
  BY <1>20
<1> QED
  BY <1>1, <1>2, <1>3, <1>4, <1>5, <1>6, <1>7, <1>8, <1>9, <1>10, <1>11,
     <1>12, <1>13, <1>14, <1>15, <1>16, <1>17, <1>18, <1>19, <1>20
     DEF Next, ServerStep, MainStep, ConnStep

(* Every variable keeps its type, however daemons overlap.                    *)
THEOREM TypeCorrect == Spec => []TypeOK
BY InitTypes, StepType, PTL DEF Spec

(* Listeners and connections belong to processes that run.                    *)
OwnedByRunning ==
    /\ \A d \in listening \union tcpOpen : Up(d)
    /\ \A c \in Client : peer[c] # None => Up(peer[c])

(* A start gets through checkStaleSocket, net.Listen, os.Chmod and the TCP    *)
(* listener unless something fails or the daemon stops: what a crash left     *)
(* behind never refuses it (server.go:97-130, 277-292).                       *)
StartIsNotRefused ==
    [][\A d \in Daemon :
          (srv'[d] = "failed" /\ srv[d] # "failed") => (~ calm \/ main[d] # "running")]_vars

(* Before its listeners are open a daemon has none of its own; without an     *)
(* overlap there are then no others, and the socket file is what its start    *)
(* has last made of it.                                                       *)
StartInv ==
    \A d \in Daemon : Up(d) =>
        /\ srv[d] \in {"stat", "dial", "remove", "listen"} => d \notin listening
        /\ srv[d] \in {"stat", "dial", "remove", "listen", "chmod", "publish", "tcp"} =>
              d \notin tcpOpen
        /\ (main[d] = "running" /\ srv[d] \in {"dial", "remove"}) => path # None
        /\ (main[d] = "running" /\ srv[d] = "listen") => path = None

(* A process that ends takes its listeners and connections with it, and no    *)
(* other step gives any to a process that does not run.                       *)
LEMMA StepOwned ==
    ASSUME TypeOK, OwnedByRunning, [Next]_vars
    PROVE  OwnedByRunning'
<1> USE DEF TypeOK, OwnedByRunning, Listened
<1>1. ASSUME CalmDown PROVE OwnedByRunning'
  BY <1>1 DEF CalmDown
<1>2. ASSUME NEW d \in Daemon, StartDaemon(d) PROVE OwnedByRunning'
  BY <1>2 DEF StartDaemon
<1>3. ASSUME NEW d \in Daemon, Signal(d) PROVE OwnedByRunning'
  BY <1>3 DEF Signal
<1>4. ASSUME NEW d \in Daemon, RunReturns(d) PROVE OwnedByRunning'
  BY <1>4 DEF RunReturns
<1>5. ASSUME NEW d \in Daemon, StopListeners(d) PROVE OwnedByRunning'
  BY <1>5 DEF StopListeners
<1>6. ASSUME NEW d \in Daemon, RemoveSocket(d) PROVE OwnedByRunning'
  BY <1>6 DEF RemoveSocket
<1>7. ASSUME NEW d \in Daemon, ExitAfterStop(d) PROVE OwnedByRunning'
  BY <1>7 DEF ExitAfterStop, Exit
<1>8. ASSUME NEW d \in Daemon, Crash(d) PROVE OwnedByRunning'
  BY <1>8 DEF Crash, Exit
<1>9. ASSUME NEW d \in Daemon, StatSocket(d) PROVE OwnedByRunning'
  BY <1>9 DEF StatSocket
<1>10. ASSUME NEW d \in Daemon, DialSocket(d) PROVE OwnedByRunning'
  BY <1>10 DEF DialSocket
<1>11. ASSUME NEW d \in Daemon, RemoveStale(d) PROVE OwnedByRunning'
  BY <1>11 DEF RemoveStale
<1>12. ASSUME NEW d \in Daemon, Listen(d) PROVE OwnedByRunning'
  BY <1>12 DEF Listen
<1>13. ASSUME NEW d \in Daemon, Chmod(d) PROVE OwnedByRunning'
  BY <1>13 DEF Chmod
<1>14. ASSUME NEW d \in Daemon, Publish(d) PROVE OwnedByRunning'
  BY <1>14 DEF Publish
<1>15. ASSUME NEW d \in Daemon, ListenTcp(d) PROVE OwnedByRunning'
  BY <1>15 DEF ListenTcp
<1>16. ASSUME NEW d \in Daemon, CloseOnDone(d) PROVE OwnedByRunning'
  BY <1>16 DEF CloseOnDone
<1>17. ASSUME NEW d \in Daemon, AcceptLoopEnds(d) PROVE OwnedByRunning'
  BY <1>17 DEF AcceptLoopEnds
<1>18. ASSUME NEW d \in Daemon, AcceptError(d) PROVE OwnedByRunning'
  BY <1>18 DEF AcceptError
<1>19. ASSUME NEW c \in Client, Connect(c) PROVE OwnedByRunning'
  BY <1>19 DEF Connect
<1>20. ASSUME NEW c \in Client, Accept(c) PROVE OwnedByRunning'
  BY <1>20 DEF Accept
<1>21. ASSUME NEW c \in Client, QueueDropped(c) PROVE OwnedByRunning'
  BY <1>21 DEF QueueDropped
<1>22. ASSUME NEW c \in Client, Send(c) PROVE OwnedByRunning'
  BY <1>22 DEF Send
<1>23. ASSUME NEW c \in Client, Handle(c) PROVE OwnedByRunning'
  BY <1>23 DEF Handle
<1>24. ASSUME NEW c \in Client, Reply(c) PROVE OwnedByRunning'
  BY <1>24 DEF Reply
<1>25. ASSUME NEW c \in Client, Deadline(c) PROVE OwnedByRunning'
  BY <1>25 DEF Deadline
<1>26. ASSUME NEW c \in Client, Again(c) PROVE OwnedByRunning'
  BY <1>26 DEF Again
<1>27. CASE UNCHANGED vars
  BY <1>27
<1> QED
  BY <1>1, <1>2, <1>3, <1>4, <1>5, <1>6, <1>7, <1>8, <1>9, <1>10, <1>11,
     <1>12, <1>13, <1>14, <1>15, <1>16, <1>17, <1>18, <1>19, <1>20, <1>21,
     <1>22, <1>23, <1>24, <1>25, <1>26, <1>27
     DEF Next, ServerStep, MainStep, ConnStep

(* The context of a daemon that runs stays done once it is, and only a        *)
(* request to shut down gets to "handled".                                    *)
LEMMA StepAccepted ==
    ASSUME TypeOK, OwnedByRunning, StopIsAccepted, [Next]_vars
    PROVE  StopIsAccepted'
<1> USE DEF TypeOK, OwnedByRunning, StopIsAccepted, Listened
<1>1. ASSUME CalmDown PROVE StopIsAccepted'
  BY <1>1 DEF CalmDown
<1>2. ASSUME NEW d \in Daemon, StartDaemon(d) PROVE StopIsAccepted'
  BY <1>2 DEF StartDaemon
<1>3. ASSUME NEW d \in Daemon, Signal(d) PROVE StopIsAccepted'
  BY <1>3 DEF Signal
<1>4. ASSUME NEW d \in Daemon, RunReturns(d) PROVE StopIsAccepted'
  BY <1>4 DEF RunReturns
<1>5. ASSUME NEW d \in Daemon, StopListeners(d) PROVE StopIsAccepted'
  BY <1>5 DEF StopListeners
<1>6. ASSUME NEW d \in Daemon, RemoveSocket(d) PROVE StopIsAccepted'
  BY <1>6 DEF RemoveSocket
<1>7. ASSUME NEW d \in Daemon, ExitAfterStop(d) PROVE StopIsAccepted'
  BY <1>7 DEF ExitAfterStop, Exit
<1>8. ASSUME NEW d \in Daemon, Crash(d) PROVE StopIsAccepted'
  BY <1>8 DEF Crash, Exit
<1>9. ASSUME NEW d \in Daemon, StatSocket(d) PROVE StopIsAccepted'
  BY <1>9 DEF StatSocket
<1>10. ASSUME NEW d \in Daemon, DialSocket(d) PROVE StopIsAccepted'
  BY <1>10 DEF DialSocket
<1>11. ASSUME NEW d \in Daemon, RemoveStale(d) PROVE StopIsAccepted'
  BY <1>11 DEF RemoveStale
<1>12. ASSUME NEW d \in Daemon, Listen(d) PROVE StopIsAccepted'
  BY <1>12 DEF Listen
<1>13. ASSUME NEW d \in Daemon, Chmod(d) PROVE StopIsAccepted'
  BY <1>13 DEF Chmod
<1>14. ASSUME NEW d \in Daemon, Publish(d) PROVE StopIsAccepted'
  BY <1>14 DEF Publish
<1>15. ASSUME NEW d \in Daemon, ListenTcp(d) PROVE StopIsAccepted'
  BY <1>15 DEF ListenTcp
<1>16. ASSUME NEW d \in Daemon, CloseOnDone(d) PROVE StopIsAccepted'
  BY <1>16 DEF CloseOnDone
<1>17. ASSUME NEW d \in Daemon, AcceptLoopEnds(d) PROVE StopIsAccepted'
  BY <1>17 DEF AcceptLoopEnds
<1>18. ASSUME NEW d \in Daemon, AcceptError(d) PROVE StopIsAccepted'
  BY <1>18 DEF AcceptError
<1>19. ASSUME NEW c \in Client, Connect(c) PROVE StopIsAccepted'
  BY <1>19 DEF Connect
<1>20. ASSUME NEW c \in Client, Accept(c) PROVE StopIsAccepted'
  BY <1>20 DEF Accept
<1>21. ASSUME NEW c \in Client, QueueDropped(c) PROVE StopIsAccepted'
  BY <1>21 DEF QueueDropped
<1>22. ASSUME NEW c \in Client, Send(c) PROVE StopIsAccepted'
  BY <1>22 DEF Send
<1>23. ASSUME NEW c \in Client, Handle(c) PROVE StopIsAccepted'
  BY <1>23 DEF Handle
<1>24. ASSUME NEW c \in Client, Reply(c) PROVE StopIsAccepted'
  BY <1>24 DEF Reply
<1>25. ASSUME NEW c \in Client, Deadline(c) PROVE StopIsAccepted'
  BY <1>25 DEF Deadline
<1>26. ASSUME NEW c \in Client, Again(c) PROVE StopIsAccepted'
  BY <1>26 DEF Again
<1>27. CASE UNCHANGED vars
  BY <1>27
<1> QED
  BY <1>1, <1>2, <1>3, <1>4, <1>5, <1>6, <1>7, <1>8, <1>9, <1>10, <1>11,
     <1>12, <1>13, <1>14, <1>15, <1>16, <1>17, <1>18, <1>19, <1>20, <1>21,
     <1>22, <1>23, <1>24, <1>25, <1>26, <1>27
     DEF Next, ServerStep, MainStep, ConnStep

(* Without an overlap nobody else makes or removes the socket file while a    *)
(* daemon starts.                                                             *)
LEMMA StepStart ==
    ASSUME ~ Overlap, TypeOK, SocketInv, OwnedByRunning, StartInv, [Next]_vars
    PROVE  StartInv'
<1> USE DEF TypeOK, SocketInv, OwnedByRunning, StartInv
<1>1. ASSUME CalmDown PROVE StartInv'
  BY <1>1 DEF CalmDown
<1>2. ASSUME NEW d \in Daemon, StartDaemon(d) PROVE StartInv'
  BY <1>2 DEF StartDaemon
<1>3. ASSUME NEW d \in Daemon, Signal(d) PROVE StartInv'
  BY <1>3 DEF Signal
<1>4. ASSUME NEW d \in Daemon, RunReturns(d) PROVE StartInv'
  BY <1>4 DEF RunReturns
<1>5. ASSUME NEW d \in Daemon, StopListeners(d) PROVE StartInv'
  BY <1>5 DEF StopListeners
<1>6. ASSUME NEW d \in Daemon, RemoveSocket(d) PROVE StartInv'
  BY <1>6 DEF RemoveSocket
<1>7. ASSUME NEW d \in Daemon, ExitAfterStop(d) PROVE StartInv'
  BY <1>7 DEF ExitAfterStop, Exit
<1>8. ASSUME NEW d \in Daemon, Crash(d) PROVE StartInv'
  BY <1>8 DEF Crash, Exit
<1>9. ASSUME NEW d \in Daemon, StatSocket(d) PROVE StartInv'
  BY <1>9 DEF StatSocket
<1>10. ASSUME NEW d \in Daemon, DialSocket(d) PROVE StartInv'
  BY <1>10 DEF DialSocket
<1>11. ASSUME NEW d \in Daemon, RemoveStale(d) PROVE StartInv'
  BY <1>11 DEF RemoveStale
<1>12. ASSUME NEW d \in Daemon, Listen(d) PROVE StartInv'
  BY <1>12 DEF Listen
<1>13. ASSUME NEW d \in Daemon, Chmod(d) PROVE StartInv'
  BY <1>13 DEF Chmod
<1>14. ASSUME NEW d \in Daemon, Publish(d) PROVE StartInv'
  BY <1>14 DEF Publish
<1>15. ASSUME NEW d \in Daemon, ListenTcp(d) PROVE StartInv'
  BY <1>15 DEF ListenTcp
<1>16. ASSUME NEW d \in Daemon, CloseOnDone(d) PROVE StartInv'
  BY <1>16 DEF CloseOnDone
<1>17. ASSUME NEW d \in Daemon, AcceptLoopEnds(d) PROVE StartInv'
  BY <1>17 DEF AcceptLoopEnds
<1>18. ASSUME NEW d \in Daemon, AcceptError(d) PROVE StartInv'
  BY <1>18 DEF AcceptError
<1>19. ASSUME NEW c \in Client, Connect(c) \/ ConnStep(c) \/ Again(c) PROVE StartInv'
  <2>1. UNCHANGED <<main, serverVars>>
    BY <1>19 DEF Connect, ConnStep, Accept, QueueDropped, Send, Handle, Reply, Deadline, Again
  <2> QED
    BY <2>1
<1>20. CASE UNCHANGED vars
  BY <1>20
<1> QED
  BY <1>1, <1>2, <1>3, <1>4, <1>5, <1>6, <1>7, <1>8, <1>9, <1>10, <1>11,
     <1>12, <1>13, <1>14, <1>15, <1>16, <1>17, <1>18, <1>19, <1>20
     DEF Next, ServerStep, MainStep, ConnStep

(* However daemons overlap, listeners and connections are those of processes  *)
(* that run, and a reported success to stop is one.                           *)
LEMMA OwnedHolds == Spec => [](OwnedByRunning /\ StopIsAccepted)
<1>1. Init => OwnedByRunning /\ StopIsAccepted
  BY DEF Init, OwnedByRunning, StopIsAccepted
<1> QED
  BY <1>1, StepOwned, StepAccepted, TypeCorrect, PTL DEF Spec

(* gso stop reports success only for a daemon whose context is done: with     *)
(* RunReturns and Stop, which then can run, that daemon ends (runtime.go:165, *)
(* start.go:120-127).                                                         *)
THEOREM StopTakesEffect == Spec => []StopIsAccepted
BY OwnedHolds, PTL

(* When no daemon starts while another runs, the one that accepts and was not *)
(* told to stop is the one at the socket's path, whatever socket files were   *)
(* left behind (server.go:97-130, 277-292).                                   *)
THEOREM ServerAlwaysReachable ==
    ASSUME ~ Overlap
    PROVE  Spec => []SocketIsSound
<1>1. Init => SocketInv
  BY DEF Init, SocketInv
<1>2. TypeOK /\ SocketInv /\ [Next]_vars => SocketInv'
  BY StepSocket
<1>3. TypeOK /\ SocketInv /\ StopIsAccepted => SocketIsSound
  BY DEF SocketInv, SocketIsSound, ServingIsReachable
<1> QED
  BY <1>1, <1>2, <1>3, TypeCorrect, StopTakesEffect, PTL DEF Spec

(* When no daemon starts while another runs, nothing that earlier ones left   *)
(* behind refuses a start: it fails only if a call of its own does, or if the *)
(* daemon is stopping (server.go:97-130, 277-292).                            *)
THEOREM StartsGetThrough ==
    ASSUME ~ Overlap
    PROVE  Spec => StartIsNotRefused
<1>1. Init => SocketInv /\ StartInv
  BY DEF Init, SocketInv, StartInv
<1>2. TypeOK /\ SocketInv /\ OwnedByRunning /\ StartInv /\ [Next]_vars => SocketInv' /\ StartInv'
  BY StepSocket, StepStart
<1>3. TypeOK /\ SocketInv /\ OwnedByRunning /\ StartInv /\ [Next]_vars =>
        [\A d \in Daemon :
            (srv'[d] = "failed" /\ srv[d] # "failed") => (~ calm \/ main[d] # "running")]_vars
  <2> SUFFICES ASSUME TypeOK, SocketInv, OwnedByRunning, StartInv, Next, NEW d \in Daemon,
                      srv'[d] = "failed", srv[d] # "failed", calm, main[d] = "running"
               PROVE  FALSE
    OBVIOUS
  <2>1. ASSUME NEW e \in Daemon, ServerStep(e) PROVE e = d
    BY <2>1 DEF ServerStep, StatSocket, DialSocket, RemoveStale, Listen, Chmod, Publish, ListenTcp,
       AcceptLoopEnds, TypeOK
  <2>2. ServerStep(d)
    <3>1. ASSUME NEW e \in Daemon, StartDaemon(e) \/ Signal(e) \/ Crash(e) \/ AcceptError(e)
                                   \/ MainStep(e) \/ CloseOnDone(e)
          PROVE  FALSE
      BY <3>1 DEF StartDaemon, Signal, Crash, AcceptError, MainStep, RunReturns, StopListeners,
         RemoveSocket, ExitAfterStop, Exit, CloseOnDone, TypeOK
    <3>2. ASSUME NEW c \in Client, Connect(c) \/ ConnStep(c) \/ Again(c) PROVE FALSE
      BY <3>2 DEF Connect, ConnStep, Accept, QueueDropped, Send, Handle, Reply, Deadline, Again
    <3> QED
      BY <3>1, <3>2, <2>1 DEF Next, CalmDown
  <2>3. tcpOpen = {} \/ srv[d] # "tcp"
    BY DEF OwnedByRunning, StartInv, SocketInv, TypeOK
  <2>4. (srv[d] = "dial" => path # None /\ path \notin listening)
        /\ (srv[d] = "remove" => path # None) /\ (srv[d] = "listen" => path = None)
        /\ (srv[d] = "chmod" => path = d)
    BY DEF OwnedByRunning, StartInv, SocketInv, TypeOK
  <2> QED
    BY <2>2, <2>3, <2>4 DEF ServerStep, StatSocket, DialSocket, RemoveStale, Listen, Chmod, Publish,
       ListenTcp, AcceptLoopEnds, TypeOK
<1> QED
  BY <1>1, <1>2, <1>3, TypeCorrect, OwnedHolds, PTL DEF Spec, StartIsNotRefused
=============================================================================
