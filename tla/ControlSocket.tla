---------------------------- MODULE ControlSocket ----------------------------
(* The control server (internal/control/server.go) in the daemons that        *)
(* cmd/start.go runs on one host, the socket file they share, and clients     *)
(* (internal/control/client.go).  In each daemon Server.Start runs in a       *)
(* goroutine beside the orchestrator; Server.Stop runs when that returns.     *)
EXTENDS Naturals

CONSTANTS
    Daemon,      \* processes, each can be started again
    Client,      \* connections, one call each
    Overlap,     \* TRUE: a daemon may start while another one runs
    Tcp,         \* TRUE: --listen is given
    None

ASSUME ControlSocketAssumption ==
    Overlap \in BOOLEAN /\ Tcp \in BOOLEAN /\ None \notin Daemon

VARIABLES
    main,        \* runStart: "down", "running", or a step of Stop
    ctxDone,     \* daemons whose context is cancelled
    srv,         \* where Server.Start is
    published,   \* daemons whose s.listener is set
    done,        \* daemons whose s.done is closed
    listening,   \* daemons whose Unix listener is open
    tcpOpen,     \* daemons whose TCP listener is open
    path,        \* the socket file: the daemon that made it, or None
    conn,        \* the state of each connection
    peer,        \* the daemon at its other end
    remote,      \* the connections made over TCP
    request,     \* what its client asks
    calm         \* from now on nothing fails

serverVars == <<srv, published, done, listening, tcpOpen, path>>
clientVars == <<conn, peer, remote, request>>
vars == <<main, ctxDone, serverVars, clientVars, calm>>

Requests == {"shutdown", "status", "garbage", "silence", "unauthorized"}
Up(d) == main[d] # "down"
At(d, place) == Up(d) /\ srv[d] = place
Go(d, place) == srv' = [srv EXCEPT ![d] = place]
StopAt(d, place) == main' = [main EXCEPT ![d] = place]
Answer(c, how) == conn' = [conn EXCEPT ![c] = how]

Init ==
    /\ main = [d \in Daemon |-> "down"]
    /\ ctxDone = {}
    /\ srv = [d \in Daemon |-> "off"]
    /\ published = {} /\ done = {} /\ listening = {} /\ tcpOpen = {}
    /\ path = None
    /\ conn = [c \in Client |-> "idle"]
    /\ peer = [c \in Client |-> None]
    /\ remote = {}
    /\ request \in [Client -> Requests]
    /\ calm = FALSE

-----------------------------------------------------------------------------
(* runStart                                                                   *)
StartDaemon(d) ==
    /\ main[d] = "down"
    /\ Overlap \/ \A e \in Daemon : main[e] = "down"
    /\ StopAt(d, "running")
    /\ Go(d, "stat")
    /\ ctxDone' = ctxDone \ {d}
    /\ published' = published \ {d}
    /\ done' = done \ {d}
    /\ UNCHANGED <<listening, tcpOpen, path, clientVars, calm>>

Signal(d) ==
    /\ Up(d)
    /\ ctxDone' = ctxDone \union {d}
    /\ UNCHANGED <<main, serverVars, clientVars, calm>>

(* orch.Run returns, stopped or with an error; the deferred Stop begins.      *)
RunReturns(d) ==
    /\ main[d] = "running"
    /\ d \in ctxDone \/ ~calm
    /\ StopAt(d, "stopping")
    /\ UNCHANGED <<ctxDone, serverVars, clientVars, calm>>

(* net.UnixListener.Close unlinks the path it was given, whoever made the     *)
(* file that is there now.                                                    *)
CloseListener(d) ==
    /\ listening' = listening \ {d}
    /\ path' = IF d \in listening THEN None ELSE path

StopListeners(d) ==
    /\ main[d] = "stopping"
    /\ StopAt(d, "removing")
    /\ done' = done \union {d}
    /\ IF d \in published
       THEN CloseListener(d) /\ tcpOpen' = tcpOpen \ {d}
       ELSE UNCHANGED <<listening, path, tcpOpen>>
    /\ UNCHANGED <<ctxDone, srv, published, clientVars, calm>>

RemoveSocket(d) ==
    /\ main[d] = "removing"
    /\ StopAt(d, "exiting")
    /\ path' = None
    /\ UNCHANGED <<ctxDone, srv, published, done, listening, tcpOpen, clientVars, calm>>

(* The process is gone; the kernel closes its sockets and leaves the file.    *)
Exit(d) ==
    /\ StopAt(d, "down")
    /\ Go(d, "off")
    /\ listening' = listening \ {d}
    /\ tcpOpen' = tcpOpen \ {d}
    /\ conn' = [c \in Client |->
                  IF peer[c] = d /\ conn[c] # "answered" THEN "failed" ELSE conn[c]]
    /\ peer' = [c \in Client |-> IF peer[c] = d THEN None ELSE peer[c]]
    /\ UNCHANGED <<ctxDone, published, done, path, remote, request, calm>>

ExitAfterStop(d) == main[d] = "exiting" /\ Exit(d)
Crash(d) == Up(d) /\ ~calm /\ Exit(d)

-----------------------------------------------------------------------------
(* Server.Start: checkStaleSocket, net.Listen, os.Chmod, then the listeners.  *)
(* An error is only logged by runStart.                                       *)
Outside == UNCHANGED <<main, ctxDone, done, clientVars, calm>>

StatSocket(d) ==
    /\ At(d, "stat")
    /\ Go(d, IF path = None THEN "listen" ELSE "dial")
    /\ Outside /\ UNCHANGED <<published, listening, tcpOpen, path>>

DialTrusting(d) == \* wrong: takes any socket file for a running instance
    /\ At(d, "dial")
    /\ Go(d, "failed")
    /\ Outside /\ UNCHANGED <<published, listening, tcpOpen, path>>

(* A connection to a daemon that listens succeeds: another instance is        *)
(* already running.                                                           *)
DialSocket(d) ==
    /\ At(d, "dial")
    /\ Go(d, IF path \in listening THEN "failed" ELSE "remove")
    /\ Outside /\ UNCHANGED <<published, listening, tcpOpen, path>>

RemoveStale(d) ==
    /\ At(d, "remove")
    /\ Go(d, IF path = None THEN "failed" ELSE "listen")
    /\ path' = None
    /\ Outside /\ UNCHANGED <<published, listening, tcpOpen>>

Listen(d) ==
    /\ At(d, "listen")
    /\ IF path = None
       THEN Go(d, "chmod") /\ path' = d /\ listening' = listening \union {d}
       ELSE Go(d, "failed") /\ UNCHANGED <<path, listening>>
    /\ Outside /\ UNCHANGED <<published, tcpOpen>>

Chmod(d) ==
    /\ At(d, "chmod")
    /\ IF path = None \/ ~calm
       THEN \/ Go(d, "failed") /\ CloseListener(d)
            \/ path # None /\ Go(d, "publish") /\ UNCHANGED <<path, listening>>
       ELSE Go(d, "publish") /\ UNCHANGED <<path, listening>>
    /\ Outside /\ UNCHANGED <<published, tcpOpen>>

Publish(d) ==
    /\ At(d, "publish")
    /\ published' = published \union {d}
    /\ Go(d, IF Tcp THEN "tcp" ELSE "accept")
    /\ Outside /\ UNCHANGED <<listening, tcpOpen, path>>

ListenTcpGoesOn(d) == \* wrong: accepts although it closed the listener
    /\ At(d, "tcp")
    /\ \/ tcpOpen' = tcpOpen \union {d} /\ UNCHANGED <<listening, path>>
       \/ ~calm /\ CloseListener(d) /\ UNCHANGED tcpOpen
    /\ Go(d, "accept")
    /\ Outside /\ UNCHANGED published

(* Allowlist, certificate and port: an error closes the Unix listener too.    *)
ListenTcp(d) ==
    /\ At(d, "tcp")
    /\ \/ /\ tcpOpen = {}
          /\ tcpOpen' = tcpOpen \union {d}
          /\ Go(d, "accept")
          /\ UNCHANGED <<listening, path>>
       \/ /\ ~calm \/ tcpOpen # {}
          /\ CloseListener(d)
          /\ Go(d, "failed")
          /\ UNCHANGED tcpOpen
    /\ Outside /\ UNCHANGED published

(* The goroutines that close the listeners when the context is done; if Stop  *)
(* has closed s.done by then, select may choose that and leave it to Stop.    *)
CloseOnDone(d) ==
    /\ Up(d) /\ d \in ctxDone /\ d \in published
    /\ d \in listening \union tcpOpen
    /\ CloseListener(d)
    /\ tcpOpen' = tcpOpen \ {d}
    /\ UNCHANGED <<main, ctxDone, srv, published, done, clientVars, calm>>

AcceptLoopEnds(d) ==
    /\ At(d, "accept")
    /\ d \notin listening
    /\ Go(d, "ended")
    /\ Outside /\ UNCHANGED <<published, listening, tcpOpen, path>>

(* Accept returns an error although the listener is open (no descriptors).    *)
AcceptError(d) ==
    /\ At(d, "accept")
    /\ d \in listening /\ d \notin ctxDone /\ ~calm
    /\ Go(d, "ended")
    /\ Outside /\ UNCHANGED <<published, listening, tcpOpen, path>>

-----------------------------------------------------------------------------
(* A connection: queued by the kernel, accepted, its request read, answered.  *)
Inside == UNCHANGED <<main, serverVars, request, calm>>

Connect(c) ==
    /\ conn[c] = "idle"
    /\ \/ /\ path \in listening /\ request[c] # "unauthorized"
          /\ peer' = [peer EXCEPT ![c] = path]
          /\ remote' = remote \ {c}
       \/ /\ \E d \in tcpOpen : peer' = [peer EXCEPT ![c] = d]
          /\ remote' = remote \union {c}
    /\ Answer(c, "queued")
    /\ Inside /\ UNCHANGED ctxDone

Listened(c) == peer[c] \in IF c \in remote THEN tcpOpen ELSE listening

(* The TCP listener has a loop of its own, and an allowlist that may refuse.  *)
Accept(c) ==
    /\ conn[c] = "queued" /\ Listened(c)
    /\ srv[peer[c]] = "accept" \/ (c \in remote /\ srv[peer[c]] = "ended")
    /\ \/ Answer(c, "open")
       \/ c \in remote /\ Answer(c, "failed")
    /\ Inside /\ UNCHANGED <<peer, remote, ctxDone>>

(* Closing a listener resets what it has queued.                              *)
QueueDropped(c) ==
    /\ conn[c] = "queued" /\ ~Listened(c)
    /\ Answer(c, "failed")
    /\ Inside /\ UNCHANGED <<peer, remote, ctxDone>>

Send(c) ==
    /\ conn[c] = "open"
    /\ request[c] # "silence"
    /\ Answer(c, "sent")
    /\ Inside /\ UNCHANGED <<peer, remote, ctxDone>>

AnswerUnchecked(c) == \* wrong: reports success without acting
    /\ conn[c] = "sent"
    /\ Answer(c, "answered")
    /\ Inside /\ UNCHANGED <<peer, remote, ctxDone>>

(* handleConn: decode, authenticate, Runtime.HandleRequest, encode.  The      *)
(* request to shut down cancels the context before it is answered.            *)
Handle(c) ==
    /\ conn[c] = "sent"
    /\ IF request[c] = "shutdown"
       THEN Answer(c, "handled") /\ ctxDone' = ctxDone \union {peer[c]}
       ELSE /\ Answer(c, IF request[c] = "status" THEN "answered" ELSE "failed")
            /\ UNCHANGED ctxDone
    /\ Inside /\ UNCHANGED <<peer, remote>>

Reply(c) ==
    /\ conn[c] = "handled"
    /\ Answer(c, "answered")
    /\ Inside /\ UNCHANGED <<peer, remote, ctxDone>>

DeadlineForAnswerOnly(c) == \* wrong: waits for the request for ever
    /\ conn[c] = "sent"
    /\ Answer(c, "failed")
    /\ Inside /\ UNCHANGED <<peer, remote, ctxDone>>

(* The deadline closes the connection of a client that sends nothing.         *)
Deadline(c) ==
    /\ conn[c] = "open"
    /\ Answer(c, "failed")
    /\ Inside /\ UNCHANGED <<peer, remote, ctxDone>>

Again(c) ==
    /\ conn[c] \in {"answered", "failed"}
    /\ Answer(c, "idle")
    /\ peer' = [peer EXCEPT ![c] = None]
    /\ remote' = remote \ {c}
    /\ request' \in {[request EXCEPT ![c] = r] : r \in Requests}
    /\ UNCHANGED <<main, ctxDone, serverVars, calm>>

CalmDown ==
    /\ ~calm
    /\ calm' = TRUE
    /\ UNCHANGED <<main, ctxDone, serverVars, clientVars>>

-----------------------------------------------------------------------------
ServerStep(d) ==
    \/ StatSocket(d) \/ DialSocket(d) \/ RemoveStale(d) \/ Listen(d) \/ Chmod(d)
    \/ Publish(d) \/ ListenTcp(d) \/ AcceptLoopEnds(d)

MainStep(d) == RunReturns(d) \/ StopListeners(d) \/ RemoveSocket(d) \/ ExitAfterStop(d)

ConnStep(c) ==
    Accept(c) \/ QueueDropped(c) \/ Send(c) \/ Handle(c) \/ Reply(c) \/ Deadline(c)

Next ==
    \/ CalmDown
    \/ \E d \in Daemon : \/ StartDaemon(d) \/ Signal(d) \/ Crash(d) \/ AcceptError(d)
                         \/ ServerStep(d) \/ MainStep(d) \/ CloseOnDone(d)
    \/ \E c \in Client : Connect(c) \/ ConnStep(c) \/ Again(c)

Spec == Init /\ [][Next]_vars

(* Goroutines and the kernel go on; the 30 s deadline passes.                 *)
FairSpec ==
    /\ Spec
    /\ \A d \in Daemon : WF_vars(ServerStep(d)) /\ WF_vars(MainStep(d))
    /\ \A d \in Daemon : WF_vars(d \notin done /\ CloseOnDone(d))
    /\ \A c \in Client : WF_vars(ConnStep(c))

-----------------------------------------------------------------------------
(* Every variable keeps its type, and a connection in use has a daemon at its *)
(* other end (client.go:46-52).                                               *)
TypeOK ==
    /\ main \in [Daemon -> {"down", "running", "stopping", "removing", "exiting"}]
    /\ srv \in [Daemon -> {"off", "stat", "dial", "remove", "listen", "chmod", "publish",
                           "tcp", "accept", "ended", "failed"}]
    /\ ctxDone \subseteq Daemon /\ done \subseteq Daemon /\ published \subseteq Daemon
    /\ listening \subseteq Daemon /\ tcpOpen \subseteq Daemon
    /\ path \in Daemon \union {None}
    /\ conn \in [Client -> {"idle", "queued", "open", "sent", "handled", "answered", "failed"}]
    /\ peer \in [Client -> Daemon \union {None}]
    /\ remote \subseteq Client /\ request \in [Client -> Requests]
    /\ \A c \in Client : conn[c] \in {"queued", "open", "sent", "handled"} => peer[c] # None
    /\ calm \in BOOLEAN

(* server.go:277: only a socket that refuses connections is stale and gets    *)
(* removed.  A daemon that accepts and was not told to stop is the one that   *)
(* clients find at the path.                                                  *)
ServingIsReachable ==
    \A d \in Daemon : (At(d, "accept") /\ d \notin ctxDone /\ main[d] = "running") => path = d

(* A client that was told its daemon stops is right: whatever else happens,   *)
(* that daemon's context is done for as long as it runs (runtime.go:165).     *)
StopIsAccepted ==
    \A c \in Client :
        (conn[c] \in {"handled", "answered"} /\ request[c] = "shutdown" /\ peer[c] # None) =>
            peer[c] \in ctxDone

(* The types, the socket of a daemon that serves, and the daemon of a client  *)
(* that stops one (server.go:97-130).                                         *)
SocketIsSound == TypeOK /\ ServingIsReachable /\ StopIsAccepted

(* Whatever socket a crash left behind, a start with nothing failing gets to  *)
(* accept connections, or the daemon is told to stop (server.go:279-292).     *)
ServerRecovers ==
    \A d \in Daemon :
        (calm /\ At(d, "stat") /\ main[d] = "running") ~> (At(d, "accept") \/ d \in ctxDone)

(* gso stop reports success only if the daemon goes on to end                 *)
(* (runtime.go:165, start.go:120-127).                                        *)
StopIsCarriedOut ==
    \A d \in Daemon : \A c \in Client :
        (calm /\ conn[c] = "answered" /\ request[c] = "shutdown" /\ peer[c] = d)
            ~> (main[d] = "down")

(* Every connection comes to its end, also one whose client says nothing, and *)
(* whenever the daemon ends (server.go:294-322).                              *)
ConnectionsEnd ==
    \A c \in Client : (conn[c] \in {"open", "sent", "handled"}) ~> (conn[c] \in {"answered", "failed"})
=============================================================================
