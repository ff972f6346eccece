---------------------------- MODULE EventStream ----------------------------
(* From Publish to the dashboard (internal/event, internal/tui): goroutines   *)
(* of the daemon stamp events and publish them on the bus, which appends them *)
(* to a file that is rotated by size and offers them to subscribers; a        *)
(* dashboard in another process polls the file and keeps a list of events and *)
(* a board of runners.  Nothing orders the stamps with the appends, and the   *)
(* dashboard starts a poll every two seconds whether the last came back.      *)
(* The events are those of the ephemeral runners of one repository.           *)
EXTENDS Selections, SequencesExt, FiniteSets

CONSTANTS
    Runner,      \* runner names, each used once
    Poll,        \* polls that may be under way together
    Subscriber,  \* subscribers of the bus
    BufSize,     \* the size of a subscriber's channel
    MaxSize,     \* events a file may hold before the next one rotates it
    MaxEvents,   \* events the dashboard keeps
    Setting,     \* what may coincide in a behaviour: polls, subscribers, stamps
    Listener, None

Kind == {"daemon.started", "runner.spawned", "job.started", "job.completed", "runner.completed"}
Event == [kind : Kind, runner : Runner \cup {None}, time : Nat]
States == {"absent", "starting", "running", "completing", "done"}
Board == [Runner -> [state : States, at : Nat]]
View == [events : Seq(Event), last : Nat, board : Board, took : SUBSET Event]

ASSUME EventStreamAssumption ==
    /\ BufSize \in Nat /\ {MaxSize, MaxEvents} \subseteq Nat \ {0}
    /\ Setting \subseteq [polls : SUBSET Poll, subscribers : SUBSET Subscriber, sameStamp : BOOLEAN]
    /\ Listener \notin Runner /\ None \notin Runner
    /\ None \notin View

VARIABLES
    setting,  \* a member of Setting
    clock,    \* the time of the latest stamp
    stage,    \* where Publish is, for every goroutine that publishes
    event,    \* the event it publishes
    emitted,  \* the events published, without their stamps
    file,     \* events.jsonl, one event a line
    torn,     \* the file ends in a line that was cut short
    sub,      \* events waiting for a subscriber, or None
    view,     \* the dashboard: events, last stamp, board (history: all it took), or None
    poll,     \* the polls: None, or the stamp asked for, then the answer
    written   \* history: every event that was appended

publishVars == <<setting, clock, stage, event, emitted>>
storeVars == <<file, torn, written>>
viewVars == <<view, poll>>
vars == <<publishVars, storeVars, sub, viewVars>>

Writer == Runner \cup {Listener}
Entry(kind, r, t) == [kind |-> kind, runner |-> r, time |-> t]
DaemonStarted == Entry("daemon.started", None, 2)
Prior == <<Entry("runner.completed", None, 1), DaemonStarted>>

Absent == [state |-> "absent", at |-> 0]
Closed == [events |-> <<>>, last |-> 0, board |-> [r \in Runner |-> Absent], took |-> {}]

Init ==
    /\ setting \in Setting
    /\ clock = 2
    /\ stage = [w \in Writer |-> "idle"]
    /\ event = [w \in Writer |-> DaemonStarted]
    /\ emitted = {}
    /\ file = Prior /\ torn = FALSE /\ written = Prior
    /\ sub = [s \in Subscriber |-> None]
    /\ view = None
    /\ poll = [p \in Poll |-> None]

-----------------------------------------------------------------------------
(* Publish.  The listener's callbacks publish a runner's spawning and its     *)
(* job; the runner's goroutine, started after the first, its end.             *)
Emits(w) ==
    IF w = Listener
    THEN {<<"runner.spawned", r>> : r \in Runner}
         \cup {<<"job.started", r>> : r \in {x \in Runner : <<"runner.spawned", x>> \in emitted}}
         \cup {<<"job.completed", r>> : r \in {x \in Runner : <<"job.started", x>> \in emitted}}
    ELSE {<<"runner.completed", r>> :
            r \in {x \in Runner : /\ x = w /\ <<"runner.spawned", x>> \in emitted
                                  /\ ~ (stage[Listener] # "idle"
                                        /\ event[Listener].kind = "runner.spawned"
                                        /\ event[Listener].runner = x)}}

Stamp(w) ==
    /\ stage[w] = "idle"
    /\ \E what \in Emits(w) \ emitted, t \in {clock, clock + 1} :
        /\ setting.sameStamp \/ t > clock
        /\ clock' = t
        /\ event' = [event EXCEPT ![w] = Entry(what[1], what[2], t)]
        /\ emitted' = emitted \cup {what}
    /\ stage' = [stage EXCEPT ![w] = "append"]
    /\ UNCHANGED <<setting, storeVars, sub, viewVars>>

Rotated == IF Len(file) > MaxSize THEN <<>> ELSE file

(* FileStore.Append.  A line written after a torn one is part of it.          *)
Append1(w) ==
    /\ stage[w] = "append"
    /\ stage' = [stage EXCEPT ![w] = "send"]
    /\ torn' = FALSE
    /\ IF torn /\ Rotated = file
       THEN file' = file /\ UNCHANGED written
       ELSE file' = Append(Rotated, event[w]) /\ written' = Append(written, event[w])
    /\ UNCHANGED <<setting, clock, event, emitted, sub, viewVars>>

(* The error is dropped; the rename may have happened, and part of the line.  *)
AppendFails(w) ==
    /\ stage[w] = "append"
    /\ stage' = [stage EXCEPT ![w] = "send"]
    /\ file' \in {file, Rotated}
    /\ torn' \in {torn /\ file' = file, TRUE}
    /\ UNCHANGED <<setting, clock, event, emitted, written, sub, viewVars>>

SendWaiting(w) == \* wrong: waits for room in every channel
    /\ stage[w] = "send"
    /\ \A s \in Subscriber : sub[s] \in {None} \cup 0 .. BufSize - 1
    /\ sub' = [s \in Subscriber |-> IF sub[s] = None THEN None ELSE sub[s] + 1]
    /\ stage' = [stage EXCEPT ![w] = "idle"]
    /\ UNCHANGED <<setting, clock, event, emitted, storeVars, viewVars>>

Send(w) ==
    /\ stage[w] = "send"
    /\ sub' = [s \in Subscriber |->
                 IF sub[s] = None \/ sub[s] = BufSize THEN sub[s] ELSE sub[s] + 1]
    /\ stage' = [stage EXCEPT ![w] = "idle"]
    /\ UNCHANGED <<setting, clock, event, emitted, storeVars, viewVars>>

Subscribe(s) ==
    /\ s \in setting.subscribers /\ sub[s] = None
    /\ sub' = [sub EXCEPT ![s] = 0]
    /\ UNCHANGED <<publishVars, storeVars, viewVars>>

Unsubscribe(s) ==
    /\ sub[s] # None
    /\ sub' = [sub EXCEPT ![s] = None]
    /\ UNCHANGED <<publishVars, storeVars, viewVars>>

Receive(s) ==
    /\ sub[s] \notin {None, 0}
    /\ sub' = [sub EXCEPT ![s] = @ - 1]
    /\ UNCHANGED <<publishVars, storeVars, viewVars>>

-----------------------------------------------------------------------------
(* What the dashboard makes of an event.                                      *)
Set(b, r, state, at) == [b EXCEPT ![r] = [state |-> state, at |-> at]]

OnBoardUnknown(b, e, late) == \* wrong: makes an entry for a runner it does not know
    LET after ==
            CASE e.kind = "runner.spawned" -> Set(b, e.runner, "starting", 0)
              [] e.kind = "job.started" -> Set(b, e.runner, "running", 0)
              [] e.kind = "job.completed" -> Set(b, e.runner, "completing", 0)
              [] e.kind = "runner.completed" /\ e.runner # None ->
                   Set(b, e.runner, "done", e.time)
              [] OTHER -> b
    IN  [r \in Runner |-> IF after[r].state = "done" /\ after[r].at < late
                          THEN Absent ELSE after[r]]

(* updateRunnerState; runners that were done before "late" have lingered.     *)
OnBoard(b, e, late) ==
    LET known == e.runner \in Runner /\ b[e.runner].state # "absent"
        after ==
            CASE e.kind = "runner.spawned" -> Set(b, e.runner, "starting", 0)
              [] e.kind = "job.started" /\ known -> Set(b, e.runner, "running", 0)
              [] e.kind = "job.completed" /\ known ->
                   Set(b, e.runner, "completing", b[e.runner].at)
              [] e.kind = "runner.completed" /\ known -> Set(b, e.runner, "done", e.time)
              [] OTHER -> b
    IN  [r \in Runner |-> IF after[r].state = "done" /\ after[r].at < late
                          THEN Absent ELSE after[r]]

Take(v, e, late) ==
    [events |-> Append(IF Len(v.events) >= MaxEvents THEN Tail(v.events) ELSE v.events, e),
     last   |-> IF e.time > v.last THEN e.time ELSE v.last,
     board  |-> OnBoard(v.board, e, late),
     took   |-> v.took \cup {e}]

(* Only the tail of the list that bears the same stamp is searched.           *)
IsDup(v, e) ==
    \E i \in DOMAIN v.events :
        /\ v.events[i].kind = e.kind
        /\ \A j \in i .. Len(v.events) : v.events[j].time = e.time

Ingest(v, e, late) ==
    IF e.time < v.last \/ IsDup(v, e) THEN v ELSE Take(v, e, late)

(* One event after the other: all of them, or those that pass for new ones.   *)
Feed(v, es, late, which) ==
    LET fed[n \in 0 .. Len(es)] ==
          IF n = 0 THEN v
          ELSE IF which = "all" THEN Take(fed[n - 1], es[n], late)
                                ELSE Ingest(fed[n - 1], es[n], late)
    IN  fed[Len(es)]

(* New: the file from its last daemon.started on, whatever its stamps.        *)
History ==
    LET starts == {i \in DOMAIN file : file[i] = DaemonStarted}
    IN  SubSeq(file, IF starts = {} THEN 1 ELSE CHOOSE i \in starts : \A j \in starts : j <= i,
               Len(file))

Open ==
    /\ view = None
    /\ \E late \in 0 .. clock :
         view' = Feed(Closed, History, late, "all")
    /\ UNCHANGED <<publishVars, storeVars, sub, poll>>

(* tickMsg: a poll asks for the events from the last stamp on.                *)
Tick(p) ==
    /\ p \in setting.polls
    /\ view # None /\ poll[p] = None
    /\ poll' = [poll EXCEPT ![p] = [since |-> view.last]]
    /\ UNCHANGED <<publishVars, storeVars, sub, view>>

(* FileStore.Query, by the dashboard or by LiveEvents in the daemon.          *)
QueryAfter(p) == \* wrong: skips the events of the stamp asked for
    /\ poll[p] # None /\ DOMAIN poll[p] = {"since"}
    /\ poll' = [poll EXCEPT ![p] =
         [got |-> Keep(file, {e \in ToSet(file) : e.time > poll[p].since})]]
    /\ UNCHANGED <<publishVars, storeVars, sub, view>>

Query(p) ==
    /\ poll[p] # None /\ DOMAIN poll[p] = {"since"}
    /\ poll' = [poll EXCEPT ![p] =
         [got |-> Keep(file, {e \in ToSet(file) : e.time >= poll[p].since})]]
    /\ UNCHANGED <<publishVars, storeVars, sub, view>>

QueryEndsPolling(p) == \* wrong: an error is the end of it
    /\ poll[p] # None /\ DOMAIN poll[p] = {"since"}
    /\ poll' = [poll EXCEPT ![p] = [error |-> TRUE]]
    /\ UNCHANGED <<publishVars, storeVars, sub, view>>

QueryFails(p) ==
    /\ poll[p] # None /\ DOMAIN poll[p] = {"since"}
    /\ poll' = [poll EXCEPT ![p] = None]
    /\ UNCHANGED <<publishVars, storeVars, sub, view>>

(* eventsMsg.  The answers of two polls may come in either order.             *)
Deliver(p) ==
    /\ poll[p] # None /\ DOMAIN poll[p] = {"got"}
    /\ \E late \in 0 .. clock :
         view' = Feed(view, poll[p].got, late, "new")
    /\ poll' = [poll EXCEPT ![p] = None]
    /\ UNCHANGED <<publishVars, storeVars, sub>>

-----------------------------------------------------------------------------
Publish(w) == Stamp(w) \/ Append1(w) \/ AppendFails(w) \/ Send(w)
Next ==
    \/ \E w \in Writer : Publish(w)
    \/ \E s \in Subscriber : Subscribe(s) \/ Unsubscribe(s) \/ Receive(s)
    \/ Open
    \/ \E p \in Poll : Tick(p) \/ Query(p) \/ QueryFails(p) \/ Deliver(p)

Spec == Init /\ [][Next]_vars

(* The ticker ticks, a query ends, and not always in an error; bubbletea      *)
(* delivers what a command returns.  Nothing need be published.               *)
FairSpec ==
    /\ Spec
    /\ \A p \in Poll : /\ WF_vars(Tick(p)) /\ WF_vars(Deliver(p))
                       /\ SF_vars(Query(p))

-----------------------------------------------------------------------------
EventSet == [kind : Kind, runner : Runner \cup {None}, time : 1 .. clock]

(* The board of a view has a runner only if its spawning was taken, as done   *)
(* only if its end was too.                                                   *)
BoardOf(v) ==
    \A r \in Runner :
        LET took == {e.kind : e \in {x \in v.took : x.runner = r}} IN
        CASE v.board[r].state = "absent"     -> TRUE
          [] v.board[r].state = "starting"   -> "runner.spawned" \in took
          [] v.board[r].state = "running"    -> {"runner.spawned", "job.started"} \subseteq took
          [] v.board[r].state = "completing" -> {"runner.spawned", "job.completed"} \subseteq took
          [] v.board[r].state = "done"       -> {"runner.spawned", "runner.completed"} \subseteq took

(* Nothing late or trimmed makes a runner of another time appear (tui.go,     *)
(* updateRunnerState and ingestEvent).                                        *)
BoardIsOfTaken == view # None => BoardOf(view)

(* Every variable keeps its type: no channel holds more than its buffer, no   *)
(* file more than one event over its size, and the board has what was taken   *)
(* (bus.go, Publish; store.go, Append; tui.go, ingestEvent).                  *)
TypeOK ==
    /\ BoardIsOfTaken
    /\ setting \in Setting
    /\ stage \in [Writer -> {"idle", "append", "send"}]
    /\ event \in [Writer -> EventSet] /\ clock \in Nat
    /\ ToSet(file) \subseteq EventSet /\ Len(file) <= MaxSize + 1 /\ torn \in BOOLEAN
    /\ sub \in [Subscriber -> {None} \cup 0 .. BufSize]
    /\ view # None => /\ ToSet(view.events) \subseteq EventSet
                      /\ Len(view.events) <= MaxEvents
                      /\ \A r \in Runner : view.board[r].state \in States

(* An event that was appended after one with a later stamp, the twin of an    *)
(* event that was taken, or one from before the daemon started.               *)
Late(e) == \E i, j \in DOMAIN written : i < j /\ written[j] = e /\ written[i].time > e.time
TwinIn(v, e) == \E d \in v.took : d.kind = e.kind /\ d.time = e.time
HasTwin(e) == TwinIn(view, e)
Old(e) == e.time < DaemonStarted.time
Due == {e \in ToSet(file) \ view.took : ~ Late(e) /\ ~ Old(e)}

(* The dashboard never moves past an event that stands in the file (tui.go,   *)
(* eventsMsg and pollLocalEvents), whatever polls overlap, unless the event   *)
(* was appended out of order or shares stamp and kind with one it took.       *)
NothingPassedOver ==
    view # None => \A e \in Due : e.time >= view.last \/ HasTwin(e)

(* A dashboard that stays open takes every event there is to take (tui.go).   *)
CatchesUp == []<>(view # None => \A e \in Due : HasTwin(e))

(* A goroutine that publishes is never held up by a subscriber, whatever      *)
(* subscribers come, go and leave in their channels (bus.go, Publish).        *)
PublishNeverBlocks ==
    \A w \in Writer : stage[w] # "idle" => ENABLED (Append1(w) \/ Send(w))
=============================================================================
