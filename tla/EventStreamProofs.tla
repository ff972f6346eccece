--------------------------- MODULE EventStreamProofs ---------------------------
(* Proofs about EventStream, for any number of goroutines, polls that overlap *)
(* and subscribers, any sizes of the file, the list and the channels.         *)
EXTENDS EventStream, SelectionProofs

(* The goroutines and the channels.                                           *)
PublishInv ==
    /\ setting \in Setting /\ clock \in Nat /\ clock >= 2
    /\ stage \in [Writer -> {"idle", "append", "send"}]
    /\ event \in [Writer -> EventSet]
    /\ \A w \in Writer : stage[w] = "append" => event[w].kind # "daemon.started"
    /\ sub \in [Subscriber -> {None} \cup 0 .. BufSize]

(* The file is what was written since the last rotation, and the daemon wrote *)
(* that it started once, as its first event.                                  *)
FileInv ==
    /\ written \in Seq(EventSet) /\ Len(written) >= 2
    /\ written[1].time = 1 /\ written[2] = DaemonStarted
    /\ \A i \in 1 .. Len(written) : written[i] = DaemonStarted => i = 2
    /\ file \in Seq(EventSet) /\ Len(file) <= MaxSize + 1 /\ torn \in BOOLEAN
    /\ \E k \in Nat : /\ Len(written) = k + Len(file)
                      /\ \A i \in 1 .. Len(file) : file[i] = written[k + i]

(* A view has only events that were written, and its last stamp is that of    *)
(* one it took.                                                               *)
ViewOK(v) ==
    /\ v.events \in Seq(v.took) /\ Len(v.events) <= MaxEvents
    /\ v.last \in Nat /\ v.board \in Board
    /\ v.took \subseteq ToSet(written)
    /\ v.last # 0 => \E e \in v.took : e.time = v.last
    /\ BoardOf(v)

(* A view has not moved past an event that stands in the file in order.       *)
PassedNone(v) ==
    \A e \in ToSet(file) : Late(e) \/ Old(e) \/ e.time >= v.last \/ TwinIn(v, e)

(* An answer that waits to be taken has, before an event, all those of the    *)
(* file that taking it would move past.                                       *)
InOrder(got) ==
    \A m \in 1 .. Len(got), e \in ToSet(file) :
        (view.last <= e.time /\ e.time < got[m].time)
            => Late(e) \/ \E l \in 1 .. m - 1 : got[l] = e

ViewInv == view # None => view \in View /\ ViewOK(view) /\ PassedNone(view)

PollOK(q) ==
    \/ q = None
    \/ \E t \in Nat : q = [since |-> t] /\ t <= view.last
    \/ \E got \in Seq(ToSet(written)) : q = [got |-> got] /\ InOrder(got)

PollInv == \A p \in Poll : poll[p] # None => view # None /\ PollOK(poll[p])

Inv == PublishInv /\ FileInv /\ ViewInv /\ PollInv

USE EventStreamAssumption DEF Writer

-----------------------------------------------------------------------------
(* Feed is the state of its loop after the last event.                        *)
FeedOne(v, e, late, which) == IF which = "all" THEN Take(v, e, late) ELSE Ingest(v, e, late)

FedUpTo(v, es, late, which, n, f) ==
    f = [i \in 0 .. n |-> IF i = 0 THEN v ELSE FeedOne(f[i - 1], es[i], late, which)]

Fed(v, es, late, which, f) ==
    /\ Feed(v, es, late, which) = f[Len(es)] /\ f[0] = v
    /\ \A n \in 1 .. Len(es) : f[n] = FeedOne(f[n - 1], es[n], late, which)

LEMMA FeedDefined ==
    ASSUME NEW v, NEW es, Len(es) \in Nat, NEW late, NEW which
    PROVE  \E f : Fed(v, es, late, which, f)
<1> DEFINE S == {n \in Nat : \E f : FedUpTo(v, es, late, which, n, f)}
<1>1. 0 \in S
  <2>1. FedUpTo(v, es, late, which, 0, [i \in 0 .. 0 |-> v])
    BY DEF FedUpTo
  <2> QED
    BY <2>1
<1>2. ASSUME NEW n \in 0 .. Len(es) - 1, n \in S PROVE n + 1 \in S
  <2>1. PICK f : FedUpTo(v, es, late, which, n, f)
    BY <1>2
  <2> DEFINE last == FeedOne(f[n], es[n + 1], late, which)
             g == [i \in 0 .. n + 1 |-> IF i <= n THEN f[i] ELSE last]
             Right(i) == IF i = 0 THEN v ELSE FeedOne(g[i - 1], es[i], late, which)
  <2>2. \A i \in 0 .. n : g[i] = f[i]
    OBVIOUS
  <2>3. g[n + 1] = last
    OBVIOUS
  <2>4. ASSUME NEW i \in 0 .. n PROVE g[i] = Right(i)
    <3> HIDE DEF g
    <3>1. CASE i = 0
      BY <3>1, <2>1, <2>2 DEF FedUpTo
    <3>2. CASE i # 0
      <4>1. i - 1 \in 0 .. n
        BY <3>2
      <4> QED
        BY <3>2, <4>1, <2>1, <2>2 DEF FedUpTo
    <3> QED
      BY <3>1, <3>2
  <2>5. g[n + 1] = Right(n + 1)
    <3> HIDE DEF g
    <3> QED
      BY <2>2, <2>3
  <2>6. FedUpTo(v, es, late, which, n + 1, g)
    <3>1. g = [i \in 0 .. n + 1 |-> g[i]]
      OBVIOUS
    <3>2. \A i \in 0 .. n + 1 : g[i] = Right(i)
      <4> HIDE DEF g, Right
      <4> QED
        BY <2>4, <2>5
    <3> HIDE DEF g
    <3> QED
      BY <3>1, <3>2 DEF FedUpTo
  <2> QED
    BY <2>6
<1>3. \A n \in 0 .. Len(es) : n \in S
  <2> HIDE DEF S
  <2> QED BY <1>1, <1>2, Induct
<1> DEFINE f == CHOOSE f : FedUpTo(v, es, late, which, Len(es), f)
<1>4. FedUpTo(v, es, late, which, Len(es), f)
  BY <1>3
<1>5. Feed(v, es, late, which) = f[Len(es)]
  BY DEF Feed, FedUpTo, FeedOne
<1>6. f[0] = v /\ \A n \in 1 .. Len(es) : f[n] = FeedOne(f[n - 1], es[n], late, which)
  <2> DEFINE R(i) == IF i = 0 THEN v ELSE FeedOne(f[i - 1], es[i], late, which)
  <2> HIDE DEF f
  <2>1. f = [i \in 0 .. Len(es) |-> R(i)]
    BY <1>4 DEF FedUpTo
  <2>2. \A i \in 0 .. Len(es) : f[i] = R(i)
    <3> HIDE DEF R
    <3> QED BY <2>1
  <2> QED
    BY <2>2
<1> QED
  BY <1>5, <1>6 DEF Fed

-----------------------------------------------------------------------------
(* Taking an event that was written.                                          *)

(* The board of a view that took one more event has only what was taken.      *)
LEMMA OnBoardOfTaken ==
    ASSUME NEW v, v.board \in Board, BoardOf(v), NEW e \in Event, NEW late \in Nat,
           NEW w, w.board = OnBoard(v.board, e, late), w.took = v.took \cup {e}
    PROVE  w.board \in Board /\ BoardOf(w)
<1> DEFINE b == v.board
           known == e.runner \in Runner /\ b[e.runner].state # "absent"
           shown == CASE e.kind = "runner.spawned" -> Set(b, e.runner, "starting", 0)
                      [] e.kind = "job.started" /\ known -> Set(b, e.runner, "running", 0)
                      [] e.kind = "job.completed" /\ known ->
                           Set(b, e.runner, "completing", b[e.runner].at)
                      [] e.kind = "runner.completed" /\ known -> Set(b, e.runner, "done", e.time)
                      [] OTHER -> b
<1>1. w.board = [r \in Runner |-> IF shown[r].state = "done" /\ shown[r].at < late
                                 THEN Absent ELSE shown[r]]
  BY DEF OnBoard
<1>2. b \in [Runner -> [state : States, at : Nat]]
  BY DEF Board
<1>3. \A r, st, at : Set(b, r, st, at) = [b EXCEPT ![r] = [state |-> st, at |-> at]]
  BY DEF Set
<1>4. /\ {"starting", "running", "completing", "done", "absent"} \subseteq States
      /\ e.time \in Nat /\ (e.runner \in Runner => b[e.runner].at \in Nat)
  BY <1>2 DEF States, Event
<1>5. /\ shown \in [Runner -> [state : States, at : Nat]]
      /\ \A r \in Runner :
           \/ shown[r] = b[r]
           \/ /\ e.runner = r
              /\ \/ e.kind = "runner.spawned" /\ shown[r].state = "starting"
                 \/ known /\ e.kind = "job.started" /\ shown[r].state = "running"
                 \/ known /\ e.kind = "job.completed" /\ shown[r].state = "completing"
                 \/ known /\ e.kind = "runner.completed" /\ shown[r].state = "done"
  <2> HIDE DEF b
  <2> DEFINE Becomes(st, at) == [b EXCEPT ![e.runner] = [state |-> st, at |-> at]]
  <2>1. ASSUME NEW st \in States, NEW at \in Nat
        PROVE  /\ Becomes(st, at) \in [Runner -> [state : States, at : Nat]]
               /\ \A r \in Runner : \/ Becomes(st, at)[r] = b[r]
                                    \/ e.runner = r /\ Becomes(st, at)[r].state = st
    BY <1>2
  <2>2. CASE e.kind = "runner.spawned"
    <3>1. shown = Becomes("starting", 0)
      BY <1>3, <2>2
    <3> QED
      BY <1>4, <2>1, <2>2, <3>1
  <2>3. CASE e.kind = "job.started" /\ known
    <3>1. shown = Becomes("running", 0)
      BY <1>3, <2>3
    <3> QED
      BY <1>4, <2>1, <2>3, <3>1
  <2>4. CASE e.kind = "job.completed" /\ known
    <3>1. shown = Becomes("completing", b[e.runner].at) /\ b[e.runner].at \in Nat
      BY <1>3, <1>4, <2>4
    <3> QED
      BY <1>4, <2>1, <2>4, <3>1
  <2>5. CASE e.kind = "runner.completed" /\ known
    <3>1. shown = Becomes("done", e.time)
      BY <1>3, <2>5
    <3> QED
      BY <1>4, <2>1, <2>5, <3>1
  <2>6. CASE /\ e.kind # "runner.spawned" /\ ~ (e.kind = "job.started" /\ known)
             /\ ~ (e.kind = "job.completed" /\ known) /\ ~ (e.kind = "runner.completed" /\ known)
    <3>1. shown = b
      BY <2>6
    <3> QED
      BY <1>2, <3>1
  <2> QED
    BY <2>2, <2>3, <2>4, <2>5, <2>6
<1>6. w.board \in Board
  <2> HIDE DEF shown
  <2>1. Absent \in [state : States, at : Nat]
    BY DEF Absent, States
  <2> QED
    BY <1>1, <1>5, <2>1 DEF Board
<1>7. ASSUME NEW r \in Runner
      PROVE  LET took == {x.kind : x \in {y \in w.took : y.runner = r}} IN
             CASE w.board[r].state = "absent"     -> TRUE
               [] w.board[r].state = "starting"   -> "runner.spawned" \in took
               [] w.board[r].state = "running"    -> {"runner.spawned", "job.started"} \subseteq took
               [] w.board[r].state = "completing" -> {"runner.spawned", "job.completed"} \subseteq took
               [] w.board[r].state = "done"       -> {"runner.spawned", "runner.completed"} \subseteq took
  <2> DEFINE before == {x.kind : x \in {y \in v.took : y.runner = r}}
             after == {x.kind : x \in {y \in w.took : y.runner = r}}
  <2>1. before \subseteq after /\ (e.runner = r => e.kind \in after)
    OBVIOUS
  <2>2. v.board[r].state \in States /\ (v.board[r].state # "absent" => "runner.spawned" \in before)
    BY DEF BoardOf, Board, States
  <2>3. CASE w.board[r] = Absent
    BY <2>3 DEF Absent
  <2>4. CASE w.board[r] = v.board[r]
    <3> HIDE DEF before, after
    <3> QED
      BY <2>1, <2>2, <2>4 DEF BoardOf, before, after, States
  <2>5. CASE w.board[r] # v.board[r] /\ w.board[r] # Absent
    <3>1. /\ e.runner = r
          /\ \/ e.kind = "runner.spawned" /\ w.board[r].state = "starting"
             \/ v.board[r].state # "absent" /\ e.kind = "job.started" /\ w.board[r].state = "running"
             \/ v.board[r].state # "absent" /\ e.kind = "job.completed" /\ w.board[r].state = "completing"
             \/ v.board[r].state # "absent" /\ e.kind = "runner.completed" /\ w.board[r].state = "done"
      <4> HIDE DEF shown
      <4> QED BY <1>1, <1>5, <2>5
    <3> HIDE DEF before, after
    <3> QED
      BY <2>1, <2>2, <3>1 DEF after
  <2> QED
    BY <2>3, <2>4, <2>5
<1> QED
  BY <1>6, <1>7 DEF BoardOf

(* A sequence over a set is one over every larger set.                        *)
LEMMA SeqWider ==
    ASSUME NEW A, NEW B, A \subseteq B, NEW s \in Seq(A)
    PROVE  s \in Seq(B)
<1>1. Len(s) \in Nat /\ s = [i \in 1 .. Len(s) |-> s[i]] /\ \A i \in 1 .. Len(s) : s[i] \in B
  OBVIOUS
<1> QED
  BY <1>1

(* A sequence has the elements at its indices.                                *)
LEMMA SeqFacts ==
    ASSUME NEW A, NEW s \in Seq(A)
    PROVE  /\ Len(s) \in Nat /\ DOMAIN s = 1 .. Len(s) /\ ToSet(s) \subseteq A
           /\ \A i \in 1 .. Len(s) : s[i] \in A /\ s[i] \in ToSet(s)
           /\ \A x \in ToSet(s) : \E i \in 1 .. Len(s) : s[i] = x
  BY DEF ToSet

(* What is left when the head is dropped.                                     *)
LEMMA TailOK ==
    ASSUME NEW A, NEW s \in Seq(A), Len(s) >= 1
    PROVE  Tail(s) \in Seq(A) /\ Len(Tail(s)) = Len(s) - 1
<1>1. s # <<>> /\ Len(s) \in Nat
  OBVIOUS
<1> QED
  BY <1>1

(* An event that is taken joins those that were, and the last stamp is the    *)
(* later of the two.                                                          *)
LEMMA TakeOK ==
    ASSUME NEW v \in View, ViewOK(v), ToSet(written) \subseteq Event,
           NEW e \in ToSet(written), NEW late \in Nat
    PROVE  /\ Take(v, e, late) \in View /\ ViewOK(Take(v, e, late))
           /\ Take(v, e, late).took = v.took \cup {e}
           /\ v.last <= Take(v, e, late).last
           /\ Take(v, e, late).last \in {v.last, e.time}
<1> DEFINE w == Take(v, e, late)
<1>1. /\ e \in Event /\ e.time \in Nat /\ v.last \in Nat
      /\ v.events \in Seq(v.took) /\ Len(v.events) <= MaxEvents
      /\ v.took \subseteq ToSet(written) /\ v.board \in Board /\ BoardOf(v)
  BY DEF ViewOK, Event
<1>2. /\ w.events = Append(IF Len(v.events) >= MaxEvents THEN Tail(v.events) ELSE v.events, e)
      /\ w.last = IF e.time > v.last THEN e.time ELSE v.last
      /\ w.board = OnBoard(v.board, e, late)
      /\ w.took = v.took \cup {e}
      /\ w = [events |-> w.events, last |-> w.last, board |-> w.board, took |-> w.took]
  BY DEF Take
<1> HIDE DEF w
<1>3. w.board \in Board /\ BoardOf(w)
  BY <1>1, <1>2, OnBoardOfTaken
<1>4. w.events \in Seq(w.took) /\ Len(w.events) <= MaxEvents
  <2>1. v.events \in Seq(w.took) /\ e \in w.took
    BY <1>1, <1>2, SeqWider
  <2>2. MaxEvents \in Nat \ {0} /\ Len(v.events) \in Nat
    BY <1>1
  <2>3. CASE Len(v.events) >= MaxEvents
    <3>1. Len(v.events) >= 1
      BY <2>2, <2>3
    <3>2. Tail(v.events) \in Seq(w.took) /\ Len(Tail(v.events)) = Len(v.events) - 1
      BY <2>1, <3>1, TailOK
    <3> QED
      BY <1>1, <1>2, <2>1, <2>2, <2>3, <3>2
  <2>4. CASE ~ (Len(v.events) >= MaxEvents)
    BY <1>2, <2>1, <2>2, <2>4
  <2> QED
    BY <2>3, <2>4
<1>5. w.took \subseteq ToSet(written) /\ w.took \in SUBSET Event
  BY <1>1, <1>2
<1>6. w.last \in Nat /\ v.last <= w.last /\ w.last \in {v.last, e.time}
  BY <1>1, <1>2
<1>7. w.last # 0 => \E x \in w.took : x.time = w.last
  BY <1>2, <1>6 DEF ViewOK
<1>8. w \in View
  <2>1. w.events \in Seq(Event)
    BY <1>4, <1>5, SeqWider
  <2> QED
    BY <1>2, <1>3, <1>5, <1>6, <2>1 DEF View
<1>9. ViewOK(w)
  BY <1>3, <1>4, <1>5, <1>6, <1>7 DEF ViewOK
<1> QED
  BY <1>2, <1>6, <1>8, <1>9 DEF w

(* An event that is ingested is out of date or known, or it is taken.         *)
LEMMA IngestOK ==
    ASSUME NEW v \in View, ViewOK(v), ToSet(written) \subseteq Event,
           NEW e \in ToSet(written), NEW late \in Nat
    PROVE  /\ Ingest(v, e, late) \in View /\ ViewOK(Ingest(v, e, late))
           /\ v.took \subseteq Ingest(v, e, late).took
           /\ v.last <= Ingest(v, e, late).last
           /\ Ingest(v, e, late).last \in {v.last, e.time}
           /\ e.time < v.last \/ TwinIn(Ingest(v, e, late), e)
<1>1. v.last \in Nat /\ v.events \in Seq(v.took)
  BY DEF ViewOK
<1>2. CASE e.time < v.last
  BY <1>1, <1>2 DEF Ingest
<1>3. CASE IsDup(v, e)
  <2>1. PICK i \in DOMAIN v.events :
          /\ v.events[i].kind = e.kind
          /\ \A j \in i .. Len(v.events) : v.events[j].time = e.time
    BY <1>3 DEF IsDup
  <2>2. i \in i .. Len(v.events) /\ v.events[i] \in v.took
    BY <1>1
  <2>3. TwinIn(v, e)
    BY <2>1, <2>2 DEF TwinIn
  <2> QED
    BY <1>1, <1>3, <2>3 DEF Ingest
<1>4. CASE ~ (e.time < v.last) /\ ~ IsDup(v, e)
  <2>1. Ingest(v, e, late) = Take(v, e, late)
    BY <1>4 DEF Ingest
  <2>2. e \in Take(v, e, late).took /\ v.took \subseteq Take(v, e, late).took
    BY TakeOK
  <2> QED
    BY <2>1, <2>2, TakeOK DEF TwinIn
<1> QED
  BY <1>2, <1>3, <1>4

-----------------------------------------------------------------------------
(* The dashboard.                                                             *)

(* An event of the file that stands before one with an earlier stamp makes it *)
(* late.                                                                      *)
LEMMA LateInFile ==
    ASSUME FileInv, NEW i \in 1 .. Len(file), NEW j \in 1 .. Len(file), i < j,
           file[i].time > file[j].time
    PROVE  Late(file[j])
<1>1. PICK k \in Nat : /\ Len(written) = k + Len(file)
                        /\ \A l \in 1 .. Len(file) : file[l] = written[k + l]
  BY DEF FileInv
<1>2. written \in Seq(EventSet) /\ file \in Seq(EventSet) /\ Len(file) \in Nat
  BY DEF FileInv
<1>3. k + i \in DOMAIN written /\ k + j \in DOMAIN written /\ k + i < k + j
  BY <1>1, <1>2
<1> QED
  BY <1>1, <1>3 DEF Late

(* Open: the history is taken whole, and what stands before it is older than  *)
(* the daemon.                                                                *)
LEMMA OpenKeeps == Inv /\ Open => ViewInv' /\ view' # None
<1> SUFFICES ASSUME Inv, Open PROVE ViewInv' /\ view' # None
  OBVIOUS
<1>1. /\ UNCHANGED <<publishVars, storeVars, sub, poll>>
      /\ \E late \in 0 .. clock : view' = Feed(Closed, History, late, "all")
  BY DEF Open
<1>2. PICK late \in 0 .. clock : view' = Feed(Closed, History, late, "all")
  BY <1>1
<1>3. /\ file \in Seq(EventSet) /\ written \in Seq(EventSet) /\ clock \in Nat
      /\ Len(file) \in Nat /\ Len(written) \in Nat /\ DOMAIN file = 1 .. Len(file)
      /\ \A x \in ToSet(file) : \E i \in 1 .. Len(file) : file[i] = x
      /\ \A i \in 1 .. Len(written) : written[i] \in ToSet(written)
  BY SeqFacts DEF Inv, PublishInv, FileInv
<1>4. ToSet(written) \subseteq Event
  <2>1. EventSet \subseteq Event
    BY <1>3 DEF EventSet, Event
  <2> QED
    BY <1>3, <2>1, SeqFacts
<1> DEFINE starts == {i \in DOMAIN file : file[i] = DaemonStarted}
           from == IF starts = {} THEN 1 ELSE CHOOSE i \in starts : \A j \in starts : j <= i
<1>5. PICK k \in Nat : /\ Len(written) = k + Len(file)
                        /\ \A l \in 1 .. Len(file) : file[l] = written[k + l]
  BY DEF Inv, FileInv
<1>6. ASSUME NEW i \in starts PROVE k + i = 2
  <2>1. i \in 1 .. Len(file) /\ file[i] = DaemonStarted
    BY <1>3
  <2>2. k + i \in 1 .. Len(written) /\ written[k + i] = DaemonStarted
    BY <1>3, <1>5, <2>1
  <2> QED
    BY <2>2 DEF Inv, FileInv
<1>7. /\ from \in Nat /\ from >= 1 /\ from <= Len(file) + 1
      /\ \A i \in 1 .. from - 1 : k + i = 1
  <2>1. CASE starts = {}
    BY <1>3, <2>1
  <2>2. CASE starts # {}
    <3>1. PICK i \in starts : TRUE
      BY <2>2
    <3>2. \A j \in starts : j <= i
      BY <1>3, <1>6
    <3>3. from \in starts
      BY <2>2, <3>2
    <3> QED
      BY <1>3, <1>6, <3>3
  <2> QED
    BY <2>1, <2>2
<1> DEFINE h == History
<1>8. h = SubSeq(file, from, Len(file))
  BY DEF History
<1>9. /\ Len(h) = Len(file) - from + 1 /\ Len(h) \in Nat
      /\ \A i \in 1 .. Len(h) : h[i] = file[from + i - 1]
  <2> HIDE DEF from
  <2> QED BY <1>3, <1>7, <1>8
<1> HIDE DEF from, h, starts
<1>10. \A i \in 1 .. Len(h) : h[i] \in ToSet(written)
  <2> SUFFICES ASSUME NEW i \in 1 .. Len(h) PROVE h[i] \in ToSet(written)
    OBVIOUS
  <2>1. from + i - 1 \in 1 .. Len(file) /\ h[i] = file[from + i - 1]
    BY <1>3, <1>7, <1>9
  <2>2. k + (from + i - 1) \in 1 .. Len(written) /\ h[i] = written[k + (from + i - 1)]
    BY <1>3, <1>5, <2>1
  <2> QED
    BY <1>3, <2>2
<1>11. PICK f : Fed(Closed, h, late, "all", f)
  BY <1>9, FeedDefined
<1>12. /\ Feed(Closed, h, late, "all") = f[Len(h)] /\ f[0] = Closed
       /\ \A n \in 1 .. Len(h) : f[n] = FeedOne(f[n - 1], h[n], late, "all")
  BY <1>11 DEF Fed
<1> DEFINE S == {n \in 0 .. Len(h) : /\ f[n] \in View /\ ViewOK(f[n])
                                     /\ \A i \in 1 .. n : h[i] \in f[n].took}
<1>13. 0 \in S
  <2>1. /\ Closed.events = <<>> /\ Closed.last = 0 /\ Closed.took = {}
        /\ Closed.board = [r \in Runner |-> Absent]
        /\ Closed = [events |-> Closed.events, last |-> Closed.last, board |-> Closed.board,
                     took |-> Closed.took]
    BY DEF Closed
  <2>2. Closed.board \in Board /\ BoardOf(Closed)
    <3>1. \A r \in Runner : Closed.board[r] = Absent /\ Closed.board[r].state = "absent"
      BY <2>1 DEF Absent
    <3>2. Absent \in [state : States, at : Nat]
      BY DEF Absent, States
    <3>3. Closed.board \in Board
      BY <2>1, <3>2 DEF Board
    <3> QED
      BY <3>1, <3>3 DEF BoardOf
  <2>3. <<>> \in Seq(Event) /\ <<>> \in Seq({}) /\ Len(<<>>) <= MaxEvents
    OBVIOUS
  <2>4. Closed \in View
    <3>1. /\ Closed.events \in Seq(Event) /\ Closed.last \in Nat /\ Closed.board \in Board
          /\ Closed.took \in SUBSET Event
      BY <2>1, <2>2
    <3> QED
      BY <2>1, <3>1 DEF View
  <2>5. ViewOK(Closed)
    BY <2>1, <2>2, <2>3 DEF ViewOK
  <2> QED
    BY <1>9, <1>12, <2>4, <2>5
<1>14. ASSUME NEW n \in 0 .. Len(h) - 1, n \in S PROVE n + 1 \in S
  <2>1. n + 1 \in 1 .. Len(h) /\ (n + 1) - 1 = n
    BY <1>9
  <2>2. f[n + 1] = Take(f[n], h[n + 1], late)
    BY <1>12, <2>1 DEF FeedOne
  <2>3. /\ f[n] \in View /\ ViewOK(f[n]) /\ h[n + 1] \in ToSet(written)
        /\ \A i \in 1 .. n : h[i] \in f[n].took
        /\ late \in Nat /\ ToSet(written) \subseteq Event
    BY <1>3, <1>4, <1>10, <1>14, <2>1
  <2>4. f[n + 1] \in View /\ ViewOK(f[n + 1]) /\ f[n + 1].took = f[n].took \cup {h[n + 1]}
    <3> DEFINE v == f[n]
               e == h[n + 1]
    <3>1. v \in View /\ ViewOK(v) /\ e \in ToSet(written) /\ f[n + 1] = Take(v, e, late)
      BY <2>2, <2>3
    <3> HIDE DEF v, e
    <3>2. Take(v, e, late) \in View /\ ViewOK(Take(v, e, late)) /\ Take(v, e, late).took = v.took \cup {e}
      BY <2>3, <3>1, TakeOK
    <3> QED
      BY <3>1, <3>2 DEF v, e
  <2>5. \A i \in 1 .. n + 1 : h[i] \in f[n + 1].took
    BY <2>3, <2>4
  <2> QED
    BY <2>1, <2>4, <2>5
<1>15. view' \in View /\ ViewOK(view') /\ \A i \in 1 .. Len(h) : h[i] \in view'.took
  <2>1. Len(h) \in S
    <3>1. \A n \in 0 .. Len(h) - 1 : n \in S => n + 1 \in S
      BY <1>14
    <3> HIDE DEF S
    <3>2. \A n \in 0 .. Len(h) : n \in S
      BY <1>9, <1>13, <3>1, Induct
    <3> QED
      BY <1>9, <3>2
  <2> QED
    BY <1>2, <1>12, <2>1 DEF h
<1>16. ASSUME NEW e \in ToSet(file) PROVE Old(e) \/ TwinIn(view', e)
  <2>1. PICK j \in 1 .. Len(file) : file[j] = e
    BY <1>3
  <2>2. CASE j < from
    <3>1. k + j = 1
      BY <1>7, <2>2
    <3>2. e = written[1]
      BY <1>5, <2>1, <3>1
    <3> QED
      BY <3>2 DEF Old, DaemonStarted, Entry, Inv, FileInv
  <2>3. CASE j >= from
    <3>1. j - from + 1 \in 1 .. Len(h) /\ h[j - from + 1] = e
      BY <1>7, <1>9, <2>1, <2>3
    <3>2. e \in view'.took
      BY <1>15, <3>1
    <3> QED
      BY <3>2 DEF TwinIn
  <2> QED
    BY <1>7, <2>2, <2>3
<1>17. ViewOK(view)' /\ PassedNone(view)'
  BY <1>1, <1>15, <1>16 DEF ViewOK, PassedNone, storeVars, Late, Old, TwinIn, BoardOf
<1> QED
  BY <1>15, <1>17 DEF ViewInv

(* Deliver: of the events of an answer, each is known or taken before an      *)
(* event that would make the view move past it.                               *)
LEMMA DeliverKeeps ==
    ASSUME Inv, NEW p \in Poll, Deliver(p)
    PROVE  ViewInv' /\ view' # None /\ view.last \in Nat /\ view'.last \in Nat
           /\ view.last <= view'.last
<1>1. /\ UNCHANGED <<publishVars, storeVars, sub>>
      /\ poll[p] # None /\ DOMAIN poll[p] = {"got"}
      /\ \E late \in 0 .. clock : view' = Feed(view, poll[p].got, late, "new")
  BY DEF Deliver
<1>2. PICK late \in 0 .. clock : view' = Feed(view, poll[p].got, late, "new")
  BY <1>1
<1>3. /\ file \in Seq(EventSet) /\ written \in Seq(EventSet) /\ clock \in Nat
      /\ view # None /\ view \in View /\ ViewOK(view) /\ PassedNone(view) /\ PollOK(poll[p])
  BY <1>1 DEF Inv, PublishInv, FileInv, ViewInv, PollInv
<1>4. ToSet(written) \subseteq Event
  <2>1. EventSet \subseteq Event
    BY <1>3 DEF EventSet, Event
  <2> QED
    BY <1>3, <2>1, SeqFacts
<1>5. ToSet(file) \subseteq Event
  <2>1. EventSet \subseteq Event
    BY <1>3 DEF EventSet, Event
  <2> QED
    BY <1>3, <2>1, SeqFacts
<1> DEFINE h == poll[p].got
<1>6. h \in Seq(ToSet(written)) /\ InOrder(h)
  <2>1. ASSUME NEW t, poll[p] = [since |-> t] PROVE FALSE
    BY <1>1, <2>1
  <2>2. PICK got \in Seq(ToSet(written)) : poll[p] = [got |-> got] /\ InOrder(got)
    BY <1>1, <1>3, <2>1 DEF PollOK
  <2> QED
    BY <2>2
<1> HIDE DEF h
<1>7. Len(h) \in Nat /\ \A i \in 1 .. Len(h) : h[i] \in ToSet(written)
  BY <1>6, SeqFacts
<1>8. PICK f : Fed(view, h, late, "new", f)
  BY <1>7, FeedDefined
<1>9. /\ view' = f[Len(h)] /\ f[0] = view
      /\ \A n \in 1 .. Len(h) : f[n] = FeedOne(f[n - 1], h[n], late, "new")
  BY <1>2, <1>8 DEF Fed, h
<1> DEFINE Seen(v, n) ==
             \A i \in 1 .. n : h[i] \in ToSet(file) => Late(h[i]) \/ Old(h[i]) \/ TwinIn(v, h[i])
           Good(v, n) ==
             /\ v \in View /\ ViewOK(v) /\ PassedNone(v) /\ view.last <= v.last
             /\ view.took \subseteq v.took
             /\ Seen(v, n)
           S == {n \in 0 .. Len(h) : Good(f[n], n)}
<1>10. view.last \in Nat
  BY <1>3 DEF View
<1>11. 0 \in S
  BY <1>3, <1>7, <1>9, <1>10
<1>12. ASSUME NEW n \in 0 .. Len(h) - 1, n \in S PROVE n + 1 \in S
  <2> DEFINE v == f[n]
             d == h[n + 1]
             w == Ingest(v, d, late)
  <2>1. n + 1 \in 1 .. Len(h) /\ (n + 1) - 1 = n /\ n \in Nat
    BY <1>7
  <2>2. f[n + 1] = w
    BY <1>9, <2>1 DEF FeedOne
  <2>3. Good(v, n) /\ d \in ToSet(written) /\ late \in Nat
    <3>1. Good(v, n)
      <4> HIDE DEF Good
      <4> QED BY <1>12
    <3>2. late \in Nat
      BY <1>3
    <3> QED
      BY <1>7, <2>1, <3>1, <3>2
  <2> HIDE DEF v
  <2>4. /\ w \in View /\ ViewOK(w) /\ v.took \subseteq w.took
        /\ v.last <= w.last /\ w.last \in {v.last, d.time}
        /\ d.time < v.last \/ TwinIn(w, d)
    BY <1>4, <2>3, IngestOK
  <2>5. v.last \in Nat /\ w.last \in Nat /\ d.time \in Nat
    BY <1>4, <2>3, <2>4 DEF View, Event
  <2>6. \A e : TwinIn(v, e) => TwinIn(w, e)
    BY <2>4 DEF TwinIn
  <2>7. Seen(w, n + 1)
    <3> SUFFICES ASSUME NEW i \in 1 .. n + 1, h[i] \in ToSet(file)
                 PROVE  Late(h[i]) \/ Old(h[i]) \/ TwinIn(w, h[i])
      OBVIOUS
    <3>1. CASE i \in 1 .. n
      BY <2>3, <2>6, <3>1
    <3>2. CASE i = n + 1
      <4>1. CASE d.time < v.last
        <5>1. d \in ToSet(file) /\ ~ (d.time >= v.last)
          BY <2>5, <3>2, <4>1
        <5>2. Late(d) \/ Old(d) \/ TwinIn(v, d)
          BY <2>3, <5>1 DEF PassedNone
        <5> QED
          BY <2>6, <3>2, <5>2
      <4>2. CASE TwinIn(w, d)
        BY <3>2, <4>2
      <4> QED
        BY <2>4, <4>1, <4>2
    <3> QED
      BY <2>1, <3>1, <3>2
  <2>8. PassedNone(w)
    <3> SUFFICES ASSUME NEW e \in ToSet(file), ~ Late(e), ~ Old(e), ~ TwinIn(w, e)
                 PROVE  e.time >= w.last
      BY DEF PassedNone
    <3>1. e.time >= v.last /\ e.time \in Nat
      BY <1>5, <2>3, <2>6 DEF PassedNone, Event
    <3>2. CASE w.last = v.last
      BY <3>1, <3>2
    <3>3. CASE w.last = d.time
      <4> SUFFICES ASSUME e.time < d.time PROVE FALSE
        BY <2>5, <3>1, <3>3
      <4>1. view.last <= e.time
        BY <1>10, <2>3, <2>5, <3>1
      <4>2. PICK l \in 1 .. (n + 1) - 1 : h[l] = e
        BY <1>6, <2>1, <4>1 DEF InOrder
      <4> QED
        BY <2>1, <2>3, <2>6, <4>2
    <3> QED
      BY <2>4, <3>2, <3>3
  <2>9. view.last <= w.last /\ view.took \subseteq w.took
    BY <1>10, <2>3, <2>4, <2>5
  <2> QED
    BY <2>1, <2>2, <2>4, <2>7, <2>8, <2>9
<1>13. Good(view', Len(h))
  <2>1. \A n \in 0 .. Len(h) - 1 : n \in S => n + 1 \in S
    BY <1>12
  <2> HIDE DEF S
  <2>2. \A n \in 0 .. Len(h) : n \in S
    BY <1>7, <1>11, <2>1, Induct
  <2>3. Len(h) \in S
    BY <1>7, <2>2
  <2> QED
    BY <1>9, <2>3 DEF S
<1> HIDE DEF S
<1>14. ViewOK(view)' /\ PassedNone(view)'
  BY <1>1, <1>13 DEF ViewOK, PassedNone, storeVars, Late, Old, TwinIn, BoardOf
<1>15. view' # None
  BY <1>13
<1> QED
  BY <1>10, <1>13, <1>14, <1>15 DEF ViewInv, View

(* Query: the answer has the events of the file from a stamp on, in their     *)
(* order.                                                                     *)
LEMMA QueryKeeps ==
    ASSUME Inv, NEW p \in Poll, Query(p)
    PROVE  \E got \in Seq(ToSet(written)) :
             /\ poll' = [poll EXCEPT ![p] = [got |-> got]]
             /\ InOrder(got)
<1>1. /\ poll[p] # None /\ DOMAIN poll[p] = {"since"}
      /\ poll' = [poll EXCEPT ![p] =
                    [got |-> Keep(file, {e \in ToSet(file) : e.time >= poll[p].since})]]
  BY DEF Query
<1>2. /\ file \in Seq(EventSet) /\ written \in Seq(EventSet) /\ clock \in Nat
      /\ view # None /\ view \in View /\ PollOK(poll[p])
  BY <1>1 DEF Inv, PublishInv, FileInv, ViewInv, PollInv
<1> DEFINE since == poll[p].since
           A == {e \in ToSet(file) : e.time >= since}
           got == Keep(file, A)
<1>3. since \in Nat /\ since <= view.last /\ view.last \in Nat
  <2>1. ASSUME NEW g, poll[p] = [got |-> g] PROVE FALSE
    BY <1>1, <2>1
  <2>2. PICK t \in Nat : poll[p] = [since |-> t] /\ t <= view.last
    BY <1>1, <1>2, <2>1 DEF PollOK
  <2> QED
    BY <1>2, <2>2 DEF View
<1>4. got \in Seq(EventSet) /\ KeptUpTo(file, A, Len(file), got)
  <2> HIDE DEF A
  <2> QED BY <1>2, KeepFacts
<1>5. /\ Len(got) \in Nat /\ Len(file) \in Nat
      /\ \A i \in 1 .. Len(file) : file[i] \in ToSet(file) /\ file[i] \in EventSet
      /\ \A x \in ToSet(file) : \E i \in 1 .. Len(file) : file[i] = x
  BY <1>2, <1>4, SeqFacts
<1> HIDE DEF since, got
<1>6. ASSUME NEW m \in 1 .. Len(got), NEW e \in ToSet(file),
             view.last <= e.time, e.time < got[m].time, ~ Late(e)
      PROVE  \E l \in 1 .. m - 1 : got[l] = e
  <2>1. PICK a \in 1 .. Len(file) :
          /\ file[a] = got[m] /\ file[a] \in A
          /\ \A b \in 1 .. a - 1 : file[b] \in A => \E l \in 1 .. m - 1 : got[l] = file[b]
    <3> HIDE DEF A
    <3> QED BY <1>4 DEF KeptUpTo
  <2>2. PICK b \in 1 .. Len(file) : file[b] = e
    BY <1>5
  <2>3. e.time \in Nat /\ got[m].time \in Nat
    <3>1. \A x \in EventSet : x.time \in Nat
      BY <1>2 DEF EventSet
    <3>2. file[a] \in EventSet /\ file[b] \in EventSet
      BY <1>5
    <3> QED
      BY <3>1, <3>2, <2>1, <2>2
  <2>4. ~ (a < b)
    BY <1>6, <2>1, <2>2, <2>3, LateInFile DEF Inv
  <2>5. a # b
    BY <1>6, <2>1, <2>2, <2>3
  <2>6. b \in 1 .. a - 1
    BY <2>4, <2>5
  <2>7. e.time >= since
    BY <1>3, <1>6, <2>3
  <2>8. file[b] \in A
    BY <2>2, <2>7
  <2> QED
    BY <2>1, <2>2, <2>6, <2>8
<1>7. InOrder(got)
  BY <1>6 DEF InOrder
<1>8. got \in Seq(ToSet(written))
  <2>1. \A x \in ToSet(file) : x \in ToSet(written)
    <3>1. PICK k \in Nat : /\ Len(written) = k + Len(file)
                            /\ \A i \in 1 .. Len(file) : file[i] = written[k + i]
      BY DEF Inv, FileInv
    <3> SUFFICES ASSUME NEW i \in 1 .. Len(file) PROVE file[i] \in ToSet(written)
      BY <1>5
    <3>2. k + i \in 1 .. Len(written)
      BY <1>5, <3>1
    <3> QED
      BY <1>2, <3>1, <3>2, SeqFacts
  <2>2. \A m \in 1 .. Len(got) : got[m] \in ToSet(file)
    <3> HIDE DEF A
    <3>1. \A m \in 1 .. Len(got) : \E a \in 1 .. Len(file) : file[a] = got[m]
      BY <1>4 DEF KeptUpTo
    <3> QED
      BY <1>5, <3>1
  <2>3. got = [i \in 1 .. Len(got) |-> got[i]]
    BY <1>4
  <2> QED
    BY <1>5, <2>1, <2>2, <2>3
<1> QED
  BY <1>1, <1>7, <1>8 DEF got, since

-----------------------------------------------------------------------------
(* What a step leaves alone keeps its part of the invariant.                  *)
LEMMA FileFrame ==
    ASSUME FileInv, UNCHANGED storeVars, clock \in Nat, clock' \in Nat, clock <= clock'
    PROVE  FileInv'
<1>1. EventSet \subseteq EventSet'
  BY DEF EventSet
<1>2. written \in Seq(EventSet') /\ file \in Seq(EventSet')
  BY <1>1, SeqWider DEF FileInv
<1> QED
  BY <1>2 DEF FileInv, storeVars

LEMMA ViewFrame ==
    ASSUME ViewInv, UNCHANGED <<file, written, view>>
    PROVE  ViewInv'
  BY DEF ViewInv, ViewOK, PassedNone, Late, Old, TwinIn, BoardOf

LEMMA PollFrame ==
    ASSUME PollInv, UNCHANGED <<file, written, view, poll>>
    PROVE  PollInv'
<1>1. \A got : InOrder(got)' <=> InOrder(got)
  BY DEF InOrder, Late
<1>2. \A p \in Poll : PollOK(poll[p])' <=> PollOK(poll[p])
  BY <1>1 DEF PollOK
<1> QED
  BY <1>2 DEF PollInv

(* An event that is written after one with a later stamp is late, and an      *)
(* event that was late stays so.                                              *)
LEMMA LateWhenWritten ==
    ASSUME NEW e, written' = Append(written, e), written \in Seq(EventSet)
    PROVE  /\ \A x \in ToSet(written) : x.time > e.time => Late(e)'
           /\ \A x : Late(x) => Late(x)'
           /\ ToSet(written) \subseteq ToSet(written')
           /\ e \in ToSet(written')
<1>1. /\ Len(written) \in Nat /\ DOMAIN written = 1 .. Len(written)
      /\ DOMAIN written' = 1 .. Len(written) + 1
      /\ written'[Len(written) + 1] = e
      /\ \A i \in 1 .. Len(written) : written'[i] = written[i]
  OBVIOUS
<1>2. /\ ToSet(written) = {written[i] : i \in 1 .. Len(written)}
      /\ ToSet(written') = {written'[i] : i \in 1 .. Len(written) + 1}
  BY <1>1 DEF ToSet
<1>3. ASSUME NEW x \in ToSet(written), x.time > e.time PROVE Late(e)'
  <2>1. PICK i \in 1 .. Len(written) : written[i] = x
    BY <1>2
  <2>2. /\ i \in DOMAIN written' /\ Len(written) + 1 \in DOMAIN written' /\ i < Len(written) + 1
        /\ written'[i] = x
    BY <1>1, <2>1
  <2> QED
    BY <1>1, <1>3, <2>2 DEF Late
<1>4. ASSUME NEW x, Late(x) PROVE Late(x)'
  BY <1>1, <1>4 DEF Late
<1>5. ToSet(written) \subseteq ToSet(written') /\ e \in ToSet(written')
  BY <1>1, <1>2
<1> QED
  BY <1>3, <1>4, <1>5

(* An event that joins the file is late, or neither the view nor an answer    *)
(* that waits has one with a later stamp.                                     *)
LEMMA AppendKeeps ==
    ASSUME Inv, NEW e \in EventSet, written' = Append(written, e),
           ToSet(file') \subseteq ToSet(file) \cup {e}, UNCHANGED <<view, poll>>
    PROVE  ViewInv' /\ PollInv'
<1>1. written \in Seq(EventSet) /\ clock \in Nat
  BY DEF Inv, PublishInv, FileInv
<1>2. written \in Seq(EventSet) /\ e.time \in Nat /\ ToSet(written) \subseteq EventSet
  <2>1. e.time \in Nat
    BY <1>1 DEF EventSet
  <2> QED
    BY <1>1, <2>1, SeqFacts
<1>3. /\ \A x \in ToSet(written) : x.time > e.time => Late(e)'
      /\ \A x : Late(x) => Late(x)'
      /\ ToSet(written) \subseteq ToSet(written')
  BY <1>2, LateWhenWritten
<1>4. ViewInv'
  <2> SUFFICES ASSUME view # None PROVE ViewOK(view)' /\ PassedNone(view)'
    BY DEF Inv, ViewInv
  <2>1. ViewOK(view) /\ PassedNone(view) /\ view \in View
    BY DEF Inv, ViewInv
  <2>2. ViewOK(view)'
    BY <1>3, <2>1 DEF ViewOK, BoardOf
  <2>3. ASSUME NEW x \in ToSet(file')
        PROVE  Late(x)' \/ Old(x) \/ x.time >= view.last \/ TwinIn(view, x)
    <3>1. CASE x \in ToSet(file)
      BY <1>3, <2>1, <3>1 DEF PassedNone
    <3>2. CASE x = e
      <4>1. view.last \in Nat /\ (view.last # 0 => \E d \in ToSet(written) : d.time = view.last)
        BY <2>1 DEF ViewOK
      <4> QED
        BY <1>2, <1>3, <3>2, <4>1
    <3> QED
      BY <2>3, <3>1, <3>2
  <2>4. PassedNone(view)'
    BY <2>3 DEF PassedNone, Old, TwinIn
  <2> QED
    BY <2>2, <2>4
<1>5. ASSUME NEW p \in Poll, poll[p] # None PROVE view # None /\ PollOK(poll[p])'
  <2>1. view # None /\ PollOK(poll[p])
    BY <1>5 DEF Inv, PollInv
  <2>2. CASE \E t \in Nat : poll[p] = [since |-> t] /\ t <= view.last
    BY <2>1, <2>2 DEF PollOK
  <2>3. ASSUME NEW got \in Seq(ToSet(written)), poll[p] = [got |-> got], InOrder(got)
        PROVE  PollOK(poll[p])'
    <3>1. got \in Seq(ToSet(written'))
      BY <1>3, SeqWider
    <3>2. ASSUME NEW m \in 1 .. Len(got), NEW x \in ToSet(file'),
                 view.last <= x.time, x.time < got[m].time
          PROVE  Late(x)' \/ \E l \in 1 .. m - 1 : got[l] = x
      <4>1. CASE x \in ToSet(file)
        BY <1>3, <2>3, <3>2, <4>1 DEF InOrder
      <4>2. CASE x = e
        <5>1. got[m] \in ToSet(written) /\ got[m] \in EventSet
          BY <1>2
        <5>2. got[m].time > e.time
          BY <1>2, <3>2, <4>2, <5>1 DEF EventSet
        <5> QED
          BY <1>3, <4>2, <5>1, <5>2
      <4> QED
        BY <3>2, <4>1, <4>2
    <3>3. InOrder(got)'
      BY <3>2 DEF InOrder
    <3> QED
      BY <2>3, <3>1, <3>3 DEF PollOK
  <2> QED
    BY <1>5, <2>1, <2>2, <2>3 DEF PollOK
<1> QED
  BY <1>4, <1>5 DEF PollInv

(* A file that only loses events is no harm to what is shown.                 *)
LEMMA LossKeeps ==
    ASSUME Inv, ToSet(file') \subseteq ToSet(file), UNCHANGED <<written, view, poll>>
    PROVE  ViewInv' /\ PollInv'
<1>1. \A x : Late(x)' <=> Late(x)
  BY DEF Late
<1>2. ViewInv'
  BY <1>1 DEF Inv, ViewInv, ViewOK, PassedNone, Old, TwinIn, BoardOf
<1>3. ASSUME NEW got, InOrder(got) PROVE InOrder(got)'
  BY <1>1, <1>3 DEF InOrder
<1>4. PollInv'
  BY <1>3 DEF Inv, PollInv, PollOK
<1> QED
  BY <1>2, <1>4

-----------------------------------------------------------------------------
(* Every step keeps the invariant.                                            *)
LEMMA InitInv == Init => Inv
<1> SUFFICES ASSUME Init PROVE Inv
  OBVIOUS
<1>1. /\ clock = 2 /\ file = Prior /\ written = Prior /\ torn = FALSE /\ view = None
      /\ poll = [p \in Poll |-> None] /\ setting \in Setting
      /\ stage = [w \in Writer |-> "idle"] /\ event = [w \in Writer |-> DaemonStarted]
      /\ sub = [s \in Subscriber |-> None]
  BY DEF Init
<1>2. /\ DaemonStarted \in EventSet /\ Entry("runner.completed", None, 1) \in EventSet
      /\ DaemonStarted # Entry("runner.completed", None, 1)
      /\ Entry("runner.completed", None, 1).time = 1
  BY <1>1 DEF EventSet, Kind, DaemonStarted, Entry
<1>3. /\ Prior \in Seq(EventSet) /\ Len(Prior) = 2
      /\ Prior[1] = Entry("runner.completed", None, 1) /\ Prior[2] = DaemonStarted
  BY <1>2 DEF Prior
<1>4. PublishInv
  BY <1>1, <1>2 DEF PublishInv
<1>5. FileInv
  <2>1. \A i \in 1 .. 2 : i = 1 \/ i = 2
    OBVIOUS
  <2>2. \A i \in 1 .. 2 : Prior[i] = DaemonStarted => i = 2
    BY <1>2, <1>3, <2>1
  <2>3. 0 \in Nat /\ 2 = 0 + 2 /\ \A i \in 1 .. 2 : 0 + i = i
    OBVIOUS
  <2>4. \E k \in Nat : 2 = k + 2 /\ \A i \in 1 .. 2 : Prior[i] = Prior[k + i]
    BY <2>3
  <2> QED
    <3>1. written \in Seq(EventSet) /\ file \in Seq(EventSet) /\ torn \in BOOLEAN
      BY <1>1, <1>3
    <3>2. /\ Len(written) >= 2 /\ written[1].time = 1 /\ written[2] = DaemonStarted
          /\ Len(file) <= MaxSize + 1
      BY <1>1, <1>2, <1>3
    <3>3. \A i \in 1 .. Len(written) : written[i] = DaemonStarted => i = 2
      BY <1>1, <1>3, <2>2
    <3>4. \E k \in Nat : /\ Len(written) = k + Len(file)
                         /\ \A i \in 1 .. Len(file) : file[i] = written[k + i]
      BY <1>1, <1>3, <2>4
    <3> QED
      BY <3>1, <3>2, <3>3, <3>4 DEF FileInv
<1>6. ViewInv /\ PollInv
  BY <1>1 DEF ViewInv, PollInv
<1> QED
  BY <1>4, <1>5, <1>6 DEF Inv

LEMMA StampKeeps == Inv /\ (\E w \in Writer : Stamp(w)) => Inv'
<1> SUFFICES ASSUME Inv, NEW w \in Writer, Stamp(w) PROVE Inv'
  OBVIOUS
<1>1. /\ stage[w] = "idle" /\ stage' = [stage EXCEPT ![w] = "append"]
      /\ UNCHANGED <<setting, storeVars, sub, viewVars>>
      /\ \E what \in Emits(w) \ emitted, t \in {clock, clock + 1} :
           clock' = t /\ event' = [event EXCEPT ![w] = Entry(what[1], what[2], t)]
  BY DEF Stamp
<1>2. PICK what \in Emits(w), t \in {clock, clock + 1} :
        clock' = t /\ event' = [event EXCEPT ![w] = Entry(what[1], what[2], t)]
  BY <1>1
<1>3. clock \in Nat /\ clock >= 2 /\ clock' \in Nat /\ clock <= clock' /\ t = clock'
  BY <1>2 DEF Inv, PublishInv
<1>4. what[1] \in Kind \ {"daemon.started"} /\ what[2] \in Runner
  <2>1. CASE w = Listener
    <3>1. \/ what \in {<<"runner.spawned", r>> : r \in Runner}
          \/ what \in {<<"job.started", r>> : r \in {x \in Runner : <<"runner.spawned", x>> \in emitted}}
          \/ what \in {<<"job.completed", r>> : r \in {x \in Runner : <<"job.started", x>> \in emitted}}
      BY <1>2, <2>1 DEF Emits
    <3>2. \E r \in Runner : \/ what = <<"runner.spawned", r>> \/ what = <<"job.started", r>>
                            \/ what = <<"job.completed", r>>
      BY <3>1
    <3> QED
      BY <3>2 DEF Kind
  <2>2. CASE w # Listener
    <3>1. \E r \in Runner : what = <<"runner.completed", r>>
      <4>1. what \in {<<"runner.completed", r>> :
                        r \in {x \in Runner : /\ x = w /\ <<"runner.spawned", x>> \in emitted
                                              /\ ~ (stage[Listener] # "idle"
                                                    /\ event[Listener].kind = "runner.spawned"
                                                    /\ event[Listener].runner = x)}}
        BY <1>2, <2>2 DEF Emits
      <4> QED
        BY <4>1
    <3> QED
      BY <3>1 DEF Kind
  <2> QED
    BY <2>1, <2>2
<1>5. EventSet \subseteq EventSet'
  BY <1>3 DEF EventSet
<1> DEFINE e == Entry(what[1], what[2], t)
<1>6. e \in EventSet' /\ e.kind # "daemon.started"
  BY <1>3, <1>4 DEF EventSet, Entry
<1> HIDE DEF e
<1>7. PublishInv'
  <2>1. event' = [event EXCEPT ![w] = e]
    BY <1>2 DEF e
  <2>2. event' \in [Writer -> EventSet']
    BY <1>5, <1>6, <2>1 DEF Inv, PublishInv
  <2>3. \A x \in Writer : stage'[x] = "append" => event'[x].kind # "daemon.started"
    BY <1>1, <1>6, <2>1 DEF Inv, PublishInv
  <2>4. stage' \in [Writer -> {"idle", "append", "send"}]
    BY <1>1 DEF Inv, PublishInv
  <2> QED
    BY <1>1, <1>3, <2>2, <2>3, <2>4 DEF Inv, PublishInv
<1>8. FileInv'
  BY <1>1, <1>3, FileFrame DEF Inv
<1>9. ViewInv' /\ PollInv'
  BY <1>1, ViewFrame, PollFrame DEF Inv, storeVars, viewVars
<1> QED
  BY <1>7, <1>8, <1>9 DEF Inv

LEMMA AppendStepKeeps == Inv /\ (\E w \in Writer : Append1(w)) => Inv'
<1> SUFFICES ASSUME Inv, NEW w \in Writer, Append1(w) PROVE Inv'
  OBVIOUS
<1>1. /\ stage[w] = "append" /\ stage' = [stage EXCEPT ![w] = "send"] /\ torn' = FALSE
      /\ UNCHANGED <<setting, clock, event, emitted, sub, viewVars>>
      /\ \/ file' = file /\ UNCHANGED written
         \/ file' = Append(Rotated, event[w]) /\ written' = Append(written, event[w])
  BY DEF Append1
<1>2. PublishInv'
  BY <1>1 DEF Inv, PublishInv, EventSet
<1>3. EventSet' = EventSet
  BY <1>1 DEF EventSet
<1>4. CASE file' = file /\ UNCHANGED written
  <2>1. FileInv'
    BY <1>1, <1>3, <1>4 DEF Inv, FileInv
  <2>2. ViewInv' /\ PollInv'
    BY <1>1, <1>4, ViewFrame, PollFrame DEF Inv, viewVars
  <2> QED
    BY <1>2, <2>1, <2>2 DEF Inv
<1>5. CASE file' = Append(Rotated, event[w]) /\ written' = Append(written, event[w])
  <2> DEFINE e == event[w]
  <2>1. e \in EventSet /\ e.kind # "daemon.started" /\ e # DaemonStarted
    BY <1>1 DEF Inv, PublishInv, DaemonStarted, Entry
  <2>2. /\ written \in Seq(EventSet) /\ file \in Seq(EventSet) /\ Len(written) \in Nat
        /\ Len(file) \in Nat /\ Len(written) >= 2
        /\ written[1].time = 1 /\ written[2] = DaemonStarted
        /\ \A i \in 1 .. Len(written) : written[i] = DaemonStarted => i = 2
        /\ MaxSize \in Nat \ {0}
    BY DEF Inv, FileInv
  <2>3. /\ Rotated \in Seq(EventSet) /\ Len(Rotated) <= MaxSize /\ Len(Rotated) \in Nat
        /\ ToSet(Rotated) \subseteq ToSet(file)
    BY <2>2 DEF Rotated, ToSet
  <2>4. PICK k \in Nat : /\ Len(written) = k + Len(Rotated)
                         /\ \A i \in 1 .. Len(Rotated) : Rotated[i] = written[k + i]
    <3>1. CASE Rotated = file
      BY <3>1 DEF Inv, FileInv
    <3>2. CASE Rotated = <<>>
      BY <2>2, <3>2
    <3> QED
      BY <3>1, <3>2 DEF Rotated
  <2> HIDE DEF e
  <2>5. /\ written' \in Seq(EventSet) /\ Len(written') = Len(written) + 1
        /\ written'[Len(written) + 1] = e
        /\ \A i \in 1 .. Len(written) : written'[i] = written[i]
    BY <1>5, <2>1, <2>2 DEF e
  <2>6. /\ file' \in Seq(EventSet) /\ Len(file') = Len(Rotated) + 1
        /\ file'[Len(Rotated) + 1] = e
        /\ \A i \in 1 .. Len(Rotated) : file'[i] = Rotated[i]
    BY <1>5, <2>1, <2>3 DEF e
  <2>7. \A i \in 1 .. Len(file') : file'[i] = written'[k + i]
    <3> SUFFICES ASSUME NEW i \in 1 .. Len(file') PROVE file'[i] = written'[k + i]
      OBVIOUS
    <3>1. CASE i \in 1 .. Len(Rotated)
      <4>1. k + i \in 1 .. Len(written)
        BY <2>3, <2>4, <3>1
      <4> QED
        BY <2>4, <2>5, <2>6, <3>1, <4>1
    <3>2. CASE i = Len(Rotated) + 1
      <4>1. k + i = Len(written) + 1
        BY <2>3, <2>4, <3>2
      <4> QED
        BY <2>5, <2>6, <3>2, <4>1
    <3> QED
      BY <2>3, <2>6, <3>1, <3>2
  <2>8. \A i \in 1 .. Len(written') : written'[i] = DaemonStarted => i = 2
    <3> SUFFICES ASSUME NEW i \in 1 .. Len(written'), written'[i] = DaemonStarted PROVE i = 2
      OBVIOUS
    <3>1. i \in 1 .. Len(written) \/ i = Len(written) + 1
      BY <2>2, <2>5
    <3> QED
      BY <2>1, <2>2, <2>5, <3>1
  <2>9. FileInv'
    <3>1. written'[1].time = 1 /\ written'[2] = DaemonStarted
      BY <2>2, <2>5
    <3>2. Len(file') <= MaxSize + 1 /\ Len(written') = k + Len(file')
      BY <2>2, <2>3, <2>4, <2>5, <2>6
    <3>3. \E l \in Nat : /\ Len(written') = l + Len(file')
                         /\ \A i \in 1 .. Len(file') : file'[i] = written'[l + i]
      BY <2>7, <3>2
    <3>4. torn' \in BOOLEAN
      BY <1>1
    <3>5. Len(written') >= 2
      BY <2>2, <2>5
    <3> QED
      BY <1>3, <2>5, <2>6, <2>8, <3>1, <3>2, <3>3, <3>4, <3>5 DEF FileInv
  <2>10. ToSet(file') \subseteq ToSet(file) \cup {e}
    <3> SUFFICES ASSUME NEW x \in ToSet(file') PROVE x \in ToSet(file) \cup {e}
      OBVIOUS
    <3>1. PICK i \in 1 .. Len(file') : file'[i] = x
      BY <2>6, SeqFacts
    <3>2. i \in 1 .. Len(Rotated) \/ i = Len(Rotated) + 1
      BY <2>3, <2>6
    <3>3. \A l \in 1 .. Len(Rotated) : Rotated[l] \in ToSet(Rotated)
      BY <2>3, SeqFacts
    <3> QED
      BY <2>3, <2>6, <3>1, <3>2, <3>3
  <2>11. ViewInv' /\ PollInv'
    BY <1>1, <1>5, <2>1, <2>10, AppendKeeps DEF viewVars, e
  <2> QED
    BY <1>2, <2>9, <2>11 DEF Inv
<1> QED
  BY <1>1, <1>4, <1>5

LEMMA AppendFailsKeeps == Inv /\ (\E w \in Writer : AppendFails(w)) => Inv'
<1> SUFFICES ASSUME Inv, NEW w \in Writer, AppendFails(w) PROVE Inv'
  OBVIOUS
<1>1. /\ stage[w] = "append" /\ stage' = [stage EXCEPT ![w] = "send"]
      /\ file' \in {file, Rotated} /\ torn' \in {torn /\ file' = file, TRUE}
      /\ UNCHANGED <<setting, clock, event, emitted, written, sub, viewVars>>
  BY DEF AppendFails
<1>2. PublishInv'
  BY <1>1 DEF Inv, PublishInv, EventSet
<1>3. EventSet' = EventSet
  BY <1>1 DEF EventSet
<1>4. file' = file \/ file' = <<>>
  BY <1>1 DEF Rotated
<1>5. torn' \in BOOLEAN
  BY <1>1 DEF Inv, FileInv
<1>6. FileInv'
  <2>1. CASE file' = file
    BY <1>1, <1>3, <1>5, <2>1 DEF Inv, FileInv
  <2>2. CASE file' = <<>>
    <3>1. /\ <<>> \in Seq(EventSet) /\ Len(<<>>) = 0 /\ Len(<<>>) <= MaxSize + 1
          /\ written \in Seq(EventSet) /\ Len(written) \in Nat
      BY DEF Inv, FileInv
    <3>2. \E k \in Nat : /\ Len(written) = k + Len(file')
                         /\ \A i \in 1 .. Len(file') : file'[i] = written[k + i]
      BY <2>2, <3>1
    <3> QED
      BY <1>1, <1>3, <1>5, <2>2, <3>1, <3>2 DEF Inv, FileInv
  <2> QED
    BY <1>4, <2>1, <2>2
<1>7. ToSet(file') \subseteq ToSet(file)
  BY <1>4 DEF ToSet
<1>8. ViewInv' /\ PollInv'
  BY <1>1, <1>7, LossKeeps DEF viewVars
<1> QED
  BY <1>2, <1>6, <1>8 DEF Inv

LEMMA SubscribersKeep ==
    Inv /\ ((\E w \in Writer : Send(w))
            \/ \E s \in Subscriber : Subscribe(s) \/ Unsubscribe(s) \/ Receive(s)) => Inv'
<1> SUFFICES ASSUME Inv,
                    (\E w \in Writer : Send(w))
                      \/ \E s \in Subscriber : Subscribe(s) \/ Unsubscribe(s) \/ Receive(s)
             PROVE  Inv'
  OBVIOUS
<1>1. UNCHANGED <<setting, clock, event, emitted, storeVars, viewVars>>
  BY DEF Send, Subscribe, Unsubscribe, Receive, publishVars
<1>2. FileInv' /\ ViewInv' /\ PollInv'
  BY <1>1, FileFrame, ViewFrame, PollFrame DEF Inv, PublishInv, storeVars, viewVars
<1>3. EventSet' = EventSet
  BY <1>1 DEF EventSet
<1>4. ASSUME NEW w \in Writer, Send(w) PROVE PublishInv'
  BY <1>1, <1>3, <1>4 DEF Inv, PublishInv, Send
<1>5. ASSUME NEW s \in Subscriber, Subscribe(s) \/ Unsubscribe(s) \/ Receive(s) PROVE PublishInv'
  BY <1>1, <1>3, <1>5 DEF Inv, PublishInv, Subscribe, Unsubscribe, Receive, publishVars
<1> QED
  BY <1>2, <1>4, <1>5 DEF Inv

LEMMA OpenStepKeeps == Inv /\ Open => Inv'
<1> SUFFICES ASSUME Inv, Open PROVE Inv'
  OBVIOUS
<1>1. view = None /\ UNCHANGED <<publishVars, storeVars, sub, poll>>
  BY DEF Open
<1>2. ViewInv'
  BY OpenKeeps
<1>3. PollInv'
  BY <1>1 DEF Inv, PollInv
<1>4. PublishInv' /\ FileInv'
  BY <1>1, FileFrame DEF Inv, PublishInv, publishVars, EventSet
<1> QED
  BY <1>2, <1>3, <1>4 DEF Inv

LEMMA PollStepKeeps ==
    Inv /\ (\E p \in Poll : Tick(p) \/ Query(p) \/ QueryFails(p) \/ Deliver(p)) => Inv'
<1> SUFFICES ASSUME Inv, NEW p \in Poll, Tick(p) \/ Query(p) \/ QueryFails(p) \/ Deliver(p)
             PROVE  Inv'
  OBVIOUS
<1>1. UNCHANGED <<publishVars, storeVars, sub>>
  BY DEF Tick, Query, QueryFails, Deliver
<1>2. PublishInv' /\ FileInv'
  BY <1>1, FileFrame DEF Inv, PublishInv, publishVars, EventSet
<1>3. ASSUME NEW q, InOrder(q), UNCHANGED view PROVE InOrder(q)'
  BY <1>1, <1>3 DEF InOrder, Late, storeVars
<1>4. CASE Tick(p)
  <2>1. view # None /\ UNCHANGED view /\ poll' = [poll EXCEPT ![p] = [since |-> view.last]]
    BY <1>4 DEF Tick
  <2>2. view.last \in Nat /\ ViewInv'
    BY <1>1, <2>1, ViewFrame DEF Inv, ViewInv, ViewOK, storeVars
  <2>3. ASSUME NEW r \in Poll, poll'[r] # None PROVE PollOK(poll[r])'
    <3>1. CASE poll'[r] = [since |-> view.last]
      BY <2>1, <2>2, <3>1 DEF PollOK
    <3>2. CASE poll'[r] = poll[r]
      BY <1>1, <1>3, <2>1, <2>3, <3>2 DEF Inv, PollInv, PollOK, storeVars
    <3> QED
      BY <2>1, <3>1, <3>2
  <2> QED
    BY <1>2, <2>1, <2>2, <2>3 DEF Inv, PollInv
<1>5. CASE Query(p)
  <2>1. view # None /\ UNCHANGED view
    BY <1>5 DEF Query, Inv, PollInv
  <2>2. PICK got \in Seq(ToSet(written)) :
          poll' = [poll EXCEPT ![p] = [got |-> got]] /\ InOrder(got)
    BY <1>5, QueryKeeps
  <2>3. ViewInv'
    BY <1>1, <2>1, ViewFrame DEF Inv, storeVars
  <2>4. ASSUME NEW r \in Poll, poll'[r] # None PROVE PollOK(poll[r])'
    <3>1. CASE poll'[r] = [got |-> got]
      BY <1>1, <1>3, <2>1, <2>2, <3>1 DEF PollOK, storeVars
    <3>2. CASE poll'[r] = poll[r]
      BY <1>1, <1>3, <2>1, <2>4, <3>2 DEF Inv, PollInv, PollOK, storeVars
    <3> QED
      BY <2>2, <3>1, <3>2
  <2> QED
    BY <1>2, <2>1, <2>3, <2>4 DEF Inv, PollInv
<1>6. CASE QueryFails(p)
  <2>1. UNCHANGED view /\ poll' = [poll EXCEPT ![p] = None]
    BY <1>6 DEF QueryFails
  <2>2. ViewInv'
    BY <1>1, <2>1, ViewFrame DEF Inv, storeVars
  <2>3. ASSUME NEW r \in Poll, poll'[r] # None PROVE view # None /\ PollOK(poll[r])'
    <3>1. poll'[r] = poll[r]
      BY <2>1, <2>3
    <3> QED
      BY <1>1, <1>3, <2>1, <2>3, <3>1 DEF Inv, PollInv, PollOK, storeVars
  <2> QED
    BY <1>2, <2>1, <2>2, <2>3 DEF Inv, PollInv
<1>7. CASE Deliver(p)
  <2>1. poll' = [poll EXCEPT ![p] = None]
    BY <1>7 DEF Deliver
  <2>2. /\ ViewInv' /\ view' # None /\ view.last \in Nat /\ view'.last \in Nat
        /\ view.last <= view'.last
    BY <1>7, DeliverKeeps
  <2>3. ASSUME NEW got \in Seq(ToSet(written)), InOrder(got) PROVE InOrder(got)'
    <3>1. ASSUME NEW m \in 1 .. Len(got), NEW e \in ToSet(file),
                 view'.last <= e.time, e.time < got[m].time
          PROVE  Late(e) \/ \E l \in 1 .. m - 1 : got[l] = e
      <4>1. e.time \in Nat
        <5>1. file \in Seq(EventSet) /\ clock \in Nat
          BY DEF Inv, PublishInv, FileInv
        <5>2. e \in EventSet
          BY <5>1, SeqFacts
        <5> QED
          BY <5>1, <5>2 DEF EventSet
      <4>2. view.last <= e.time
        BY <2>2, <3>1, <4>1
      <4> QED
        BY <2>3, <3>1, <4>2 DEF InOrder
    <3> QED
      BY <1>1, <3>1 DEF InOrder, Late, storeVars
  <2>4. ASSUME NEW r \in Poll, poll'[r] # None PROVE PollOK(poll[r])'
    <3>1. poll'[r] = poll[r]
      BY <2>1, <2>4
    <3>2. PollOK(poll[r])
      BY <2>4, <3>1 DEF Inv, PollInv
    <3>3. CASE \E t \in Nat : poll[r] = [since |-> t] /\ t <= view.last
      <4>1. PICK t \in Nat : poll[r] = [since |-> t] /\ t <= view.last
        BY <3>3
      <4>2. t <= view'.last
        BY <2>2, <4>1
      <4> QED
        BY <3>1, <4>1, <4>2 DEF PollOK
    <3>4. CASE \E got \in Seq(ToSet(written)) : poll[r] = [got |-> got] /\ InOrder(got)
      BY <1>1, <2>3, <3>1, <3>4 DEF PollOK, storeVars
    <3> QED
      BY <2>4, <3>1, <3>2, <3>3, <3>4 DEF PollOK
  <2> QED
    BY <1>2, <2>2, <2>4 DEF Inv, PollInv
<1> QED
  BY <1>4, <1>5, <1>6, <1>7

LEMMA StutterKeeps == Inv /\ UNCHANGED vars => Inv'
<1> SUFFICES ASSUME Inv, UNCHANGED vars PROVE Inv'
  OBVIOUS
<1>1. FileInv' /\ ViewInv' /\ PollInv'
  BY FileFrame, ViewFrame, PollFrame DEF Inv, PublishInv, vars, publishVars, storeVars, viewVars
<1>2. PublishInv'
  BY DEF Inv, PublishInv, EventSet, vars, publishVars
<1> QED
  BY <1>1, <1>2 DEF Inv

(* The invariant holds of every behaviour.                                    *)
THEOREM InvHolds == Spec => []Inv
<1>1. Init => Inv
  BY InitInv
<1>2. Inv /\ [Next]_vars => Inv'
  <2>1. Inv /\ Next => Inv'
    BY StampKeeps, AppendStepKeeps, AppendFailsKeeps, SubscribersKeep, OpenStepKeeps, PollStepKeeps
       DEF Next, Publish
  <2> QED
    BY <2>1, StutterKeeps
<1> QED
  BY <1>1, <1>2, PTL DEF Spec

(* No channel holds more than its buffer, no file more than one event over    *)
(* its size, and the board of the dashboard has a runner only as far as the   *)
(* events it took say (bus.go, store.go, tui.go).                             *)
THEOREM StreamTypes == Spec => []TypeOK
<1>1. Inv => TypeOK
  <2> SUFFICES ASSUME Inv PROVE TypeOK
    OBVIOUS
  <2>1. BoardIsOfTaken
    BY DEF Inv, ViewInv, ViewOK, BoardOf, BoardIsOfTaken
  <2>2. ToSet(file) \subseteq EventSet /\ ToSet(written) \subseteq EventSet
    BY SeqFacts DEF Inv, FileInv
  <2>3. ASSUME view # None
        PROVE  /\ ToSet(view.events) \subseteq EventSet /\ Len(view.events) <= MaxEvents
               /\ \A r \in Runner : view.board[r].state \in States
    <3>1. ViewOK(view)
      BY <2>3 DEF Inv, ViewInv
    <3>2. ToSet(view.events) \subseteq view.took
      BY <3>1, SeqFacts DEF ViewOK
    <3> QED
      BY <2>2, <3>1, <3>2 DEF ViewOK, Board
  <2> QED
    BY <2>1, <2>2, <2>3 DEF Inv, PublishInv, FileInv, TypeOK
<1> QED
  BY <1>1, InvHolds, PTL

(* Whatever polls overlap and whatever is appended meanwhile, the dashboard   *)
(* never moves past an event that stands in the file in order, unless it took *)
(* one that it cannot tell from it (tui.go, eventsMsg and pollLocalEvents).   *)
THEOREM NeverPassedOver == Spec => []NothingPassedOver
<1>1. Inv => NothingPassedOver
  <2> SUFFICES ASSUME Inv, view # None, NEW e \in Due PROVE e.time >= view.last \/ HasTwin(e)
    BY DEF NothingPassedOver
  <2>1. PassedNone(view) /\ e \in ToSet(file) /\ ~ Late(e) /\ ~ Old(e)
    BY DEF Inv, ViewInv, Due
  <2> QED
    BY <2>1 DEF PassedNone, TwinIn, HasTwin
<1> QED
  BY <1>1, InvHolds, PTL
=============================================================================
