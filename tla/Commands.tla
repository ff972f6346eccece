------------------------------ MODULE Commands ------------------------------
(* The commands that ask and administer (cmd/status.go, runners.go,           *)
(* scaleset.go, health.go; internal/service/query.go, runtime.go): a live     *)
(* answer of the daemon, read under three locks one after the other, or else  *)
(* a query of the API repository by repository, while daemon and GitHub go    *)
(* on.  The configuration loads.                                              *)
EXTENDS Integers, Sequences, SequencesExt, FiniteSets, Selections

CONSTANTS
    Configured,   \* the configured repositories, in order
    Other,        \* a name that is not configured
    MaxId,        \* bound: scale sets created
    MaxSlots,     \* bound: capacities of the semaphore
    MaxTaken,     \* bound: slots in use at a time
    All, Part     \* filters: none, and a part of the name of every repository

Repo == ToSet(Configured)
Command == {"status", "runners", "scalesets", "health", "delete"}

CommandsAssumption ==
    /\ Configured \in Seq(Repo)
    /\ MaxId \in Nat \ {0} /\ MaxSlots \in Nat \ {0} /\ MaxTaken \in Nat
    /\ {Other, All, Part} \cap Repo = {}

VARIABLES
    sets, made,    \* GitHub: the scale set of each repository, or 0; those there were
    up, cap, taken,    \* the daemon: whether it answers, its slots, those taken
    scalers, runners,  \* the repositories with a scaler, the runners these list
    cmd, filter, id,   \* the command and its arguments
    pc,            \* where it is: "idle", "connect", "live", "query", "done"
    rows,          \* the rows it has so far
    live,          \* its live answer: what it has read of runners, cap and available
    moved          \* history: the daemon changed since the answer was begun

daemon == <<up, cap, taken, scalers, runners>>
world == <<sets, made, daemon>>
command == <<cmd, filter, id>>
vars == <<world, command, pc, rows, live, moved>>

Runner == Repo \X (1 .. MaxTaken)
Unread == [reads |-> 0, repos |-> <<>>, runners |-> {}, max |-> 0, available |-> 0]
Filter == Repo \cup {All, Part, Other}

Init ==
    /\ sets = [r \in Repo |-> 0] /\ made = {}
    /\ up = FALSE /\ cap = MaxSlots /\ taken = 0
    /\ scalers = {} /\ runners = {}
    /\ cmd = "status" /\ filter = All /\ id = 0
    /\ pc = "idle" /\ rows = <<>> /\ live = Unread /\ moved = FALSE

-----------------------------------------------------------------------------
(* The daemon and GitHub.                                                     *)
Idle == UNCHANGED <<command, pc, rows, live>>

(* A slot is taken before its runner is listed, and may be held after.        *)
DaemonChanges ==
    /\ \/ /\ up' = ~ up /\ scalers' = {} /\ runners' = {}
          /\ taken' = 0 /\ UNCHANGED cap
       \/ up /\ cap' \in 1 .. MaxSlots /\ UNCHANGED <<up, taken, scalers, runners>>
       \/ /\ \/ up /\ taken < cap /\ taken < MaxTaken /\ taken' = taken + 1
             \/ Cardinality(runners) < taken /\ taken' = taken - 1
          /\ UNCHANGED <<up, cap, scalers, runners>>
       \/ \E r \in Repo \ scalers : /\ up /\ scalers' = scalers \cup {r}
                                  /\ UNCHANGED <<up, cap, taken, runners>>
       \/ \E r \in scalers : /\ scalers' = scalers \ {r}
                             /\ runners' = {p \in runners : p[1] # r}
                             /\ UNCHANGED <<up, cap, taken>>
       \/ \E p \in Runner \ runners : /\ p[1] \in scalers /\ Cardinality(runners) < taken
                                      /\ runners' = runners \cup {p}
                                      /\ UNCHANGED <<up, cap, taken, scalers>>
       \/ \E p \in runners : /\ runners' = runners \ {p}
                             /\ UNCHANGED <<up, cap, taken, scalers>>
    /\ moved' = (moved \/ (pc = "live" /\ live # Unread))
    /\ UNCHANGED <<sets, made>> /\ Idle

SetCreated(r) ==
    /\ Cardinality(made) < MaxId
    /\ sets' = [sets EXCEPT ![r] = Cardinality(made) + 1]
    /\ made' = made \cup {<<r, sets'[r]>>}
    /\ UNCHANGED <<daemon, moved>> /\ Idle

-----------------------------------------------------------------------------
Begin ==
    /\ pc = "idle"
    /\ cmd' \in Command /\ filter' \in Filter /\ id' \in 0 .. MaxId
    /\ cmd' = "health" => filter' = All
    /\ cmd' = "delete" <=> id' # 0
    /\ pc' = IF cmd' \in {"status", "runners"} THEN "connect" ELSE "query"
    /\ UNCHANGED <<world, rows, live, moved>>

(* The live answer; if it fails at any point the command turns to the API.    *)
Connect ==
    /\ pc = "connect" /\ up
    /\ pc' = "live" /\ live' = Unread
    /\ UNCHANGED <<world, command, rows, moved>>

FallBack ==
    /\ pc \in {"connect", "live"} /\ (pc = "connect" => ~ up)
    /\ pc' = "query" /\ rows' = <<>> /\ live' = Unread /\ moved' = FALSE
    /\ UNCHANGED <<world, command>>

(* The repositories that have a scaler, in the order of a Go map.             *)
ReadRunners ==
    /\ pc = "live" /\ live.reads = 0
    /\ \E order \in SetToSeqs(scalers) :
         live' = [live EXCEPT !.reads = 1, !.repos = order, !.runners = runners]
    /\ UNCHANGED <<world, command, pc, rows, moved>>

ReadMax ==
    /\ pc = "live" /\ live.reads = 1
    /\ live' = [live EXCEPT !.reads = 2, !.max = cap]
    /\ UNCHANGED <<world, command, pc, rows, moved>>

(* printLiveStatus prints every repository, printLiveRunners that of the name. *)
Printed == Keep(live.repos, {r \in Repo : cmd = "status" \/ filter \in {All, r}})
LiveRows == [i \in DOMAIN Printed |-> [repo |-> Printed[i], is |-> "live"]]

ReadCapacity == \* wrong: the capacity for what is available of it
    /\ pc = "live" /\ live.reads = 2
    /\ live' = [live EXCEPT !.reads = 3, !.available = cap]
    /\ rows' = LiveRows
    /\ pc' = "done"
    /\ UNCHANGED <<world, command, moved>>

ReadAvailable ==
    /\ pc = "live" /\ live.reads = 2
    /\ live' = [live EXCEPT !.reads = 3, !.available = cap - taken]
    /\ rows' = LiveRows
    /\ pc' = "done"
    /\ UNCHANGED <<world, command, moved>>

-----------------------------------------------------------------------------
(* The API, one repository after the other, of those whose name contains the  *)
(* filter.                                                                    *)
Chosen == Keep(Configured, {r \in Repo : filter \in {All, Part, r}})
NextRepo == Chosen[Len(rows) + 1]
Querying == pc = "query" /\ cmd # "delete" /\ Len(rows) < Len(Chosen)

(* What the request for a repository comes to: its set, none, or an error.    *)
Outcome(r) == {"no token", "error"} \cup {IF sets[r] = 0 THEN "none" ELSE "found"}

Ask ==
    /\ Querying
    /\ \E is \in Outcome(NextRepo) :
         rows' = Append(rows, [repo |-> NextRepo, is |-> is])
    /\ UNCHANGED <<world, command, pc, live, moved>>

Listed == Keep(rows, {row \in ToSet(rows) : row.is = "found"})

(* scaleset list drops the repositories it could not ask.                     *)
Report ==
    /\ pc = "query" /\ cmd # "delete" /\ Len(rows) = Len(Chosen)
    /\ rows' = IF cmd = "scalesets" THEN Listed ELSE rows
    /\ pc' = "done"
    /\ UNCHANGED <<world, command, live, moved>>

(* scaleset delete: by repository and number; GitHub checks that they agree.  *)
DeleteSet ==
    /\ pc = "query" /\ cmd = "delete" /\ filter \in Repo /\ sets[filter] = id
    /\ sets' = [sets EXCEPT ![filter] = 0]
    /\ pc' = "done"
    /\ UNCHANGED <<made, daemon, command, rows, live, moved>>

(* No repository, an unknown one, no token, or a failed request.              *)
DeleteFails ==
    /\ pc = "query" /\ cmd = "delete"
    /\ pc' = "done"
    /\ UNCHANGED <<world, command, rows, live, moved>>

Exit ==
    /\ pc = "done"
    /\ pc' = "idle" /\ rows' = <<>> /\ live' = Unread /\ moved' = FALSE
    /\ cmd' = "status" /\ filter' = All /\ id' = 0
    /\ UNCHANGED world

Next ==
    \/ DaemonChanges \/ \E r \in Repo : SetCreated(r)
    \/ Begin \/ Connect \/ FallBack \/ ReadRunners \/ ReadMax \/ ReadAvailable
    \/ Ask \/ Report \/ DeleteSet \/ DeleteFails \/ Exit

Spec == Init /\ [][Next]_vars

-----------------------------------------------------------------------------
Names == [i \in DOMAIN rows |-> rows[i].repo]

(* A row that shows a scale set is about a repository that had one, and only  *)
(* the daemon's scalers have runners (query.go:68-83).                        *)
TypeOK ==
    /\ made \subseteq Repo \X (1 .. MaxId)
    /\ \A r \in Repo : sets[r] = 0 \/ <<r, sets[r]>> \in made
    /\ up \in BOOLEAN /\ cap \in 1 .. MaxSlots /\ taken \in Cardinality(runners) .. MaxTaken
    /\ scalers \subseteq Repo /\ runners \subseteq scalers \X (1 .. MaxTaken)
    /\ cmd \in Command /\ filter \in Filter /\ id \in 0 .. MaxId
    /\ pc \in {"idle", "connect", "live", "query", "done"}
    /\ \A row \in ToSet(rows) : /\ row.is \in {"live", "no token", "error", "none", "found"}
                              /\ row.is = "found" => \E p \in made : p[1] = row.repo

(* A report from the API has one row for every repository that was asked for, *)
(* in order, whichever of them fail (query.go, Status and Health).            *)
ReportIsComplete ==
    (pc = "done" /\ cmd \in {"status", "runners", "health"} /\ live = Unread)
        => Names = Chosen

(* "runner list -r" shows no repository but those asked for, from the daemon  *)
(* as from the API (cmd/runners.go).                                          *)
RunnersFiltered ==
    (pc = "done" /\ cmd = "runners") => ToSet(Names) \subseteq ToSet(Chosen)

(* runtime.go:100: "LiveStatus returns the current state of all runners".     *)
(* Its three reads under three locks make an answer that adds up when nothing *)
(* changed between them: a slot may be held by no listed runner, but the      *)
(* runners and the free slots never exceed the capacity that is shown.        *)
LiveAddsUp ==
    (pc = "done" /\ live # Unread /\ ~ moved)
        => Cardinality(live.runners) + live.available <= live.max

(* What a report may show: the three properties above and its types           *)
(* (query.go, runtime.go:101-116).                                            *)
AnswersAreTrue == TypeOK /\ ReportIsComplete /\ RunnersFiltered /\ LiveAddsUp
=============================================================================
