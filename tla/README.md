# Verification of gso (github-scaleset-orchestrator)

gso runs self-hosted GitHub Actions runners for a list of repositories. One
daemon opens a long-polling listener per repository; when GitHub assigns jobs,
the repository's scaler starts single-use runners, in subprocesses or Docker
containers, under one global limit. This directory holds TLA+ models of that
program, TLC runs over small instances of them, and TLAPS proofs.

File and line numbers refer to `src/`.

## Running the checks

    tlc -workers 2 -config MCScalerSafety.cfg MCScaler.tla   # any run of PROJECT.json
    tlapm ScalerProofs.tla                                   # all proofs of a module

The longest run takes about two minutes with two workers.

`PROJECT.json` lists the runs, the source lines of each definition (`map`), and
for each checked property a wrong version of one definition that TLC must catch
(`mutants`). The wrong versions stand in the modules under names of their own;
no specification uses them.

## Inventory

| Component (source) | State | Operations | What is hard | Correct when |
|---|---|---|---|---|
| Semaphore (`scaler/scaler.go:25-100`) | `max`, `current`, condition-variable queue, one watcher goroutine per `Acquire` | `Acquire`, `Release`, `Resize`, `Available`, `Max` | wake-ups, cancellation, resizing | count exact, no grant above `max`, no waiter forgotten |
| Scaler (`scaler/scaler.go:102-392`), one per repository | `runners`, `releases`, `spawnedAt`, `jobStartedAt`, last decision | three listener callbacks, `CancelRunner`, runner goroutines | callbacks race with exits, recycling, other repositories and shutdown | each slot given back once, maps agree, no runner out of reach, no more runners than jobs |
| Orchestrator (`orchestrator/orchestrator.go`) | scalers, listeners, `cfg.MaxRunners`, semaphore | `Run`, `SetMaxRunners`, `CancelRunner`, register and unregister a listener | late registration, one repository failing, shutdown that waits only for listeners | one capacity everywhere, failures isolated |
| Scale-set lifecycle (`orchestrator.go:211-326`) | scale set and message session at GitHub | get or create, session conflict, delete and recreate, close | crash and restart, closing with a cancelled context | every start gets a session |
| Docker worker (`runner/docker.go`) | containers at the Docker daemon | create, start, wait, logs, remove, `Reconcile` | cancellation at every request, lost answers, restart | no container outlives its runner and the next start |
| Subprocess worker (`runner/worker.go`) | temporary directory, process | copy, run, remove | cancellation | directory removed |
| Runner cache (`runner/manager.go`, `extract.go`) | cached runner, checksum file | verify, download, extract | crash between steps, unknown checksum | a cache that verifies is complete |
| Event bus and store (`event/`) | subscribers, two JSONL files | publish, subscribe, rotate, query | order of stamping and appending, full channels, rotation | readers see each event |
| Terminal UI (`tui/tui.go`) | event list, runner states | poll, merge, de-duplicate | late and equal time stamps | no event lost or doubled |
| Control server and client (`control/`) | Unix socket, TCP listener, connections | start, stale-socket check, stop, requests | two daemons, stop while starting | one daemon owns the socket |
| TLS identity, known hosts (`control/tls.go`) | certificate, key, fingerprints | generate or load, trust on first use, save | crash between writes, concurrent saves | usable pair, no fingerprint replaced |
| Service runtime (`service/`) | none of its own | status, recycle, set max, shutdown | reads under separate locks | answers are of one moment |
| Configuration, tokens (`config/`) | configuration values | load, default, validate, resolve | precedence of sources | only valid values pass |
| Command line (`cmd/`) | none | start, stop, status, log, ... | order of start and stop | |
| `github.com/actions/scaleset` | external: listener and API client | runs callbacks one at a time | any order and repetition of job callbacks | |

Interactions. `cmd/start.go` creates the event store, the orchestrator and the
control server and cancels their one context on a signal or a stop request. The
orchestrator creates the semaphore and, per repository, a client, a worker, a
scaler and a listener. Each listener calls its scaler; each scaler takes slots
from the shared semaphore and starts a goroutine per runner, which gives the slot
back. The control server calls the orchestrator (recycle, resize, status), which
calls scalers and semaphore under its own lock. All parts publish events to the
bus, which appends them to the store; the terminal UI polls the store.

The hazards, each at its line, are in `PROJECT.json`.

## Modules

| Module | Models | Run |
|---|---|---|
| `SlotPool` | abstract: a pool of slots whose size may change | |
| `Semaphore` | `Semaphore` at the grain of mutex, condition variable and watcher | `MCSemaphore` |
| `Scaler` | all scalers, the shared semaphore (one action per call of it), runner goroutines | `MCScaler` |
| `Orchestrator` | the daemon across crashes and restarts: `Run`, `runRepo`, scale sets and sessions at GitHub, `SetMaxRunners` | `MCOrchestrator` |
| `DockerWorker` | `Reconcile` and `DockerWorker.Run` against Docker, across ends of the daemon | `MCRunners` |
| `RunnerCache` | the cached runner and the subprocess workspaces, across crashes | `MCRunners` |
| `ControlSocket` | control server, socket file, clients, `gso start` and `gso stop` | `MCControlSocket` |
| `EventStream` | bus, event file, rotation, polls of the dashboard, its board of runners | `MCEventStream` |
| `Identity` | certificate pair of a TLS server, loaded or generated at its start | `MCTerminal` |
| `KnownHosts` | abstract: trust on first use, each connection decided in one step | |
| `TrustStore` | known hosts and trust on first use, by clients that run at once | `MCTerminal` |
| `Commands` | status, runner list, scale-set list and deletion, health | `MCTerminal` |
| `Dashboard` | keys, filters, search, selection and window of the dashboard | `MCTerminal` |
| `Configuration` | defaults, file, environment, validation | `MCTerminal` |
| `Tokens` | the chain of token sources | `MCTerminal` |
| `Runners` | composes `DockerWorker` and `RunnerCache` | `MCRunners` |
| `Terminal` | composes `TrustStore`, `Identity`, `Commands`, `Dashboard`, `Configuration`, `Tokens` | `MCTerminal` |
| `Selections` | the loop that keeps what a query or a filter asks for | in those above |

Proofs about a module are in the module of its name with `Proofs` after it; those
about a module that a composition runs are in the composition's, `RunnersProofs`
and `TerminalProofs`. `SelectionProofs` has what several of them need about
sequences.

`Scaler` uses the semaphore as an object with atomic operations. That is
justified by `Semaphore`, which shows the same abstract pool, `SlotPool`, to be
implemented by the code's mutex and condition variable. `Orchestrator` composes
the daemon's goroutines with GitHub, `ControlSocket` the servers of several
daemons with their clients, `EventStream` the publishing goroutines, the file and
the dashboard.

`Runners` and `Terminal` put modules side by side that share no state: a
variable (`executor`, `subject`) says which of them works in a behaviour, and the
others stand still. So one TLC run checks several models, and its states are the
sum of theirs, not the product. For the executors this is also what the code
does: the configuration chooses one for the whole daemon
(orchestrator.go:147-156). A property of a module that is not at work in a
behaviour says nothing about it there.

Three conventions occur in several modules:

- `calm` is a history variable that becomes true at any moment; from then on
  nothing fails and nothing crashes. Liveness is stated for what happens after it,
  which is how a recovery from earlier trouble can be promised at all.
- A request to somebody else (GitHub, Docker) has its effect, its failure, and
  its effect without an answer.
- Names, versions, certificates and tokens are only compared, so they are model
  values.

### Semaphore

A caller is one call of `Acquire` and its `Release`. `pc` says where it is:
before the lock (`ready`), in the loop with the mutex (`check`), about to call
`cond.Wait` (`wait`), on the condition variable (`parked`), awakened (`woken`),
and returned (`holding`, `failed`, `released`). `watcher` is the goroutine of
scaler.go:46-54. The mutex is a variable because one pair of steps, the check of
`ctx.Err` and `cond.Wait`, is not atomic for the watchers, which broadcast
without it. The other critical sections are single actions: nobody else can see
their inside. `sync.Cond` is external and modelled by what it does: a ticket is
taken before the mutex is unlocked, `Signal` wakes the oldest ticket.

Checked in `semaphore` (three calls, one or two slots, resized at will, one shared
context): the count is the number of holders (`CountIsExact`); slots are granted
as the abstract pool allows (`ImplementsPool`); while a call with a live context
sleeps there are as many awake calls as free slots (`FreeSlotsHaveTakers`); every
call returns if holders release (`EveryCallReturns`). Three calls are two holders
and a waiter, or one holder and two waiters that a resize and a release may wake
together. The first three are proved for any number of calls.

Fairness: goroutines that can run do run (WF on each call's and watcher's steps).
An awakened call that keeps losing the mutex gets it in the end (SF), because
`sync.Mutex` in starvation mode hands itself over. Holders release (SF) only in
`ReleasingSpec`: it says that runner processes end.

Two runs show disagreements with "Acquire blocks until a slot is available or
ctx is cancelled" (scaler.go:40):

- `semaphore_lost_wakeup`: the context is cancelled, and the watcher broadcasts,
  after the caller's check of `ctx.Err` and before `cond.Wait`. Nobody hears it
  and the call sleeps until somebody releases or resizes. No fairness of
  releases is assumed here, because the comment promises none is needed.
- `semaphore_swallowed_signal`: with a context per call, the call that `Release`
  wakes may find its own context cancelled and leave without waking the next.
  The other call sleeps beside a free slot. The daemon uses one context for all
  calls, and `semaphore` shows that there every call returns.

### Scaler

All scalers live in one module, since they meet in the semaphore. The four maps
are sets of names, of all repositories; `RepoOf` (the name is drawn by the
repository's scaler) splits them: `Tracked(r)` is one scaler's `runners`.

- `pc[r]`, `desired`, `existing`, `available`, `created`, `target`, `grabbed` are
  the locals of the callback that the listener of `r` is running. One action
  covers the code from one shared access to the next: `DesiredBegin` reads
  `len(s.runners)` under `s.mu`, `DesiredSample` reads the free slots,
  `GenerateJit` is the call to GitHub, `AcquireSlot` and `AcquireFails` are the
  returns of `sem.Acquire`, `Register` is the critical section that fills the
  maps, `Launch` the `go` statement. `JobCompletedUntrack`, `-Cancel` and
  `-Release` are the parts of `HandleJobCompleted`.
- `phase[n]` is the life of a runner: `issued` (JIT configuration), `starting`
  (slot granted), `running` (inside `worker.Run`), `exited`, `cleaned` (maps
  emptied), `gone` (slot released).
- `holds` is the names whose `releaseOnce` has not fired, `cancelled` those whose
  own context is cancelled; `Stopped` adds the daemon's context, its parent.
- `CancelRunner` and `Resize` come from the control server at any time,
  `Shutdown` cancels the context of the callbacks.

Assumptions about the listener library, which is not in the repository: it runs
one callback at a time per repository; `JobStarted` and `JobCompleted` may come
for any name, repeatedly and in any order; it hands its own context, the
daemon's, to the callbacks (the shutdown properties rest on that). Callbacks may also start after shutdown. Names are
unique (`uuid.NewString`, cut to eight digits, is taken not to collide).

Left out: `lastDecision`, which only decides whether a `scale.decision` event is
published again, and the contents of events.

Checked in `scaler_safety` (repository A with two names, B with one; capacity one
or two, resized at will; one or two jobs desired):

- `SlotAccounting`: `current` is the number of slots outstanding, although the
  completion callback and the goroutine both release.
- `NoLeakedSlot`: a slot never outlives the goroutine that gives it back.
- `MapsAgree`: a tracked runner has a release function and holds a slot, times
  exist only for known runners, nothing is left after clean-up.
- `NoUnstoppableProcess`: a process that `CancelRunner` can no longer find was
  told to stop, or its listener is about to.
- `NoOvershoot`: a call leaves at most as many tracked runners as assigned jobs,
  or as it found.
- `ImplementsPool`: refinement of `SlotPool`.
- `CompletionFreesSlot`: when `HandleJobCompleted` returns, the slot is free for
  the next `HandleDesiredRunnerCount`. The exception stated in the property is
  real: if the runner's goroutine has emptied the maps (scaler.go:345) and not
  yet released (scaler.go:343), the callback finds no release function and
  returns while the slot is taken.

Three names are enough for a call that starts two runners, for a runner that
replaces a completed or recycled one, and for another repository to take a slot
in between; with two slots and three names the semaphore is full and contended.
The names are interchangeable within A, hence the symmetry set. Names are not
reused, so a run starts at most three runners; the proofs have no such bound.

`scaler_live` (one name each): a stopped runner's slot comes back
(`StoppedSlotFreed`); shutdown leaves no slot held and no process, and every
callback returns after it (`ShutdownCompletes`, the conjunction of
`ShutdownDrains` and `CallbacksReturn`).
Fairness: goroutines that can run do run, and a worker whose context is done
returns (`exec.CommandContext` kills the process, the Docker request is aborted).
No fairness is assumed for workers that were not told to stop: an idle runner may
wait for a job for ever. For the same reason no property says that a listener
waiting for a slot gets one.

`scaler_overlap` shows a disagreement with the documentation: README.md:144 calls
`max_runners` the "Maximum concurrent runner processes" and README.md:316 releases
the slot after the workspace is removed. `HandleJobCompleted` releases it at once
(scaler.go:263-268, on purpose), so the next runner may start beside a process
that is still being stopped. The run fixes the capacity at one, so that no resize
is involved.

### Orchestrator

`pc[r]` is the next request or critical section of the goroutine that runs
`runRepo` for `r`: `get`, `create`, `open`, after a conflict `delete`, `recreate`,
`reopen`, then `sample` (the maximum is read, orchestrator.go:310), `new`
(`listener.New`), `register`, `listening`, and the deferred calls in the order Go
runs them, `unregister` and `close`; `report` sends to `errCh`. `registered` is
the keys of `o.scalers` and of `o.listeners`, which change together. `setter` is
where a call of `SetMaxRunners` is while it holds `o.mu`; every other critical
section of `o.mu` is one action that waits for it. `sem` and `listenerMax` are
read without `o.mu`, which is why the steps of `SetMaxRunners` are apart.

`scaleSet` and `session` are GitHub's state; they survive `Crash` and `Exit`.
`known` is the repositories whose `ss.ID` names the scale set that exists. A
request takes effect and is answered, fails, or takes effect and is not answered
(`Lost`). Assumed of GitHub and the client library: a name exists once; a scale
set has one session; a second request is a conflict; deleting the scale set ends
the session; a request with a cancelled context is not sent; nobody else deletes
the scale set. One daemon runs at a time.

Checked in `orchestrator` (two repositories, counts 0, 1 and 2, of which 0 is
refused; no other bound):

- `OneCapacity`: whenever `o.mu` is free, the configuration, the semaphore and
  every registered listener have one capacity. A listener samples the maximum
  before it exists and a resize may come before it is registered; registering
  applies the maximum again.
- `RegisteredOwnsSession`: a registered listener's session is open, on the scale
  set that exists.
- `StaleSessionRecovered` (README.md:318-320): with nothing failing any more, a
  start gets to listen, whatever was left at GitHub.
- `ShutdownReturns`: a cancelled daemon returns from `Run`.

Two repositories are enough for one to be told a capacity by `SetMaxRunners`
while the other registers, and for `errCh` to hold more than one error.

Fairness: goroutines that can run do run. Taking `o.mu` is strongly fair, since a
`sync.Mutex` does not starve a waiter; requests end, with an error if not with an
answer. Starting the daemon, crashes and control requests are not fair.

`orchestrator_stale` shows a disagreement: README.md:320 has a stale session come
from a crash, but the session is closed with the daemon's context
(orchestrator.go:298), which a graceful stop has cancelled. With nothing failing
(`StartsCalm`), a stopped daemon leaves its session open. The next start
recovers, by deleting and recreating the scale set.

Left out: events, labels and names, `CancelRunner` and the queries, which lock
`o.mu` and call a scaler; runner goroutines that outlive `Run`.

### DockerWorker

`manager` is `Orchestrator.Run`: `down`, `listing` and `sweeping` (`Reconcile`,
docker.go:109-134), `up`. `pc[n]` is where `DockerWorker.Run` is for a runner:
`prepare`, `create`, `creating`, `start`, `wait`, `logs`, `remove`, `removing`,
`returned`; `killed` where the process ended under it. A create and a delete are
three steps each: sent, carried out by Docker (`creating`, `removing` hold the
requests it works on), answered. In between the client may have gone, because its
context is cancelled, its twenty seconds have passed or the daemon ended, and
Docker may go on all the same (`DockerCreates`) or give up (`DockerDrops`).
`Shutdown` cancels the daemon's context and `RunReturns` ends it without waiting
for runners, as orchestrator.go:201 does; `Crash` ends it anywhere.

Docker is external. Assumed: a name exists once, a forced removal kills the job,
a request is answered only after its effect. Resource limits, mounts and the
environment of the container are data and left out.

Checked in `runners` (two names):

- `NothingStale`: when runners may start, no container older than `Reconcile`'s
  listing is left, whatever the previous daemon left.
- `ContainersOwned`: a container, or a request by which Docker may still make one,
  has a run that will delete it, or belongs to a run that ended without the answer
  it needed (`abandoned`).
- `SuccessIsReal`: success is reported only for a job that ended by itself with
  status zero, although cancellation, exit and a cut wait race.
- `CancelledRemoved` (README.md:292): with nothing failing, the container of a
  cancelled run that learned its ID goes away, or the daemon ends before.

Two names are enough for `Reconcile` to meet one container while another is being
created or removed behind its back. Fairness: the steps of `Reconcile`, of each
run and of Docker; jobs need not end, and nothing makes the daemon stop.

Seen and not a property: a create request that is abandoned may produce its
container after the next start's listing; it then stays until the start after.
A cancelled run returns before its logs are fetched, although docker.go:175 has
them fetched "including after cancellation", which holds for a cancellation that
comes after the check in docker.go:171.

### RunnerCache

`daemon` is where `Manager.RunnerDir` is (manager.go:72-160); `tree` is the
version's directory, entry by entry (`absent`, `torn`, `whole`, or `changed` by a
job), `sha` the checksum file, `tarball` the temporary file. Removing the old
directory and extracting the new one go an entry at a time, and every step may
fail or be the last before a crash (`Fails`, `Stop`); `Clear` may give up in the
middle, since the error of `os.RemoveAll` is ignored. A link cannot be made where
a file exists (extract.go). `work` and `copied` are `Worker.Run` and its
workspace, whose hard links let a job change the cache (`JobWrites`).

Checked in `runners` (an archive with `run.sh`, a file and a link; one job):

- `VerifiedRunnerIsWhole`: a job of a daemon that knows the checksum runs with
  every file of the archive, whatever the cache went through.
- `CacheRecovers`: the next start with nothing failing gets to serve a runner.

The three entries are the one that is looked for, one that is not, and one that
cannot be overwritten. Fairness: the steps of `RunnerDir` and of the workers.

Seen and not a property: when the release has no checksum file, or it cannot be
fetched, `run.sh` alone is taken for a runner, so the remains of an interrupted
extraction are used; and a hard link makes a job's change one of the cache.

### ControlSocket

`main[d]` is `runStart` of a daemon (`running`, then the steps of `Server.Stop`),
`srv[d]` where its `Server.Start` is: `stat`, `dial` and `remove`
(`checkStaleSocket`, server.go:277-292), `listen`, `chmod`, `publish` (the
listener becomes visible to `Stop`), `tcp`, `accept`, or `failed`, which is only
logged (start.go:118). `path` is the socket file: the daemon that made it, or
`None`; closing a Unix listener unlinks the path whoever made the file there.
`conn[c]` is a connection: queued by the kernel, `open`, `sent`, `handled`,
`answered`, `failed`. A request is a kind: `shutdown` cancels the context before
it is answered; `silence` sends nothing; `unauthorized` stands for every request
that is refused.

Checked in `control_socket` (two daemons one after the other with crashes, one
client with any number of calls, a TCP listener):

- `SocketIsSound`: the types; `ServingIsReachable`: a daemon that accepts and
  was not told to stop is the one clients find at the path; and `StopIsAccepted`:
  a client that was told its daemon stops talks to one whose context is done.
- `ServerRecovers`: whatever socket a crash left, a start with nothing failing
  gets to accept, or its daemon is told to stop.
- `StopIsCarriedOut`: `gso stop` reports success only if the daemon goes on to end.
- `ConnectionsEnd`: every connection comes to its end, also one whose client says
  nothing, whenever the daemon ends.

Two daemons are the one that left the socket and the one that finds it.
Connections share nothing but the listeners, so one of them is enough for what a
single one may meet. Fairness: goroutines and the kernel go on, the deadline of
30 s passes. Starting, signals and clients are not fair.

`Overlap = TRUE` lets a daemon start beside a running one. `SocketIsSound` fails
there: two that check at once both find the socket refused, and one removes the
other's; `Stop` also removes the path when its server never listened
(server.go:233). No document promises anything for that case, so the run has
`Overlap = FALSE`, and the theorem assumes it. The accept loop ends at its first
error (`AcceptError`), after which the daemon runs on without a control server.

### EventStream

A goroutine that publishes is at `stage` `idle`, `append` (stamped, bus.go:25) or
`send` (appended). `clock` is the latest stamp; nothing orders stamps with
appends, so the file need not be in the order of time. `AppendFails` drops the
event, maybe after the rename of a rotation and maybe leaving part of a line,
which spoils the next one. `sub[s]` is the fill of a subscriber's channel.
`view` is the dashboard: its events, `lastEventTime`, its board of runners. A tick
starts a poll whether the last came back or not, so answers overlap and arrive in
any order (`poll`). `OnBoard` is `updateRunnerState`, `Ingest` is `ingestEvent`.

Checked in `event_stream`:

- `NothingPassedOver`: the dashboard never moves past an event of the file,
  whatever polls overlap, unless the event was appended out of order or shares
  stamp and kind with one it took.
- `CatchesUp`: a dashboard that stays open takes every such event.
- `PublishNeverBlocks`: a subscriber that does not receive holds nobody up.
- `TypeOK`: types, bounds of channel, file and list, and `BoardIsOfTaken`: a
  runner is on the board only if its spawning was taken, as done only if its end
  was too, although events arrive late, twice or never.

The exceptions of the first property are what the code does: an event stamped
before and appended after another is skipped by a reader that saw the other, and
an event with the stamp and kind of one that was taken is dropped as its
duplicate.

Bounds: one runner (four events beside the two of the start), a file of at most
four events so that it rotates, a list of four so that its head is cut. A
behaviour has two polls at a time, or equal stamps, or a subscriber with room for
one event, not two of these (`MCSetting`): the three meet in no common variable
but the file. Fairness: the ticker, the delivery of an answer (WF), and a query
that is tried again and again succeeds in the end (SF). Nothing need be published.

### Identity

`cert` and `key` are the two files of each host, `None`, `Torn` or the number of a
certificate. `daemon[h]` is where `LoadOrGenerateTLSConfig` is (tls.go:25-122);
`os.WriteFile` truncates and then writes, so an error or a crash (`End`) leaves a
file torn or missing. `RemoveFile` is the administrator. `ident[h]` is what the
host was last seen with, nothing once both files are gone.

Checked in `terminal` (two hosts, two certificates each) as `IdentityStable`: a
daemon that serves has its pair on disk (`ServedPairIsStored`), so that an end at
any later moment finds it there; and a host shows one identity until both its
files are gone, also when only one was lost. An end before both files are written
leaves a pair that does not load, and the daemon does not start until somebody
removes both. Two certificates are the old and the new one of a host.

### TrustStore

`known` is the `known_hosts` file of one user: for each host a fingerprint, `None`,
or `Torn`, an entry cut short, which equals no fingerprint. Any number of clients
run at once. `pc[c]` is where one is: `shown` (a certificate of the host, any that
`Shows` has), then `trusted` or `refused`, or for an unknown host `save`,
`truncate` and `write`. `SaveKnownHost` reads the file again (`Reload`, into
`loaded`), and `os.WriteFile` truncates it and writes. After the truncation the
write may fail or be killed, with any of the lines written and one of them in part
(`WriteFails`); before it, nothing has happened to the file (`ClientFails`). A
client that writes over what another wrote meanwhile may leave lines of the longer
file behind (`Leftovers`).

`racing` is a history variable: the clients whose save is disturbed, because
another one is between its `Reload` and the end of its write at the same time, or
has stored another fingerprint for the same host since this one found it unknown.

Checked in `terminal` (two clients, two hosts, of which one shows an old and a new
certificate) as `TrustOnFirstUse`: the file that clients read, truncate and write
implements `KnownHosts`, in which a connection is decided in one step (`Trust`,
`Refuse`, `Fail`), a trusted host accepts its fingerprint and no other, and trust is
taken back in two cases only: a save that breaks off may lose entries
(`BreakOff`), and is reported as a failure, and nothing is promised while saves
race (`Race`). Trusted are the file's entries; while a single client has emptied
the file, those it has read (`Trusted`), so that the host it adds becomes trusted
at the write. A second client that meanwhile finds the file empty has decided
nothing by that: it goes on to save, reads again, and races, finds its own
fingerprint, or finds the host still unknown. Two clients are one that saves and
one that reads or saves beside it; two hosts are one that is being saved and one
whose entry must survive that. Clients are interchangeable, hence the symmetry set.

Assumed: nobody else edits the file, and a write of the whole contents is seen at
once (`os.WriteFile` makes one call of `write`).

Seen and not a property: a host whose entry was lost, by a save for another host
that broke off (a full disk is enough, tls.go:200) or by a race (tls.go:183), is
trusted on next use whatever it shows, although it was known before. An entry cut short refuses its host until the file is edited.

### Commands

A command is at `connect`, `live`, `query` or `done`. The live answer is three
reads under three locks (`ReadRunners`, `ReadMax`, `ReadAvailable`,
runtime.go:101-116), while `DaemonChanges` moves slots, runners, scalers and the
capacity between them. If it fails, the command asks the API repository by
repository (`Ask`). `rows` is what is shown. Deletion sends repository and number,
and GitHub compares them.

Checked in `terminal` (two repositories, two slots) as `AnswersAreTrue`: a report
from the API has a row for each repository asked for, in order, whichever fail
(`ReportIsComplete`); `runner list -r` shows no other repository
(`RunnersFiltered`); a live answer adds up if nothing changed while it was read
(`LiveAddsUp`); and a row that shows a scale set is of a repository that had one.
The reads of an answer during which something changed belong to different moments
(runtime.go:101-116). `Commands` has these answers too, and no property excludes
them, because no document promises otherwise.

Seen and not a property: `status -r` filters by a part of the name when it asks
the API and not at all when it asks the daemon.

### Dashboard

The keys of `Update` and what they change: the input that is open, the filters,
the search, selection and scroll as indices into the visible events, while events
arrive and the list loses its head. Rendering clamps a copy of the indices
(`Shown`, `WindowStart`); colours and text are layout.

Checked in `terminal` (one repository, two types, three events, a panel of one or
two lines) as `BoardIsRight`: the panel shows the selected event, or the last one
for a selection beyond the list, and without selection it follows the end of the
list, with as many events as fit (`WindowShowsSelection`); and `n` and `N` find the
nearest match around the list (`JumpIsNearest`), from its ends if nothing is
selected. A selection beyond the list, as it arises when a filter hides events, is
shown at the last event but counts around the list for the search. Three events
are one more than the panel's two lines. What a user types into an input is one of
three texts (`Texts`): the name of a type, none, and one that nothing contains; a
repository's name comes by tab.

Seen and not a property: a scroll position is not clamped to the end of the list
(tui.go:834-857), so that after a search, or when a filter shortens the list, the
panel may show fewer events than it has lines for.

Seen and not a property: `ctrl+c` is ignored while a line of text is typed;
tab in the filter does not go on from a repository unless its name is a part of
another's.

### Configuration and Tokens

`LoadOf` is `config.Load` as a function of file and environment: defaults, file,
environment, validation. `Load` is the action that applies it once; TLC takes
every combination of the settings that the daemon cannot do without; a file that
does not exist sets none. `LoadIsRight`:
what is accepted can be run (`AcceptedRuns`), a setting of the environment hides
the file's, also when the file's is wrong (`EnvironmentWins`), and a missing file
is an empty one (`FileIsOptional`). Settings that are read the same way are left
out.

`Tokens` has the sources of a repository and the global ones, whose contents
change while the program runs, and `TokenForRepo`. `BestToken`: a client gets the
first token of its chain at that time, and none only when there is none or a
better place cannot be read. One repository is enough, as repositories meet only
in the global sources.

## Proofs

All theorems hold for every value of the constants that the named assumptions
allow. The listed ones are in `PROJECT.json`.

`ScalerProofs` proves, for every set of repositories, every finite set of names
and every set of positive capacities (`ScalerAssumption`), that `Spec` implies
`[]TypeOK`, `[]SlotAccounting`, `[]NoLeakedSlot`, `[]MapsAgree`,
`[]NoUnstoppableProcess` and `ImplementsPool`.

None of them is inductive alone; `Inv` is their conjunction with
`ListenerOwnsTarget`. Counting a granted slot needs the runner not to hold one:
the listener's target is `issued` (`ListenerOwnsTarget`) and issued runners hold
none (`NoLeakedSlot`). That a runner in the maps holds its slot (`MapsAgree`) is
kept by a release because the callback's target is in no map any more
(`ListenerOwnsTarget`) and the goroutine's runner was cleaned up. `current` stays
a natural number because a name in `holds` is counted (`SlotAccounting`). Each
conjunct has a lemma with one step per action.

For single callbacks there are two inductive strengthenings more.
`NeverOvershoots` rests on `CreatedWithinBudget` (the loop has created fewer than
`RunnersToCreate` when it starts another) and `TrackedWithinBudget` (a scaler's map has at most the
runners found, created and being started; others only remove).
`CompletionFrees` rests on `SlotsHaveRelease`: a slot's release function is in the
map, or in the hands of the callback, until clean-up.

What the end looks like follows from `Inv`. `NothingIsLeft`: when every listener is
between callbacks and every runner's goroutine has returned (`Quiet`), the
semaphore counts zero and the four maps are empty, whatever callbacks, exits,
cancellations and failures went before. `DrainedForGood`: after shutdown, with no
slot held and no process, nothing takes a slot or starts one again, although
callbacks still come. That is the box of `ShutdownDrains`; that the daemon gets
there is its diamond and needs fairness, so it stays with TLC.

`OrchestratorProofs` proves `[]TypeOK`, `[]OneCapacity` and
`[]RegisteredOwnsSession` for every finite set of repositories and all requested
counts (`OrchestratorAssumption`). `OneCapacity` says nothing while
`SetMaxRunners` is under way; `CapacityInv` adds that its second half has set the
semaphore and all listeners but those in `todo`, and that `todo` is empty
otherwise, so that nothing registers behind its back. `SessionInv` adds that
`runRepo` owns the session from the request on and is registered only around
`l.Run`. `ErrChHasRoom` says that no repository's goroutine blocks at the end: the
channel has as many errors as there are goroutines that are done (`ErrsInv`), the
one that reports is not among them, and the channel has room for one per repository.
A sender that blocked would keep `wg.Wait`, and so `Run`, from returning.

`SemaphoreProofs` (`SemaphoreAssumption`): `[]TypeOK`, `[]CountIsExact` and
`ImplementsPool`. The inductive invariant adds `SawNoSlot`: a call about to wait
saw no free slot and still has the mutex, so none came free in between. Lemmas say
what the queue of tickets holds after `cond.Wait` and `Signal`. `NoWakeupMissing`
proves `[]FreeSlotsHaveTakers` under the assumption that all calls have one
context, as in the daemon; without it `semaphore_swallowed_signal` is the
counterexample.

`RunnersProofs`, about `DockerWorker` for any set of runner names:
`[]NothingStale`, `[]ContainersOwned`, `[]SuccessIsReal`. `OwnedInv` adds
that a request Docker works on belongs to a run that waits for it or to an
abandoned one; `StaleInv` that while `Reconcile` sweeps, whatever is older than its listing is on its list;
`ResultInv` that after a success the container does not run again. Two theorems
more: `ReturnedRunsAreClean`, that a run which returned and was not abandoned has
no container and no request that could still make one; and `NobodyElseRemoves`,
that no container disappears under a run that has not asked for it, because delete
requests under way belong to runs at their end (`RemovingInv`) and `Reconcile`
sweeps only before runs begin.

About `RunnerCache` (`RunnerCacheAssumption`), for any archive and jobs:
`[]VerifiedRunnerIsWhole`. `TreeInv` says that the right checksum file stands only beside a whole tree: a download begins without one, its removal
goes on to the extraction without one, and it is written after the last entry.
`WorkInv` says that only a manager that serves has workers.

Both are proved of the module by itself and carried over to the composition that
runs: a behaviour of `Runners` is one of `DockerWorker` (`RunnersAreDocker`) and
one of `RunnerCache` (`RunnersAreSubprocess`), since the executor that does not
work stutters, but for `calm`, which both may set. With that `[]TypesOK`, of both,
holds too.

`ControlSocketProofs`, for any daemons and clients: `[]TypeOK` and
`[]StopIsAccepted`, and assuming `~Overlap` also `[]SocketIsSound` and
`StartIsNotRefused`. A stop is true because a process that ends takes its
connections with it (`OwnedByRunning`): nobody has an answer of an earlier process
of the same daemon. `StartIsNotRefused` is what safety there is in `ServerRecovers`: with
nothing failing, no start of a daemon that is not stopping ends in an error, so
what a crash left at the path never refuses one. `StartInv` has what the start
knows of the path at each of its steps. `SocketInv` says that one daemon is up,
that it owns the path from its `Listen` on, and that nothing closes its listener
before it is published, nor afterwards unless its context is done.

`SelectionProofs` is about loops over a sequence. `Keep` is "for each
element, append it if it is wanted", a function over the index up to which the
loop has come. The library's induction theorems take a predicate and cannot be
used, but a set can stand for it: `LeastNat` (a set of naturals that is not empty
has a least element, from the well-foundedness of `<`), `Induct` (a set with 0
and every successor up to a bound has all of them). By `Induct` the equations of
the loop have a solution (`KeepDefined`), and the result has exactly the wanted
elements, in their order (`KeepFacts`): whatever stood before one of them and is
wanted comes before it. `FeedDefined` is the same for the loop in which a dashboard
takes an answer event by event. `Keep` is the queries and filters of
`EventStream`, `Commands` and `Dashboard`.

`EventStreamProofs` (`EventStreamAssumption`), for any goroutines that publish, any
polls that overlap and any sizes: `[]TypeOK`, with `BoardIsOfTaken`, and
`[]NothingPassedOver`. The assumption has sizes of at least one, names that are
not taken for each other, and a dashboard that is closed told from one that is
open (`None \notin View`). `NothingPassedOver` needs what is under way:

- `FileInv`: the file is what was written since the last rotation, and the
  daemon's start was written once. Of the events a new dashboard does not read,
  those before the last start are thus `Old`.
- `ViewOK`: a dashboard took only what was written, and its last stamp is that of
  an event it took.
- `PassedNone`: what stands in the file in order is not behind the dashboard, or
  has a twin among what it took.
- `InOrder`, of every answer that waits: before an event it has all those of the
  file, in order, that taking the event would move past. It holds when the query
  is made, because an answer is the file's events from a stamp on that the
  dashboard has reached (`KeepFacts`). It survives a line that is appended later,
  because such a line is late if the answer has a later stamp; a rotation, because
  that only takes events away; and another answer, because the dashboard only
  advances.

An answer is taken by a loop, whose invariant is `PassedNone` for what was taken
so far together with `InOrder` for the rest. The same loop keeps `BoardOf` and the
bounds.

`TerminalProofs` proves each component alone, then that a behaviour of `Terminal`
is one of every component (`TerminalIsEach`, from `StepOfOne`: a step is one of
the component at work and leaves the others alone), then each property of the
composition that runs. `TerminalAssumption` is the conjunction of the components'.

- `Identity`, for any hosts and number of certificates: `IdentityStable`.
  `StoredInv` says that the files of a host that has shown an identity are those of
  this identity, at most one of them lost.
- `TrustStore`, for any hosts, fingerprints and clients, also infinitely many:
  `TrustOnFirstUse`. Who races is rewriting the file, and all who do
  (`RacingIsRewriting`), so without a race there is at most one (`Alone`). That
  one has in memory what the file had before it emptied it (`InMemory`), with its
  own host unknown there, or known by the fingerprint it was shown. So the
  truncation changes nothing that is trusted, which the refinement needs, step by
  step (`TrustStep`): `Handshake` is `Connect`; the two ways to succeed are
  `Trust`; a mismatch is `Refuse`; a failed write is `BreakOff`, any earlier
  failure `Fail`; all else is a stutter, or `Race` where saves race.
- `Commands`, for any list of repositories and any capacity: `[]AnswersAreTrue`.
  `RowsInv` says that the rows so far are those of the first repositories asked
  for, in order, whichever requests failed (`ReportIsComplete`,
  `RunnersFiltered`). `LiveInv` says that what a live answer has read is still so
  unless the daemon `moved` in between. `LiveAddsUp` then follows from
  `WorldTypes`: no more runners are listed than slots are taken. Counting them
  needs that the configured repositories, hence the runners, are finitely many.
- `Dashboard`, for any events, filters, panel heights and sizes of the list:
  `[]BoardIsRight`. `BoardInv` adds to the types that where there is a selection
  there is a scroll position. A selection with the scroll position of none would
  be shown from the end of the list, outside the window; no key leads there. The
  nearest match of `n` and `N` is the smallest distance around the list, by
  arithmetic modulo its length: `Rounds` takes a selection beyond the list back into
  it, and from there a step leaves the list by less than one round (`Wraps`).
- `Configuration`, for every file and environment: `[]LoadIsRight`, from
  `ConfigInv`, that what was loaded is `LoadOf` of the two. What remains is a
  property of the function, by cases over where each setting comes from.
- `Tokens`, for any repositories: `BestToken`. The six places are tried one after
  the other; the lemmas say that the first that holds something or fails is the
  least in the order of the chain, and that the client has what it holds.

What the proofs changed in the models: loops are functions of an index, the
runners a daemon lists and the scale sets there were are sets, a live answer
counts its reads, and the compositions are specifications with constants of their
own, of which `MCRunners` and `MCTerminal` are small instances.

Only model-checked:

- every liveness property, and `PublishNeverBlocks`, which is about `ENABLED`:
  both are out of the prover's reach;
- the four disagreements, which are counterexamples.

Every other property of a passing run is proved.

## What is left

1. The runners of a failed repository, across `Orchestrator` and `Scaler`: the
   scaler leaves the table (orchestrator.go:184) while its runners go on and keep
   their slots.
2. Two daemons on one set of repositories at GitHub, each deleting what the other
   created (orchestrator.go:269).

### Not modelled

- Rendering to text, colours, help texts, table layout, opening a URL, the
  prompts of `gso token`: layout or I/O.
- Flags, `gso version`, `gso config-check`, `gso scaleset inspect`: they read and
  print.
- HTTP, archive formats, certificates, hashing: libraries, or an outcome.
- `lastDecision` of a scaler, which only keeps a decision from being published
  twice.
- `RemoveRunner`, a request by a number that GitHub checks; the lookup of the
  binary in `Health`; `SanitizedEnv`; `CheckIPAllowed`: pure, without state.
- The numeric limits of the Docker settings; the filters of `gso log`.
