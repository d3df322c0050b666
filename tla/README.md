# Belochka: specification and proofs

Belochka is a self-hosted panel for a handful of Linux servers.  A Go backend
keeps one SSH connection per server, collects metrics over it, runs batch
commands, edits crontabs, lists processes and bridges terminals; a React client
talks to it over REST and WebSockets.  Line references are to `src/`.

Two kinds of parts are modelled.  On the server, where goroutines share state: the
Batch Command engine, the SSH connection pool, what keeps the monitored servers in
step with the servers table, and the hub that feeds the dashboard.  In the browser,
where requests, sockets and the user meet in any order: the dialogs, tabs and
reducers, each with the handlers its requests reach.  For each there is a state
machine translated from the code, a run of TLC on a small instance, and theorems that
TLAPS proves for every value of the constants.  Every invariant and every action property
that a passing run checks is also a theorem.  Two liveness properties are theorems too,
from fairness stated by the guards of actions; the others are left to TLC.

| module | what it is |
| --- | --- |
| `BatchRun` | the Batch Command engine with its tables and event channels |
| `BatchRunContract` | what a REST client may rely on about Batch Runs |
| `BatchRunProofs` | invariants of `BatchRun`, and that it implements the contract |
| `SSHPool`, `SSHPoolProofs` | one managed connection: loops, Reconnector, keepalive, callers; its invariants |
| `Monitoring`, `MonitoringProofs` | Syncs, pool membership, the manager and its collectors; its invariants |
| `HubState`, `Hub` | the WebSocket hub, its broadcasters and the pages that show its data: variables and promises, then the steps |
| `ServerForm`, `ServerFormProofs` | the add and edit server dialogs and the requests they make; its invariants |
| `BatchClient` | the Batch Command dialog against the engine's REST calls and stream |
| `StreamProofs` | the streams a page follows: invariants of `BatchClient` and `Hub` |
| `Crons`, `Processes` | the two tabs of a server's page with their services |
| `ServerDetail` | the page that mounts one tab at a time: composes `Crons` and `Processes` |
| `ServerDetailProofs` | that the page implements each tab, and the invariants of both |
| `Inventory`, `InventoryProofs` | groups and servers in the sidebar, the dashboard and the database; its invariants |
| `Session`, `SessionProofs` | pages, sessions, lockout, and the settings with their restart; its invariants |
| `MC...` | instances for TLC, with symmetry sets where they are sound |

## 1. Inventory

Each component with its state, its operations, the parts it talks to, what is
hard about it, and what makes it correct.  `PROJECT.json` lists the hazards line
by line.

**Batch Command engine** (`internal/batchrun/service.go`,
`internal/store/batchrun.go`, `internal/api/batchrun_handler.go`).
State: the retained run (`current`), its context, results and registered
sessions, the subscriber channels, the two tables.  Operations: Dispatch, Cancel,
Input, Subscribe, Run, the per-server `runOne` goroutines with a read loop each,
`waitForCompletion`, `finalizeStaleRun` at start.  Calls the pool (`OpenPTY`), the
store, and serves the WebSocket handler.  Hard: the dispatch guard is released
before the store transaction; Cancel races with sessions that are being opened;
exit status races with output; the process dies mid-run; subscribers come and go
while runs end.  Correct when: one run at a time, one retained run, a verdict per
server that is never revised, whole output with a verdict taken from the exit,
a cancel that reaches every session, a restart that finalizes exactly what was
unfinished, a stream that tells the truth about the tables.

**SSH pool** (`internal/ssh/pool.go`, `reconnect.go`).  State: `conns`; per
server a client, two cancel functions, a Reconnector (state, attempts, last error)
and a keepalive.  Operations: Add, Remove, CloseAll, TriggerReconnect, Reconnect,
Status, Execute, RunCommand, OpenPTY; goroutines: `runConnection`,
`Keepalive.Run`.  Called by the synchronizer, the collectors, REST handlers.
Hard: several loops can share one connection, calls are sequences of critical
sections, dial and ping do not take the context.  Correct when: one loop tends a
server, none survives its removal, a replaced transport is closed, `connected`
is watched and `failed` is justified.

**SSH dialling, errors, PTY bridge** (`internal/ssh/connect.go`, `errors.go`,
`pty.go`, `command.go`).  No state of their own but the session's.  Errors are
classified as retryable or not; the exit status of a session arrives once.

**Metrics collection** (`internal/monitor`).  State: per server a ticker
goroutine, consecutive failures and the one-shot trigger flag, previous CPU and
network counters, the latest snapshot.  Triggers pool reconnection at the third
failure.  Hard: the one-shot flag against a reconnection that fails, counters
that restart at a reboot, Start/Stop racing with a cycle.  Correct when: an outage
triggers once and a later one triggers again, no delta is negative or huge.

**Server synchronizer** (`internal/app/synchronizer.go`).  Reads the server list
and adds and removes connections and collectors; called after every inventory
change from its request's goroutine.  Hard: two Syncs with lists read at different
times.  Correct when: after the last Sync, pool and collectors equal the table.

**WebSocket hub and broadcast** (`internal/hub/hub.go`,
`internal/app/broadcast.go`).  State: client set, two unbuffered channels and one of 256 places,
a buffer per client.  Hard: the limit is tested before registration, sends block
once Run has returned, a full buffer loses messages, assembling races with
assembling.  Correct when: no client holds the hub up, a page gets its
place back, the last message shown is the newest.

**Authentication** (`internal/auth`) **and configuration** (`internal/config`),
with `LoginPage`, `SetupPage` and `SettingsDialog`.  State: password hash and
sessions, failed-login counters with lockout, the configuration in memory and on
disk, what each page shows.  Hard: first-run setup and password change race with
logins, cleanup races with lockout, memory and disk part when a write fails, answers
come after the dialog was closed.  Correct when: no session survives the change
of its password, a lockout has its failures, the settings save what was edited, and
nobody misses that a restart is needed.

**Server, group and key inventory** (`internal/store/store.go`,
`internal/api/*_handler.go`), **sidebar, dashboard and server dialogs**
(`web/src/components`, `useGroups`, `useTreeState`, `useMonitorState`,
`useServerForm`).  State: three tables and the key files; on the page two listings of
groups, the servers of the last snapshot, the tree, the form and its test.  Hard:
mutations, refetches and snapshots overtake each other, two-statement handlers,
partial updates merged into a stale copy, a test that answers into another form.
Correct when: a page at rest shows the database, a record has the key of its
host, an update loses nothing.

**Encryption at rest** (`internal/crypto`).  A key and AES-GCM.

**Cron** (`internal/cron`, `useCrons`, `CronJobsTab`) **and processes**
(`internal/process`, `useProcesses`, `ProcessesTab`).  State lives on
the server: the crontab, the process table; the page has a copy.  Read-modify-write
over separate remote commands; entries addressed by position, processes by pid.
Correct when: an operation reaches the entry that was picked, rows and errors stay
together, a protected process is not killed.

**Terminal** (`internal/terminal`).  State: the set of open sessions.  Two copy
goroutines per session, CloseAll at shutdown.  Correct when: every session ends on
either side and none survives CloseAll.

**Application lifecycle** (`internal/app/app.go`, `internal/shutdown`).  Ordered
start, restart, shutdown steps with a timeout.  Hard: a step that outlives the
timeout, a database closed under executions that still persist.

**Batch client** (`useBatchRun`, `BatchCommandDialog`) **and monitor client**
(`WebSocketProvider`).  State: a reducer, a WebSocket, a retry timer, pending
requests.  Hard: late answers, events of old sockets, resync after a lost stream.
Correct when: a run shown as done is shown exactly, and one that ends is shown so.

**Desktop tray, HTTP plumbing, logging, clock, static files, presentation.**  No
protocol state; not modelled.

## 2. `BatchRun`

An execution is a pair of a run and a server.  The variables follow the code:

| variable | code |
| --- | --- |
| `current`, `phase` | `Service.current`, and how far Dispatch and `waitForCompletion` of each run have got |
| `cancelled`, `closing` | the run's context; Cancel between `cancel()` and closing the sessions |
| `pc`, `result`, `reader`, `sessions` | `runOne`, the in-memory `RunResult`, the read loop, `runState.sessions` |
| `proc`, `unread` | the remote process and the output in flight (external) |
| `dbRun`, `dbStatus`, `row` | `batch_runs` and `batch_run_results` |
| `chan`, `last` | the client's channel; the last event it was sent about each server |
| `mode`, `crashes`, `todo` | process up, down, or in `finalizeStaleRun` |

Each lock region, store call and blocking call is one step; between two of them
another goroutine, the remote process, a client or a crash may step in.  A status
of a failed result carries its reason (`exit`, `error`, `cancelled`,
`unpersisted`, `interrupted`) because the reasons are what the properties tell
apart; output is counted in chunks, of which `OutCap` are kept.  A crash loses
memory and keeps the tables.  A dead run's goroutines are gone with the process.

`BatchRunContract` has three variables: the retained run, its status, a verdict
per execution.  It says that a running run is never replaced, that each result
advances to one verdict and only while its run is running, and that with a reliable
store a run is done only when all results are final.  The refinement mapping
is the tables themselves.

### Runs

| run | instance | question |
| --- | --- | --- |
| `batch_core` | 2 runs, 2 servers, 1 crash, failing store | safety, and the contract, whatever the store does |
| `batch_live` | 2 runs, 1 server, 1 client, 1 crash, reliable store, fairness | a cancelled run ends, a stale run is finalized, events against tables and earlier events |

Bounds.  Two runs are the least with which one replaces another.  Two servers are
needed only where `waitForCompletion` waits for all of them.  One chunk in flight
(`PipeCap`) separates "output pending" from "drained"; `batch_core` has none, since
its properties do not look at output.  One crash covers each point of a run.  Without
a bound on run IDs the state space would not end: when both are used and nothing runs,
the model stops, which is why deadlock is not checked.  Run IDs, servers and
clients are interchangeable, and symmetry is used in the safety run only.

Fairness.  Every goroutine of the engine that can step does so in the end (Go
schedules it, and store calls return): weak fairness of `RunStep`, `ExecStep`,
`ReaderStep`, `CloseSessions` and of the boot sequence.  Nothing is assumed of
clients, of the remote process (a command may never exit) or of crashes; that is
why `CancelEndsRun` is about cancelled runs: only a cancel closes the sessions.

### Proofs

`IInv` is inductive and has six parts: who may be alive in which phase (`SerialInv`),
what a crash and a boot leave (`BootInv`), verdicts in memory against rows
(`VerdictInv`), rows of a done run with a reliable store (`ReliableInv`), sessions,
readers and processes (`SessionInv`), and `NoStrandedSession` itself.  The
serialization property is not inductive alone: the in-memory guard is passed by two
dispatches at once, and only the `WHERE status = 'running'` test inside the
transaction keeps one of them out, so the invariant must tie the table's run to the
phase of every run.  From it follow `SerializedExecution`, `NoOrphanRow`,
`DoneRunIsFinished`, `NoStrandedSession`, `CompleteOutput`, the action property
`VerdictIsFinal`, and `RefinesContract` (initial states map to initial states, and
each action is a step of the contract or a stutter).  The only assumption is
`ConstantsAssumption`; the store may fail or not, and the number of crashes, runs,
servers and clients is arbitrary.

Two more invariants rest on `IInv`.  `TrackedInv` says that a run recorded as running
has a waiter while the service is up, if the store is reliable; from it
`IdleServiceAcceptsDispatch` follows.  `EventInv` relates the last event a client was
sent about a server to the execution: an event of a run comes after its dispatch, a
verdict only when the execution has nothing left but its cleanup, and what is about to
be sent is what the row holds.  It gives `VerdictStoredBeforeSent` and
`VerdictIsLastEvent`.  `CancelTakesPrecedence` follows from `IInv` alone.

`NoOrphanRow`, `DoneRunIsFinished`, `CompleteOutput` and `IInv` are proved and not part of
a run.  Only model-checked: the liveness properties, `CancelEndsRun` and
`StaleRunIsFinalized`.

## 3. `SSHPool`

One `managedConn`.  A loop is a `runConnection` goroutine with its own
context; `Add` starts loop 1 and every Reconnect one more.  A caller is a goroutine
inside Remove, TriggerReconnect or Reconnect.

| variable | code |
| --- | --- |
| `state`, `attempts`, `lastError` | the Reconnector, shared by all loops |
| `client`, `open`, `broken` | `mc.client`; the transports opened and not closed; those whose peer is gone |
| `cancel`, `kaCancel` | `mc.cancel`, `mc.kaCancel`, named by the loop they cancel |
| `ctxDone`, `kaDone` | loops whose context, keepalive context, is cancelled |
| `pc`, `failures`, `pinged` | where each loop is; the failure count of its keepalive; the transport it pings |
| `call`, `fresh` | where each caller is; the loop it is about to start |
| `inPool` | the managedConn is in `Pool.conns` |

`gossh.Dial` does not take the context: a dial that began before a cancel succeeds
after it.  A ping is a request on a transport that another goroutine may close
meanwhile.  An error is `retryable` or `fatal` (`IsRetryable`).  Backoff and ticker
intervals are not modelled: a timer may fire whenever it is armed.  CloseAll does
to each connection what Remove does, and Add after Remove makes a new managedConn,
so one connection is enough.

### Runs

| run | instance | question |
| --- | --- | --- |
| `pool_loop` | 1 loop, 2 callers, 5 attempts, 3 pings (the code's values), fairness | automatic operation: triggers and a removal against one loop; a lost connection is noticed, reconnecting ends |
| `pool_calls` | 2 loops, 1 caller, fairness | a reconnect and a removal one after another against a loop at every step; one loop is alive, none after the removal, and a cancelled one ends |

Bounds.  `MaxLoops` bounds the Reconnect calls ever made; with none left a
connection may rest in `failed`, and a removed one rests for good, so deadlock is not
checked.  Transports are reused once closed and no longer pointed to; two let an old
and a new one be told apart.  `pool_calls` has two loops, one reconnect: what goes
wrong between calls goes wrong between two loops, and two attempts and one ping reach
each branch; the theorems cover every value.

Fairness.  Weak fairness of each loop's steps and each caller's: Go
schedules goroutines, timers fire, a dial and a ping return, which is what the
network stack promises for a dead peer.  `KeepaliveEnds` is strongly fair:
Go's `select` picks at random between a tick and the cancelled context, so the
context is not passed over for ever.  Nobody has to call anything.

### Proofs

The invariants differ because the code promises different things under different use.
`LocalInv` (with `TypeOK`) always holds: ping failures stay below the threshold
between ticks.

*Any number of overlapping calls.*  Nothing in `pool.go` makes one call wait for
another: a REST handler's Reconnect, a collector's TriggerReconnect and a Sync's Remove
interleave section by section.  `OwnerInv` says that a live loop is the one `mc.cancel`
cancels, that each Reconnect under way has a loop of its own to start, and that the loop
about to start is the one in `mc.cancel` or already cancelled; `RemovalInv`, that after a
removal the context in `mc.cancel` is cancelled or about to be.  One step breaks each:

| theorem | property | unless there is |
| --- | --- | --- |
| `OnlyOverwritesMultiply` | `OneLiveLoop` | an `Overwrites`: a Reconnect puts its context over one that nobody has cancelled |
| `OnlyLateRenewalsSurvive` | `RemovedMeansStopped` | an `Overwrites`, or a `LateRenewal`: a Reconnect installs its context after the connection has left the pool |

Both steps are reachable with two callers (section 9), and neither with one
(`CallsInTurn`).

*Calls one at a time.*  `TenderInv` holds when calls do not overlap (`OneCaller`), for
any number of reconnects: between `CancelOldLoop` and `SpawnLoop` no loop is alive.
`SoloInv` holds when Reconnect is never used (`MaxLoops = 1`), for any number of
concurrent triggers and a removal: at each step of the loop, what is open, and how many
attempts are counted.  It gives `ReplacedTransportIsClosed`, `FailedForCause`,
`RetriesBounded`, `ConnectedIsTended` and `FailedIsFinal`.  `FailedForCause`,
`RetriesBounded`, `FailedIsFinal` and the invariants are proved and not part of a run.

What goes wrong when Reconnect is used?  The dial does not take the context, and a
loop does not look at it between the dial and the report of its outcome: one that Reconnect
has stopped still writes `mc.client` and the Reconnector, which by then belong to the loop
after it.  `SSHPoolProofs` names these late steps, and its theorems say that, with calls
made one at a time, nothing else is to blame, for any number of reconnects:

| theorem | property | unless there is a |
| --- | --- | --- |
| `OnlyLateDialsLeak` | `ReplacedTransportIsClosed` | `LateDial`: a dial succeeds for a loop that is stopped or about to be |
| `OnlyLateConnectsAreUntended` | `ConnectedIsTended` | `LateConnect`: a stopped loop reports its success |
| `OnlyLateFailuresOvercount` | `RetriesBounded` | `LateCount`: a stopped loop counts a failure |
| `OnlyLateReportsFailWithoutCause` | `FailedForCause` | `LateConnect`, `LateCount` or `LateVerdict`: a stopped loop gives up, or resets the Reconnector after its keepalive |
| `OnlyReconnectLeavesFailed` | `FailedIsFinal` | the same |

Each hypothesis is about the steps of a behaviour (`[][~LateDial]_vars`), and is what a
repair would have to establish.  The invariants (`TransportInv`, `WatchInv`, `CountInv`,
`CauseInv`) say what holds at each step of the one live loop and of the one call; between
`CancelOldLoop` and `SpawnLoop` no loop is alive, which is why they rest on `TenderInv`.

Liveness.  `CancelledEnds` proves `CancelledLoopEnds` for any number of reconnects, attempts
and pings, and `StoppedLoopEnds` that a loop which was started and is stopped ends however many
calls overlap.  A stopped loop that dials goes through its steps in a fixed order, and
weak fairness takes it from each to the next.  A keepalive returns to its `select` again and
again, and strong fairness makes it see the cancelled context there at last.  ENABLED is
beyond the prover, so both theorems state fairness by guards (`Scheduled`): a loop
that stays at one of `RunSteps` or `PingSteps` takes its step, and one that is at its
`select` again and again with a cancelled context ends its keepalive.  That is what
`LoopFairness` says of the same actions, because at each of these steps one of the
disjuncts only gives primed variables their values: a store can always answer with an
error, a dial can always fail, a ping is answered or not.

Only model-checked: `LostConnectionHeals` and `ReconnectingResolves`, which count ping
failures and attempts up to their limits: that is an induction.

## 4. `Monitoring`

A syncer is a goroutine that runs Sync: first Start's, then one per request that
changes a server.  A collector is a `Collector.Run` goroutine; it is never used
again once it ends.

| variable | code |
| --- | --- |
| `started`, `table` | the listener is open; `servers`, where an ID is used once |
| `sync`, `list`, `todo`, `cur` | where each Sync is, what it listed, and its loop |
| `pool`, `up` | the keys of `Pool.conns`; those with a client |
| `managed`, `target` | `Manager.collectors` |
| `step`, `stopped` | each collector goroutine; its context is cancelled |
| `failures`, `fired` | `Collector.failures`, `thresholdFired` |
| `met` | history only: the running Syncs that another one has overlapped |

A connection is only a member of the pool that has a client or not, and may get or
lose it at any time: everything `SSHPool` does, seen from outside.  An update
changes no ID and so only runs a Sync.  `StopAll` belongs to shutdown.

| run | instance | question |
| --- | --- | --- |
| `monitoring_sync` | 2 servers, 2 syncers, 2 collectors, threshold 2, failing list | what Syncs guarantee when they overlap and when they do not; one trigger per outage |

Bounds.  Two Syncs overlap in every way that two critical sections can; a third
only repeats what one of them does.  Two servers give a loop with a rest.
`Collectors` bounds the goroutines ever started; when they are used up or nothing
is asked the model may rest, so deadlock is not checked.  `failures` is counted to
just above the threshold, from where the code treats all numbers alike.

Sync looks for surplus servers among the collectors only, so a connection without
a collector would stay for ever.  `NoForgottenConnection` says there is none; it
holds because Add makes the connection first and the collector second while Remove
goes the other way, and it does not need Syncs to be serialized.

Proofs.  `IInv` is `SyncInv` (where each Sync is, with `NoForgottenConnection`),
`CollectorInv` (one goroutine per server, and what `fired` says of `failures`) and
`AloneInv`: how far a Sync that nobody overlapped has got, from which `SyncIsExact`
follows when it returns.  `met` is what makes that inductive: any other Sync
that starts puts both into it.  `OneTriggerPerOutage` follows from `CollectorInv`: the
flag that is set says that the threshold has been reached, and the one that is not,
that it has not.  The theorems hold for any number of servers, syncers and collectors
and any threshold, and cover every property of the run; `NoForgottenConnection` and
`OneCollectorPerServer` are proved and not part of a run.

## 5. `Hub`

A message is the version of the data it was assembled from: a broadcast, the
snapshot kept for new clients and what a page shows are versions.  A connection is
one WebSocket with the goroutines that serve it, and is used again when nothing
refers to it any more.

| variable | code |
| --- | --- |
| `clients`, `snapshot`, `queue`, `ended` | `Hub.clients`, `Hub.snapshot`, `Hub.broadcast`, Run has returned |
| `buf`, `closed` | each client's `send` channel, and whether it is closed |
| `serve`, `writer`, `reader` | where `ServeWS`, `writePump` and `readPump` of a connection are |
| `link` | the connection: open, left by its page, shut by the server, or silently lost |
| `sock`, `due`, `shown` | each page's `wsRef`, its pending (re)connect, the snapshot it shows |
| `work`, `read` | where each broadcaster is, and the version it assembled |
| `version`, `cancelled` | the data; the context of the hub is cancelled |

The broadcasters are the ticker's goroutine and request goroutines that change a
server.  Registering a client, giving it the snapshot and starting its pumps is one
step.  A broadcast that assembles nothing, because listing the servers fails, is
`Quits`; a version is read as a whole, where the code reads servers, connection states
and metrics one after another.  A channel nobody receives from any more is
emptied.  A reload stands for leaving the dashboard and opening it again.

| run | instance | question |
| --- | --- | --- |
| `hub_live` | 1 page, 1 place, 2 connections, a ticker, a request, buffers of 1, fairness | no client holds the hub up; a page gets its place back; what it shows becomes current |

Bounds.  With one place (`maxClients` is 10) a connection that lingers on the server
turns its own page away.  Buffers of 1 (256 in the code) are full at once, so that
every send meets the full case.  One event of the kind
`MaxBreaks` counts (a lost link, a reload, the shutdown) is enough to leave a dead
client behind or to meet the shutdown at any step; both in one behaviour are not
covered.  Nothing ticks once the hub has ended and the last change is made, so deadlock is
not checked.

Fairness.  Weak fairness of the pumps, of `ServeWS` and of `onclose`: goroutines run, a
write on a dead link fails when the transport gives up, and a browser reports a
dead socket.  Strong fairness of the hub's receiving: `select` picks at random among
what is ready, so neither a client nor a broadcast waits for ever.  Strong fairness of
each broadcaster and of `Connect`: senders on a channel are served in turn, and the
page's timer fires again after each refusal.

The interesting case is a link that is lost without a word.  `readPump` has no read
deadline and never notices.  The dead client keeps its place until a write to it fails,
which ends `writePump`, closes the connection and so wakes `readPump`.  It is
the ticker that guarantees the write.  `PageComesBack` therefore depends on the broadcasts, and
`BroadcastNeverBlocks` on the `default` branches in Run: with blocking sends
a full client would stop the one goroutine that can remove it.

`BroadcastNeverBlocks` and `PageComesBack` end with the shutdown.  Once Run has returned nobody receives from
`register`, `unregister` and `broadcast`, and a goroutine that sends there waits until
the process ends.  The limit itself is not a property: the count is read before the client
is registered, so that as many more may pass as upgrades are under way.

Proofs (`StreamProofs`, where this module is `H`).  `HubInv` has the types (channels keep to
their capacity, messages are versions) and `Served`, which adds to `ClientsAreServed` what makes
it inductive: a closed channel still has a writer to drain it, and a connection that
`ServeWS` is about to register has no pump from an earlier use, so that it is neither a client
nor closed.  The third part is why the reader can be relied on: a writer ends by closing
the connection, and nothing makes a closed one look alive to its reader again.  The theorems
hold for any number of pages, connections, broadcasters and places, any capacities, and any
number of losses and reloads.

`BroadcastsGetThrough` proves `BroadcastNeverBlocks` from two parts of the fairness, stated by
guards since ENABLED is beyond the prover: a hub that is at its select with a message in the
queue again and again takes messages (`Delivers`), whatever its clients do, and a sender that
finds room again and again gets in (`GetsTurn`).  The queue cannot stay full, since each receive
makes room.  `HubState` holds what the properties speak of, so that the theorems state the
properties the run checks.

Only model-checked: `PageComesBack` and `AttachedPageSettles`, which need an induction over the
messages that fill a dead client's buffer, or wait in a live one's.

## 6. The pages

### Slips

The front end is written for one user who waits: much of it compares nothing when
an answer arrives.  Properties of such code hold for the orders the code handles and
fail for those it does not.  Each page module names the latter.  A *slip* is a step
after which a property is known not to hold, with a name and the condition under which
the step is one.  In `Crons`, `Processes`, `Session` and `Inventory` a step that is a
slip happens only if the constant `Slips` names it; in `ServerForm` and `BatchClient`
the variable `slips` records it, behaviours go on past the ones the configuration
names, and the property is about the others.  The step itself is always the
code's, so that naming a slip in a configuration shows what it leads to.  The slips
are the list of what a maintainer should know about these pages:

| module | slip | what happens |
| --- | --- | --- |
| `ServerForm` | `late` | a form is edited, or a dialog closed, with a test or a save in flight (`useServerForm.ts:42`): the result goes into what the form is by then |
| | `kept` | the detail page's edit dialog, opened again, compares with what it was first opened with (`EditServerDialog.tsx:80`) |
| | `rival` | another page saves another host while a dialog is open |
| | `torn` | a move by another page comes between the read and the write of an update (`server_handler.go:146`) and is lost |
| `BatchClient` | `stale` | a response is applied after a newer one, or under another run's socket |
| | `late` | the stream of a run that is over is opened: nothing ends it (`service.go:314`) |
| | `twin` | `onclose` of an old socket clears the reference to a newer one (`useBatchRun.ts:223`) |
| | `lost` | a resync fails; the comment in its `catch` says "the retry timer will fire again", which nothing sets (`useBatchRun.ts:247`) |
| `Crons` | `overlap` | two requests that do not commute are in flight: both write back a crontab they read before |
| | `held` | a row moves or changes under a dialog that holds its position |
| | `unsure` | a change is carried out and its answer lost: the page takes it back |
| | `navigate` | another server is shown while the tab is open (section 9) |
| | `foreign` | someone else edits the crontab meanwhile |
| `Processes` | `overtaken` | a listing is asked for while an older one is in flight |
| | `recycled` | a pid is given to another process while the page lists the old one |
| | `raced` | the same, between the check and the kill (`process/service.go:137`) |
| `Inventory` | `escape` | the dialog of a deletion or a move is left while it runs (`DeleteGroupDialog.tsx:46`) |
| | `overlap` | two mutations that do not commute are in flight |
| | `unlisted` | a listing of groups fails, and is not tried again |
| | `unsure` | a change of the groups is carried out and its answer lost: the dialog says that it failed, nothing is listed again, and a deleted group stays the dashboard's filter (`Sidebar.tsx:134`) |
| | `dangling` | a server is added to a group the sidebar deleted and the dashboard still offers, from its own listing or as its filter (`Dashboard.tsx:118`): it has no row in the sidebar |
| `Session` | `eager` | settings are saved before they are loaded again: the server reports resolved paths after a load and stored ones after a save (`useConfigForm.ts:91`) |
| | `unsaved` | the configuration cannot be written: it is changed in memory all the same, and written by the next save (`config/store.go:56`) |
| | `leave` | a page is left while it changes something |
| | `unsure` | a new port is stored and the answer lost: the page says that saving failed and nobody is told of the restart (`useConfigForm.ts:94`) |

### `ServerForm`

`kind` is the dialog of the page: `add`; `card`, the edit dialog the dashboard mounts
for each edit; `page`, the one `ServerDetail` mounts once.  `host` stands for all that
says where and as whom to connect, `secret` for a typed password or an uploaded key,
and the fingerprint of a host's key is written as the host.  The variables are the
state of `useServerForm` and its owners (`form`, `original`, `testing`,
`fingerprint`, `trusted`, `saving`, `uploading`), the requests in flight (`tests`,
`saves`) and the records (`store`).  An update is two steps, as its handler is.  The add
dialog's default group is taken as none; the file picker and field widgets are left out.

| run | instance | question |
| --- | --- | --- |
| `server_form` | the three kinds, 2 names, 2 hosts, 1 group, 1 test and 1 save in flight, 2 servers added | a saved record holds the key of the host it names; a save does not undo another page's move |

One test and one save in flight are what the disabled buttons allow; a second server
shows a form reused.  `KeyBelongsToHost` is what trust on first use rests
on: `UpdateField` must forget the test with each connection field and with no other.

### `BatchClient`

The server is the engine seen from outside: a current run, its output in chunks, what is
stored, streams that broadcast to all sockets and end with the run (`BatchRun` has
the inside).  `mode`, `run`, `out`, `fin` are the reducer, `wsRef` and `timer` the
refs, `sockets` every WebSocket the browser still has, each with the frames it holds.
A dispatch to the reducer and its effects are one step; a callback, an answer, a frame
is another.  One Run Result stands for a run's; the rows of results, the script
text and the input to a command are left out.

| run | instance | question |
| --- | --- | --- |
| `batch_client` | 2 runs, 1 chunk each, 2 sockets, 1 request of each kind, fairness | a run shown as done is exact; the socket is of the run on the screen; the end of a run is learnt |

Two runs and two sockets are needed for an old socket beside a new one.  Fairness: a
browser runs its timers and callbacks and the server answers a resync; neither the
run, the user nor the network has an obligation.

### `Crons`, `Processes`, `ServerDetail`

`Crons` has the remote crontabs as sequences of entries, the tab's copy (`entries`),
`rowErrors` and the dialogs, all by position, and requests that read and
write the crontab in two steps.  An entry carries the identity of its job, which the
code does not have: it says whether an operation reached what was picked.  `Processes`
has pids that are reused and, for the same purpose, identities.  `ServerDetail`
instantiates both with `mounted` given by the active tab: leaving a tab forgets its
state and not its requests, and a click in the sidebar changes the server under an
open tab.  The dialog that shows what a run printed, sorting, searching and column
widths are left out.

| run | instance | question |
| --- | --- | --- |
| `server_detail` | 2 servers, 2 texts, 2 jobs, 2 requests, 1 pid, 2 processes, 1 kill, one tab | rows, errors and crontab stay together; an operation hits its entry; nothing protected is signalled; a killed row goes |
| `server_detail_navigate` | the same with the slip `navigate` | rows act on the server they were read from (violated, section 9) |

Two entries show a shift, two requests an order of answers.  One pid for two processes
is the interesting case.  `MaxTabs` 1 opens one of the tabs as often as the user likes;
the tabs share only `shown`, and both in one behaviour would multiply their states.
`KilledRowsGo` is about one listing at a time.  Deadlock is checked.

### `Inventory`

The database (`groups`, `members`), the hub's stored snapshot (`last`) and its
`stream`; on the page `servers` (the monitor reducer), `side` and `dash` (two
instances of `useGroups`), `expanded` and `seeded` (`useTreeState`), `route` and
`dialog`.  A mutation is one asynchronous function with its request, its dispatch, its
refetch and the end of its dialog, one after another.  The statements of one
handler are one step here; `DeleteGroup`, which is two statements without a transaction, may
fail between them, with its members ungrouped and the group still there.  Any answer may be lost
after the change, and `store.Update`, which reads the record again after its UPDATE, may answer
it with an error (`AnswerLost`).  Of a server the page is then repaired by the next snapshot,
and until then counts as `stale`; groups are not pushed, so for them it is the slip `unsure`.
Leaving a server's page, by a click or by its removal, mounts the dashboard again with a listing
of its own.  A snapshot that was assembled before a change is `old`; the history variable
`stale` says that such a one is shown.

| run | instance | question |
| --- | --- | --- |
| `inventory` | 1 server, 2 groups, 2 names, 1 mutation in flight, 2 mutations, losses or foreign changes, fairness | a page at rest shows the database, with a row for each server; no filter dangles; the page catches up |

One server and two groups give each move a place to come from and to go to; another
server would be in the same states.  `MCSpec` starts with one group.  A second
mutation in flight adds only pairs that commute, since others are the slip `overlap`.
Fairness: requests end, the socket comes back and the ticker ticks.
Other pages' changes of groups are not pushed to a page, and not modelled.

### `Session`

A call is one HTTP request of a page, with the cookie it was sent with, and its
handler runs in the steps that others can come between: look at the limit, compare,
record or create a session; verify, store, delete the sessions, create one.  `view`,
`cookie`, `lockout` are the page (`App`, `LoginPage`, `SetupPage`), `open`, `form`,
`initial`, `restart` the settings.  The configuration has two fields: `port`, which
needs a restart, and `path`, which is reported as it resolves.  A call may fail before it is
handled, or after: `AnswerLost` takes the answer of any call away once it is carried out.  The
server that was asked to restart does so whether or not its answer arrives.  `edited`, `tries` and
`told` are history.  Pages share one address; the language, the strength meter and the
fields that change nothing else are left out.

| run | instance | question |
| --- | --- | --- |
| `session` | 2 pages, 2 passwords, limit 2, 4 calls or expiries, 3 sessions | a lockout has its failures; no session outlives a change of password; only edits are saved; a restart that is needed is announced |

Four calls are a login against a change with the two failures of a lockout, or a
load, a save and a restart of one page against another's.  The limit is 10 in the code and the
same branches are taken with 2.  `Editable` is `port` alone: `path` is what must not be
sent.  Calls are used up, so deadlock is not checked.

## 7. What is proved of the pages

A theorem holds for every value of the constants and a run for one, so a
safety property that is proved is in a run only where it needs a mutant of the code to
show that it can fail.  Sections 2 to 4 say what is proved of the server's parts.  The
slips below are those a theorem assumes not to happen, besides what each module states of its
constants.  A theorem is about the module: what a module leaves out, or does in one step, is
said in its section and in section 10.

| theorem | property | without the slips |
| --- | --- | --- |
| `ServerFormProofs.MovesAreKept` | `UntouchedGroupIsKept` | `late` |
| `ServerFormProofs.RecordsKeepTheirKey` | `KeyBelongsToHost` | |
| `ServerDetailProofs.ProtectedAreSafe` | `ProtectedIsNeverSignalled`, of the tab | `raced` |
| `ServerDetailProofs.PageSignalsNoProtected` | the same on the page | `raced` |
| `ServerDetailProofs.KilledRowsAreGone` | `KilledRowsGo`, of the tab | `overtaken`, `navigate` |
| `ServerDetailProofs.PageForgetsKilled` | the same on the page | `overtaken`, `navigate` |
| `ServerDetailProofs.PageImplementsProcesses` | the page implements `Processes` | |
| `ServerDetailProofs.PageImplementsCrons` | the page implements `Crons` | |
| `ServerDetailProofs.TableIsCrontab` | `PageMatchesCrontab` | `overlap`, `held`, `unsure`, `navigate`, `foreign` |
| `ServerDetailProofs.ErrorsStay` | `ErrorsStayWithTheirRow` | the same |
| `ServerDetailProofs.OperationsHit` | `OperationsHitTheirEntry` | the same |
| `ServerDetailProofs.RowsAct` | `RowsActOnTheirServer` | `navigate` |
| `StreamProofs.DoneExact` | `DoneIsExact` | `stale`, `late`, `twin`, `lost` |
| `StreamProofs.SocketOfRun` | `SocketIsOfShownRun` | the same |
| `StreamProofs.HubServes` | `ClientsAreServed` | |
| `StreamProofs.BroadcastsGetThrough` | `BroadcastNeverBlocks`, from `Delivers` and `GetsTurn` | |
| `InventoryProofs.TreeIsTheUsers` | `CollapsedStaysCollapsed`, not part of the run | |
| `InventoryProofs.FiltersExist` | `FilterIsNotDangling` | `overlap`, `escape`, `unlisted`, `unsure` |
| `InventoryProofs.PagesAreTrue` | `SettledPageIsTrue` | `overlap`, `escape`, `unlisted`, `unsure`, `dangling` |
| `SessionProofs.LockoutIsEarned` | `LockedForCause` | |
| `SessionProofs.ChangeEndsSessions` | `SessionsEndWithTheirPassword` | |
| `SessionProofs.PortsAreAnnounced` | `RestartIsAnnounced` | `unsaved`, `leave`, `unsure` |
| `SessionProofs.SavesWhatWasEdited` | `OnlyEditsAreSaved` | `eager` |

`KeyBelongsToHost` has no assumption because it speaks of behaviours up to the first
slip, which `slips` records.  Its invariant says where a fingerprint can be: in a form,
in the answer of a test, in the body of a save, always with the host it was taken from.

`FilterInv` (Inventory) says that a group the sidebar lists, a dialog is open for or the
dashboard is filtered by either is in the database or is the one a deletion in flight has
just removed.  It is inductive because a dialog stays open while it works, a
deletion is alone and its end is known: the route its handler closed over is then still the
route when it ends.  Each of the slips breaks one of these.

`PageInv` (Inventory) adds that a copy of the table which is not old, be it the servers
shown, the snapshot the hub keeps or one on its way, differs from the table only where an
answer about that server is due; a deletion that ungroups members and an answer that is lost
make every copy old.
A change of the groups is alone, and a listing for the sidebar holds the groups of the
database.  With no answer due the page is then the table, which is `SettledPageIsTrue`.

`GoneInv` (Processes) says that what a request knows ran on its server and what the rows
know on the server shown, that a killed process runs nowhere and is in no listing that
was read, and that the rows hold a killed one only while a listing is in flight or an
error is shown.

The proofs about `Session` follow a password and a port through the steps of the
handlers: a change of the password knows which sessions it found, a page that is told of
a port is told before it can show another, and an answer that fills the form makes the
form agree with what it is compared with.

`PageImplementsProcesses` and `PageImplementsCrons` are why a tab may be reasoned about
alone: switching tabs is its mounting, and a step of the other tab is a stutter.

`CronInv` (`ServerDetailProofs`) is about places.  The server addresses an entry by
its position in the crontab it reads, the page by the position of its row, and both
change with each deletion.  The invariant says that requests in flight for one server
commute (`Commuting`), that each job is one entry (`OneEntry`), that the place a request was
sent with still holds the entry the user saw (`Aimed`), and that the row it will answer to
still shows that entry (`Awaited`).  `TableInv` then relates table and crontab although the
page changes a toggle at once and everything else with the answer: what the table will be once
the answer of the write in flight has come, or its failure while there is none, is the crontab.
With no write in flight the table is the crontab.  The theorem needs all five slips away,
since each moves an entry under a place: `PageMatchesCrontab` and `OperationsHitTheirEntry`
cannot do without that, and it is what the run assumes.

`HomeInv` needs less.  Entries, forms and requests are of the server they are used for as long
as the server does not change under the open tab, whatever overlaps; so `navigate` alone is to
blame for what `server_detail_navigate` finds (section 9).

`BatchInv` (`StreamProofs`) ties the screen to the engine.  `ServerInv` says that a final result
is stored with all its output, and that a run is over when its result is final; `SnapInv`, that a
response which says "done" carries exactly that; `PageInv`, that until a slip the page shows a
done run exactly, and that only the socket in `wsRef` can deliver anything, is of the run
shown, and exists only while that run is shown running.  The last part is why no frame reaches a
run that is shown as done: what ends the running view is a whole response, never a frame.  A
response of another run cannot come under an open socket without being the slip `stale`.

Only model-checked are the other liveness properties, under the fairness of their sections:
`CancelEndsRun`, `StaleRunIsFinalized`, `LostConnectionHeals`, `ReconnectingResolves`,
`PageComesBack`, `AttachedPageSettles`, `RunEndIsShown` and `PageCatchesUp`.  Each needs an
induction over data (all servers of a run, the rows still to be finalized, a counter, the length
of a queue), which the provers cannot do.
The `TypeOK` of every module that states one is a theorem too; `RowsAct` is proved without the
slip that its run follows.

## 8. How the checks are kept honest

Each property of a passing run has a mutant, a version of one definition with a
plausible bug (a guard dropped, a reset missed, an order swapped) next to the
original, under which TLC finds the property violated on the same instance.  A slip
that is not followed would hide what it leads to: each is a choice that is
named above, and the steps themselves are never left out.

## 9. Where the code and its documentation differ

- `server_detail_navigate`: the Cron Jobs tab keeps the entries of the server it was
  opened for when the user clicks another server in the sidebar: neither the route nor
  the tab is keyed by the server, and `cronsFetched` stays set (`useCrons.ts:202`).  A
  row's switch, run, edit and delete then go by position to the crontab of the
  other server.  Of the tab the README says "directly from the server detail page".
- A resync that fails is not tried again (slip `lost`), against its comment.
- A deletion of a group whose answer is lost leaves the dashboard filtered by a group that is
  gone (slip `unsure`), which the comment at `Sidebar.tsx:132` wants to prevent.

Seen while modelling the server, each reachable in its module, none of them a run:

- Subscribe compares the run ID and not whether the run is over, and `Service.subs` is
  one set for all runs: a channel registered after `waitForCompletion` closed the others
  stays open, and the waiter of an old run closes the channels of a run that was
  dispatched meanwhile (`batchrun/service.go:314`, `:238`).
- Reconnect looks the connection up (`ssh/pool.go:312`), stops its loop, installs a new
  context (`:338`) and starts a new loop (`:342`).  A Remove that comes in between cancels
  the old context, and the new loop goes on dialling a server that is no longer in the
  pool, with nobody left who could stop it, although Remove "stops and removes the
  connection" (`:167`).  With `Callers` = {c1, c2} in
  `SSHPool_calls.cfg` TLC finds the eight steps of the two calls that violate
  `RemovedMeansStopped`.  A second Reconnect in between overwrites the first
  one's context in the same way, and two loops are alive.
- A stopped loop that is still in its dial connects after the new loop gave up
  (`ssh/reconnect.go:124`).  Without such late steps of stopped loops reconnecting is
  sound, which section 3 proves for calls that do not overlap.
- A Sync whose list is older adds a server back after the Sync of its deletion looked
  for surplus ones; it stays connected until the next change
  (`app/synchronizer.go:57`).

## 10. Not modelled

- Terminal and console: two copy goroutines over a session, and a terminal emulator.
- Shutdown and restart of the process, but for the hub's part and what `Session`
  says of it: a list of steps run under a timeout.
- Counter deltas and the parsers of remote output: functions of text.
- Key files and their cleanup; encryption at rest.
- Presentation: charts, cards, themes, translations; routing of HTTP requests,
  logging, static files, the tray.
