# A verification project for the shprd bridge

shprd is a browser front end for Herdr workspaces. The bridge
(`src/server/src`, TypeScript on Bun) holds the browser's WebSockets on one side
and, for every configured connection, the sockets of a local or remote Herdr on
the other. This directory holds TLA+ models of the parts of the bridge, and of
the browser's side of the connection, whose correctness depends on the order in
which promises, events, timers, requests and failures interleave, the TLC
configurations that check them, and proofs. Paths below are relative to
`src/server/src` unless they start with `src/`.

Contents: [1 Inventory](#1-inventory), [2 Modules](#2-the-modules-and-the-code),
[3 Runs](#3-runs-and-bounds), [4 Fairness](#4-fairness),
[5 Proofs](#5-proofs), [6 Findings](#6-findings),
[7 Not modelled](#7-what-is-not-modelled), [8 Plan](#8-plan).

## 1. Inventory

The bridge is one JavaScript process, and so is the browser. Code between two awaits runs without
interruption, so there are no data races; what is hard is everything that
happens *at* an await: promises that settle in any order, events, timers and
requests that run in between, and calls that fail.

### Connections (`connections/`)

| Component | State it keeps | Operations | Talks to |
|---|---|---|---|
| **Connection manager** `manager.ts` | per id an entry: generation, state, runtime, factory, start token, start task, stop task; the default id; ids being removed; `stopAllTask` | `register`, `unregister`, `setDefault`, `start`, `stop`, `replace`, `stopAll`, `markReconnecting`, `retireFailedRuntime`, `readyRuntimeLease`; `reportError` from the runtime's context | factories and runtimes below it; profile service and routing above it |
| **Runtime** `runtime.ts` | Herdr client, subscriptions, endpoint and terminal services of one connection; a memoised stop | `startTransport`, `startBackground`, `stop` | manager, tunnel, every service of section *Bridge* |
| **Profile service** `profile-service.ts` | the registry and the profiles in memory, per SSH connection a retry state (enabled, attempt, token, two timers), the mutation queue, a latch that disables changes | create, update, remove, set default, connect, disconnect, test, list, shutdown | store, manager, SSH runtime |
| **Profile store** `profiles.ts` | `connections.json` | load with validation, atomic save, clear | profile service |
| **SSH runtime** `ssh-profile-runtime.ts`, `index.ts` | tunnel of one SSH connection | connects tunnel exits to `reportError` and `runtimeFailed` | tunnel, manager, profile service |
| **Routing** `rpc-routing.ts`, `http-routing.ts`, `protocol.ts` | none: a lease per request | choose a runtime for a request, recheck the lease before the answer is published | manager |
| **Subscription loop** `subscription-loop.ts` | generation, the active subscription, backoff | start, stop, subscribe, acknowledge, close, retry | Herdr client |
| **Agent-status subscription** `agent-status-subscription.ts` | generation, active subscription, the rebuild flag and its timer | start, stop, list panes, subscribe, hold, rebuild | Herdr client, observers |
| **Startup, shutdown** `startup.ts`, `shutdown.ts`, `index.ts` | a shutdown latch | start configured connections; drain, then a forced exit after a grace period | profile service, manager |

### Bridge (`bridge/`)

| Component | State it keeps | Hard behaviour |
|---|---|---|
| **Herdr control client** `herdr-client.ts` | one socket per call, a timer, a buffer | a timeout races a late answer and the closing socket |
| **SSH tunnel** `ssh-tunnel.ts` | the ssh process, a generation, socket directory | an exit while the sockets are probed, during a newer start or the cleanup |
| **Terminal bridge** `terminal-bridge.ts` | shared terminals with their viewers, sizes, the clipboard relay | attach, resize, dispose and close across the awaits of each other |
| **Endpoint client, endpoint terminal session** `endpoint-client.ts`, `endpoint-terminal-session.ts` | pending requests, the attachment | an endpoint that goes away under requests |
| **Endpoint creation** `endpoint-creation.ts` | a lane that serialises the creation in an empty session | a deadline that races the dispatch; the answer says whether a retry is safe |
| **WebSocket delivery** `websocket-send.ts`, `index.ts` | bytes queued per socket | backpressure; cleanup exactly once |
| **Thin client, codecs** `thin-client.ts`, `bincode.ts`, `frame-to-ansi.ts` | none | byte-level conversions |
| **Settings** `config/gui-settings.ts`, `bridge/settings-rpc.ts` | a file, a mutation queue | read-modify-write of several clients, failing renames |

### Workspaces, agents, worktrees

| Component | State it keeps | Hard behaviour |
|---|---|---|
| **Last-step turn tracker** `workspace/last-step-turns.ts` | per workspace a worker, per pane a status and an edge | snapshots that return after the workspace was closed and opened again; listings older than events |
| **Baseline store** `workspace/git-diff.ts` (423–655) | the baseline of the running step and the range of the last one | captures that finish out of order |
| **Auto-sync** `workspace/auto-sync.ts` | one running sync, a pending flag | coalescing of requests and failures |
| **Worktree removal** `worktree/remove.ts` | none | several steps on disk, one of which fails |
| **Session projection cache** `agent/session-projection-cache.ts` | entries, loads in flight, an epoch | an invalidation during a load |
| Git actions, diffs, files, status; session history; HTTP, auth, update, service manager | none between requests | – |

### Browser (`src/web/src`)

| Component | State it keeps | Hard behaviour |
|---|---|---|
| **Connection** `api.ts` | one socket, its status, a reconnect timer, pending requests | a close event or a rejected heartbeat of a socket that was given up |
| **Store** `store.ts` (leases, catalog, refreshes) | the selected connection, the catalog, a session per connection, timers, one refresh under way and one queued | replies of an earlier socket, selection or runtime; changes that arrive while a refresh is reading; polling stopped and started by four paths |
| Components, navigation, user actions | per view | – |

Elsewhere: experimental Rust crates (`src/crates`), an editor extension
(`src/integrations`).

### Interactions

A browser request is routed by its connection id to a *lease* on the manager's
ready runtime and answered only if the lease is still current. The profile
service tells the manager which factories exist and when to start, stop and
replace; the manager calls the factories and tells nobody else. A runtime's
tunnel reports its exit twice: as an event, through `reportError` and
`runtimeFailed`, and as the rejection of the start that was using it. Herdr
events reach the agent-status subscription and the turn tracker through the
subscription loop, and are lost while that loop is between sockets; each time
it is subscribed again the runtime tells the browsers to read everything anew
(`session.resync_required`). Status messages reach the tracker by a second
socket and listings as answers to calls, so the three are in no order. The
tracker asks the baseline store for a snapshot at each end of a step; the
snapshots of one git root wait for each other. Browsers that view one terminal
share its stream to Herdr.

### What makes each part correct

- *Manager*: a lease that says it is current belongs to a live runtime of the
  factory installed last, and once retired never becomes current again; no
  runtime is lost before its stop has settled and no two are alive at once; a
  removed entry leaves nothing behind; shutdown waits for every runtime; nobody
  who waits behind a stop waits forever.
- *Retry supervision*: reconnecting always ends; retries are bounded and one
  failure costs one of them; a disconnect is final; a permanent failure is not
  retried; a request is always answered.
- *Profile registry*: file, memory and manager agree between operations,
  whatever failed, and never contradict each other in a way that shows during
  one; what was answered survives a crash.
- *Agent-status subscription*: one subscription, of the right panes, after
  every change; a stop is final.
- *Last step*: in the end the tracker knows the panes and a step was begun
  wherever an agent works, over lost events and late listings; one call of the
  store at a time per workspace; a step begins and ends in one life of its
  workspace.
- *Terminal bridge*: a viewer whose attach was answered is on the live stream or
  learns that it closed; a stream lives as long as it is watched, and none
  outlives the bridge; no attach hangs.
- *Browser*: what is shown was read from the runtime the catalog names; events
  alone keep it up to date while nothing is lost; after losses it catches up.
- *Not modelled yet*: the cache never returns what an invalidation retired; a
  creation is reported as safe to retry only when nothing was created; an exit
  of the tunnel is reported once and by its own generation; a stopped
  subscription loop opens no socket.

`PROJECT.json` lists the places in the code where each of these could go wrong,
with the properties that watch them.

## 2. The modules and the code

Conventions. An action is the code from one await (or event, timer, request) to
the next one, with every call it makes. A suspended async function is a program
point: a value such as `startTask = "transport"` or `op.at = "save"`. A promise
that resolves makes the action at that point enabled. Errors are a choice
wherever the called code can fail. Operators that stand beside a definition with
a comment `Bug:` or `Mutant:` are that definition with a plausible mistake in
it; no specification uses them, `PROJECT.json` says which property each breaks.

### `RuntimeLifecycle` – what the manager promises

The abstract specification: a runtime is built only when all earlier ones are
closed, serves at most once, is retired, and is closed when its stop settled.

### `ConnectionStatus` – what the published state and generation promise

The abstract specification of the two fields that callers, events and browsers
go by: a start opens a new generation and never cuts off a time up; what ends a
time up retires its generation as well; and while a connection is down, only a
failed one is announced as reconnecting, not one that was stopped. Two modules
implement it, under the identity mapping: `ConnectionManager`, where `register`
begins a new entry at generation 0 (finding 1), and the reduced manager of
`RetrySupervision`, where the retries act on it too.

### `ConnectionManager` – `connections/manager.ts`

One connection id. Entries of different ids share the default id and
`stopAllTask` only, so the others are the nondeterminism of `setDefault` (the
default goes to this id or away from it) and of `stopAll` (the model takes the
id's part of it).

| State | Code |
|---|---|
| `registered`, `incarnation` | the id is a key of `entries`; which `ConnectionEntry` object |
| `generation`, `state`, `runtime`, `factory`, `startToken` | fields of the entry |
| `startTask`, `startRuntime` | where the running `begin()` awaits, and its `const runtime` |
| `stopTask`, `stopRuntime`, `retireGeneration`, `retireState` | whose promise `entry.stopTask` is, with its captured values |
| `waiters`, `due` | the callbacks chained to `stopTask.then(...)`, and those whose turn has come |
| `awaits` | where `unregister()` and `stopAll()` wait |
| `rtStop`, `rtGeneration`, `rtFactory` | per runtime object: its memoised stop, the context it was built with, the version of its factory |
| `lease` | a lease that a request took and may check at any time |

Actions: the public operations carry the names of the code (`start`, `stop`,
`replace`, `register`, `unregister`, `setDefault`, `stopAll`,
`markReconnecting`, `retireFailedRuntime`, `readyRuntimeLease`, `reportError`);
the continuations are `RetiredSettles`, `TransportResolves`,
`BackgroundResolves`, `StartRejects`, `StartCleanupSettles` (the awaits of
`begin()`), `StopSettles`, `RetireSettles`, `FinishUnregister`, `RunDue` (a call
that was queued behind a stop) and `RuntimeStopSettles`.

### `RetrySupervision` – the retries of `connections/profile-service.ts`

One SSH connection. `enabled`, `attempt`, `token`, `retryTimer`, `stableTimer`
are the `RetryState`, a timer being the token its callback captured. `calls`
holds the `startManaged()` and `runScheduledRetry()` in flight, with the values
they captured before their awaits (`token`, `before` = `generationBeforeStart`);
`stops` the `stop()` of `disconnect` and of the shutdown; `mutation` the head of
the mutation queue. The manager appears as what the service can tell: the status
it publishes, a start task, a stop task.

Two facts of the code are built in. Promise continuations run before any timer,
socket or process event (`Idle` guards those), in any order among themselves.
The stable timer does not fire while a retry timer is armed beside it: the retry
timer is the older and, with the defaults, the shorter one (`retryMaxDelayMs` is
not above `retryStableResetMs`).

### `ProfileRegistry` – the registry operations of the same file, and `profiles.ts`

`disk` is the file; `registry` and `profiles` the service's memory; `factory`
and `default` the manager's entries; `disabled` the latch
`mutationDisabledError`; `op` the operation in progress, with the values it
captured (`old` registry, `wasUp`). An operation's awaits are the points of
`op.at`; each has an outcome for success and one for failure, the rollbacks
included. A write is atomic, since the store writes a temporary file and renames
it. `Restart` is a crash at any point followed by a start from the file, with
the environment's override on or off. `stopAll` begins the shutdown, after which
the manager refuses to register, replace, remove and start.

The model also shows two behaviours that are not wrong but worth knowing: with
an override, the persisted default cannot be removed while other profiles
remain, because the registry without it does not validate; and when an update is
rejected and the stop of its rollback fails too, a connection that was up stays
down (the error reported says so).

### `AtomicChange` – what a registry operation promises

The abstract specification of a persisted value: the file (`stored`), the
process (`shown`) and the last answer (`answered`) have one value between
changes; during one, each has the old value or the new one in full; an answer
says which of them the file has; and when the old value could not be put back,
the value is frozen, which is the code's `mutationDisabledError`. The registry
implements it with `disk`, `registry`, `acked`, the registry the operation would
lead to, and `disabled`. A crash between the write and the answer may leave
either value, and the restart goes by what it finds.

### `ExclusiveSubscription` – what a subscription loop promises

The abstract specification: a subscription is opened only while the service runs
and when the one before it was destroyed, has the panes it was opened for until
then, and is destroyed by a stop, after which none is opened until the next
start. `AgentStatusSubscription` implements it: `open` are the sockets that are not
destroyed, of whatever generation; `phase` is stopped, running, or stopping while
`stop()` awaits the loop.

### `AgentStatusSubscription` – `connections/agent-status-subscription.ts`

`loop[g]` is the `run()` of the generation that the g-th `start()` began: where
it is suspended, the panes it subscribed for, the answer of `pane.list` on its
way, and its socket. `rebuildRequested` and `rebuildTimer` are the flag and the
debounce timer of `requestRebuild()`. Herdr is external: `agents` is its set of
agent panes, `events` the membership events on their way, which may be lost.
`ListAnswered` fixes the answer of `pane.list` earlier than `ListReturns` uses
it, so an answer can be stale when it arrives.

### `StepRecorder` – what the store of steps is asked to do

The abstract specification of the calls that the tracker makes: for each
workspace one at a time; a step is begun, captured or failed, and completed at
most once, if its capture succeeded and the workspace was not closed since; a
stop begins none and ends after the last. `LastStep` implements it: `call` is the
worker's call, `step` the store's activity cycle, which is of this life while its
generation is the workspace's.

### `LastStep` – `workspace/last-step-turns.ts`, the store in `workspace/git-diff.ts`

The tracker of one runtime with the store it calls. `server` is Herdr's panes
(external), `life` and `status` the messages of the event and the status socket,
`listing` the `pane.list` under way with what it captured when it was asked for
(`rev`) and answered.

| State | Code |
|---|---|
| `panes`, `paneRev`, `closedRev`, `rev`, `seeded` | `panes`, `paneRevisions`, `closedWorkspaceRevisions`, `revision`, the first listing was applied |
| `stable`, `pending` | committed activity of a workspace; its debounce timer and what it would commit |
| `applied`, `gen`, `workers`, `tasks` | the edge a worker finished last, the workspace's generation, the worker the map has, the calls of the store under way |
| `cycle`, `queue` | the store's activity cycle of the workspace; the snapshot queue of the git root |

Actions: six changes at Herdr, each with a message that may be lost;
`HandleStatus` and `HandleLife` take a message, `ReconcilePaneList` a listing;
`TimerFires` commits a transition; `ResolveRoot`, `ResolveRootFails` and
`SnapshotEnds` are the awaits of a worker's call, after each of which the worker
goes on (`Work`); `Stop`, `StopEnds` are `stop()`. All workspaces have one git
root, as their snapshots then contend.

One thing the model shows and no run asks for: a move to a pane id that a
listing has already placed elsewhere overwrites that record without observing
its workspace (`last-step-turns.ts:322`), so a workspace can stay active until
the next change there. `SettledIsTrue` is therefore about workspaces where an
agent works.

### `TerminalBridge` – `bridge/terminal-bridge.ts`

One terminal id of one bridge. `shared` is the entry of `sharedTerminals`,
`view` the viewers with their attachment tokens, `streams[i]` the stream that
the i-th attach opened (up, its connection, its viewers, whether Herdr owes a
complete frame), `calls` the attach requests with the await each is in. `wish`,
`told` and `painted` are the browser's side: what it relies on, whether it got
`terminal_closed`, whether it got a complete frame. `Attach` runs to the
protocol ping, `ProtocolAnswers` joins or opens the stream, `ConnectOk` and
`ConnectFails` end its connection for everybody who awaits it, `Answer` comes
after the first frame or its deadline. `Detach`, `WsCloses`, `StreamDies`,
`CloseEvent` and `Dispose` come in between.

### `SharedStream` – what a shared stream promises its viewers

At most one stream is live, and one that has ended never comes back; a viewer is
dropped from the live stream only when it stops viewing; when the stream ends
while it watches, it is owed word of it, and gets it once if it is still here;
nobody else is told. `TerminalBridge` implements it (`SharedView`): the live stream
is the entry of `sharedTerminals` while it is open, its viewers watch, and a
stream that has closed owes its viewers word until its close event. A viewer may
stop viewing in a way it did not ask for (finding 4): the promise is relative to
the viewers that the bridge has.

### `RuntimeFollower` – what the browser promises about runtimes

The abstract specification of a client of runtimes that are replaced: as long as
an id stays registered with one server process, what the client knows of the
runtime neither goes back to an earlier one nor runs ahead of the server, and
what it shows was read from the runtime it knows. `BrowserSync` implements it,
`known` being its catalog. It says nothing of a removed id or a restarted server,
where generations begin again (finding 1).

### `BrowserSync` – `src/web/src/api.ts` and `store.ts`, with what the server sends

The browser's socket (`status`, `retrying`, `stray`), the store's lease
(`synced`, `active`, `paused`), its catalog (`catalog`, `ready`, `asks`), its
refresh (`timer`, `fetch`, `queued`) and what each session shows (`sessions`:
the runtime it was read from and whether it is what Herdr has now). The server
appears as the generation of each runtime, its subscription (`feed`) and the
events it has pushed. The four requests of one refresh are one read. The
generation that the client counts is not a number here: advancing it drops what
was scoped to the old one, and `synced` says that the store's copy of the number
is the bridge's. `Teardown` and `CatalogDelivered` are whole handlers: the lease
advances, the scoped requests reject, sessions are dropped or tagged anew,
polling stops or starts, a refresh begins.

### Proofs and model-checking modules

`ConnectionManagerProofs`, `RetrySupervisionProofs`, `ProfileRegistryProofs`,
`AgentStatusSubscriptionProofs`, `LastStepProofs`, `TerminalBridgeProofs` and
`BrowserSyncProofs` extend the modules they are named after. `MCConnectionManager`
adds the symmetry of the runtimes, used for safety only, `MCLastStep` the panes at
the start and the symmetry of panes and of workspaces, of which all its properties
are invariants, and `MCTerminalBridge` the symmetry of the viewers, whose properties
are invariants and one refinement without liveness; the other modules are run as
they are.

## 3. Runs and bounds

| Run | Module, bounds | Distinct states | Shows |
|---|---|---|---|
| `manager_safety` | 2 runtimes, `MaxGeneration` 3, `MaxIncarnation` 2, `MaxQueue` 1 | 988,000 | leases, runtimes, shutdown; the refinements of `RuntimeLifecycle` and `ConnectionStatus`; that the proofs' `IInv` holds |
| `manager_liveness` | the same, one registration, under `Spec` | 79,000 | shutdown ends |
| `manager_wire_identity` | violation | – | finding 1 |
| `retry` | 3 calls in flight, `MaxAttempts` 2, 2 commands, 1 reset | 689,000 | bounded, answered, charged once, final on disconnect; the refinement of `ConnectionStatus`; reconnecting ends; that the proofs' `IInv` holds |
| `retry_permanent_failure` | violation, 4 calls | – | finding 2 |
| `registry` | 3 ids, 3 contents, `MaxProfiles` 2 | 76,000 | file, memory and manager agree; answers survive crashes; the refinement of `AtomicChange`; operations end; no deadlock; that the proofs' `IInv` holds |
| `agent_status` | 2 panes, 2 starts, 2 changes, 1 lost event, 2 failures | 125,000 | no wake lost; the refinement of `ExclusiveSubscription`; stops end; the right panes in the end; that the proofs' `IInv` holds |
| `agent_status_wake` | violation | – | finding 3 |
| `last_step` | 2 panes, 2 workspaces, 3 changes | 1,380,000 | events against listings, what is true once settled; the refinement of `StepRecorder`; that the proofs' `IInv` holds |
| `terminal` | 2 viewers, 3 attaches | 1,530,000 | viewers are served, told and painted; streams end; the refinement of `SharedStream`; that the proofs' `IInv` holds |
| `terminal_silence` | violation | – | finding 4 |
| `browser_sync` | 2 connections, 2 generations, 2 changes, 2 troubles | 482,000 | the refinement of `RuntimeFollower`; fresh when quiet; catches up; that the proofs' `IInv` holds |

Why the bounds are enough:

- *Manager.* Two runtimes are what a mixture of an old and a new one needs.
  `MaxGeneration` counts callers: a start, the failure it ends in, and a restart
  that finds the failed runtime in place take three. Two incarnations show what
  survives a removal. One call behind a stop already runs late, in the states
  that removal, shutdown and failure have produced meanwhile; longer queues are
  covered by the proofs, which fix no bound.
- *Retries.* Two attempts have a first, a last and an exhausted one. Three calls
  are a connect, a retry whose cleanup is under way, and a later retry; two
  commands are a connect or disconnect that interrupts the first. One reset
  makes a late stable timer possible.
- *Registry.* `Local` and `Localhost` are the two seeds of the migration, a
  third id is an ordinary profile and the one that exceeds `MaxProfiles`. Two
  versions beside the synthetic one tell an old from a new content. Nothing
  else is counted: operations, crashes and restarts are unlimited.
- *Agent status.* Two changes give one that is superseded during its own
  listing; two failures let a check and a subscription, or a subscription and a
  listing, fail in a row; two starts give a retired generation beside a current
  one. `pane.list` answers any subset of two panes, the empty one included.
- *Last step.* Three changes are a status, a move or close that overtakes it,
  and one that comes back; messages may be lost and listings are unlimited, so
  every order of the three sources occurs. With two panes a workspace can be
  left by one and still host the other. Snapshots of two workspaces contend in
  one queue.
- *Terminal bridge.* Three attaches are an abandoned one, its successor of the
  same viewer, and the other viewer's. Leaving, dying and failing are not
  counted.
- *Browser.* A trouble is a loss of the socket or the subscription, a failure, a
  restart or a command; two of them are one that interrupts another. Polls,
  timers, reconnects and repairs are unlimited. Two connections make a cached
  session of a runtime that is replaced meanwhile; two changes make one that
  comes during the refresh for the first.

Deadlock is checked in `registry`, which has no counters. The other modules stop
where their bounds are used up.

Properties worth a second look, as their statement hides the difficulty:

- `LeaseIsLive` and `LeaseNeverRevives`: a request checks its lease after its
  own awaits. The second spans removal and re-registration, where generations
  begin again at zero; it holds because the check compares the entry object.
- `RefinesLifecycle`: a runtime serves in one period only, even when a start's
  promises resolve after it was retired and the same state names come round.
- `RetriesAreBounded` counts the retries really made (`tried`) beside the
  counter the code keeps; `ExitChargedOnce` and `FailureIsAnswered` bound the
  code from both sides: neither two attempts nor none for one exit.
- `AnswersAreDurable` compares the file with the history `acked` of what the
  callers were told, under a shutdown too: the file does not have what was
  rejected, unless the rollback failed and the service says so (`disabled`).
- `ChangesAreAtomic` adds the steps: no step shows a reader, or leaves a crash, a
  registry that is neither the old nor the new one, and none changes the file
  once the operation was answered.
- `StatusIsOrderly` is what makes it enough for a browser or a lease to compare
  generations. The manager counts a generation where a time up ends (a stop, a
  failure, a replacement), and not only where the next begins; with the retries
  acting on it this takes several calls and late callbacks to violate.
- `WakeSurvives` excludes what finding 3 is about (`missed`) and holds in every
  other case, for events that come while nobody waits.
- `SubscriptionsAreExclusive` counts the sockets of every generation, those of a
  `run()` that was stopped inside `subscribe()` included.
- `MembershipRecovers` assumes the fallback poll, `MembershipFollowed` does not:
  the event path alone keeps the loop right while no event is lost.
- `QuietMeansSettled` and `StepsAreRecorded` together say
  what the worker's loop over generations is for; a test would need a workspace
  that closes and opens again while git runs.
- `ServedOrTold` and `StreamsAreWatched` name the two cases where the code does
  not keep them (finding 4, and a viewer that left during the protocol ping) and
  hold in every other. `NewViewersArePainted` excepts finding 4 too, and an attach
  that decided whether to refresh before it asked for the protocol
  (`bridge/terminal-bridge.ts:864`).
- `FollowsRuntimes`: two catalog requests can be under way, of different sockets
  and from before and after a replacement; the browser keeps no version of the
  catalog and relies on the order of the answers.
- `BrowserCatchesUp` holds without a single event arriving: the poll that survives
  every path is enough. `QuietMeansFresh` is the other half, without the poll.

Some invariants that the proofs state are not run by themselves, as they follow
from the `IInv` that is: `StateHasOwner`, `RemovalIsQuiet`, `DefaultStaysRegistered`,
`DefaultIsRouted`, `OneSubscription`, `StopIsFinal`, `EventsOutliveListings`,
`OneCallPerWorkspace`, `StepWithinOneLife`, `ViewIsOfItsRuntime`. The action property
`NoBirthWhileClosing` is proved only.

## 4. Fairness

Fairness is given to what the runtime or a timeout guarantees, never to callers,
failures or events of other processes.

- *Manager* (`Fairness`): callbacks of settled promises run; a runtime's `stop()`
  settles, because each part of it is bounded by a timeout; a start promise
  settles at the latest after its runtime was told to stop, because the stop
  destroys the sockets and the process it waits for. A start that nobody stops
  may stay pending: nothing is promised about it.
- *Retries*: the same, and an armed retry timer fires. The stable timer needs no
  fairness. A start settles, since tunnel and probe have deadlines.
- *Registry*: a write, a stop or a start that an operation awaits settles, one
  way or the other.
- *Agent status* (`Promptly`): `pane.list` is answered or fails, an
  acknowledgement arrives or times out, retry delays end, events that are not
  lost arrive. The thirty-second poll is left out and assumed by
  `MembershipRecovers` alone.
- *Browser*: the reconnect timer, the refresh timer and the poll fire, a
  connection that is not lost gets its hello, and the server answers a refresh
  and a catalog request or they fail by their timeout. Nothing is assumed of the
  user, of pushed events, or of the repair of Herdr's subscription.
- *Last step*, *terminal bridge*: safety only.

## 5. Proofs

The theorems are checked by TLAPS, some 13,000 proof obligations in seven
modules. `ConnectionManagerProofs` assumes
`RuntimesAssumption` only: any set of runtimes, any bounds, and queues of any
length. It proves, for `Safety`:

| Theorem | Result |
|---|---|
| `TypeCorrect` | `[]TypeOK` |
| `Invariance` | `[]IInv` |
| `LeaseSafety`, `RuntimesAccountedFor`, `RemovalLeavesNothing`, `StatesHaveOwners`, `ShutdownIsComplete`, `DefaultIsRegistered` | `LeaseIsLive`, `NoRuntimeLost`, `RemovalIsQuiet`, `StateHasOwner`, `ShutdownDrains`, `DefaultStaysRegistered` |
| `RetiredLeaseStaysRetired`, `NothingIsBornWhileClosing` | `LeaseNeverRevives`, `NoBirthWhileClosing` |
| `Refinement` | `RefinesLifecycle`, that is `Lifecycle!Spec` under `phases` |
| `StatusStaysOrderly` | `StatusIsOrderly`, that is `ConnectionStatus` |

The argument. None of the safety properties is inductive: that a lease is live
depends on which runtime the suspended start is working on, what a stop has
captured, and which callbacks are still queued. `IInv` says that, in parts named
for what they are about:

- `StartInv`, `StopInv`: a running start works on the entry's runtime; a stop
  task's runtime was told to stop, and is the entry's unless the start's cleanup
  has dropped it.
- `RuntimeInv`: every runtime that is not settled is the entry's.
- `CurrentInv`: a runtime whose context is current is live, built by the factory
  installed last, with no stop task, and either starting or ready. This is where
  `generation` does its work: each stop, replacement and failure advances it.
- `StateInv`, `ClosingInv`: what each published state, removal and shutdown
  imply about the tasks.
- `QueueInv`: removal and shutdown are queued at most once, so that when one of
  them is found settled no callback of it is left that could run later.
- `LeaseInv`: a held lease has the generation and incarnation of a past moment;
  if both are still the entry's, it is current.

`InvStep` has one lemma per action (`StartKeeps`, `StopSettlesKeeps`, …), each
with one step per part it can disturb; `RunDue` is split by what the queued call
does. `TypeStep` and `QueueStep` come first, as the others rest on them.
`Monotone` (the pair incarnation, generation never decreases within an
incarnation) gives the action property about leases. For the refinement, `StepActs`
classifies every step by what it does to the runtimes' stops (`Acts`), and
`LifecycleStep` shows that each class is a step of `RuntimeLifecycle` or leaves
`phases` unchanged, using `OnePhase`: at most one runtime is between birth and
close. For the contract of the status, `UpFacts` says what a state that is up
implies about the tasks, so that a late callback of an earlier start or stop
finds itself outdated, and `BeginKeepsStatus` and `StopKeepsStatus` cover the two
calls that several actions end in.

`RetrySupervisionProofs` assumes `RetryAssumption` only: any
number of calls in flight, any limit of attempts, any number of commands and
stable periods. Of `Safety`, which `Spec` extends with the fairness that only
`ReconnectingEnds` needs, it proves:

| Theorem | Result |
|---|---|
| `Invariance` | `[]IInv`, which includes `TypeOK` |
| `RetriesStayBounded` | `RetriesAreBounded`, and `tried <= MaxAttempts` |
| `DisconnectIsFinal` | `DisconnectHolds` |
| `NoFailureIsForgotten` | `FailureIsAnswered` |
| `ExitsAreChargedOnce` | `ExitChargedOnce` |
| `StatusStaysOrderly` | `StatusIsOrderly`, that is `ConnectionStatus` |

Its `IInv` (at the end of `RetrySupervision`) has these parts beside the types.
`ManagerInv` and `StopInv`: what a start or stop task says of the published
status, and whose stop a stop task is. `DownInv`: a connection that is stopped,
or being stopped, has no supervision, no armed retry, and is not up; it extends
`DisconnectHolds` to the time before the disconnect returns. `BoundInv`: an armed
retry has been counted and is still to be made. `ExitInv`: after an exit that
counted an attempt, every start it interrupted finds status `reconnecting` and a
newer generation, which is what `transportAlreadyReported` looks at. `AnswerInv`:
what each kind of call in flight will do about a failure, so that the last of
them cannot leave without arming a retry; it needs `StartInv` (a failing start
has a caller that will report it) and `CallInv` (a retry does not wait behind
another stop). The steps are proved from the moves they are made of
(`StartMoves`, `ScheduleMoves`, `SettleMoves`, `EndsMove`).

`ProfileRegistryProofs` assumes `RegistryAssumption` and
`RegistryDistinct` only: any ids, any contents, any limit of profiles. Of `Spec`,
whose fairness only `OperationsEnd` needs, it proves:

| Theorem | Result |
|---|---|
| `Invariance` | `[]IInv`, which includes `TypeOK` |
| `ViewsStayAtOne` | `ViewsAgree` |
| `DefaultStaysRouted` | `DefaultIsRouted` |
| `AnswersSurvive` | `AnswersAreDurable` |
| `ChangesStayAtomic` | `ChangesAreAtomic`, that is `AtomicChange` |

The agreement of the three views is a property of the moments between
operations; its `IInv` says what each view is in the middle of one. `OpInv`: the
points of each operation, and what it was admitted with (a removal is not of the
default). `RegistryInv`, `ProfilesInv`: the service holds the old registry up to
a point of the operation and the new one (`Target`) from there, and its profiles
are those of that registry, but for the synthetic one that goes a step later.
`DiskInv`: at the points where a change was written and is still to be taken over
or taken back (`Written`) the file has the new registry; elsewhere the file and
the service agree, unless a shutdown stopped the change and its rollback failed. `FactoryInv`, `DefaultInv`: in the middle of an update or a removal the
manager is ahead, and the default it routes to has an entry all the same.
`RoutedInv`: so has the default of each registry, which is what a restart relies
on. `AckInv`: an operation starts from the registry that was answered last,
until a rollback fails. These hold during a shutdown as well, which the
refinement needs: the file may not change after an answer, whoever interrupted
the operation. A step maps to `Begin`, `Underway`, `Answer`, `Freeze`,
`FrozenAnswer` or `Restart` by how it ends: with an operation that begins, goes on,
is answered, or has failed to be taken back.
Steps that write nothing are covered together (`QuietEndKeeps`,
`QuietContinueKeeps`, `SubmitKeeps`); each step that writes has a lemma of its
own.

`AgentStatusSubscriptionProofs` assumes `LoopAssumption` only:
any set of panes, any number of restarts, changes, losses and failures. It
proves, for `Safety`:

| Theorem | Result |
|---|---|
| `Invariance` | `[]IInv`, which includes `TypeOK` |
| `WakesSurvive` | `WakeSurvives` |
| `SubscriptionIsUnique` | `OneSubscription` |
| `StopsAreFinal` | `StopIsFinal` |
| `SubscriptionsStayExclusive` | `SubscriptionsAreExclusive`, that is `ExclusiveSubscription` |

Its `IInv` has three parts beside the types. `ControlInv`: only the generation
that `stop()` would await is under way, every other one has ended. `SocketInv`:
an open socket belongs to `active` and to a generation behind `subscribe()`, and
each generation counts its one socket exactly; type correctness needs this part,
as a socket closed twice would be counted below zero. `WakeInv`: whatever the
current generation goes by (a reply, the panes it subscribed for, none at all)
is the truth, or an event is on its way, or one was lost, or the flag is set;
and where it sleeps with the flag set, the debounce timer is armed. The last
clause is what `holdSubscription()` and the `idle` wait look at the flag for.
The steps are proved from a few lemmas about moves of one generation
(`ControlKept`, `SocketsKept`, `SocketsClose`, `SocketsOpen`, `WakeOfOne`) and
`StillKeeps` for steps that move none. For the refinement, `OpenIsOwned` says that
only a generation of the running service has a socket; each step of a generation
then maps to the step that its socket makes, or to none.

`LastStepProofs` assumes `LastStepAssumption` and
`StartsAssumption` (the panes at the start are panes): any panes, any workspaces,
any number of changes. Of `Safety` it proves everything the run checks, and two invariants more:

| Theorem | Result |
|---|---|
| `Invariance` | `[]IInv`, which includes `TypeOK` |
| `CallsDoNotOverlap` | `OneCallPerWorkspace` |
| `QuietIsSettled` | `QuietMeansSettled` |
| `EventsPrevail` | `EventsOutliveListings` |
| `StepsStayInOneLife` | `StepWithinOneLife` |
| `SettledTracksHerdr` | `SettledIsTrue` |
| `StepsStayRecorded` | `StepsAreRecorded`, that is `StepRecorder` |

Its `IInv` (at the end of `LastStep`) has a part for each order of things that
must not matter. `MessageInv`: what a message says of a pane is so unless the pane
has changed since; `EventsOutliveListings` is inductive with `ListingInv`, that a
listing which was asked for after a pane was told of has it as it was told, and
that a workspace closed since then has no pane. `ListedInv` adds that a listing no
event and no change has overtaken is what is known. `WorkInv` ties a worker's call
to the cycle it captured or completes, `QueueInv` the queue of the root to the
calls that wait for a snapshot, and `CycleInv` an applied edge to the
generation of its cycle, which is what the comparison after the await
(`Consumed`) keeps true. `StableInv` extends `QuietMeansSettled` to workspaces whose
timer is armed. The five actions at Herdr share `ChangeKeeps`, the four events
`EventKeeps`, and every step of a worker `WorkKeeps`. For the refinement, `AgeInv` adds
that no cycle is of a later life than its workspace's, so that a close retires it.

`TerminalBridgeProofs` assumes `TerminalAssumption` only: any
set of viewers, any number of attaches. It proves, for `Spec`:

| Theorem | Result |
|---|---|
| `Invariance` | `[]IInv`, which includes `TypeOK` |
| `ViewersAreServedOrTold` | `ServedOrTold` |
| `NoStreamIsUnwatched` | `StreamsAreWatched` |
| `DisposeEndsStreams` | `NothingOutlivesDispose` |
| `NewViewersGetAFrame` | `NewViewersArePainted` |
| `EveryAttachCanEnd` | `NoAttachIsStuck` (the run checks it inside `IInv`) |
| `StreamsAreShared` | `ViewersShareStream`, that is `SharedStream` |

Its `IInv` (at the end of `TerminalBridge`) has five parts beside the types.
`CallInv`: an attach that awaits a connection awaits one that is still to end, and
one that awaits its first frame has a stream that got past its connection.
`StreamInv`: a stream that is up is the one of the map, its viewers view the
terminal, and after `dispose()` some attach awaits it and will close it.
`ViewInv`: the bridge has a viewer under the attach the browser relies on or not
at all, and the latter only if that attach failed or finding 4 has happened.
`ServeInv` and `PaintInv` extend the promises from answered attaches to those
that have joined a stream, since an attach is served before it is answered. The
steps are proved from lemmas about the moves an action is made of, field by field
(`JoinMoves`, `EndMoves`, `LeftMoves`, `FailureMoves`), and from what a departure
leaves of a stream and of a viewer (`LeftStream`, `StaysServed`), which the
detach, the closed socket and the failed connection share. For the refinement,
`LiveFacts` says that the live stream is the one that is up, and what a step shows
is one of five moves: nothing (`IdleSeen`), a join (`JoinSeen`), a departure
(`LeaveSeen`), an end (`EndSeen`) or the word of it (`CloseEventSeen`). A failed
connection is an end if its stream lived and a departure from a newer one if not.

`BrowserSyncProofs` assumes `SyncAssumption` only: any set of
connections, any number of generations, requests, changes and troubles. Its
invariant is proved of `Safety`, which `Spec` extends with the fairness that only
`BrowserCatchesUp` needs:

| Theorem | Result |
|---|---|
| `Invariance` | `[]IInv`, which includes `TypeOK` |
| `ViewsAreOfTheirRuntime` | `ViewIsOfItsRuntime` |
| `EventsKeepFresh` | `QuietMeansFresh` |
| `RuntimesAreFollowed` | `FollowsRuntimes`, that is `RuntimeFollower` |

Its `IInv` (at the end of `BrowserSync`) has these parts beside the types.
`SessionInv` and `FetchInv`: a session, the refresh under way and the catalog
name one runtime, which is why a reply can be published without a further look.
`CatalogInv`: a store that is not ready either has its terminals to attach again
or waits for the first catalog of all, and only catalogs of running runtimes are
delivered. `PausedInv`: no reconnect is armed behind a pause, so `Resume` finds the
bridge down. `FreshInv` extends `QuietMeansFresh` to the states in which something
is under way: what is shown is fresh, or a refresh is asked for, queued, timed or
announced by an event; and an answer that Herdr has overtaken has another refresh
behind it. The second half is what a step that ends a refresh needs, since the
answer replaces what is shown. The refinement rests on `OrderInv`, which is proved
beside `IInv`: the answers on their way lie between the catalog and the server,
in the order in which they will be delivered.

Only model-checked: all liveness, which is out of the prover's reach.

## 6. Findings

Each is a run that TLC ends with a counterexample to what the repository says.

1. **A generation is issued twice** (`manager_wire_identity`). `register()` starts
   a removed id again at generation 0, so a request with the identity of the
   removed runtime is served by the new one. `src/docs/ARCHITECTURE.md:160` says
   stale identities fail. Leases held inside the bridge are not affected
   (`LeaseNeverRevives`).
2. **A permanent failure is retried** (`retry_permanent_failure`). When ssh exits
   for good while the sockets are probed, the exit schedules nothing, but the
   probe then rejects with an ordinary error, which schedules a retry.
   `src/docs/ARCHITECTURE.md:208` says such failures do not retry.
3. **A failed check loses its wake** (`agent_status_wake`). A `pane.list` that fails
   behind a membership event is not repeated after the retry delay; the loop
   waits for the fallback poll with the old panes, contrary to the comment at
   `connections/agent-status-subscription.ts:200`. `MembershipRecovers` shows that
   the poll does repair it.
4. **A late failure closes a newer stream in silence** (`terminal_silence`). An
   attach that was given up while its pane was looked up fails later, and
   detaches its viewer by terminal id (`bridge/terminal-bridge.ts:886`): from the
   stream a newer attach of the same viewer has opened, which closes without a
   viewer to tell. The comment at `bridge/terminal-bridge.ts:632` says why viewers
   must be told.

Smaller things the models show, without a sentence in the repository that says
otherwise: one failure can cost two attempts, when a connect joins a failing
start during its cleanup (`connections/profile-service.ts:722`, `:735`); a
workspace can stay active after a move (section 2, `LastStep`).

## 7. What is not modelled

Left out of the modelled components: the publication of status to observers and
its order, error texts, backoff lengths, the validation of a profile's fields,
file permissions, `test()` of an unsaved profile (it keeps no state), reports of
the agent-status loop to observers; the tracker's persistence and
`resolveLastStepRange`; in the terminal bridge the clipboard relay,
`createFromTerminal`, input, resize and scrolling; in the browser the removal of
the selected connection, the user's actions and their optimistic updates, and
navigation.

Not modelled, for good: codecs and parsers (`bincode.ts`, `frame-to-ansi.ts`,
transcripts, diffs), stateless request handling (HTTP, auth, files, git
actions), commands that drive the operating system (update, service manager),
the components of the web client (rendering, dialogs, per-view state, two thirds
of its code), experimental and vendored crates.

Not modelled yet: the rest of section 1, in the order of section 8.

## 8. Plan

Modules still to write, most important behaviour first.

1. `SubscriptionLoop` – `connections/subscription-loop.ts`: a stop in each of its
   waits; a retired generation never reports ready. It is the source of the
   events of `LastStep` and the `feed` of `BrowserSync`; it is
   to implement `ExclusiveSubscription`, as `AgentStatusSubscription` does.
2. `SshTunnel` – `bridge/ssh-tunnel.ts`: exits against probes, cleanup and newer
   starts; each exit reported once, to its generation. Its exits are the
   `TransportExit` of `RetrySupervision`.
3. `SessionProjectionCache` – invalidation against loads in flight.
4. `EndpointCreation` – the deadline and the empty-session lane; *safe to retry*
   is true.
5. The clipboard relay, resize and `createFromTerminal` in `TerminalBridge`.
6. If they are worth it: `GuiSettings`, `AutoSync`, `WorktreeRemove`, `HerdrClient`,
   `WebSocketDelivery`.

Proofs, in this order:

1. The `ConnectionManager` inside `RetrySupervision`: what the service sees of the
   manager is what the manager does.
