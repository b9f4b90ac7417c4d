------------------------------ MODULE BrowserSync ------------------------------
(***************************************************************************)
(* How a browser follows Herdr: the WebSocket client (web/src/api.ts,      *)
(* class Bridge) composed with the store (web/src/store.ts: the lease, the *)
(* catalog of connections, the refresh and the polling) and with what the  *)
(* server sends it, the events of each runtime's subscription and the      *)
(* resync after every acknowledgement (server connections/runtime.ts).     *)
(*                                                                         *)
(* A refresh reads the lists and the layout; it is one read here.  What a  *)
(* session holds is told apart only by whether it is what Herdr has now.   *)
(* clientGeneration is not counted: a scoped request, timer or lease of an *)
(* earlier generation is dropped when the generation advances, and synced  *)
(* says that the store's copy of it is the bridge's.                       *)
(***************************************************************************)
EXTENDS Naturals, SequencesExt

CONSTANTS
  Conns, Default,
  Legacy,        \* LEGACY_DEFAULT_CONNECTION_ID
  MaxGen,        \* bound: generations of a runtime
  MaxAsks,       \* bound: catalog requests at a time
  MaxChanges,    \* bound: changes of what Herdr has
  MaxTroubles    \* bound: losses, failures, restarts and commands

ASSUME SyncAssumption ==
  /\ Default \in Conns /\ Legacy \notin Conns
  /\ MaxGen \in Nat \ {0} /\ MaxAsks \in Nat \ {0} /\ MaxChanges \in Nat /\ MaxTroubles \in Nat

VARIABLES
  gen, feed,          \* server: generation and subscription of the runtimes
  events,             \* pushed to this browser, not yet received
  status, retrying,   \* bridge: its state, reconnectTimer
  stray,              \* bridge: the close event of a socket it gave up
  synced,             \* connectionGeneration = clientGeneration
  paused, active, catalog, ready,   \* store; ready: catalogReadyForConnection
  sessions,           \* sessionsByConnectionId, that of active included
  polling, timer,     \* metadataTimer, refreshTimer
  fetch, queued,      \* the refresh under way, and is another one queued
  asks,               \* connections.list and bridge.status under way
  rearm,              \* terminalReattachPending
  failed,             \* history: a refresh, or the request it waits for, failed
  changes, troubles

bounds == <<changes, troubles>>
serverVars == <<gen, feed>>
socketVars == <<status, retrying, stray>>
leaseVars == <<synced, active, paused>>
catalogVars == <<catalog, ready, asks, rearm>>
refreshVars == <<timer, fetch, queued, failed>>
vars == <<serverVars, events, socketVars, leaseVars, catalogVars, refreshVars,
          sessions, polling, bounds>>

\* A generation is 0 when there is none (null).
Gens == 0 .. MaxGen
Catalogs == [Conns -> Gens]
Source == [conn : Conns, gen : Gens]
\* of: the runtime the content was read from.
Content == [fresh : BOOLEAN, of : Source]
Empty == [fresh |-> FALSE, of |-> [conn |-> Default, gen |-> 0]]
Session == [gen : Gens, view : Content]
Fetch == [at : {"none", "asked", "answered"}, of : Source, fresh : BOOLEAN]
NoFetch == [at |-> "none", of |-> [conn |-> Default, gen |-> 0], fresh |-> FALSE]
Ask == [kind : {"connect", "poll", "list"}, answered : BOOLEAN, gens : Catalogs]
NewAsk(kind) ==
  [kind |-> kind, answered |-> FALSE, gens |-> [c \in Conns |-> 0]]

TypeOK ==
  /\ gen \in [Conns -> Gens \ {0}] /\ feed \in [Conns -> BOOLEAN]
  /\ events \subseteq Source
  /\ status \in {"disconnected", "connecting", "connected"}
  /\ retrying \in BOOLEAN /\ stray \in BOOLEAN /\ synced \in BOOLEAN
  /\ paused \in BOOLEAN /\ active \in Conns \cup {Legacy}
  /\ catalog \in Catalogs /\ ready \in BOOLEAN
  /\ sessions \in [Conns -> Session]
  /\ polling \in BOOLEAN /\ timer \in BOOLEAN
  /\ fetch \in Fetch /\ queued \in BOOLEAN /\ (queued => fetch.at # "none")
  /\ asks \in Seq(Ask) /\ Len(asks) <= MaxAsks
  /\ rearm \in BOOLEAN /\ failed \in BOOLEAN
  /\ changes \in 0 .. MaxChanges /\ troubles \in 0 .. MaxTroubles

Init ==
  /\ gen = [c \in Conns |-> 1] /\ feed = [c \in Conns |-> TRUE]
  /\ events = {}
  /\ paused \in BOOLEAN
  /\ status = (IF paused THEN "disconnected" ELSE "connecting")
  /\ retrying = FALSE /\ stray = FALSE /\ synced = TRUE
  /\ active = Legacy /\ catalog = [c \in Conns |-> 0] /\ ready = FALSE
  /\ sessions = [c \in Conns |-> [gen |-> 0, view |-> Empty]]
  /\ polling = ~paused /\ timer = FALSE
  /\ fetch = NoFetch /\ queued = FALSE /\ asks = <<>>
  /\ rearm = FALSE /\ failed = FALSE
  /\ changes = 0 /\ troubles = 0

Trouble ==
  troubles < MaxTroubles /\ troubles' = troubles + 1 /\ UNCHANGED changes

-----------------------------------------------------------------------------
(* The store: leases and refreshes *)

\* A lease captured now is current.
Leased(c, cat, r) == status' = "connected" /\ r /\ cat[c] # 0

Asked(c, cat) == [at |-> "asked", of |-> [conn |-> c, gen |-> cat[c]], fresh |-> FALSE]

\* Mutant: a refresh asked for during another is forgotten.
RefreshNowUnlessBusy(c, cat, r, f, q) ==
  /\ fetch' = IF Leased(c, cat, r) /\ f = NoFetch THEN Asked(c, cat) ELSE f
  /\ queued' = q

\* refreshNow, when the refreshes under way are f, q: one at a time.
RefreshNow(c, cat, r, f, q) ==
  IF ~Leased(c, cat, r) THEN fetch' = f /\ queued' = q
  ELSE IF f = NoFetch THEN fetch' = Asked(c, cat) /\ queued' = FALSE
  ELSE fetch' = f /\ queued' = TRUE

\* Mutant: the queued refresh survives the lease.
DropFetch == timer' = FALSE /\ fetch' = NoFetch /\ UNCHANGED queued

\* advanceActiveConnectionGeneration: the scoped requests are rejected, and
\* what waits under the old lease finds that it is not current.
DropLeased == timer' = FALSE /\ fetch' = NoFetch /\ queued' = FALSE

\* The end of a refresh: the queued one begins.
NextRefresh ==
  /\ fetch' = IF queued THEN Asked(active, catalog) ELSE NoFetch
  /\ queued' = FALSE

\* activateConnectionState: the cached session is shown if its runtime is
\* the one the catalog has.
Restored(c) ==
  IF catalog[c] # 0 /\ sessions[c].gen = catalog[c] THEN sessions[c]
  ELSE [gen |-> catalog[c], view |-> Empty]

-----------------------------------------------------------------------------
(* The bridge *)

\* handleDisconnect of the current socket, and the store's onStatus.
Teardown ==
  /\ status' = "disconnected"
  /\ synced' = (status # "disconnected")
  /\ retrying' = TRUE
  /\ DropLeased
  /\ asks' = <<>> /\ events' = {}
  /\ ready' = FALSE /\ rearm' = TRUE
  /\ UNCHANGED <<serverVars, paused, active, catalog, failed, sessions, polling>>

\* onclose of the current socket, or a connection that cannot be made.
SocketCloses ==
  /\ status # "disconnected"
  /\ Trouble
  /\ Teardown
  /\ UNCHANGED stray

\* forceReconnect: no hello in time, a heartbeat unanswered, a full buffer.
ForceReconnect ==
  /\ status # "disconnected"
  /\ Trouble
  /\ Teardown
  /\ stray' = TRUE

\* onclose of a socket given up: handleDisconnect is not for it.
StrayCloses ==
  /\ stray
  /\ stray' = FALSE
  /\ UNCHANGED <<serverVars, events, status, retrying, leaseVars, catalogVars,
                 refreshVars, sessions, polling, bounds>>

\* reconnectTimer; connect() does nothing when a socket is there.
Reconnect ==
  /\ retrying
  /\ retrying' = FALSE
  /\ status' = IF status = "disconnected" THEN "connecting" ELSE status
  /\ UNCHANGED <<serverVars, events, stray, leaseVars, catalogVars, refreshVars,
                 sessions, polling, bounds>>

\* The hello: the first one selects the default connection, which stops the
\* polling; then the status handler starts it and asks for the catalog.
HelloWith(poll) ==
  /\ status = "connecting"
  /\ status' = "connected"
  /\ retrying' = FALSE
  /\ IF active = Legacy
     THEN /\ active' = Default
          /\ sessions' = [sessions EXCEPT ![Default] = Restored(Default)]
          /\ DropLeased
     ELSE UNCHANGED <<active, sessions, timer, fetch, queued>>
  /\ polling' = poll
  /\ asks' = <<NewAsk("connect")>>
  /\ UNCHANGED <<serverVars, events, stray, synced, paused, catalog, ready, rearm,
                 failed, bounds>>

\* Mutant: the polling that the selection stopped is not started.
HelloLeavesPolling == HelloWith(polling /\ active # Legacy)

Hello == HelloWith(TRUE)

-----------------------------------------------------------------------------
(* The catalog *)

\* A request beyond the bound is not made.
AskFor(kind, queue) ==
  IF Len(queue) = MaxAsks THEN queue ELSE Append(queue, NewAsk(kind))

\* store.refreshConnections
ListConnections ==
  /\ status = "connected" /\ Len(asks) < MaxAsks
  /\ Trouble
  /\ asks' = AskFor("list", asks)
  /\ UNCHANGED <<serverVars, events, socketVars, leaseVars, catalog, ready, rearm,
                 refreshVars, sessions, polling>>

\* The server answers the requests of a socket in their order, each with the
\* catalog of that moment.
CatalogAnswered ==
  \E k \in DOMAIN asks :
    /\ \A j \in DOMAIN asks : asks[j].answered <=> j < k
    /\ asks' = [asks EXCEPT ![k].answered = TRUE, ![k].gens = gen]
    /\ UNCHANGED <<serverVars, events, socketVars, leaseVars, catalog, ready, rearm,
                   refreshVars, sessions, polling, bounds>>

\* A request times out, or is refused; an answer that comes later is dropped.
CatalogFails ==
  \E k \in DOMAIN asks :
    /\ ~asks[k].answered
    /\ Trouble
    /\ asks' = RemoveAt(asks, k)
    /\ failed' = (failed \/ asks[k].kind = "connect")
    /\ UNCHANGED <<serverVars, events, socketVars, leaseVars, catalog, ready, rearm,
                   timer, fetch, queued, sessions, polling>>

\* Mutant: only the session on the screen is dropped.
InvalidatedActive(c, gens) == c = active /\ catalog[c] # gens[c]

\* reconcileConnectionCatalogSessions: the cached session of a runtime that
\* was replaced is dropped.
FirstTag(c, gens) ==
  catalog = [d \in Conns |-> 0] /\ c = active /\ sessions[c].gen \in {0, gens[c]}

Invalidated(c, gens) ==
  \/ catalog[c] # 0 /\ catalog[c] # gens[c]
  \/ sessions[c].gen # 0 /\ sessions[c].gen # gens[c]
  \/ catalog[c] = 0 /\ ~FirstTag(c, gens)

Reconciled(gens) ==
  [c \in Conns |-> [gen |-> gens[c],
                    view |-> IF Invalidated(c, gens) THEN Empty ELSE sessions[c].view]]

\* refreshBridgeStatus and refreshConnectionCatalog after their reply.
CatalogDelivered ==
  /\ asks # <<>> /\ Head(asks).answered
  /\ LET ask == Head(asks)
         cat == ask.gens
         replaced == Invalidated(active, cat) /\ ~FirstTag(active, cat)
         \* resetActiveConnectionLease has begun a refresh.
         f == IF replaced THEN Asked(active, cat) ELSE fetch
         q == IF replaced THEN FALSE ELSE queued
         again == ask.kind = "connect" \/ (ask.kind = "poll" /\ rearm)
     IN /\ status' = status
        /\ catalog' = cat
        /\ ready' = TRUE
        /\ sessions' = Reconciled(cat)
        /\ synced' = (synced \/ replaced)
        /\ polling' = (polling \/ replaced)
        /\ rearm' = (rearm /\ ~again)
        /\ asks' = IF ask.kind = "connect" THEN AskFor("poll", Tail(asks)) ELSE Tail(asks)
        /\ IF ask.kind = "connect"
           THEN RefreshNow(active, cat, TRUE, f, q) /\ timer' = (timer /\ ~replaced)
           ELSE fetch' = f /\ queued' = q /\ timer' = ((timer /\ ~replaced) \/ again)
        /\ failed' = (failed /\ ~replaced)
  /\ UNCHANGED <<serverVars, events, retrying, stray, paused, active, bounds>>

-----------------------------------------------------------------------------
(* Refreshing *)

\* handleHerdrEvent: an event of another runtime than the catalog's is dropped.
EventArrives(e) ==
  /\ e \in events
  /\ events' = events \ {e}
  /\ timer' = (timer \/ (ready /\ catalog[e.conn] = e.gen /\ active = e.conn))
  /\ UNCHANGED <<serverVars, socketVars, leaseVars, catalogVars, fetch, queued,
                 failed, sessions, polling, bounds>>

RefreshTimerFires ==
  /\ timer
  /\ timer' = FALSE
  /\ status' = status
  /\ RefreshNow(active, catalog, ready, fetch, queued)
  /\ UNCHANGED <<serverVars, events, retrying, stray, leaseVars, catalogVars,
                 failed, sessions, polling, bounds>>

\* The metadata poll; it skips its turn while the page is hidden.
Poll ==
  /\ polling /\ status = "connected"
  /\ timer' = (timer \/ ready)
  /\ asks' = AskFor("poll", asks)
  /\ UNCHANGED <<serverVars, events, socketVars, leaseVars, catalog, ready, rearm,
                 fetch, queued, failed, sessions, polling, bounds>>

\* refreshOnReturn: the page is visible, focused or online again.
Return ==
  /\ status = "connected"
  /\ Trouble
  /\ status' = status
  /\ RefreshNow(active, catalog, ready, fetch, queued)
  /\ asks' = AskFor("poll", asks)
  /\ UNCHANGED <<serverVars, events, retrying, stray, leaseVars, catalog, ready,
                 rearm, timer, failed, sessions, polling>>

\* The server reads Herdr for the runtime the request names.
FetchAnswered ==
  /\ fetch.at = "asked" /\ fetch.of.gen = gen[fetch.of.conn]
  /\ fetch' = [fetch EXCEPT !.at = "answered", !.fresh = TRUE]
  /\ UNCHANGED <<serverVars, events, socketVars, leaseVars, catalogVars, timer,
                 queued, failed, sessions, polling, bounds>>

Published(c) == [sessions EXCEPT ![c].view = [fresh |-> fetch.fresh, of |-> fetch.of]]

RefreshEnds ==
  /\ fetch.at = "answered"
  /\ sessions' = Published(active)
  /\ failed' = FALSE
  /\ NextRefresh
  /\ UNCHANGED <<serverVars, events, socketVars, leaseVars, catalogVars, timer,
                 polling, bounds>>

RefreshFailed ==
  /\ failed' = TRUE
  /\ NextRefresh
  /\ UNCHANGED <<serverVars, events, socketVars, leaseVars, catalogVars, timer,
                 sessions, polling>>

\* The runtime is not the one the request names any more.
FetchRefused ==
  /\ fetch.at = "asked" /\ fetch.of.gen # gen[fetch.of.conn]
  /\ RefreshFailed
  /\ UNCHANGED bounds

FetchFails == fetch.at = "asked" /\ Trouble /\ RefreshFailed

-----------------------------------------------------------------------------
(* Commands of the user *)

Select(c) ==
  /\ c # active /\ active # Legacy /\ catalog[c] # 0
  /\ Trouble
  /\ active' = c
  /\ sessions' = [sessions EXCEPT ![c] = Restored(c)]
  /\ synced' = TRUE
  /\ status' = status
  /\ polling' = (status = "connected")
  /\ timer' = FALSE
  /\ RefreshNow(c, catalog, ready, NoFetch, FALSE)
  /\ failed' = FALSE
  /\ UNCHANGED <<serverVars, events, retrying, stray, paused, catalogVars>>

\* pauseConnection: Bridge.disconnect() and the store's own update.
Pause ==
  /\ ~paused
  /\ Trouble
  /\ paused' = TRUE
  /\ status' = "disconnected" /\ synced' = TRUE
  /\ retrying' = FALSE /\ stray' = (stray \/ status # "disconnected")
  /\ DropLeased
  /\ polling' = FALSE
  /\ asks' = <<>> /\ events' = {}
  /\ ready' = (ready /\ status = "disconnected")
  /\ rearm' = (rearm \/ status # "disconnected")
  /\ UNCHANGED <<serverVars, active, catalog, failed, sessions>>

\* resumeConnection; connect() does nothing when a socket is there.
Resume ==
  /\ paused \/ status = "disconnected"
  /\ paused' = FALSE
  /\ status' = "connecting"
  /\ polling' = TRUE
  /\ UNCHANGED <<serverVars, events, retrying, stray, synced, active, catalogVars,
                 refreshVars, sessions, bounds>>

-----------------------------------------------------------------------------
(* The server and Herdr *)

Push(c, g) == IF status = "connected" THEN events \cup {[conn |-> c, gen |-> g]}
              ELSE events

\* Herdr changes; the runtime hears of it if it is subscribed.
HerdrChanges(c) ==
  /\ changes < MaxChanges /\ changes' = changes + 1
  /\ sessions' = [d \in Conns |-> IF sessions[d].view.of.conn = c
                                  THEN [sessions[d] EXCEPT !.view.fresh = FALSE]
                                  ELSE sessions[d]]
  /\ fetch' = IF fetch.of.conn = c THEN [fetch EXCEPT !.fresh = FALSE] ELSE fetch
  /\ events' = IF feed[c] THEN Push(c, gen[c]) ELSE events
  /\ UNCHANGED <<serverVars, socketVars, leaseVars, catalogVars, timer, queued,
                 failed, polling, troubles>>

FeedLost(c) ==
  /\ feed[c]
  /\ Trouble
  /\ feed' = [feed EXCEPT ![c] = FALSE]
  /\ UNCHANGED <<gen, events, socketVars, leaseVars, catalogVars, refreshVars,
                 sessions, polling>>

\* The subscription is acknowledged: session.resync_required.
FeedReady(c) ==
  /\ ~feed[c]
  /\ feed' = [feed EXCEPT ![c] = TRUE]
  /\ events' = Push(c, gen[c])
  /\ UNCHANGED <<gen, socketVars, leaseVars, catalogVars, refreshVars, sessions,
                 polling, bounds>>

\* The manager replaces the runtime; the new one subscribes afresh.
RuntimeRestarts(c) ==
  /\ gen[c] < MaxGen
  /\ Trouble
  /\ gen' = [gen EXCEPT ![c] = @ + 1]
  /\ feed' = [feed EXCEPT ![c] = FALSE]
  /\ UNCHANGED <<events, socketVars, leaseVars, catalogVars, refreshVars, sessions,
                 polling>>

-----------------------------------------------------------------------------
Connect == Reconnect \/ Hello
RefreshProceeds == FetchAnswered \/ FetchRefused \/ RefreshEnds

Command ==
  \/ ListConnections \/ Return \/ Pause \/ Resume
  \/ \E c \in Conns : Select(c)

Fault ==
  \/ SocketCloses \/ ForceReconnect \/ FetchFails \/ CatalogFails
  \/ \E c \in Conns : HerdrChanges(c) \/ FeedLost(c) \/ RuntimeRestarts(c)

Next ==
  \/ Connect \/ RefreshTimerFires \/ RefreshProceeds \/ Poll \/ StrayCloses
  \/ CatalogAnswered \/ CatalogDelivered
  \/ \E e \in events : EventArrives(e)
  \/ \E c \in Conns : FeedReady(c)
  \/ Command \/ Fault

Safety == Init /\ [][Next]_vars

\* Timers fire, and what was asked of the server is answered; a user need not
\* act, a lost event need not arrive, nor Herdr's subscription be repaired.
Spec ==
  /\ Safety
  /\ WF_vars(Connect)
  /\ WF_vars(RefreshTimerFires)
  /\ WF_vars(RefreshProceeds)
  /\ WF_vars(Poll)
  /\ WF_vars(CatalogAnswered)
  /\ WF_vars(CatalogDelivered)

-----------------------------------------------------------------------------
\* What a session shows was read from that connection's runtime of the
\* generation the session and the catalog have, over selections, reconnects,
\* replacements and stale replies.
ViewIsOfItsRuntime == \A c \in Conns :
  sessions[c].view # Empty =>
    /\ sessions[c].view.of = [conn |-> c, gen |-> sessions[c].gen]
    /\ sessions[c].gen = catalog[c]

shownNow == [c \in Conns |->
  IF sessions[c].view.of.gen = 0 THEN {} ELSE {sessions[c].view.of}]

Follower ==
  INSTANCE RuntimeFollower WITH current <- gen, known <- catalog, shown <- shownNow

\* The catalog never goes back to an earlier runtime and never runs ahead of the
\* server, though answers of several requests are under way, fail, or are cut
\* off by a socket; and what is shown was read from the runtime it names.
FollowsRuntimes == Follower!Spec

Quiet == events = {} /\ asks = <<>> /\ fetch = NoFetch /\ ~timer

\* Events alone keep the browser up to date: when nothing is under way, the
\* runtime is subscribed and no refresh failed, what the browser shows is what
\* Herdr has (runtime.ts:345).
QuietMeansFresh ==
  /\ status = "connected" /\ ready /\ ~rearm /\ Quiet /\ ~failed
  /\ catalog[active] = gen[active] /\ feed[active]
  => sessions[active].view.fresh

InSync ==
  /\ status = "connected" /\ synced /\ ready /\ ~rearm
  /\ catalog[active] = gen[active] /\ sessions[active].view.fresh

\* Once troubles end, a browser that is not paused shows what Herdr has, from
\* the runtime Herdr is served by now, with its terminals attached again and
\* the clients that its components hold (useConnectionClient) usable.
BrowserCatchesUp == <>[](paused \/ InSync)

-----------------------------------------------------------------------------
(* The inductive invariant behind the two invariants above. *)

\* A paused bridge stays disconnected.
PausedInv == paused => status = "disconnected" /\ ~retrying

\* A session is tagged with the runtime of the catalog, and shows it alone.
SessionInv == \A c \in Conns :
  /\ sessions[c].gen = catalog[c]
  /\ sessions[c].view # Empty =>
       /\ catalog[c] # 0
       /\ sessions[c].view.of = [conn |-> c, gen |-> catalog[c]]

\* A refresh reads the runtime that the catalog has for the selection.
FetchInv ==
  /\ fetch.at = "none" => fetch = NoFetch
  /\ fetch.at # "none" =>
       /\ active \in Conns /\ ready /\ catalog[active] # 0
       /\ fetch.of = [conn |-> active, gen |-> catalog[active]]

\* Until a socket has its catalog, the terminals are to be attached again, or
\* there was no catalog yet and the request that waits for it is the first.
CatalogInv ==
  /\ ready => status = "connected" /\ \A c \in Conns : catalog[c] # 0
  /\ ~ready /\ ~rearm =>
       /\ \A c \in Conns : catalog[c] = 0
       /\ status = "connected" =>
            failed \/ (asks # <<>> /\ asks[1].kind = "connect")
  /\ status = "connected" => active \in Conns
  /\ asks # <<>> => status = "connected"
  /\ \A k \in DOMAIN asks :
       asks[k].answered => \A c \in Conns : asks[k].gens[c] # 0

\* A refresh is to begin.
Coming ==
  timer \/ queued \/ [conn |-> active, gen |-> gen[active]] \in events

\* What is shown, or is about to be, is what Herdr has, or a refresh follows.
FreshInv ==
  /\ status = "connected" /\ ready /\ ~rearm
  /\ catalog[active] = gen[active] /\ feed[active]
  => /\ \/ failed \/ Coming \/ sessions[active].view.fresh
        \/ fetch.at = "asked" \/ (fetch.at = "answered" /\ fetch.fresh)
     /\ fetch.at = "answered" => fetch.fresh \/ Coming

IInv == TypeOK /\ PausedInv /\ SessionInv /\ FetchInv /\ CatalogInv /\ FreshInv

\* Answers are of runtimes from the catalog's to the server's, in their order;
\* with IInv this is behind FollowsRuntimes.
OrderInv ==
  /\ \A c \in Conns : catalog[c] <= gen[c]
  /\ \A k \in DOMAIN asks : asks[k].answered =>
       \A c \in Conns : catalog[c] <= asks[k].gens[c] /\ asks[k].gens[c] <= gen[c]
  /\ \A j, k \in DOMAIN asks :
       j <= k /\ asks[j].answered /\ asks[k].answered =>
         \A c \in Conns : asks[j].gens[c] <= asks[k].gens[c]

=============================================================================
