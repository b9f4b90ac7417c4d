------------------------------- MODULE LastStep -------------------------------
(***************************************************************************)
(* The last step of a workspace: the tracker of quiet and active periods   *)
(* (server/src/workspace/last-step-turns.ts), the store that takes a       *)
(* snapshot of the worktree at both ends of a period                       *)
(* (createLastStepBaselineStore in workspace/git-diff.ts), and the runtime *)
(* that wires them (connections/runtime.ts).                               *)
(*                                                                         *)
(* Herdr tells of panes in three ways that are not ordered with each       *)
(* other: the event socket, the status socket, and the answers to          *)
(* pane.list.  Whatever runs without awaiting is one action.  All the      *)
(* workspaces are of one git root, the case where their snapshots contend. *)
(***************************************************************************)
EXTENDS Naturals, Sequences, FiniteSets

CONSTANTS
  Panes, Workspaces,
  NoWorkspace,  \* of a pane that does not exist or hosts no agent
  Starts,       \* bound: how the panes may be when the runtime starts
  MaxChanges    \* bound: changes of the panes at Herdr

ASSUME LastStepAssumption ==
  /\ NoWorkspace \notin Workspaces
  /\ MaxChanges \in Nat

VARIABLES
  server, changes,         \* Herdr: its panes
  life, status,            \* messages of the two sockets
  listing,                 \* the pane.list under way
  panes, paneRev, closedRev, rev, seeded,            \* tracker: panes
  stable, applied, pending, gen, workers, tasks,     \* tracker: transitions
  cycle, queue,            \* store: activityCycles, the root's snapshot queue
  phase,                   \* running, stopping or stopped
  latest, told,            \* history: last change of a pane, and is it known
  listed                   \* history: a listing was applied, and nothing came since

serverVars == <<server, changes, latest>>
wireVars == <<life, status>>
paneVars == <<panes, paneRev, closedRev, rev, told>>
edgeVars == <<stable, pending, gen>>
workVars == <<applied, workers, tasks, cycle, queue>>
listVars == <<listing, seeded, listed>>
vars == <<serverVars, wireVars, paneVars, edgeVars, workVars,
          listVars, phase>>

\* A pane, as Herdr has it and as the tracker does.
Pane == [ws : Workspaces, on : BOOLEAN]
Gone == [ws |-> NoWorkspace, on |-> FALSE]
Maps == [Panes -> Pane \cup {Gone}]
Revisions == 0 .. MaxChanges

ASSUME StartsAssumption == Starts \subseteq Maps

Message ==
  [kind : {"status", "closed"}, n : Revisions, pane : Panes, now : Pane \cup {Gone}]
    \cup [kind : {"moved"}, n : Revisions, from : Panes, fromWs : Workspaces,
          pane : Panes, now : Pane]
    \cup [kind : {"workspace"}, n : Revisions, ws : Workspaces]
NoListing == [at |-> "none", rev |-> 0, seen |-> 0,
              panes |-> [p \in Panes |-> Gone]]
Task == [gen : Nat, edge : BOOLEAN, at : {"resolving", "snapshot"}]
NoWorker == MaxChanges + 1      \* workers has no task of the workspace
Cycles == {"none", "pending", "captured", "failed", "ended"}

TypeOK ==
  /\ server \in Maps /\ changes \in Revisions
  /\ life \in Seq(Message) /\ status \in Seq(Message)
  /\ listing \in [at : {"none", "asked", "answered"}, rev : Revisions,
                  seen : Revisions, panes : Maps]
  /\ panes \in Maps /\ paneRev \in [Panes -> Revisions]
  /\ closedRev \in [Workspaces -> Revisions] /\ rev \in Revisions
  /\ seeded \in BOOLEAN
  /\ stable \in [Workspaces -> BOOLEAN] /\ applied \in [Workspaces -> BOOLEAN]
  /\ pending \in [Workspaces -> {"none", "quiet", "active"}]
  /\ gen \in [Workspaces -> Revisions]
  /\ workers \in [Workspaces -> Revisions \cup {NoWorker}]
  /\ tasks \in [Workspaces -> SUBSET Task]
  /\ cycle \in [Workspaces -> [state : Cycles, gen : Revisions, early : BOOLEAN]]
  /\ queue \in Seq(Workspaces)
  /\ phase \in {"running", "stopping", "stopped"}
  /\ latest \in [Panes -> Revisions] /\ told \in [Panes -> BOOLEAN]
  /\ listed \in BOOLEAN

\* The tracker knows nothing: at the start and after resetState().
Fresh ==
  [panes |-> [p \in Panes |-> Gone], paneRev |-> [p \in Panes |-> 0],
   closedRev |-> [w \in Workspaces |-> 0],
   off |-> [w \in Workspaces |-> FALSE],
   none |-> [w \in Workspaces |-> "none"],
   zero |-> [w \in Workspaces |-> 0],
   idle |-> [w \in Workspaces |-> NoWorker],
   cycle |-> [w \in Workspaces |-> [state |-> "none", gen |-> 0,
                                early |-> FALSE]]]

Init ==
  /\ server \in Starts /\ changes = 0
  /\ life = <<>> /\ status = <<>>
  /\ listing = NoListing /\ seeded = FALSE /\ listed = FALSE
  /\ panes = Fresh.panes /\ paneRev = Fresh.paneRev
  /\ closedRev = Fresh.closedRev /\ rev = 0
  /\ stable = Fresh.off /\ applied = Fresh.off /\ pending = Fresh.none
  /\ gen = Fresh.zero /\ workers = Fresh.idle
  /\ tasks = [w \in Workspaces |-> {}]
  /\ cycle = Fresh.cycle /\ queue = <<>>
  /\ phase = "running"
  /\ latest = [p \in Panes |-> 0] /\ told = [p \in Panes |-> FALSE]

-----------------------------------------------------------------------------
(* Herdr. *)

Change(ps) ==
  /\ phase = "running" /\ changes < MaxChanges
  /\ changes' = changes + 1
  /\ latest' = [p \in Panes |-> IF p \in ps THEN changes + 1 ELSE latest[p]]
  /\ told' = [p \in Panes |-> p \notin ps /\ told[p]]
  /\ listed' = FALSE
  /\ UNCHANGED <<panes, paneRev, closedRev, rev, edgeVars,
                 workVars, listing, seeded, phase>>

\* Nobody hears of it while the event socket is down, or if it breaks
\* before the message was read.
Announce(m) == life' \in {life, Append(life, m)} /\ UNCHANGED status

\* An agent starts or ends its turn.  The status socket, which is opened
\* after the first listing, tells of the panes it subscribed to, if it lasts.
StatusChanges(p) ==
  /\ server[p] # Gone
  /\ Change({p})
  /\ server' = [server EXCEPT ![p].on = ~@]
  /\ \/ seeded /\ status' = Append(status, [kind |-> "status", n |-> changes + 1,
                                            pane |-> p, now |-> server'[p]])
     \/ UNCHANGED status
  /\ UNCHANGED life

\* An agent appears in a pane: no event that the tracker reads.
PaneOpens(p, w) ==
  /\ server[p] = Gone
  /\ Change({p})
  /\ server' = [server EXCEPT ![p] = [ws |-> w, on |-> FALSE]]
  /\ UNCHANGED wireVars

PaneCloses(p) ==
  /\ server[p] # Gone
  /\ Change({p})
  /\ server' = [server EXCEPT ![p] = Gone]
  /\ Announce([kind |-> "closed", n |-> changes + 1, pane |-> p, now |-> Gone])

\* A move can allocate a new pane id, one that no pane had before.
PaneMoves(p, q, w) ==
  /\ server[p] # Gone
  /\ IF p = q THEN server[p].ws # w ELSE server[q] = Gone /\ latest[q] = 0
  /\ Change({p, q})
  /\ server' = [server EXCEPT ![p] = Gone, ![q] = [ws |-> w, on |-> server[p].on]]
  /\ Announce([kind |-> "moved", n |-> changes + 1, from |-> p,
               fromWs |-> server[p].ws, pane |-> q, now |-> server'[q]])

WorkspaceCloses(w) ==
  /\ \E p \in Panes : server[p].ws = w
  /\ Change({p \in Panes : server[p].ws = w})
  /\ server' = [p \in Panes |-> IF server[p].ws = w THEN Gone ELSE server[p]]
  /\ Announce([kind |-> "workspace", n |-> changes + 1, ws |-> w])

-----------------------------------------------------------------------------
(* Workers.  A snapshot that fails also queues the removal of its index    *)
(* file, which touches nothing that is modelled.                           *)

\* completeWorkspace() takes a snapshot for a captured cycle that has no
\* completion; else it answers at once.
Completable(c) == c.state = "captured"

(* The worker of w has nothing in flight but `others`, with ap applied and *)
(* c as the cycle: it goes on to its next call of the store, or ends.  A   *)
(* worker of an older generation ends, and finish() starts another.        *)
Work(w, ap, c, q, others) ==
  LET due == phase = "running" /\ stable'[w] # ap
      capture == due /\ stable'[w]
      complete == due /\ ~stable'[w] /\ Completable(c)
      task(at) == [gen |-> gen[w], edge |-> stable'[w], at |-> at]
  IN /\ applied' = [applied EXCEPT ![w] = IF due /\ ~capture /\ ~complete
                                          THEN FALSE ELSE ap]
     /\ tasks' = [tasks EXCEPT ![w] =
          IF capture THEN others \cup {task("resolving")}
          ELSE IF complete THEN others \cup {task("snapshot")} ELSE others]
     /\ workers' = [workers EXCEPT ![w] =
          IF capture \/ complete THEN gen[w] ELSE NoWorker]
     /\ cycle' = [cycle EXCEPT ![w] =
          IF capture THEN [state |-> "pending", gen |-> gen[w], early |-> ~seeded]
          ELSE c]
     /\ queue' = IF complete THEN Append(q, w) ELSE q

\* Mutant: the generation is not compared after the await.
ConsumedAlways(w, t) == IF phase = "running" THEN t.edge ELSE applied[w]

\* The edge of a call that ended or failed is consumed, unless the
\* workspace was closed meanwhile.
Consumed(w, t) ==
  IF phase = "running" /\ gen[w] = t.gen THEN t.edge ELSE applied[w]

\* What became of the cycle once call t ended.
Ended(w, t, ok) ==
  [cycle[w] EXCEPT !.state = IF ~ok THEN "failed"
                             ELSE IF t.edge THEN "captured" ELSE "ended"]

CallEnds(w, t, ok, q) ==
  /\ UNCHANGED <<serverVars, wireVars, paneVars, edgeVars, listVars,
                 phase>>
  /\ Work(w, Consumed(w, t), Ended(w, t, ok), q, tasks[w] \ {t})

ResolveRoot(w) ==
  \E t \in tasks[w] :
    /\ t.at = "resolving"
    /\ tasks' = [tasks EXCEPT ![w] = (@ \ {t}) \cup {[t EXCEPT !.at = "snapshot"]}]
    /\ queue' = Append(queue, w)
    /\ UNCHANGED <<serverVars, wireVars, paneVars, edgeVars, applied,
                   workers, cycle, listVars, phase>>

ResolveRootFails(w) ==
  \E t \in tasks[w] : t.at = "resolving" /\ CallEnds(w, t, FALSE, queue)

\* The snapshots of a root run one at a time, in the order of the calls.
SnapshotEnds(w) ==
  /\ queue # <<>> /\ Head(queue) = w
  /\ \E t \in tasks[w], ok \in BOOLEAN :
       t.at = "snapshot" /\ CallEnds(w, t, ok, Tail(queue))

-----------------------------------------------------------------------------
(* Observing the panes. *)

ActiveIn(m, w) == \E p \in Panes : m[p].ws = w /\ m[p].on

\* observeWorkspace() of each w in ws, after the panes became m.
Observed(m, ws) ==
  [w \in Workspaces |->
     IF w \notin ws THEN pending[w]
     ELSE IF stable[w] = ActiveIn(m, w) THEN "none"
     ELSE IF ActiveIn(m, w) THEN "active" ELSE "quiet"]

Idle(w) == workers[w] = NoWorker

\* The debounce timer of w: commitTransition().
TimerFires(w) ==
  /\ phase = "running" /\ pending[w] # "none"
  /\ pending' = [pending EXCEPT ![w] = "none"]
  /\ LET active == pending[w] = "active"
         commit == ActiveIn(panes, w) = active /\ stable[w] # active
     IN /\ stable' = IF commit THEN [stable EXCEPT ![w] = active] ELSE stable
        /\ IF commit /\ Idle(w)
           THEN Work(w, applied[w], cycle[w], queue, tasks[w])
           ELSE UNCHANGED workVars
  /\ UNCHANGED <<serverVars, wireVars, paneVars, gen, listVars, phase>>

Known(n, p) == n = latest[p]

EventTaken ==
  /\ listed' = FALSE
  /\ UNCHANGED <<serverVars, applied, workers, tasks, cycle, queue,
                 listing, seeded, phase>>

HandleStatus ==
  /\ phase = "running" /\ status # <<>>
  /\ LET m == Head(status)
         previous == panes[m.pane].ws
     IN /\ rev' = rev + 1
        /\ paneRev' = [paneRev EXCEPT ![m.pane] = rev']
        /\ closedRev' = [closedRev EXCEPT ![m.now.ws] = 0]
        /\ panes' = [panes EXCEPT ![m.pane] = m.now]
        /\ pending' = Observed(panes', {previous, m.now.ws})
        /\ told' = [told EXCEPT ![m.pane] = Known(m.n, m.pane)]
  /\ status' = Tail(status)
  /\ UNCHANGED <<life, stable, gen>>
  /\ EventTaken

\* Mutant: the workspace that a pane moves to is not observed.
HandleMovedFromOnly(m) ==
  LET previous == panes[m.from].ws IN
  /\ rev' = rev + 1
  /\ paneRev' = [paneRev EXCEPT ![m.from] = rev', ![m.pane] = rev']
  /\ closedRev' = [closedRev EXCEPT ![m.now.ws] = 0]
  /\ panes' = [panes EXCEPT ![m.from] = Gone, ![m.pane] = m.now]
  /\ pending' = Observed(panes', {m.fromWs, previous})
  /\ told' = [told EXCEPT ![m.from] = Known(m.n, m.from),
                          ![m.pane] = Known(m.n, m.pane)]
  /\ UNCHANGED <<stable, gen, applied>>

HandleMoved(m) ==
  LET previous == panes[m.from].ws IN
  /\ rev' = rev + 1
  /\ paneRev' = [paneRev EXCEPT ![m.from] = rev', ![m.pane] = rev']
  /\ closedRev' = [closedRev EXCEPT ![m.now.ws] = 0]
  /\ panes' = [panes EXCEPT ![m.from] = Gone, ![m.pane] = m.now]
  /\ pending' = Observed(panes', {m.fromWs, previous, m.now.ws})
  /\ told' = [told EXCEPT ![m.from] = Known(m.n, m.from),
                          ![m.pane] = Known(m.n, m.pane)]
  /\ UNCHANGED <<stable, gen, applied>>

HandlePaneClosed(m) ==
  /\ rev' = rev + 1
  /\ paneRev' = [paneRev EXCEPT ![m.pane] = rev']
  /\ panes' = [panes EXCEPT ![m.pane] = Gone]
  /\ pending' = Observed(panes', {panes[m.pane].ws})
  /\ told' = [told EXCEPT ![m.pane] = Known(m.n, m.pane)]
  /\ UNCHANGED <<closedRev, stable, gen, applied>>

\* The panes go, the transitions of w are cancelled; its worker, if it
\* has one, is left to find that the generation changed.
HandleWorkspaceClosed(m) ==
  LET its == {p \in Panes : panes[p].ws = m.ws} IN
  /\ rev' = rev + 1
  /\ closedRev' = [closedRev EXCEPT ![m.ws] = rev']
  /\ paneRev' = [p \in Panes |-> IF p \in its THEN rev' ELSE paneRev[p]]
  /\ panes' = [p \in Panes |-> IF p \in its THEN Gone ELSE panes[p]]
  /\ gen' = [gen EXCEPT ![m.ws] = @ + 1]
  /\ pending' = [pending EXCEPT ![m.ws] = "none"]
  /\ stable' = [stable EXCEPT ![m.ws] = FALSE]
  /\ applied' = [applied EXCEPT ![m.ws] = FALSE]
  /\ told' = [p \in Panes |-> IF p \in its THEN Known(m.n, p) ELSE told[p]]

HandleLife ==
  /\ phase = "running" /\ life # <<>>
  /\ LET m == Head(life) IN
       \/ m.kind = "moved" /\ HandleMoved(m)
       \/ m.kind = "closed" /\ HandlePaneClosed(m)
       \/ m.kind = "workspace" /\ HandleWorkspaceClosed(m)
  /\ life' = Tail(life) /\ listed' = FALSE
  /\ UNCHANGED <<serverVars, status, workers, tasks, cycle, queue,
                 listing, seeded, phase>>

-----------------------------------------------------------------------------
(* pane.list: asked by the status subscription when panes come and go, and *)
(* by its poll.  A call that fails is the same as one not yet made.        *)

BeginPaneList ==
  /\ phase = "running" /\ listing.at = "none"
  /\ listing' = [NoListing EXCEPT !.at = "asked", !.rev = rev]
  /\ UNCHANGED <<serverVars, wireVars, paneVars, edgeVars, workVars,
                 seeded, listed, phase>>

AnswerPaneList ==
  /\ listing.at = "asked"
  /\ listing' = [listing EXCEPT !.at = "answered", !.seen = changes,
                                !.panes = server]
  /\ UNCHANGED <<serverVars, wireVars, paneVars, edgeVars, workVars,
                 seeded, listed, phase>>

\* Mutant: what is as old as the listing also wins.
ListedSince(p) ==
  IF paneRev[p] >= listing.rev THEN panes[p]
  ELSE listing.panes[p]

\* Mutant: the listing is taken as it is.
ListedOnly(p) == listing.panes[p]

\* What is known of p once the listing is applied: an event that came
\* after the listing was asked for wins, and so does a closed workspace.
Listed(p) ==
  LET said == listing.panes[p] IN
  IF paneRev[p] > listing.rev THEN panes[p]
  ELSE IF said # Gone /\ closedRev[said.ws] > listing.rev THEN Gone
  ELSE said

ReconcilePaneList ==
  /\ listing.at = "answered"
  /\ LET m == [p \in Panes |-> Listed(p)]
         affected == {panes[p].ws : p \in Panes} \cup {m[p].ws : p \in Panes}
         seed(f) == [w \in Workspaces |->
                       IF w \in affected THEN ActiveIn(m, w) ELSE f[w]]
     IN /\ panes' = m
        /\ IF seeded
           THEN /\ pending' = Observed(m, affected)
                /\ UNCHANGED <<stable, applied>>
           ELSE /\ stable' = seed(stable) /\ applied' = seed(applied)
                /\ UNCHANGED pending
  /\ listing' = NoListing /\ seeded' = TRUE
  /\ listed' = (listing.rev = rev /\ listing.seen = changes)
  /\ UNCHANGED <<serverVars, wireVars, paneRev, closedRev, rev, told,
                 gen, workers, tasks, cycle, queue, phase>>

-----------------------------------------------------------------------------
(* The stop of the runtime. *)

\* The runtime leaves both sockets and stops its parts; the tracker clears
\* its timers and waits for its workers.  A listing under way is ignored
\* when it is answered, and Herdr is of no interest any more.
Stop ==
  /\ phase = "running"
  /\ phase' = "stopping"
  /\ life' = <<>> /\ status' = <<>>
  /\ pending' = Fresh.none
  /\ listing' = NoListing /\ listed' = FALSE
  /\ server' = Fresh.panes /\ changes' = MaxChanges /\ latest' = Fresh.paneRev
  /\ told' = [p \in Panes |-> FALSE]
  /\ UNCHANGED <<panes, paneRev, closedRev, rev, stable, gen, workVars, seeded>>

\* The workers have ended: resetState(), then the store is disposed.
StopEnds ==
  /\ phase = "stopping"
  /\ \A w \in Workspaces : tasks[w] = {}
  /\ phase' = "stopped"
  /\ panes' = Fresh.panes /\ paneRev' = Fresh.paneRev
  /\ closedRev' = Fresh.closedRev /\ rev' = 0 /\ seeded' = FALSE
  /\ stable' = Fresh.off /\ applied' = Fresh.off /\ gen' = Fresh.zero
  /\ workers' = Fresh.idle /\ cycle' = Fresh.cycle
  /\ UNCHANGED <<serverVars, wireVars, pending, tasks, queue, told, listing,
                 listed>>

-----------------------------------------------------------------------------

Herdr ==
  \/ \E p \in Panes : StatusChanges(p) \/ PaneCloses(p)
  \/ \E p \in Panes, w \in Workspaces : PaneOpens(p, w)
  \/ \E p, q \in Panes, w \in Workspaces : PaneMoves(p, q, w)
  \/ \E w \in Workspaces : WorkspaceCloses(w)

Listing == BeginPaneList \/ AnswerPaneList \/ ReconcilePaneList

Progress ==
  \/ HandleStatus \/ HandleLife \/ StopEnds
  \/ \E w \in Workspaces :
       TimerFires(w) \/ ResolveRoot(w) \/ ResolveRootFails(w) \/ SnapshotEnds(w)

Next == Herdr \/ Listing \/ Progress \/ Stop

Safety == Init /\ [][Next]_vars

-----------------------------------------------------------------------------
(* Properties. *)

\* A workspace has at most one call of the store under way, also when it is
\* closed and opened again while a snapshot runs: the store's own ordering
\* of overlapping periods (nextCapture, completedVersions) never has to act.
OneCallPerWorkspace ==
  \A w \in Workspaces :
    /\ Cardinality(tasks[w]) <= 1
    /\ Cardinality({i \in DOMAIN queue : queue[i] = w}) <= 1

\* With no timer and no worker, the edge that was last committed has been
\* applied, and a workspace where an agent works is known to be active,
\* whatever the order of events, listings, timers and snapshots.  (The other
\* way round it can be late: a move that arrives after a listing took its
\* effect leaves the workspace that the listing named unobserved.)
QuietMeansSettled ==
  \A w \in Workspaces :
    phase = "running" /\ pending[w] = "none" /\ tasks[w] = {}
      => /\ applied[w] = stable[w]
         /\ ActiveIn(panes, w) => stable[w]

\* Once the tracker was told of the last change of a pane, no listing that
\* was asked for before takes it back.
EventsOutliveListings ==
  phase = "running" => \A p \in Panes : told[p] => panes[p] = server[p]

\* The step that is being completed was captured in the same life of its
\* workspace: no range begins before the workspace was closed and opened.
StepWithinOneLife ==
  \A w \in Workspaces : \A t \in tasks[w] : 
    ~t.edge => cycle[w].gen = t.gen \/ cycle[w].early

callNow == [w \in Workspaces |->
  IF tasks[w] = {} THEN "none"
  ELSE IF \E t \in tasks[w] : t.edge THEN "begin" ELSE "complete"]

stepNow == [w \in Workspaces |->
  [state |-> cycle[w].state, own |-> cycle[w].gen = gen[w],
   early |-> cycle[w].early]]

Recorder == INSTANCE StepRecorder WITH call <- callNow, step <- stepNow

\* The store is called for one step of a workspace after the other: a step is
\* completed at most once, after its capture succeeded, never across a close of
\* the workspace that came while git ran, and no call begins after stop().
StepsAreRecorded == Recorder!Spec

Settled ==
  /\ phase = "running" /\ life = <<>> /\ status = <<>>
  /\ listed
  /\ \A w \in Workspaces : pending[w] = "none" /\ tasks[w] = {}

\* When nothing is under way and the last listing is of Herdr as it is, the
\* tracker knows its panes and a step was begun wherever an agent works,
\* although events were lost, late, or overtaken by listings.
SettledIsTrue ==
  Settled => /\ panes = server
             /\ \A w \in Workspaces : ActiveIn(server, w) => applied[w]

-----------------------------------------------------------------------------
(* The inductive invariant of the proofs (LastStepProofs). *)

\* What a message of change n says is so, until its panes change again.
Truthful(m) ==
  /\ m.n <= changes
  /\ m.kind \in {"status", "closed", "moved"} /\ m.n = latest[m.pane]
       => m.now = server[m.pane]
  /\ m.kind = "closed" => m.now = Gone
  /\ m.kind = "moved" /\ m.from # m.pane /\ m.n = latest[m.from]
       => server[m.from] = Gone
  /\ m.kind = "workspace" => \A p \in Panes : m.n = latest[p] => server[p] = Gone

MessageInv ==
  /\ rev + Len(life) + Len(status) <= changes
  /\ \A i \in DOMAIN life : Truthful(life[i])
  /\ \A i \in DOMAIN status : status[i].kind = "status" /\ Truthful(status[i])

\* Revisions only grow, and nothing is from a later one.
RevisionInv ==
  /\ listing.rev <= rev /\ listing.seen <= changes
  /\ \A p \in Panes : paneRev[p] <= rev /\ latest[p] <= changes
  /\ \A w \in Workspaces : closedRev[w] <= rev /\ gen[w] <= rev
  /\ phase # "running" => listing = NoListing /\ ~listed
  /\ phase = "stopped" => ~seeded

\* A listing that is not overtaken by events is right, and what overtakes it
\* agrees with what is known.
ListingInv ==
  /\ listing.at = "answered" =>
       /\ \A p \in Panes : told[p] /\ paneRev[p] <= listing.rev
                              => listing.panes[p] = server[p]
       /\ listing.seen = changes => listing.panes = server
  /\ listing.at # "none" =>
       \A w \in Workspaces : closedRev[w] > listing.rev
                                => \A p \in Panes : panes[p].ws # w

\* The last listing is what is known, until an event or a change.
ListedInv ==
  phase = "running" /\ listed => panes = server

\* The worker of a workspace and its call.
WorkInv ==
  \A w \in Workspaces :
    /\ \A s, t \in tasks[w] : s = t
    /\ workers[w] = NoWorker <=> tasks[w] = {}
    /\ \A t \in tasks[w] :
         IF t.edge THEN cycle[w].state = "pending" /\ cycle[w].gen = t.gen
         ELSE /\ t.at = "snapshot" /\ cycle[w].state = "captured"
              /\ cycle[w].gen = t.gen \/ cycle[w].early

\* The queue of the root holds the workspaces that wait for a snapshot.
Queued(q, w) == \E i \in DOMAIN q : q[i] = w

QueueInv ==
  /\ \A i, j \in DOMAIN queue : queue[i] = queue[j] => i = j
  /\ \A w \in Workspaces :
       Queued(queue, w) <=> \E t \in tasks[w] : t.at = "snapshot"

\* A cycle that can be completed is of this life, or of before the panes
\* were known.
CycleInv ==
  \A w \in Workspaces :
    /\ applied[w] => \/ cycle[w].state = "none"
                     \/ cycle[w].gen = gen[w] \/ cycle[w].early
    /\ ~seeded => cycle[w].state = "none" \/ cycle[w].early

StableInv ==
  phase = "running" =>
    \A w \in Workspaces :
      /\ tasks[w] = {} => applied[w] = stable[w]
      /\ ActiveIn(panes, w) /\ pending[w] # "active" => stable[w]

IInv ==
  /\ TypeOK /\ MessageInv /\ RevisionInv /\ ListingInv /\ ListedInv
  /\ EventsOutliveListings /\ WorkInv /\ QueueInv /\ CycleInv /\ StableInv

=============================================================================
