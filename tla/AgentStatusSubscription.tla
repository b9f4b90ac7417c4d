----------------------- MODULE AgentStatusSubscription -----------------------
(***************************************************************************)
(* server/src/connections/agent-status-subscription.ts: the loop that      *)
(* keeps one socket subscribed to the status of every pane with an agent.  *)
(* Herdr reports changes of that set by events of another socket; they     *)
(* arrive late, in the middle of any call, or not at all.                  *)
(*                                                                         *)
(* Each start() begins a generation with a run() of its own.  loop[g] is   *)
(* where generation g is suspended; an action runs it to its next await.   *)
(* Waking a waiter and the continuation it resolves are one action.        *)
(***************************************************************************)
EXTENDS Naturals

CONSTANTS
  Panes,
  NoReply,      \* pane.list has not been answered
  MaxStarts,    \* bound: calls of start() that begin a generation
  MaxChanges,   \* bound: changes of the set of agent panes
  MaxLost,      \* bound: events that never arrive
  MaxFailures   \* bound: failed calls, subscriptions and sockets

ASSUME LoopAssumption ==
  /\ \A ids \in SUBSET Panes : ids # NoReply
  /\ MaxStarts \in Nat /\ MaxChanges \in Nat
  /\ MaxLost \in Nat /\ MaxFailures \in Nat

VARIABLES
  agents,            \* Herdr: the panes that host an agent
  events,            \* membership events on their way
  running,
  generation,        \* 0 is null
  loopTask,          \* the generation whose promise it is, 0 is null
  stopTask,
  active,            \* the generation that owns `active`, 0 is null
  rebuildRequested, rebuildTimer,
  loop, sockets,     \* where run() is, and its sockets that are not destroyed
  starts, changes, lost, failures,    \* counters of the bounds
  missed             \* history: a membership check of hold failed

serverVars == <<agents, events, changes, lost>>
rebuildVars == <<rebuildRequested, rebuildTimer>>
controlVars == <<running, generation, loopTask, stopTask, starts>>
loopVars == <<loop, sockets, active, failures, missed>>
vars == <<serverVars, rebuildVars, controlVars, loopVars>>

Generations == 1 .. MaxStarts

\* holding, checking and checkRetry are the three awaits of holdSubscription().
Listings == {"listing", "checking"}
Wakeable == {"idle", "holding", "checkRetry"}
Points == Listings \cup Wakeable
            \cup {"unborn", "sleeping", "subscribing", "ended"}
Sockets == {"none", "pending", "open", "closed"}
Loops == [at : Points, ids : SUBSET Panes,
          reply : {NoReply} \cup SUBSET Panes, socket : Sockets]

TypeOK ==
  /\ agents \in SUBSET Panes /\ events \in Nat
  /\ running \in BOOLEAN
  /\ generation \in 0 .. MaxStarts
  /\ loopTask \in 0 .. MaxStarts
  /\ stopTask \in {"none", "pending", "done"}
  /\ active \in 0 .. MaxStarts
  /\ rebuildRequested \in BOOLEAN /\ rebuildTimer \in BOOLEAN
  /\ loop \in [Generations -> Loops]
  /\ sockets \in [Generations -> Nat]
  /\ starts \in 0 .. MaxStarts /\ changes \in 0 .. MaxChanges
  /\ lost \in 0 .. MaxLost /\ failures \in 0 .. MaxFailures
  /\ missed \in BOOLEAN

Init ==
  /\ agents \in SUBSET Panes /\ events = 0
  /\ running = FALSE /\ generation = 0 /\ loopTask = 0 /\ stopTask = "none"
  /\ active = 0
  /\ rebuildRequested = FALSE /\ rebuildTimer = FALSE
  /\ loop = [g \in Generations |->
       [at |-> "unborn", ids |-> {}, reply |-> NoReply, socket |-> "none"]]
  /\ sockets = [g \in Generations |-> 0]
  /\ starts = 0 /\ changes = 0 /\ lost = 0 /\ failures = 0
  /\ missed = FALSE

-----------------------------------------------------------------------------
(* Moves of a generation. *)

Current(g) == running /\ generation = g

Go(g, point) == loop' = [loop EXCEPT ![g].at = point]

\* Calls pane.list.
List(g, point) ==
  loop' = [loop EXCEPT ![g].at = point, ![g].reply = NoReply]

SocketLive(g) == loop[g].socket \in {"pending", "open"}

\* Mutant: a socket that stop() destroyed is counted again.
CloseSubscriptionTwice(g, point) ==
  /\ loop' = [loop EXCEPT ![g].at = point, ![g].socket = "closed",
                          ![g].reply = NoReply]
  /\ active' = IF active = g THEN 0 ELSE active
  /\ sockets' = [sockets EXCEPT ![g] = @ - 1]

\* The subscription is given up; close() of a closed one does nothing.
CloseSubscription(g, point) ==
  /\ loop' = [loop EXCEPT ![g].at = point, ![g].socket = "closed",
                          ![g].reply = NoReply]
  /\ active' = IF active = g THEN 0 ELSE active
  /\ sockets' = IF SocketLive(g) THEN [sockets EXCEPT ![g] = @ - 1] ELSE sockets

Fail == failures < MaxFailures /\ failures' = failures + 1

\* herdr.subscribe() for the listed panes opens a socket.
Subscribe(g) ==
  /\ loop' = [loop EXCEPT ![g].at = "subscribing", ![g].socket = "pending",
                          ![g].ids = loop[g].reply]
  /\ sockets' = [sockets EXCEPT ![g] = @ + 1]
  /\ active' = g

\* Mutant: the flag is looked at by the waiters only.
HoldUnchecked(g) == Go(g, "holding") /\ UNCHANGED rebuildRequested

\* The top of holdSubscription(): the flag is looked at before the sleep.
Hold(g) ==
  IF rebuildRequested
  THEN List(g, "checking") /\ rebuildRequested' = FALSE
  ELSE Go(g, "holding") /\ UNCHANGED rebuildRequested

\* A waiter resolves, by its timer or by a wake.
Resume(g) ==
  \/ /\ loop[g].at = "idle"
     /\ rebuildRequested' = FALSE
     /\ List(g, "listing")
  \/ /\ loop[g].at = "holding"
     /\ rebuildRequested' = FALSE
     /\ List(g, "checking")
  \/ /\ loop[g].at = "checkRetry"
     /\ Hold(g)

\* Nothing is about to run: a hold whose socket closed goes on before a timer.
NothingDue ==
  \A g \in Generations : loop[g].at = "holding" => loop[g].socket = "open"

-----------------------------------------------------------------------------
(* run(). *)

\* Herdr answers with the panes of this moment.
ListAnswered(g) ==
  /\ loop[g].at \in Listings /\ loop[g].reply = NoReply
  /\ loop' = [loop EXCEPT ![g].reply = agents]
  /\ UNCHANGED <<serverVars, rebuildVars, controlVars, sockets, active,
                 failures, missed>>

\* Mutant: the generation is not rechecked after pane.list.
ListReturnsUnchecked(g) ==
  /\ loop[g].at = "listing" /\ loop[g].reply # NoReply
  /\ loop[g].reply # {} /\ Subscribe(g)
  /\ UNCHANGED <<serverVars, rebuildVars, controlVars, failures, missed>>

ListReturns(g) ==
  /\ Current(g)
  /\ loop[g].at = "listing" /\ loop[g].reply # NoReply
  /\ \/ /\ loop[g].reply = {} /\ ~rebuildRequested
        /\ Go(g, "idle")
        /\ UNCHANGED <<rebuildRequested, sockets, active, failures>>
     \/ /\ loop[g].reply = {} /\ rebuildRequested
        /\ rebuildRequested' = FALSE
        /\ List(g, "listing")
        /\ UNCHANGED <<sockets, active, failures>>
     \/ /\ loop[g].reply # {}
        /\ Subscribe(g)
        /\ UNCHANGED <<rebuildRequested, failures>>
     \/ /\ loop[g].reply # {}                \* subscribe() throws
        /\ Fail
        /\ Go(g, "sleeping")
        /\ UNCHANGED <<rebuildRequested, sockets, active>>
  /\ missed' = FALSE
  /\ UNCHANGED <<serverVars, rebuildTimer, controlVars>>

ListFails(g) ==
  /\ Current(g)
  /\ loop[g].at = "listing"
  /\ Fail
  /\ Go(g, "sleeping")
  /\ UNCHANGED <<serverVars, rebuildVars, controlVars, sockets, active, missed>>

SubscribeReady(g) ==
  /\ Current(g)
  /\ loop[g].at = "subscribing"
  /\ IF rebuildRequested
     THEN loop' = [loop EXCEPT ![g].at = "checking", ![g].reply = NoReply,
                               ![g].socket = "open"]
     ELSE loop' = [loop EXCEPT ![g].at = "holding", ![g].socket = "open"]
  /\ rebuildRequested' = FALSE
  /\ UNCHANGED <<serverVars, rebuildTimer, controlVars, sockets, active,
                 failures, missed>>

\* Herdr refuses, the acknowledgement times out, or the socket breaks.
SubscribeFails(g) ==
  /\ Current(g)
  /\ loop[g].at = "subscribing"
  /\ Fail
  /\ CloseSubscription(g, "sleeping")
  /\ UNCHANGED <<serverVars, rebuildVars, controlVars, missed>>

\* The socket of an acknowledged subscription closes at its other end.
SocketCloses(g) ==
  /\ loop[g].socket = "open"
  /\ Fail
  /\ loop' = [loop EXCEPT ![g].socket = "closed"]
  /\ sockets' = [sockets EXCEPT ![g] = @ - 1]
  /\ UNCHANGED <<serverVars, rebuildVars, controlVars, active, missed>>

\* holdSubscription() returns "closed".
HoldEnds(g) ==
  /\ Current(g)
  /\ loop[g].at = "holding" /\ loop[g].socket = "closed"
  /\ CloseSubscription(g, "sleeping")
  /\ UNCHANGED <<serverVars, rebuildVars, controlVars, failures, missed>>

\* The listing of holdSubscription(): "rebuild", or the same panes again.
CheckReturns(g) ==
  /\ Current(g)
  /\ loop[g].at = "checking" /\ loop[g].reply # NoReply
  /\ missed' = FALSE
  /\ IF loop[g].reply = loop[g].ids
     THEN Hold(g) /\ UNCHANGED <<sockets, active>>
     ELSE CloseSubscription(g, "listing") /\ UNCHANGED rebuildRequested
  /\ UNCHANGED <<serverVars, rebuildTimer, controlVars, failures>>

\* Mutant: a failed check ends the loop.
CheckFailsForGood(g) ==
  /\ Current(g)
  /\ loop[g].at = "checking"
  /\ Fail
  /\ missed' = TRUE
  /\ CloseSubscription(g, "ended")
  /\ UNCHANGED <<serverVars, rebuildVars, controlVars>>

CheckFails(g) ==
  /\ Current(g)
  /\ loop[g].at = "checking"
  /\ Fail
  /\ missed' = TRUE
  /\ Go(g, "checkRetry")
  /\ UNCHANGED <<serverVars, rebuildVars, controlVars, sockets, active>>

\* The retry delays.
RetryTimerFires(g) ==
  /\ Current(g)
  /\ \/ /\ loop[g].at = "sleeping"
        /\ List(g, "listing")
        /\ UNCHANGED rebuildRequested
     \/ loop[g].at = "checkRetry" /\ Resume(g)
  /\ UNCHANGED <<serverVars, rebuildTimer, controlVars, sockets, active,
                 failures, missed>>

\* membershipPollMs, the fallback.
PollTimerFires(g) ==
  /\ Current(g) /\ NothingDue
  /\ loop[g].at \in {"idle", "holding"}
  /\ Resume(g)
  /\ UNCHANGED <<serverVars, rebuildTimer, controlVars, sockets, active,
                 failures, missed>>

\* Mutant: the acknowledgement is awaited without the cancellation.
CancelledExceptSubscribing(g) ==
  /\ ~Current(g)
  /\ loop[g].at \notin {"unborn", "ended", "subscribing"}
  /\ CloseSubscription(g, "ended")
  /\ rebuildRequested' = FALSE
  /\ UNCHANGED <<serverVars, rebuildTimer, controlVars, failures, missed>>

\* A retired generation returns from whatever it awaits.
Cancelled(g) ==
  /\ ~Current(g)
  /\ loop[g].at \notin {"unborn", "ended"}
  /\ CloseSubscription(g, "ended")
  /\ rebuildRequested' = IF loop[g].at = "idle" THEN FALSE ELSE rebuildRequested
  /\ UNCHANGED <<serverVars, rebuildTimer, controlVars, failures, missed>>

-----------------------------------------------------------------------------
(* start() and stop(). *)

start ==
  /\ ~running /\ loopTask = 0
  /\ starts < MaxStarts
  /\ starts' = starts + 1
  /\ running' = TRUE
  /\ stopTask' = "none"
  /\ generation' = starts + 1
  /\ loopTask' = starts + 1
  /\ List(starts + 1, "listing")
  /\ UNCHANGED <<serverVars, rebuildVars, sockets, active, failures, missed>>

stop ==
  /\ stopTask = "none"
  /\ ~(~running /\ loopTask = 0)
  /\ running' = FALSE
  /\ generation' = 0
  /\ rebuildRequested' = FALSE /\ rebuildTimer' = FALSE
  /\ IF active = 0
     THEN UNCHANGED <<loop, sockets, active>>
     ELSE CloseSubscription(active, loop[active].at)
  /\ stopTask' = "pending"
  /\ UNCHANGED <<serverVars, loopTask, starts, failures, missed>>

StopReturns ==
  /\ stopTask = "pending"
  /\ loop[loopTask].at = "ended"
  /\ loopTask' = 0
  /\ stopTask' = "done"
  /\ UNCHANGED <<serverVars, rebuildVars, running, generation, starts, loopVars>>

-----------------------------------------------------------------------------
(* Membership events. *)

AgentsChange ==
  /\ changes < MaxChanges
  /\ changes' = changes + 1
  /\ agents' \in (SUBSET Panes) \ {agents}
  /\ events' = events + 1
  /\ UNCHANGED <<lost, rebuildVars, controlVars, loopVars>>

\* requestRebuild()
EventArrives ==
  /\ events > 0
  /\ events' = events - 1
  /\ rebuildRequested' = (running \/ rebuildRequested)
  /\ rebuildTimer' = (running \/ rebuildTimer)
  /\ UNCHANGED <<agents, changes, lost, controlVars, loopVars>>

EventIsLost ==
  /\ events > 0 /\ lost < MaxLost
  /\ events' = events - 1
  /\ lost' = lost + 1
  /\ UNCHANGED <<agents, changes, rebuildVars, controlVars, loopVars>>

\* Mutant: the flag is cleared with the wake, waiter or not.
RebuildTimerClearsFlag ==
  /\ rebuildTimer /\ NothingDue
  /\ rebuildTimer' = FALSE
  /\ \/ \E g \in Generations : Current(g) /\ Resume(g)
     \/ /\ \A g \in Generations : Current(g) => loop[g].at \notin Wakeable
        /\ rebuildRequested' = FALSE
        /\ UNCHANGED loop
  /\ UNCHANGED <<serverVars, controlVars, sockets, active, failures, missed>>

\* The debounce ends: whoever waits is woken, otherwise only the flag tells.
RebuildTimerFires ==
  /\ rebuildTimer /\ NothingDue
  /\ rebuildTimer' = FALSE
  /\ \/ \E g \in Generations : Current(g) /\ Resume(g)
     \/ /\ \A g \in Generations : Current(g) => loop[g].at \notin Wakeable
        /\ UNCHANGED <<rebuildRequested, loop>>
  /\ UNCHANGED <<serverVars, controlVars, sockets, active, failures, missed>>

-----------------------------------------------------------------------------
Herdr ==
  \/ AgentsChange \/ EventArrives \/ EventIsLost
  \/ \E g \in Generations : ListAnswered(g) \/ SocketCloses(g)

Step(g) ==
  \/ ListReturns(g) \/ ListFails(g) \/ SubscribeReady(g) \/ SubscribeFails(g)
  \/ HoldEnds(g) \/ CheckReturns(g) \/ CheckFails(g) \/ RetryTimerFires(g)
  \/ Cancelled(g)

Next ==
  \/ start \/ stop \/ StopReturns
  \/ Herdr
  \/ RebuildTimerFires
  \/ \E g \in Generations : Step(g) \/ PollTimerFires(g)

Safety == Init /\ [][Next]_vars

\* Calls and acknowledgements end (each has a timeout), timers fire and events
\* arrive.  The fallback poll is left out: it is no part of the promise.
Promptly ==
  /\ WF_vars(EventArrives) /\ WF_vars(RebuildTimerFires) /\ WF_vars(StopReturns)
  /\ \A g \in Generations : WF_vars(ListAnswered(g)) /\ WF_vars(Step(g))

Spec == Safety /\ Promptly

-----------------------------------------------------------------------------
(* Properties. *)

\* The agent panes that the loop takes for granted where it sleeps until an
\* event or the fallback poll.
Believed(g) == IF loop[g].at = "idle" THEN {} ELSE loop[g].ids
Asleep(g) == Current(g) /\ loop[g].at \in {"idle", "holding"}

\* A change whose event has arrived is never slept over: a loop that sleeps
\* with stale panes will be woken by the debounce timer, whatever it was doing
\* when the events came (unless a check of the panes failed, see below).
WakeSurvives ==
  \A g \in Generations :
    Asleep(g) /\ Believed(g) # agents /\ events = 0 /\ lost = 0 /\ ~missed =>
      rebuildRequested /\ rebuildTimer

\* The comment in holdSubscription(): a wake "must not be lost, otherwise the
\* rebuild would stall until the fallback poll", here for every wake.
EveryWakeSurvives ==
  \A g \in Generations :
    Asleep(g) /\ Believed(g) # agents /\ events = 0 /\ lost = 0 =>
      rebuildRequested /\ rebuildTimer

\* At most one status subscription is open, over rebuilds, retries and
\* restarts: Herdr sends no status twice and no socket is left behind.
OneSubscription ==
  \A g, h \in Generations :
    /\ sockets[g] <= 1
    /\ sockets[g] = 1 /\ sockets[h] = 1 => g = h

\* Once stop() was called no socket is open and none is opened by what was
\* suspended then; when it has returned no loop is left.
StopIsFinal ==
  /\ stopTask # "none" => \A g \in Generations : sockets[g] = 0
  /\ stopTask = "done" =>
       \A g \in Generations : loop[g].at \in {"unborn", "ended"}

phaseNow ==
  IF running THEN "running" ELSE IF stopTask = "pending" THEN "stopping" ELSE "stopped"

openNow ==
  {[panes |-> loop[g].ids, acked |-> loop[g].socket = "open"] :
     g \in {h \in Generations : sockets[h] > 0}}

Exclusive == INSTANCE ExclusiveSubscription WITH phase <- phaseNow, open <- openNow

\* A new subscription is opened only when the one before it was destroyed and
\* the service still runs, over rebuilds, failures, stops and restarts that meet
\* run() in any await; and its panes are those it was opened for until then.
SubscriptionsAreExclusive == Exclusive!Spec

\* Subscribed to exactly the panes that host an agent.
Covered ==
  \E g \in Generations :
    /\ Current(g)
    /\ \/ agents = {} /\ loop[g].at = "idle"
       \/ agents = loop[g].ids /\ loop[g].socket = "open"

\* A running loop gets to the right panes again after every change, without the
\* fallback poll as long as no event is lost and no check fails.
MembershipFollowed == []<>(~running \/ Covered \/ missed \/ lost > 0)

\* If the fallback poll does fire, it does so always.
MembershipRecovers ==
  (\A g \in Generations : WF_vars(PollTimerFires(g)))
    => []<>(~running \/ Covered)

\* stop() returns, in whatever wait or call it meets the loop.
StopCompletes == stopTask = "pending" ~> stopTask = "done"

-----------------------------------------------------------------------------
(* The inductive invariant behind the safety properties: which generation    *)
(* may run, whose sockets are open, and what a stale view is followed by.    *)

\* Only the generation that stop() would await is under way.
ControlInv ==
  /\ generation = IF running THEN starts ELSE 0
  /\ running => stopTask = "none" /\ loopTask = starts /\ starts # 0
  /\ stopTask = "none" => running \/ loopTask = 0
  /\ stopTask = "done" => loopTask = 0
  /\ stopTask = "pending" => loopTask # 0
  /\ \A g \in Generations :
       /\ g > starts => loop[g].at = "unborn"
       /\ g <= starts /\ g # loopTask => loop[g].at = "ended"

\* Open sockets belong to `active`, and only the points behind subscribe()
\* have one.
SocketInv ==
  /\ ~running => active = 0
  /\ \A g \in Generations :
       /\ sockets[g] = IF SocketLive(g) THEN 1 ELSE 0
       /\ SocketLive(g) => /\ active = g
                           /\ loop[g].at \in {"subscribing", "holding",
                                              "checking", "checkRetry"}
       /\ Current(g) /\ loop[g].at = "subscribing" =>
            loop[g].socket = "pending"

Told == events > 0 \/ lost > 0 \/ rebuildRequested

\* Whatever a current loop goes by is right, or it has been told otherwise.
Informed(g) ==
  /\ loop[g].at \in Listings => loop[g].reply \in {NoReply, agents} \/ Told
  /\ loop[g].at = "subscribing" => loop[g].ids = agents \/ Told
  /\ loop[g].at = "idle" => agents = {} \/ Told
  /\ loop[g].at = "holding" => loop[g].ids = agents \/ Told \/ missed
  /\ loop[g].at = "checkRetry" => missed
  /\ loop[g].at \in {"idle", "holding"} /\ rebuildRequested => rebuildTimer

WakeInv == \A g \in Generations : Current(g) => Informed(g)

IInv == TypeOK /\ ControlInv /\ SocketInv /\ WakeInv
=============================================================================
