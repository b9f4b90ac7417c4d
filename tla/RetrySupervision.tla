-------------------------- MODULE RetrySupervision --------------------------
(***************************************************************************)
(* server/src/connections/profile-service.ts: the supervision of one SSH   *)
(* connection.  Failures of its runtime schedule retries with a timer;     *)
(* connect, disconnect and shutdown cancel them.                           *)
(*                                                                         *)
(* The manager is the one of ConnectionManager.tla, reduced to what the    *)
(* service can tell apart: the status it publishes, the start and stop     *)
(* tasks, and the calls that await them.  A segment of JavaScript is one   *)
(* action.  Continuations of settled promises run before any timer, socket *)
(* or process event (Idle), in any order among themselves.                 *)
(***************************************************************************)
EXTENDS Naturals

CONSTANTS
  Calls,         \* slots for startManaged() and runScheduledRetry() in flight
  NoTimer,
  MaxAttempts,   \* retryMaxAttempts
  MaxCommands,   \* bound: connect and disconnect requests
  MaxResets      \* bound: how often the stable timer fires

ASSUME RetryAssumption ==
  /\ MaxAttempts \in Nat \ {0}
  /\ MaxCommands \in Nat /\ MaxResets \in Nat
  /\ NoTimer \notin Nat
  /\ Calls \cap {"none", "boot", "disconnect"} = {}

VARIABLES
  state, generation,    \* what manager.status() reports
  runtime,              \* the manager's entry holds a runtime
  startTask, startError,
  stopTask, retireGeneration, retireState,
  enabled, attempt, token, retryTimer, stableTimer,   \* the RetryState
  supervisionStopped,   \* set together with the manager's stopAllTask
  calls,                \* where each startManaged() or retry is suspended
  stops,                \* the same for the stop() of disconnect and shutdown
  mutation,             \* the operation at the head of mutationQueue
  commands, resets,     \* counters of the bounds
  wanted,               \* history: the user wants the connection up
  exitCharged,          \* history: the last start's exit counted an attempt
  tried,                \* history: retries made, as attempt counts them
  final                 \* history: why the last failure needs no answer

managerVars == <<state, generation, runtime, startTask, startError, stopTask,
                 retireGeneration, retireState>>
retryVars == <<enabled, attempt, token, retryTimer, stableTimer>>
boundVars == <<commands, resets>>
historyVars == <<wanted, exitCharged, tried, final>>
vars == <<managerVars, retryVars, supervisionStopped, calls, stops, mutation,
          boundVars, historyVars>>

Errors == {"retryable", "permanent"}
States == {"disconnected", "connecting", "ready", "reconnecting", "error",
           "stopping"}
Failed == {"error", "reconnecting"}
Stoppers == {"disconnect", "shutdown"}

\* cleanup and queued wait for the stop task, starting for the start task; the
\* other points are continuations about to run.
Waiting == {"none", "cleanup", "queued", "starting"}
Runnable == {"cleaned", "due", "fulfilled", "rejected"}

TypeOK ==
  /\ state \in States /\ generation \in Nat /\ runtime \in BOOLEAN
  /\ startTask \in {"none", "current", "retired", "failing"}
  /\ startError \in Errors
  /\ stopTask \in {"none", "stop", "retire"}
  /\ retireGeneration \in Nat /\ retireState \in States
  /\ enabled \in BOOLEAN /\ attempt \in 0 .. MaxAttempts /\ token \in Nat
  /\ retryTimer \in Nat \cup {NoTimer} /\ stableTimer \in Nat \cup {NoTimer}
  /\ supervisionStopped \in BOOLEAN
  /\ calls \in [Calls -> [at : Waiting \cup Runnable, token : Nat,
                          before : Nat, error : Errors]]
  /\ stops \in [Stoppers -> {"none", "queued", "due", "awaiting", "settled"}]
  /\ mutation \in Calls \cup {"none", "boot", "disconnect"}
  /\ commands \in 0 .. MaxCommands /\ resets \in 0 .. MaxResets
  /\ wanted \in BOOLEAN /\ exitCharged \in BOOLEAN /\ tried \in Nat
  /\ final \in {"none", "exhausted", "permanent"}

NoCall == [at |-> "none", token |-> 0, before |-> 0, error |-> "retryable"]

\* startConfigured() is about to run; it is no operation of the mutation queue.
Init ==
  /\ state = "disconnected" /\ generation = 0 /\ runtime = FALSE
  /\ startTask = "none" /\ startError = "retryable"
  /\ stopTask = "none" /\ retireGeneration = 0 /\ retireState = "error"
  /\ enabled = FALSE /\ attempt = 0 /\ token = 0
  /\ retryTimer = NoTimer /\ stableTimer = NoTimer
  /\ supervisionStopped = FALSE
  /\ calls = [c \in Calls |-> NoCall]
  /\ stops = [k \in Stoppers |-> "none"]
  /\ mutation = "boot"
  /\ commands = 0 /\ resets = 0
  /\ wanted = FALSE /\ exitCharged = FALSE /\ tried = 0
  /\ final = "none"

\* No promise continuation is pending.
Idle ==
  /\ \A c \in Calls : calls[c].at \notin Runnable
  /\ \A k \in Stoppers : stops[k] # "due"
  /\ stops["disconnect"] # "settled"

-----------------------------------------------------------------------------
(* The retry state. *)

CancelTimers == retryTimer' = NoTimer /\ stableTimer' = NoTimer

\* Mutant: the timers of the last period stay armed.
enableRetryKeepingTimers ==
  IF supervisionStopped THEN UNCHANGED retryVars
  ELSE /\ attempt' = 0
       /\ enabled' = TRUE
       /\ UNCHANGED <<token, retryTimer, stableTimer>>

enableRetry ==
  IF supervisionStopped THEN UNCHANGED retryVars
  ELSE /\ token' = token + 1
       /\ CancelTimers
       /\ attempt' = 0
       /\ enabled' = TRUE

disableRetry ==
  /\ enabled' = FALSE
  /\ token' = token + 1
  /\ CancelTimers
  /\ UNCHANGED attempt

\* Mutant: the attempts are not limited.
willRetryForever(error) ==
  ~supervisionStopped /\ enabled /\ error = "retryable"

\* Mutant: a disabled connection is retried.
willRetryDisabled(error) ==
  ~supervisionStopped /\ attempt < MaxAttempts /\ error = "retryable"

willRetry(error) ==
  /\ ~supervisionStopped
  /\ enabled /\ attempt < MaxAttempts
  /\ error = "retryable"

\* scheduleRetry(), called while the manager's status is s.
scheduleRetry(error, s) ==
  /\ UNCHANGED <<enabled, token>>
  /\ \/ /\ willRetry(error) /\ s \in Failed
        /\ state' = "reconnecting"
        /\ attempt' = attempt + 1
        /\ retryTimer' = token
        /\ stableTimer' = NoTimer
     \/ /\ willRetry(error) /\ s \notin Failed
        /\ state' = s
        /\ CancelTimers
        /\ UNCHANGED attempt
     \/ /\ ~willRetry(error)
        /\ state' = s
        /\ UNCHANGED <<attempt, retryTimer, stableTimer>>

Finality(error) ==
  CASE error = "permanent" -> "permanent"
    [] error # "permanent" /\ final = "none" /\ attempt = MaxAttempts -> "exhausted"
    [] OTHER -> final

-----------------------------------------------------------------------------
(* The manager's start() and stop(), for the calls of this service.        *)

\* The factory returns a runtime, or throws.
Begin(c, call) ==
  /\ generation' = generation + 1
  /\ exitCharged' = FALSE
  /\ \/ /\ state' = "connecting"
        /\ runtime' = TRUE
        /\ startTask' = "current"
        /\ calls' = [calls EXCEPT ![c] = [call EXCEPT !.at = "starting"]]
     \/ /\ state' = "error"
        /\ calls' = [calls EXCEPT ![c] = [call EXCEPT !.at = "rejected"]]
        /\ UNCHANGED <<runtime, startTask>>
  /\ UNCHANGED <<startError, stopTask, retireGeneration, retireState>>

\* Where a start() that begins nothing leaves its caller.
JoinedAt ==
  IF supervisionStopped THEN "rejected"
  ELSE IF state = "ready" THEN "fulfilled"
  ELSE IF stopTask # "none" THEN "queued"
  ELSE "starting"

managerStart(c, call) ==
  IF ~supervisionStopped /\ state # "ready" /\ stopTask = "none"
       /\ startTask = "none"
  THEN Begin(c, call)
  ELSE /\ calls' = [calls EXCEPT ![c] = [call EXCEPT !.at = JoinedAt]]
       /\ UNCHANGED <<managerVars, exitCharged>>

\* Mutant: a stop leaves it to the next start to count the generation.
managerStopUncounted(k) ==
  \/ /\ stopTask # "none"
     /\ stops' = [stops EXCEPT ![k] =
                    IF state \in Failed THEN "queued" ELSE "awaiting"]
     /\ UNCHANGED managerVars
  \/ /\ stopTask = "none"
     /\ LET running == runtime \/ startTask # "none"
        IN  /\ state' = IF running THEN "stopping" ELSE "disconnected"
            /\ stopTask' = IF running THEN "stop" ELSE "none"
            /\ stops' = [stops EXCEPT ![k] = IF running THEN "awaiting" ELSE "settled"]
     /\ startTask' = IF startTask = "current" THEN "retired" ELSE startTask
     /\ UNCHANGED <<generation, runtime, startError, retireGeneration, retireState>>

managerStop(k) ==
  \/ /\ stopTask # "none"
     /\ stops' = [stops EXCEPT ![k] =
                    IF state \in Failed THEN "queued" ELSE "awaiting"]
     /\ UNCHANGED managerVars
  \/ /\ stopTask = "none" /\ ~runtime /\ startTask = "none"
     /\ state' = "disconnected"
     /\ stops' = [stops EXCEPT ![k] = "settled"]
     /\ UNCHANGED <<generation, runtime, startTask, startError, stopTask,
                    retireGeneration, retireState>>
  \/ /\ stopTask = "none" /\ (runtime \/ startTask # "none")
     /\ generation' = generation + 1
     /\ state' = "stopping"
     /\ stopTask' = "stop"
     /\ startTask' = IF startTask = "current" THEN "retired" ELSE startTask
     /\ stops' = [stops EXCEPT ![k] = "awaiting"]
     /\ UNCHANGED <<runtime, startError, retireGeneration, retireState>>

\* retireFailedRuntime(), called while status s and generation g are current.
Retire(s, g) ==
  /\ stopTask' = "retire"
  /\ retireState' = s
  /\ retireGeneration' = g

-----------------------------------------------------------------------------
(* The service's operations. *)

Free(c) == calls[c].at = "none"

\* startManaged(): enableRetry() has run when resetRetry is set.
startManaged(c) == managerStart(c, [NoCall EXCEPT !.before = generation])

\* startConfigured() at startup, and connect() once its turn has come.
connect(c) ==
  /\ Idle /\ Free(c)
  /\ \/ mutation = "boot" /\ mutation' = "none" /\ UNCHANGED commands
     \/ /\ mutation = "none" /\ mutation' = c
        /\ commands < MaxCommands /\ commands' = commands + 1
  /\ enableRetry
  /\ startManaged(c)
  /\ wanted' = TRUE /\ final' = "none"
  /\ tried' = IF supervisionStopped THEN tried ELSE 0
  /\ UNCHANGED <<supervisionStopped, stops, resets>>

disconnect ==
  /\ Idle /\ mutation = "none"
  /\ commands < MaxCommands /\ commands' = commands + 1
  /\ mutation' = "disconnect"
  /\ disableRetry
  /\ managerStop("disconnect")
  /\ UNCHANGED <<supervisionStopped, calls, resets, historyVars>>

DisconnectReturns ==
  /\ stops["disconnect"] = "settled"
  /\ stops' = [stops EXCEPT !["disconnect"] = "none"]
  /\ mutation' = "none"
  /\ wanted' = FALSE
  /\ UNCHANGED <<managerVars, retryVars, supervisionStopped, calls, boundVars,
                 exitCharged, tried, final>>

\* stopManagerOnce(): stopSupervision(), then the manager's stopAll().
stopSupervision ==
  /\ Idle /\ ~supervisionStopped
  /\ supervisionStopped' = TRUE
  /\ disableRetry
  /\ managerStop("shutdown")
  /\ wanted' = FALSE
  /\ UNCHANGED <<calls, mutation, boundVars, exitCharged, tried, final>>

\* The tunnel's ssh process exits while its runtime is current: onTransportExit
\* reports the error to the manager and calls runtimeFailed(), in one segment.
TransportExit(error) ==
  /\ Idle
  /\ startTask = "current" \/ state = "ready"
  /\ generation' = generation + 1
  /\ startTask' = IF startTask = "current" THEN "retired" ELSE startTask
  /\ scheduleRetry(error, IF willRetry(error) THEN "reconnecting" ELSE "error")
  /\ Retire(state', generation')
  /\ exitCharged' = willRetry(error)
  /\ final' = Finality(error)
  /\ UNCHANGED <<runtime, startError, supervisionStopped, calls, stops,
                 mutation, boundVars, wanted, tried>>

\* The retry timer: runScheduledRetry() up to its first await.
RetryTimerFires(c) ==
  /\ Idle /\ Free(c)
  /\ retryTimer # NoTimer /\ enabled /\ token = retryTimer
  /\ retryTimer' = NoTimer
  /\ tried' = tried + 1
  /\ LET retiring == state \in Failed /\ (stopTask # "none" \/ runtime)
     IN  calls' = [calls EXCEPT ![c] =
                     [NoCall EXCEPT !.at = IF retiring THEN "cleanup" ELSE "cleaned",
                                    !.token = token]]
  /\ IF state \in Failed /\ stopTask = "none" /\ runtime
     THEN Retire(state, generation)
     ELSE UNCHANGED <<stopTask, retireState, retireGeneration>>
  /\ UNCHANGED <<state, generation, runtime, startTask, startError, enabled,
                 attempt, token, stableTimer, supervisionStopped, stops,
                 mutation, boundVars, wanted, exitCharged, final>>

EndCall(c) ==
  /\ calls' = [calls EXCEPT ![c] = NoCall]
  /\ mutation' = IF mutation = c THEN "none" ELSE mutation

\* runScheduledRetry() behind its await: the token is checked again.  What it
\* awaited is a retirement, which never rejects: the stop of a failed connection
\* turns its state to stopping before it can be awaited here.
RetryCleaned(c) ==
  /\ calls[c].at = "cleaned"
  /\ \/ /\ enabled /\ token = calls[c].token
        /\ startManaged(c)
        /\ UNCHANGED mutation
     \/ /\ ~(enabled /\ token = calls[c].token)
        /\ EndCall(c)
        /\ UNCHANGED <<managerVars, exitCharged>>
  /\ UNCHANGED <<retryVars, supervisionStopped, stops, boundVars, wanted,
                 tried, final>>

\* start() calls itself again once the stop task it was queued behind is done.
StartDue(c) ==
  /\ calls[c].at = "due"
  /\ managerStart(c, calls[c])
  /\ UNCHANGED <<retryVars, supervisionStopped, stops, mutation, boundVars,
                 wanted, tried, final>>

StopDue(k) ==
  /\ stops[k] = "due"
  /\ managerStop(k)
  /\ UNCHANGED <<retryVars, supervisionStopped, calls, mutation, boundVars,
                 historyVars>>

\* startManaged() behind its await: markStable(), or the failure's retry.
StartFulfilled(c) ==
  /\ calls[c].at = "fulfilled"
  /\ stableTimer' = IF state = "ready" /\ enabled /\ attempt # 0 THEN token
                    ELSE stableTimer
  /\ EndCall(c)
  /\ UNCHANGED <<managerVars, enabled, attempt, token, retryTimer,
                 supervisionStopped, stops, boundVars, historyVars>>

\* Mutants: the report of a failure is recognised by the generation alone, or
\* not at all.
generationAdvanced(c) == generation > calls[c].before
neverReported(c) == FALSE

transportAlreadyReported(c) ==
  state = "reconnecting" /\ generation > calls[c].before

StartRejected(c) ==
  /\ calls[c].at = "rejected"
  /\ IF transportAlreadyReported(c)
     THEN UNCHANGED <<retryVars, state>>
     ELSE scheduleRetry(calls[c].error, state)
  /\ EndCall(c)
  /\ final' = IF enabled THEN Finality(calls[c].error) ELSE final
  /\ UNCHANGED <<generation, runtime, startTask, startError, stopTask,
                 retireGeneration, retireState, supervisionStopped, stops,
                 boundVars, wanted, exitCharged, tried>>

\* A retry timer beside it is older, and its delay is at most as long
\* (retryMaxDelayMs <= retryStableResetMs): it fires first.
StableTimerFires ==
  /\ Idle /\ retryTimer = NoTimer
  /\ stableTimer # NoTimer
  /\ resets < MaxResets /\ resets' = resets + 1
  /\ enabled /\ token = stableTimer
  /\ attempt' = 0
  /\ stableTimer' = NoTimer
  /\ tried' = 0
  /\ UNCHANGED <<managerVars, enabled, token, retryTimer, supervisionStopped,
                 calls, stops, mutation, commands, wanted, exitCharged,
                 final>>

-----------------------------------------------------------------------------
(* The manager's tasks. *)

SettleStart(to, error) ==
  calls' = [c \in Calls |->
              IF calls[c].at = "starting"
              THEN [calls[c] EXCEPT !.at = to, !.error = error] ELSE calls[c]]

\* Both promises of the runtime resolve.  A start whose runtime was retired by
\* an exit or a stop returns without effect; the stop task owns the runtime.
StartResolves ==
  /\ Idle
  /\ startTask \in {"current", "retired"}
  /\ startTask' = "none"
  /\ state' = IF startTask = "current" THEN "ready" ELSE state
  /\ SettleStart("fulfilled", "retryable")
  /\ UNCHANGED <<generation, runtime, startError, stopTask, retireGeneration,
                 retireState, retryVars, supervisionStopped, stops, mutation,
                 boundVars, historyVars>>

\* One of them rejects: a current runtime is stopped before the start rejects.
StartFails(error) ==
  /\ Idle
  /\ \/ /\ startTask = "current"
        /\ generation' = generation + 1
        /\ state' = "error"
        /\ startTask' = "failing"
        /\ startError' = error
        /\ UNCHANGED calls
     \/ /\ startTask = "retired"
        /\ startTask' = "none"
        /\ SettleStart("rejected", error)
        /\ UNCHANGED <<generation, state, startError>>
  /\ UNCHANGED <<runtime, stopTask, retireGeneration, retireState, retryVars,
                 supervisionStopped, stops, mutation, boundVars, historyVars>>

FailedStartCleaned ==
  /\ Idle
  /\ startTask = "failing"
  /\ startTask' = "none"
  /\ runtime' = FALSE
  /\ SettleStart("rejected", startError)
  /\ UNCHANGED <<state, generation, startError, stopTask, retireGeneration,
                 retireState, retryVars, supervisionStopped, stops, mutation,
                 boundVars, historyVars>>

\* Mutant: a retry that awaits the cleanup is not resumed.
StopEndsWithoutRetries(clean) ==
  /\ calls' = [c \in Calls |->
       [calls[c] EXCEPT !.at =
          IF @ # "queued" THEN @ ELSE IF clean THEN "due" ELSE "rejected"]]
  /\ stops' = [k \in Stoppers |->
       CASE stops[k] = "awaiting" -> "settled"
         [] stops[k] = "queued" -> IF clean THEN "due" ELSE "settled"
         [] OTHER -> stops[k]]
  /\ stopTask' = "none"
  /\ runtime' = FALSE

\* The stop task ends.  It rejects when the runtime's stop did, with the calls
\* queued behind it; a retirement never rejects.
StopEnds(clean) ==
  /\ calls' = [c \in Calls |->
       [calls[c] EXCEPT !.at =
          CASE @ = "queued" -> IF clean THEN "due" ELSE "rejected"
            [] @ = "cleanup" -> "cleaned"
            [] OTHER -> @]]
  /\ stops' = [k \in Stoppers |->
       CASE stops[k] = "awaiting" -> "settled"
         [] stops[k] = "queued" -> IF clean THEN "due" ELSE "settled"
         [] OTHER -> stops[k]]
  /\ stopTask' = "none"
  /\ runtime' = FALSE

StopSettles(clean) ==
  /\ Idle
  /\ stopTask = "stop" /\ startTask = "none"
  /\ StopEnds(clean)
  /\ state' = IF clean THEN "disconnected" ELSE "error"
  /\ UNCHANGED <<generation, startTask, startError, retireGeneration,
                 retireState, retryVars, supervisionStopped, mutation,
                 boundVars, historyVars>>

RetireSettles ==
  /\ Idle
  /\ stopTask = "retire" /\ startTask = "none"
  /\ StopEnds(TRUE)
  /\ state' = IF generation = retireGeneration /\ state \in Failed
              THEN retireState ELSE state
  /\ UNCHANGED <<generation, startTask, startError, retireGeneration,
                 retireState, retryVars, supervisionStopped, mutation,
                 boundVars, historyVars>>

-----------------------------------------------------------------------------
ServiceSteps ==
  \/ disconnect \/ DisconnectReturns \/ stopSupervision \/ StableTimerFires
  \/ \E c \in Calls : connect(c) \/ RetryTimerFires(c)

Continuations ==
  \/ \E c \in Calls : \/ RetryCleaned(c) \/ StartDue(c)
                      \/ StartFulfilled(c) \/ StartRejected(c)
  \/ \E k \in Stoppers : StopDue(k)

ManagerSteps ==
  \/ StartResolves \/ FailedStartCleaned \/ RetireSettles
  \/ \E error \in Errors : StartFails(error) \/ TransportExit(error)
  \/ \E clean \in BOOLEAN : StopSettles(clean)

Next == ServiceSteps \/ Continuations \/ ManagerSteps

Safety == Init /\ [][Next]_vars

\* Promises settle (starts and stops are bounded by timeouts), continuations
\* run, and an armed retry timer fires.
Fairness ==
  /\ WF_vars(Continuations) /\ WF_vars(DisconnectReturns)
  /\ WF_vars(StartResolves \/ \E error \in Errors : StartFails(error))
  /\ WF_vars(FailedStartCleaned) /\ WF_vars(RetireSettles)
  /\ WF_vars(\E clean \in BOOLEAN : StopSettles(clean))
  /\ WF_vars(\E c \in Calls : RetryTimerFires(c))

Spec == Safety /\ Fairness

-----------------------------------------------------------------------------
(* Properties. *)

InFlight == \E c \in Calls : calls[c].at # "none"

\* An exit of the tunnel during startup is reported twice, by its event and by
\* the start that rejects behind it, and costs one attempt.
ExitChargedOnce ==
  [][exitCharged /\ exitCharged' => attempt' <= attempt]_vars

\* Between a connect and the next, or a stable period, no more retries are made
\* than MaxAttempts, however failures, exits and late rejections interleave.
RetriesAreBounded == tried <= attempt

\* Once a disconnect has returned, and until the next connect, no late failure,
\* retry or start brings the connection back.
DisconnectHolds ==
  ~wanted /\ mutation # "boot" =>
    state \notin {"connecting", "ready"} /\ retryTimer = NoTimer

\* A temporary failure of a supervised connection is answered: unless the last
\* failure was permanent or came when the attempts were used up, a retry is
\* armed, or something still in flight will arm one.
FailureIsAnswered ==
  state = "error" /\ enabled /\ final = "none" =>
     InFlight \/ startTask # "none" \/ retryTimer # NoTimer

\* The supervised connection never stays on the way: a reconnecting status ends
\* in ready, in a disconnect, or in an error when the attempts are used up.
ReconnectingEnds == state = "reconnecting" ~> state # "reconnecting"

\* src/docs/ARCHITECTURE.md on failures that are not transient:
\* "authentication, host-key, and permanent protocol failures do not retry"
PermanentFailureIsFinal == final = "permanent" => retryTimer = NoTimer

Status == INSTANCE ConnectionStatus

\* With retries, disconnects and the shutdown acting on it as well, the status
\* of the connection keeps to the contract that ConnectionManager implements.
StatusIsOrderly == Status!Spec

-----------------------------------------------------------------------------
(* The inductive invariant behind them. *)

\* What the manager's tasks say of its status.
ManagerInv ==
  /\ state = "connecting" <=> startTask = "current"
  /\ state = "ready" => startTask = "none"
  /\ state \in {"connecting", "ready"} => runtime
  /\ startTask = "retired" => stopTask # "none"
  /\ stopTask = "stop" => state = "stopping"
  /\ stopTask = "retire" => state \in Failed /\ retireState \in Failed

\* Nothing has begun before startConfigured().
BootInv ==
  mutation = "boot" =>
    /\ state = "disconnected" /\ startTask = "none" /\ stopTask = "none"
    /\ ~runtime /\ retryTimer = NoTimer
    /\ \A c \in Calls : calls[c].at = "none"

\* A connection that is stopped, or being stopped, is down and not supervised.
DownInv ==
  supervisionStopped \/ ~wanted \/ mutation = "disconnect" =>
    /\ ~enabled /\ retryTimer = NoTimer
    /\ state \notin {"connecting", "ready"}

\* A stop task is the disconnect's at the head of the queue, or the shutdown's.
StopInv ==
  /\ mutation = "disconnect" <=> stops["disconnect"] # "none"
  /\ stops["shutdown"] # "none" => supervisionStopped
  /\ stopTask = "stop" =>
       \/ supervisionStopped
       \/ mutation = "disconnect" /\ stops["disconnect"] # "settled"

\* Only a connect at the head of the queue waits for the end of a stop task; a
\* retry comes when there is none.
CallInv ==
  /\ mutation \in Calls => wanted \/ supervisionStopped
  /\ \A c \in Calls :
       /\ calls[c].at \in {"queued", "due"} => mutation = c \/ supervisionStopped
       /\ calls[c].at = "cleaned" => stopTask # "retire"
       /\ calls[c].before <= generation

\* An armed retry has been counted, and is still to be made.
BoundInv == tried <= attempt /\ (retryTimer # NoTimer => tried < attempt)

\* After an exit that counted an attempt, the starts it interrupted find it
\* reported already.
ExitInv ==
  exitCharged =>
    /\ startTask \in {"none", "retired"} /\ state # "ready"
    /\ state = "error" => ~enabled
    /\ stopTask = "retire" => state = "reconnecting" /\ retireState = "reconnecting"
    /\ \A c \in Calls :
         /\ calls[c].at = "starting" => generation > calls[c].before
         /\ calls[c].at = "rejected" /\ enabled => generation > calls[c].before

\* A start is awaited by a call; a failing one has not been answered yet.
StartInv ==
  /\ startTask # "none" => \E c \in Calls : calls[c].at = "starting"
  /\ startTask = "failing" =>
       /\ state # "reconnecting"
       /\ supervisionStopped \/ \A c \in Calls : calls[c].at # "rejected"

\* A call that will start the connection, or report a failure that counts.
Answering(c) ==
  \/ calls[c].at \in {"cleanup", "cleaned"} /\ calls[c].token = token
  \/ calls[c].at \in {"queued", "due"}
  \/ state = "error" /\ calls[c].at = "rejected"
  \/ state = "error" /\ calls[c].at = "starting" /\ startTask = "failing"

AnswerInv ==
  state \in Failed /\ enabled /\ final = "none" =>
    retryTimer # NoTimer \/ \E c \in Calls : Answering(c)

IInv ==
  /\ TypeOK /\ ManagerInv /\ BootInv /\ DownInv /\ StopInv /\ CallInv
  /\ BoundInv /\ ExitInv /\ StartInv /\ AnswerInv
=============================================================================
