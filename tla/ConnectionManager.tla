------------------------- MODULE ConnectionManager -------------------------
(***************************************************************************)
(* server/src/connections/manager.ts: the lifecycle of one connection id   *)
(* in the ConnectionManager.  Entries of different ids share nothing but   *)
(* the default id and the manager-wide stopAllTask, so the model keeps one *)
(* entry, with isDefault saying whether the default is this id.            *)
(*                                                                         *)
(* JavaScript runs between two awaits without interruption: an action is   *)
(* such a segment.  A promise that a segment awaits is a program counter   *)
(* (startTask, stopTask, awaits), and the callbacks queued behind stopTask *)
(* are sequences of calls (waiters until it settles, due afterwards).      *)
(***************************************************************************)
EXTENDS Naturals, Sequences

CONSTANTS
  Runtimes,        \* identities of the runtime objects factories may return
  NoRuntime,       \* the null runtime
  NoLease,         \* nobody holds a lease
  MaxGeneration,   \* bound: callers start or replace only below it
  MaxIncarnation,  \* bound: how often the id is registered
  MaxQueue         \* bound: calls queued behind one stop task

ASSUME RuntimesAssumption ==
  /\ NoRuntime \notin Runtimes
  /\ MaxGeneration \in Nat
  /\ MaxIncarnation \in Nat
  /\ MaxQueue \in Nat

VARIABLES
  registered,     \* the id is a key of `entries`
  incarnation,    \* which ConnectionEntry object it maps to
  generation, state, runtime,
  factory,        \* version of entry.createRuntime
  startToken,     \* entry.startToken is the running start's symbol
  startTask,      \* where the running start() is suspended, or "none"
  startRuntime,   \* the runtime that start() works on
  stopTask,       \* whose promise entry.stopTask is, or "none"
  stopRuntime, retireGeneration, retireState,
  waiters, due,   \* calls chained to stopTask, and those whose turn has come
  awaits,         \* what unregister() and stopAll() wait for
  isDefault,
  rtStop, rtGeneration, rtFactory,  \* per runtime object
  lease           \* a lease some request took and still holds

entryVars == <<registered, incarnation, isDefault>>
stopVars == <<stopTask, stopRuntime, retireGeneration, retireState>>
queueVars == <<waiters, due, awaits>>
runtimeVars == <<rtStop, rtGeneration, rtFactory>>
startVars == <<startToken, startTask, startRuntime>>
vars == <<entryVars, generation, state, runtime, factory, startVars, stopVars,
          queueVars, runtimeVars, lease>>

States == {"disconnected", "connecting", "ready", "reconnecting", "error",
           "stopping"}
Failed == {"error", "reconnecting"}
StartPoints == {"none", "retiring", "transport", "background", "disposing",
                "failing"}
Waits == {"none", "queued", "awaiting", "settled"}
Calls == {"start", "stop", "remove", "all"}
Settled == {"stopped", "failed"}
RuntimeStates == {"unborn", "live", "stopping"} \cup Settled

Leases == [incarnation : Nat, generation : Nat, runtime : Runtimes]

\* Types of what a start or a stop assigns, and of the rest.
LifecycleType ==
  /\ generation \in Nat
  /\ state \in States
  /\ runtime \in Runtimes \cup {NoRuntime}
  /\ startTask \in StartPoints
  /\ startRuntime \in Runtimes \cup {NoRuntime}
  /\ stopTask \in {"none", "stop", "retire"}
  /\ stopRuntime \in Runtimes \cup {NoRuntime}
  /\ retireGeneration \in Nat
  /\ retireState \in States

RuntimeType ==
  /\ rtStop \in [Runtimes -> RuntimeStates]
  /\ rtGeneration \in [Runtimes -> Nat]
  /\ rtFactory \in [Runtimes -> Nat]

WaitType ==
  /\ waiters \in Seq(Calls)
  /\ awaits \in [{"remove", "all"} -> Waits]

FlagType ==
  registered \in BOOLEAN /\ isDefault \in BOOLEAN /\ startToken \in BOOLEAN

EntryType ==
  /\ incarnation \in Nat
  /\ factory \in Nat
  /\ due \in Seq(Calls)
  /\ lease \in Leases \cup {NoLease}

TypeOK ==
  LifecycleType /\ RuntimeType /\ WaitType /\ FlagType /\ EntryType

removing == awaits["remove"] # "none"
stoppingAll == awaits["all"] # "none"

Init ==
  /\ registered = TRUE /\ isDefault \in BOOLEAN
  /\ incarnation = 1
  /\ generation = 0 /\ factory = 0
  /\ state = "disconnected"
  /\ runtime = NoRuntime /\ startRuntime = NoRuntime /\ stopRuntime = NoRuntime
  /\ startToken = FALSE /\ startTask = "none"
  /\ stopTask = "none" /\ retireGeneration = 0 /\ retireState = "error"
  /\ waiters = <<>> /\ due = <<>>
  /\ awaits = [k \in {"remove", "all"} |-> "none"]
  /\ rtStop = [r \in Runtimes |-> "unborn"]
  /\ rtGeneration = [r \in Runtimes |-> 0]
  /\ rtFactory = [r \in Runtimes |-> 0]
  /\ lease = NoLease

-----------------------------------------------------------------------------
\* isCurrent(entry, generation, runtime), for the context handed to runtime r.
\* entries.get(id) === entry holds while the entry is registered: no task of
\* an entry outlives its removal (RemovalIsQuiet).
IsCurrent(r) ==
  /\ registered
  /\ runtime = r
  /\ generation = rtGeneration[r]

\* runtime.stop() is memoised by the runtime: only the first call begins it.
CallStop(r) == [rtStop EXCEPT ![r] = IF @ = "live" THEN "stopping" ELSE @]

ClearRuntime(r) == IF runtime = r THEN NoRuntime ELSE runtime

EndStart ==
  /\ startTask' = "none"
  /\ startToken' = FALSE
  /\ startRuntime' = NoRuntime

\* begin() from "const generation" to the first await: the factory throws, or
\* its runtime becomes the entry's and startTransport() is called.  A runtime
\* with another identity is a startTransport() that rejects at once.
Construct ==
  /\ generation' = generation + 1
  /\ \/ /\ state' = "error"
        /\ runtime' = NoRuntime
        /\ EndStart
        /\ UNCHANGED runtimeVars
     \/ \E r \in Runtimes :
        /\ rtStop[r] = "unborn"
        /\ rtStop' = [rtStop EXCEPT ![r] = "live"]
        /\ rtGeneration' = [rtGeneration EXCEPT ![r] = generation + 1]
        /\ rtFactory' = [rtFactory EXCEPT ![r] = factory]
        /\ state' = "connecting"
        /\ runtime' = r
        /\ startToken' = TRUE
        /\ startTask' = "transport"
        /\ startRuntime' = r

\* begin() with a failed runtime still in place: it is stopped first.
RetireLeftover ==
  /\ generation' = generation + 1
  /\ state' = "stopping"
  /\ rtStop' = CallStop(runtime)
  /\ startToken' = TRUE
  /\ startTask' = "retiring"
  /\ startRuntime' = runtime
  /\ UNCHANGED <<runtime, rtGeneration, rtFactory>>

\* Bug: a start builds its runtime without retiring the failed one.
BeginStartOverLeftover == Construct /\ UNCHANGED <<factory, stopVars>>

BeginStart ==
  /\ IF runtime = NoRuntime THEN Construct ELSE RetireLeftover
  /\ UNCHANGED <<factory, stopVars>>

\* start() gets past its rejections and its early returns.
StartAccepted ==
  /\ registered /\ ~removing /\ ~stoppingAll
  /\ state # "ready"

QueueCall(call) ==
  /\ waiters' = Append(waiters, call)
  /\ UNCHANGED <<generation, state, runtime, factory, startVars, stopVars,
                 runtimeVars>>

\* start() behind a stop task, start() that creates a start task, and start()
\* that is rejected, finds the entry ready or joins the running start task.
StartQueued ==
  /\ StartAccepted
  /\ stopTask # "none"
  /\ QueueCall("start")
  /\ UNCHANGED awaits

StartNow ==
  /\ StartAccepted
  /\ stopTask = "none" /\ startTask = "none"
  /\ BeginStart
  /\ UNCHANGED <<waiters, awaits>>

StartWithoutEffect ==
  /\ StartAccepted => stopTask = "none" /\ startTask # "none"
  /\ UNCHANGED <<generation, state, runtime, startVars, stopVars, runtimeVars,
                 waiters>>

-----------------------------------------------------------------------------
\* stop(), as called by `call` once the entry's generation is g and its start
\* token is `token`.  unregister() and stopAll() await the promise it returns.
Await(call, wait) ==
  awaits' = IF call \in {"remove", "all"} THEN [awaits EXCEPT ![call] = wait]
            ELSE awaits

StopJoins(call, g, token) ==
  /\ stopTask # "none"
  /\ generation' = g
  /\ startToken' = token
  /\ IF state \in Failed
     THEN /\ waiters' = Append(waiters, call)
          /\ Await(call, "queued")
     ELSE /\ UNCHANGED waiters
          /\ Await(call, "awaiting")
  /\ UNCHANGED <<state, runtime, startTask, startRuntime, stopVars,
                 runtimeVars>>

\* Bug: unregister() and stopAll() wait although there is nothing to stop.
StopIdleAwaited(call, g, token) ==
  /\ stopTask = "none"
  /\ runtime = NoRuntime /\ startTask = "none"
  /\ generation' = g
  /\ startToken' = token
  /\ state' = "disconnected"
  /\ Await(call, "awaiting")
  /\ UNCHANGED <<runtime, startTask, startRuntime, stopVars, runtimeVars,
                 waiters>>

StopIdle(call, g, token) ==
  /\ stopTask = "none"
  /\ runtime = NoRuntime /\ startTask = "none"
  /\ generation' = g
  /\ startToken' = token
  /\ state' = "disconnected"
  /\ Await(call, "settled")
  /\ UNCHANGED <<runtime, startTask, startRuntime, stopVars, runtimeVars,
                 waiters>>

\* Bug: stop() leaves generation and state to the settling of its task.
StopBeginsUnmarked(call, g) ==
  /\ stopTask = "none"
  /\ runtime # NoRuntime \/ startTask # "none"
  /\ generation' = g
  /\ startToken' = FALSE
  /\ stopTask' = "stop"
  /\ stopRuntime' = runtime
  /\ rtStop' = IF runtime = NoRuntime THEN rtStop ELSE CallStop(runtime)
  /\ Await(call, "awaiting")
  /\ UNCHANGED <<state, runtime, startTask, startRuntime, retireGeneration,
                 retireState, rtGeneration, rtFactory, waiters>>

StopBegins(call, g) ==
  /\ stopTask = "none"
  /\ runtime # NoRuntime \/ startTask # "none"
  /\ generation' = g + 1
  /\ state' = "stopping"
  /\ startToken' = FALSE
  /\ stopTask' = "stop"
  /\ stopRuntime' = runtime
  /\ rtStop' = IF runtime = NoRuntime THEN rtStop ELSE CallStop(runtime)
  /\ Await(call, "awaiting")
  /\ UNCHANGED <<runtime, startTask, startRuntime, retireGeneration,
                 retireState, rtGeneration, rtFactory, waiters>>

\* stop() of an id without an entry: rejected, or nothing for stopAll() to do.
StopUnknown(call) ==
  /\ Await(call, "settled")
  /\ UNCHANGED <<generation, state, runtime, startVars, stopVars, runtimeVars,
                 waiters>>

StopFrom(call, g, token) ==
  \/ StopJoins(call, g, token)
  \/ StopIdle(call, g, token)
  \/ StopBegins(call, g)

-----------------------------------------------------------------------------
(* The manager's callers. *)

register ==
  /\ ~stoppingAll /\ ~registered
  /\ incarnation < MaxIncarnation
  /\ registered' = TRUE
  /\ incarnation' = incarnation + 1
  /\ generation' = 0
  /\ state' = "disconnected"
  /\ runtime' = NoRuntime
  /\ factory' = factory + 1
  /\ EndStart
  /\ UNCHANGED <<isDefault, stopVars, queueVars, runtimeVars, lease>>

setDefault ==
  /\ ~stoppingAll
  /\ isDefault \/ (registered /\ ~removing)
  /\ isDefault' = ~isDefault
  /\ UNCHANGED <<registered, incarnation, generation, state, runtime, factory,
                 startVars, stopVars, queueVars, runtimeVars, lease>>

start ==
  /\ generation < MaxGeneration
  /\ \/ StartNow
     \/ Len(waiters) < MaxQueue /\ StartQueued
  /\ UNCHANGED <<entryVars, factory, due, lease>>

stop ==
  /\ registered
  /\ Len(waiters) < MaxQueue
  /\ StopFrom("stop", generation, startToken)
  /\ UNCHANGED <<entryVars, factory, due, lease>>

\* The new factory is installed before the old runtime's stop is awaited.
replace ==
  /\ registered /\ ~stoppingAll /\ ~removing
  /\ generation < MaxGeneration
  /\ Len(waiters) < MaxQueue
  /\ factory' = factory + 1
  /\ StopFrom("stop", generation + 1, FALSE)
  /\ UNCHANGED <<entryVars, due, lease>>

unregister ==
  /\ registered /\ ~stoppingAll /\ ~isDefault /\ ~removing
  /\ StopFrom("remove", generation, startToken)
  /\ UNCHANGED <<entryVars, factory, due, lease>>

\* entries.delete() and removing.delete(), whether the stop succeeded or not.
FinishUnregister ==
  /\ awaits["remove"] = "settled"
  /\ registered' = FALSE
  /\ awaits' = [awaits EXCEPT !["remove"] = "none"]
  /\ UNCHANGED <<incarnation, isDefault, generation, state, runtime, factory,
                 startVars, stopVars, waiters, due, runtimeVars, lease>>

stopAll ==
  /\ ~stoppingAll
  /\ \/ registered /\ StopFrom("all", generation, startToken)
     \/ ~registered /\ StopUnknown("all")
  /\ UNCHANGED <<entryVars, factory, due, lease>>

markReconnecting ==
  /\ registered /\ ~stoppingAll /\ ~removing
  /\ state \in Failed
  /\ state' = "reconnecting"
  /\ UNCHANGED <<entryVars, generation, runtime, factory, startVars, stopVars,
                 queueVars, runtimeVars, lease>>

\* Bug: retireFailedRuntime() takes the runtime out before its stop settles.
retireFailedRuntimeEarly ==
  /\ registered
  /\ state \in Failed
  /\ stopTask = "none" /\ runtime # NoRuntime
  /\ stopTask' = "retire"
  /\ stopRuntime' = runtime
  /\ retireGeneration' = generation
  /\ retireState' = state
  /\ rtStop' = CallStop(runtime)
  /\ runtime' = NoRuntime
  /\ UNCHANGED <<entryVars, generation, state, factory, startVars,
                 queueVars, rtGeneration, rtFactory, lease>>

retireFailedRuntime ==
  /\ registered
  /\ state \in Failed
  /\ stopTask = "none" /\ runtime # NoRuntime
  /\ stopTask' = "retire"
  /\ stopRuntime' = runtime
  /\ retireGeneration' = generation
  /\ retireState' = state
  /\ rtStop' = CallStop(runtime)
  /\ UNCHANGED <<entryVars, generation, state, runtime, factory, startVars,
                 queueVars, rtGeneration, rtFactory, lease>>

\* Bug: a lease is checked by its wire identity only.
LeaseCurrentOnTheWire(l) ==
  registered /\ state = "ready" /\ generation = l.generation

\* lease.isCurrent(), for a lease l taken by readyRuntimeLease().
LeaseCurrent(l) ==
  /\ registered /\ incarnation = l.incarnation
  /\ state = "ready" /\ generation = l.generation /\ runtime = l.runtime

readyRuntimeLease ==
  /\ registered
  /\ state = "ready" /\ runtime # NoRuntime
  /\ lease' = [incarnation |-> incarnation, generation |-> generation,
               runtime |-> runtime]
  /\ UNCHANGED <<entryVars, generation, state, runtime, factory, startVars,
                 stopVars, queueVars, runtimeVars>>

-----------------------------------------------------------------------------
(* The running start task. *)

\* `await retired.stop()` settles: a failure keeps the runtime, a start whose
\* token was taken away ends, any other goes on to construct.
RetiredSettles ==
  /\ startTask = "retiring"
  /\ rtStop[startRuntime] \in Settled
  /\ \/ /\ rtStop[startRuntime] = "failed"
        /\ state' = "error"
        /\ EndStart
        /\ UNCHANGED <<generation, runtime, runtimeVars>>
     \/ /\ rtStop[startRuntime] = "stopped" /\ ~startToken
        /\ runtime' = ClearRuntime(startRuntime)
        /\ EndStart
        /\ UNCHANGED <<generation, state, runtimeVars>>
     \/ /\ rtStop[startRuntime] = "stopped" /\ startToken
        /\ Construct
  /\ UNCHANGED <<entryVars, factory, stopVars, queueVars, lease>>

\* A start that finds itself superseded stops its own runtime, unless the stop
\* task that superseded it does.
AbandonStart ==
  /\ ~IsCurrent(startRuntime)
  /\ IF stopTask = "none"
     THEN /\ rtStop' = CallStop(startRuntime)
          /\ startTask' = "disposing"
          /\ UNCHANGED <<startToken, startRuntime>>
     ELSE EndStart /\ UNCHANGED rtStop
  /\ UNCHANGED <<state, generation>>

TransportResolves ==
  /\ startTask = "transport"
  /\ \/ /\ IsCurrent(startRuntime)
        /\ startTask' = "background"
        /\ UNCHANGED <<startToken, startRuntime, state, generation, rtStop>>
     \/ AbandonStart
  /\ UNCHANGED <<entryVars, runtime, factory, stopVars, queueVars,
                 rtGeneration, rtFactory, lease>>

BackgroundResolves ==
  /\ startTask = "background"
  /\ \/ /\ IsCurrent(startRuntime)
        /\ state' = "ready"
        /\ EndStart
        /\ UNCHANGED <<generation, rtStop>>
     \/ AbandonStart
  /\ UNCHANGED <<entryVars, runtime, factory, stopVars, queueVars,
                 rtGeneration, rtFactory, lease>>

\* startTransport() or startBackground() rejects.  A superseded start only
\* rethrows and leaves its runtime to whoever superseded it.
StartRejects ==
  /\ startTask \in {"transport", "background"}
  /\ \/ /\ IsCurrent(startRuntime)
        /\ generation' = generation + 1
        /\ state' = "error"
        /\ rtStop' = CallStop(startRuntime)
        /\ startTask' = "failing"
        /\ UNCHANGED <<startToken, startRuntime>>
     \/ /\ ~IsCurrent(startRuntime)
        /\ EndStart
        /\ UNCHANGED <<generation, state, rtStop>>
  /\ UNCHANGED <<entryVars, runtime, factory, stopVars, queueVars,
                 rtGeneration, rtFactory, lease>>

StartCleanupSettles ==
  /\ startTask \in {"disposing", "failing"}
  /\ rtStop[startRuntime] \in Settled
  /\ runtime' = ClearRuntime(startRuntime)
  /\ EndStart
  /\ UNCHANGED <<entryVars, generation, state, factory, stopVars, queueVars,
                 runtimeVars, lease>>

-----------------------------------------------------------------------------
(* The stop task, the runtimes, and the calls queued behind the stop task. *)

Has(queue, call) == \E i \in DOMAIN queue : queue[i] = call

\* stopTask = null.  Its promise fulfils, or rejects and takes the calls queued
\* behind it along.
EndStop(fulfilled) ==
  /\ stopTask' = "none"
  /\ stopRuntime' = NoRuntime
  /\ retireGeneration' = 0 /\ retireState' = "error"
  /\ waiters' = <<>>
  /\ due' = IF fulfilled THEN due \o waiters ELSE due
  /\ awaits' = [k \in {"remove", "all"} |->
                  IF \/ awaits[k] = "awaiting"
                     \/ awaits[k] = "queued" /\ ~fulfilled /\ Has(waiters, k)
                  THEN "settled" ELSE awaits[k]]

\* Bugs: the stop task waits for the start only, or for a clean stop only.
StartSettled == startTask = "none"

BothSettled ==
  /\ startTask = "none"
  /\ stopRuntime # NoRuntime => rtStop[stopRuntime] \in Settled

StopSettles ==
  /\ stopTask = "stop"
  /\ BothSettled
  /\ runtime' = ClearRuntime(stopRuntime)
  /\ LET failed == stopRuntime # NoRuntime /\ rtStop[stopRuntime] = "failed"
     IN  /\ state' = IF failed THEN "error" ELSE "disconnected"
         /\ EndStop(~failed)
  /\ UNCHANGED <<entryVars, generation, factory, startVars, runtimeVars, lease>>

RetireSettles ==
  /\ stopTask = "retire"
  /\ BothSettled
  /\ runtime' = ClearRuntime(stopRuntime)
  /\ state' = IF generation = retireGeneration /\ state \in Failed
              THEN retireState ELSE state
  /\ EndStop(TRUE)
  /\ UNCHANGED <<entryVars, generation, factory, startVars, runtimeVars, lease>>

\* Bug: reportError() does not invalidate the runtime.
reportErrorStillCurrent ==
  /\ runtime # NoRuntime /\ IsCurrent(runtime)
  /\ state' \in Failed
  /\ UNCHANGED <<entryVars, generation, runtime, factory, startVars, stopVars,
                 queueVars, runtimeVars, lease>>

\* context.reportError(): ignored unless the runtime is current.
reportError ==
  /\ runtime # NoRuntime /\ IsCurrent(runtime)
  /\ generation' = generation + 1
  /\ state' \in Failed
  /\ UNCHANGED <<entryVars, runtime, factory, startVars, stopVars, queueVars,
                 runtimeVars, lease>>

RuntimeStopSettles(r) ==
  /\ rtStop[r] = "stopping"
  /\ \E outcome \in Settled : rtStop' = [rtStop EXCEPT ![r] = outcome]
  /\ UNCHANGED <<entryVars, generation, state, runtime, factory, startVars,
                 stopVars, queueVars, rtGeneration, rtFactory, lease>>

\* The next queued call runs, from the beginning and with fresh state.
RunDue ==
  /\ due # <<>>
  /\ due' = Tail(due)
  /\ LET call == Head(due)
     IN  \/ call = "start" /\ (StartNow \/ StartQueued)
         \/ call = "start" /\ StartWithoutEffect /\ UNCHANGED awaits
         \/ call # "start" /\ registered
              /\ StopFrom(call, generation, startToken)
         \/ call # "start" /\ ~registered /\ StopUnknown(call)
  /\ UNCHANGED <<entryVars, factory, lease>>

-----------------------------------------------------------------------------
Callers ==
  \/ register \/ setDefault \/ start \/ stop \/ replace \/ unregister
  \/ stopAll \/ markReconnecting \/ retireFailedRuntime \/ readyRuntimeLease

StartSteps ==
  \/ RetiredSettles \/ TransportResolves \/ BackgroundResolves \/ StartRejects
  \/ StartCleanupSettles

StopSteps == StopSettles \/ RetireSettles \/ FinishUnregister \/ RunDue

Next ==
  \/ Callers \/ StartSteps \/ StopSteps
  \/ reportError
  \/ \E r \in Runtimes : RuntimeStopSettles(r)

Safety == Init /\ [][Next]_vars

\* Promise callbacks run; a runtime's stop() settles (shutdown is bounded); and
\* a start promise settles at the latest once its runtime was told to stop.
\* Nothing makes a caller call, and nothing bounds a start that nobody stops.
StartPromiseSettles ==
  /\ startTask \in {"transport", "background"}
  /\ rtStop[startRuntime] # "live"
  /\ TransportResolves \/ BackgroundResolves \/ StartRejects

Fairness ==
  /\ WF_vars(StopSettles) /\ WF_vars(RetireSettles)
  /\ WF_vars(RunDue) /\ WF_vars(FinishUnregister)
  /\ WF_vars(RetiredSettles) /\ WF_vars(StartCleanupSettles)
  /\ WF_vars(StartPromiseSettles)
  /\ \A r \in Runtimes : WF_vars(RuntimeStopSettles(r))

Spec == Safety /\ Fairness

-----------------------------------------------------------------------------
(* Properties. *)

\* As long as a lease says it is current, nobody has asked its runtime to stop
\* and the runtime was built by the factory installed last: a request that
\* rechecks its lease never publishes on behalf of a replaced profile.
LeaseIsLive ==
  lease # NoLease /\ LeaseCurrent(lease) =>
    /\ rtStop[lease.runtime] = "live"
    /\ rtFactory[lease.runtime] = factory

\* A lease that was found not current never becomes current again, so a reply
\* dropped as retired cannot be published by a later check.
LeaseNeverRevives ==
  [][lease # NoLease /\ lease' = lease /\ ~LeaseCurrent(lease)
       => ~LeaseCurrent(lease)']_vars

\* A runtime whose stop() was not called or has not settled is the entry's
\* runtime: none is lost with its SSH process and its subscriptions running,
\* and two are never alive at once (starts and stops are serialised).
NoRuntimeLost ==
  \A r \in Runtimes :
    rtStop[r] \in {"live", "stopping"} => registered /\ runtime = r

\* No runtime is built once removal or shutdown has begun, whatever start calls
\* were queued or running at that time.
NoBirthWhileClosing ==
  [][removing \/ stoppingAll =>
       \A r \in Runtimes : rtStop[r] = "unborn" => rtStop'[r] = "unborn"]_vars

\* A removed entry leaves no promise, no queued stop callback and no runtime
\* behind that could act on a later registration of the same id.
RemovalIsQuiet ==
  ~registered => /\ startTask = "none" /\ stopTask = "none"
                 /\ runtime = NoRuntime /\ waiters = <<>>

\* A transitional state always has a task in flight that will leave it, and a
\* steady one describes the runtime: ready has a live current runtime and no
\* running task, disconnected has none.
StateHasOwner ==
  /\ state = "connecting" => startTask \in {"transport", "background"}
  /\ state = "stopping" => stopTask = "stop" \/ startTask = "retiring"
  /\ state = "ready" => /\ startTask = "none" /\ stopTask = "none"
                        /\ runtime # NoRuntime /\ IsCurrent(runtime)
  /\ state = "disconnected" => runtime = NoRuntime /\ startTask = "none"

\* When stopAll() has finished every runtime ever built was told to stop and
\* has answered: the process may exit without leaving a child behind.
ShutdownDrains ==
  awaits["all"] = "settled" =>
    \A r \in Runtimes : rtStop[r] \in {"unborn"} \cup Settled

\* The default id is always a registered connection that is not being removed.
DefaultStaysRegistered == isDefault => registered /\ ~removing

\* stopAll() returns: every stop it awaits ends, behind whatever start, queued
\* call or removal it meets.
ShutdownCompletes == stoppingAll ~> awaits["all"] = "settled"

\* A wire identity (connection id, generation) selects the runtime it was
\* issued for or nothing.
WireIdentityIsExact ==
  registered /\ state = "ready" /\ lease # NoLease
    /\ generation = lease.generation => runtime = lease.runtime

-----------------------------------------------------------------------------
(* The inductive invariant behind the properties: which runtime each task    *)
(* works on, what being current implies, and what closing has put to rest.   *)

Quiet == runtime = NoRuntime /\ startTask = "none" /\ stopTask = "none"

StartInv ==
  /\ startTask = "none" => startRuntime = NoRuntime /\ ~startToken
  /\ startTask # "none" => startRuntime # NoRuntime /\ runtime = startRuntime
  /\ startTask \in {"retiring", "disposing", "failing"} =>
       rtStop[startRuntime] # "live"
  /\ startTask = "retiring" =>
       /\ startToken <=> stopTask = "none"
       /\ stopTask = "none" => state = "stopping"
       /\ stopTask # "retire"

StopInv ==
  /\ stopTask = "none" => stopRuntime = NoRuntime /\ waiters = <<>>
  /\ stopTask # "none" => runtime \in {stopRuntime, NoRuntime}
  /\ stopRuntime # NoRuntime => rtStop[stopRuntime] \notin {"unborn", "live"}
  /\ stopTask = "retire" => retireState \in Failed

RuntimeInv ==
  /\ \A r \in Runtimes : rtStop[r] \in {"live", "stopping"} => runtime = r
  /\ runtime # NoRuntime =>
       /\ registered
       /\ rtStop[runtime] # "unborn"
       /\ rtGeneration[runtime] <= generation

CurrentInv ==
  runtime # NoRuntime /\ IsCurrent(runtime) =>
    /\ rtStop[runtime] = "live"
    /\ rtFactory[runtime] = factory
    /\ stopTask = "none"
    /\ \/ state = "connecting" /\ startTask \in {"transport", "background"}
       \/ state = "ready" /\ startTask = "none"

StateInv ==
  /\ state \in {"connecting", "ready"} =>
       runtime # NoRuntime /\ IsCurrent(runtime)
  /\ state = "stopping" => stopTask = "stop" \/ startTask = "retiring"
  /\ state = "disconnected" => Quiet

ClosingInv ==
  /\ ~registered => Quiet /\ ~removing
  /\ awaits["remove"] = "settled" \/ awaits["all"] = "settled" => Quiet
  /\ removing \/ stoppingAll => startTask # "retiring" \/ stopTask # "none"
  /\ isDefault => registered /\ ~removing

Once(queue, call) ==
  \A i, j \in DOMAIN queue : queue[i] = call /\ queue[j] = call => i = j

\* unregister() and stopAll() are queued at most once, and wait for their turn.
QueueInv ==
  \A call \in {"remove", "all"} :
    /\ Has(waiters, call) \/ Has(due, call) => awaits[call] = "queued"
    /\ ~(Has(waiters, call) /\ Has(due, call))
    /\ Once(waiters, call) /\ Once(due, call)

LeaseInv ==
  lease # NoLease =>
    /\ lease.incarnation <= incarnation
    /\ registered /\ lease.incarnation = incarnation =>
         /\ lease.generation <= generation
         /\ lease.generation = generation => LeaseCurrent(lease)

TaskInv ==
  /\ StartInv /\ StopInv /\ RuntimeInv /\ CurrentInv
  /\ StateInv /\ ClosingInv /\ LeaseInv

IInv == TypeOK /\ TaskInv /\ QueueInv

-----------------------------------------------------------------------------
\* The runtimes of the id go through the abstract lifecycle.
phaseOf(r) ==
  CASE rtStop[r] = "unborn" -> "unborn"
    [] rtStop[r] \in Settled -> "closed"
    [] IsCurrent(r) /\ state = "ready" -> "serving"
    [] IsCurrent(r) /\ state = "connecting" -> "building"
    [] OTHER -> "draining"

phases == [r \in Runtimes |-> phaseOf(r)]

Lifecycle == INSTANCE RuntimeLifecycle WITH phase <- phases

Status == INSTANCE ConnectionStatus

\* The runtimes of the id are built, served and stopped in the order of the
\* abstract lifecycle, whichever callbacks and calls interleave (connection-manager.ts).
RefinesLifecycle == Lifecycle!Spec

\* The status that callers and browsers go by is orderly: a generation names at
\* most one uninterrupted time up, and what ends that time also retires it.
StatusIsOrderly == Status!Spec
=============================================================================
