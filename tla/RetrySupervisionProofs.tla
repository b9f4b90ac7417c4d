------------------------ MODULE RetrySupervisionProofs ------------------------
(***************************************************************************)
(* Proofs about RetrySupervision, for any number of calls in flight, any   *)
(* limit of attempts and any number of commands: the inductive invariant   *)
(* IInv, the four safety properties that follow from it, and the           *)
(* refinement of ConnectionStatus.                                         *)
(***************************************************************************)
EXTENDS RetrySupervision, TLAPS

USE RetryAssumption DEF managerVars, retryVars, boundVars, historyVars, Errors,
                        Failed, Stoppers, Waiting, Runnable

-----------------------------------------------------------------------------
(* Types. *)

Call == [at : Waiting \cup Runnable, token : Nat, before : Nat, error : Errors]

ManagerTypes ==
  /\ state \in States /\ generation \in Nat /\ runtime \in BOOLEAN
  /\ startTask \in {"none", "current", "retired", "failing"}
  /\ startError \in Errors
  /\ stopTask \in {"none", "stop", "retire"}
  /\ retireGeneration \in Nat /\ retireState \in States

RetryTypes ==
  /\ enabled \in BOOLEAN /\ attempt \in 0 .. MaxAttempts /\ token \in Nat
  /\ retryTimer \in Nat \cup {NoTimer} /\ stableTimer \in Nat \cup {NoTimer}

StopTypes ==
  stops \in [Stoppers -> {"none", "queued", "due", "awaiting", "settled"}]

RestTypes ==
  /\ supervisionStopped \in BOOLEAN
  /\ mutation \in Calls \cup {"none", "boot", "disconnect"}
  /\ commands \in 0 .. MaxCommands /\ resets \in 0 .. MaxResets
  /\ wanted \in BOOLEAN /\ exitCharged \in BOOLEAN /\ tried \in Nat
  /\ final \in {"none", "exhausted", "permanent"}

\* The types of the state, in groups.
LEMMA Types ==
  /\ TypeOK <=> /\ ManagerTypes /\ RetryTypes /\ StopTypes /\ RestTypes
                /\ calls \in [Calls -> Call]
  /\ TypeOK' <=> /\ ManagerTypes' /\ RetryTypes' /\ StopTypes' /\ RestTypes'
                 /\ calls' \in [Calls -> Call]
BY DEF TypeOK, ManagerTypes, RetryTypes, StopTypes, RestTypes, Call

\* The bounds are numbers.
LEMMA Bounds == MaxAttempts \in Nat /\ MaxCommands \in Nat /\ MaxResets \in Nat
OBVIOUS

\* The fields of a call.
LEMMA CallFields ==
  ASSUME calls \in [Calls -> Call], NEW c \in Calls
  PROVE  /\ calls[c] \in Call /\ calls[c].at \in Waiting \cup Runnable
         /\ calls[c].token \in Nat /\ calls[c].before \in Nat
         /\ calls[c].error \in Errors
BY DEF Call

\* A new call.
LEMMA NoCallFields ==
  /\ NoCall \in Call /\ NoCall.at = "none"
BY DEF NoCall, Call

\* A call that moves to a.
LEMMA CallAt ==
  ASSUME NEW call \in Call, NEW a \in Waiting \cup Runnable
  PROVE  \E m \in Call : /\ m = [call EXCEPT !.at = a]
                         /\ m.at = a /\ m.token = call.token
                         /\ m.before = call.before /\ m.error = call.error
<1>1. PICK m : m = [call EXCEPT !.at = a]
  OBVIOUS
<1>2. /\ m \in Call /\ m.at = a /\ m.token = call.token /\ m.before = call.before
      /\ m.error = call.error
  BY <1>1 DEF Call
<1> QED
  BY <1>1, <1>2

\* A call ends.
LEMMA EndMoves ==
  ASSUME calls \in [Calls -> Call], NEW c \in Calls, EndCall(c)
  PROVE  /\ calls' \in [Calls -> Call] /\ calls'[c].at = "none"
         /\ calls'[c].before = 0
         /\ \A d \in Calls : d # c => calls'[d] = calls[d]
         /\ mutation' = IF mutation = c THEN "none" ELSE mutation
<1>1. PICK m : m = NoCall
  OBVIOUS
<1>2. m \in Call /\ m.at = "none" /\ m.before = 0
  BY <1>1, NoCallFields DEF NoCall
<1>3. calls' = [calls EXCEPT ![c] = m]
  BY <1>1 DEF EndCall
<1> QED
  BY <1>2, <1>3 DEF EndCall

-----------------------------------------------------------------------------
(* The retry state. *)

\* enableRetry, for a connection that is not stopped.
LEMMA EnableMoves ==
  ASSUME RetryTypes, supervisionStopped \in BOOLEAN, enableRetry
  PROVE  /\ RetryTypes'
         /\ supervisionStopped => UNCHANGED retryVars
         /\ ~supervisionStopped =>
              /\ attempt' = 0 /\ enabled' = TRUE /\ retryTimer' = NoTimer
              /\ token' = token + 1
<1>1. CASE supervisionStopped
  BY <1>1 DEF enableRetry, RetryTypes
<1>2. CASE ~supervisionStopped
  <2>1. /\ token' = token + 1 /\ retryTimer' = NoTimer /\ stableTimer' = NoTimer
        /\ attempt' = 0 /\ enabled' = TRUE
    BY <1>2 DEF enableRetry, CancelTimers
  <2>2. token' \in Nat /\ attempt' \in 0 .. MaxAttempts
    BY <2>1, Bounds DEF RetryTypes
  <2> QED
    BY <1>2, <2>1, <2>2 DEF RetryTypes
<1> QED
  BY <1>1, <1>2

\* disableRetry.
LEMMA DisableMoves ==
  ASSUME RetryTypes, disableRetry
  PROVE  /\ RetryTypes' /\ enabled' = FALSE /\ retryTimer' = NoTimer
         /\ attempt' = attempt
<1>1. /\ token' = token + 1 /\ retryTimer' = NoTimer /\ stableTimer' = NoTimer
      /\ attempt' = attempt /\ enabled' = FALSE
  BY DEF disableRetry, CancelTimers
<1>2. token' \in Nat /\ attempt' \in 0 .. MaxAttempts
  BY <1>1 DEF RetryTypes
<1> QED
  BY <1>1, <1>2 DEF RetryTypes

\* scheduleRetry: what it arms it counts.
LEMMA ScheduleMoves ==
  ASSUME RetryTypes, NEW error \in Errors, NEW s \in States, scheduleRetry(error, s)
  PROVE  /\ RetryTypes' /\ UNCHANGED <<enabled, token>> /\ state' \in States
         /\ \/ /\ willRetry(error) /\ s \in Failed /\ state' = "reconnecting"
               /\ attempt' = attempt + 1 /\ retryTimer' = token
            \/ /\ willRetry(error) /\ s \notin Failed /\ state' = s
               /\ attempt' = attempt /\ retryTimer' = NoTimer
            \/ /\ ~willRetry(error) /\ state' = s
               /\ attempt' = attempt /\ retryTimer' = retryTimer
<1>1. willRetry(error) => attempt < MaxAttempts
  BY DEF willRetry
<1>2. CASE willRetry(error) /\ s \in Failed
  BY <1>1, <1>2 DEF scheduleRetry, RetryTypes, States
<1>3. CASE willRetry(error) /\ s \notin Failed
  BY <1>3 DEF scheduleRetry, CancelTimers, RetryTypes
<1>4. CASE ~willRetry(error)
  BY <1>4 DEF scheduleRetry, RetryTypes
<1> QED
  BY <1>2, <1>3, <1>4

\* The history of the last failure.
LEMMA FinalityFields ==
  ASSUME RetryTypes, RestTypes, NEW error \in Errors
  PROVE  /\ Finality(error) \in {"none", "exhausted", "permanent"}
         /\ enabled /\ ~supervisionStopped /\ ~willRetry(error)
              => Finality(error) # "none"
         /\ Finality(error) = "none" => final = "none"
BY DEF Finality, RetryTypes, RestTypes, willRetry

-----------------------------------------------------------------------------
(* The manager's start() and stop(). *)

\* A start begins for call c.
Began(c) ==
  /\ ~supervisionStopped /\ state # "ready" /\ stopTask = "none" /\ startTask = "none"
  /\ generation' = generation + 1 /\ exitCharged' = FALSE
  /\ UNCHANGED <<startError, stopTask, retireGeneration, retireState>>
  /\ \/ /\ state' = "connecting" /\ runtime' = TRUE /\ startTask' = "current"
        /\ calls'[c].at = "starting"
     \/ /\ state' = "error" /\ runtime' = runtime /\ startTask' = "none"
        /\ calls'[c].at = "rejected"

\* A start begins nothing for call c.
Joined(c) ==
  /\ UNCHANGED managerVars /\ UNCHANGED exitCharged
  /\ \/ supervisionStopped /\ calls'[c].at = "rejected"
     \/ ~supervisionStopped /\ state = "ready" /\ calls'[c].at = "fulfilled"
     \/ ~supervisionStopped /\ stopTask # "none" /\ calls'[c].at = "queued"
     \/ /\ ~supervisionStopped /\ stopTask = "none" /\ startTask # "none"
        /\ calls'[c].at = "starting"

\* What managerStart does.
LEMMA StartMoves ==
  ASSUME TypeOK, NEW c \in Calls, NEW call \in Call, managerStart(c, call)
  PROVE  /\ calls' \in [Calls -> Call]
         /\ calls'[c].token = call.token /\ calls'[c].before = call.before
         /\ \A d \in Calls : d # c => calls'[d] = calls[d]
         /\ ManagerTypes' /\ exitCharged' \in BOOLEAN
         /\ Began(c) \/ Joined(c)
<1>1. /\ calls \in [Calls -> Call] /\ ManagerTypes /\ exitCharged \in BOOLEAN
      /\ supervisionStopped \in BOOLEAN
  BY Types DEF RestTypes
<1>2. CASE ~supervisionStopped /\ state # "ready" /\ stopTask = "none"
             /\ startTask = "none"
  <2>1. Begin(c, call)
    BY <1>2 DEF managerStart
  <2>2. CASE state' = "connecting" /\ runtime' = TRUE /\ startTask' = "current"
               /\ calls' = [calls EXCEPT ![c] = [call EXCEPT !.at = "starting"]]
    <3>1. /\ calls' \in [Calls -> Call] /\ calls'[c].at = "starting"
          /\ calls'[c].token = call.token /\ calls'[c].before = call.before
          /\ \A d \in Calls : d # c => calls'[d] = calls[d]
      <4>1. PICK m \in Call : /\ m = [call EXCEPT !.at = "starting"]
                              /\ m.at = "starting" /\ m.token = call.token
                              /\ m.before = call.before
        BY CallAt
      <4>2. calls' = [calls EXCEPT ![c] = m]
        BY <2>2, <4>1
      <4> QED
        BY <1>1, <4>1, <4>2
    <3>2. ManagerTypes' /\ exitCharged' \in BOOLEAN
      <4>1. generation' \in Nat /\ exitCharged' \in BOOLEAN /\ runtime' \in BOOLEAN
        <5>1. generation' = generation + 1 /\ exitCharged' = FALSE
          BY <2>1 DEF Begin
        <5>2. generation' \in Nat
          BY <1>1, <5>1 DEF ManagerTypes
        <5>3. runtime' = TRUE \/ runtime' = runtime
          BY <2>2
        <5>4. runtime' \in BOOLEAN
          BY <1>1, <5>3 DEF ManagerTypes
        <5> QED
          BY <5>1, <5>2, <5>4
      <4>2. /\ state' \in States /\ startTask' \in {"none", "current"}
            /\ UNCHANGED <<startError, stopTask, retireGeneration, retireState>>
        BY <1>2, <2>1, <2>2 DEF Begin, States
      <4> QED
        BY <1>1, <4>1, <4>2 DEF ManagerTypes
    <3>3. Began(c)
      BY <1>2, <2>1, <2>2, <3>1 DEF Begin, Began
    <3> QED
      BY <3>1, <3>2, <3>3
  <2>3. CASE /\ state' = "error" /\ UNCHANGED <<runtime, startTask>>
             /\ calls' = [calls EXCEPT ![c] = [call EXCEPT !.at = "rejected"]]
    <3>1. /\ calls' \in [Calls -> Call] /\ calls'[c].at = "rejected"
          /\ calls'[c].token = call.token /\ calls'[c].before = call.before
          /\ \A d \in Calls : d # c => calls'[d] = calls[d]
      <4>1. PICK m \in Call : /\ m = [call EXCEPT !.at = "rejected"]
                              /\ m.at = "rejected" /\ m.token = call.token
                              /\ m.before = call.before
        BY CallAt
      <4>2. calls' = [calls EXCEPT ![c] = m]
        BY <2>3, <4>1
      <4> QED
        BY <1>1, <4>1, <4>2
    <3>2. ManagerTypes' /\ exitCharged' \in BOOLEAN
      <4>1. generation' \in Nat /\ exitCharged' \in BOOLEAN /\ runtime' \in BOOLEAN
        <5>1. generation' = generation + 1 /\ exitCharged' = FALSE
          BY <2>1 DEF Begin
        <5>2. generation' \in Nat
          BY <1>1, <5>1 DEF ManagerTypes
        <5>3. runtime' = TRUE \/ runtime' = runtime
          BY <2>3
        <5>4. runtime' \in BOOLEAN
          BY <1>1, <5>3 DEF ManagerTypes
        <5> QED
          BY <5>1, <5>2, <5>4
      <4>2. /\ state' \in States /\ startTask' \in {"none", "current"}
            /\ UNCHANGED <<startError, stopTask, retireGeneration, retireState>>
        BY <1>2, <2>1, <2>3 DEF Begin, States
      <4> QED
        BY <1>1, <4>1, <4>2 DEF ManagerTypes
    <3>3. Began(c)
      BY <1>2, <2>1, <2>3, <3>1 DEF Begin, Began
    <3> QED
      BY <3>1, <3>2, <3>3
  <2> QED
    BY <2>1, <2>2, <2>3 DEF Begin
<1>3. CASE ~(~supervisionStopped /\ state # "ready" /\ stopTask = "none"
               /\ startTask = "none")
  <2>1. /\ calls' = [calls EXCEPT ![c] = [call EXCEPT !.at = JoinedAt]]
        /\ UNCHANGED managerVars /\ UNCHANGED exitCharged
    BY <1>3 DEF managerStart
  <2>2. PICK a : a = JoinedAt
    OBVIOUS
  <2>3. a \in Waiting \cup Runnable
    BY <2>2 DEF JoinedAt
  <2>4. /\ calls' \in [Calls -> Call] /\ calls'[c].at = a
        /\ calls'[c].token = call.token /\ calls'[c].before = call.before
        /\ \A d \in Calls : d # c => calls'[d] = calls[d]
    <3>1. PICK m \in Call : /\ m = [call EXCEPT !.at = a]
                            /\ m.at = a /\ m.token = call.token
                            /\ m.before = call.before
      BY <2>3, CallAt
    <3>2. calls' = [calls EXCEPT ![c] = m]
      BY <2>1, <2>2, <3>1
    <3> QED
      BY <1>1, <3>1, <3>2
  <2>5. ManagerTypes' /\ exitCharged' \in BOOLEAN
    BY <1>1, <2>1 DEF ManagerTypes
  <2>6. Joined(c)
    <3>1. CASE supervisionStopped
      BY <2>1, <2>2, <2>4, <3>1 DEF Joined, JoinedAt
    <3>2. CASE ~supervisionStopped /\ state = "ready"
      BY <2>1, <2>2, <2>4, <3>2 DEF Joined, JoinedAt
    <3>3. CASE ~supervisionStopped /\ state # "ready" /\ stopTask # "none"
      BY <2>1, <2>2, <2>4, <3>3 DEF Joined, JoinedAt
    <3>4. CASE ~supervisionStopped /\ state # "ready" /\ stopTask = "none"
      BY <1>3, <2>1, <2>2, <2>4, <3>4 DEF Joined, JoinedAt
    <3> QED
      BY <3>1, <3>2, <3>3, <3>4
  <2> QED
    BY <2>4, <2>5, <2>6
<1> QED
  BY <1>2, <1>3

\* A start leaves the manager's tasks and its callers in order.
LEMMA StartKeeps ==
  ASSUME TypeOK, ManagerInv, StartInv, NEW c \in Calls, NEW call \in Call,
         managerStart(c, call), UNCHANGED supervisionStopped,
         calls[c].at \in {"none", "cleaned", "due"}, call.before <= generation,
         \A d \in Calls : calls[d].before <= generation
  PROVE  /\ ManagerInv' /\ StartInv'
         /\ \A d \in Calls : calls'[d].before <= generation'
<1>1. /\ calls'[c].before = call.before
      /\ \A d \in Calls : d # c => calls'[d] = calls[d]
      /\ Began(c) \/ Joined(c)
  BY StartMoves
<1>2. generation \in Nat /\ call.before \in Nat /\ \A d \in Calls : calls[d].before \in Nat
  BY Types, CallFields DEF ManagerTypes, Call
<1>3. CASE Began(c)
  <2>1. generation' = generation + 1
    BY <1>3 DEF Began
  <2>2. ManagerInv'
    BY <1>3 DEF Began, ManagerInv
  <2>3. StartInv'
    BY <1>3 DEF Began, StartInv
  <2>4. ASSUME NEW d \in Calls PROVE calls'[d].before <= generation'
    <3>1. PICK b \in Nat : b = calls'[d].before /\ b <= generation
      BY <1>1, <1>2
    <3> QED
      BY <1>2, <2>1, <3>1
  <2> QED
    BY <2>2, <2>3, <2>4
<1>4. CASE Joined(c)
  <2>1. UNCHANGED managerVars
    BY <1>4 DEF Joined
  <2>2. ManagerInv'
    BY <2>1 DEF ManagerInv
  <2>3. StartInv'
    <3>1. ASSUME startTask # "none" PROVE \E d \in Calls : calls'[d].at = "starting"
      <4>1. PICK d \in Calls : calls[d].at = "starting"
        BY <3>1 DEF StartInv
      <4> QED
        BY <1>1, <4>1
    <3>2. ASSUME startTask = "failing"
          PROVE  /\ state # "reconnecting"
                 /\ supervisionStopped \/ \A d \in Calls : calls'[d].at # "rejected"
      BY <1>1, <1>4, <3>2 DEF Joined, StartInv
    <3> QED
      BY <2>1, <3>1, <3>2 DEF StartInv
  <2>4. \A d \in Calls : calls'[d].before <= generation'
    BY <1>1, <2>1
  <2> QED
    BY <2>2, <2>3, <2>4
<1> QED
  BY <1>1, <1>3, <1>4

\* A start of a connection that is not stopped will answer for its failure.
LEMMA StartAnswers ==
  ASSUME TypeOK, ManagerInv, StartInv, NEW c \in Calls, Began(c) \/ Joined(c),
         ~supervisionStopped, state' \in Failed
  PROVE  Answering(c)'
<1>1. CASE Began(c)
  BY <1>1 DEF Began, Answering
<1>2. CASE Joined(c)
  <2>1. UNCHANGED managerVars
    BY <1>2 DEF Joined
  <2>2. CASE calls'[c].at = "queued"
    BY <2>2 DEF Answering
  <2>3. CASE stopTask = "none" /\ startTask # "none" /\ calls'[c].at = "starting"
    <3>1. startTask = "failing"
      BY <2>1, <2>3 DEF ManagerInv, TypeOK
    <3>2. state = "error"
      BY <2>1, <3>1 DEF StartInv
    <3> QED
      BY <2>1, <2>3, <3>1, <3>2 DEF Answering
  <2> QED
    BY <1>2, <2>1, <2>2, <2>3 DEF Joined
<1> QED
  BY <1>1, <1>2

\* What managerStop does.
LEMMA StopMoves ==
  ASSUME TypeOK, ManagerInv, NEW k \in Stoppers, managerStop(k)
  PROVE  /\ ManagerTypes' /\ ManagerInv' /\ StopTypes'
         /\ stops'[k] \in {"queued", "awaiting", "settled"}
         /\ \A j \in Stoppers : j # k => stops'[j] = stops[j]
         /\ stops'[k] = "settled" => stopTask' = "none"
         /\ generation' \in Nat /\ generation <= generation'
         /\ state' \notin {"connecting", "ready"}
         /\ state' \in Failed \/ stopTask' = "retire" => UNCHANGED managerVars
         /\ startTask' = startTask \/ (startTask = "current" /\ startTask' = "retired")
         /\ stopTask = "none" /\ startTask = "none" /\ ~runtime =>
              /\ state' = "disconnected" /\ startTask' = "none"
              /\ stopTask' = "none" /\ runtime' = FALSE
<1>1. ManagerTypes /\ StopTypes
  BY Types
<1>2. CASE /\ stopTask # "none"
           /\ stops' = [stops EXCEPT ![k] =
                          IF state \in Failed THEN "queued" ELSE "awaiting"]
           /\ UNCHANGED managerVars
  <2>1. PICK x : x = IF state \in Failed THEN "queued" ELSE "awaiting"
    OBVIOUS
  <2>2. x \in {"queued", "awaiting"} /\ stops' = [stops EXCEPT ![k] = x]
    BY <1>2, <2>1
  <2>3. StopTypes' /\ stops'[k] = x /\ \A j \in Stoppers : j # k => stops'[j] = stops[j]
    BY <1>1, <2>2 DEF StopTypes
  <2>4. ManagerTypes' /\ ManagerInv'
    BY <1>1, <1>2 DEF ManagerTypes, ManagerInv
  <2>5. state \notin {"connecting", "ready"}
    BY <1>1, <1>2 DEF ManagerInv, ManagerTypes
  <2> QED
    BY <1>1, <1>2, <2>2, <2>3, <2>4, <2>5 DEF ManagerTypes
<1>3. CASE /\ stopTask = "none" /\ ~runtime /\ startTask = "none"
           /\ state' = "disconnected"
           /\ stops' = [stops EXCEPT ![k] = "settled"]
           /\ UNCHANGED <<generation, runtime, startTask, startError, stopTask,
                          retireGeneration, retireState>>
  <2>1. StopTypes' /\ stops'[k] = "settled"
        /\ \A j \in Stoppers : j # k => stops'[j] = stops[j]
    BY <1>1, <1>3 DEF StopTypes
  <2>2. ManagerTypes' /\ ManagerInv'
    BY <1>1, <1>3 DEF ManagerTypes, ManagerInv, States
  <2>3. runtime' = FALSE
    BY <1>1, <1>3 DEF ManagerTypes
  <2> QED
    BY <1>1, <1>3, <2>1, <2>2, <2>3 DEF ManagerTypes
<1>4. CASE /\ stopTask = "none" /\ (runtime \/ startTask # "none")
           /\ generation' = generation + 1
           /\ state' = "stopping"
           /\ stopTask' = "stop"
           /\ startTask' = (IF startTask = "current" THEN "retired" ELSE startTask)
           /\ stops' = [stops EXCEPT ![k] = "awaiting"]
           /\ UNCHANGED <<runtime, startError, retireGeneration, retireState>>
  <2>1. StopTypes' /\ stops'[k] = "awaiting"
        /\ \A j \in Stoppers : j # k => stops'[j] = stops[j]
    BY <1>1, <1>4 DEF StopTypes
  <2>2. ManagerTypes' /\ ManagerInv'
    BY <1>1, <1>4 DEF ManagerTypes, ManagerInv, States
  <2>3. generation' \in Nat /\ generation <= generation'
    BY <1>1, <1>4 DEF ManagerTypes
  <2> QED
    BY <1>4, <2>1, <2>2, <2>3
<1> QED
  BY <1>2, <1>3, <1>4 DEF managerStop

-----------------------------------------------------------------------------
(* The initial states, and the commands. *)

\* The initial states satisfy the invariant.
LEMMA InitInv ==
  ASSUME Init
  PROVE  IInv
<1>1. NoCall \in Call /\ NoCall.at = "none" /\ NoCall.before = 0
  BY NoCallFields DEF NoCall
<1>2. /\ calls \in [Calls -> Call]
      /\ \A c \in Calls : calls[c].at = "none" /\ calls[c].before = 0
  BY <1>1 DEF Init
<1>3. TypeOK
  <2>1. ManagerTypes /\ StopTypes
    BY DEF Init, ManagerTypes, StopTypes, States
  <2>2. RetryTypes
    <3>1. attempt \in 0 .. MaxAttempts /\ token \in Nat
      BY Bounds DEF Init
    <3>2. /\ enabled \in BOOLEAN
          /\ retryTimer \in Nat \cup {NoTimer} /\ stableTimer \in Nat \cup {NoTimer}
      BY DEF Init
    <3> QED
      BY <3>1, <3>2 DEF RetryTypes
  <2>3. RestTypes
    <3>1. /\ commands \in 0 .. MaxCommands /\ resets \in 0 .. MaxResets
          /\ tried \in Nat
      BY Bounds DEF Init
    <3>2. /\ supervisionStopped \in BOOLEAN /\ wanted \in BOOLEAN
          /\ exitCharged \in BOOLEAN
      BY DEF Init
    <3>3. /\ mutation \in Calls \cup {"none", "boot", "disconnect"}
          /\ final \in {"none", "exhausted", "permanent"}
      BY DEF Init
    <3> QED
      BY <3>1, <3>2, <3>3 DEF RestTypes
  <2> QED
    BY <1>2, <2>1, <2>2, <2>3, Types
<1>4. ManagerInv /\ StartInv
  BY DEF Init, ManagerInv, StartInv
<1>5. BootInv /\ DownInv /\ AnswerInv
  BY <1>2 DEF Init, BootInv, DownInv, AnswerInv
<1>6. StopInv
  BY DEF Init, StopInv
<1>7. CallInv
  BY <1>2 DEF Init, CallInv
<1>8. BoundInv /\ ExitInv
  BY DEF Init, BoundInv, ExitInv
<1> QED
  BY <1>3, <1>4, <1>5, <1>6, <1>7, <1>8 DEF IInv

\* What an exit that counted leaves to join: its own retirement.
LEMMA AfterExit ==
  ASSUME TypeOK, ManagerInv, ExitInv, exitCharged, startTask # "none" \/ state = "error"
  PROVE  /\ startTask # "none" => stopTask # "none"
         /\ state = "error" => stopTask = "none" /\ startTask = "none"
<1>1. stopTask \in {"none", "stop", "retire"}
  BY DEF TypeOK
<1> QED
  BY <1>1 DEF ManagerInv, ExitInv

\* A connect, and startConfigured().
LEMMA ConnectKeeps ==
  ASSUME IInv, NEW c \in Calls, connect(c)
  PROVE  IInv'
<1> USE DEF IInv
<1>1. /\ Idle /\ calls[c].at = "none" /\ mutation \in {"boot", "none"}
      /\ mutation' \in Calls \cup {"none"}
      /\ mutation = "none" => mutation' = c
      /\ commands' \in 0 .. MaxCommands
      /\ enableRetry /\ startManaged(c)
      /\ wanted' = TRUE /\ final' = "none"
      /\ tried' = IF supervisionStopped THEN tried ELSE 0
      /\ UNCHANGED <<supervisionStopped, stops, resets>>
  BY Bounds DEF connect, Free, TypeOK
<1>2. PICK call \in Call : call = [NoCall EXCEPT !.before = generation]
                           /\ call.before = generation
  <2>1. generation \in Nat
    BY DEF TypeOK
  <2>2. PICK m : m = [NoCall EXCEPT !.before = generation]
    OBVIOUS
  <2>3. m \in Call /\ m.before = generation
    BY <2>1, <2>2 DEF NoCall, Call
  <2> QED
    BY <2>2, <2>3
<1>3. managerStart(c, call)
  BY <1>1, <1>2 DEF startManaged
<1>4. /\ calls' \in [Calls -> Call] /\ calls'[c].before = call.before
      /\ \A d \in Calls : d # c => calls'[d] = calls[d]
      /\ ManagerTypes' /\ exitCharged' \in BOOLEAN
      /\ Began(c) \/ Joined(c)
  BY <1>3, StartMoves
<1>5. /\ ManagerInv' /\ StartInv'
      /\ \A d \in Calls : calls'[d].before <= generation'
  <2>1. /\ call.before <= generation
        /\ \A d \in Calls : calls[d].before <= generation
    BY <1>2 DEF CallInv, TypeOK
  <2> QED
    BY <1>1, <1>3, <2>1, StartKeeps
<1>6. /\ RetryTypes'
      /\ supervisionStopped => UNCHANGED retryVars
      /\ ~supervisionStopped =>
           /\ attempt' = 0 /\ enabled' = TRUE /\ retryTimer' = NoTimer
           /\ token' = token + 1
  BY <1>1, Types, EnableMoves DEF RestTypes
<1>7. mutation' # "boot" /\ mutation' # "disconnect"
  BY <1>1
<1>8. supervisionStopped => Joined(c) /\ ~enabled' /\ retryTimer' = NoTimer
  BY <1>4, <1>6 DEF Began, DownInv
<1>9. TypeOK'
  <2>1. StopTypes' /\ tried' \in Nat /\ supervisionStopped' \in BOOLEAN /\ resets' \in 0 .. MaxResets
    BY <1>1 DEF TypeOK, StopTypes
  <2>2. RestTypes'
    BY <1>1, <1>4, <2>1 DEF RestTypes
  <2> QED
    BY <1>4, <1>6, <2>1, <2>2, Types
<1>10. BootInv'
  BY <1>7 DEF BootInv
<1>11. DownInv'
  <2> SUFFICES ASSUME supervisionStopped
      PROVE  ~enabled' /\ retryTimer' = NoTimer /\ state' \notin {"connecting", "ready"}
    BY <1>1, <1>7 DEF DownInv
  <2> QED
    BY <1>8 DEF Joined, DownInv
<1>12. stopTask' = stopTask
  BY <1>4 DEF Began, Joined
<1>13. StopInv'
  <2>1. stops["disconnect"] = "none"
    BY <1>1 DEF StopInv, TypeOK
  <2> QED
    BY <1>1, <1>7, <1>12, <2>1 DEF StopInv
<1>14. CallInv'
  <2>1. ASSUME NEW d \in Calls, calls'[d].at \in {"queued", "due"}
        PROVE  mutation' = d \/ supervisionStopped
    <3>1. CASE d # c
      BY <1>1, <1>4, <2>1, <3>1 DEF CallInv
    <3>2. CASE d = c
      <4>1. calls'[c].at = "queued"  /\ stopTask # "none"
        BY <1>4, <1>12, <2>1, <3>2 DEF Began, Joined
      <4>2. mutation # "boot"
        BY <4>1 DEF BootInv
      <4> QED
        BY <1>1, <3>2, <4>2
    <3> QED
      BY <3>1, <3>2
  <2>2. ASSUME NEW d \in Calls, calls'[d].at = "cleaned"
        PROVE  stopTask' # "retire"
    BY <1>4, <1>12, <2>2 DEF Began, Joined, CallInv
  <2> QED
    BY <1>1, <1>5, <2>1, <2>2 DEF CallInv
<1>15. BoundInv'
  BY <1>1, <1>6, RetryAssumption DEF BoundInv, TypeOK
<1>16. ExitInv'
  <2> SUFFICES ASSUME exitCharged'
      PROVE  ExitInv'
    BY DEF ExitInv
  <2>1. Joined(c) /\ exitCharged
    BY <1>4 DEF Began, Joined
  <2>2. UNCHANGED managerVars
    BY <2>1 DEF Joined
  <2>3. state = "error" => ~enabled'
    BY <1>6, <1>8, <2>1, AfterExit DEF Joined
  <2>4. calls'[c].at # "starting"
    BY <2>1, AfterExit DEF Joined
  <2>5. \A d \in Calls : calls'[d].at = "starting" => generation > calls'[d].before
    BY <1>4, <2>1, <2>4 DEF ExitInv
  <2>6. \A d \in Calls : ~(calls'[d].at = "rejected" /\ enabled')
    <3>1. \A d \in Calls : calls[d].at # "rejected"
      BY <1>1 DEF Idle
    <3>2. calls'[c].at = "rejected" => supervisionStopped
      BY <2>1 DEF Joined
    <3> QED
      BY <1>4, <1>8, <3>1, <3>2
  <2> QED
    BY <2>1, <2>2, <2>3, <2>5, <2>6 DEF ExitInv
<1>17. AnswerInv'
  BY <1>4, <1>8, StartAnswers DEF AnswerInv
<1> QED
  BY <1>5, <1>9, <1>10, <1>11, <1>13, <1>14, <1>15, <1>16, <1>17

\* A stop that keeps the connection down.
LEMMA StopKeeps ==
  ASSUME IInv, NEW k \in Stoppers, managerStop(k),
         ~enabled', retryTimer' = NoTimer, supervisionStopped => supervisionStopped',
         UNCHANGED <<attempt, calls, exitCharged, tried>>
  PROVE  /\ ManagerInv' /\ BoundInv' /\ ExitInv' /\ StartInv' /\ AnswerInv' /\ DownInv'
         /\ \A c \in Calls : /\ calls[c].at = "cleaned" => stopTask' # "retire"
                             /\ calls[c].before <= generation'
<1> USE DEF IInv
<1>1. /\ ManagerInv'
      /\ generation' \in Nat /\ generation <= generation'
      /\ state' \notin {"connecting", "ready"}
      /\ state' \in Failed \/ stopTask' = "retire" => UNCHANGED managerVars
      /\ startTask' = startTask \/ (startTask = "current" /\ startTask' = "retired")
  BY StopMoves
<1>2. BoundInv' /\ AnswerInv'
  BY DEF BoundInv, AnswerInv
<1>3. DownInv'
  BY <1>1 DEF DownInv
<1>4. \A c \in Calls : calls[c].before <= generation'
  <2>1. generation \in Nat /\ \A c \in Calls : calls[c].before \in Nat
    BY CallFields, Types DEF TypeOK
  <2>2. \A c \in Calls : calls[c].before <= generation
    BY DEF CallInv
  <2> QED
    BY <1>1, <2>1, <2>2
<1>5. ExitInv'
  <2> SUFFICES ASSUME exitCharged
      PROVE  ExitInv'
    BY DEF ExitInv
  <2>1. startTask' \in {"none", "retired"}
    BY <1>1 DEF ExitInv
  <2>2. \A c \in Calls : calls[c].at = "starting" => generation' > calls[c].before
    <3>1. generation \in Nat /\ \A c \in Calls : calls[c].before \in Nat
      BY CallFields, Types DEF TypeOK
    <3>2. \A c \in Calls : calls[c].at = "starting" => generation > calls[c].before
      BY DEF ExitInv
    <3> QED
      BY <1>1, <3>1, <3>2
  <2>3. stopTask' = "retire" => state' = "reconnecting" /\ retireState' = "reconnecting"
    BY <1>1 DEF ExitInv
  <2> QED
    BY <1>1, <2>1, <2>2, <2>3 DEF ExitInv
<1>6. StartInv'
  BY <1>1 DEF StartInv
<1>7. \A c \in Calls : calls[c].at = "cleaned" => stopTask' # "retire"
  BY <1>1 DEF CallInv
<1> QED
  BY <1>1, <1>2, <1>3, <1>4, <1>5, <1>6, <1>7

\* A disconnect.
LEMMA DisconnectKeeps ==
  ASSUME IInv, disconnect
  PROVE  IInv'
<1> USE DEF IInv
<1>1. /\ Idle /\ mutation = "none" /\ mutation' = "disconnect"
      /\ disableRetry /\ managerStop("disconnect")
      /\ UNCHANGED <<supervisionStopped, calls, resets, wanted, exitCharged, tried, final>>
  BY DEF disconnect
<1>2. RetryTypes' /\ enabled' = FALSE /\ retryTimer' = NoTimer /\ attempt' = attempt
  BY <1>1, Types, DisableMoves
<1>3. /\ ManagerTypes' /\ StopTypes'
      /\ stops'["disconnect"] \in {"queued", "awaiting", "settled"}
      /\ stops'["shutdown"] = stops["shutdown"]
      /\ stops'["disconnect"] = "settled" => stopTask' = "none"
  BY <1>1, StopMoves
<1>4. /\ ManagerInv' /\ BoundInv' /\ ExitInv' /\ StartInv' /\ AnswerInv' /\ DownInv'
      /\ \A c \in Calls : /\ calls[c].at = "cleaned" => stopTask' # "retire"
                          /\ calls[c].before <= generation'
  BY <1>1, <1>2, StopKeeps
<1>5. TypeOK'
  <2>1. commands' \in 0 .. MaxCommands
    BY Bounds DEF disconnect, TypeOK
  <2>2. RestTypes' /\ calls' \in [Calls -> Call]
    BY <1>1, <2>1, Types DEF RestTypes
  <2> QED
    BY <1>2, <1>3, <2>2, Types
<1>6. BootInv'
  BY <1>1 DEF BootInv
<1>7. StopInv'
  BY <1>1, <1>3 DEF StopInv
<1>8. CallInv'
  <2>1. \A c \in Calls : c # "none" /\ c # "disconnect"
    OBVIOUS
  <2> QED
    BY <1>1, <1>4, <2>1 DEF CallInv
<1> QED
  BY <1>4, <1>5, <1>6, <1>7, <1>8

\* A disconnect returns.
LEMMA DisconnectReturnsKeeps ==
  ASSUME IInv, DisconnectReturns
  PROVE  IInv'
<1> USE DEF IInv
<1>1. /\ stops["disconnect"] = "settled"
      /\ stops' = [stops EXCEPT !["disconnect"] = "none"]
      /\ mutation' = "none" /\ wanted' = FALSE
      /\ UNCHANGED managerVars /\ UNCHANGED retryVars
      /\ UNCHANGED <<supervisionStopped, calls, commands, resets, exitCharged, tried, final>>
  BY DEF DisconnectReturns
<1>2. mutation = "disconnect"
  BY <1>1 DEF StopInv
<1>3. StopTypes' /\ stops'["disconnect"] = "none" /\ stops'["shutdown"] = stops["shutdown"]
  BY <1>1, Types DEF StopTypes
<1>4. TypeOK'
  <2>1. ManagerTypes' /\ RetryTypes'
    BY <1>1, Types DEF ManagerTypes, RetryTypes
  <2>2. RestTypes' /\ calls' \in [Calls -> Call]
    BY <1>1, Types DEF RestTypes
  <2> QED
    BY <1>3, <2>1, <2>2, Types
<1>5. ManagerInv' /\ BoundInv' /\ ExitInv' /\ StartInv' /\ BootInv'
  BY <1>1 DEF ManagerInv, BoundInv, ExitInv, StartInv, BootInv
<1>6. DownInv'
  BY <1>1, <1>2 DEF DownInv
<1>7. StopInv'
  BY <1>1, <1>3 DEF StopInv
<1>8. CallInv'
  <2>1. \A c \in Calls : c # "none" /\ c # "disconnect"
    OBVIOUS
  <2> QED
    BY <1>1, <1>2, <2>1 DEF CallInv
<1>9. AnswerInv'
  BY <1>1 DEF AnswerInv, Answering
<1> QED
  BY <1>4, <1>5, <1>6, <1>7, <1>8, <1>9

\* The shutdown stops the supervision.
LEMMA StopSupervisionKeeps ==
  ASSUME IInv, stopSupervision
  PROVE  IInv'
<1> USE DEF IInv
<1>1. /\ supervisionStopped' = TRUE /\ disableRetry /\ managerStop("shutdown")
      /\ wanted' = FALSE
      /\ UNCHANGED <<calls, mutation, commands, resets, exitCharged, tried, final>>
  BY DEF stopSupervision
<1>2. RetryTypes' /\ enabled' = FALSE /\ retryTimer' = NoTimer /\ attempt' = attempt
  BY <1>1, Types, DisableMoves
<1>3. /\ ManagerTypes' /\ StopTypes'
      /\ stops'["disconnect"] = stops["disconnect"]
      /\ stopTask = "none" /\ startTask = "none" /\ ~runtime =>
           /\ state' = "disconnected" /\ startTask' = "none"
           /\ stopTask' = "none" /\ runtime' = FALSE
  BY <1>1, StopMoves
<1>4. /\ ManagerInv' /\ BoundInv' /\ ExitInv' /\ StartInv' /\ AnswerInv' /\ DownInv'
      /\ \A c \in Calls : /\ calls[c].at = "cleaned" => stopTask' # "retire"
                          /\ calls[c].before <= generation'
  BY <1>1, <1>2, StopKeeps
<1>5. TypeOK'
  <2>1. RestTypes' /\ calls' \in [Calls -> Call]
    BY <1>1, Types DEF RestTypes
  <2> QED
    BY <1>2, <1>3, <2>1, Types
<1>6. BootInv'
  BY <1>1, <1>2, <1>3 DEF BootInv
<1>7. StopInv' /\ CallInv'
  BY <1>1, <1>3, <1>4 DEF StopInv, CallInv
<1> QED
  BY <1>4, <1>5, <1>6, <1>7

\* A stop that was queued behind another task is tried again.
LEMMA StopDueKeeps ==
  ASSUME IInv, NEW k \in Stoppers, StopDue(k)
  PROVE  IInv'
<1> USE DEF IInv
<1>1. /\ stops[k] = "due" /\ managerStop(k)
      /\ UNCHANGED retryVars
      /\ UNCHANGED <<supervisionStopped, calls, mutation, commands, resets, wanted,
                     exitCharged, tried, final>>
  BY DEF StopDue
<1>2. supervisionStopped \/ mutation = "disconnect"
  BY <1>1 DEF StopInv
<1>3. ~enabled /\ retryTimer = NoTimer
  BY <1>2 DEF DownInv
<1>4. /\ ManagerTypes' /\ StopTypes'
      /\ stops'[k] \in {"queued", "awaiting", "settled"}
      /\ \A j \in Stoppers : j # k => stops'[j] = stops[j]
      /\ stops'[k] = "settled" => stopTask' = "none"
      /\ stopTask = "none" /\ startTask = "none" /\ ~runtime =>
           /\ state' = "disconnected" /\ startTask' = "none"
           /\ stopTask' = "none" /\ runtime' = FALSE
  BY <1>1, StopMoves
<1>5. /\ ManagerInv' /\ BoundInv' /\ ExitInv' /\ StartInv' /\ AnswerInv' /\ DownInv'
      /\ \A c \in Calls : /\ calls[c].at = "cleaned" => stopTask' # "retire"
                          /\ calls[c].before <= generation'
  BY <1>1, <1>3, StopKeeps
<1>6. TypeOK'
  BY <1>1, <1>4, Types DEF RetryTypes, RestTypes
<1>7. BootInv'
  BY <1>1, <1>4 DEF BootInv
<1>8. StopInv'
  <2>1. CASE k = "disconnect"
    BY <1>1, <1>4, <2>1 DEF StopInv
  <2>2. CASE k = "shutdown"
    BY <1>1, <1>4, <2>2 DEF StopInv
  <2> QED
    BY <2>1, <2>2
<1>9. CallInv'
  BY <1>1, <1>5 DEF CallInv
<1> QED
  BY <1>5, <1>6, <1>7, <1>8, <1>9

\* The connection has been stable for long enough.
LEMMA StableTimerFiresKeeps ==
  ASSUME IInv, StableTimerFires
  PROVE  IInv'
<1> USE DEF IInv
<1>1. /\ retryTimer = NoTimer /\ attempt' = 0 /\ stableTimer' = NoTimer /\ tried' = 0
      /\ UNCHANGED managerVars
      /\ UNCHANGED <<enabled, token, retryTimer, supervisionStopped, calls, stops,
                     mutation, commands, wanted, exitCharged, final>>
  BY DEF StableTimerFires
<1>2. TypeOK'
  <2>1. resets' \in 0 .. MaxResets
    BY Bounds DEF StableTimerFires, TypeOK
  <2>2. RetryTypes'
    BY <1>1, Bounds, Types DEF RetryTypes
  <2>3. RestTypes'
    BY <1>1, <2>1, Types DEF RestTypes
  <2> QED
    BY <1>1, <2>2, <2>3, Types DEF ManagerTypes, StopTypes
<1>3. ManagerInv' /\ ExitInv' /\ StartInv' /\ BootInv' /\ DownInv' /\ StopInv' /\ CallInv'
  BY <1>1 DEF ManagerInv, ExitInv, StartInv, BootInv, DownInv, StopInv, CallInv
<1>4. BoundInv'
  BY <1>1 DEF BoundInv
<1>5. AnswerInv'
  BY <1>1 DEF AnswerInv, Answering
<1> QED
  BY <1>2, <1>3, <1>4, <1>5

-----------------------------------------------------------------------------
(* Retries. *)

\* The retry timer fires.
LEMMA RetryTimerFiresKeeps ==
  ASSUME IInv, NEW c \in Calls, RetryTimerFires(c)
  PROVE  IInv'
<1> USE DEF IInv
<1> DEFINE retiring == state \in Failed /\ (stopTask # "none" \/ runtime)
<1>1. /\ Idle /\ calls[c].at = "none" /\ retryTimer # NoTimer /\ enabled
      /\ retryTimer' = NoTimer /\ tried' = tried + 1
      /\ calls' = [calls EXCEPT ![c] =
                     [NoCall EXCEPT !.at = IF retiring THEN "cleanup" ELSE "cleaned",
                                    !.token = token]]
      /\ IF state \in Failed /\ stopTask = "none" /\ runtime
         THEN Retire(state, generation)
         ELSE UNCHANGED <<stopTask, retireState, retireGeneration>>
      /\ UNCHANGED <<state, generation, runtime, startTask, startError, enabled,
                     attempt, token, stableTimer, supervisionStopped, stops,
                     mutation, commands, resets, wanted, exitCharged, final>>
  BY DEF RetryTimerFires, Free
<1>2. PICK a : a = IF retiring THEN "cleanup" ELSE "cleaned"
  OBVIOUS
<1>3. /\ a \in {"cleanup", "cleaned"}
      /\ a = "cleaned" => ~(state \in Failed /\ (stopTask # "none" \/ runtime))
  BY <1>2
<1>4. PICK m : m = [NoCall EXCEPT !.at = a, !.token = token]
  OBVIOUS
<1>5. m \in Call /\ m.at = a /\ m.token = token /\ m.before = 0
  BY <1>3, <1>4 DEF NoCall, Call, TypeOK
<1>6. calls' = [calls EXCEPT ![c] = m]
  BY <1>1, <1>2, <1>4
<1> HIDE DEF retiring
<1>7. /\ calls' \in [Calls -> Call] /\ calls'[c] = m
      /\ \A d \in Calls : d # c => calls'[d] = calls[d]
  BY <1>5, <1>6, Types
<1>8. /\ \/ UNCHANGED <<stopTask, retireState, retireGeneration>>
         \/ /\ state \in Failed /\ stopTask = "none" /\ runtime
            /\ stopTask' = "retire" /\ retireState' = state
            /\ retireGeneration' = generation
  BY <1>1 DEF Retire
<1>9. \A d \in Calls : calls[d].at \notin {"cleaned", "rejected"}
  BY <1>1 DEF Idle
<1>10. TypeOK'
  <2>1. ManagerTypes'
    BY <1>1, <1>8, Types DEF ManagerTypes
  <2>2. RetryTypes' /\ StopTypes'
    BY <1>1, Types DEF RetryTypes, StopTypes
  <2>3. RestTypes'
    BY <1>1, Types DEF RestTypes
  <2> QED
    BY <1>7, <2>1, <2>2, <2>3, Types
<1>11. ManagerInv'
  BY <1>1, <1>8 DEF ManagerInv
<1>12. BootInv' /\ DownInv'
  BY <1>1 DEF BootInv, DownInv
<1>13. StopInv'
  BY <1>1, <1>8 DEF StopInv
<1>14. CallInv'
  <2>1. a = "cleaned" => stopTask' # "retire"
    BY <1>3, <1>8 DEF ManagerInv
  <2>2. m.before <= generation
    BY <1>5 DEF TypeOK
  <2> QED
    BY <1>1, <1>3, <1>5, <1>7, <1>9, <2>1, <2>2 DEF CallInv
<1>15. BoundInv'
  <2>1. tried < attempt /\ tried \in Nat /\ attempt \in Nat
    BY <1>1, Bounds DEF BoundInv, TypeOK
  <2> QED
    BY <1>1, <2>1 DEF BoundInv
<1>16. ExitInv'
  <2> SUFFICES ASSUME exitCharged
      PROVE  ExitInv'
    BY <1>1 DEF ExitInv
  <2>1. stopTask' = "retire" => state = "reconnecting" /\ retireState' = "reconnecting"
    BY <1>1, <1>8 DEF ExitInv
  <2> QED
    BY <1>1, <1>3, <1>5, <1>7, <2>1 DEF ExitInv
<1>17. StartInv'
  <2>1. ASSUME startTask # "none" PROVE \E d \in Calls : calls'[d].at = "starting"
    <3>1. PICK d \in Calls : calls[d].at = "starting"
      BY <2>1 DEF StartInv
    <3> QED
      BY <1>1, <1>7, <3>1
  <2>2. \A d \in Calls : calls'[d].at # "rejected"
    BY <1>3, <1>5, <1>7, <1>9
  <2> QED
    BY <1>1, <2>1, <2>2 DEF StartInv
<1>18. AnswerInv'
  BY <1>1, <1>3, <1>5, <1>7 DEF AnswerInv, Answering
<1> QED
  BY <1>10, <1>11, <1>12, <1>13, <1>14, <1>15, <1>16, <1>17, <1>18

\* A call ends, and nothing else that its queue depends on changes.
LEMMA EndKeeps ==
  ASSUME IInv, NEW c \in Calls, EndCall(c), calls[c].at \notin {"none", "starting"},
         UNCHANGED <<generation, startTask, stopTask, supervisionStopped, stops, wanted>>
  PROVE  /\ BootInv' /\ StopInv' /\ CallInv'
         /\ startTask' # "none" => \E d \in Calls : calls'[d].at = "starting"
         /\ mutation' \in Calls \cup {"none", "boot", "disconnect"}
         /\ mutation' = "disconnect" <=> mutation = "disconnect"
<1> USE DEF IInv
<1>1. /\ calls'[c].at = "none" /\ calls'[c].before = 0
      /\ \A d \in Calls : d # c => calls'[d] = calls[d]
      /\ mutation' = IF mutation = c THEN "none" ELSE mutation
  BY EndMoves, Types
<1>2. c # "none" /\ c # "boot" /\ c # "disconnect" /\ "none" \notin Calls
  OBVIOUS
<1>3. mutation # "boot"
  BY DEF BootInv
<1>4. BootInv' /\ StopInv'
  BY <1>1, <1>2, <1>3 DEF BootInv, StopInv
<1>5. CallInv'
  <2>1. 0 <= generation
    BY DEF TypeOK
  <2> QED
    BY <1>1, <1>2, <2>1 DEF CallInv
<1>6. ASSUME startTask # "none" PROVE \E d \in Calls : calls'[d].at = "starting"
  <2>1. PICK d \in Calls : calls[d].at = "starting"
    BY <1>6 DEF StartInv
  <2> QED
    BY <1>1, <2>1
<1> QED
  BY <1>1, <1>2, <1>4, <1>5, <1>6 DEF TypeOK

\* A call ends without effect on the manager.
LEMMA SilentEndKeeps ==
  ASSUME IInv, NEW c \in Calls, EndCall(c), calls[c].at \notin {"none", "starting"},
         enabled => ~Answering(c), RetryTypes',
         UNCHANGED <<managerVars, enabled, attempt, token, retryTimer,
                     supervisionStopped, stops, boundVars, historyVars>>
  PROVE  IInv'
<1> USE DEF IInv
<1>1. /\ BootInv' /\ StopInv' /\ CallInv'
      /\ startTask' # "none" => \E d \in Calls : calls'[d].at = "starting"
      /\ mutation' \in Calls \cup {"none", "boot", "disconnect"}
      /\ mutation' = "disconnect" <=> mutation = "disconnect"
  BY EndKeeps
<1>2. /\ calls' \in [Calls -> Call] /\ calls'[c].at = "none"
      /\ \A d \in Calls : d # c => calls'[d] = calls[d]
  BY EndMoves, Types
<1>3. TypeOK'
  <2>1. ManagerTypes' /\ StopTypes'
    BY Types DEF ManagerTypes, StopTypes
  <2>2. RestTypes'
    BY <1>1, Types DEF RestTypes
  <2> QED
    BY <1>2, <2>1, <2>2, Types
<1>4. ManagerInv' /\ BoundInv'
  BY DEF ManagerInv, BoundInv
<1>5. DownInv'
  BY <1>1 DEF DownInv
<1>6. ExitInv'
  BY <1>2 DEF ExitInv
<1>7. StartInv'
  BY <1>1, <1>2 DEF StartInv
<1>8. AnswerInv'
  <2> SUFFICES ASSUME state \in Failed, enabled, final = "none", retryTimer = NoTimer
      PROVE  \E d \in Calls : Answering(d)'
    BY DEF AnswerInv
  <2>1. PICK d \in Calls : Answering(d)
    BY DEF AnswerInv
  <2> QED
    BY <1>2, <2>1 DEF Answering
<1> QED
  BY <1>1, <1>3, <1>4, <1>5, <1>6, <1>7, <1>8

\* The start() succeeded.
LEMMA StartFulfilledKeeps ==
  ASSUME IInv, NEW c \in Calls, StartFulfilled(c)
  PROVE  IInv'
<1>1. /\ calls[c].at = "fulfilled" /\ EndCall(c)
      /\ stableTimer' \in {token, stableTimer}
      /\ UNCHANGED <<managerVars, enabled, attempt, token, retryTimer,
                     supervisionStopped, stops, boundVars, historyVars>>
  BY DEF StartFulfilled
<1>2. RetryTypes'
  BY <1>1, Types DEF IInv, RetryTypes
<1>3. ~Answering(c)
  BY <1>1 DEF Answering
<1> QED
  BY <1>1, <1>2, <1>3, SilentEndKeeps

\* A start that a continuation makes, with the retry state as it was.
LEMMA StartedKeeps ==
  ASSUME IInv, NEW c \in Calls, NEW call \in Call, managerStart(c, call),
         call.before <= generation, calls[c].at \in {"cleaned", "due"},
         \/ calls[c].at = "due"
         \/ enabled /\ stopTask = "none",
         UNCHANGED <<retryVars, supervisionStopped, stops, mutation, boundVars,
                     wanted, tried, final>>
  PROVE  IInv'
<1> USE DEF IInv
<1>1. /\ calls' \in [Calls -> Call] /\ calls'[c].before = call.before
      /\ \A d \in Calls : d # c => calls'[d] = calls[d]
      /\ ManagerTypes' /\ exitCharged' \in BOOLEAN
      /\ Began(c) \/ Joined(c)
  BY StartMoves
<1>2. /\ ManagerInv' /\ StartInv'
      /\ \A d \in Calls : calls'[d].before <= generation'
  BY StartKeeps DEF CallInv
<1>3. TypeOK'
  <2>1. RetryTypes' /\ StopTypes'
    BY Types DEF RetryTypes, StopTypes
  <2>2. RestTypes'
    BY <1>1, Types DEF RestTypes
  <2> QED
    BY <1>1, <2>1, <2>2, Types
<1>4. mutation # "boot" /\ stopTask' = stopTask
  BY <1>1 DEF BootInv, Began, Joined
<1>5. BootInv' /\ StopInv' /\ BoundInv'
  BY <1>4 DEF BootInv, StopInv, BoundInv
<1>6. Began(c) => wanted /\ mutation # "disconnect"
  <2>1. Began(c) => ~supervisionStopped
    BY DEF Began
  <2>2. CASE calls[c].at = "due"
    BY <2>1, <2>2 DEF CallInv
  <2>3. CASE enabled
    BY <2>3 DEF DownInv
  <2> QED
    BY <2>2, <2>3
<1>7. DownInv'
  <2>1. CASE Began(c)
    BY <1>6, <2>1 DEF Began, DownInv
  <2>2. CASE Joined(c)
    BY <2>2 DEF Joined, DownInv
  <2> QED
    BY <1>1, <2>1, <2>2
<1>8. CallInv'
  <2>1. calls'[c].at = "queued" => mutation = c \/ supervisionStopped
    <3>1. calls'[c].at = "queued" => stopTask # "none"
      BY <1>1 DEF Began, Joined
    <3> QED
      BY <3>1 DEF CallInv
  <2>2. calls'[c].at \notin {"due", "cleaned"}
    BY <1>1 DEF Began, Joined
  <2> QED
    BY <1>1, <1>2, <1>4, <2>1, <2>2 DEF CallInv
<1>9. ExitInv'
  <2> SUFFICES ASSUME exitCharged'
      PROVE  ExitInv'
    BY DEF ExitInv
  <2>1. Joined(c) /\ exitCharged
    BY <1>1 DEF Began, Joined
  <2>2. UNCHANGED managerVars
    BY <2>1 DEF Joined
  <2>3. calls'[c].at # "starting"
    BY <2>1, AfterExit DEF Joined
  <2>4. calls'[c].at = "rejected" => ~enabled
    BY <2>1 DEF Joined, DownInv
  <2>5. \A d \in Calls : calls'[d].at = "starting" => generation > calls'[d].before
    BY <1>1, <2>1, <2>3 DEF ExitInv
  <2>6. \A d \in Calls : calls'[d].at = "rejected" /\ enabled
                           => generation > calls'[d].before
    BY <1>1, <2>1, <2>4 DEF ExitInv
  <2> QED
    BY <2>1, <2>2, <2>5, <2>6 DEF ExitInv
<1>10. AnswerInv'
  <2>1. supervisionStopped => ~enabled
    BY DEF DownInv
  <2> QED
    BY <1>1, <2>1, StartAnswers DEF AnswerInv
<1> QED
  BY <1>2, <1>3, <1>5, <1>7, <1>8, <1>9, <1>10

\* A start that was queued behind a stop task is tried again.
LEMMA StartDueKeeps ==
  ASSUME IInv, NEW c \in Calls, StartDue(c)
  PROVE  IInv'
<1>1. /\ calls[c].at = "due" /\ managerStart(c, calls[c])
      /\ UNCHANGED <<retryVars, supervisionStopped, stops, mutation, boundVars,
                     wanted, tried, final>>
  BY DEF StartDue
<1>2. PICK call \in Call : call = calls[c]
  BY Types, CallFields DEF IInv
<1>3. call.before <= generation /\ managerStart(c, call)
  BY <1>1, <1>2 DEF IInv, CallInv
<1> QED
  BY <1>1, <1>3, StartedKeeps

\* A retry behind its wait: it starts the connection, or is out of date.
LEMMA RetryCleanedKeeps ==
  ASSUME IInv, NEW c \in Calls, RetryCleaned(c)
  PROVE  IInv'
<1> USE DEF IInv
<1>1. /\ calls[c].at = "cleaned"
      /\ UNCHANGED <<retryVars, supervisionStopped, stops, boundVars, wanted,
                     tried, final>>
  BY DEF RetryCleaned
<1>2. CASE /\ enabled /\ token = calls[c].token
           /\ startManaged(c)
           /\ UNCHANGED mutation
  <2>1. PICK call \in Call : call = [NoCall EXCEPT !.before = generation]
                             /\ call.before = generation
    <3>1. PICK m : m = [NoCall EXCEPT !.before = generation]
      OBVIOUS
    <3>2. m \in Call /\ m.before = generation
      BY <3>1 DEF NoCall, Call, TypeOK
    <3> QED
      BY <3>1, <3>2
  <2>2. managerStart(c, call) /\ call.before <= generation
    BY <1>2, <2>1 DEF startManaged, TypeOK
  <2>3. stopTask = "none"
    BY <1>1, <1>2 DEF CallInv, StopInv, DownInv, TypeOK
  <2> QED
    BY <1>1, <1>2, <2>2, <2>3, StartedKeeps
<1>3. CASE /\ ~(enabled /\ token = calls[c].token)
           /\ EndCall(c)
           /\ UNCHANGED <<managerVars, exitCharged>>
  <2>1. enabled => ~Answering(c)
    BY <1>1, <1>3 DEF Answering
  <2>2. RetryTypes'
    BY <1>1, Types DEF RetryTypes
  <2> QED
    BY <1>1, <1>3, <2>1, <2>2, SilentEndKeeps
<1> QED
  BY <1>2, <1>3 DEF RetryCleaned

\* The start() failed, or was interrupted by an exit that has been reported.
LEMMA StartRejectedKeeps ==
  ASSUME IInv, NEW c \in Calls, StartRejected(c)
  PROVE  IInv'
<1> USE DEF IInv
<1>1. /\ calls[c].at = "rejected" /\ EndCall(c)
      /\ final' = IF enabled THEN Finality(calls[c].error) ELSE final
      /\ UNCHANGED <<generation, runtime, startTask, startError, stopTask,
                     retireGeneration, retireState, supervisionStopped, stops,
                     commands, resets, wanted, exitCharged, tried>>
  BY DEF StartRejected
<1>2. /\ BootInv' /\ StopInv' /\ CallInv'
      /\ startTask' # "none" => \E d \in Calls : calls'[d].at = "starting"
      /\ mutation' \in Calls \cup {"none", "boot", "disconnect"}
      /\ mutation' = "disconnect" <=> mutation = "disconnect"
  BY <1>1, EndKeeps
<1>3. /\ calls' \in [Calls -> Call] /\ calls'[c].at = "none"
      /\ \A d \in Calls : d # c => calls'[d] = calls[d]
  BY <1>1, EndMoves, Types
<1>4. PICK error \in Errors : error = calls[c].error
  BY Types, CallFields
<1>5. /\ Finality(error) \in {"none", "exhausted", "permanent"}
      /\ enabled /\ ~supervisionStopped /\ ~willRetry(error)
           => Finality(error) # "none"
      /\ Finality(error) = "none" => final = "none"
  BY FinalityFields, Types
<1>6. supervisionStopped => ~enabled
  BY DEF DownInv
<1>7. CASE transportAlreadyReported(c)
  <2>1. UNCHANGED <<enabled, attempt, token, retryTimer, stableTimer, state>>
    BY <1>7 DEF StartRejected
  <2>2. TypeOK'
    <3>1. ManagerTypes' /\ RetryTypes' /\ StopTypes'
      BY <1>1, <2>1, Types DEF ManagerTypes, RetryTypes, StopTypes
    <3>2. RestTypes'
      BY <1>1, <1>2, <1>4, <1>5, Types DEF RestTypes
    <3> QED
      BY <1>3, <3>1, <3>2, Types
  <2>3. ManagerInv' /\ BoundInv'
    BY <1>1, <2>1 DEF ManagerInv, BoundInv
  <2>4. DownInv'
    BY <1>1, <1>2, <2>1 DEF DownInv
  <2>5. ExitInv'
    BY <1>1, <1>3, <2>1 DEF ExitInv
  <2>6. StartInv'
    BY <1>1, <1>2, <1>3, <2>1 DEF StartInv
  <2>7. AnswerInv'
    <3> SUFFICES ASSUME state' \in Failed, enabled', final' = "none", retryTimer' = NoTimer
        PROVE  \E d \in Calls : Answering(d)'
      BY DEF AnswerInv
    <3>1. state = "reconnecting"
      BY <1>7 DEF transportAlreadyReported
    <3>2. final = "none"
      BY <1>1, <1>4, <1>5, <2>1
    <3>3. PICK d \in Calls : Answering(d)
      BY <2>1, <3>1, <3>2 DEF AnswerInv
    <3>4. d # c
      BY <1>1, <3>1, <3>3 DEF Answering
    <3> QED
      BY <1>1, <1>3, <2>1, <3>3, <3>4 DEF Answering
  <2> QED
    BY <1>2, <2>2, <2>3, <2>4, <2>5, <2>6, <2>7
<1>8. CASE ~transportAlreadyReported(c)
  <2>1. scheduleRetry(error, state) /\ state \in States
    BY <1>4, <1>8 DEF StartRejected, TypeOK
  <2>2. /\ RetryTypes' /\ UNCHANGED <<enabled, token>> /\ state' \in States
        /\ \/ /\ willRetry(error) /\ state \in Failed /\ state' = "reconnecting"
              /\ attempt' = attempt + 1 /\ retryTimer' = token
           \/ /\ willRetry(error) /\ state \notin Failed /\ state' = state
              /\ attempt' = attempt /\ retryTimer' = NoTimer
           \/ /\ ~willRetry(error) /\ state' = state
              /\ attempt' = attempt /\ retryTimer' = retryTimer
    BY <2>1, ScheduleMoves, Types
  <2>3. TypeOK'
    <3>1. ManagerTypes' /\ StopTypes'
      BY <1>1, <2>2, Types DEF ManagerTypes, StopTypes
    <3>2. RestTypes'
      BY <1>1, <1>2, <1>4, <1>5, Types DEF RestTypes
    <3> QED
      BY <1>3, <2>2, <3>1, <3>2, Types
  <2>4. willRetry(error) => /\ ~supervisionStopped /\ enabled
                            /\ wanted /\ mutation # "disconnect"
                            /\ startTask # "failing"
    BY <1>1 DEF willRetry, DownInv, StartInv
  <2>5. willRetry(error) /\ state \in Failed => ~exitCharged
    <3> SUFFICES ASSUME willRetry(error), state \in Failed, exitCharged
        PROVE  FALSE
      OBVIOUS
    <3>1. state = "reconnecting" /\ generation > calls[c].before
      BY <1>1, <2>4 DEF ExitInv
    <3> QED
      BY <1>8, <3>1 DEF transportAlreadyReported
  <2>6. ManagerInv'
    BY <1>1, <2>2 DEF ManagerInv
  <2>7. DownInv'
    BY <1>1, <1>2, <2>2, <2>4 DEF DownInv
  <2>8. BoundInv'
    <3>1. tried \in Nat /\ attempt \in Nat /\ tried <= attempt
      BY Bounds DEF BoundInv, TypeOK
    <3> QED
      BY <1>1, <2>2, <3>1 DEF BoundInv
  <2>9. ExitInv'
    BY <1>1, <1>3, <2>2, <2>5 DEF ExitInv
  <2>10. StartInv'
    BY <1>1, <1>2, <1>3, <2>2, <2>4 DEF StartInv
  <2>11. AnswerInv'
    <3> SUFFICES ASSUME state' \in Failed, enabled', final' = "none", retryTimer' = NoTimer
        PROVE  FALSE
      BY DEF AnswerInv
    <3>1. willRetry(error)
      BY <1>1, <1>4, <1>5, <1>6, <2>2
    <3>2. token # NoTimer
      BY DEF TypeOK
    <3> QED
      BY <2>2, <3>1, <3>2
  <2> QED
    BY <1>2, <2>3, <2>6, <2>7, <2>8, <2>9, <2>10, <2>11
<1> QED
  BY <1>7, <1>8

-----------------------------------------------------------------------------
(* Exits, failures and the ends of the manager's tasks. *)

\* The tunnel's process exits under a current runtime.
LEMMA TransportExitKeeps ==
  ASSUME IInv, NEW error \in Errors, TransportExit(error)
  PROVE  IInv'
<1> USE DEF IInv
<1>1. /\ Idle
      /\ startTask = "current" \/ state = "ready"
      /\ generation' = generation + 1
      /\ startTask' = IF startTask = "current" THEN "retired" ELSE startTask
      /\ stopTask' = "retire" /\ retireState' = state' /\ retireGeneration' = generation'
      /\ exitCharged' = willRetry(error)
      /\ final' = Finality(error)
      /\ UNCHANGED <<runtime, startError, supervisionStopped, calls, stops,
                     mutation, commands, resets, wanted, tried>>
  BY DEF TransportExit, Retire
<1>2. PICK s \in Failed : /\ scheduleRetry(error, s)
                          /\ s = IF willRetry(error) THEN "reconnecting" ELSE "error"
  BY DEF TransportExit
<1>3. s \in States
  BY DEF States
<1>4. /\ RetryTypes' /\ UNCHANGED <<enabled, token>> /\ state' \in States
      /\ \/ /\ willRetry(error) /\ state' = "reconnecting"
            /\ attempt' = attempt + 1 /\ retryTimer' = token
         \/ /\ ~willRetry(error) /\ state' = "error"
            /\ attempt' = attempt /\ retryTimer' = retryTimer
  BY <1>2, <1>3, ScheduleMoves, Types
<1>5. /\ Finality(error) \in {"none", "exhausted", "permanent"}
      /\ enabled /\ ~supervisionStopped /\ ~willRetry(error)
           => Finality(error) # "none"
  BY FinalityFields, Types
<1>6. state \in {"connecting", "ready"}
  BY <1>1 DEF ManagerInv
<1>7. ~supervisionStopped /\ wanted /\ mutation # "disconnect" /\ mutation # "boot"
  BY <1>6 DEF DownInv, BootInv
<1>8. startTask \in {"none", "current"}
  BY <1>1, <1>6 DEF ManagerInv
<1>9. \A c \in Calls : calls[c].at \notin {"cleaned", "rejected"}
  BY <1>1 DEF Idle
<1>10. generation \in Nat /\ generation' \in Nat
  BY <1>1 DEF TypeOK
<1>11. TypeOK'
  <2>1. ManagerTypes'
    BY <1>1, <1>4, <1>8, <1>10, Types DEF ManagerTypes
  <2>2. willRetry(error) \in BOOLEAN
    BY Types DEF willRetry, RetryTypes, RestTypes
  <2>3. RestTypes' /\ StopTypes' /\ calls' \in [Calls -> Call]
    BY <1>1, <1>5, <2>2, Types DEF RestTypes, StopTypes
  <2> QED
    BY <1>4, <2>1, <2>3, Types
<1>12. ManagerInv'
  BY <1>1, <1>4, <1>8 DEF ManagerInv
<1>13. BootInv' /\ DownInv' /\ StopInv'
  BY <1>1, <1>4, <1>7 DEF BootInv, DownInv, StopInv
<1>14. CallInv'
  <2>1. ASSUME NEW c \in Calls PROVE calls[c].before <= generation'
    <3>1. PICK b \in Nat : b = calls[c].before /\ b <= generation
      BY Types, CallFields DEF CallInv
    <3> QED
      BY <1>1, <1>10, <3>1
  <2> QED
    BY <1>1, <1>9, <2>1 DEF CallInv
<1>15. BoundInv'
  <2>1. tried \in Nat /\ attempt \in Nat /\ tried <= attempt
    BY Bounds DEF BoundInv, TypeOK
  <2>2. ~willRetry(error) => retryTimer' = retryTimer /\ attempt' = attempt
    BY <1>4
  <2>3. tried <= attempt'
    BY <1>4, <2>1
  <2>4. retryTimer' # NoTimer => tried < attempt'
    BY <1>4, <2>1 DEF BoundInv
  <2> QED
    BY <1>1, <2>3, <2>4 DEF BoundInv
<1>16. ExitInv'
  <2> SUFFICES ASSUME exitCharged'
      PROVE  ExitInv'
    BY DEF ExitInv
  <2>1. state' = "reconnecting" /\ retireState' = "reconnecting"
    BY <1>1, <1>4
  <2>2. ASSUME NEW c \in Calls PROVE generation' > calls[c].before
    <3>1. PICK b \in Nat : b = calls[c].before /\ b <= generation
      BY Types, CallFields DEF CallInv
    <3> QED
      BY <1>1, <1>10, <3>1
  <2>3. startTask' \in {"none", "retired"}
    BY <1>1, <1>8
  <2> QED
    BY <1>1, <2>1, <2>2, <2>3 DEF ExitInv
<1>17. StartInv'
  BY <1>1, <1>8 DEF StartInv
<1>18. AnswerInv'
  <2> SUFFICES ASSUME enabled', final' = "none", retryTimer' = NoTimer
      PROVE  FALSE
    BY DEF AnswerInv
  <2>1. willRetry(error)
    BY <1>1, <1>4, <1>5, <1>7
  <2>2. token # NoTimer
    BY DEF TypeOK
  <2> QED
    BY <1>4, <2>1, <2>2
<1> QED
  BY <1>11, <1>12, <1>13, <1>14, <1>15, <1>16, <1>17, <1>18

\* The calls that await the start task move on.
LEMMA SettleMoves ==
  ASSUME calls \in [Calls -> Call], NEW to \in Runnable, NEW error \in Errors,
         SettleStart(to, error)
  PROVE  /\ calls' \in [Calls -> Call]
         /\ \A c \in Calls :
              /\ calls'[c].token = calls[c].token
              /\ calls'[c].before = calls[c].before
              /\ calls[c].at = "starting" => calls'[c].at = to
              /\ calls[c].at # "starting" => calls'[c] = calls[c]
<1>1. calls' = [c \in Calls |->
                  IF calls[c].at = "starting"
                  THEN [calls[c] EXCEPT !.at = to, !.error = error] ELSE calls[c]]
  BY DEF SettleStart
<1>2. ASSUME NEW c \in Calls
      PROVE  /\ calls'[c] \in Call
             /\ calls'[c].token = calls[c].token
             /\ calls'[c].before = calls[c].before
             /\ calls[c].at = "starting" => calls'[c].at = to
             /\ calls[c].at # "starting" => calls'[c] = calls[c]
  <2>1. PICK call \in Call : call = calls[c]
    BY CallFields
  <2>2. CASE call.at = "starting"
    <3>1. PICK m : m = [call EXCEPT !.at = to, !.error = error]
      OBVIOUS
    <3>2. m \in Call /\ m.at = to /\ m.token = call.token /\ m.before = call.before
      BY <3>1 DEF Call
    <3>3. calls'[c] = m
      BY <1>1, <2>1, <2>2, <3>1
    <3> QED
      BY <2>1, <2>2, <3>2, <3>3
  <2>3. CASE call.at # "starting"
    BY <1>1, <2>1, <2>3
  <2> QED
    BY <2>2, <2>3
<1> QED
  BY <1>1, <1>2

\* The runtime is up, or was retired while it started.
LEMMA StartResolvesKeeps ==
  ASSUME IInv, StartResolves
  PROVE  IInv'
<1> USE DEF IInv
<1>1. /\ Idle /\ startTask \in {"current", "retired"} /\ startTask' = "none"
      /\ state' = IF startTask = "current" THEN "ready" ELSE state
      /\ SettleStart("fulfilled", "retryable")
      /\ UNCHANGED <<generation, runtime, startError, stopTask, retireGeneration,
                     retireState, enabled, attempt, token, retryTimer, stableTimer,
                     supervisionStopped, stops, mutation, commands, resets,
                     wanted, exitCharged, tried, final>>
  BY DEF StartResolves
<1>2. /\ calls' \in [Calls -> Call]
      /\ \A c \in Calls :
           /\ calls'[c].token = calls[c].token
           /\ calls'[c].before = calls[c].before
           /\ calls[c].at = "starting" => calls'[c].at = "fulfilled"
           /\ calls[c].at # "starting" => calls'[c] = calls[c]
  BY <1>1, SettleMoves, Types
<1>3. \A c \in Calls : calls[c].at \notin Runnable
  BY <1>1 DEF Idle
<1>4. startTask = "current" => state = "connecting" /\ stopTask = "none"
  BY DEF ManagerInv, TypeOK
<1>5. TypeOK'
  <2>1. ManagerTypes' /\ RetryTypes' /\ StopTypes' /\ RestTypes'
    BY <1>1, Types DEF ManagerTypes, RetryTypes, StopTypes, RestTypes, States
  <2> QED
    BY <1>2, <2>1, Types
<1>6. ManagerInv'
  BY <1>1, <1>4 DEF ManagerInv
<1>7. BootInv' /\ DownInv' /\ StopInv' /\ BoundInv'
  BY <1>1, <1>4 DEF BootInv, DownInv, StopInv, BoundInv
<1>8. CallInv'
  BY <1>1, <1>2 DEF CallInv
<1>9. ExitInv'
  BY <1>1, <1>2, <1>3 DEF ExitInv
<1>10. StartInv'
  BY <1>1 DEF StartInv
<1>11. AnswerInv'
  <2> SUFFICES ASSUME state' \in Failed, enabled, final = "none", retryTimer = NoTimer
      PROVE  \E d \in Calls : Answering(d)'
    BY <1>1 DEF AnswerInv
  <2>1. state' = state
    BY <1>1
  <2>2. PICK d \in Calls : Answering(d)
    BY <2>1 DEF AnswerInv
  <2>3. calls[d].at # "starting"
    BY <1>1, <2>2 DEF Answering
  <2> QED
    BY <1>1, <1>2, <2>1, <2>2, <2>3 DEF Answering
<1> QED
  BY <1>5, <1>6, <1>7, <1>8, <1>9, <1>10, <1>11

\* The start fails, of a current runtime or of a retired one.
LEMMA StartFailsKeeps ==
  ASSUME IInv, NEW error \in Errors, StartFails(error)
  PROVE  IInv'
<1> USE DEF IInv
<1>1. /\ Idle
      /\ UNCHANGED <<runtime, stopTask, retireGeneration, retireState,
                     enabled, attempt, token, retryTimer, stableTimer,
                     supervisionStopped, stops, mutation, commands, resets,
                     wanted, exitCharged, tried, final>>
  BY DEF StartFails
<1>2. \A c \in Calls : calls[c].at \notin Runnable
  BY <1>1 DEF Idle
<1>3. RetryTypes' /\ StopTypes' /\ RestTypes'
  BY <1>1, Types DEF RetryTypes, StopTypes, RestTypes
<1>4. CASE /\ startTask = "current" /\ generation' = generation + 1
           /\ state' = "error" /\ startTask' = "failing" /\ startError' = error
           /\ UNCHANGED calls
  <2>1. state = "connecting" /\ stopTask = "none" /\ ~exitCharged
    BY <1>4 DEF ManagerInv, TypeOK, ExitInv
  <2>2. ~supervisionStopped /\ wanted /\ mutation # "disconnect" /\ mutation # "boot"
    BY <2>1 DEF DownInv, BootInv
  <2>3. generation \in Nat /\ generation' \in Nat
    BY <1>4 DEF TypeOK
  <2>4. TypeOK'
    <3>1. ManagerTypes'
      BY <1>1, <1>4, <2>3, Types DEF ManagerTypes, States
    <3> QED
      BY <1>3, <1>4, <3>1, Types
  <2>5. ManagerInv'
    BY <1>1, <1>4, <2>1 DEF ManagerInv
  <2>6. BootInv' /\ DownInv' /\ StopInv' /\ BoundInv' /\ ExitInv'
    BY <1>1, <1>4, <2>1, <2>2 DEF BootInv, DownInv, StopInv, BoundInv, ExitInv
  <2>7. CallInv'
    <3>1. ASSUME NEW c \in Calls PROVE calls[c].before <= generation'
      <4>1. PICK b \in Nat : b = calls[c].before /\ b <= generation
        BY Types, CallFields DEF CallInv
      <4> QED
        BY <1>4, <2>3, <4>1
    <3> QED
      BY <1>1, <1>2, <1>4, <3>1 DEF CallInv
  <2>8. PICK c \in Calls : calls[c].at = "starting"
    BY <1>4 DEF StartInv
  <2>9. StartInv'
    BY <1>2, <1>4, <2>8 DEF StartInv
  <2>10. AnswerInv'
    BY <1>4, <2>8 DEF AnswerInv, Answering
  <2> QED
    BY <2>4, <2>5, <2>6, <2>7, <2>9, <2>10
<1>5. CASE /\ startTask = "retired" /\ startTask' = "none"
           /\ SettleStart("rejected", error)
           /\ UNCHANGED <<generation, state, startError>>
  <2>1. /\ calls' \in [Calls -> Call]
        /\ \A c \in Calls :
             /\ calls'[c].token = calls[c].token
             /\ calls'[c].before = calls[c].before
             /\ calls[c].at = "starting" => calls'[c].at = "rejected"
             /\ calls[c].at # "starting" => calls'[c] = calls[c]
    BY <1>5, SettleMoves, Types
  <2>2. TypeOK'
    <3>1. ManagerTypes'
      BY <1>1, <1>5, Types DEF ManagerTypes
    <3> QED
      BY <1>3, <2>1, <3>1, Types
  <2>3. ManagerInv'
    BY <1>1, <1>5 DEF ManagerInv
  <2>4. BootInv' /\ DownInv' /\ StopInv' /\ BoundInv'
    BY <1>1, <1>5 DEF BootInv, DownInv, StopInv, BoundInv
  <2>5. CallInv'
    BY <1>1, <1>5, <2>1 DEF CallInv
  <2>6. ExitInv'
    BY <1>1, <1>2, <1>5, <2>1 DEF ExitInv
  <2>7. StartInv'
    BY <1>5 DEF StartInv
  <2>8. AnswerInv'
    <3> SUFFICES ASSUME state \in Failed, enabled, final = "none", retryTimer = NoTimer
        PROVE  \E d \in Calls : Answering(d)'
      BY <1>1, <1>5 DEF AnswerInv
    <3>1. PICK d \in Calls : Answering(d)
      BY DEF AnswerInv
    <3>2. calls[d].at # "starting"
      BY <1>5, <3>1 DEF Answering
    <3> QED
      BY <1>1, <1>5, <2>1, <3>1, <3>2 DEF Answering
  <2> QED
    BY <2>2, <2>3, <2>4, <2>5, <2>6, <2>7, <2>8
<1> QED
  BY <1>4, <1>5 DEF StartFails

\* The runtime of a failed start has been stopped.
LEMMA FailedStartCleanedKeeps ==
  ASSUME IInv, FailedStartCleaned
  PROVE  IInv'
<1> USE DEF IInv
<1>1. /\ Idle /\ startTask = "failing" /\ startTask' = "none" /\ runtime' = FALSE
      /\ SettleStart("rejected", startError)
      /\ UNCHANGED <<state, generation, startError, stopTask, retireGeneration,
                     retireState, enabled, attempt, token, retryTimer, stableTimer,
                     supervisionStopped, stops, mutation, commands, resets,
                     wanted, exitCharged, tried, final>>
  BY DEF FailedStartCleaned
<1>2. startError \in Errors
  BY DEF TypeOK
<1>3. /\ calls' \in [Calls -> Call]
      /\ \A c \in Calls :
           /\ calls'[c].token = calls[c].token
           /\ calls'[c].before = calls[c].before
           /\ calls[c].at = "starting" => calls'[c].at = "rejected"
           /\ calls[c].at # "starting" => calls'[c] = calls[c]
  BY <1>1, <1>2, SettleMoves, Types
<1>4. TypeOK'
  <2>1. ManagerTypes'
    BY <1>1, Types DEF ManagerTypes
  <2>2. RetryTypes' /\ StopTypes'
    BY <1>1, Types DEF RetryTypes, StopTypes
  <2>3. RestTypes'
    BY <1>1, Types DEF RestTypes
  <2> QED
    BY <1>3, <2>1, <2>2, <2>3, Types
<1>5. ManagerInv'
  BY <1>1 DEF ManagerInv
<1>6. BootInv' /\ DownInv' /\ StopInv' /\ BoundInv' /\ ExitInv'
  BY <1>1 DEF BootInv, DownInv, StopInv, BoundInv, ExitInv
<1>7. CallInv'
  BY <1>1, <1>3 DEF CallInv
<1>8. StartInv'
  BY <1>1 DEF StartInv
<1>9. AnswerInv'
  <2> SUFFICES ASSUME state \in Failed, enabled, final = "none", retryTimer = NoTimer
      PROVE  \E d \in Calls : Answering(d)'
    BY <1>1 DEF AnswerInv
  <2>1. PICK d \in Calls : Answering(d)
    BY DEF AnswerInv
  <2>2. CASE calls[d].at = "starting"
    <3>1. state = "error"
      BY <2>1, <2>2 DEF Answering
    <3> QED
      BY <1>1, <1>3, <2>2, <3>1 DEF Answering
  <2>3. CASE calls[d].at # "starting"
    BY <1>1, <1>3, <2>1, <2>3 DEF Answering
  <2> QED
    BY <2>2, <2>3
<1> QED
  BY <1>4, <1>5, <1>6, <1>7, <1>8, <1>9

\* The calls and stops that await the stop task move on.
LEMMA EndsMove ==
  ASSUME calls \in [Calls -> Call], StopTypes, NEW clean \in BOOLEAN, StopEnds(clean)
  PROVE  /\ calls' \in [Calls -> Call] /\ StopTypes'
         /\ \A c \in Calls :
              /\ calls'[c].token = calls[c].token
              /\ calls'[c].before = calls[c].before
              /\ calls[c].at = "queued" /\ clean => calls'[c].at = "due"
              /\ calls[c].at = "queued" /\ ~clean => calls'[c].at = "rejected"
              /\ calls[c].at = "cleanup" => calls'[c].at = "cleaned"
              /\ calls[c].at \notin {"queued", "cleanup"} => calls'[c].at = calls[c].at
         /\ \A k \in Stoppers : stops[k] # "none" <=> stops'[k] # "none"
         /\ stopTask' = "none" /\ runtime' = FALSE
<1>1. calls' = [c \in Calls |->
         [calls[c] EXCEPT !.at =
            CASE @ = "queued" -> IF clean THEN "due" ELSE "rejected"
              [] @ = "cleanup" -> "cleaned"
              [] OTHER -> @]]
  BY DEF StopEnds
<1>2. ASSUME NEW c \in Calls
      PROVE  /\ calls'[c] \in Call
             /\ calls'[c].token = calls[c].token
             /\ calls'[c].before = calls[c].before
             /\ calls[c].at = "queued" /\ clean => calls'[c].at = "due"
             /\ calls[c].at = "queued" /\ ~clean => calls'[c].at = "rejected"
             /\ calls[c].at = "cleanup" => calls'[c].at = "cleaned"
             /\ calls[c].at \notin {"queued", "cleanup"} => calls'[c].at = calls[c].at
  <2>1. PICK call \in Call : call = calls[c]
    BY CallFields
  <2>2. PICK a : a = CASE call.at = "queued" -> IF clean THEN "due" ELSE "rejected"
                       [] call.at = "cleanup" -> "cleaned"
                       [] OTHER -> call.at
    OBVIOUS
  <2>3. /\ call.at = "queued" /\ clean => a = "due"
        /\ call.at = "queued" /\ ~clean => a = "rejected"
        /\ call.at = "cleanup" => a = "cleaned"
        /\ call.at \notin {"queued", "cleanup"} => a = call.at
    BY <2>2
  <2>4. a \in Waiting \cup Runnable
    BY <2>3 DEF Call
  <2>5. PICK m \in Call : /\ m = [call EXCEPT !.at = a] /\ m.at = a
                          /\ m.token = call.token /\ m.before = call.before
    BY <2>4, CallAt
  <2>6. calls'[c] = m
    BY <1>1, <2>1, <2>2, <2>5
  <2> QED
    BY <2>1, <2>3, <2>5, <2>6
<1>3. stops' = [k \in Stoppers |->
         CASE stops[k] = "awaiting" -> "settled"
           [] stops[k] = "queued" -> IF clean THEN "due" ELSE "settled"
           [] OTHER -> stops[k]]
  BY DEF StopEnds
<1>4. StopTypes' /\ \A k \in Stoppers : stops[k] # "none" <=> stops'[k] # "none"
  <2>1. ASSUME NEW k \in Stoppers
        PROVE  /\ stops'[k] \in {"none", "queued", "due", "awaiting", "settled"}
               /\ stops[k] # "none" <=> stops'[k] # "none"
    BY <1>3 DEF StopTypes
  <2> QED
    BY <1>3, <2>1 DEF StopTypes
<1>5. stopTask' = "none" /\ runtime' = FALSE
  BY DEF StopEnds
<1>6. calls' \in [Calls -> Call]
  BY <1>1, <1>2
<1> QED
  BY <1>2, <1>4, <1>5, <1>6

\* A stop ends, cleanly or not.
LEMMA StopSettlesKeeps ==
  ASSUME IInv, NEW clean \in BOOLEAN, StopSettles(clean)
  PROVE  IInv'
<1> USE DEF IInv
<1>1. /\ stopTask = "stop" /\ startTask = "none" /\ StopEnds(clean)
      /\ state' \in {"disconnected", "error"}
      /\ UNCHANGED <<generation, startTask, startError, retireGeneration,
                     retireState, enabled, attempt, token, retryTimer, stableTimer,
                     supervisionStopped, mutation, commands, resets,
                     wanted, exitCharged, tried, final>>
  BY DEF StopSettles
<1>2. /\ calls' \in [Calls -> Call] /\ StopTypes'
      /\ \A c \in Calls :
           /\ calls'[c].token = calls[c].token
           /\ calls'[c].before = calls[c].before
           /\ calls[c].at = "queued" /\ clean => calls'[c].at = "due"
           /\ calls[c].at = "queued" /\ ~clean => calls'[c].at = "rejected"
           /\ calls[c].at = "cleanup" => calls'[c].at = "cleaned"
           /\ calls[c].at \notin {"queued", "cleanup"} => calls'[c].at = calls[c].at
      /\ \A k \in Stoppers : stops[k] # "none" <=> stops'[k] # "none"
      /\ stopTask' = "none" /\ runtime' = FALSE
  BY <1>1, EndsMove, Types
<1>3. ~enabled /\ retryTimer = NoTimer
  BY <1>1 DEF StopInv, DownInv
<1>4. mutation # "boot"
  BY <1>1 DEF BootInv
<1>5. TypeOK'
  <2>1. state' \in States /\ stopTask' \in {"none", "stop", "retire"}
    BY <1>1, <1>2 DEF States
  <2>2. ManagerTypes'
    BY <1>1, <1>2, <2>1, Types DEF ManagerTypes
  <2>3. RetryTypes' /\ RestTypes'
    BY <1>1, Types DEF RetryTypes, RestTypes
  <2> QED
    BY <1>2, <2>2, <2>3, Types
<1>6. ManagerInv' /\ BootInv' /\ DownInv' /\ BoundInv' /\ StartInv'
  BY <1>1, <1>2, <1>3, <1>4 DEF ManagerInv, BootInv, DownInv, BoundInv, StartInv
<1>7. StopInv'
  BY <1>1, <1>2 DEF StopInv
<1>8. CallInv'
  BY <1>1, <1>2 DEF CallInv
<1>9. ExitInv'
  BY <1>1, <1>2, <1>3 DEF ExitInv
<1>10. AnswerInv'
  BY <1>1, <1>3 DEF AnswerInv
<1> QED
  BY <1>5, <1>6, <1>7, <1>8, <1>9, <1>10

\* The retirement of a failed runtime ends.
LEMMA RetireSettlesKeeps ==
  ASSUME IInv, RetireSettles
  PROVE  IInv'
<1> USE DEF IInv
<1>1. /\ Idle /\ stopTask = "retire" /\ startTask = "none" /\ StopEnds(TRUE)
      /\ state' = IF generation = retireGeneration /\ state \in Failed
                  THEN retireState ELSE state
      /\ UNCHANGED <<generation, startTask, startError, retireGeneration,
                     retireState, enabled, attempt, token, retryTimer, stableTimer,
                     supervisionStopped, mutation, commands, resets,
                     wanted, exitCharged, tried, final>>
  BY DEF RetireSettles
<1>2. /\ calls' \in [Calls -> Call] /\ StopTypes'
      /\ \A c \in Calls :
           /\ calls'[c].token = calls[c].token
           /\ calls'[c].before = calls[c].before
           /\ calls[c].at = "queued" => calls'[c].at = "due"
           /\ calls[c].at = "cleanup" => calls'[c].at = "cleaned"
           /\ calls[c].at \notin {"queued", "cleanup"} => calls'[c].at = calls[c].at
      /\ \A k \in Stoppers : stops[k] # "none" <=> stops'[k] # "none"
      /\ stopTask' = "none" /\ runtime' = FALSE
  BY <1>1, EndsMove, Types
<1>3. /\ state \in Failed /\ retireState \in Failed /\ state' \in Failed
      /\ mutation # "boot"
  BY <1>1 DEF ManagerInv, BootInv
<1>4. \A c \in Calls : calls[c].at \notin Runnable
  BY <1>1 DEF Idle
<1>5. TypeOK'
  <2>1. ManagerTypes' /\ RetryTypes' /\ RestTypes'
    BY <1>1, <1>2, Types DEF ManagerTypes, RetryTypes, RestTypes
  <2> QED
    BY <1>2, <2>1, Types
<1>6. ManagerInv' /\ BootInv' /\ DownInv' /\ BoundInv' /\ StartInv'
  BY <1>1, <1>2, <1>3 DEF ManagerInv, BootInv, DownInv, BoundInv, StartInv
<1>7. StopInv'
  BY <1>1, <1>2 DEF StopInv
<1>8. CallInv'
  BY <1>1, <1>2 DEF CallInv
<1>9. ExitInv'
  BY <1>1, <1>2, <1>4 DEF ExitInv
<1>10. AnswerInv'
  <2> SUFFICES ASSUME enabled, final = "none", retryTimer = NoTimer
      PROVE  \E d \in Calls : Answering(d)'
    BY <1>1 DEF AnswerInv
  <2>1. PICK d \in Calls : Answering(d)
    BY <1>3 DEF AnswerInv
  <2> QED
    BY <1>1, <1>2, <1>4, <2>1 DEF Answering
<1> QED
  BY <1>5, <1>6, <1>7, <1>8, <1>9, <1>10

-----------------------------------------------------------------------------
(* Every step keeps the invariant. *)

\* Every step of the service and the manager keeps it.
LEMMA StepKeeps ==
  ASSUME IInv, [Next]_vars
  PROVE  IInv'
<1>1. CASE ServiceSteps
  BY <1>1, DisconnectKeeps, DisconnectReturnsKeeps, StopSupervisionKeeps,
     StableTimerFiresKeeps, ConnectKeeps, RetryTimerFiresKeeps DEF ServiceSteps
<1>2. CASE Continuations
  BY <1>2, RetryCleanedKeeps, StartDueKeeps, StartFulfilledKeeps,
     StartRejectedKeeps, StopDueKeeps DEF Continuations
<1>3. CASE ManagerSteps
  BY <1>3, StartResolvesKeeps, FailedStartCleanedKeeps, RetireSettlesKeeps,
     StartFailsKeeps, TransportExitKeeps, StopSettlesKeeps DEF ManagerSteps
<1>4. CASE UNCHANGED vars
  <2> USE <1>4 DEF IInv, vars
  <2>1. TypeOK'
    <3>1. ManagerTypes' /\ StopTypes'
      BY Types DEF ManagerTypes, StopTypes
    <3>2. RetryTypes'
      BY Types DEF RetryTypes
    <3>3. RestTypes'
      BY Types DEF RestTypes
    <3> QED
      BY <3>1, <3>2, <3>3, Types
  <2>2. ManagerInv' /\ BootInv' /\ DownInv' /\ StopInv' /\ CallInv'
    BY DEF ManagerInv, BootInv, DownInv, StopInv, CallInv
  <2>3. BoundInv' /\ ExitInv' /\ StartInv'
    BY DEF BoundInv, ExitInv, StartInv
  <2>4. AnswerInv'
    BY DEF AnswerInv, Answering
  <2> QED
    BY <2>1, <2>2, <2>3, <2>4
<1> QED
  BY <1>1, <1>2, <1>3, <1>4 DEF Next

-----------------------------------------------------------------------------
(* The theorems. *)

\* The inductive invariant of the supervision holds throughout.
THEOREM Invariance == Spec => []IInv
<1>1. Safety => []IInv
  BY InitInv, StepKeeps, PTL DEF Safety
<1> QED
  BY <1>1, PTL DEF Spec

\* However failures, exits and late rejections interleave, and for every limit:
\* between a connect and the next, or a stable period, no more retries are made
\* than are counted, which is at most the limit.
THEOREM RetriesStayBounded == Spec => [](RetriesAreBounded /\ tried <= MaxAttempts)
<1>1. IInv => RetriesAreBounded /\ tried <= MaxAttempts
  <2> SUFFICES ASSUME IInv
      PROVE  tried <= attempt /\ tried <= MaxAttempts
    BY DEF RetriesAreBounded
  <2>1. tried <= attempt /\ tried \in Nat /\ attempt \in 0 .. MaxAttempts
    BY DEF IInv, BoundInv, TypeOK
  <2> QED
    BY <2>1, Bounds
<1> QED
  BY <1>1, Invariance, PTL

\* Nothing brings a connection back after the disconnect has returned: no late
\* failure, armed retry or queued start.
THEOREM DisconnectIsFinal == Spec => []DisconnectHolds
<1>1. IInv => DisconnectHolds
  BY DEF IInv, DownInv, DisconnectHolds
<1> QED
  BY <1>1, Invariance, PTL

\* No temporary failure of a supervised connection is left without a retry that
\* is armed or in flight.
THEOREM NoFailureIsForgotten == Spec => []FailureIsAnswered
<1>1. IInv => FailureIsAnswered
  <2> SUFFICES ASSUME IInv, state = "error", enabled, final = "none",
                      retryTimer = NoTimer
      PROVE  InFlight
    BY DEF FailureIsAnswered
  <2>1. PICK c \in Calls : Answering(c)
    BY DEF IInv, AnswerInv
  <2>2. calls[c].at # "none"
    BY <2>1 DEF Answering
  <2> QED
    BY <2>2 DEF InFlight
<1> QED
  BY <1>1, Invariance, PTL

\* The attempt an exit counts is not counted again by the starts it interrupted.
THEOREM ExitsAreChargedOnce == Spec => ExitChargedOnce
<1>1. ASSUME IInv, [Next]_vars, exitCharged, exitCharged'
      PROVE  attempt' <= attempt
  <2> USE <1>1 DEF IInv
  <2>0. attempt \in Nat /\ 0 <= attempt
    BY Bounds DEF TypeOK
  <2>1. ASSUME NEW c \in Calls, StartRejected(c) PROVE attempt' <= attempt
    <3>1. calls[c].at = "rejected"
      BY <2>1 DEF StartRejected
    <3>2. CASE transportAlreadyReported(c)
      BY <2>0, <2>1, <3>2 DEF StartRejected
    <3>3. CASE ~transportAlreadyReported(c)
      <4>1. PICK error \in Errors : error = calls[c].error
        BY Types, CallFields
      <4>2. scheduleRetry(error, state) /\ state \in States
        BY <2>1, <3>3, <4>1 DEF StartRejected, TypeOK
      <4>3. willRetry(error) /\ state \in Failed => FALSE
        BY <1>1, <3>1, <3>3 DEF willRetry, ExitInv, transportAlreadyReported
      <4> QED
        BY <2>0, <4>2, <4>3, ScheduleMoves, Types
    <3> QED
      BY <3>2, <3>3
  <2>2. ASSUME NEW error \in Errors, TransportExit(error) PROVE FALSE
    BY <1>1, <2>2 DEF TransportExit, ExitInv
  <2>3. CASE ServiceSteps
    <3>1. ASSUME NEW c \in Calls, connect(c) PROVE attempt' <= attempt
      <4>1. enableRetry
        BY <3>1 DEF connect
      <4>2. CASE supervisionStopped
        BY <2>0, <4>1, <4>2 DEF enableRetry
      <4>3. CASE ~supervisionStopped
        BY <2>0, <4>1, <4>3 DEF enableRetry
      <4> QED
        BY <4>2, <4>3
    <3>2. CASE disconnect \/ stopSupervision
      BY <2>0, <3>2 DEF disconnect, stopSupervision, disableRetry
    <3>3. CASE DisconnectReturns
      BY <2>0, <3>3 DEF DisconnectReturns
    <3>4. CASE StableTimerFires
      BY <2>0, <3>4 DEF StableTimerFires
    <3>5. ASSUME NEW c \in Calls, RetryTimerFires(c) PROVE attempt' <= attempt
      BY <2>0, <3>5 DEF RetryTimerFires
    <3> QED
      BY <2>3, <3>1, <3>2, <3>3, <3>4, <3>5 DEF ServiceSteps
  <2>4. CASE Continuations
    <3>1. ASSUME NEW c \in Calls, RetryCleaned(c) \/ StartDue(c) \/ StartFulfilled(c)
          PROVE  attempt' <= attempt
      BY <2>0, <3>1 DEF RetryCleaned, StartDue, StartFulfilled
    <3>2. ASSUME NEW k \in Stoppers, StopDue(k) PROVE attempt' <= attempt
      BY <2>0, <3>2 DEF StopDue
    <3> QED
      BY <2>1, <2>4, <3>1, <3>2 DEF Continuations
  <2>5. CASE ManagerSteps
    <3>1. CASE StartResolves \/ FailedStartCleaned \/ RetireSettles
      <4>1. attempt' = attempt
        BY <3>1 DEF StartResolves, FailedStartCleaned, RetireSettles
      <4> QED
        BY <2>0, <4>1
    <3>2. ASSUME NEW error \in Errors, StartFails(error) PROVE attempt' <= attempt
      BY <2>0, <3>2 DEF StartFails
    <3>3. ASSUME NEW clean \in BOOLEAN, StopSettles(clean) PROVE attempt' <= attempt
      BY <2>0, <3>3 DEF StopSettles
    <3> QED
      BY <2>2, <2>5, <3>1, <3>2, <3>3 DEF ManagerSteps
  <2>6. CASE UNCHANGED vars
    BY <2>0, <2>6 DEF vars
  <2> QED
    BY <1>1, <2>3, <2>4, <2>5, <2>6 DEF Next
<1>2. IInv /\ [Next]_vars => [exitCharged /\ exitCharged' => attempt' <= attempt]_vars
  BY <1>1
<1>3. []IInv /\ [][Next]_vars => ExitChargedOnce
  BY <1>2, PTL DEF ExitChargedOnce
<1> QED
  BY <1>3, Invariance, PTL DEF Spec, Safety

-----------------------------------------------------------------------------
(* The status: the refinement of ConnectionStatus. *)

\* The two halves of the contract's states.
LEMMA StatusTypes ==
  ASSUME IInv
  PROVE  /\ state \in Status!Up \cup Status!Down /\ generation \in Nat
         /\ state \in Status!Down <=> state \notin Status!Up
         /\ state \in Status!Up => runtime /\ stopTask = "none"
         /\ state \in Status!Up /\ startTask # "current" => state = "ready"
BY DEF IInv, TypeOK, ManagerInv, States, Status!Up, Status!Down, Status!Failed

\* A start that begins opens a generation.
LEMMA BeginKeepsStatus ==
  ASSUME IInv, NEW c \in Calls, NEW call \in Call, managerStart(c, call)
  PROVE  [Status!Next]_(Status!vars)
<1>1. Began(c) \/ Joined(c)
  BY StartMoves DEF IInv
<1>2. CASE Began(c)
  BY <1>2, StatusTypes DEF Began, Status!Next, Status!Open, Status!Rest, Status!Up,
     Status!Down, Status!Failed
<1>3. CASE Joined(c)
  BY <1>3 DEF Joined, Status!vars
<1> QED
  BY <1>1, <1>2, <1>3

\* A stop ends the generation that is up.
LEMMA StopKeepsStatus ==
  ASSUME IInv, NEW k \in Stoppers, managerStop(k)
  PROVE  [Status!Next]_(Status!vars)
BY StatusTypes DEF managerStop, Status!vars, Status!Next, Status!Rest, Status!Close,
   Status!Up, Status!Down, Status!Failed

\* A retry is scheduled for a failed connection only.
LEMMA ScheduleKeepsStatus ==
  ASSUME IInv, NEW error \in Errors, scheduleRetry(error, state),
         UNCHANGED generation
  PROVE  [Status!Next]_(Status!vars)
<1>1. RetryTypes /\ state \in States
  BY Types DEF IInv, ManagerTypes
<1>2. state' = state \/ (state \in Failed /\ state' = "reconnecting")
  BY <1>1, ScheduleMoves
<1> QED
  BY <1>2, StatusTypes DEF Status!vars, Status!Next, Status!Rest, Status!Down,
     Status!Failed

\* Every step is a step of the contract, or leaves the status alone.
LEMMA StatusStep ==
  ASSUME IInv, [Next]_vars
  PROVE  [Status!Next]_(Status!vars)
<1>1. ASSUME NEW c \in Calls, connect(c) \/ RetryCleaned(c) \/ StartDue(c)
      PROVE  [Status!Next]_(Status!vars)
  <2>1. calls[c] \in Call /\ generation \in Nat
    BY Types, CallFields DEF IInv, ManagerTypes
  <2>2. PICK b : b = [NoCall EXCEPT !.before = generation]
    OBVIOUS
  <2>3. b \in Call
    BY <2>1, <2>2 DEF NoCall, Call
  <2>4. \/ managerStart(c, b) \/ managerStart(c, calls[c])
        \/ UNCHANGED managerVars
    BY <1>1, <2>2 DEF connect, RetryCleaned, StartDue, startManaged
  <2> QED
    BY <2>1, <2>3, <2>4, BeginKeepsStatus DEF Status!vars
<1>2. ASSUME NEW k \in Stoppers, StopDue(k)
      PROVE  [Status!Next]_(Status!vars)
  BY <1>2, StopKeepsStatus DEF StopDue
<1>3. CASE disconnect \/ stopSupervision
  BY <1>3, StopKeepsStatus DEF disconnect, stopSupervision
<1>4. ASSUME NEW c \in Calls, StartRejected(c)
      PROVE  [Status!Next]_(Status!vars)
  <2>1. UNCHANGED generation
    BY <1>4 DEF StartRejected
  <2>2. PICK error : error = calls[c].error
    OBVIOUS
  <2>3. error \in Errors
    BY <2>2, Types, CallFields DEF IInv
  <2>4. state' = state \/ scheduleRetry(error, state)
    BY <1>4, <2>2 DEF StartRejected
  <2> QED
    BY <2>1, <2>3, <2>4, ScheduleKeepsStatus DEF Status!vars
<1>5. ASSUME NEW error \in Errors, TransportExit(error)
      PROVE  [Status!Next]_(Status!vars)
  <2>1. PICK s \in {"reconnecting", "error"} :
          s = IF willRetry(error) THEN "reconnecting" ELSE "error"
    OBVIOUS
  <2>2. scheduleRetry(error, s) /\ generation' = generation + 1
    BY <1>5, <2>1 DEF TransportExit
  <2>3. state' \in Failed
    BY <2>2 DEF scheduleRetry
  <2>4. state \in Status!Up
    BY <1>5 DEF TransportExit, IInv, ManagerInv, Status!Up
  <2> QED
    BY <2>2, <2>3, <2>4, StatusTypes DEF Status!Next, Status!Close, Status!Failed
<1>6. ASSUME NEW error \in Errors, StartFails(error)
      PROVE  [Status!Next]_(Status!vars)
  <2>1. CASE startTask = "current"
    BY <1>6, <2>1, StatusTypes DEF StartFails, IInv, ManagerInv, Status!Next,
       Status!Close, Status!Up, Status!Failed
  <2>2. CASE startTask # "current"
    BY <1>6, <2>2 DEF StartFails, Status!vars
  <2> QED
    BY <2>1, <2>2
<1>7. CASE StartResolves
  <2>1. CASE startTask = "current"
    BY <1>7, <2>1 DEF StartResolves, IInv, ManagerInv, Status!Next, Status!Serve
  <2>2. CASE startTask # "current"
    BY <1>7, <2>2 DEF StartResolves, Status!vars
  <2> QED
    BY <2>1, <2>2
<1>8. ASSUME NEW clean \in BOOLEAN, StopSettles(clean)
      PROVE  [Status!Next]_(Status!vars)
  <2>1. /\ stopTask = "stop" /\ generation' = generation
        /\ state' \in {"disconnected", "error"}
    BY <1>8 DEF StopSettles
  <2> QED
    BY <2>1, StatusTypes DEF Status!Next, Status!Rest, Status!Down, Status!Failed
<1>9. CASE RetireSettles
  <2>1. /\ generation' = generation /\ stopTask = "retire"
        /\ state' = state \/ (state \in Failed /\ state' = retireState)
    BY <1>9 DEF RetireSettles
  <2>2. retireState \in Failed
    BY <2>1 DEF IInv, ManagerInv
  <2> QED
    BY <2>1, <2>2, StatusTypes DEF Status!vars, Status!Next, Status!Rest, Status!Down,
       Status!Failed
<1>10. CASE \/ DisconnectReturns \/ StableTimerFires \/ FailedStartCleaned
            \/ \E c \in Calls : RetryTimerFires(c) \/ StartFulfilled(c)
            \/ UNCHANGED vars
  BY <1>10 DEF DisconnectReturns, StableTimerFires, FailedStartCleaned,
     RetryTimerFires, StartFulfilled, Status!vars, vars
<1> QED
  BY <1>1, <1>2, <1>3, <1>4, <1>5, <1>6, <1>7, <1>8, <1>9, <1>10
     DEF Next, ServiceSteps, Continuations, ManagerSteps

\* Retries, late rejections, disconnects and the shutdown keep to the contract of
\* the status: none of them takes up a period that a failure or a stop ended.
THEOREM StatusStaysOrderly == Spec => StatusIsOrderly
<1>1. Init => Status!Init
  BY DEF Init, Status!Init
<1>2. IInv /\ [Next]_vars => [Status!Next]_(Status!vars)
  BY StatusStep
<1> QED
  BY <1>1, <1>2, Invariance, PTL DEF Spec, Safety, StatusIsOrderly, Status!Spec
=============================================================================
