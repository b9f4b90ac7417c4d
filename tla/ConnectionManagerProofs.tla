----------------------- MODULE ConnectionManagerProofs -----------------------
(***************************************************************************)
(* Proofs about ConnectionManager, for any set of runtimes and any bounds: *)
(* type correctness, the inductive invariant IInv, the safety properties   *)
(* that follow from it, and the refinements of RuntimeLifecycle and of     *)
(* ConnectionStatus.                                                       *)
(***************************************************************************)
EXTENDS ConnectionManager, TLAPS

\* Tuples of variables, expanded wherever a step leaves variables unchanged.
USE RuntimesAssumption
    DEF entryVars, stopVars, queueVars, runtimeVars, startVars

-----------------------------------------------------------------------------
(* Type correctness. *)

LEMMA Vocabulary ==
  /\ "disconnected" \in States /\ "connecting" \in States /\ "ready" \in States
  /\ "error" \in States /\ "stopping" \in States /\ "reconnecting" \in States
  /\ \A f \in Failed : f \in States
  /\ "none" \in StartPoints /\ "retiring" \in StartPoints
  /\ "transport" \in StartPoints /\ "background" \in StartPoints
  /\ "disposing" \in StartPoints /\ "failing" \in StartPoints
  /\ "none" \in Waits /\ "queued" \in Waits /\ "awaiting" \in Waits
  /\ "settled" \in Waits
  /\ "start" \in Calls /\ "stop" \in Calls
  /\ "remove" \in Calls /\ "all" \in Calls
  /\ "unborn" \in RuntimeStates /\ "live" \in RuntimeStates
  /\ "stopping" \in RuntimeStates
  /\ \A o \in Settled : o \in RuntimeStates
BY DEF States, Failed, StartPoints, Waits, Calls, Settled, RuntimeStates


\* The first states have the types.
LEMMA TypeInit == Init => TypeOK
<1> SUFFICES ASSUME Init PROVE TypeOK
  OBVIOUS
<1> USE Vocabulary DEF Init
<1>1. LifecycleType
  BY DEF LifecycleType
<1>2. RuntimeType
  BY DEF RuntimeType
<1>3. WaitType
  BY DEF WaitType
<1>4. FlagType
  BY DEF FlagType
<1>5. EntryType
  BY DEF EntryType
<1> QED
  BY <1>1, <1>2, <1>3, <1>4, <1>5 DEF TypeOK

\* Asking a runtime to stop keeps the map of runtimes typed.
LEMMA CallStopType ==
  ASSUME RuntimeType, NEW r
  PROVE  CallStop(r) \in [Runtimes -> RuntimeStates]
BY Vocabulary DEF CallStop, RuntimeType

\* What stop() assigns is typed, whoever calls it.
LEMMA StopFromType ==
  ASSUME LifecycleType, RuntimeType, WaitType,
         NEW call \in Calls, NEW g \in Nat, NEW token \in BOOLEAN,
         StopFrom(call, g, token) \/ StopUnknown(call)
  PROVE  LifecycleType' /\ RuntimeType' /\ WaitType'
<1> USE Vocabulary DEF StopFrom, StopUnknown, StopJoins, StopIdle, StopBegins
<1>1. LifecycleType'
  BY DEF LifecycleType
<1>2. RuntimeType'
  BY CallStopType DEF RuntimeType
<1>3. waiters' \in Seq(Calls)
  BY DEF WaitType
<1>4. awaits' \in [{"remove", "all"} -> Waits]
  BY DEF WaitType, Await
<1> QED
  BY <1>1, <1>2, <1>3, <1>4 DEF WaitType

\* So is the start token.
LEMMA StopFromFlags ==
  ASSUME startToken \in BOOLEAN, NEW call, NEW g, NEW token \in BOOLEAN,
         StopFrom(call, g, token) \/ StopUnknown(call)
  PROVE  startToken' \in BOOLEAN
BY DEF StopFrom, StopUnknown, StopJoins, StopIdle, StopBegins

\* What the construction of a runtime assigns is typed.
LEMMA ConstructType ==
  ASSUME LifecycleType, RuntimeType, factory \in Nat, Construct,
         UNCHANGED stopVars
  PROVE  LifecycleType' /\ RuntimeType' /\ startToken' \in BOOLEAN
<1>1. LifecycleType'
  BY Vocabulary DEF Construct, EndStart, LifecycleType
<1>2. rtStop' \in [Runtimes -> RuntimeStates]
  BY Vocabulary DEF Construct, RuntimeType
<1>3. rtGeneration' \in [Runtimes -> Nat] /\ rtFactory' \in [Runtimes -> Nat]
  <2>1. generation + 1 \in Nat
    BY DEF LifecycleType
  <2> QED
    BY <2>1 DEF Construct, RuntimeType
<1>4. startToken' \in BOOLEAN
  BY DEF Construct, EndStart
<1> QED
  BY <1>1, <1>2, <1>3, <1>4 DEF RuntimeType

\* What start() assigns is typed.
LEMMA StartType ==
  ASSUME TypeOK, StartNow \/ StartQueued
  PROVE  LifecycleType' /\ RuntimeType' /\ WaitType' /\ startToken' \in BOOLEAN
<1> USE DEF TypeOK
<1>1. CASE StartQueued
  BY <1>1, Vocabulary DEF StartQueued, QueueCall, LifecycleType, RuntimeType,
     WaitType, FlagType
<1>2. CASE StartNow
  <2>1. WaitType'
    BY <1>2 DEF StartNow, WaitType
  <2>2. CASE Construct
    BY <1>2, <2>1, <2>2, ConstructType DEF StartNow, BeginStart, EntryType
  <2>3. CASE RetireLeftover
    <3>1. LifecycleType'
      BY <1>2, <2>3, Vocabulary
         DEF StartNow, BeginStart, RetireLeftover, LifecycleType
    <3>2. RuntimeType'
      BY <2>3, CallStopType DEF RetireLeftover, RuntimeType
    <3>3. startToken' \in BOOLEAN
      BY <2>3 DEF RetireLeftover
    <3> QED
      BY <2>1, <3>1, <3>2, <3>3
  <2> QED
    BY <1>2, <2>2, <2>3 DEF StartNow, BeginStart
<1> QED
  BY <1>1, <1>2

\* A queued call is one of Calls, and the rest of the queue keeps its type.
LEMMA DueTypes ==
  ASSUME TypeOK, RunDue
  PROVE  Head(due) \in Calls /\ due' \in Seq(Calls)
BY DEF TypeOK, EntryType, RunDue

\* The next queued call keeps every variable's type.
LEMMA RunDueType == TypeOK /\ RunDue => TypeOK'
<1> SUFFICES ASSUME TypeOK, RunDue PROVE TypeOK'
  OBVIOUS
<1>1. EntryType'
  BY DueTypes DEF RunDue, TypeOK, EntryType
<1>2. startToken' \in BOOLEAN => FlagType'
  BY DEF RunDue, TypeOK, FlagType
<1>3. CASE StartNow \/ StartQueued
  BY <1>1, <1>2, <1>3, StartType DEF TypeOK
<1>4. CASE StartWithoutEffect /\ UNCHANGED awaits
  BY <1>1, <1>2, <1>4 DEF StartWithoutEffect, TypeOK, FlagType, LifecycleType,
     RuntimeType, WaitType
<1>5. CASE \/ StopFrom(Head(due), generation, startToken)
           \/ StopUnknown(Head(due))
  <2>1. generation \in Nat /\ startToken \in BOOLEAN
    BY DEF TypeOK, LifecycleType, FlagType
  <2> QED
    BY <1>1, <1>2, <1>5, <2>1, DueTypes, StopFromType, StopFromFlags DEF TypeOK
<1> QED
  BY <1>3, <1>4, <1>5 DEF RunDue

\* A caller's stop, whichever operation makes it, keeps every type.
LEMMA StoppingCallType ==
  ASSUME TypeOK, stop \/ replace \/ unregister \/ stopAll
  PROVE  TypeOK'
<1>1. /\ "stop" \in Calls /\ "remove" \in Calls /\ "all" \in Calls
      /\ generation \in Nat /\ generation + 1 \in Nat
      /\ startToken \in BOOLEAN /\ FALSE \in BOOLEAN
  BY Vocabulary DEF TypeOK, LifecycleType, FlagType
<1>2. \E call \in Calls, g \in Nat, token \in BOOLEAN :
        StopFrom(call, g, token) \/ StopUnknown(call)
  BY <1>1 DEF stop, replace, unregister, stopAll
<1>3. LifecycleType' /\ RuntimeType' /\ WaitType'
  BY <1>2, StopFromType DEF TypeOK
<1>4. FlagType'
  <2>1. startToken' \in BOOLEAN
    BY <1>1, <1>2, StopFromFlags
  <2> QED
    BY <2>1 DEF stop, replace, unregister, stopAll, TypeOK, FlagType
<1>5. EntryType'
  <2>1. UNCHANGED <<incarnation, due, lease>>
    BY DEF stop, replace, unregister, stopAll
  <2>2. factory' = factory \/ factory' = factory + 1
    BY DEF stop, replace, unregister, stopAll
  <2> QED
    BY <2>1, <2>2 DEF TypeOK, EntryType
<1> QED
  BY <1>3, <1>4, <1>5 DEF TypeOK

\* Every step of the manager keeps every variable's type.
LEMMA TypeStep == TypeOK /\ [Next]_vars => TypeOK'
<1> SUFFICES ASSUME TypeOK, [Next]_vars PROVE TypeOK'
  OBVIOUS
<1>1. CASE stop \/ replace \/ unregister \/ stopAll
  BY <1>1, StoppingCallType
<1>2. CASE RunDue
  BY <1>2, RunDueType
<1>3. CASE start
  <2>1. FlagType'
    BY <1>3, StartType DEF start, TypeOK, FlagType
  <2>2. EntryType'
    BY <1>3 DEF start, TypeOK, EntryType
  <2> QED
    BY <1>3, <2>1, <2>2, StartType DEF start, TypeOK
<1>4. CASE register
  <2> USE <1>4, Vocabulary DEF TypeOK, register, EndStart
  <2>1. LifecycleType'
    BY DEF LifecycleType
  <2>2. RuntimeType'
    BY DEF RuntimeType
  <2>3. WaitType'
    BY DEF WaitType
  <2>4. FlagType'
    BY DEF FlagType
  <2>5. EntryType'
    BY DEF EntryType
  <2> QED
    BY <2>1, <2>2, <2>3, <2>4, <2>5
<1>5. CASE setDefault
  <2> USE <1>5, Vocabulary DEF TypeOK, setDefault
  <2>1. LifecycleType'
    BY DEF LifecycleType
  <2>2. RuntimeType'
    BY DEF RuntimeType
  <2>3. WaitType'
    BY DEF WaitType
  <2>4. FlagType'
    BY DEF FlagType
  <2>5. EntryType'
    BY DEF EntryType
  <2> QED
    BY <2>1, <2>2, <2>3, <2>4, <2>5
<1>6. CASE FinishUnregister
  <2> USE <1>6, Vocabulary DEF TypeOK, FinishUnregister
  <2>1. LifecycleType'
    BY DEF LifecycleType
  <2>2. RuntimeType'
    BY DEF RuntimeType
  <2>3. WaitType'
    BY DEF WaitType
  <2>4. FlagType'
    BY DEF FlagType
  <2>5. EntryType'
    BY DEF EntryType
  <2> QED
    BY <2>1, <2>2, <2>3, <2>4, <2>5
<1>7. CASE markReconnecting
  <2> USE <1>7, Vocabulary DEF TypeOK, markReconnecting
  <2>1. LifecycleType'
    BY DEF LifecycleType
  <2>2. RuntimeType'
    BY DEF RuntimeType
  <2>3. WaitType'
    BY DEF WaitType
  <2>4. FlagType'
    BY DEF FlagType
  <2>5. EntryType'
    BY DEF EntryType
  <2> QED
    BY <2>1, <2>2, <2>3, <2>4, <2>5
<1>8. CASE retireFailedRuntime
  <2> USE <1>8, Vocabulary DEF TypeOK, retireFailedRuntime, CallStop
  <2>1. LifecycleType'
    BY DEF LifecycleType
  <2>2. RuntimeType'
    BY DEF RuntimeType
  <2>3. WaitType'
    BY DEF WaitType
  <2>4. FlagType'
    BY DEF FlagType
  <2>5. EntryType'
    BY DEF EntryType
  <2> QED
    BY <2>1, <2>2, <2>3, <2>4, <2>5
<1>9. CASE readyRuntimeLease
  <2> USE <1>9, Vocabulary DEF TypeOK, readyRuntimeLease
  <2>1. LifecycleType'
    BY DEF LifecycleType
  <2>2. RuntimeType'
    BY DEF RuntimeType
  <2>3. WaitType'
    BY DEF WaitType
  <2>4. FlagType'
    BY DEF FlagType
  <2>5. EntryType'
    BY DEF EntryType, LifecycleType, Leases
  <2> QED
    BY <2>1, <2>2, <2>3, <2>4, <2>5
<1>10. CASE RetiredSettles
  <2>1. WaitType' /\ EntryType'
    BY <1>10 DEF RetiredSettles, TypeOK, WaitType, EntryType
  <2>2. LifecycleType' /\ RuntimeType'
    <3>1. CASE Construct
      BY <1>10, <3>1, ConstructType DEF RetiredSettles, TypeOK, EntryType
    <3>2. CASE EndStart /\ UNCHANGED runtimeVars
      BY <1>10, <3>2, Vocabulary DEF RetiredSettles, EndStart, ClearRuntime,
         Construct, TypeOK, LifecycleType, RuntimeType
    <3> QED
      BY <1>10, <3>1, <3>2 DEF RetiredSettles
  <2>3. FlagType'
    BY <1>10 DEF RetiredSettles, EndStart, Construct, TypeOK, FlagType
  <2> QED
    BY <2>1, <2>2, <2>3 DEF TypeOK
<1>11. CASE TransportResolves
  <2> USE <1>11, Vocabulary DEF TypeOK, TransportResolves, AbandonStart,
          CallStop, EndStart
  <2>1. LifecycleType'
    BY DEF LifecycleType
  <2>2. RuntimeType'
    BY DEF RuntimeType
  <2>3. WaitType'
    BY DEF WaitType
  <2>4. FlagType'
    BY DEF FlagType
  <2>5. EntryType'
    BY DEF EntryType
  <2> QED
    BY <2>1, <2>2, <2>3, <2>4, <2>5
<1>12. CASE BackgroundResolves
  <2> USE <1>12, Vocabulary DEF TypeOK, BackgroundResolves, AbandonStart,
          CallStop, EndStart
  <2>1. LifecycleType'
    BY DEF LifecycleType
  <2>2. RuntimeType'
    BY DEF RuntimeType
  <2>3. WaitType'
    BY DEF WaitType
  <2>4. FlagType'
    BY DEF FlagType
  <2>5. EntryType'
    BY DEF EntryType
  <2> QED
    BY <2>1, <2>2, <2>3, <2>4, <2>5
<1>13. CASE StartRejects
  <2> USE <1>13, Vocabulary DEF TypeOK, StartRejects, CallStop, EndStart
  <2>1. LifecycleType'
    BY DEF LifecycleType
  <2>2. RuntimeType'
    BY DEF RuntimeType
  <2>3. WaitType'
    BY DEF WaitType
  <2>4. FlagType'
    BY DEF FlagType
  <2>5. EntryType'
    BY DEF EntryType
  <2> QED
    BY <2>1, <2>2, <2>3, <2>4, <2>5
<1>14. CASE StartCleanupSettles
  <2> USE <1>14, Vocabulary DEF TypeOK, StartCleanupSettles, EndStart,
          ClearRuntime
  <2>1. LifecycleType'
    BY DEF LifecycleType
  <2>2. RuntimeType'
    BY DEF RuntimeType
  <2>3. WaitType'
    BY DEF WaitType
  <2>4. FlagType'
    BY DEF FlagType
  <2>5. EntryType'
    BY DEF EntryType
  <2> QED
    BY <2>1, <2>2, <2>3, <2>4, <2>5
<1>15. CASE StopSettles
  <2> USE <1>15, Vocabulary DEF TypeOK, StopSettles, EndStop, BothSettled,
          ClearRuntime
  <2>1. LifecycleType'
    BY DEF LifecycleType
  <2>2. RuntimeType'
    BY DEF RuntimeType
  <2>3. WaitType'
    BY DEF WaitType
  <2>4. FlagType'
    BY DEF FlagType
  <2>5. EntryType'
    BY DEF EntryType, WaitType
  <2> QED
    BY <2>1, <2>2, <2>3, <2>4, <2>5
<1>16. CASE RetireSettles
  <2> USE <1>16, Vocabulary DEF TypeOK, RetireSettles, EndStop, BothSettled,
          ClearRuntime
  <2>1. LifecycleType'
    BY DEF LifecycleType
  <2>2. RuntimeType'
    BY DEF RuntimeType
  <2>3. WaitType'
    BY DEF WaitType
  <2>4. FlagType'
    BY DEF FlagType
  <2>5. EntryType'
    BY DEF EntryType, WaitType
  <2> QED
    BY <2>1, <2>2, <2>3, <2>4, <2>5
<1>17. CASE reportError
  <2> USE <1>17, Vocabulary DEF TypeOK, reportError
  <2>1. LifecycleType'
    BY DEF LifecycleType
  <2>2. RuntimeType'
    BY DEF RuntimeType
  <2>3. WaitType'
    BY DEF WaitType
  <2>4. FlagType'
    BY DEF FlagType
  <2>5. EntryType'
    BY DEF EntryType
  <2> QED
    BY <2>1, <2>2, <2>3, <2>4, <2>5
<1>18. ASSUME NEW r \in Runtimes, RuntimeStopSettles(r) PROVE TypeOK'
  <2> USE <1>18, Vocabulary DEF TypeOK, RuntimeStopSettles
  <2>1. LifecycleType'
    BY DEF LifecycleType
  <2>2. RuntimeType'
    BY DEF RuntimeType
  <2>3. WaitType'
    BY DEF WaitType
  <2>4. FlagType'
    BY DEF FlagType
  <2>5. EntryType'
    BY DEF EntryType
  <2> QED
    BY <2>1, <2>2, <2>3, <2>4, <2>5
<1>19. CASE UNCHANGED vars
  BY <1>19 DEF vars, TypeOK, LifecycleType, RuntimeType, WaitType,
     FlagType, EntryType
<1> QED
  BY <1>1, <1>2, <1>3, <1>4, <1>5, <1>6, <1>7, <1>8, <1>9, <1>10, <1>11,
     <1>12, <1>13, <1>14, <1>15, <1>16, <1>17, <1>18, <1>19
     DEF Next, Callers, StartSteps, StopSteps

\* TypeOK is an invariant of the connection manager.
THEOREM TypeCorrect == Safety => []TypeOK
<1>1. Init => TypeOK
  BY TypeInit
<1>2. TypeOK /\ [Next]_vars => TypeOK'
  BY TypeStep
<1> QED
  BY <1>1, <1>2, PTL DEF Safety

-----------------------------------------------------------------------------
(* The queues behind a stop task: facts about sequences of calls.          *)

\* Appending a call adds it once, where it was not queued before.
LEMMA AppendOnce ==
  ASSUME NEW queue \in Seq(Calls), NEW call \in Calls, NEW k
  PROVE  /\ Has(Append(queue, call), k) <=> Has(queue, k) \/ call = k
         /\ Once(queue, k) /\ (call = k => ~Has(queue, k))
              => Once(Append(queue, call), k)
<1> DEFINE longer == Append(queue, call)
<1>1. /\ DOMAIN queue = 1 .. Len(queue) /\ Len(queue) \in Nat
      /\ DOMAIN longer = 1 .. (Len(queue) + 1)
      /\ longer[Len(queue) + 1] = call
      /\ \A i \in DOMAIN queue : longer[i] = queue[i]
  OBVIOUS
<1> HIDE DEF longer
<1>2. Has(longer, k) <=> Has(queue, k) \/ call = k
  BY <1>1 DEF Has
<1>3. Once(queue, k) /\ (call = k => ~Has(queue, k)) => Once(longer, k)
  BY <1>1 DEF Once, Has
<1> QED
  BY <1>2, <1>3 DEF longer

\* Taking the head leaves each of the other calls where it was, and not the head.
LEMMA TailOnce ==
  ASSUME NEW queue \in Seq(Calls), queue # <<>>, NEW k
  PROVE  /\ Has(Tail(queue), k) => Has(queue, k)
         /\ Has(queue, k) => Head(queue) = k \/ Has(Tail(queue), k)
         /\ Once(queue, k) => Once(Tail(queue), k)
         /\ Once(queue, k) /\ Head(queue) = k => ~Has(Tail(queue), k)
<1> DEFINE rest == Tail(queue)
<1>1. /\ DOMAIN queue = 1 .. Len(queue) /\ Len(queue) \in Nat /\ Len(queue) > 0
      /\ DOMAIN rest = 1 .. (Len(queue) - 1)
      /\ Head(queue) = queue[1]
      /\ \A i \in DOMAIN rest : rest[i] = queue[i + 1]
  OBVIOUS
<1> HIDE DEF rest
<1>2. Has(rest, k) => Has(queue, k)
  BY <1>1 DEF Has
<1>3. Has(queue, k) => Head(queue) = k \/ Has(rest, k)
  <2> SUFFICES ASSUME NEW i \in DOMAIN queue, queue[i] = k, i # 1
               PROVE  Has(rest, k)
    BY <1>1 DEF Has
  <2>1. i - 1 \in DOMAIN rest /\ rest[i - 1] = k
    BY <1>1
  <2> QED
    BY <2>1 DEF Has
<1>4. Once(queue, k) => Once(rest, k)
  <2> SUFFICES ASSUME Once(queue, k), NEW i \in DOMAIN rest, NEW j \in DOMAIN rest,
                      rest[i] = k, rest[j] = k
               PROVE  i = j
    BY DEF Once
  <2>1. /\ i + 1 \in DOMAIN queue /\ j + 1 \in DOMAIN queue
        /\ queue[i + 1] = k /\ queue[j + 1] = k
    BY <1>1
  <2>2. i + 1 = j + 1
    BY <2>1 DEF Once
  <2> QED
    BY <1>1, <2>2
<1>5. Once(queue, k) /\ Head(queue) = k => ~Has(rest, k)
  <2> SUFFICES ASSUME Once(queue, k), queue[1] = k, NEW i \in DOMAIN rest,
                      rest[i] = k
               PROVE  FALSE
    BY <1>1 DEF Has
  <2>1. /\ 1 \in DOMAIN queue /\ i + 1 \in DOMAIN queue
        /\ queue[i + 1] = k /\ i + 1 # 1
    BY <1>1
  <2> QED
    BY <2>1 DEF Once
<1> QED
  BY <1>2, <1>3, <1>4, <1>5 DEF rest

\* Joining two queues that share no call keeps each call single.
LEMMA JoinOnce ==
  ASSUME NEW first \in Seq(Calls), NEW second \in Seq(Calls), NEW k
  PROVE  /\ Has(first \o second, k) <=> Has(first, k) \/ Has(second, k)
         /\ Once(first, k) /\ Once(second, k) /\ ~(Has(first, k) /\ Has(second, k))
              => Once(first \o second, k)
<1> DEFINE both == first \o second
<1>1. /\ DOMAIN first = 1 .. Len(first) /\ Len(first) \in Nat
      /\ DOMAIN second = 1 .. Len(second) /\ Len(second) \in Nat
      /\ DOMAIN both = 1 .. (Len(first) + Len(second))
      /\ \A i \in DOMAIN both :
           both[i] = IF i <= Len(first) THEN first[i] ELSE second[i - Len(first)]
  OBVIOUS
<1> HIDE DEF both
<1>2. \A i \in DOMAIN both : both[i] = k =>
        \/ i \in DOMAIN first /\ first[i] = k
        \/ i - Len(first) \in DOMAIN second /\ second[i - Len(first)] = k
  BY <1>1
<1>3. \A i \in DOMAIN first : i \in DOMAIN both /\ both[i] = first[i]
  BY <1>1
<1>4. \A i \in DOMAIN second :
        i + Len(first) \in DOMAIN both /\ both[i + Len(first)] = second[i]
  BY <1>1
<1>5. Has(both, k) <=> Has(first, k) \/ Has(second, k)
  BY <1>2, <1>3, <1>4 DEF Has
<1>6. ASSUME Once(first, k), Once(second, k), ~(Has(first, k) /\ Has(second, k))
      PROVE  Once(both, k)
  <2> SUFFICES ASSUME NEW i \in DOMAIN both, NEW j \in DOMAIN both,
                      both[i] = k, both[j] = k
               PROVE  i = j
    BY DEF Once
  <2>1. CASE i \in DOMAIN first /\ first[i] = k
    BY <1>2, <1>6, <2>1 DEF Once, Has
  <2>2. CASE i - Len(first) \in DOMAIN second /\ second[i - Len(first)] = k
    <3>1. j - Len(first) \in DOMAIN second /\ second[j - Len(first)] = k
      BY <1>2, <1>6, <2>2 DEF Has
    <3>2. i - Len(first) = j - Len(first)
      BY <1>6, <2>2, <3>1 DEF Once
    <3> QED
      BY <1>1, <3>2
  <2> QED
    BY <1>2, <2>1, <2>2
<1> QED
  BY <1>5, <1>6 DEF both

\* Nothing is queued in an empty queue.
LEMMA EmptyOnce == \A k : ~Has(<<>>, k) /\ Once(<<>>, k)
BY DEF Has, Once


\* The call whose turn has come was queued: its unregister() or stopAll() is
\* still waiting.
LEMMA HeadIsQueued ==
  ASSUME TypeOK, QueueInv, due # <<>>
  PROVE  Head(due) \in {"remove", "all"} => awaits[Head(due)] = "queued"
<1>1. Has(due, Head(due))
  BY DEF Has, TypeOK, EntryType
<1> QED
  BY <1>1 DEF QueueInv

\* The queues while `call` is in neither of them.
Without(call, rest) ==
  \A k \in {"remove", "all"} :
    /\ k # call /\ (Has(waiters, k) \/ Has(rest, k)) => awaits[k] = "queued"
    /\ ~(Has(waiters, k) /\ Has(rest, k))
    /\ Once(waiters, k) /\ Once(rest, k)
    /\ k = call => ~Has(waiters, k) /\ ~Has(rest, k)

\* A stop() on behalf of a call that is not queued keeps the queues.
LEMMA StopQueues ==
  ASSUME WaitType, NEW call \in Calls, NEW g, NEW token, Without(call, due'),
         StopFrom(call, g, token) \/ StopUnknown(call)
  PROVE  QueueInv'
<1> SUFFICES ASSUME NEW k \in {"remove", "all"}
             PROVE  /\ Has(waiters', k) \/ Has(due', k) => awaits'[k] = "queued"
                    /\ ~(Has(waiters', k) /\ Has(due', k))
                    /\ Once(waiters', k) /\ Once(due', k)
  BY DEF QueueInv
<1>1. CASE waiters' = waiters
  <2>1. k # call => awaits'[k] = awaits[k]
    BY DEF StopFrom, StopUnknown, StopJoins, StopIdle, StopBegins, Await,
           WaitType
  <2> QED
    BY <1>1, <2>1 DEF Without
<1>2. CASE waiters' = Append(waiters, call) /\ Await(call, "queued")
  <2>1. awaits'[k] = IF k = call THEN "queued" ELSE awaits[k]
    BY <1>2 DEF Await, WaitType
  <2>2. waiters \in Seq(Calls)
    BY DEF WaitType
  <2> QED
    BY <1>2, <2>1, <2>2, AppendOnce DEF Without
<1> QED
  BY <1>1, <1>2 DEF StopFrom, StopUnknown, StopJoins, StopIdle, StopBegins

\* So does a start(), which is no call that the invariant counts.
LEMMA StartQueues ==
  ASSUME WaitType, Without("start", due'), UNCHANGED awaits,
         waiters' = waiters \/ waiters' = Append(waiters, "start")
  PROVE  QueueInv'
<1>1. waiters \in Seq(Calls) /\ "start" \in Calls
  BY DEF WaitType, Calls
<1>2. ASSUME NEW k \in {"remove", "all"}
      PROVE  (Has(waiters', k) <=> Has(waiters, k)) /\ Once(waiters', k)
  <2>1. k # "start" /\ Once(waiters, k)
    BY DEF Without
  <2>2. CASE waiters' = waiters
    BY <2>1, <2>2
  <2>3. CASE waiters' = Append(waiters, "start")
    BY <1>1, <2>1, <2>3, AppendOnce
  <2> QED
    BY <2>2, <2>3
<1> QED
  BY <1>2 DEF Without, QueueInv

\* The end of a stop task hands its queue over, or rejects it.
LEMMA EndQueues ==
  ASSUME TypeOK, QueueInv, NEW fulfilled \in BOOLEAN, EndStop(fulfilled)
  PROVE  QueueInv'
<1> SUFFICES ASSUME NEW k \in {"remove", "all"}
             PROVE  /\ Has(waiters', k) \/ Has(due', k) => awaits'[k] = "queued"
                    /\ ~(Has(waiters', k) /\ Has(due', k))
                    /\ Once(waiters', k) /\ Once(due', k)
  BY DEF QueueInv
<1>1. waiters \in Seq(Calls) /\ due \in Seq(Calls)
  BY DEF TypeOK, WaitType, EntryType
<1>2. ~Has(waiters', k) /\ Once(waiters', k)
  BY EmptyOnce DEF EndStop
<1>3. /\ Has(waiters, k) \/ Has(due, k) => awaits[k] = "queued"
      /\ ~(Has(waiters, k) /\ Has(due, k))
      /\ Once(waiters, k) /\ Once(due, k)
  BY DEF QueueInv
<1>4. CASE fulfilled
  <2>1. due' = due \o waiters
    BY <1>4 DEF EndStop
  <2>2. awaits[k] = "queued" => awaits'[k] = "queued"
    BY <1>4 DEF EndStop
  <2> QED
    BY <1>1, <1>2, <1>3, <2>1, <2>2, JoinOnce
<1>5. CASE ~fulfilled
  <2>1. due' = due
    BY <1>5 DEF EndStop
  <2>2. awaits[k] = "queued" /\ ~Has(waiters, k) => awaits'[k] = "queued"
    BY <1>5 DEF EndStop
  <2> QED
    BY <1>2, <1>3, <2>1, <2>2
<1> QED
  BY <1>4, <1>5

\* The queues with the head of `due` taken off.
LEMMA DueWithoutHead ==
  ASSUME TypeOK, QueueInv, due # <<>>, due' = Tail(due)
  PROVE  Without(Head(due), due')
<1>1. due \in Seq(Calls)
  BY DEF TypeOK, EntryType
<1>2. Has(due, Head(due))
  BY <1>1 DEF Has
<1> SUFFICES ASSUME NEW k \in {"remove", "all"}
             PROVE  /\ k # Head(due) /\ (Has(waiters, k) \/ Has(due', k))
                         => awaits[k] = "queued"
                    /\ ~(Has(waiters, k) /\ Has(due', k))
                    /\ Once(waiters, k) /\ Once(due', k)
                    /\ k = Head(due) => ~Has(waiters, k) /\ ~Has(due', k)
  BY DEF Without
<1>3. /\ Has(due', k) => Has(due, k)
      /\ Once(due, k) => Once(due', k)
      /\ Once(due, k) /\ Head(due) = k => ~Has(due', k)
  BY <1>1, TailOnce
<1> QED
  BY <1>2, <1>3 DEF QueueInv

\* Every step keeps the queues.
LEMMA QueueStep ==
  ASSUME TypeOK, QueueInv, [Next]_vars
  PROVE  QueueInv'
<1> USE DEF queueVars
<1>1. CASE UNCHANGED queueVars
  BY <1>1 DEF QueueInv
<1>2. CASE FinishUnregister
  BY <1>2 DEF FinishUnregister, QueueInv, TypeOK, WaitType
<1>3. CASE start
  <2>1. Without("start", due')
    BY <1>3 DEF start, Without, QueueInv
  <2> QED
    BY <1>3, <2>1, StartQueues
       DEF start, StartNow, StartQueued, QueueCall, TypeOK
<1>4. ASSUME NEW call \in {"stop", "remove", "all"}, NEW g, NEW token,
             StopFrom(call, g, token) \/ StopUnknown(call), due' = due,
             call # "stop" => awaits[call] = "none"
      PROVE  QueueInv'
  <2>1. Without(call, due')
    BY <1>4 DEF Without, QueueInv
  <2> QED
    BY <1>4, <2>1, StopQueues DEF TypeOK, Calls
<1>5. CASE stop \/ replace
  BY <1>4, <1>5 DEF stop, replace
<1>6. CASE unregister \/ stopAll
  BY <1>4, <1>6 DEF unregister, stopAll, removing, stoppingAll
<1>7. CASE StopSettles \/ RetireSettles
  BY <1>7, EndQueues DEF StopSettles, RetireSettles
<1>8. CASE RunDue
  <2>1. Without(Head(due), due') /\ Head(due) \in Calls
    BY <1>8, DueTypes, DueWithoutHead DEF RunDue
  <2>2. CASE Head(due) = "start"
    BY <1>8, <2>1, <2>2, StartQueues
       DEF RunDue, StartNow, StartQueued, StartWithoutEffect, QueueCall, TypeOK
  <2>3. CASE Head(due) # "start"
    BY <1>8, <2>1, <2>3, StopQueues DEF RunDue, TypeOK
  <2> QED
    BY <2>2, <2>3
<1>9. CASE register \/ setDefault \/ markReconnecting \/ retireFailedRuntime
           \/ readyRuntimeLease \/ reportError
  BY <1>1, <1>9 DEF register, setDefault, markReconnecting,
     retireFailedRuntime, readyRuntimeLease, reportError
<1>10. CASE StartSteps
  BY <1>1, <1>10 DEF StartSteps, RetiredSettles, TransportResolves,
     BackgroundResolves, StartRejects, StartCleanupSettles
<1>11. CASE \E r \in Runtimes : RuntimeStopSettles(r)
  BY <1>1, <1>11 DEF RuntimeStopSettles
<1>12. CASE UNCHANGED vars
  BY <1>1, <1>12 DEF vars
<1> QED
  BY <1>2, <1>3, <1>5, <1>6, <1>7, <1>8, <1>9, <1>10, <1>11, <1>12
     DEF Next, Callers, StopSteps

-----------------------------------------------------------------------------
(* The inductive invariant: one lemma per action, one step per conjunct.   *)

\* From here on the enumerations and the abbreviations are expanded too.
USE DEF States, StartPoints, Waits, Calls, Settled, Failed, removing,
        stoppingAll, Quiet, IsCurrent, LeaseCurrent

\* A manager whose entry was just registered satisfies the invariant.
LEMMA InvInit == Init => IInv
<1> SUFFICES ASSUME Init PROVE IInv
  OBVIOUS
<1>1. TypeOK
  BY TypeInit
<1>2. StartInv /\ StopInv /\ RuntimeInv /\ CurrentInv
  BY DEF Init, StartInv, StopInv, RuntimeInv, CurrentInv
<1>3. StateInv /\ ClosingInv /\ LeaseInv
  BY DEF Init, StateInv, ClosingInv, LeaseInv
<1>4. QueueInv
  BY EmptyOnce DEF Init, QueueInv
<1> QED
  BY <1>1, <1>2, <1>3, <1>4 DEF IInv, TaskInv

\* register preserves the invariant.
LEMMA RegisterKeeps ==
  ASSUME IInv, TypeOK', register
  PROVE  TaskInv'
<1> USE DEF IInv, TaskInv, TypeOK, LifecycleType, RuntimeType, register,
        EndStart
<1>1. StartInv'
  BY DEF StartInv
<1>2. StopInv'
  BY DEF StopInv
<1>3. RuntimeInv'
  BY DEF RuntimeInv
<1>4. CurrentInv'
  BY DEF CurrentInv
<1>5. StateInv'
  BY DEF StateInv, ClosingInv
<1>6. ClosingInv'
  BY DEF ClosingInv, WaitType
<1>7. LeaseInv'
  BY DEF LeaseInv, EntryType, Leases
<1> QED
  BY <1>1, <1>2, <1>3, <1>4, <1>5, <1>6, <1>7 DEF TaskInv

\* setDefault preserves the invariant.
LEMMA SetDefaultKeeps ==
  ASSUME IInv, TypeOK', setDefault
  PROVE  TaskInv'
<1> USE DEF IInv, TaskInv, TypeOK, LifecycleType, RuntimeType, setDefault
<1>1. StartInv'
  BY DEF StartInv
<1>2. StopInv'
  BY DEF StopInv
<1>3. RuntimeInv'
  BY DEF RuntimeInv
<1>4. CurrentInv'
  BY DEF CurrentInv
<1>5. StateInv'
  BY DEF StateInv
<1>6. ClosingInv'
  BY DEF ClosingInv, WaitType
<1>7. LeaseInv'
  BY DEF LeaseInv, EntryType, Leases
<1> QED
  BY <1>1, <1>2, <1>3, <1>4, <1>5, <1>6, <1>7 DEF TaskInv

\* start preserves the invariant.
LEMMA StartKeeps ==
  ASSUME IInv, TypeOK', start
  PROVE  TaskInv'
<1> USE DEF IInv, TaskInv, TypeOK, LifecycleType, RuntimeType, start,
        StartNow, StartQueued, StartAccepted, BeginStart, Construct,
        RetireLeftover, CallStop, EndStart, QueueCall
<1>1. StartInv'
  BY DEF StartInv
<1>2. StopInv'
  BY DEF StopInv
<1>3. RuntimeInv'
  BY DEF StartInv, RuntimeInv
<1>4. CurrentInv'
  BY DEF RuntimeInv, CurrentInv
<1>5. StateInv'
  BY DEF StateInv
<1>6. ClosingInv'
  BY DEF ClosingInv, WaitType
<1>7. LeaseInv'
  BY DEF StartInv, StopInv, RuntimeInv, CurrentInv, StateInv, ClosingInv,
     LeaseInv, EntryType, Leases
<1> QED
  BY <1>1, <1>2, <1>3, <1>4, <1>5, <1>6, <1>7 DEF TaskInv

\* stop preserves the invariant.
LEMMA StopKeeps ==
  ASSUME IInv, TypeOK', stop
  PROVE  TaskInv'
<1> USE DEF IInv, TaskInv, TypeOK, LifecycleType, RuntimeType, stop, StopFrom,
        StopJoins, StopIdle, StopBegins, Await, CallStop
<1>1. StartInv'
  BY DEF StartInv
<1>2. StopInv'
  BY DEF StopInv, RuntimeInv
<1>3. RuntimeInv'
  BY DEF RuntimeInv
<1>4. CurrentInv'
  BY DEF RuntimeInv, CurrentInv
<1>5. StateInv'
  BY DEF StateInv
<1>6. ClosingInv'
  BY DEF ClosingInv, WaitType
<1>7. LeaseInv'
  BY DEF LeaseInv, EntryType, Leases
<1> QED
  BY <1>1, <1>2, <1>3, <1>4, <1>5, <1>6, <1>7 DEF TaskInv

\* replace preserves the invariant.
LEMMA ReplaceKeeps ==
  ASSUME IInv, TypeOK', replace
  PROVE  TaskInv'
<1> USE DEF IInv, TaskInv, TypeOK, LifecycleType, RuntimeType, replace,
        StopFrom, StopJoins, StopIdle, StopBegins, Await, CallStop
<1>1. StartInv'
  BY DEF StartInv
<1>2. StopInv'
  BY DEF StopInv, RuntimeInv
<1>3. RuntimeInv'
  BY DEF RuntimeInv
<1>4. CurrentInv'
  BY DEF RuntimeInv, CurrentInv
<1>5. StateInv'
  BY DEF CurrentInv, StateInv
<1>6. ClosingInv'
  BY DEF ClosingInv, WaitType
<1>7. LeaseInv'
  BY DEF LeaseInv, EntryType, Leases
<1> QED
  BY <1>1, <1>2, <1>3, <1>4, <1>5, <1>6, <1>7 DEF TaskInv

\* unregister preserves the invariant.
LEMMA UnregisterKeeps ==
  ASSUME IInv, TypeOK', unregister
  PROVE  TaskInv'
<1> USE DEF IInv, TaskInv, TypeOK, LifecycleType, RuntimeType, unregister,
        StopFrom, StopJoins, StopIdle, StopBegins, Await, CallStop
<1>1. StartInv'
  BY DEF StartInv
<1>2. StopInv'
  BY DEF StopInv, RuntimeInv
<1>3. RuntimeInv'
  BY DEF RuntimeInv
<1>4. CurrentInv'
  BY DEF RuntimeInv, CurrentInv
<1>5. StateInv'
  BY DEF StateInv
<1>6. ClosingInv'
  BY DEF ClosingInv, WaitType
<1>7. LeaseInv'
  BY DEF LeaseInv, EntryType, Leases
<1> QED
  BY <1>1, <1>2, <1>3, <1>4, <1>5, <1>6, <1>7 DEF TaskInv

\* FinishUnregister preserves the invariant.
LEMMA FinishUnregisterKeeps ==
  ASSUME IInv, TypeOK', FinishUnregister
  PROVE  TaskInv'
<1> USE DEF IInv, TaskInv, TypeOK, LifecycleType, RuntimeType,
        FinishUnregister
<1>1. StartInv'
  BY DEF StartInv
<1>2. StopInv'
  BY DEF StopInv
<1>3. RuntimeInv'
  BY DEF RuntimeInv, ClosingInv
<1>4. CurrentInv'
  BY DEF CurrentInv
<1>5. StateInv'
  BY DEF StateInv, ClosingInv
<1>6. ClosingInv'
  BY DEF ClosingInv, WaitType
<1>7. LeaseInv'
  BY DEF LeaseInv, EntryType, Leases
<1> QED
  BY <1>1, <1>2, <1>3, <1>4, <1>5, <1>6, <1>7 DEF TaskInv

\* stopAll preserves the invariant.
LEMMA StopAllKeeps ==
  ASSUME IInv, TypeOK', stopAll
  PROVE  TaskInv'
<1> USE DEF IInv, TaskInv, TypeOK, LifecycleType, RuntimeType, stopAll,
        StopFrom, StopUnknown, StopJoins, StopIdle, StopBegins, Await,
        CallStop
<1>1. StartInv'
  BY DEF StartInv
<1>2. StopInv'
  BY DEF StopInv, RuntimeInv
<1>3. RuntimeInv'
  BY DEF RuntimeInv
<1>4. CurrentInv'
  BY DEF RuntimeInv, CurrentInv
<1>5. StateInv'
  BY DEF StateInv
<1>6. ClosingInv'
  BY DEF ClosingInv, WaitType
<1>7. LeaseInv'
  BY DEF LeaseInv, EntryType, Leases
<1> QED
  BY <1>1, <1>2, <1>3, <1>4, <1>5, <1>6, <1>7 DEF TaskInv

\* markReconnecting preserves the invariant.
LEMMA MarkReconnectingKeeps ==
  ASSUME IInv, TypeOK', markReconnecting
  PROVE  TaskInv'
<1> USE DEF IInv, TaskInv, TypeOK, LifecycleType, RuntimeType,
        markReconnecting
<1>1. StartInv'
  BY DEF StartInv
<1>2. StopInv'
  BY DEF StopInv
<1>3. RuntimeInv'
  BY DEF RuntimeInv
<1>4. CurrentInv'
  BY DEF CurrentInv
<1>5. StateInv'
  BY DEF StateInv
<1>6. ClosingInv'
  BY DEF ClosingInv, WaitType
<1>7. LeaseInv'
  BY DEF LeaseInv, EntryType, Leases
<1> QED
  BY <1>1, <1>2, <1>3, <1>4, <1>5, <1>6, <1>7 DEF TaskInv

\* retireFailedRuntime preserves the invariant.
LEMMA RetireFailedRuntimeKeeps ==
  ASSUME IInv, TypeOK', retireFailedRuntime
  PROVE  TaskInv'
<1> USE DEF IInv, TaskInv, TypeOK, LifecycleType, RuntimeType,
        retireFailedRuntime, CallStop
<1>1. StartInv'
  BY DEF StartInv
<1>2. StopInv'
  BY DEF StopInv, RuntimeInv
<1>3. RuntimeInv'
  BY DEF RuntimeInv
<1>4. CurrentInv'
  BY DEF CurrentInv
<1>5. StateInv'
  BY DEF StateInv
<1>6. ClosingInv'
  BY DEF ClosingInv, WaitType
<1>7. LeaseInv'
  BY DEF LeaseInv, EntryType, Leases
<1> QED
  BY <1>1, <1>2, <1>3, <1>4, <1>5, <1>6, <1>7 DEF TaskInv

\* readyRuntimeLease preserves the invariant.
LEMMA ReadyRuntimeLeaseKeeps ==
  ASSUME IInv, TypeOK', readyRuntimeLease
  PROVE  TaskInv'
<1> USE DEF IInv, TaskInv, TypeOK, LifecycleType, RuntimeType,
        readyRuntimeLease
<1>1. StartInv'
  BY DEF StartInv
<1>2. StopInv'
  BY DEF StopInv
<1>3. RuntimeInv'
  BY DEF RuntimeInv
<1>4. CurrentInv'
  BY DEF CurrentInv
<1>5. StateInv'
  BY DEF StateInv
<1>6. ClosingInv'
  BY DEF ClosingInv, WaitType
<1>7. LeaseInv'
  BY DEF LeaseInv, EntryType, Leases
<1> QED
  BY <1>1, <1>2, <1>3, <1>4, <1>5, <1>6, <1>7 DEF TaskInv

\* RetiredSettles preserves the invariant.
LEMMA RetiredSettlesKeeps ==
  ASSUME IInv, TypeOK', RetiredSettles
  PROVE  TaskInv'
<1> USE DEF IInv, TaskInv, TypeOK, LifecycleType, RuntimeType, RetiredSettles,
        Construct, EndStart, ClearRuntime
<1>1. StartInv'
  BY DEF StartInv
<1>2. StopInv'
  BY DEF StartInv, StopInv
<1>3. RuntimeInv'
  BY DEF StartInv, RuntimeInv
<1>4. CurrentInv'
  BY DEF StartInv, CurrentInv
<1>5. StateInv'
  BY DEF StartInv, StopInv, RuntimeInv, CurrentInv, StateInv, ClosingInv,
     LeaseInv
<1>6. ClosingInv'
  BY DEF ClosingInv, WaitType
<1>7. LeaseInv'
  BY DEF CurrentInv, StateInv, LeaseInv, EntryType, Leases
<1> QED
  BY <1>1, <1>2, <1>3, <1>4, <1>5, <1>6, <1>7 DEF TaskInv

\* TransportResolves preserves the invariant.
LEMMA TransportResolvesKeeps ==
  ASSUME IInv, TypeOK', TransportResolves
  PROVE  TaskInv'
<1> USE DEF IInv, TaskInv, TypeOK, LifecycleType, RuntimeType,
        TransportResolves, AbandonStart, CallStop, EndStart
<1>1. StartInv'
  BY DEF StartInv
<1>2. StopInv'
  BY DEF StopInv
<1>3. RuntimeInv'
  BY DEF RuntimeInv
<1>4. CurrentInv'
  BY DEF StartInv, CurrentInv
<1>5. StateInv'
  BY DEF StateInv
<1>6. ClosingInv'
  BY DEF ClosingInv, WaitType
<1>7. LeaseInv'
  BY DEF LeaseInv, EntryType, Leases
<1> QED
  BY <1>1, <1>2, <1>3, <1>4, <1>5, <1>6, <1>7 DEF TaskInv

\* BackgroundResolves preserves the invariant.
LEMMA BackgroundResolvesKeeps ==
  ASSUME IInv, TypeOK', BackgroundResolves
  PROVE  TaskInv'
<1> USE DEF IInv, TaskInv, TypeOK, LifecycleType, RuntimeType,
        BackgroundResolves, AbandonStart, CallStop, EndStart
<1>1. StartInv'
  BY DEF StartInv
<1>2. StopInv'
  BY DEF StopInv
<1>3. RuntimeInv'
  BY DEF RuntimeInv
<1>4. CurrentInv'
  BY DEF StartInv, CurrentInv
<1>5. StateInv'
  BY DEF StartInv, StateInv
<1>6. ClosingInv'
  BY DEF ClosingInv, WaitType
<1>7. LeaseInv'
  BY DEF LeaseInv, EntryType, Leases
<1> QED
  BY <1>1, <1>2, <1>3, <1>4, <1>5, <1>6, <1>7 DEF TaskInv

\* StartRejects preserves the invariant.
LEMMA StartRejectsKeeps ==
  ASSUME IInv, TypeOK', StartRejects
  PROVE  TaskInv'
<1> USE DEF IInv, TaskInv, TypeOK, LifecycleType, RuntimeType, StartRejects,
        CallStop, EndStart
<1>1. StartInv'
  BY DEF StartInv
<1>2. StopInv'
  BY DEF StopInv
<1>3. RuntimeInv'
  BY DEF RuntimeInv
<1>4. CurrentInv'
  BY DEF StartInv, CurrentInv
<1>5. StateInv'
  BY DEF StateInv
<1>6. ClosingInv'
  BY DEF ClosingInv, WaitType
<1>7. LeaseInv'
  BY DEF LeaseInv, EntryType, Leases
<1> QED
  BY <1>1, <1>2, <1>3, <1>4, <1>5, <1>6, <1>7 DEF TaskInv

\* StartCleanupSettles preserves the invariant.
LEMMA StartCleanupSettlesKeeps ==
  ASSUME IInv, TypeOK', StartCleanupSettles
  PROVE  TaskInv'
<1> USE DEF IInv, TaskInv, TypeOK, LifecycleType, RuntimeType,
        StartCleanupSettles, EndStart, ClearRuntime
<1>1. StartInv'
  BY DEF StartInv
<1>2. StopInv'
  BY DEF StopInv
<1>3. RuntimeInv'
  BY DEF RuntimeInv
<1>4. CurrentInv'
  BY DEF CurrentInv
<1>5. StateInv'
  BY DEF CurrentInv, StateInv
<1>6. ClosingInv'
  BY DEF ClosingInv, WaitType
<1>7. LeaseInv'
  BY DEF CurrentInv, StateInv, LeaseInv, EntryType, Leases
<1> QED
  BY <1>1, <1>2, <1>3, <1>4, <1>5, <1>6, <1>7 DEF TaskInv

\* StopSettles preserves the invariant.
LEMMA StopSettlesKeeps ==
  ASSUME IInv, TypeOK', StopSettles
  PROVE  TaskInv'
<1> USE DEF IInv, TaskInv, TypeOK, LifecycleType, RuntimeType, StopSettles,
        EndStop, BothSettled, ClearRuntime
<1>1. StartInv'
  BY DEF StartInv
<1>2. StopInv'
  BY DEF StopInv
<1>3. RuntimeInv'
  BY DEF RuntimeInv
<1>4. CurrentInv'
  BY DEF CurrentInv
<1>5. StateInv'
  BY DEF StopInv, StateInv
<1>6. ClosingInv'
  BY DEF StopInv, ClosingInv, WaitType
<1>7. LeaseInv'
  BY DEF CurrentInv, StateInv, LeaseInv, EntryType, Leases
<1> QED
  BY <1>1, <1>2, <1>3, <1>4, <1>5, <1>6, <1>7 DEF TaskInv

\* RetireSettles preserves the invariant.
LEMMA RetireSettlesKeeps ==
  ASSUME IInv, TypeOK', RetireSettles
  PROVE  TaskInv'
<1> USE DEF IInv, TaskInv, TypeOK, LifecycleType, RuntimeType, RetireSettles,
        EndStop, BothSettled, ClearRuntime
<1>1. StartInv'
  BY DEF StartInv
<1>2. StopInv'
  BY DEF StopInv
<1>3. RuntimeInv'
  BY DEF RuntimeInv
<1>4. CurrentInv'
  BY DEF CurrentInv
<1>5. StateInv'
  BY DEF StopInv, CurrentInv, StateInv
<1>6. ClosingInv'
  BY DEF StopInv, ClosingInv, WaitType
<1>7. LeaseInv'
  BY DEF CurrentInv, StateInv, LeaseInv, EntryType, Leases
<1> QED
  BY <1>1, <1>2, <1>3, <1>4, <1>5, <1>6, <1>7 DEF TaskInv

\* reportError preserves the invariant.
LEMMA ReportErrorKeeps ==
  ASSUME IInv, TypeOK', reportError
  PROVE  TaskInv'
<1> USE DEF IInv, TaskInv, TypeOK, LifecycleType, RuntimeType, reportError
<1>1. StartInv'
  BY DEF StartInv, CurrentInv
<1>2. StopInv'
  BY DEF StopInv
<1>3. RuntimeInv'
  BY DEF RuntimeInv
<1>4. CurrentInv'
  BY DEF CurrentInv
<1>5. StateInv'
  BY DEF StateInv
<1>6. ClosingInv'
  BY DEF ClosingInv, WaitType
<1>7. LeaseInv'
  BY DEF LeaseInv, EntryType, Leases
<1> QED
  BY <1>1, <1>2, <1>3, <1>4, <1>5, <1>6, <1>7 DEF TaskInv

\* RuntimeStopSettles preserves the invariant.
LEMMA RuntimeStopSettlesKeeps ==
  ASSUME IInv, TypeOK', NEW r \in Runtimes, RuntimeStopSettles(r)
  PROVE  TaskInv'
<1> USE DEF IInv, TaskInv, TypeOK, LifecycleType, RuntimeType,
        RuntimeStopSettles
<1>1. StartInv'
  BY DEF StartInv
<1>2. StopInv'
  BY DEF StopInv
<1>3. RuntimeInv'
  BY DEF RuntimeInv
<1>4. CurrentInv'
  BY DEF CurrentInv
<1>5. StateInv'
  BY DEF StateInv
<1>6. ClosingInv'
  BY DEF ClosingInv, WaitType
<1>7. LeaseInv'
  BY DEF LeaseInv, EntryType, Leases
<1> QED
  BY <1>1, <1>2, <1>3, <1>4, <1>5, <1>6, <1>7 DEF TaskInv

\* A queued call whose turn has come preserves the invariant: the case of
\* StartNow.
LEMMA DueStartKeeps ==
  ASSUME IInv, TypeOK', StartNow,
         UNCHANGED <<entryVars, factory, lease>>
  PROVE  TaskInv'
<1> USE DEF IInv, TaskInv, TypeOK, LifecycleType, RuntimeType, StartNow,
        StartAccepted, BeginStart, Construct, RetireLeftover, CallStop,
        EndStart
<1>1. StartInv'
  BY DEF StartInv
<1>2. StopInv'
  BY DEF StopInv
<1>3. RuntimeInv'
  BY DEF StartInv, RuntimeInv
<1>4. CurrentInv'
  BY DEF RuntimeInv, CurrentInv
<1>5. StateInv'
  BY DEF StateInv
<1>6. ClosingInv'
  BY DEF ClosingInv, WaitType
<1>7. LeaseInv'
  BY DEF StartInv, StopInv, RuntimeInv, CurrentInv, StateInv, ClosingInv,
     LeaseInv, EntryType, Leases
<1> QED
  BY <1>1, <1>2, <1>3, <1>4, <1>5, <1>6, <1>7 DEF TaskInv

\* A queued call whose turn has come preserves the invariant: the case of
\* StartQueued.
LEMMA DueQueueKeeps ==
  ASSUME IInv, TypeOK', StartQueued,
         UNCHANGED <<entryVars, factory, lease>>
  PROVE  TaskInv'
<1> USE DEF IInv, TaskInv, TypeOK, LifecycleType, RuntimeType, StartQueued,
        StartAccepted, QueueCall
<1>1. StartInv'
  BY DEF StartInv
<1>2. StopInv'
  BY DEF StopInv
<1>3. RuntimeInv'
  BY DEF RuntimeInv
<1>4. CurrentInv'
  BY DEF CurrentInv
<1>5. StateInv'
  BY DEF StateInv
<1>6. ClosingInv'
  BY DEF ClosingInv, WaitType
<1>7. LeaseInv'
  BY DEF LeaseInv, EntryType, Leases
<1> QED
  BY <1>1, <1>2, <1>3, <1>4, <1>5, <1>6, <1>7 DEF TaskInv

\* A queued call whose turn has come preserves the invariant: the case of
\* StartWithoutEffect.
LEMMA DueNoStartKeeps ==
  ASSUME IInv, TypeOK', StartWithoutEffect /\ UNCHANGED awaits,
         UNCHANGED <<entryVars, factory, lease>>
  PROVE  TaskInv'
<1> USE DEF IInv, TaskInv, TypeOK, LifecycleType, RuntimeType,
        StartWithoutEffect
<1>1. StartInv'
  BY DEF StartInv
<1>2. StopInv'
  BY DEF StopInv
<1>3. RuntimeInv'
  BY DEF RuntimeInv
<1>4. CurrentInv'
  BY DEF CurrentInv
<1>5. StateInv'
  BY DEF StateInv
<1>6. ClosingInv'
  BY DEF ClosingInv, WaitType
<1>7. LeaseInv'
  BY DEF LeaseInv, EntryType, Leases
<1> QED
  BY <1>1, <1>2, <1>3, <1>4, <1>5, <1>6, <1>7 DEF TaskInv

\* A queued call whose turn has come preserves the invariant: the case of
\* StopFrom.
LEMMA DueStopKeeps ==
  ASSUME IInv, TypeOK', NEW call \in Calls, registered,
         call \in {"remove", "all"} => awaits[call] = "queued",
         StopFrom(call, generation, startToken),
         UNCHANGED <<entryVars, factory, lease>>
  PROVE  TaskInv'
<1> USE DEF IInv, TaskInv, TypeOK, LifecycleType, RuntimeType, StopFrom,
        StopJoins, StopIdle, StopBegins, Await, CallStop
<1>1. StartInv'
  BY DEF StartInv
<1>2. StopInv'
  BY DEF StopInv, RuntimeInv
<1>3. RuntimeInv'
  BY DEF RuntimeInv
<1>4. CurrentInv'
  BY DEF RuntimeInv, CurrentInv
<1>5. StateInv'
  BY DEF StateInv
<1>6. ClosingInv'
  BY DEF ClosingInv, WaitType
<1>7. LeaseInv'
  BY DEF LeaseInv, EntryType, Leases
<1> QED
  BY <1>1, <1>2, <1>3, <1>4, <1>5, <1>6, <1>7 DEF TaskInv

\* A queued call whose turn has come preserves the invariant: the case of
\* StopUnknown.
LEMMA DueUnknownKeeps ==
  ASSUME IInv, TypeOK', NEW call \in Calls, ~registered,
         call \in {"remove", "all"} => awaits[call] = "queued",
         StopUnknown(call),
         UNCHANGED <<entryVars, factory, lease>>
  PROVE  TaskInv'
<1> USE DEF IInv, TaskInv, TypeOK, LifecycleType, RuntimeType, StopUnknown,
        Await
<1>1. StartInv'
  BY DEF StartInv
<1>2. StopInv'
  BY DEF StopInv
<1>3. RuntimeInv'
  BY DEF RuntimeInv
<1>4. CurrentInv'
  BY DEF CurrentInv
<1>5. StateInv'
  BY DEF StateInv
<1>6. ClosingInv'
  BY DEF ClosingInv, WaitType
<1>7. LeaseInv'
  BY DEF LeaseInv, EntryType, Leases
<1> QED
  BY <1>1, <1>2, <1>3, <1>4, <1>5, <1>6, <1>7 DEF TaskInv

\* RunDue preserves the invariant.
LEMMA RunDueKeeps ==
  ASSUME IInv, TypeOK', RunDue
  PROVE  TaskInv'
<1>1. Head(due) \in Calls
  BY DueTypes DEF IInv
<1>2. Head(due) \in {"remove", "all"} => awaits[Head(due)] = "queued"
  BY HeadIsQueued DEF IInv, RunDue
<1> QED
  BY <1>1, <1>2, DueStartKeeps, DueQueueKeeps, DueNoStartKeeps, DueStopKeeps,
     DueUnknownKeeps DEF RunDue

\* Every step preserves the invariant.
LEMMA InvStep == IInv /\ [Next]_vars => IInv'
<1> SUFFICES ASSUME IInv, [Next]_vars PROVE IInv'
  OBVIOUS
<1>1. TypeOK'
  BY TypeStep DEF IInv
<1>2. QueueInv'
  BY <1>1, QueueStep DEF IInv
<1> SUFFICES TaskInv'
  BY <1>1, <1>2 DEF IInv
<1>3. CASE Callers
  BY <1>1, <1>3, RegisterKeeps, SetDefaultKeeps, StartKeeps, StopKeeps,
     ReplaceKeeps, UnregisterKeeps, StopAllKeeps, MarkReconnectingKeeps,
     RetireFailedRuntimeKeeps, ReadyRuntimeLeaseKeeps
     DEF Callers
<1>4. CASE StartSteps
  BY <1>1, <1>4, RetiredSettlesKeeps, TransportResolvesKeeps,
     BackgroundResolvesKeeps, StartRejectsKeeps, StartCleanupSettlesKeeps
     DEF StartSteps
<1>5. CASE StopSteps
  BY <1>1, <1>5, StopSettlesKeeps, RetireSettlesKeeps, FinishUnregisterKeeps,
     RunDueKeeps
     DEF StopSteps
<1>6. CASE reportError
  BY <1>1, <1>6, ReportErrorKeeps
<1>7. CASE \E r \in Runtimes : RuntimeStopSettles(r)
  BY <1>1, <1>7, RuntimeStopSettlesKeeps
<1>8. CASE UNCHANGED vars
  BY <1>8 DEF vars, IInv, TaskInv, StartInv, StopInv, RuntimeInv, CurrentInv,
     StateInv, ClosingInv, LeaseInv
<1> QED
  BY <1>3, <1>4, <1>5, <1>6, <1>7, <1>8 DEF Next

\* IInv is an invariant of the connection manager.
THEOREM Invariance == Safety => []IInv
<1>1. Init => IInv
  BY InvInit
<1>2. IInv /\ [Next]_vars => IInv'
  BY InvStep
<1> QED
  BY <1>1, <1>2, PTL DEF Safety

-----------------------------------------------------------------------------
(* The safety properties. *)

\* A lease that says it is current has a live runtime of the current factory.
THEOREM LeaseSafety == Safety => []LeaseIsLive
<1>1. IInv => LeaseIsLive
  BY DEF IInv, TaskInv, TypeOK, EntryType, Leases, CurrentInv, StateInv,
     LeaseIsLive
<1> QED
  BY <1>1, Invariance, PTL

\* No runtime is lost before its stop has settled, and no two are alive.
THEOREM RuntimesAccountedFor == Safety => []NoRuntimeLost
<1>1. IInv => NoRuntimeLost
  BY DEF IInv, TaskInv, TypeOK, RuntimeInv, NoRuntimeLost
<1> QED
  BY <1>1, Invariance, PTL

\* A removed entry has no task, no queued callback and no runtime.
THEOREM RemovalLeavesNothing == Safety => []RemovalIsQuiet
<1>1. IInv => RemovalIsQuiet
  BY DEF IInv, TaskInv, ClosingInv, StopInv, RemovalIsQuiet
<1> QED
  BY <1>1, Invariance, PTL

\* Every transitional state has a task that will leave it.
THEOREM StatesHaveOwners == Safety => []StateHasOwner
<1>1. IInv => StateHasOwner
  BY DEF IInv, TaskInv, TypeOK, StateInv, CurrentInv, StateHasOwner
<1> QED
  BY <1>1, Invariance, PTL

\* When shutdown has finished every runtime has answered its stop.
THEOREM ShutdownIsComplete == Safety => []ShutdownDrains
<1>1. IInv => ShutdownDrains
  BY DEF IInv, TaskInv, TypeOK, RuntimeType, RuntimeStates, ClosingInv,
     RuntimeInv, ShutdownDrains
<1> QED
  BY <1>1, Invariance, PTL

\* The default connection is registered and not being removed.
THEOREM DefaultIsRegistered == Safety => []DefaultStaysRegistered
<1>1. IInv => DefaultStaysRegistered
  BY DEF IInv, TaskInv, ClosingInv, DefaultStaysRegistered
<1> QED
  BY <1>1, Invariance, PTL

-----------------------------------------------------------------------------
(* The action properties. *)

\* Registrations are never forgotten, and within one registration the
\* generation only grows.
LEMMA Monotone ==
  ASSUME IInv, [Next]_vars
  PROVE  /\ incarnation' >= incarnation
         /\ registered => incarnation' = incarnation
         /\ incarnation' = incarnation => generation' >= generation
         /\ registered' /\ ~registered => incarnation' > incarnation
<1> USE DEF IInv, TypeOK, LifecycleType, EntryType
<1>1. CASE Callers
  BY <1>1 DEF Callers, register, setDefault, start, stop, replace, unregister,
     stopAll, markReconnecting, retireFailedRuntime, readyRuntimeLease,
     StartNow, StartQueued, BeginStart, Construct, RetireLeftover, QueueCall,
     StopFrom, StopUnknown, StopJoins, StopIdle, StopBegins
<1>2. CASE StartSteps
  BY <1>2 DEF StartSteps, RetiredSettles, TransportResolves,
     BackgroundResolves, StartRejects, StartCleanupSettles, Construct,
     AbandonStart
<1>3. CASE StopSettles \/ RetireSettles
  <2>1. UNCHANGED <<entryVars, generation>>
    BY <1>3, Zenon DEF StopSettles, RetireSettles
  <2> QED
    BY <2>1
<1>7. CASE FinishUnregister
  BY <1>7 DEF FinishUnregister
<1>6. CASE RunDue
  <2>1. UNCHANGED entryVars
    BY <1>6 DEF RunDue
  <2>2. CASE StartNow \/ StartQueued \/ StartWithoutEffect
    BY <2>1, <2>2 DEF StartNow, StartQueued, BeginStart, Construct,
       RetireLeftover, QueueCall, StartWithoutEffect
  <2>3. ASSUME NEW call, \/ StopFrom(call, generation, startToken)
                         \/ StopUnknown(call)
        PROVE  generation' >= generation
    BY <2>3 DEF StopFrom, StopUnknown, StopJoins, StopIdle, StopBegins
  <2> QED
    BY <1>6, <2>1, <2>2, <2>3 DEF RunDue
<1>4. CASE reportError \/ \E r \in Runtimes : RuntimeStopSettles(r)
  BY <1>4 DEF reportError, RuntimeStopSettles
<1>5. CASE UNCHANGED vars
  BY <1>5 DEF vars
<1> QED
  BY <1>1, <1>2, <1>3, <1>4, <1>5, <1>6, <1>7 DEF Next, StopSteps

\* A lease that was found retired stays retired.
THEOREM RetiredLeaseStaysRetired == Safety => LeaseNeverRevives
<1>1. ASSUME IInv, IInv', [Next]_vars
      PROVE  [lease # NoLease /\ lease' = lease /\ ~LeaseCurrent(lease)
                => ~LeaseCurrent(lease)']_vars
  <2> SUFFICES ASSUME lease # NoLease, lease' = lease, ~LeaseCurrent(lease),
                      LeaseCurrent(lease)'
               PROVE  FALSE
    OBVIOUS
  <2>1. /\ lease.incarnation \in Nat /\ lease.generation \in Nat
        /\ incarnation \in Nat /\ incarnation' \in Nat
        /\ generation \in Nat /\ generation' \in Nat
    BY <1>1 DEF IInv, TypeOK, LifecycleType, EntryType, Leases
  <2>2. /\ lease.incarnation <= incarnation
        /\ registered /\ lease.incarnation = incarnation =>
             lease.generation < generation
    BY <1>1, <2>1 DEF IInv, TaskInv, LeaseInv
  <2>3. lease.incarnation = incarnation' /\ lease.generation = generation'
        /\ registered'
    OBVIOUS
  <2> QED
    BY <1>1, <2>1, <2>2, <2>3, Monotone
<1> QED
  BY <1>1, Invariance, PTL DEF Safety, LeaseNeverRevives

\* Nothing is built while the entry is being removed or the manager stopped.
THEOREM NothingIsBornWhileClosing == Safety => NoBirthWhileClosing
<1>1. ASSUME IInv, [Next]_vars
      PROVE  [removing \/ stoppingAll => \A r \in Runtimes :
                rtStop[r] = "unborn" => rtStop'[r] = "unborn"]_vars
  <2> SUFFICES ASSUME removing \/ stoppingAll, NEW r \in Runtimes,
                      rtStop[r] = "unborn"
               PROVE  rtStop'[r] = "unborn"
    OBVIOUS
  <2> USE <1>1 DEF IInv, TypeOK, RuntimeType
  <2>1. CASE Callers
    BY <2>1 DEF Callers, register, setDefault, start, stop, replace,
       unregister, stopAll, markReconnecting, retireFailedRuntime,
       readyRuntimeLease, StartNow, StartQueued, StartAccepted, QueueCall,
       StopFrom, StopUnknown, StopJoins, StopIdle, StopBegins, CallStop
  <2>2. CASE RetiredSettles
    <3>1. startTask = "retiring" => ~startToken
      BY DEF TaskInv, StartInv, ClosingInv
    <3> QED
      BY <2>2, <3>1 DEF RetiredSettles
  <2>3. CASE TransportResolves \/ BackgroundResolves \/ StartRejects
               \/ StartCleanupSettles
    BY <2>3 DEF TransportResolves, BackgroundResolves, StartRejects,
       StartCleanupSettles, AbandonStart, CallStop
  <2>4. CASE StopSettles \/ RetireSettles \/ FinishUnregister \/ reportError
    BY <2>4 DEF StopSettles, RetireSettles, FinishUnregister, reportError
  <2>5. CASE RunDue
    <3>1. CASE StartNow \/ StartQueued \/ StartWithoutEffect
      BY <3>1 DEF StartNow, StartQueued, StartAccepted, QueueCall,
         StartWithoutEffect
    <3>2. ASSUME NEW call, \/ StopFrom(call, generation, startToken)
                           \/ StopUnknown(call)
          PROVE  rtStop'[r] = "unborn"
      BY <3>2 DEF StopFrom, StopUnknown, StopJoins, StopIdle, StopBegins,
         CallStop
    <3> QED
      BY <2>5, <3>1, <3>2 DEF RunDue
  <2>6. ASSUME NEW s \in Runtimes, RuntimeStopSettles(s)
        PROVE  rtStop'[r] = "unborn"
    BY <2>6 DEF RuntimeStopSettles
  <2>7. CASE UNCHANGED vars
    BY <2>7 DEF vars
  <2> QED
    BY <2>1, <2>2, <2>3, <2>4, <2>5, <2>6, <2>7 DEF Next, StartSteps, StopSteps
<1> QED
  BY <1>1, Invariance, PTL DEF Safety, NoBirthWhileClosing

-----------------------------------------------------------------------------
(* The refinement of RuntimeLifecycle: what a step does to the map of runtime *)
(* objects, and what that means for their phases.                            *)

\* A step asks one live runtime to stop, settles one stop, or builds one.
Retires(r) == rtStop[r] = "live" /\ rtStop' = [rtStop EXCEPT ![r] = "stopping"]

Settles(r) ==
  /\ rtStop[r] = "stopping"
  /\ \E outcome \in Settled : rtStop' = [rtStop EXCEPT ![r] = outcome]

Builds(r) ==
  /\ rtStop[r] = "unborn"
  /\ rtStop' = [rtStop EXCEPT ![r] = "live"]
  /\ state' = "connecting"

\* Or it leaves the map alone, and then nothing starts to connect.
Leaves ==
  /\ UNCHANGED <<rtStop, rtGeneration>>
  /\ state' = "connecting" => state = "connecting"

Acts == Leaves \/ \E r \in Runtimes : Retires(r) \/ Settles(r) \/ Builds(r)

\* What calling a runtime's stop() may do to the map.
LEMMA CallStopActs ==
  ASSUME TypeOK, NEW r \in Runtimes, rtStop' = CallStop(r),
         UNCHANGED rtGeneration, state' # "connecting" \/ state' = state
  PROVE  Acts
<1>1. CASE rtStop[r] = "live"
  BY <1>1 DEF CallStop, Acts, Retires, TypeOK, RuntimeType
<1>2. CASE rtStop[r] # "live"
  BY <1>2 DEF CallStop, Acts, Leaves, TypeOK, RuntimeType
<1> QED
  BY <1>1, <1>2

\* What building a runtime, or failing to, may do to the map.
LEMMA ConstructActs == ASSUME TypeOK, Construct PROVE Acts
BY DEF Construct, Acts, Builds, Leaves, TypeOK, runtimeVars

\* What a stop() call may do to the map.
LEMMA StopActs ==
  ASSUME TypeOK, NEW call, NEW g, NEW token,
         StopFrom(call, g, token) \/ StopUnknown(call)
  PROVE  Acts
<1>1. CASE StopBegins(call, g)
  <2>1. CASE runtime = NoRuntime
    BY <1>1, <2>1 DEF StopBegins, Acts, Leaves
  <2>2. CASE runtime # NoRuntime
    <3>1. runtime \in Runtimes
      BY <2>2 DEF TypeOK, LifecycleType
    <3> QED
      BY <1>1, <2>2, <3>1, CallStopActs DEF StopBegins
  <2> QED
    BY <2>1, <2>2
<1>2. CASE ~StopBegins(call, g)
  BY <1>2 DEF StopFrom, StopJoins, StopIdle, StopUnknown, Acts, Leaves
<1> QED
  BY <1>1, <1>2

\* What a start() call may do to the map.
LEMMA StartActs ==
  ASSUME TypeOK, StartNow \/ StartQueued \/ StartWithoutEffect
  PROVE  Acts
<1>1. CASE StartNow
  <2>1. CASE runtime = NoRuntime
    BY <1>1, <2>1, ConstructActs DEF StartNow, BeginStart
  <2>2. CASE runtime # NoRuntime
    <3>1. runtime \in Runtimes
      BY <2>2 DEF TypeOK, LifecycleType
    <3>2. RetireLeftover
      BY <1>1, <2>2 DEF StartNow, BeginStart
    <3> QED
      BY <3>1, <3>2, CallStopActs DEF RetireLeftover
  <2> QED
    BY <2>1, <2>2
<1>2. CASE StartQueued \/ StartWithoutEffect
  BY <1>2 DEF StartQueued, StartWithoutEffect, QueueCall, Acts, Leaves
<1> QED
  BY <1>1, <1>2

\* Every step does one of these things to the map.
LEMMA StepActs == ASSUME IInv, [Next]_vars PROVE Acts
<1>1. TypeOK /\ (startTask # "none" => startRuntime \in Runtimes)
  BY DEF IInv, TaskInv, StartInv, TypeOK, LifecycleType
<1>2. CASE register \/ setDefault \/ markReconnecting \/ readyRuntimeLease
           \/ FinishUnregister \/ reportError
  BY <1>2 DEF register, setDefault, markReconnecting, readyRuntimeLease,
     FinishUnregister, reportError, Acts, Leaves
<1>3. CASE start \/ stop \/ replace \/ unregister \/ stopAll \/ RunDue
  BY <1>1, <1>3, StartActs, StopActs
     DEF start, stop, replace, unregister, stopAll, RunDue
<1>4. CASE retireFailedRuntime
  <2>1. runtime \in Runtimes
    BY <1>1, <1>4 DEF retireFailedRuntime, TypeOK, LifecycleType
  <2> QED
    BY <1>1, <1>4, <2>1, CallStopActs DEF retireFailedRuntime
<1>5. CASE RetiredSettles
  <2>1. CASE Construct
    BY <1>1, <2>1, ConstructActs
  <2>2. CASE ~Construct
    BY <1>5, <2>2 DEF RetiredSettles, Acts, Leaves
  <2> QED
    BY <2>1, <2>2
<1>6. CASE TransportResolves \/ BackgroundResolves \/ StartRejects
  <2>1. startRuntime \in Runtimes /\ UNCHANGED rtGeneration
    BY <1>1, <1>6 DEF TransportResolves, BackgroundResolves, StartRejects
  <2>2. state' # "connecting" \/ state' = state
    BY <1>6 DEF TransportResolves, BackgroundResolves, StartRejects,
       AbandonStart
  <2>3. rtStop' = rtStop \/ rtStop' = CallStop(startRuntime)
    BY <1>6 DEF TransportResolves, BackgroundResolves, StartRejects,
       AbandonStart
  <2> QED
    BY <1>1, <2>1, <2>2, <2>3, CallStopActs DEF Acts, Leaves
<1>7. CASE StartCleanupSettles
  BY <1>7 DEF StartCleanupSettles, Acts, Leaves
<1>8. CASE StopSettles \/ RetireSettles
  <2>1. UNCHANGED <<rtStop, rtGeneration>>
    BY <1>8, Zenon DEF StopSettles, RetireSettles
  <2>2. stopTask = "retire" => retireState # "connecting"
    BY DEF IInv, TaskInv, StopInv
  <2>3. state' # "connecting" \/ state' = state
    <3>1. CASE StopSettles
      <4>1. state' = "error" \/ state' = "disconnected"
        BY <3>1, Zenon DEF StopSettles
      <4> QED
        BY <4>1
    <3>2. CASE RetireSettles
      BY <2>2, <3>2 DEF RetireSettles
    <3> QED
      BY <1>8, <3>1, <3>2
  <2> QED
    BY <2>1, <2>3 DEF Acts, Leaves
<1>9. ASSUME NEW r \in Runtimes, RuntimeStopSettles(r) PROVE Acts
  BY <1>9 DEF RuntimeStopSettles, Acts, Settles
<1>10. CASE UNCHANGED vars
  BY <1>10 DEF vars, Acts, Leaves
<1> QED
  BY <1>2, <1>3, <1>4, <1>5, <1>6, <1>7, <1>8, <1>9, <1>10
     DEF Next, Callers, StartSteps, StopSteps

\* The phase of a runtime, from what the invariant says of it.
LEMMA PhaseFacts ==
  ASSUME IInv, NEW r \in Runtimes
  PROVE  /\ phaseOf(r) = "unborn" <=> rtStop[r] = "unborn"
         /\ phaseOf(r) = "closed" <=> rtStop[r] \in Settled
         /\ rtStop[r] = "stopping" => phaseOf(r) = "draining"
         /\ rtStop[r] = "live" => runtime = r
         /\ rtStop[r] = "live" =>
              phaseOf(r) = IF ~IsCurrent(r) THEN "draining"
                           ELSE IF state = "ready" THEN "serving"
                           ELSE "building"
<1>1. rtStop[r] \in RuntimeStates
  BY DEF IInv, TypeOK, RuntimeType
<1>2. r # NoRuntime
  OBVIOUS
<1>3. rtStop[r] = "live" => runtime = r
  BY DEF IInv, TaskInv, RuntimeInv
<1>4. IsCurrent(r) => rtStop[r] = "live" /\ state \in {"ready", "connecting"}
  BY <1>2 DEF IInv, TaskInv, CurrentInv
<1> QED
  BY <1>1, <1>3, <1>4 DEF phaseOf, RuntimeStates

\* The same of the next state.
LEMMA NextPhaseFacts ==
  ASSUME IInv', NEW r \in Runtimes
  PROVE  /\ phaseOf(r)' = "unborn" <=> rtStop'[r] = "unborn"
         /\ phaseOf(r)' = "closed" <=> rtStop'[r] \in Settled
         /\ rtStop'[r] = "stopping" => phaseOf(r)' = "draining"
         /\ rtStop'[r] = "live" => runtime' = r
         /\ rtStop'[r] = "live" =>
              phaseOf(r)' = IF ~IsCurrent(r)' THEN "draining"
                            ELSE IF state' = "ready" THEN "serving"
                            ELSE "building"
<1>1. rtStop'[r] \in RuntimeStates
  BY DEF IInv, TypeOK, RuntimeType
<1>2. r # NoRuntime
  OBVIOUS
<1>3. rtStop'[r] = "live" => runtime' = r
  BY DEF IInv, TaskInv, RuntimeInv
<1>4. IsCurrent(r)' => rtStop'[r] = "live" /\ state' \in {"ready", "connecting"}
  BY <1>2 DEF IInv, TaskInv, CurrentInv
<1> QED
  BY <1>1, <1>3, <1>4 DEF phaseOf, RuntimeStates

\* One runtime changes its phase as the lifecycle allows, and no other does.
LEMMA OnePhase ==
  ASSUME NEW r \in Runtimes,
         \A s \in Runtimes : s # r => phaseOf(s)' = phaseOf(s),
         \/ phaseOf(r)' = phaseOf(r)
         \/ /\ phaseOf(r) = "unborn" /\ phaseOf(r)' = "building"
            /\ \A s \in Runtimes : phaseOf(s) \in {"unborn", "closed"}
         \/ phaseOf(r) = "building" /\ phaseOf(r)' = "serving"
         \/ phaseOf(r) \in {"building", "serving"} /\ phaseOf(r)' = "draining"
         \/ phaseOf(r) = "draining" /\ phaseOf(r)' = "closed"
  PROVE  [Lifecycle!Next]_phases
<1>1. phases' = [phases EXCEPT ![r] = phaseOf(r)']
  BY DEF phases
<1>2. \A s \in Runtimes : phases[s] = phaseOf(s)
  BY DEF phases
<1> HIDE DEF phases
<1>3. CASE phaseOf(r)' = phaseOf(r)
  BY <1>3 DEF phases
<1>4. CASE /\ phaseOf(r) = "unborn" /\ phaseOf(r)' = "building"
           /\ \A s \in Runtimes : phaseOf(s) \in {"unborn", "closed"}
  BY <1>1, <1>2, <1>4 DEF Lifecycle!Next, Lifecycle!Build
<1>5. CASE phaseOf(r) = "building" /\ phaseOf(r)' = "serving"
  BY <1>1, <1>2, <1>5 DEF Lifecycle!Next, Lifecycle!Serve
<1>6. CASE phaseOf(r) \in {"building", "serving"} /\ phaseOf(r)' = "draining"
  BY <1>1, <1>2, <1>6 DEF Lifecycle!Next, Lifecycle!Retire
<1>7. CASE phaseOf(r) = "draining" /\ phaseOf(r)' = "closed"
  BY <1>1, <1>2, <1>7 DEF Lifecycle!Next, Lifecycle!Close
<1> QED
  BY <1>3, <1>4, <1>5, <1>6, <1>7

\* Every step of the manager is a step of the lifecycle, or none.
LEMMA LifecycleStep ==
  ASSUME IInv, IInv', [Next]_vars
  PROVE  [Lifecycle!Next]_phases
<1>1. Acts
  BY StepActs
<1>2. rtStop \in [Runtimes -> RuntimeStates]
  BY DEF IInv, TypeOK, RuntimeType
<1>3. ASSUME NEW s \in Runtimes, rtStop'[s] = rtStop[s], rtStop[s] # "live"
      PROVE  phaseOf(s)' = phaseOf(s)
  <2>1. rtStop[s] \in RuntimeStates
    BY <1>2
  <2> QED
    BY <1>3, <2>1, PhaseFacts, NextPhaseFacts DEF RuntimeStates, phaseOf
<1>4. ASSUME NEW s \in Runtimes, NEW r \in Runtimes, s # r,
             rtStop[r] = "live" \/ rtStop'[r] = "live"
      PROVE  rtStop'[s] = rtStop[s] => rtStop[s] # "live"
  BY <1>4, PhaseFacts, NextPhaseFacts
<1>5. ASSUME Leaves PROVE [Lifecycle!Next]_phases
  <2>1. CASE \A s \in Runtimes : rtStop[s] # "live"
    <3>1. \A s \in Runtimes : phaseOf(s)' = phaseOf(s)
      BY <1>3, <1>5, <2>1 DEF Leaves
    <3> QED
      BY <3>1 DEF phases
  <2>2. ASSUME NEW r \in Runtimes, rtStop[r] = "live"
        PROVE  [Lifecycle!Next]_phases
    <3>1. \A s \in Runtimes : s # r => phaseOf(s)' = phaseOf(s)
      BY <1>3, <1>4, <1>5, <2>2 DEF Leaves
    <3>2. rtStop'[r] = "live" /\ rtGeneration' = rtGeneration
      BY <1>5, <2>2 DEF Leaves
    <3>3. IsCurrent(r)' => IsCurrent(r)
      <4>1. runtime = r /\ r # NoRuntime
        BY <2>2, PhaseFacts
      <4>2. registered /\ rtGeneration[r] <= generation
        BY <4>1 DEF IInv, TaskInv, RuntimeInv
      <4>3. generation <= generation'
        BY <4>2, Monotone
      <4>4. generation \in Nat /\ generation' \in Nat /\ rtGeneration[r] \in Nat
        BY DEF IInv, TypeOK, LifecycleType, RuntimeType
      <4>5. IsCurrent(r)' => generation' = rtGeneration[r]
        BY <3>2
      <4> QED
        BY <4>1, <4>2, <4>3, <4>4, <4>5
    <3>4. IsCurrent(r)' /\ state' # "ready" => state # "ready"
      <4>1. IsCurrent(r)' => state' \in {"ready", "connecting"}
        BY DEF IInv, TaskInv, CurrentInv
      <4> QED
        BY <1>5, <4>1 DEF Leaves
    <3> QED
      BY <2>2, <3>1, <3>2, <3>3, <3>4, PhaseFacts, NextPhaseFacts, OnePhase
  <2> QED
    BY <2>1, <2>2
<1>6. ASSUME NEW r \in Runtimes, Retires(r) PROVE [Lifecycle!Next]_phases
  <2>1. rtStop'[r] = "stopping" /\ \A s \in Runtimes \ {r} : rtStop'[s] = rtStop[s]
    BY <1>2, <1>6 DEF Retires
  <2>2. \A s \in Runtimes : s # r => phaseOf(s)' = phaseOf(s)
    BY <1>3, <1>4, <1>6, <2>1 DEF Retires
  <2> QED
    BY <1>6, <2>1, <2>2, PhaseFacts, NextPhaseFacts, OnePhase DEF Retires
<1>7. ASSUME NEW r \in Runtimes, Settles(r) PROVE [Lifecycle!Next]_phases
  <2>1. rtStop'[r] \in Settled /\ \A s \in Runtimes \ {r} : rtStop'[s] = rtStop[s]
    BY <1>2, <1>7 DEF Settles
  <2>2. \A s \in Runtimes : s # r => rtStop[s] # "live"
    BY <1>7 DEF Settles, IInv, TaskInv, RuntimeInv
  <2>3. \A s \in Runtimes : s # r => phaseOf(s)' = phaseOf(s)
    BY <1>3, <2>1, <2>2
  <2> QED
    BY <1>7, <2>1, <2>3, PhaseFacts, NextPhaseFacts, OnePhase DEF Settles
<1>8. ASSUME NEW r \in Runtimes, Builds(r) PROVE [Lifecycle!Next]_phases
  <2>1. rtStop'[r] = "live" /\ \A s \in Runtimes \ {r} : rtStop'[s] = rtStop[s]
    BY <1>2, <1>8 DEF Builds
  <2>2. \A s \in Runtimes : s # r => phaseOf(s)' = phaseOf(s)
    BY <1>3, <1>4, <2>1
  <2>3. \A s \in Runtimes : rtStop[s] \notin {"live", "stopping"}
    BY <1>8, <2>1, IInv' DEF Builds, IInv, TaskInv, RuntimeInv
  <2>4. \A s \in Runtimes : phaseOf(s) \in {"unborn", "closed"}
    BY <1>2, <2>3, PhaseFacts DEF RuntimeStates
  <2>5. phaseOf(r)' = "building" /\ phaseOf(r) = "unborn"
    <3>1. runtime' = r
      BY <2>1, NextPhaseFacts
    <3>2. IsCurrent(r)' /\ state' = "connecting"
      BY <1>8, <3>1 DEF Builds, IInv, TaskInv, StateInv
    <3> QED
      BY <1>8, <2>1, <3>2, PhaseFacts, NextPhaseFacts DEF Builds
  <2> QED
    BY <2>2, <2>4, <2>5, OnePhase
<1> QED
  BY <1>1, <1>5, <1>6, <1>7, <1>8 DEF Acts

\* The runtimes of a connection id go through the abstract lifecycle.
THEOREM Refinement == Safety => RefinesLifecycle
<1>1. Init => Lifecycle!Init
  BY DEF Init, Lifecycle!Init, phases, phaseOf
<1>2. IInv /\ IInv' /\ [Next]_vars => [Lifecycle!Next]_phases
  BY LifecycleStep
<1> QED
  BY <1>1, <1>2, Invariance, PTL DEF Safety, RefinesLifecycle, Lifecycle!Spec

-----------------------------------------------------------------------------
(* The status: the refinement of ConnectionStatus. *)

\* A connection that is up has a runtime, is registered, and neither stopping
\* nor about to construct another.
LEMMA UpFacts ==
  ASSUME IInv
  PROVE  /\ state \in States /\ generation \in Nat
         /\ state \in Status!Up =>
              /\ registered /\ runtime # NoRuntime /\ stopTask = "none"
              /\ startTask \in {"none", "transport", "background"}
              /\ startTask = "none" => state = "ready"
         /\ runtime # NoRuntime /\ IsCurrent(runtime) =>
              /\ state \in Status!Up
              /\ startTask \in {"transport", "background"} => state = "connecting"
<1>1. state \in States /\ generation \in Nat
  BY DEF IInv, TypeOK, LifecycleType
<1> QED
  BY <1>1 DEF IInv, TaskInv, StateInv, CurrentInv, RuntimeInv, Status!Up

\* A start opens a generation.
LEMMA BeginKeepsStatus ==
  ASSUME IInv, state \notin Status!Up, Construct \/ BeginStart
  PROVE  Status!Next
<1>1. CASE Construct
  BY <1>1, UpFacts DEF Construct, Status!Next, Status!Open, Status!Rest, Status!Up,
     Status!Down, Status!Failed, States
<1>2. CASE BeginStart
  BY <1>1, <1>2, UpFacts DEF BeginStart, RetireLeftover, Status!Next, Status!Rest,
     Status!Up, Status!Down, Status!Failed, States
<1> QED
  BY <1>1, <1>2

\* A stop ends the generation that is up.
LEMMA StopKeepsStatus ==
  ASSUME IInv, NEW call, NEW g \in {generation, generation + 1}, NEW token,
         StopFrom(call, g, token)
  PROVE  [Status!Next]_(Status!vars)
<1> USE UpFacts DEF Status!vars, Status!Next, Status!Rest, Status!Close, Status!Up,
        Status!Down, Status!Failed, States
<1>1. CASE StopJoins(call, g, token)
  BY <1>1 DEF StopJoins
<1>2. CASE StopIdle(call, g, token)
  BY <1>2 DEF StopIdle
<1>3. CASE StopBegins(call, g)
  BY <1>3 DEF StopBegins
<1> QED
  BY <1>1, <1>2, <1>3 DEF StopFrom

\* Every step is a step of the contract, or leaves the status alone.
LEMMA StatusStep ==
  ASSUME IInv, [Next]_vars
  PROVE  [Status!Next]_(Status!vars)
<1> USE DEF Status!vars
<1>1. ASSUME StartNow PROVE Status!Next
  BY <1>1, UpFacts, BeginKeepsStatus DEF StartNow, StartAccepted, Status!Up
<1>2. CASE register
  BY <1>2, UpFacts DEF register, Status!Next, Status!Register, Status!Up, Status!Down,
     Status!Failed, States
<1>3. CASE \/ setDefault \/ readyRuntimeLease \/ FinishUnregister
           \/ TransportResolves \/ StartCleanupSettles
           \/ \E r \in Runtimes : RuntimeStopSettles(r)
           \/ UNCHANGED vars
  BY <1>3 DEF setDefault, readyRuntimeLease, FinishUnregister, TransportResolves,
     AbandonStart, StartCleanupSettles, RuntimeStopSettles, vars
<1>4. CASE start
  BY <1>1, <1>4 DEF start, StartQueued, QueueCall
<1>5. CASE stop \/ unregister
  BY <1>5, StopKeepsStatus DEF stop, unregister
<1>6. CASE stopAll
  BY <1>6, StopKeepsStatus DEF stopAll, StopUnknown
<1>7. CASE replace
  BY <1>7, StopKeepsStatus DEF replace
<1>8. CASE markReconnecting \/ retireFailedRuntime
  BY <1>8, UpFacts DEF markReconnecting, retireFailedRuntime, Failed, Status!Next,
     Status!Rest, Status!Down, Status!Failed
<1>9. CASE RetiredSettles
  <2>1. state \notin Status!Up
    BY <1>9, UpFacts DEF RetiredSettles
  <2>2. CASE Construct
    BY <2>1, <2>2, BeginKeepsStatus
  <2>3. CASE /\ generation' = generation /\ state' \in {state, "error"}
    BY <2>1, <2>3, UpFacts DEF Status!Next, Status!Rest, Status!Up, Status!Down,
       Status!Failed, States
  <2> QED
    BY <1>9, <2>2, <2>3 DEF RetiredSettles
<1>10. CASE BackgroundResolves
  <2>1. CASE AbandonStart
    BY <2>1 DEF AbandonStart
  <2>2. CASE /\ IsCurrent(startRuntime) /\ startTask = "background"
             /\ state' = "ready" /\ generation' = generation
    <3>1. runtime # NoRuntime /\ IsCurrent(runtime)
      BY <2>2 DEF IsCurrent, IInv, TaskInv, StartInv
    <3> QED
      BY <2>2, <3>1, UpFacts DEF Status!Next, Status!Serve
  <2> QED
    BY <1>10, <2>1, <2>2 DEF BackgroundResolves
<1>11. CASE StartRejects
  <2>1. CASE ~IsCurrent(startRuntime)
    BY <1>11, <2>1 DEF StartRejects
  <2>2. CASE IsCurrent(startRuntime)
    <3>1. runtime # NoRuntime /\ IsCurrent(runtime)
      BY <1>11, <2>2 DEF StartRejects, IsCurrent, IInv, TaskInv, StartInv
    <3> QED
      BY <1>11, <2>2, <3>1, UpFacts DEF StartRejects, Status!Next, Status!Close,
         Status!Failed
  <2> QED
    BY <2>1, <2>2
<1>12. CASE StopSettles
  <2>1. /\ stopTask = "stop" /\ generation' = generation
        /\ state' \in {"error", "disconnected"}
    BY <1>12 DEF StopSettles
  <2> QED
    BY <2>1, UpFacts DEF Status!Next, Status!Rest, Status!Up, Status!Down,
       Status!Failed, States
<1>13. CASE RetireSettles
  <2>1. /\ generation' = generation /\ retireState \in Failed
        /\ state' = state \/ (state \in Failed /\ state' = retireState)
    BY <1>13 DEF RetireSettles, IInv, TaskInv, StopInv
  <2> QED
    BY <2>1, UpFacts DEF Failed, Status!Next, Status!Rest, Status!Down, Status!Failed
<1>14. CASE reportError
  BY <1>14, UpFacts DEF reportError, Failed, Status!Next, Status!Close, Status!Failed
<1>15. CASE RunDue
  BY <1>1, <1>15, StopKeepsStatus DEF RunDue, StartQueued, QueueCall,
     StartWithoutEffect, StopUnknown
<1> QED
  BY <1>2, <1>3, <1>4, <1>5, <1>6, <1>7, <1>8, <1>9, <1>10, <1>11, <1>12, <1>13,
     <1>14, <1>15 DEF Next, Callers, StartSteps, StopSteps

\* A generation names at most one period in which the connection is up, for any
\* calls, failures, removals and re-registrations.
THEOREM StatusStaysOrderly == Safety => StatusIsOrderly
<1>1. Init => Status!Init
  BY DEF Init, Status!Init
<1>2. IInv /\ [Next]_vars => [Status!Next]_(Status!vars)
  BY StatusStep
<1> QED
  BY <1>1, <1>2, Invariance, PTL DEF Safety, StatusIsOrderly, Status!Spec
=============================================================================
