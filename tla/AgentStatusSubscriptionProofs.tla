-------------------- MODULE AgentStatusSubscriptionProofs --------------------
(***************************************************************************)
(* Proofs about AgentStatusSubscription, for any set of panes and any      *)
(* bounds: the inductive invariant IInv, the safety properties that follow *)
(* from it, and the refinement of ExclusiveSubscription.                   *)
(***************************************************************************)
EXTENDS AgentStatusSubscription, TLAPS

\* Tuples of variables, expanded wherever a step leaves variables unchanged.
USE LoopAssumption
    DEF serverVars, rebuildVars, controlVars, loopVars, Generations

-----------------------------------------------------------------------------
(* Moves of a generation. *)

\* The loop of g is left at a point, with these fields, and no other moves.
Moved(g, point, ids, reply, socket) ==
  /\ loop' \in [Generations -> Loops]
  /\ loop'[g].at = point /\ loop'[g].ids = ids
  /\ loop'[g].reply = reply /\ loop'[g].socket = socket
  /\ \A h \in Generations : h # g => loop'[h] = loop[h]

\* The points and socket states that the code names.
LEMMA Vocabulary ==
  /\ "unborn" \in Points /\ "ended" \in Points /\ "sleeping" \in Points
  /\ "listing" \in Points /\ "checking" \in Points /\ "idle" \in Points
  /\ "holding" \in Points /\ "checkRetry" \in Points
  /\ "subscribing" \in Points
  /\ "none" \in Sockets /\ "pending" \in Sockets /\ "open" \in Sockets
  /\ "closed" \in Sockets
BY DEF Points, Sockets, Listings, Wakeable

\* The fields of a loop have their types.
LEMMA Fields ==
  ASSUME TypeOK, NEW g \in Generations
  PROVE  /\ loop[g] \in Loops
         /\ loop[g].at \in Points /\ loop[g].ids \in SUBSET Panes
         /\ loop[g].reply \in {NoReply} \cup SUBSET Panes
         /\ loop[g].socket \in Sockets
BY DEF TypeOK, Loops

\* What each move does to the fields of its generation.
LEMMA GoMoves ==
  ASSUME TypeOK, NEW g \in Generations, NEW point \in Points, Go(g, point)
  PROVE  Moved(g, point, loop[g].ids, loop[g].reply, loop[g].socket)
BY Fields DEF TypeOK, Go, Moved, Loops

\* pane.list is called: no reply yet.
LEMMA ListMoves ==
  ASSUME TypeOK, NEW g \in Generations, NEW point \in Points, List(g, point)
  PROVE  Moved(g, point, loop[g].ids, NoReply, loop[g].socket)
BY Fields DEF TypeOK, List, Moved, Loops

\* The subscription is closed and the reply forgotten.
LEMMA CloseMoves ==
  ASSUME TypeOK, NEW g \in Generations, NEW point \in Points,
         CloseSubscription(g, point)
  PROVE  Moved(g, point, loop[g].ids, NoReply, "closed")
BY Fields, Vocabulary DEF TypeOK, CloseSubscription, Moved, Loops

\* The panes of the reply are subscribed on a new socket.
LEMMA SubscribeMoves ==
  ASSUME TypeOK, NEW g \in Generations, Subscribe(g), loop[g].reply # NoReply
  PROVE  Moved(g, "subscribing", loop[g].reply, loop[g].reply, "pending")
BY Fields, Vocabulary DEF TypeOK, Subscribe, Moved, Loops

\* The answer of pane.list is the present set of panes.
LEMMA ListAnsweredMoves ==
  ASSUME TypeOK, NEW g \in Generations, ListAnswered(g)
  PROVE  Moved(g, loop[g].at, loop[g].ids, agents, loop[g].socket)
BY Fields DEF TypeOK, ListAnswered, Moved, Loops

\* The other end closes an acknowledged subscription.
LEMMA SocketClosesMoves ==
  ASSUME TypeOK, NEW g \in Generations, SocketCloses(g)
  PROVE  Moved(g, loop[g].at, loop[g].ids, loop[g].reply, "closed")
BY Fields, Vocabulary DEF TypeOK, SocketCloses, Moved, Loops

\* The acknowledgement: check at once if a wake came, else sleep.
LEMMA ReadyMoves ==
  ASSUME TypeOK, NEW g \in Generations, SubscribeReady(g)
  PROVE  \/ Moved(g, "checking", loop[g].ids, NoReply, "open")
         \/ /\ Moved(g, "holding", loop[g].ids, loop[g].reply, "open")
            /\ ~rebuildRequested
<1> USE Fields, Vocabulary DEF TypeOK, Moved, Loops
<1>1. ASSUME loop' = [loop EXCEPT ![g].at = "checking", ![g].reply = NoReply,
                                  ![g].socket = "open"]
      PROVE  Moved(g, "checking", loop[g].ids, NoReply, "open")
  BY <1>1
<1>2. ASSUME loop' = [loop EXCEPT ![g].at = "holding", ![g].socket = "open"]
      PROVE  Moved(g, "holding", loop[g].ids, loop[g].reply, "open")
  BY <1>2
<1> HIDE DEF Moved, TypeOK
<1>3. \/ loop' = [loop EXCEPT ![g].at = "checking", ![g].reply = NoReply,
                              ![g].socket = "open"]
      \/ /\ loop' = [loop EXCEPT ![g].at = "holding", ![g].socket = "open"]
         /\ ~rebuildRequested
  BY Zenon DEF SubscribeReady
<1> QED
  BY <1>1, <1>2, <1>3

\* The points at which holdSubscription() may go on.
Held(g) ==
  \/ /\ Moved(g, "checking", loop[g].ids, NoReply, loop[g].socket)
     /\ rebuildRequested' = FALSE
  \/ /\ Moved(g, "holding", loop[g].ids, loop[g].reply, loop[g].socket)
     /\ rebuildRequested' = FALSE

\* The top of holdSubscription() leaves no flag behind.
LEMMA HoldMoves ==
  ASSUME TypeOK, NEW g \in Generations, Hold(g)
  PROVE  Held(g)
<1>1. CASE rebuildRequested
  <2>1. List(g, "checking") /\ rebuildRequested' = FALSE
    BY <1>1 DEF Hold, TypeOK
  <2> QED
    BY <2>1, ListMoves, Vocabulary DEF Held
<1>2. CASE ~rebuildRequested
  <2>1. Go(g, "holding") /\ rebuildRequested' = FALSE
    BY <1>2 DEF Hold, TypeOK
  <2> QED
    BY <2>1, GoMoves, Vocabulary DEF Held
<1> QED
  BY <1>1, <1>2

\* Who waited lists the panes, or goes on in holdSubscription().
Resumed(g) ==
  \/ /\ loop[g].at = "idle"
     /\ Moved(g, "listing", loop[g].ids, NoReply, loop[g].socket)
     /\ rebuildRequested' = FALSE
  \/ /\ loop[g].at = "holding"
     /\ Moved(g, "checking", loop[g].ids, NoReply, loop[g].socket)
     /\ rebuildRequested' = FALSE
  \/ /\ loop[g].at = "checkRetry"
     /\ Held(g)

\* A wait that ends leaves no flag behind.
LEMMA ResumeMoves ==
  ASSUME TypeOK, NEW g \in Generations, Resume(g)
  PROVE  Resumed(g)
BY ListMoves, HoldMoves, Vocabulary DEF Resume, Resumed

-----------------------------------------------------------------------------
(* The parts of the invariant, for the steps that leave start() and stop()   *)
(* alone.                                                                    *)

\* A generation that is under way is the one of loopTask.
LEMMA UnderWay ==
  ASSUME TypeOK, ControlInv, NEW g \in Generations,
         Current(g) \/ loop[g].at \notin {"unborn", "ended"}
  PROVE  g <= starts /\ g = loopTask
BY DEF TypeOK, ControlInv, Current

\* A move of the generation under way leaves the control alone.
LEMMA ControlKept ==
  ASSUME TypeOK, ControlInv, UNCHANGED controlVars, NEW g \in Generations,
         NEW point, NEW ids, NEW reply, NEW socket,
         Moved(g, point, ids, reply, socket),
         point = loop[g].at \/ (g <= starts /\ g = loopTask)
  PROVE  ControlInv'
<1>1. running' <=> running
  OBVIOUS
<1>2. \A h \in Generations :
        h # g \/ point = loop[g].at => loop'[h].at = loop[h].at
  BY DEF Moved
<1>3. /\ generation' = IF running' THEN starts' ELSE 0
      /\ running' => stopTask' = "none" /\ loopTask' = starts' /\ starts' # 0
      /\ stopTask' = "none" => running' \/ loopTask' = 0
      /\ stopTask' = "done" => loopTask' = 0
  BY DEF ControlInv
<1>4. ASSUME NEW h \in Generations
      PROVE  /\ h > starts' => loop'[h].at = "unborn"
             /\ h <= starts' /\ h # loopTask' => loop'[h].at = "ended"
  BY <1>2 DEF ControlInv, TypeOK
<1> QED
  BY <1>3, <1>4 DEF ControlInv

Behind == {"subscribing", "holding", "checking", "checkRetry"}

\* A move that leaves the sockets alone.
LEMMA SocketsKept ==
  ASSUME TypeOK, SocketInv, UNCHANGED controlVars, NEW g \in Generations,
         NEW point, NEW ids, NEW reply,
         Moved(g, point, ids, reply, loop[g].socket),
         UNCHANGED <<sockets, active>>,
         SocketLive(g) => point \in Behind,
         point = "subscribing" => loop[g].at = "subscribing"
  PROVE  SocketInv'
<1>1. \A h \in Generations : SocketLive(h)' <=> SocketLive(h)
  BY DEF Moved, SocketLive
<1>2. \A h \in Generations : sockets'[h] = IF SocketLive(h)' THEN 1 ELSE 0
  BY <1>1 DEF SocketInv
<1>3. ~running' => active' = 0
  BY DEF SocketInv
<1>4. ASSUME NEW h \in Generations
      PROVE  SocketLive(h)' => active' = h /\ loop'[h].at \in Behind
  BY <1>1 DEF SocketInv, Moved, Behind
<1>5. ASSUME NEW h \in Generations
      PROVE  Current(h)' /\ loop'[h].at = "subscribing" =>
               loop'[h].socket = "pending"
  <2>1. Current(h)' <=> Current(h)
    BY DEF Current
  <2> QED
    BY <2>1 DEF SocketInv, Moved
<1> QED
  BY <1>2, <1>3, <1>4, <1>5 DEF SocketInv, Behind

\* The subscription is closed, whether it was open or not.
LEMMA SocketsClose ==
  ASSUME TypeOK, SocketInv, UNCHANGED controlVars, NEW g \in Generations,
         NEW point \in Points \ {"subscribing"}, CloseSubscription(g, point)
  PROVE  SocketInv'
<1>1. Moved(g, point, loop[g].ids, NoReply, "closed")
  BY CloseMoves
<1>2. ~SocketLive(g)' /\ \A h \in Generations : h # g =>
        (SocketLive(h)' <=> SocketLive(h))
  BY <1>1 DEF Moved, SocketLive
<1>3. \A h \in Generations : sockets'[h] = IF SocketLive(h)' THEN 1 ELSE 0
  BY <1>2 DEF TypeOK, SocketInv, CloseSubscription
<1>4. ~running' => active' = 0
  BY DEF SocketInv, CloseSubscription
<1>5. ASSUME NEW h \in Generations
      PROVE  SocketLive(h)' => active' = h /\ loop'[h].at \in Behind
  BY <1>1, <1>2 DEF SocketInv, Moved, Behind, CloseSubscription
<1>6. ASSUME NEW h \in Generations
      PROVE  Current(h)' /\ loop'[h].at = "subscribing" =>
               loop'[h].socket = "pending"
  <2>1. Current(h)' <=> Current(h)
    BY DEF Current
  <2> QED
    BY <2>1, <1>1 DEF SocketInv, Moved
<1> QED
  BY <1>3, <1>4, <1>5, <1>6 DEF SocketInv, Behind

\* A current generation without a socket subscribes.
LEMMA SocketsOpen ==
  ASSUME TypeOK, ControlInv, SocketInv, UNCHANGED controlVars,
         NEW g \in Generations, Current(g), ~SocketLive(g),
         loop[g].reply # NoReply, Subscribe(g)
  PROVE  SocketInv'
<1>1. Moved(g, "subscribing", loop[g].reply, loop[g].reply, "pending")
  BY SubscribeMoves
<1>2. \A h \in Generations : ~SocketLive(h)
  <2>1. ASSUME NEW h \in Generations, SocketLive(h) PROVE FALSE
    <3>1. loop[h].at \in Behind
      BY <2>1 DEF SocketInv, Behind
    <3>2. h = loopTask /\ g = loopTask
      BY <3>1, UnderWay DEF Behind
    <3> QED
      BY <2>1, <3>2
  <2> QED
    BY <2>1
<1>3. SocketLive(g)' /\ \A h \in Generations : h # g => ~SocketLive(h)'
  BY <1>1, <1>2 DEF Moved, SocketLive
<1>4. \A h \in Generations : sockets'[h] = IF SocketLive(h)' THEN 1 ELSE 0
  BY <1>2, <1>3 DEF TypeOK, SocketInv, Subscribe
<1>5. running' /\ active' = g
  BY DEF Current, Subscribe
<1>6. ASSUME NEW h \in Generations
      PROVE  SocketLive(h)' => active' = h /\ loop'[h].at \in Behind
  BY <1>1, <1>3, <1>5 DEF Moved, Behind
<1>7. ASSUME NEW h \in Generations
      PROVE  Current(h)' /\ loop'[h].at = "subscribing" =>
               loop'[h].socket = "pending"
  <2>1. Current(h)' => h = g
    BY DEF Current
  <2> QED
    BY <2>1, <1>1 DEF Moved
<1> QED
  BY <1>4, <1>5, <1>6, <1>7 DEF SocketInv, Behind

\* What a generation that is not current does changes nobody's information.
LEMMA WakeOfOne ==
  ASSUME TypeOK, WakeInv, UNCHANGED controlVars, NEW g \in Generations,
         NEW point, NEW ids, NEW reply, NEW socket,
         Moved(g, point, ids, reply, socket),
         Current(g) => Informed(g)',
         Current(g) \/ UNCHANGED <<serverVars, rebuildVars, missed>>
  PROVE  WakeInv'
<1> SUFFICES ASSUME NEW h \in Generations, Current(h) PROVE Informed(h)'
  BY DEF WakeInv, Current
<1>1. CASE h = g
  BY <1>1
<1>2. CASE h # g
  <2>1. ~Current(g)
    BY <1>2 DEF Current
  <2>2. loop'[h] = loop[h]
    BY <1>2 DEF Moved
  <2>3. Informed(h)
    BY DEF WakeInv
  <2>4. /\ agents' = agents /\ events' = events /\ lost' = lost
        /\ rebuildRequested' = rebuildRequested
        /\ rebuildTimer' = rebuildTimer /\ missed' = missed
    BY <2>1
  <2> QED
    BY <2>2, <2>3, <2>4, Zenon DEF Informed, Told
<1> QED
  BY <1>1, <1>2

\* Closing keeps the sockets countable.
LEMMA CloseType ==
  ASSUME TypeOK, SocketInv, NEW g \in Generations, NEW point,
         CloseSubscription(g, point)
  PROVE  sockets' \in [Generations -> Nat] /\ active' \in 0 .. MaxStarts
BY DEF TypeOK, SocketInv, CloseSubscription

-----------------------------------------------------------------------------
(* One lemma per action of run(). *)

\* An answer is fresh when it is given, whatever comes later.
LEMMA ListAnsweredKeeps ==
  ASSUME IInv, NEW g \in Generations, ListAnswered(g)
  PROVE  IInv'
<1> USE DEF IInv
<1>1. Moved(g, loop[g].at, loop[g].ids, agents, loop[g].socket)
  BY ListAnsweredMoves
<1>2. TypeOK'
  BY <1>1 DEF ListAnswered, TypeOK, Moved
<1>3. ControlInv'
  BY <1>1, ControlKept DEF ListAnswered
<1>4. SocketInv'
  <2>1. SocketLive(g) => loop[g].at \in Behind
    BY DEF SocketInv, Behind
  <2> QED
    BY <1>1, <2>1, SocketsKept DEF ListAnswered
<1>5. Informed(g)'
  BY <1>1 DEF ListAnswered, Moved, Informed, Listings
<1>6. WakeInv'
  BY <1>1, <1>5, WakeOfOne DEF ListAnswered
<1> QED
  BY <1>2, <1>3, <1>4, <1>6

\* A stale answer is used only together with the wake that repairs it.
LEMMA ListReturnsKeeps ==
  ASSUME IInv, NEW g \in Generations, ListReturns(g)
  PROVE  IInv'
<1> USE DEF IInv
<1>1. /\ Current(g) /\ loop[g].at = "listing" /\ loop[g].reply # NoReply
      /\ UNCHANGED <<serverVars, rebuildTimer, controlVars>>
      /\ missed' = FALSE
  BY DEF ListReturns
<1>2. g <= starts /\ g = loopTask /\ ~SocketLive(g)
  BY <1>1, UnderWay DEF SocketInv
<1>3. loop[g].reply = agents \/ Told
  BY <1>1 DEF WakeInv, Informed, Listings
<1>4. CASE /\ loop[g].reply = {} /\ ~rebuildRequested /\ Go(g, "idle")
           /\ UNCHANGED <<rebuildRequested, sockets, active, failures>>
  <2>1. Moved(g, "idle", loop[g].ids, loop[g].reply, loop[g].socket)
    BY <1>4, GoMoves, Vocabulary
  <2>2. TypeOK'
    BY <1>1, <1>4, <2>1 DEF TypeOK, Moved
  <2>3. ControlInv'
    BY <1>1, <1>2, <2>1, ControlKept
  <2>4. SocketInv'
    BY <1>1, <1>2, <1>4, <2>1, SocketsKept
  <2>5. agents' = {} \/ events' > 0 \/ lost' > 0
    BY <1>1, <1>3, <1>4 DEF Told
  <2>6. ~rebuildRequested'
    BY <1>4
  <2>7. Informed(g)'
    BY <2>1, <2>5, <2>6 DEF Moved, Informed, Told, Listings
  <2> QED
    BY <1>1, <2>1, <2>2, <2>3, <2>4, <2>7, WakeOfOne
<1>5. CASE /\ loop[g].reply = {} /\ rebuildRequested
           /\ rebuildRequested' = FALSE /\ List(g, "listing")
           /\ UNCHANGED <<sockets, active, failures>>
  <2>1. Moved(g, "listing", loop[g].ids, NoReply, loop[g].socket)
    BY <1>5, ListMoves, Vocabulary
  <2>2. TypeOK'
    BY <1>1, <1>5, <2>1 DEF TypeOK, Moved
  <2>3. ControlInv'
    BY <1>1, <1>2, <2>1, ControlKept
  <2>4. SocketInv'
    BY <1>1, <1>2, <1>5, <2>1, SocketsKept
  <2>5. Informed(g)'
    BY <2>1 DEF Moved, Informed, Listings
  <2> QED
    BY <1>1, <2>1, <2>2, <2>3, <2>4, <2>5, WakeOfOne
<1>6. CASE Subscribe(g) /\ UNCHANGED <<rebuildRequested, failures>>
  <2>1. Moved(g, "subscribing", loop[g].reply, loop[g].reply, "pending")
    BY <1>1, <1>6, SubscribeMoves
  <2>2. TypeOK'
    <3>1. sockets' \in [Generations -> Nat] /\ active' \in 0 .. MaxStarts
      BY <1>6 DEF TypeOK, Subscribe
    <3>2. UNCHANGED <<serverVars, controlVars, rebuildTimer, rebuildRequested,
                      failures>> /\ missed' = FALSE
      BY <1>1, <1>6
    <3> QED
      BY <2>1, <3>1, <3>2 DEF TypeOK, Moved
  <2>3. ControlInv'
    BY <1>1, <1>2, <2>1, ControlKept
  <2>4. SocketInv'
    BY <1>1, <1>2, <1>6, SocketsOpen
  <2>5. loop[g].reply = agents' \/ Told'
    BY <1>1, <1>3, <1>6, Zenon DEF Told, serverVars
  <2>6. Informed(g)'
    BY <2>1, <2>5 DEF Moved, Informed, Listings
  <2> QED
    BY <1>1, <2>1, <2>2, <2>3, <2>4, <2>6, WakeOfOne
<1>7. CASE /\ Fail /\ Go(g, "sleeping")
           /\ UNCHANGED <<rebuildRequested, sockets, active>>
  <2>1. Moved(g, "sleeping", loop[g].ids, loop[g].reply, loop[g].socket)
    BY <1>7, GoMoves, Vocabulary
  <2>2. TypeOK'
    <3>1. failures' \in 0 .. MaxFailures
      BY <1>7 DEF TypeOK, Fail
    <3>2. UNCHANGED <<serverVars, controlVars, rebuildTimer, rebuildRequested,
                      sockets, active>> /\ missed' = FALSE
      BY <1>1, <1>7
    <3> QED
      BY <2>1, <3>1, <3>2 DEF TypeOK, Moved
  <2>3. ControlInv'
    BY <1>1, <1>2, <2>1, ControlKept
  <2>4. SocketInv'
    BY <1>1, <1>2, <1>7, <2>1, SocketsKept
  <2>5. Informed(g)'
    BY <2>1 DEF Moved, Informed, Listings
  <2> QED
    BY <1>1, <2>1, <2>2, <2>3, <2>4, <2>5, WakeOfOne
<1> QED
  BY <1>4, <1>5, <1>6, <1>7 DEF ListReturns

\* A failed listing is repeated before anything else is believed.
LEMMA ListFailsKeeps ==
  ASSUME IInv, NEW g \in Generations, ListFails(g)
  PROVE  IInv'
<1> USE DEF IInv
<1>1. Moved(g, "sleeping", loop[g].ids, loop[g].reply, loop[g].socket)
  BY GoMoves, Vocabulary DEF ListFails
<1>2. g <= starts /\ g = loopTask /\ ~SocketLive(g)
  BY UnderWay DEF ListFails, SocketInv
<1>3. TypeOK'
  BY <1>1 DEF ListFails, Fail, TypeOK, Moved
<1>4. ControlInv'
  BY <1>1, <1>2, ControlKept DEF ListFails
<1>5. SocketInv'
  BY <1>1, <1>2, SocketsKept DEF ListFails
<1>6. Informed(g)'
  BY <1>1 DEF Moved, Informed, Listings
<1>7. WakeInv'
  BY <1>1, <1>6, WakeOfOne DEF ListFails
<1> QED
  BY <1>3, <1>4, <1>5, <1>7

\* The flag is looked at between the acknowledgement and the sleep.
LEMMA SubscribeReadyKeeps ==
  ASSUME IInv, NEW g \in Generations, SubscribeReady(g)
  PROVE  IInv'
<1> USE DEF IInv
<1>1. /\ Current(g) /\ loop[g].at = "subscribing" /\ ~rebuildRequested'
      /\ UNCHANGED <<serverVars, rebuildTimer, controlVars, sockets, active,
                     failures, missed>>
  BY DEF SubscribeReady
<1>2. PICK point, reply : /\ point \in {"checking", "holding"}
                           /\ Moved(g, point, loop[g].ids, reply, "open")
  BY ReadyMoves
<1>3. g <= starts /\ g = loopTask
  BY <1>1, UnderWay
<1>4. TypeOK'
  BY <1>1, <1>2 DEF SubscribeReady, TypeOK, Moved
<1>5. ControlInv'
  BY <1>1, <1>2, <1>3, ControlKept
<1>6. SocketInv'
  <2>1. loop[g].socket = "pending" /\ active = g
    BY <1>1 DEF SocketInv, SocketLive
  <2>2. \A h \in Generations : SocketLive(h)' <=> SocketLive(h)
    BY <1>2, <2>1 DEF Moved, SocketLive
  <2>3. ~running' => active' = 0
    BY <1>1 DEF SocketInv
  <2>4. ASSUME NEW h \in Generations
        PROVE  /\ sockets'[h] = IF SocketLive(h)' THEN 1 ELSE 0
               /\ SocketLive(h)' => active' = h /\ loop'[h].at \in Behind
    BY <1>1, <1>2, <2>2 DEF SocketInv, Moved, Behind
  <2>5. ASSUME NEW h \in Generations
        PROVE  Current(h)' => loop'[h].at # "subscribing"
    BY <1>1, <1>2 DEF Current, Moved
  <2> QED
    BY <2>3, <2>4, <2>5 DEF SocketInv, Behind
<1>7. Informed(g)'
  <2>1. CASE rebuildRequested
    <3>1. Moved(g, "checking", loop[g].ids, NoReply, "open")
      BY <2>1, ReadyMoves
    <3> QED
      BY <3>1 DEF Moved, Informed, Listings
  <2>2. CASE ~rebuildRequested
    <3>1. loop[g].ids = agents \/ events > 0 \/ lost > 0
      BY <1>1, <2>2 DEF WakeInv, Informed, Told
    <3>2. loop[g].ids = agents' \/ events' > 0 \/ lost' > 0
      BY <1>1, <3>1
    <3>3. \/ Moved(g, "checking", loop[g].ids, NoReply, "open")
          \/ Moved(g, "holding", loop[g].ids, loop[g].reply, "open")
      BY ReadyMoves
    <3> QED
      BY <1>1, <3>2, <3>3 DEF Moved, Informed, Listings, Told
  <2> QED
    BY <2>1, <2>2
<1>8. WakeInv'
  BY <1>1, <1>2, <1>7, WakeOfOne
<1> QED
  BY <1>4, <1>5, <1>6, <1>8

\* The subscription is given up.
LEMMA ClosingKeeps ==
  ASSUME IInv, NEW g \in Generations, Current(g),
         NEW point \in {"sleeping", "listing"}, CloseSubscription(g, point),
         failures' \in 0 .. MaxFailures, missed' \in BOOLEAN,
         UNCHANGED <<serverVars, rebuildVars, controlVars>>
  PROVE  IInv'
<1> USE DEF IInv
<1>1. Moved(g, point, loop[g].ids, NoReply, "closed")
  BY CloseMoves, Vocabulary
<1>2. TypeOK'
  BY <1>1, CloseType DEF TypeOK, Moved
<1>3. ControlInv'
  BY <1>1, UnderWay, ControlKept
<1>4. SocketInv'
  BY SocketsClose, Vocabulary
<1>5. Informed(g)'
  BY <1>1 DEF Moved, Informed, Listings
<1>6. WakeInv'
  BY <1>1, <1>5, WakeOfOne
<1> QED
  BY <1>2, <1>3, <1>4, <1>6

\* A refused subscription is closed before the retry.
LEMMA SubscribeFailsKeeps ==
  ASSUME IInv, NEW g \in Generations, SubscribeFails(g)
  PROVE  IInv'
<1>1. failures' \in 0 .. MaxFailures /\ missed' \in BOOLEAN
  BY DEF IInv, TypeOK, SubscribeFails, Fail
<1> QED
  BY <1>1, ClosingKeeps DEF SubscribeFails

\* A subscription that closed is given up before the retry.
LEMMA HoldEndsKeeps ==
  ASSUME IInv, NEW g \in Generations, HoldEnds(g)
  PROVE  IInv'
<1>1. failures' \in 0 .. MaxFailures /\ missed' \in BOOLEAN
  BY DEF IInv, TypeOK, HoldEnds
<1> QED
  BY <1>1, ClosingKeeps DEF HoldEnds

\* holdSubscription() goes from one of its waits to the next.
LEMMA HeldMoves ==
  ASSUME IInv, NEW g \in Generations, Current(g),
         loop[g].at \in {"holding", "checking", "checkRetry"}, Held(g),
         loop[g].ids = agents \/ events > 0 \/ lost > 0 \/ missed' = TRUE
           \/ loop'[g].at = "checking",
         missed' \in BOOLEAN, rebuildTimer' \in BOOLEAN,
         UNCHANGED <<serverVars, controlVars, sockets, active, failures>>
  PROVE  IInv'
<1> USE DEF IInv
<1>1. rebuildRequested' = FALSE
  BY DEF Held
<1>2. PICK point, reply : /\ point \in {"checking", "holding"}
                           /\ Moved(g, point, loop[g].ids, reply, loop[g].socket)
  BY DEF Held
<1>3. TypeOK'
  BY <1>1, <1>2 DEF TypeOK, Moved
<1>4. ControlInv'
  BY <1>2, UnderWay, ControlKept
<1>5. SocketInv'
  BY <1>2, SocketsKept DEF Behind
<1>6. Informed(g)'
  <2>1. CASE Moved(g, "checking", loop[g].ids, NoReply, loop[g].socket)
    BY <2>1 DEF Moved, Informed, Listings
  <2>2. CASE Moved(g, "holding", loop[g].ids, loop[g].reply, loop[g].socket)
    <3>1. loop'[g].at = "holding" /\ loop'[g].ids = loop[g].ids
      BY <2>2 DEF Moved
    <3>2. loop'[g].ids = agents' \/ events' > 0 \/ lost' > 0 \/ missed' = TRUE
      BY <3>1
    <3> QED
      BY <1>1, <3>1, <3>2 DEF Informed, Listings, Told
  <2> QED
    BY <2>1, <2>2 DEF Held
<1>7. WakeInv'
  BY <1>2, <1>6, WakeOfOne
<1> QED
  BY <1>3, <1>4, <1>5, <1>7

\* A wait that ends.
LEMMA ResumeKeeps ==
  ASSUME IInv, NEW g \in Generations, Current(g), Resume(g),
         rebuildTimer' \in BOOLEAN,
         UNCHANGED <<serverVars, controlVars, sockets, active, failures, missed>>
  PROVE  IInv'
<1> USE DEF IInv
<1>1. Resumed(g)
  BY ResumeMoves
<1>2. missed' \in BOOLEAN
  BY DEF TypeOK
<1>3. CASE loop[g].at = "idle"
  <2>1. Moved(g, "listing", loop[g].ids, NoReply, loop[g].socket)
        /\ rebuildRequested' = FALSE
    BY <1>1, <1>3 DEF Resumed
  <2>2. g <= starts /\ g = loopTask /\ ~SocketLive(g)
    BY <1>3, UnderWay DEF SocketInv
  <2>3. TypeOK'
    BY <2>1 DEF TypeOK, Moved
  <2>4. ControlInv'
    BY <2>1, <2>2, ControlKept
  <2>5. SocketInv'
    BY <2>1, <2>2, SocketsKept
  <2>6. Informed(g)'
    BY <2>1 DEF Moved, Informed, Listings
  <2>7. WakeInv'
    BY <2>1, <2>6, WakeOfOne
  <2> QED
    BY <2>3, <2>4, <2>5, <2>7
<1>4. CASE loop[g].at = "holding"
  <2>1. Held(g) /\ loop'[g].at = "checking"
    BY <1>1, <1>4 DEF Resumed, Held, Moved
  <2> QED
    BY <1>2, <1>4, <2>1, HeldMoves
<1>5. CASE loop[g].at = "checkRetry"
  <2>1. Held(g)
    BY <1>1, <1>5 DEF Resumed
  <2>2. missed' = TRUE
    BY <1>5 DEF WakeInv, Informed, TypeOK
  <2> QED
    BY <1>2, <1>5, <2>1, <2>2, HeldMoves
<1> QED
  BY <1>1, <1>3, <1>4, <1>5 DEF Resumed

\* The same panes are kept, other ones are listed again.
LEMMA CheckReturnsKeeps ==
  ASSUME IInv, NEW g \in Generations, CheckReturns(g)
  PROVE  IInv'
<1> USE DEF IInv
<1>1. /\ Current(g) /\ loop[g].at = "checking" /\ loop[g].reply # NoReply
      /\ missed' = FALSE
      /\ UNCHANGED <<serverVars, rebuildTimer, controlVars, failures>>
  BY DEF CheckReturns
<1>2. CASE loop[g].reply = loop[g].ids
  <2>1. Hold(g) /\ UNCHANGED <<sockets, active>>
    BY <1>2 DEF CheckReturns
  <2>2. Held(g)
    BY <2>1, HoldMoves
  <2>3. loop[g].ids = agents \/ events > 0 \/ lost > 0 \/ rebuildRequested
    BY <1>1, <1>2 DEF WakeInv, Informed, Listings, Told
  <2>4. CASE rebuildRequested
    <3>1. Moved(g, "checking", loop[g].ids, NoReply, loop[g].socket)
      BY <2>1, <2>4, ListMoves, Vocabulary DEF Hold
    <3>2. loop'[g].at = "checking"
      BY <3>1 DEF Moved
    <3> QED
      BY <1>1, <2>1, <2>2, <3>2, HeldMoves DEF TypeOK
  <2>5. CASE ~rebuildRequested
    BY <1>1, <2>1, <2>2, <2>3, <2>5, HeldMoves DEF TypeOK
  <2> QED
    BY <2>4, <2>5
<1>3. CASE loop[g].reply # loop[g].ids
  <2>1. CloseSubscription(g, "listing") /\ UNCHANGED rebuildRequested
    BY <1>3 DEF CheckReturns
  <2> QED
    BY <1>1, <2>1, ClosingKeeps DEF TypeOK
<1> QED
  BY <1>2, <1>3

\* A failed check is remembered by the history.
LEMMA CheckFailsKeeps ==
  ASSUME IInv, NEW g \in Generations, CheckFails(g)
  PROVE  IInv'
<1> USE DEF IInv
<1>1. Moved(g, "checkRetry", loop[g].ids, loop[g].reply, loop[g].socket)
  BY GoMoves, Vocabulary DEF CheckFails
<1>2. g <= starts /\ g = loopTask
  BY UnderWay DEF CheckFails
<1>3. TypeOK'
  BY <1>1 DEF CheckFails, Fail, TypeOK, Moved
<1>4. ControlInv'
  BY <1>1, <1>2, ControlKept DEF CheckFails
<1>5. SocketInv'
  BY <1>1, SocketsKept DEF CheckFails, Behind
<1>6. Informed(g)'
  BY <1>1 DEF CheckFails, Moved, Informed, Listings
<1>7. WakeInv'
  BY <1>1, <1>6, WakeOfOne DEF CheckFails
<1> QED
  BY <1>3, <1>4, <1>5, <1>7

\* The retry delays end in a listing or in holdSubscription().
LEMMA RetryTimerFiresKeeps ==
  ASSUME IInv, NEW g \in Generations, RetryTimerFires(g)
  PROVE  IInv'
<1> USE DEF IInv
<1>1. /\ Current(g)
      /\ UNCHANGED <<serverVars, rebuildTimer, controlVars, sockets, active,
                     failures, missed>>
  BY DEF RetryTimerFires
<1>2. CASE Resume(g)
  BY <1>1, <1>2, ResumeKeeps DEF TypeOK
<1>3. CASE /\ loop[g].at = "sleeping" /\ List(g, "listing")
           /\ UNCHANGED rebuildRequested
  <2>1. Moved(g, "listing", loop[g].ids, NoReply, loop[g].socket)
    BY <1>3, ListMoves, Vocabulary
  <2>2. g <= starts /\ g = loopTask /\ ~SocketLive(g)
    BY <1>3, UnderWay DEF SocketInv
  <2>3. TypeOK'
    BY <1>1, <1>3, <2>1 DEF TypeOK, Moved
  <2>4. ControlInv'
    BY <1>1, <2>1, <2>2, ControlKept
  <2>5. SocketInv'
    BY <1>1, <2>1, <2>2, SocketsKept
  <2>6. Informed(g)'
    BY <2>1 DEF Moved, Informed, Listings
  <2>7. WakeInv'
    BY <1>1, <2>1, <2>6, WakeOfOne
  <2> QED
    BY <2>3, <2>4, <2>5, <2>7
<1> QED
  BY <1>2, <1>3 DEF RetryTimerFires

\* The fallback poll is a wait that ends.
LEMMA PollTimerFiresKeeps ==
  ASSUME IInv, NEW g \in Generations, PollTimerFires(g)
  PROVE  IInv'
BY ResumeKeeps DEF PollTimerFires, IInv, TypeOK

\* A retired generation closes what it has and informs nobody.
LEMMA CancelledKeeps ==
  ASSUME IInv, NEW g \in Generations, Cancelled(g)
  PROVE  IInv'
<1> USE DEF IInv
<1>1. /\ ~Current(g) /\ loop[g].at \notin {"unborn", "ended"}
      /\ CloseSubscription(g, "ended")
      /\ UNCHANGED <<serverVars, rebuildTimer, controlVars, failures, missed>>
  BY DEF Cancelled
<1>2. Moved(g, "ended", loop[g].ids, NoReply, "closed")
  BY <1>1, CloseMoves, Vocabulary
<1>3. g <= starts /\ g = loopTask
  BY <1>1, UnderWay
<1>4. ~running
  BY <1>1, <1>3 DEF ControlInv, Current
<1>5. rebuildRequested' \in BOOLEAN
  BY DEF Cancelled, TypeOK
<1>6. TypeOK'
  BY <1>1, <1>2, <1>5, CloseType DEF TypeOK, Moved
<1>7. ControlInv'
  BY <1>1, <1>2, <1>3, ControlKept
<1>8. SocketInv'
  BY <1>1, SocketsClose, Vocabulary
<1>9. WakeInv'
  BY <1>1, <1>4 DEF WakeInv, Current
<1> QED
  BY <1>6, <1>7, <1>8, <1>9

\* The socket of a subscription that is not awaited any more closes.
LEMMA SocketClosesKeeps ==
  ASSUME IInv, NEW g \in Generations, SocketCloses(g)
  PROVE  IInv'
<1> USE DEF IInv
<1>1. Moved(g, loop[g].at, loop[g].ids, loop[g].reply, "closed")
  BY SocketClosesMoves
<1>2. /\ SocketLive(g) /\ loop[g].socket = "open"
      /\ UNCHANGED <<serverVars, rebuildVars, controlVars, active, missed>>
  BY DEF SocketCloses, SocketLive
<1>3. TypeOK'
  <2>1. sockets' \in [Generations -> Nat]
    BY <1>2 DEF SocketCloses, TypeOK, SocketInv
  <2>2. failures' \in 0 .. MaxFailures
    BY DEF SocketCloses, Fail, TypeOK
  <2> QED
    BY <1>1, <1>2, <2>1, <2>2 DEF TypeOK, Moved
<1>4. ControlInv'
  BY <1>1, <1>2, ControlKept
<1>5. SocketInv'
  <2>1. ~SocketLive(g)' /\ \A h \in Generations : h # g =>
          (SocketLive(h)' <=> SocketLive(h))
    BY <1>1 DEF Moved, SocketLive
  <2>2. \A h \in Generations : sockets'[h] = IF SocketLive(h)' THEN 1 ELSE 0
    BY <1>2, <2>1 DEF SocketCloses, TypeOK, SocketInv
  <2>3. \A h \in Generations :
          SocketLive(h)' => active' = h /\ loop'[h].at \in Behind
    BY <1>1, <1>2, <2>1 DEF SocketInv, Moved, Behind
  <2>4. \A h \in Generations : Current(h)' /\ loop'[h].at = "subscribing" =>
          loop'[h].socket = "pending"
    <3>1. \A h \in Generations : Current(h)' <=> Current(h)
      BY <1>2 DEF Current
    <3> QED
      BY <1>1, <1>2, <3>1 DEF SocketInv, Moved
  <2> QED
    BY <1>2, <2>2, <2>3, <2>4 DEF SocketInv, Behind
<1>6. Current(g) => Informed(g)'
  <2>1. Current(g) => Informed(g)
    BY DEF WakeInv
  <2>2. /\ loop'[g].at = loop[g].at /\ loop'[g].ids = loop[g].ids
        /\ loop'[g].reply = loop[g].reply
    BY <1>1 DEF Moved
  <2>3. /\ agents' = agents /\ events' = events /\ lost' = lost
        /\ rebuildRequested' = rebuildRequested
        /\ rebuildTimer' = rebuildTimer /\ missed' = missed
    BY <1>2
  <2> QED
    BY <2>1, <2>2, <2>3, Zenon DEF Informed, Told
<1>7. WakeInv'
  BY <1>1, <1>2, <1>6, WakeOfOne
<1> QED
  BY <1>3, <1>4, <1>5, <1>7

-----------------------------------------------------------------------------
(* start() and stop(), events and the debounce timer. *)

\* A new generation lists before it believes anything.
LEMMA StartKeeps == IInv /\ start => IInv'
<1> SUFFICES ASSUME IInv, start PROVE IInv'
  OBVIOUS
<1> USE DEF IInv
<1> PICK g \in Generations : g = starts + 1
  BY DEF start, TypeOK
<1>1. ~running /\ loopTask = 0
  BY DEF start
<1>2. /\ List(g, "listing")
      /\ UNCHANGED <<serverVars, rebuildVars, sockets, active, failures, missed>>
  BY DEF start
<1>3. /\ running' = TRUE /\ stopTask' = "none" /\ starts' = g
      /\ generation' = g /\ loopTask' = g
  BY DEF start
<1>4. Moved(g, "listing", loop[g].ids, NoReply, loop[g].socket)
  BY <1>1, <1>2, ListMoves, Vocabulary
<1>5. \A h \in Generations : ~SocketLive(h)
  BY <1>1 DEF SocketInv, TypeOK
<1>6. TypeOK'
  BY <1>1, <1>2, <1>3, <1>4 DEF TypeOK, Moved
<1>7. ControlInv'
  <2>1. /\ (generation = IF running THEN starts ELSE 0)'
        /\ (running => stopTask = "none" /\ loopTask = starts /\ starts # 0)'
        /\ (stopTask = "none" => running \/ loopTask = 0)'
        /\ stopTask' # "done" /\ stopTask' # "pending"
    BY <1>1, <1>3 DEF TypeOK
  <2>2. ASSUME NEW h \in Generations
        PROVE  /\ h > starts' => loop'[h].at = "unborn"
               /\ h <= starts' /\ h # loopTask' => loop'[h].at = "ended"
    BY <1>1, <1>3, <1>4 DEF ControlInv, TypeOK, Moved
  <2> QED
    BY <2>1, <2>2 DEF ControlInv
<1>8. SocketInv'
  <2>1. \A h \in Generations : ~SocketLive(h)'
    BY <1>4, <1>5 DEF Moved, SocketLive
  <2>2. \A h \in Generations : Current(h)' => loop'[h].at = "listing"
    BY <1>3, <1>4 DEF Current, Moved
  <2> QED
    BY <1>2, <1>3, <1>5, <2>1, <2>2 DEF SocketInv
<1>9. WakeInv'
  <2>1. Informed(g)'
    BY <1>4 DEF Moved, Informed, Listings
  <2> QED
    BY <1>3, <2>1 DEF WakeInv, Current
<1> QED
  BY <1>6, <1>7, <1>8, <1>9

\* stop() closes the active subscription, the only one there is.
LEMMA StopKeeps == IInv /\ stop => IInv'
<1> SUFFICES ASSUME IInv, stop PROVE IInv'
  OBVIOUS
<1> USE DEF IInv
<1>1. /\ running' = FALSE /\ generation' = 0 /\ stopTask' = "pending"
      /\ rebuildRequested' = FALSE /\ rebuildTimer' = FALSE
      /\ UNCHANGED <<serverVars, loopTask, starts, failures, missed>>
  BY DEF stop
<1>2. \A h \in Generations : ~Current(h)'
  BY <1>1 DEF Current
<1>3. /\ agents' \in SUBSET Panes /\ events' \in Nat
      /\ running' \in BOOLEAN
      /\ generation' \in 0 .. MaxStarts /\ loopTask' \in 0 .. MaxStarts
      /\ stopTask' \in {"none", "pending", "done"}
      /\ rebuildRequested' \in BOOLEAN /\ rebuildTimer' \in BOOLEAN
      /\ starts' \in 0 .. MaxStarts /\ changes' \in 0 .. MaxChanges
      /\ lost' \in 0 .. MaxLost /\ failures' \in 0 .. MaxFailures
      /\ missed' \in BOOLEAN
  <2>1. running' \in BOOLEAN
    BY <1>1
  <2>2. rebuildRequested' \in BOOLEAN /\ rebuildTimer' \in BOOLEAN
    BY <1>1
  <2> QED
    BY <1>1, <2>1, <2>2 DEF TypeOK
<1>4. loopTask # 0
  BY DEF stop, ControlInv
<1>5. CASE active = 0
  <2>1. UNCHANGED <<loop, sockets, active>>
    BY <1>5 DEF stop
  <2>2. TypeOK'
    BY <1>3, <2>1 DEF TypeOK
  <2>3. ControlInv'
    <3>1. \A h \in Generations : loop'[h].at = loop[h].at
      BY <2>1
    <3> QED
      BY <1>1, <1>4, <3>1 DEF ControlInv
  <2>4. SocketInv'
    BY <1>2, <1>5, <2>1 DEF SocketInv, SocketLive
  <2> QED
    BY <1>2, <2>2, <2>3, <2>4 DEF WakeInv
<1>6. CASE active # 0
  <2>1. active \in Generations /\ loop[active].at \in Points
    BY <1>6, Fields DEF TypeOK
  <2>2. CloseSubscription(active, loop[active].at)
    BY <1>6 DEF stop
  <2>3. Moved(active, loop[active].at, loop[active].ids, NoReply, "closed")
    BY <2>1, <2>2, CloseMoves
  <2>4. active' = 0
    BY <2>2 DEF CloseSubscription
  <2>5. TypeOK'
    BY <1>3, <2>1, <2>2, <2>3, CloseType DEF TypeOK, Moved
  <2>6. ControlInv'
    <3>1. \A h \in Generations : loop'[h].at = loop[h].at
      BY <2>1, <2>3 DEF Moved
    <3> QED
      BY <1>1, <1>4, <3>1 DEF ControlInv
  <2>7. SocketInv'
    <3>1. \A h \in Generations : ~SocketLive(h)'
      BY <2>1, <2>3 DEF SocketInv, SocketLive, Moved
    <3>2. \A h \in Generations : sockets'[h] = 0
      BY <2>1, <2>2, <3>1 DEF TypeOK, SocketInv, CloseSubscription
    <3> QED
      BY <1>2, <2>4, <3>1, <3>2 DEF SocketInv
  <2> QED
    BY <1>2, <2>5, <2>6, <2>7 DEF WakeInv
<1> QED
  BY <1>5, <1>6

\* stop() returns behind the last generation.
LEMMA StopReturnsKeeps == IInv /\ StopReturns => IInv'
<1> SUFFICES ASSUME IInv, StopReturns PROVE IInv'
  OBVIOUS
<1> USE DEF IInv, StopReturns
<1>1. TypeOK'
  BY DEF TypeOK
<1>2. ControlInv'
  BY DEF ControlInv
<1>3. SocketInv'
  BY DEF SocketInv, SocketLive, Current
<1>4. WakeInv'
  <2>1. ~running'
    BY DEF ControlInv
  <2> QED
    BY <2>1 DEF WakeInv, Current
<1> QED
  BY <1>1, <1>2, <1>3, <1>4

\* Steps that move no loop, and after which every current one is informed.
LEMMA StillKeeps ==
  ASSUME IInv, TypeOK', UNCHANGED <<controlVars, loopVars>>,
         \A g \in Generations : Current(g) /\ Informed(g) => Informed(g)'
  PROVE  IInv'
<1> USE DEF IInv
<1>1. ControlInv'
  BY DEF ControlInv
<1>2. SocketInv'
  BY DEF SocketInv, SocketLive, Current
<1>3. WakeInv'
  BY DEF WakeInv, Current
<1> QED
  BY <1>1, <1>2, <1>3

\* A change is announced by an event.
LEMMA AgentsChangeKeeps == IInv /\ AgentsChange => IInv'
<1> SUFFICES ASSUME IInv, AgentsChange PROVE IInv'
  OBVIOUS
<1>1. TypeOK'
  BY DEF IInv, TypeOK, AgentsChange
<1>2. events' > 0 /\ UNCHANGED <<rebuildVars, missed, loop>>
  BY DEF IInv, TypeOK, AgentsChange
<1>3. Told'
  BY <1>2 DEF Told
<1>4. \A g \in Generations : Informed(g) => Informed(g)'
  BY <1>2, <1>3 DEF Informed
<1> QED
  BY <1>1, <1>4, StillKeeps DEF AgentsChange

\* An arriving event tells a running loop, which its timer will wake.
LEMMA EventArrivesKeeps == IInv /\ EventArrives => IInv'
<1> SUFFICES ASSUME IInv, EventArrives PROVE IInv'
  OBVIOUS
<1>1. TypeOK'
  BY DEF IInv, TypeOK, EventArrives
<1>2. UNCHANGED <<missed, loop>>
  BY DEF EventArrives
<1>3. ASSUME running PROVE rebuildRequested' /\ rebuildTimer'
  BY <1>3 DEF EventArrives
<1>4. ASSUME NEW g \in Generations, Current(g), Informed(g)
      PROVE  Informed(g)'
  <2>1. rebuildTimer' /\ Told'
    BY <1>3, <1>4 DEF Current, Told
  <2> QED
    BY <1>2, <1>4, <2>1 DEF Informed
<1> QED
  BY <1>1, <1>4, StillKeeps DEF EventArrives

\* A lost event is counted.
LEMMA EventIsLostKeeps == IInv /\ EventIsLost => IInv'
<1> SUFFICES ASSUME IInv, EventIsLost PROVE IInv'
  OBVIOUS
<1>1. TypeOK'
  BY DEF IInv, TypeOK, EventIsLost
<1>2. lost' > 0 /\ UNCHANGED <<rebuildVars, missed, loop>>
  BY DEF IInv, TypeOK, EventIsLost
<1>3. Told'
  BY <1>2 DEF Told
<1>4. \A g \in Generations : Informed(g) => Informed(g)'
  BY <1>2, <1>3 DEF Informed
<1> QED
  BY <1>1, <1>4, StillKeeps DEF EventIsLost

\* The timer wakes who waits; who does not wait keeps the flag.
LEMMA RebuildTimerFiresKeeps == IInv /\ RebuildTimerFires => IInv'
<1> SUFFICES ASSUME IInv, RebuildTimerFires PROVE IInv'
  OBVIOUS
<1>1. CASE \E g \in Generations : Current(g) /\ Resume(g)
  BY <1>1, ResumeKeeps DEF RebuildTimerFires
<1>2. CASE /\ \A g \in Generations : Current(g) => loop[g].at \notin Wakeable
           /\ UNCHANGED <<rebuildRequested, loop>>
  <2>1. /\ UNCHANGED <<serverVars, controlVars, loopVars, rebuildRequested>>
        /\ rebuildTimer' = FALSE
    BY <1>2 DEF RebuildTimerFires
  <2>2. TypeOK'
    BY <2>1 DEF IInv, TypeOK
  <2>3. ASSUME NEW g \in Generations, Current(g), Informed(g)
        PROVE  Informed(g)'
    <3>1. loop'[g] = loop[g] /\ loop[g].at \notin Wakeable
      BY <1>2, <2>3
    <3>2. Told' <=> Told
      BY <2>1 DEF Told
    <3> QED
      BY <2>1, <2>3, <3>1, <3>2 DEF Informed, Wakeable, Listings
  <2> QED
    BY <2>1, <2>2, <2>3, StillKeeps
<1> QED
  BY <1>1, <1>2 DEF RebuildTimerFires

-----------------------------------------------------------------------------
(* The invariant. *)

\* Nothing has been started.
LEMMA InvInit == Init => IInv
<1> SUFFICES ASSUME Init PROVE IInv
  OBVIOUS
<1> USE Vocabulary DEF Init
<1>1. TypeOK
  <2>1. [at |-> "unborn", ids |-> {}, reply |-> NoReply, socket |-> "none"]
          \in Loops
    BY DEF Loops
  <2>2. loop \in [Generations -> Loops]
    BY <2>1
  <2>3. sockets \in [Generations -> Nat]
    OBVIOUS
  <2>4. running \in BOOLEAN /\ missed \in BOOLEAN
    OBVIOUS
  <2>5. rebuildRequested \in BOOLEAN /\ rebuildTimer \in BOOLEAN
    OBVIOUS
  <2>6. /\ agents \in SUBSET Panes /\ events \in Nat
        /\ generation \in 0 .. MaxStarts /\ loopTask \in 0 .. MaxStarts
        /\ active \in 0 .. MaxStarts /\ starts \in 0 .. MaxStarts
        /\ changes \in 0 .. MaxChanges /\ lost \in 0 .. MaxLost
        /\ failures \in 0 .. MaxFailures
        /\ stopTask \in {"none", "pending", "done"}
    OBVIOUS
  <2> HIDE DEF Init
  <2> QED
    BY <2>2, <2>3, <2>4, <2>5, <2>6 DEF TypeOK
<1>2. ControlInv
  BY DEF ControlInv
<1>3. SocketInv
  BY DEF SocketInv, SocketLive, Current
<1>4. WakeInv
  BY DEF WakeInv, Current
<1> QED
  BY <1>1, <1>2, <1>3, <1>4 DEF IInv

\* Every step keeps the invariant.
LEMMA InvStep == IInv /\ [Next]_vars => IInv'
<1> SUFFICES ASSUME IInv, [Next]_vars PROVE IInv'
  OBVIOUS
<1>1. CASE Herdr
  BY <1>1, AgentsChangeKeeps, EventArrivesKeeps, EventIsLostKeeps,
     ListAnsweredKeeps, SocketClosesKeeps DEF Herdr
<1>2. CASE \E g \in Generations : Step(g) \/ PollTimerFires(g)
  BY <1>2, ListReturnsKeeps, ListFailsKeeps, SubscribeReadyKeeps,
     SubscribeFailsKeeps, HoldEndsKeeps, CheckReturnsKeeps, CheckFailsKeeps,
     RetryTimerFiresKeeps, CancelledKeeps, PollTimerFiresKeeps DEF Step
<1>3. CASE start \/ stop \/ StopReturns \/ RebuildTimerFires
  BY <1>3, StartKeeps, StopKeeps, StopReturnsKeeps, RebuildTimerFiresKeeps
<1>4. CASE UNCHANGED vars
  <2>1. TypeOK'
    BY <1>4 DEF vars, IInv, TypeOK
  <2>2. \A g \in Generations : Informed(g) => Informed(g)'
    BY <1>4, Zenon DEF vars, serverVars, rebuildVars, loopVars, Informed, Told
  <2> QED
    BY <1>4, <2>1, <2>2, StillKeeps DEF vars
<1> QED
  BY <1>1, <1>2, <1>3, <1>4 DEF Next

\* IInv is an invariant of the loop.
THEOREM Invariance == Safety => []IInv
<1>1. Init => IInv
  BY InvInit
<1>2. IInv /\ [Next]_vars => IInv'
  BY InvStep
<1> QED
  BY <1>1, <1>2, PTL DEF Safety

\* No wake whose event has arrived is lost while no check fails.
THEOREM WakesSurvive == Safety => []WakeSurvives
<1>1. IInv => WakeSurvives
  <2> SUFFICES ASSUME IInv, NEW g \in Generations,
                      Asleep(g), Believed(g) # agents,
                      events = 0, lost = 0, ~missed
               PROVE  rebuildRequested /\ rebuildTimer
    BY DEF WakeSurvives
  <2>1. Informed(g)
    BY DEF IInv, WakeInv, Asleep
  <2>2. loop[g].at = "idle" \/ loop[g].at = "holding"
    BY DEF Asleep
  <2>3. rebuildRequested
    BY <2>1, <2>2 DEF Informed, Believed, Told
  <2> QED
    BY <2>1, <2>2, <2>3 DEF Informed
<1> QED
  BY <1>1, Invariance, PTL

\* At most one status subscription is open.
THEOREM SubscriptionIsUnique == Safety => []OneSubscription
<1>1. IInv => OneSubscription
  BY DEF IInv, SocketInv, OneSubscription
<1> QED
  BY <1>1, Invariance, PTL

\* After stop() no socket is open, and none is opened by what was suspended.
THEOREM StopsAreFinal == Safety => []StopIsFinal
<1>1. IInv => StopIsFinal
  <2> SUFFICES ASSUME IInv PROVE StopIsFinal
    OBVIOUS
  <2> USE DEF IInv
  <2>1. ASSUME stopTask # "none", NEW g \in Generations PROVE sockets[g] = 0
    BY <2>1 DEF ControlInv, SocketInv
  <2>2. ASSUME stopTask = "done", NEW g \in Generations
        PROVE  loop[g].at \in {"unborn", "ended"}
    BY <2>2 DEF ControlInv, TypeOK
  <2> QED
    BY <2>1, <2>2 DEF StopIsFinal
<1> QED
  BY <1>1, Invariance, PTL

-----------------------------------------------------------------------------
(* The sockets are those of an ExclusiveSubscription.                        *)

SubscriptionOf(g) == [panes |-> loop[g].ids, acked |-> loop[g].socket = "open"]

\* Only the generation of a running service has a socket.
LEMMA OpenIsOwned ==
  ASSUME IInv
  PROVE  /\ running => generation \in Generations
         /\ \A g \in Generations : SocketLive(g) => Current(g)
         /\ openNow = IF running /\ SocketLive(generation)
                      THEN {SubscriptionOf(generation)} ELSE {}
<1> USE DEF IInv, Current
<1>1. running => generation \in Generations
  BY DEF ControlInv, TypeOK
<1>2. ASSUME NEW g \in Generations, SocketLive(g) PROVE Current(g)
  <2>1. active = g /\ g # 0 /\ loop[g].at \notin {"unborn", "ended"}
    BY <1>2 DEF SocketInv
  <2> QED
    BY <2>1, UnderWay DEF ControlInv, SocketInv
<1>3. \A g \in Generations : sockets[g] > 0 <=> SocketLive(g)
  BY DEF SocketInv
<1>4. openNow = {SubscriptionOf(g) : g \in {h \in Generations : SocketLive(h)}}
  BY <1>3 DEF openNow, SubscriptionOf
<1>5. CASE running /\ SocketLive(generation)
  <2>1. {h \in Generations : SocketLive(h)} = {generation}
    BY <1>1, <1>2, <1>5
  <2> QED
    BY <1>1, <1>2, <1>4, <1>5, <2>1
<1>6. CASE ~(running /\ SocketLive(generation))
  <2>1. {h \in Generations : SocketLive(h)} = {}
    BY <1>2, <1>6
  <2> QED
    BY <1>1, <1>2, <1>4, <1>6, <2>1
<1> QED
  BY <1>1, <1>2, <1>5, <1>6

\* The same after a step.
LEMMA OpenIsOwnedNext ==
  (IInv => /\ running => generation \in Generations
           /\ \A g \in Generations : SocketLive(g) => Current(g)
           /\ openNow = IF running /\ SocketLive(generation)
                        THEN {SubscriptionOf(generation)} ELSE {})'
<1>1. IInv => /\ running => generation \in Generations
              /\ \A g \in Generations : SocketLive(g) => Current(g)
              /\ openNow = IF running /\ SocketLive(generation)
                           THEN {SubscriptionOf(generation)} ELSE {}
  BY OpenIsOwned
<1> QED
  BY <1>1, PTL

\* Who runs and is stopped is as before.
PhaseKept == UNCHANGED <<running, generation, stopTask>>

\* The current generation keeps its socket and its panes.
LEMMA OpenKept ==
  ASSUME IInv, IInv', PhaseKept,
         running => /\ loop'[generation].socket = loop[generation].socket
                    /\ loop'[generation].ids = loop[generation].ids
  PROVE  UNCHANGED <<phaseNow, openNow>>
BY OpenIsOwned, OpenIsOwnedNext
   DEF PhaseKept, phaseNow, SocketLive, SubscriptionOf

\* A move of a generation that leaves its socket and its panes alone.
LEMMA MoveStutters ==
  ASSUME IInv, IInv', PhaseKept, NEW g \in Generations, NEW point, NEW reply,
         Moved(g, point, loop[g].ids, reply, loop[g].socket)
  PROVE  UNCHANGED <<phaseNow, openNow>>
<1>1. running => /\ loop'[generation].socket = loop[generation].socket
                 /\ loop'[generation].ids = loop[generation].ids
  BY OpenIsOwned DEF Moved
<1> QED
  BY <1>1, OpenKept

\* The current generation loses its socket, if it has one.
LEMMA ClosingGivesUp ==
  ASSUME IInv, IInv', PhaseKept, NEW g \in Generations, Current(g),
         loop'[g].socket = "closed"
  PROVE  Exclusive!GiveUp \/ UNCHANGED <<phaseNow, openNow>>
<1>1. openNow' = {}
  BY OpenIsOwnedNext DEF Current, PhaseKept, SocketLive
<1>2. phaseNow = "running" /\ phaseNow' = phaseNow
  BY DEF Current, PhaseKept, phaseNow
<1> QED
  BY <1>1, <1>2 DEF Exclusive!GiveUp

\* Every step of a generation is one of the abstract specification's.
LEMMA ListReturnsIsExclusive ==
  ASSUME IInv, IInv', NEW g \in Generations, ListReturns(g)
  PROVE  Exclusive!Subscribe \/ UNCHANGED <<phaseNow, openNow>>
<1>1. TypeOK /\ PhaseKept /\ Current(g) /\ loop[g].at = "listing"
  BY DEF IInv, ListReturns, PhaseKept
<1>2. \/ Go(g, "idle") \/ List(g, "listing") \/ Go(g, "sleeping")
      \/ Subscribe(g) /\ loop[g].reply # {} /\ loop[g].reply # NoReply
  BY DEF ListReturns
<1>3. CASE Go(g, "idle") \/ List(g, "listing") \/ Go(g, "sleeping")
  BY <1>1, <1>3, GoMoves, ListMoves, MoveStutters, Vocabulary
<1>4. CASE Subscribe(g) /\ loop[g].reply # {} /\ loop[g].reply # NoReply
  <2>1. loop[g].reply \in (SUBSET Panes) \ {{}}
    <3>1. loop[g].reply \in {NoReply} \cup SUBSET Panes
      BY <1>1, Fields
    <3> HIDE DEF SubscriptionOf
    <3> QED
      BY <1>4, <3>1, Zenon
  <2>2. openNow = {}
    BY <1>1, OpenIsOwned DEF IInv, SocketInv, Current
  <2>3. loop'[g].ids = loop[g].reply /\ loop'[g].socket = "pending"
    BY <1>1, <1>4, SubscribeMoves DEF Moved
  <2>4. running' /\ generation' = g
    BY <1>1 DEF PhaseKept, Current
  <2>5. openNow' = {[panes |-> loop[g].reply, acked |-> FALSE]}
    BY <2>3, <2>4, OpenIsOwnedNext DEF SocketLive, SubscriptionOf
  <2>6. phaseNow = "running" /\ phaseNow' = phaseNow
    BY <1>1 DEF Current, PhaseKept, phaseNow
  <2> QED
    BY <2>1, <2>2, <2>5, <2>6 DEF Exclusive!Subscribe
<1> QED
  BY <1>2, <1>3, <1>4

\* An acknowledgement is for the subscription that is open.
LEMMA SubscribeReadyIsExclusive ==
  ASSUME IInv, IInv', NEW g \in Generations, SubscribeReady(g)
  PROVE  Exclusive!Acknowledge
<1>1. TypeOK /\ PhaseKept /\ Current(g) /\ loop[g].at = "subscribing"
  BY DEF IInv, SubscribeReady, PhaseKept
<1>2. loop[g].socket = "pending" /\ running /\ generation = g
  BY <1>1 DEF IInv, SocketInv, Current
<1>3. loop'[g].socket = "open" /\ loop'[g].ids = loop[g].ids
  BY <1>1, ReadyMoves DEF Moved
<1>4. running' /\ generation' = g
  BY <1>1, <1>2 DEF PhaseKept
<1>5. openNow = {[panes |-> loop[g].ids, acked |-> FALSE]}
  BY <1>2, OpenIsOwned DEF SocketLive, SubscriptionOf
<1>6. openNow' = {[panes |-> loop[g].ids, acked |-> TRUE]}
  BY <1>3, <1>4, OpenIsOwnedNext DEF SocketLive, SubscriptionOf
<1>7. phaseNow = "running" /\ phaseNow' = phaseNow
  BY <1>1 DEF Current, PhaseKept, phaseNow
<1>8. PICK s : s = [panes |-> loop[g].ids, acked |-> FALSE]
  OBVIOUS
<1>9. s.acked = FALSE /\ s.panes = loop[g].ids
  BY <1>8
<1>10. s \in openNow /\ openNow' = {[panes |-> s.panes, acked |-> TRUE]}
  BY <1>5, <1>6, <1>8, <1>9
<1> QED
  BY <1>7, <1>9, <1>10 DEF Exclusive!Acknowledge

\* A retired generation has no socket to close.
LEMMA CancelledIsExclusive ==
  ASSUME IInv, IInv', NEW g \in Generations, Cancelled(g)
  PROVE  UNCHANGED <<phaseNow, openNow>>
<1>1. TypeOK /\ PhaseKept /\ ~Current(g) /\ CloseSubscription(g, "ended")
  BY DEF IInv, Cancelled, PhaseKept
<1>2. \A h \in Generations : h # g => loop'[h] = loop[h]
  BY <1>1, CloseMoves, Vocabulary DEF Moved
<1>3. running => loop'[generation] = loop[generation]
  BY <1>1, <1>2, OpenIsOwned DEF Current
<1> QED
  BY <1>1, <1>3, OpenKept

\* The steps of run() and its timers, and what happens to its socket.
LEMMA LoopIsExclusive ==
  ASSUME IInv, IInv', NEW g \in Generations,
         Step(g) \/ PollTimerFires(g) \/ ListAnswered(g) \/ SocketCloses(g)
  PROVE  Exclusive!Next \/ UNCHANGED <<phaseNow, openNow>>
<1>1. TypeOK
  BY DEF IInv
<1>2. CASE ListAnswered(g)
  <2>1. PhaseKept
    BY <1>2 DEF ListAnswered, PhaseKept
  <2> QED
    BY <1>1, <1>2, <2>1, ListAnsweredMoves, MoveStutters
<1>3. CASE ListFails(g) \/ CheckFails(g)
  <2>1. PhaseKept /\ (Go(g, "sleeping") \/ Go(g, "checkRetry"))
    BY <1>3 DEF ListFails, CheckFails, PhaseKept
  <2> QED
    BY <1>1, <2>1, GoMoves, MoveStutters, Vocabulary
<1>4. CASE SubscribeFails(g) \/ HoldEnds(g)
  <2>1. PhaseKept /\ Current(g) /\ CloseSubscription(g, "sleeping")
    BY <1>4 DEF SubscribeFails, HoldEnds, PhaseKept
  <2>2. loop'[g].socket = "closed"
    BY <1>1, <2>1, CloseMoves, Vocabulary DEF Moved
  <2> QED
    BY <2>1, <2>2, ClosingGivesUp DEF Exclusive!Next
<1>5. CASE SocketCloses(g)
  <2>1. PhaseKept
    BY <1>5 DEF SocketCloses, PhaseKept
  <2>2. Current(g)
    BY <1>5, OpenIsOwned DEF SocketCloses, SocketLive
  <2>3. loop'[g].socket = "closed"
    BY <1>1, <1>5, SocketClosesMoves DEF Moved
  <2> QED
    BY <2>1, <2>2, <2>3, ClosingGivesUp DEF Exclusive!Next
<1>6. CASE CheckReturns(g)
  <2>1. PhaseKept /\ Current(g) /\ (Hold(g) \/ CloseSubscription(g, "listing"))
    BY <1>6 DEF CheckReturns, PhaseKept
  <2>2. CASE Hold(g)
    BY <1>1, <2>1, <2>2, HoldMoves, MoveStutters DEF Held
  <2>3. CASE CloseSubscription(g, "listing")
    <3>1. loop'[g].socket = "closed"
      BY <1>1, <2>3, CloseMoves, Vocabulary DEF Moved
    <3> QED
      BY <2>1, <3>1, ClosingGivesUp DEF Exclusive!Next
  <2> QED
    BY <2>1, <2>2, <2>3
<1>7. CASE RetryTimerFires(g) \/ PollTimerFires(g)
  <2>1. PhaseKept /\ (List(g, "listing") \/ Resume(g))
    BY <1>7 DEF RetryTimerFires, PollTimerFires, PhaseKept
  <2> QED
    BY <1>1, <2>1, ListMoves, ResumeMoves, MoveStutters, Vocabulary DEF Resumed, Held
<1> QED
  BY <1>2, <1>3, <1>4, <1>5, <1>6, <1>7, ListReturnsIsExclusive,
     SubscribeReadyIsExclusive, CancelledIsExclusive DEF Step, Exclusive!Next

\* Starting, stopping, and the end of a stop.
LEMMA ControlIsExclusive ==
  ASSUME IInv, IInv', start \/ stop \/ StopReturns
  PROVE  Exclusive!Next
<1> USE DEF phaseNow
<1>1. CASE start
  <2>1. ~running /\ openNow = {}
    BY <1>1, OpenIsOwned DEF start
  <2>2. starts + 1 \in Generations /\ running' /\ generation' = starts + 1
    BY <1>1 DEF start, IInv, TypeOK
  <2>3. ~SocketLive(starts + 1)
    BY <2>1, <2>2, OpenIsOwned DEF Current
  <2>4. PICK g \in Generations : g = starts + 1
    BY <2>2
  <2>5. loop'[g].socket = loop[g].socket
    BY <1>1, <2>4, ListMoves, Vocabulary DEF start, IInv, Moved
  <2>6. openNow' = {}
    BY <2>2, <2>3, <2>4, <2>5, OpenIsOwnedNext DEF SocketLive
  <2>7. phaseNow = "stopped" /\ phaseNow' = "running"
    <3>1. stopTask # "pending"
      BY <1>1 DEF start, IInv, ControlInv
    <3> QED
      BY <2>1, <2>2, <3>1
  <2> QED
    BY <2>1, <2>6, <2>7 DEF Exclusive!Next, Exclusive!Start
<1>2. CASE stop
  <2>1. running /\ ~running' /\ stopTask' = "pending"
    BY <1>2 DEF stop, IInv, ControlInv
  <2>2. openNow' = {}
    BY <2>1, OpenIsOwnedNext
  <2> QED
    BY <2>1, <2>2 DEF Exclusive!Next, Exclusive!Stop
<1>3. CASE StopReturns
  <2>1. ~running /\ ~running' /\ stopTask = "pending" /\ stopTask' = "done"
    BY <1>3 DEF StopReturns, IInv, ControlInv
  <2>2. openNow = {} /\ openNow' = {}
    BY <2>1, OpenIsOwned, OpenIsOwnedNext
  <2> QED
    BY <2>1, <2>2 DEF Exclusive!Next, Exclusive!Stopped
<1> QED
  BY <1>1, <1>2, <1>3

\* The debounce timer and the events touch no socket.
LEMMA WakesAreExclusive ==
  ASSUME IInv, IInv',
         \/ AgentsChange \/ EventArrives \/ EventIsLost \/ RebuildTimerFires
         \/ UNCHANGED vars
  PROVE  UNCHANGED <<phaseNow, openNow>>
<1>1. PhaseKept
  BY DEF AgentsChange, EventArrives, EventIsLost, RebuildTimerFires, vars, PhaseKept
<1>2. CASE UNCHANGED loop
  BY <1>1, <1>2, OpenKept
<1>3. CASE \E g \in Generations : Current(g) /\ Resume(g)
  BY <1>1, <1>3, ResumeMoves, MoveStutters DEF IInv, Resumed, Held
<1> QED
  BY <1>2, <1>3
     DEF AgentsChange, EventArrives, EventIsLost, RebuildTimerFires, vars

\* The loop keeps to the abstract specification of its subscriptions.
THEOREM SubscriptionsStayExclusive == Safety => SubscriptionsAreExclusive
<1>1. Init => Exclusive!Init
  <2> SUFFICES ASSUME Init PROVE Exclusive!Init
    OBVIOUS
  <2>1. openNow = {}
    BY InvInit, OpenIsOwned DEF Init
  <2> QED
    BY <2>1 DEF Init, Exclusive!Init, phaseNow
<1>2. IInv /\ IInv' /\ [Next]_vars => [Exclusive!Next]_(Exclusive!vars)
  <2> SUFFICES ASSUME IInv, IInv', [Next]_vars
               PROVE  Exclusive!Next \/ UNCHANGED <<phaseNow, openNow>>
    BY DEF Exclusive!vars
  <2> QED
    BY LoopIsExclusive, ControlIsExclusive, WakesAreExclusive DEF Next, Herdr
<1> QED
  BY <1>1, <1>2, Invariance, PTL DEF Safety, SubscriptionsAreExclusive, Exclusive!Spec
=============================================================================
