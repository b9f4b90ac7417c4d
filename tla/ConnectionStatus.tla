-------------------------- MODULE ConnectionStatus --------------------------
(***************************************************************************)
(* What the status of a connection, its state and its generation, promises *)
(* to the callers, events and browsers that compare generations: while its *)
(* id stays registered, a generation names at most one uninterrupted       *)
(* period in which the connection is up, and is never taken up again.      *)
(* ConnectionManager implements this specification, and so does the        *)
(* reduced manager of RetrySupervision (see Status there).                 *)
(***************************************************************************)
EXTENDS Naturals

VARIABLES state, generation

vars == <<state, generation>>

Up == {"connecting", "ready"}
Failed == {"error", "reconnecting"}
Down == Failed \cup {"disconnected", "stopping"}

TypeOK == state \in Up \cup Down /\ generation \in Nat

Init == state = "disconnected" /\ generation = 0

\* A start opens a new generation, and never cuts off a period that is up.
Open ==
  /\ state \in Down /\ state' = "connecting"
  /\ generation' = generation + 1

Serve ==
  /\ state = "connecting" /\ state' = "ready"
  /\ UNCHANGED generation

\* The period ends in a failure or a stop, and so does its generation.
Close ==
  /\ state \in Up /\ state' \in Failed \cup {"stopping"}
  /\ generation' > generation

\* While it is down only a failed connection is about to reconnect: one that
\* was stopped, or is being stopped, is not.
Rest ==
  /\ state \in Down /\ state' \in Down
  /\ generation' >= generation
  /\ state' = "reconnecting" => state \in Failed
  /\ state' = "stopping" /\ state # "stopping" => generation' > generation

\* The id is registered again: another entry, that counts from 0.
Register ==
  /\ state \in Down /\ state' = "disconnected"
  /\ generation' = 0

Next == Open \/ Serve \/ Close \/ Rest \/ Register

Spec == Init /\ [][Next]_vars
=============================================================================
