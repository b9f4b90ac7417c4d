------------------------ MODULE ExclusiveSubscription ------------------------
(***************************************************************************)
(* What a service that keeps Herdr subscribed promises about its sockets,  *)
(* whatever is suspended while it is stopped, started and told to rebuild: *)
(* a subscription is opened only while it runs and only when the one       *)
(* before it was given up; its panes are fixed until then; a stop ends it, *)
(* and nothing that was under way opens another.                           *)
(* AgentStatusSubscription implements this specification (see Exclusive    *)
(* there).                                                                 *)
(***************************************************************************)
CONSTANT Panes

VARIABLES
  phase,  \* of the service
  open    \* its subscriptions whose sockets are not destroyed

vars == <<phase, open>>

Subscriptions == [panes : (SUBSET Panes) \ {{}}, acked : BOOLEAN]

TypeOK ==
  /\ phase \in {"stopped", "running", "stopping"}
  /\ open \in {{}} \cup {{s} : s \in Subscriptions}

Init == phase = "stopped" /\ open = {}

Start ==
  /\ phase = "stopped" /\ phase' = "running"
  /\ UNCHANGED open

Subscribe ==
  /\ phase = "running" /\ open = {}
  /\ \E panes \in (SUBSET Panes) \ {{}} : open' = {[panes |-> panes, acked |-> FALSE]}
  /\ UNCHANGED phase

Acknowledge ==
  /\ phase = "running"
  /\ \E s \in open : ~s.acked /\ open' = {[panes |-> s.panes, acked |-> TRUE]}
  /\ UNCHANGED phase

\* To retry or to rebuild, or because the other end closed it.
GiveUp ==
  /\ phase = "running" /\ open # {} /\ open' = {}
  /\ UNCHANGED phase

Stop ==
  /\ phase = "running" /\ phase' = "stopping"
  /\ open' = {}

Stopped ==
  /\ phase = "stopping" /\ phase' = "stopped"
  /\ UNCHANGED open

Next == Start \/ Subscribe \/ Acknowledge \/ GiveUp \/ Stop \/ Stopped

Spec == Init /\ [][Next]_vars
=============================================================================
