-------------------------- MODULE RuntimeLifecycle --------------------------
(***************************************************************************)
(* What the connection manager promises about the runtimes it builds for   *)
(* one connection id, whatever its callers, its promises and its failures  *)
(* do: a runtime is built only when every earlier one is closed, serves    *)
(* leases during one uninterrupted period, and never serves again.         *)
(* ConnectionManager implements this specification (see Lifecycle there).  *)
(***************************************************************************)
CONSTANT Runtimes

VARIABLE phase

Phases == {"unborn", "building", "serving", "draining", "closed"}

TypeOK == phase \in [Runtimes -> Phases]

Init == phase = [r \in Runtimes |-> "unborn"]

\* The factory ran: no other runtime of this id may still hold resources.
Build(r) ==
  /\ phase[r] = "unborn"
  /\ \A s \in Runtimes : phase[s] \in {"unborn", "closed"}
  /\ phase' = [phase EXCEPT ![r] = "building"]

\* Both start promises resolved while the runtime was still current.
Serve(r) ==
  /\ phase[r] = "building"
  /\ phase' = [phase EXCEPT ![r] = "serving"]

\* A stop, a replacement or a failure retired it: no lease on it is current.
Retire(r) ==
  /\ phase[r] \in {"building", "serving"}
  /\ phase' = [phase EXCEPT ![r] = "draining"]

\* Its stop promise settled, with success or with an error.
Close(r) ==
  /\ phase[r] = "draining"
  /\ phase' = [phase EXCEPT ![r] = "closed"]

Next == \E r \in Runtimes : Build(r) \/ Serve(r) \/ Retire(r) \/ Close(r)

Spec == Init /\ [][Next]_phase
=============================================================================
