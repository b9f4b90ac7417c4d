----------------------------- MODULE StepRecorder -----------------------------
(***************************************************************************)
(* What the store of steps is asked to do, however events, listings,       *)
(* timers and calls overlap: for each workspace one call at a time; a step *)
(* is completed once, after it was captured, and only as long as its       *)
(* workspace was not closed since; a stop begins no call, and ends when    *)
(* the last one has.  A step that began before the panes were listed for   *)
(* the first time is of no known life, and may be completed after a close. *)
(* LastStep implements this specification (see Recorder there).            *)
(***************************************************************************)
CONSTANT Workspaces

VARIABLES
  phase,   \* running, stopping or stopped
  seeded,  \* the panes have been listed
  call,    \* the call of the store under way for each workspace
  step     \* its last step: how far it is, is it of this life, began unlisted

vars == <<phase, seeded, call, step>>

States == {"none", "pending", "captured", "failed", "ended"}
NoStep == [state |-> "none", own |-> TRUE, early |-> FALSE]

TypeOK ==
  /\ phase \in {"running", "stopping", "stopped"} /\ seeded \in BOOLEAN
  /\ call \in [Workspaces -> {"none", "begin", "complete"}]
  /\ step \in [Workspaces -> [state : States, own : BOOLEAN, early : BOOLEAN]]

Init ==
  /\ phase = "running" /\ seeded = FALSE
  /\ call = [w \in Workspaces |-> "none"]
  /\ step = [w \in Workspaces |-> NoStep]

\* How far the step is once the call under way, if any, has ended.
Outcomes(w) ==
  CASE call[w] = "none"     -> {step[w].state}
    [] call[w] = "begin"    -> {"captured", "failed"}
    [] call[w] = "complete" -> {"ended", "failed"}

\* The call of w ends, and the next one begins at once, if one is due.
Turn(w) ==
  /\ \E state \in Outcomes(w) :
       \/ /\ call' = [call EXCEPT ![w] = "none"]
          /\ step' = [step EXCEPT ![w].state = state]
       \/ /\ phase = "running"
          /\ call' = [call EXCEPT ![w] = "begin"]
          /\ step' = [step EXCEPT ![w] =
               [state |-> "pending", own |-> TRUE, early |-> ~seeded]]
       \/ /\ phase = "running" /\ state = "captured"
          /\ step[w].own \/ step[w].early
          /\ call' = [call EXCEPT ![w] = "complete"]
          /\ step' = [step EXCEPT ![w].state = "captured"]
  /\ UNCHANGED <<phase, seeded>>

Close(w) ==
  /\ phase = "running"
  /\ step' = [step EXCEPT ![w].own = FALSE]
  /\ UNCHANGED <<phase, seeded, call>>

Seed ==
  /\ phase = "running" /\ seeded' = TRUE
  /\ UNCHANGED <<phase, call, step>>

Stop ==
  /\ phase = "running" /\ phase' = "stopping"
  /\ UNCHANGED <<seeded, call, step>>

Stopped ==
  /\ phase = "stopping" /\ phase' = "stopped"
  /\ \A w \in Workspaces : call[w] = "none"
  /\ seeded' = FALSE /\ step' = [w \in Workspaces |-> NoStep]
  /\ UNCHANGED call

Next == (\E w \in Workspaces : Turn(w) \/ Close(w)) \/ Seed \/ Stop \/ Stopped

Spec == Init /\ [][Next]_vars
=============================================================================
