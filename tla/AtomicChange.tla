---------------------------- MODULE AtomicChange ----------------------------
(***************************************************************************)
(* What a persisted value promises to those who change and read it, while  *)
(* writes fail, the process crashes and shuts down: a change is atomic,    *)
(* its answer says what the file holds, and when the file may hold         *)
(* something else nothing is changed any more.                             *)
(* ProfileRegistry implements this specification (see Change there).       *)
(***************************************************************************)
CONSTANT Values

VARIABLES
  stored,    \* what a restart reads
  shown,     \* what the running process answers reads with
  answered,  \* what the last answer or the last restart vouched for
  pending,   \* the value of the change under way, if there is one
  frozen     \* no further change is accepted

vars == <<stored, shown, answered, pending, frozen>>

TypeOK ==
  /\ stored \in Values /\ shown \in Values /\ answered \in Values
  /\ pending \in {{}} \cup {{v} : v \in Values}
  /\ frozen \in BOOLEAN

Init ==
  /\ stored \in Values /\ shown = stored /\ answered = stored
  /\ pending = {} /\ frozen \in BOOLEAN

Begin ==
  /\ ~frozen /\ pending = {}
  /\ \E v \in Values : pending' = {v}
  /\ UNCHANGED <<stored, shown, answered, frozen>>

\* The file and the process hold the old value or the new one, each in full.
Underway ==
  /\ ~frozen /\ pending # {}
  /\ stored' \in {answered} \cup pending
  /\ shown' \in {answered} \cup pending
  /\ UNCHANGED <<answered, pending, frozen>>

\* With success or an error, but never with an answer that the file belies.
Answer ==
  /\ ~frozen /\ pending # {}
  /\ answered' \in {answered} \cup pending
  /\ stored' = answered' /\ shown' = answered'
  /\ pending' = {}
  /\ UNCHANGED frozen

\* The old value could not be put back.
Freeze ==
  /\ ~frozen /\ pending # {}
  /\ frozen' = TRUE
  /\ shown' \in {answered} \cup pending
  /\ pending' \in {pending, {}}
  /\ UNCHANGED <<stored, answered>>

FrozenAnswer ==
  /\ frozen /\ pending # {}
  /\ pending' = {}
  /\ UNCHANGED <<stored, shown, answered, frozen>>

\* The process is started again, and reads what it finds.
Restart ==
  /\ shown' = stored /\ answered' = stored
  /\ pending' = {}
  /\ frozen' \in BOOLEAN
  /\ UNCHANGED stored

Next == Begin \/ Underway \/ Answer \/ Freeze \/ FrozenAnswer \/ Restart

Spec == Init /\ [][Next]_vars
=============================================================================
