----------------------------- MODULE SharedStream -----------------------------
(***************************************************************************)
(* What a stream that several viewers share promises each of them: at most *)
(* one stream is live, and one that has ended never comes back; a viewer   *)
(* is dropped from the live stream only by no longer viewing, and when the *)
(* stream ends while it watches, it is owed word of it, which it gets once *)
(* if it is still here.  Nobody else is told.                              *)
(* TerminalBridge implements this specification (see SharedView there).    *)
(***************************************************************************)
CONSTANTS Viewers, Streams, None

VARIABLES
  opened,    \* the streams opened so far
  live,      \* the one that lives, or None
  watching,  \* the viewers of the live stream
  viewing,   \* those that view, whether a stream lives or not
  owed,      \* the viewers each ended stream has still to tell
  told,      \* those that were told
  here       \* those that can be told

vars == <<opened, live, watching, viewing, owed, told, here>>

Init ==
  /\ opened = {} /\ live = None /\ watching = {} /\ viewing = {}
  /\ owed = [s \in Streams |-> {}]
  /\ told = {} /\ here = Viewers

-----------------------------------------------------------------------------
\* The word a viewer got may be out of date, when it asks again; and it may go.
NobodyIsTold == told' \subseteq told /\ here' \subseteq here

Comes(v) == viewing' \in {viewing, viewing \cup {v}}
Go(V) == viewing' = viewing \ V

Open(v, s) ==
  /\ live = None /\ s \notin opened
  /\ opened' = opened \cup {s} /\ live' = s /\ watching' = {v}
  /\ Comes(v) /\ NobodyIsTold
  /\ UNCHANGED owed

Join(v) ==
  /\ live # None
  /\ watching' = watching \cup {v}
  /\ Comes(v) /\ NobodyIsTold
  /\ UNCHANGED <<opened, live, owed>>

\* Who leaves the live stream views no more; the last may close it.
Leave(V) ==
  /\ live # None
  /\ watching' = watching \ V
  /\ live' \in {live, None} /\ (watching' # {} => live' = live)
  /\ Go(V) /\ NobodyIsTold
  /\ UNCHANGED <<opened, owed>>

\* Who leaves before it was told of the end of a stream need not be told.
Decline(s, V) ==
  /\ V \cap watching = {}
  /\ owed' = [owed EXCEPT ![s] = @ \ V]
  /\ Go(V) /\ NobodyIsTold
  /\ UNCHANGED <<opened, live, watching>>

End ==
  /\ live # None /\ live' = None /\ watching' = {}
  /\ owed' = [owed EXCEPT ![live] = watching]
  /\ viewing' \subseteq viewing /\ NobodyIsTold
  /\ UNCHANGED opened

Tell(s) ==
  /\ told' = told \cup (owed[s] \cap here)
  /\ owed' = [owed EXCEPT ![s] = {}]
  /\ UNCHANGED <<opened, live, watching, viewing, here>>

\* Viewers that watch no stream come and go.
Idle ==
  /\ viewing' \in SUBSET Viewers
  /\ viewing \cap watching \subseteq viewing'
  /\ NobodyIsTold
  /\ UNCHANGED <<opened, live, watching, owed>>

Next ==
  \/ \E v \in Viewers : Join(v) \/ \E s \in Streams : Open(v, s)
  \/ \E V \in SUBSET Viewers : Leave(V) \/ \E s \in Streams : Decline(s, V)
  \/ \E s \in Streams : Tell(s)
  \/ End \/ Idle

Spec == Init /\ [][Next]_vars
=============================================================================
