---------------------------- MODULE RuntimeFollower ----------------------------
(***************************************************************************)
(* What a client that follows replaceable runtimes promises, while replies *)
(* of several requests, sockets and selections are on their way: as long   *)
(* as an id stays registered, what the client knows of its runtime never   *)
(* goes back to an earlier one and never runs ahead; and it shows only     *)
(* what it read from the runtime that it knows.                            *)
(* BrowserSync implements this specification (see Follower there).         *)
(***************************************************************************)
EXTENDS Naturals

CONSTANT Conns

VARIABLES
  current,  \* the generation of each connection's runtime
  known,    \* the one that the client has heard of last, 0 is none
  shown     \* the runtime whose content the client shows, in a set or none

vars == <<current, known, shown>>

TypeOK ==
  /\ current \in [Conns -> Nat] /\ known \in [Conns -> Nat]
  /\ \A c \in Conns :
       shown[c] = {} \/ (known[c] # 0 /\ shown[c] = {[conn |-> c, gen |-> known[c]]})

Init ==
  /\ current \in [Conns -> Nat]
  /\ known = [c \in Conns |-> 0] /\ shown = [c \in Conns |-> {}]

Replace ==
  /\ current' \in [Conns -> Nat]
  /\ \A c \in Conns : current'[c] >= current[c]
  /\ UNCHANGED <<known, shown>>

\* The client hears of newer runtimes, and drops what it has of the old ones.
Learn ==
  /\ known' \in [Conns -> Nat]
  /\ \A c \in Conns :
       /\ known[c] <= known'[c] /\ known'[c] <= current[c]
       /\ shown'[c] = {} \/ (shown'[c] = shown[c] /\ known'[c] = known[c])
  /\ UNCHANGED current

Show == \E c \in Conns :
  /\ known[c] # 0
  /\ shown' = [shown EXCEPT ![c] = {[conn |-> c, gen |-> known[c]]}]
  /\ UNCHANGED <<current, known>>

Next == Replace \/ Learn \/ Show

Spec == Init /\ [][Next]_vars
=============================================================================
