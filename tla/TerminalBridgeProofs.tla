------------------------ MODULE TerminalBridgeProofs ------------------------
(***************************************************************************)
(* Proofs about TerminalBridge, for any set of viewers and any number of   *)
(* attaches: the inductive invariant IInv, the safety properties that      *)
(* follow from it, and the refinement of SharedStream.                     *)
(***************************************************************************)
EXTENDS TerminalBridge, SequenceTheorems, TLAPS

USE TerminalAssumption DEF Ids, browserVars

-----------------------------------------------------------------------------
(* Sequences and records. *)

\* A function on 1 .. n is a sequence of length n.
LEMMA MapSeq ==
  ASSUME NEW S, NEW n \in Nat, NEW f \in [1 .. n -> S]
  PROVE  f \in Seq(S) /\ Len(f) = n /\ DOMAIN f = 1 .. n
<1>1. f \in Seq(S)
  BY SeqDef
<1> QED
  BY <1>1, LenProperties

\* The requests, seen as a function.
LEMMA Requests ==
  ASSUME TypeOK
  PROVE  /\ Len(calls) \in 0 .. MaxAttach
         /\ DOMAIN calls = 1 .. Len(calls)
         /\ calls \in [1 .. Len(calls) -> Call]
         /\ \A i \in DOMAIN calls : calls[i] \in Call /\ i \in Ids
BY LenProperties DEF TypeOK

\* What a request is made of.
LEMMA CallFields ==
  ASSUME NEW c \in Call
  PROVE  /\ c.viewer \in Viewers /\ c.of \in 0 .. MaxAttach
         /\ c.at \in Pending \cup Ended
         /\ c.refresh \in BOOLEAN /\ c.fresh \in BOOLEAN
BY DEF Call

\* A closed stream keeps its viewers, its connection and its event.
LEMMA ClosedFields ==
  ASSUME NEW r \in Stream
  PROVE  /\ Closed(r) \in Stream
         /\ Closed(r).up = FALSE /\ Closed(r).due = FALSE
         /\ Closed(r).link = r.link /\ Closed(r).viewers = r.viewers
         /\ Closed(r).over = r.over
BY DEF Stream, Closed

\* A stream with one viewer more.
LEMMA ViewedFields ==
  ASSUME NEW r \in Stream, NEW v \in Viewers, NEW again \in BOOLEAN,
         view' \in [Viewers -> Nat]
  PROVE  /\ Viewed(r, v, again) \in Stream
         /\ Viewed(r, v, again).up = r.up /\ Viewed(r, v, again).link = r.link
         /\ Viewed(r, v, again).over = r.over
         /\ Viewed(r, v, again).viewers = r.viewers \cup {v}
         /\ Viewed(r, v, again).due = (r.due \/ again)
         /\ Viewed(r, v, again).stray = (r.stray \/ view'[v] = 0)
BY DEF Stream, Viewed

\* A request that awaits stream s.
LEMMA AwaitingFields ==
  ASSUME NEW c \in Call, NEW s \in Ids, NEW at \in Pending
  PROVE  /\ Awaiting(c, s, at) \in Call
         /\ Awaiting(c, s, at).viewer = c.viewer
         /\ Awaiting(c, s, at).fresh = c.fresh
         /\ Awaiting(c, s, at).of = s /\ Awaiting(c, s, at).at = at
<1> DEFINE d == Awaiting(c, s, at)
<1>1. /\ d.viewer = c.viewer /\ d.fresh = c.fresh /\ d.of = s /\ d.at = at
      /\ d.refresh = FALSE
  BY DEF Call, Awaiting
<1>2. [c EXCEPT !.of = s] \in Call
  BY DEF Call
<1>3. ASSUME NEW b \in Call PROVE [b EXCEPT !.refresh = FALSE] \in Call
  BY DEF Call
<1>4. ASSUME NEW b \in Call PROVE [b EXCEPT !.at = at] \in Call
  BY DEF Call, Pending
<1>5. d = [[[c EXCEPT !.of = s] EXCEPT !.refresh = FALSE] EXCEPT !.at = at]
  BY DEF Awaiting
<1> QED
  BY <1>1, <1>2, <1>3, <1>4, <1>5, Zenon

\* A stream r as a departure of viewers V leaves it, as d: it was left or not.
LeftAs(d, r, V, left) ==
  /\ d.link = r.link /\ d.over = r.over
  /\ ~left => d = r
  /\ left => d.viewers = r.viewers \ V
  /\ d.up = TRUE => /\ r.up = TRUE
                    /\ left => d.viewers # {}
                    /\ d.stray = r.stray /\ d.due = r.due
  /\ d.viewers # {} => d.up = r.up

\* What becomes of the streams when viewers leave.
LEMMA DetachedFields ==
  ASSUME TypeOK, NEW V \in SUBSET Viewers, NEW m \in 0 .. MaxAttach
  PROVE  /\ Detached(V, m) \in [Ids -> Stream]
         /\ \A s \in Ids : LeftAs(Detached(V, m)[s], streams[s], V, s = m)
<1>1. CASE m = 0
  <2>1. Detached(V, m) = streams
    BY <1>1 DEF Detached
  <2> QED
    BY <1>1, <2>1 DEF TypeOK, LeftAs
<1>2. CASE m # 0
  <2>1. streams[m] \in Stream /\ m \in Ids
    BY <1>2 DEF TypeOK
  <2>2. PICK left \in Stream : left = [streams[m] EXCEPT !.viewers = @ \ V]
    <3>1. [streams[m] EXCEPT !.viewers = @ \ V] \in Stream
      BY <2>1 DEF Stream
    <3> QED
      BY <3>1
  <2>3. /\ left.viewers = streams[m].viewers \ V
        /\ left.link = streams[m].link /\ left.over = streams[m].over
        /\ left.up = streams[m].up /\ left.stray = streams[m].stray
        /\ left.due = streams[m].due
    BY <2>1, <2>2 DEF Stream
  <2>4. PICK d \in Stream : d = IF left.viewers = {} THEN Closed(left) ELSE left
    BY ClosedFields
  <2>5. LeftAs(d, streams[m], V, TRUE)
    <3>1. CASE left.viewers = {}
      BY <2>3, <2>4, <3>1, ClosedFields DEF LeftAs
    <3>2. CASE left.viewers # {}
      BY <2>3, <2>4, <3>2 DEF LeftAs
    <3> QED
      BY <3>1, <3>2
  <2>6. Detached(V, m) = [streams EXCEPT ![m] = d]
    BY <1>2, <2>2, <2>4, Zenon DEF Detached
  <2>7. /\ Detached(V, m) \in [Ids -> Stream] /\ Detached(V, m)[m] = d
        /\ \A s \in Ids : s # m => Detached(V, m)[s] = streams[s]
    BY <2>1, <2>6 DEF TypeOK
  <2>8. ASSUME NEW s \in Ids
        PROVE  LeftAs(Detached(V, m)[s], streams[s], V, s = m)
    <3>1. CASE s = m
      BY <2>5, <2>7, <3>1 DEF LeftAs
    <3>2. CASE s # m
      BY <2>7, <3>2 DEF LeftAs
    <3> QED
      BY <3>1, <3>2
  <2> QED
    BY <2>7, <2>8
<1> QED
  BY <1>1, <1>2

-----------------------------------------------------------------------------
(* The moves: what an action does to the streams and the requests. *)

\* Request i, of a sequence cs, joins the stream that the map has then.
Joined1(i, cs) ==
  /\ streams' \in [Ids -> Stream] /\ shared' \in 1 .. Len(cs)
  /\ \A s \in Ids : s # shared' => streams'[s] = streams[s]
  /\ streams'[shared'].up = TRUE
  /\ calls' \in Seq(Call) /\ Len(calls') = Len(cs)
  /\ \A j \in 1 .. Len(cs) : j # i => calls'[j] = cs[j]
  /\ calls'[i].viewer = cs[i].viewer /\ calls'[i].fresh = cs[i].fresh
  /\ calls'[i].of = shared'

JoinedNew(i, cs) ==
  /\ ~Usable(shared)
  /\ shared' = i
  /\ streams'[i].link = "connecting" /\ streams'[i].viewers = {cs[i].viewer}
  /\ streams'[i].over = FALSE
  /\ streams'[i].stray = TRUE <=> view'[cs[i].viewer] = 0
  /\ calls'[i].at = "connecting"

JoinedOld(i, cs) ==
  /\ Usable(shared)
  /\ shared' = shared
  /\ streams'[shared].link = streams[shared].link
  /\ streams'[shared].viewers = streams[shared].viewers \cup {cs[i].viewer}
  /\ streams'[shared].over = streams[shared].over
  /\ streams'[shared].stray = TRUE <=>
       streams[shared].stray = TRUE \/ view'[cs[i].viewer] = 0
  /\ streams'[shared].due = TRUE <=>
       \/ streams[shared].due = TRUE
       \/ streams[shared].link = "open" /\ cs[i].refresh = TRUE
  /\ calls'[i].at = IF streams[shared].link = "open" THEN "frame" ELSE "connecting"

\* What Join does, field by field.
LEMMA JoinMoves ==
  ASSUME TypeOK, NEW cs \in Seq(Call), Len(cs) <= MaxAttach,
         NEW i \in 1 .. Len(cs), shared <= Len(cs), view' \in [Viewers -> Nat],
         ~(Usable(shared) /\ shared = i), Join(i, cs)
  PROVE  /\ Joined1(i, cs)
         /\ JoinedNew(i, cs) \/ JoinedOld(i, cs)
<1> DEFINE v == cs[i].viewer
           s == IF Usable(shared) THEN shared ELSE i
           open == Usable(shared) /\ streams[shared].link = "open"
           at == IF open THEN "frame" ELSE "connecting"
           old == Viewed(streams[s], v, open /\ cs[i].refresh)
           new == IF s = i THEN Opened(v) ELSE old
           call == Awaiting(cs[i], s, at)
<1>1. /\ Len(cs) \in Nat /\ cs \in [1 .. Len(cs) -> Call] /\ cs[i] \in Call
      /\ i \in Ids /\ v \in Viewers /\ cs[i].refresh \in BOOLEAN
  BY LenProperties, CallFields
<1>2. s \in Ids /\ s \in 1 .. Len(cs) /\ streams[s] \in Stream
  BY <1>1 DEF Usable, TypeOK
<1>3. Opened(v) \in Stream
  BY <1>1 DEF Opened, NoStream, Stream
<1>4. /\ old \in Stream /\ old.up = streams[s].up /\ old.link = streams[s].link
      /\ old.over = streams[s].over /\ old.viewers = streams[s].viewers \cup {v}
      /\ old.due = (streams[s].due \/ (open /\ cs[i].refresh))
      /\ old.stray = (streams[s].stray \/ view'[v] = 0)
  <2>1. (open /\ cs[i].refresh) \in BOOLEAN
    BY <1>1
  <2>2. PICK again \in BOOLEAN : again = (open /\ cs[i].refresh)
    BY <2>1
  <2>3. PICK r \in Stream : r = streams[s]
    BY <1>2
  <2>4. old = Viewed(r, v, again)
    BY <2>2, <2>3, Zenon
  <2> HIDE DEF open, s, old, v
  <2>5. /\ old \in Stream /\ old.up = streams[s].up /\ old.link = streams[s].link
        /\ old.over = streams[s].over
        /\ old.viewers = streams[s].viewers \cup {v}
    BY <1>1, <2>3, <2>4, ViewedFields
  <2>6. /\ old.due = (r.due \/ again)
        /\ old.stray = (r.stray \/ view'[v] = 0)
    BY <1>1, <2>4, ViewedFields
  <2> QED
    BY <2>2, <2>3, <2>5, <2>6, Zenon
<1>5. /\ call \in Call /\ call.viewer = v /\ call.fresh = cs[i].fresh
      /\ call.of = s /\ call.at = at
  <2>1. at \in Pending
    BY DEF Pending
  <2> HIDE DEF at, s
  <2> QED
    BY <1>1, <1>2, <2>1, AwaitingFields
<1>6. new \in Stream
  BY <1>3, <1>4
<1>7. /\ shared' = s /\ streams' = [streams EXCEPT ![s] = new]
      /\ calls' = [cs EXCEPT ![i] = call]
  BY Zenon DEF Join
<1>8. /\ calls' \in Seq(Call) /\ Len(calls') = Len(cs)
      /\ \A j \in 1 .. Len(cs) : calls'[j] = IF j = i THEN call ELSE cs[j]
  <2> HIDE DEF call
  <2> QED
    BY <1>1, <1>5, <1>7, ExceptSeq
<1>9. /\ streams' \in [Ids -> Stream] /\ streams'[s] = new
      /\ \A t \in Ids : t # s => streams'[t] = streams[t]
  <2> HIDE DEF new, s
  <2> QED
    BY <1>2, <1>6, <1>7 DEF TypeOK
<1>10. calls'[i].at = at /\ calls'[i].viewer = v /\ calls'[i].fresh = cs[i].fresh
       /\ calls'[i].of = s
  <2> HIDE DEF call, at, s, v
  <2> QED
    BY <1>1, <1>5, <1>8
<1>11. CASE Usable(shared)
  <2>1. s = shared /\ s # i /\ new = old
    BY <1>11
  <2>2. streams[s].up = TRUE
    BY <1>11, <1>2, <2>1 DEF Usable, Stream
  <2>3. /\ streams[s].stray \in BOOLEAN /\ streams[s].due \in BOOLEAN
        /\ streams[s].up \in BOOLEAN
    BY <1>2 DEF Stream
  <2>4. open <=> streams[shared].link = "open"
    BY <1>11
  <2>5. calls'[i].at = IF streams[shared].link = "open" THEN "frame" ELSE "connecting"
    BY <1>10, <1>11
  <2> HIDE DEF old, new, s, open, at
  <2>6. old.stray = TRUE <=> streams[s].stray = TRUE \/ view'[v] = 0
    BY <1>4, <2>3
  <2>7. old.due = TRUE <=> \/ streams[s].due = TRUE
                           \/ streams[shared].link = "open" /\ cs[i].refresh = TRUE
    BY <1>1, <1>4, <2>3, <2>4
  <2>8. JoinedOld(i, cs)
    BY <1>4, <1>7, <1>9, <1>11, <2>1, <2>5, <2>6, <2>7 DEF JoinedOld
  <2>9. Joined1(i, cs)
    BY <1>2, <1>4, <1>7, <1>8, <1>9, <1>10, <2>1, <2>2 DEF Joined1
  <2> QED
    BY <2>8, <2>9
<1>12. CASE ~Usable(shared)
  <2>1. s = i /\ new = Opened(v)
    BY <1>12
  <2>2. /\ Opened(v).up = TRUE /\ Opened(v).link = "connecting"
        /\ Opened(v).viewers = {v} /\ Opened(v).over = FALSE
    BY DEF Opened, NoStream
  <2>3. Opened(v).stray = TRUE <=> view'[v] = 0
    BY DEF Opened, NoStream
  <2>4. calls'[i].at = "connecting"
    BY <1>10, <1>12
  <2> HIDE DEF old, new, s, open, at
  <2>5. JoinedNew(i, cs)
    BY <1>7, <1>9, <1>12, <2>1, <2>2, <2>3, <2>4 DEF JoinedNew
  <2>6. Joined1(i, cs)
    BY <1>2, <1>7, <1>8, <1>9, <1>10, <2>1, <2>2 DEF Joined1
  <2> QED
    BY <2>5, <2>6
<1> QED
  BY <1>11, <1>12

\* An answered request.
LEMMA EndFields ==
  ASSUME NEW c \in Call, NEW how \in Ended
  PROVE  /\ End(c, how) \in Call
         /\ End(c, how).viewer = c.viewer /\ End(c, how).fresh = c.fresh
         /\ End(c, how).at = how
<1>1. ASSUME NEW b \in Call PROVE [b EXCEPT !.at = how] \in Call
  BY DEF Call
<1>2. ASSUME NEW b \in Call PROVE [b EXCEPT !.of = 0] \in Call
  BY DEF Call
<1>3. ASSUME NEW b \in Call PROVE [b EXCEPT !.refresh = FALSE] \in Call
  BY DEF Call
<1>4. End(c, how) = [[[c EXCEPT !.at = how] EXCEPT !.of = 0] EXCEPT !.refresh = FALSE]
  BY DEF End
<1>5. End(c, how) \in Call
  BY <1>1, <1>2, <1>3, <1>4, Zenon
<1>6. /\ End(c, how).viewer = c.viewer /\ End(c, how).fresh = c.fresh
      /\ End(c, how).at = how
  BY DEF End, Call
<1> QED
  BY <1>5, <1>6

\* Request i is answered, and no other moves.
EndsAs(i, how) ==
  /\ calls' \in Seq(Call) /\ Len(calls') = Len(calls)
  /\ calls'[i].viewer = calls[i].viewer /\ calls'[i].fresh = calls[i].fresh
  /\ calls'[i].at = how
  /\ \A j \in DOMAIN calls : j # i => calls'[j] = calls[j]

\* What an answer does to the requests.
LEMMA EndMoves ==
  ASSUME TypeOK, NEW i \in DOMAIN calls, NEW how \in Ended,
         calls' = [calls EXCEPT ![i] = End(@, how)]
  PROVE  EndsAs(i, how)
<1>1. calls \in Seq(Call) /\ i \in 1 .. Len(calls) /\ calls[i] \in Call
  BY Requests DEF TypeOK
<1>2. PICK e \in Call : e = End(calls[i], how)
  BY <1>1, EndFields
<1>3. e.viewer = calls[i].viewer /\ e.fresh = calls[i].fresh /\ e.at = how
  BY <1>1, <1>2, EndFields
<1>4. calls' = [calls EXCEPT ![i] = e]
  BY <1>2
<1>5. /\ calls' \in Seq(Call) /\ Len(calls') = Len(calls)
      /\ \A j \in 1 .. Len(calls) : calls'[j] = IF j = i THEN e ELSE calls[j]
  BY <1>1, <1>4, ExceptSeq
<1> QED
  BY <1>1, <1>3, <1>5, Requests DEF EndsAs

\* Viewers V leave stream m.
Left(V, m) ==
  /\ streams' \in [Ids -> Stream]
  /\ \A s \in Ids : LeftAs(streams'[s], streams[s], V, s = m)

\* What a departure does to the streams.
LEMMA LeftMoves ==
  ASSUME TypeOK, NEW V \in SUBSET Viewers, NEW m \in 0 .. MaxAttach,
         streams' = Detached(V, m)
  PROVE  Left(V, m)
BY DetachedFields DEF Left

\* Stream s fails, and with it every request that awaits it: their viewers V
\* leave stream m.
Failed(s, V, m) ==
  /\ streams' \in [Ids -> Stream]
  /\ streams'[s].up = FALSE /\ streams'[s].link = "failed"
  /\ streams'[s].viewers = streams[s].viewers /\ streams'[s].over = streams[s].over
  /\ \A t \in Ids \ {s} : LeftAs(streams'[t], streams[t], V, t = m)
  /\ calls' \in Seq(Call) /\ Len(calls') = Len(calls)
  /\ \A i \in DOMAIN calls :
       /\ i \notin Waiting(s) => calls'[i] = calls[i]
       /\ i \in Waiting(s) =>
            /\ calls'[i].viewer = calls[i].viewer /\ calls'[i].fresh = calls[i].fresh
            /\ calls'[i].at = IF view[calls[i].viewer] \in Waiting(s) \cup {0}
                              THEN "failed" ELSE "late"

\* What the failure of a stream does to streams and requests.
LEMMA FailureMoves ==
  ASSUME TypeOK, NEW s \in Ids, NEW V \in SUBSET Viewers,
         NEW m \in 0 .. MaxAttach, m # s, AfterFailure(s, V, m)
  PROVE  Failed(s, V, m)
<1>1. PICK d \in [Ids -> Stream] : d = Detached(V, m)
  BY DetachedFields
<1>2. /\ d[s] = streams[s] /\ d[s] \in Stream
  <2>1. LeftAs(d[s], streams[s], V, FALSE)
    BY <1>1, DetachedFields
  <2> QED
    BY <2>1 DEF LeftAs
<1>3. PICK r \in Stream : r = Closed(d[s])
  BY <1>2, ClosedFields
<1>4. PICK f \in Stream : f = [r EXCEPT !.link = "failed"]
  <2>1. [r EXCEPT !.link = "failed"] \in Stream
    BY DEF Stream
  <2> QED
    BY <2>1
<1>5. /\ f.up = FALSE /\ f.link = "failed" /\ f.viewers = streams[s].viewers
      /\ f.over = streams[s].over
  <2>1. /\ r.up = FALSE /\ r.viewers = streams[s].viewers
        /\ r.over = streams[s].over
    BY <1>2, <1>3, ClosedFields
  <2> QED
    BY <1>4, <2>1 DEF Stream
<1>6. streams' = [d EXCEPT ![s] = f]
  BY <1>1, <1>3, <1>4, Zenon DEF AfterFailure
<1>7. /\ streams' \in [Ids -> Stream] /\ streams'[s] = f
      /\ \A t \in Ids \ {s} : streams'[t] = Detached(V, m)[t]
  BY <1>1, <1>6
<1>8. \A t \in Ids \ {s} : LeftAs(streams'[t], streams[t], V, t = m)
  <2>1. ASSUME NEW t \in Ids \ {s}
        PROVE  LeftAs(streams'[t], streams[t], V, t = m)
    <3>1. LeftAs(Detached(V, m)[t], streams[t], V, t = m)
      BY DetachedFields
    <3> QED
      BY <1>7, <3>1, Zenon
  <2> QED
    BY <2>1
<1> DEFINE e(i) == LET newer == view[calls[i].viewer]
                   IN  End(calls[i], IF newer \in Waiting(s) \cup {0}
                                     THEN "failed" ELSE "late")
           g(i) == IF i \notin Waiting(s) THEN calls[i] ELSE e(i)
<1>9. calls' = [i \in DOMAIN calls |-> g(i)]
  BY Zenon DEF AfterFailure
<1>10. ASSUME NEW i \in DOMAIN calls
       PROVE  /\ e(i) \in Call
              /\ e(i).viewer = calls[i].viewer /\ e(i).fresh = calls[i].fresh
              /\ e(i).at = IF view[calls[i].viewer] \in Waiting(s) \cup {0}
                           THEN "failed" ELSE "late"
  <2>1. PICK how \in Ended :
          how = IF view[calls[i].viewer] \in Waiting(s) \cup {0}
                THEN "failed" ELSE "late"
    BY DEF Ended
  <2>2. e(i) = End(calls[i], how) /\ calls[i] \in Call
    BY <2>1, Requests
  <2> QED
    BY <2>1, <2>2, EndFields
<1> HIDE DEF e
<1>11. \A i \in DOMAIN calls : calls'[i] = g(i) /\ g(i) \in Call
  BY <1>9, <1>10, Requests
<1>12. calls' \in [1 .. Len(calls) -> Call]
  BY <1>9, <1>11, Requests
<1>13. calls' \in Seq(Call) /\ Len(calls') = Len(calls)
  BY <1>12, MapSeq, Requests
<1>14. ASSUME NEW i \in DOMAIN calls
       PROVE  /\ i \notin Waiting(s) => calls'[i] = calls[i]
              /\ i \in Waiting(s) => calls'[i] = e(i)
  BY <1>11
<1> QED
  BY <1>5, <1>7, <1>8, <1>10, <1>13, <1>14 DEF Failed

-----------------------------------------------------------------------------
(* Joining a stream. *)

\* A stream that is up is the one of the map, and no other is.
LEMMA OneUp ==
  ASSUME TypeOK, StreamInv, NEW s \in Ids, streams[s].up
  PROVE  shared = s /\ Usable(shared)
BY DEF StreamInv, Usable

\* The fields of a stream have their types.
LEMMA StreamFields ==
  ASSUME TypeOK, NEW s \in Ids
  PROVE  /\ streams[s] \in Stream
         /\ streams[s].up \in BOOLEAN /\ streams[s].due \in BOOLEAN
         /\ streams[s].over \in BOOLEAN /\ streams[s].stray \in BOOLEAN
         /\ streams[s].viewers \in SUBSET Viewers
         /\ streams[s].link \in {"none", "connecting", "open", "failed"}
BY DEF TypeOK, Stream

\* Request i of cs is the first or the next step of an attach that joins: cs
\* are the requests with it, and it asks for the protocol or need not.
Joins(i, cs) ==
  /\ Len(calls) <= Len(cs) /\ Len(cs) <= MaxAttach
  /\ \A j \in DOMAIN calls : cs[j] = calls[j]
  /\ \A j \in 1 .. Len(cs) : j \notin DOMAIN calls => j = i
  /\ streams[i].link = "none" /\ cs[i].at = "protocol"
  /\ view' \in [Viewers -> 0 .. Len(cs)] /\ wish' \in [Viewers -> 0 .. Len(cs)]
  /\ told' \subseteq Viewers /\ painted' \subseteq Viewers
  /\ known' \in BOOLEAN /\ UNCHANGED <<disposed, online>>
  /\ Join(i, cs)

\* A viewer for whom nothing changes but a stream.
Same(u) ==
  /\ view'[u] = view[u] /\ wish'[u] = wish[u]
  /\ u \in told' <=> u \in told
  /\ u \in painted' <=> u \in painted

\* A join leaves the streams and requests as the invariant has them.
LEMMA JoinKeepsStreams ==
  ASSUME IInv, NEW cs \in Seq(Call), NEW i \in 1 .. Len(cs), Joins(i, cs),
         \A u \in Viewers : view[u] # 0 => view'[u] # 0
  PROVE  /\ Joined1(i, cs) /\ (JoinedNew(i, cs) \/ JoinedOld(i, cs))
         /\ TypeOK' /\ CallInv' /\ StreamInv'
<1> USE DEF IInv
<1>1. /\ Len(calls) \in 0 .. MaxAttach /\ DOMAIN calls = 1 .. Len(calls)
      /\ Len(cs) \in 0 .. MaxAttach /\ cs \in [1 .. Len(cs) -> Call]
      /\ i \in Ids
  BY Requests, LenProperties DEF Joins
<1>2. ~(Usable(shared) /\ shared = i)
  BY <1>1 DEF Usable, StreamInv, Joins
<1>3. Joined1(i, cs) /\ (JoinedNew(i, cs) \/ JoinedOld(i, cs))
  <2>1. shared <= Len(cs)
    BY <1>1 DEF TypeOK, Joins
  <2>2. view' \in [Viewers -> Nat] /\ Len(cs) <= MaxAttach /\ Join(i, cs)
    BY <1>1 DEF Joins
  <2> QED
    BY <1>2, <2>1, <2>2, JoinMoves
<1>4. /\ Len(calls') = Len(cs) /\ DOMAIN calls' = 1 .. Len(cs)
      /\ shared' \in Ids /\ streams'[shared'].link \in {"connecting", "open"}
  <2>1. streams'[shared'].link \in {"connecting", "open"}
    BY <1>1, <1>3 DEF JoinedNew, JoinedOld, StreamInv, Usable, TypeOK
  <2> QED
    BY <1>1, <1>3, <2>1, LenProperties DEF Joined1
<1>5. TypeOK'
  <2>1. known' \in BOOLEAN /\ disposed' \in BOOLEAN
    BY DEF Joins, TypeOK
  <2>2. calls' \in Seq(Call) /\ Len(calls') <= MaxAttach
    BY <1>1, <1>3, <1>4 DEF Joined1
  <2>3. shared' \in 0 .. Len(calls') /\ streams' \in [Ids -> Stream]
    BY <1>1, <1>3, <1>4 DEF Joined1
  <2>4. \A s \in Ids : shared' = s => streams'[s].link # "none"
    BY <1>4
  <2>5. /\ view' \in [Viewers -> 0 .. Len(calls')]
        /\ wish' \in [Viewers -> 0 .. Len(calls')]
        /\ online' \subseteq Viewers /\ told' \subseteq Viewers
        /\ painted' \subseteq Viewers
    BY <1>4 DEF Joins, TypeOK
  <2> QED
    BY <2>1, <2>2, <2>3, <2>4, <2>5 DEF TypeOK
<1>6. CallInv'
  <2> SUFFICES ASSUME NEW j \in 1 .. Len(cs)
      PROVE  /\ calls'[j].at = "protocol" =>
                  ~calls'[j].fresh /\ streams'[j].link = "none"
             /\ calls'[j].at = "connecting" =>
                  calls'[j].of \in Ids /\ streams'[calls'[j].of].link = "connecting"
             /\ calls'[j].at = "frame" =>
                  /\ calls'[j].of \in Ids
                  /\ streams'[calls'[j].of].link \in {"open", "failed"}
    BY <1>4 DEF CallInv
  <2>1. CASE j = i
    <3>1. calls'[i].of = shared' /\ calls'[i].at \in {"connecting", "frame"}
      BY <1>3 DEF Joined1, JoinedNew, JoinedOld
    <3>2. calls'[i].at = "connecting" => streams'[shared'].link = "connecting"
      BY <1>3, <1>4 DEF JoinedNew, JoinedOld
    <3>3. calls'[i].at = "frame" => streams'[shared'].link = "open"
      BY <1>3 DEF JoinedNew, JoinedOld
    <3> QED
      BY <1>4, <2>1, <3>1, <3>2, <3>3
  <2>2. CASE j # i
    <3>1. j \in DOMAIN calls /\ calls'[j] = calls[j]
      BY <1>1, <1>3, <2>2 DEF Joins, Joined1
    <3>2. ASSUME calls[j].at = "protocol"
          PROVE  ~calls[j].fresh /\ streams'[j].link = "none"
      <4>1. streams[j].link = "none" /\ j \in Ids
        BY <1>1, <3>1, <3>2 DEF CallInv
      <4>2. j # shared'
        BY <1>3, <2>2, <4>1 DEF JoinedNew, JoinedOld, TypeOK
      <4> QED
        BY <1>3, <3>1, <3>2, <4>1, <4>2 DEF CallInv, Joined1
    <3>3. ASSUME calls[j].at = "connecting"
          PROVE  calls[j].of \in Ids /\ streams'[calls[j].of].link = "connecting"
      <4>1. calls[j].of \in Ids /\ streams[calls[j].of].link = "connecting"
        BY <3>1, <3>3 DEF CallInv
      <4>2. CASE calls[j].of = shared'
        BY <1>3, <4>1, <4>2 DEF JoinedNew, JoinedOld
      <4>3. CASE calls[j].of # shared'
        BY <1>3, <4>1, <4>3 DEF Joined1
      <4> QED
        BY <4>1, <4>2, <4>3
    <3>4. ASSUME calls[j].at = "frame"
          PROVE  /\ calls[j].of \in Ids
                 /\ streams'[calls[j].of].link \in {"open", "failed"}
      <4>1. /\ calls[j].of \in Ids
            /\ streams[calls[j].of].link \in {"open", "failed"}
        BY <3>1, <3>4 DEF CallInv
      <4>2. CASE calls[j].of = shared'
        <5>1. streams[i].link = "none"
          BY <1>1 DEF Joins, CallInv
        <5> QED
          BY <1>3, <4>1, <4>2, <5>1 DEF JoinedNew, JoinedOld
      <4>3. CASE calls[j].of # shared'
        BY <1>3, <4>1, <4>3 DEF Joined1
      <4> QED
        BY <4>1, <4>2, <4>3
    <3> QED
      BY <3>1, <3>2, <3>3, <3>4 DEF CallInv
  <2> QED
    BY <2>1, <2>2
<1>7. StreamInv'
  <2> SUFFICES ASSUME NEW s \in Ids
      PROVE  /\ streams'[s].link # "none" => s <= Len(calls')
             /\ streams'[s].link = "none" => ~streams'[s].up /\ streams'[s].viewers = {}
             /\ streams'[s].up =>
                  /\ shared' = s /\ ~streams'[s].over
                  /\ streams'[s].link \in {"connecting", "open"}
             /\ streams'[s].up /\ ~streams'[s].stray /\ ~disposed' =>
                  streams'[s].viewers # {} /\ \A u \in streams'[s].viewers : view'[u] # 0
             /\ streams'[s].up /\ disposed' =>
                  streams'[s].link = "connecting" /\ Waiting(s)' # {}
    BY DEF StreamInv
  <2>1. CASE s # shared'
    <3>1. streams'[s] = streams[s]
      BY <1>3, <2>1 DEF Joined1
    <3>2. ~streams[s].up
      BY <1>3, <2>1, OneUp DEF JoinedNew, JoinedOld
    <3>3. streams[s].link # "none" => s <= Len(calls')
      BY <1>1, <1>4 DEF StreamInv, Joins
    <3> QED
      BY <3>1, <3>2, <3>3 DEF StreamInv
  <2>2. CASE s = shared'
    <3>1. s <= Len(calls') /\ streams'[s].link \in {"connecting", "open"}
      BY <1>1, <1>3, <1>4, <2>2 DEF Joined1
    <3>2. ~streams'[s].over
      BY <1>3, <2>2 DEF JoinedNew, JoinedOld, StreamInv, Usable, TypeOK
    <3>3. ASSUME ~streams'[s].stray, ~disposed'
          PROVE  streams'[s].viewers # {} /\ \A u \in streams'[s].viewers : view'[u] # 0
      <4>1. CASE JoinedNew(i, cs)
        <5>1. streams'[s].stray \in BOOLEAN
          BY <1>5, <2>2, StreamFields DEF TypeOK, Stream
        <5> QED
          BY <2>2, <3>3, <4>1, <5>1 DEF JoinedNew
      <4>2. CASE JoinedOld(i, cs)
        <5>1. streams'[s].stray \in BOOLEAN /\ streams[s].stray \in BOOLEAN
          BY <1>5 DEF TypeOK, Stream
        <5>2. ~streams[s].stray /\ view'[cs[i].viewer] # 0 /\ streams[s].up
          BY <2>2, <3>3, <4>2, <5>1 DEF JoinedOld, Usable
        <5>3. \A u \in streams[s].viewers : view[u] # 0
          BY <3>3, <5>2 DEF StreamInv, Joins
        <5>4. \A u \in streams[s].viewers : u \in Viewers
          BY StreamFields
        <5> QED
          BY <2>2, <4>2, <5>2, <5>3, <5>4 DEF JoinedOld
      <4> QED
        BY <1>3, <4>1, <4>2
    <3>4. ASSUME disposed'
          PROVE  streams'[s].link = "connecting" /\ Waiting(s)' # {}
      <4>1. streams'[s].link = "connecting"
        BY <1>3, <2>2, <3>4 DEF JoinedNew, JoinedOld, StreamInv, Usable, TypeOK, Joins
      <4>2. calls'[i].at = "connecting"
        BY <1>3, <2>2, <4>1 DEF JoinedNew, JoinedOld
      <4>3. calls'[i].of = s
        BY <1>3, <2>2 DEF Joined1
      <4> QED
        BY <1>4, <4>1, <4>2, <4>3 DEF Waiting
    <3> QED
      BY <2>2, <3>1, <3>2, <3>3, <3>4
  <2> QED
    BY <2>1, <2>2
<1> QED
  BY <1>3, <1>5, <1>6, <1>7

\* A viewer that attaches anew with request i: it is refreshed if it is new to
\* an open stream.
Anew(u, i, cs) ==
  /\ u = cs[i].viewer /\ view'[u] = i /\ wish'[u] = i /\ u \notin told'
  /\ ~disposed /\ u \in online /\ i \notin DOMAIN calls
  /\ cs[i].fresh => cs[i].refresh = Refresh(u) /\ view[u] = 0

\* A join leaves the viewers as the invariant has them.
LEMMA JoinKeeps ==
  ASSUME IInv, NEW cs \in Seq(Call), NEW i \in 1 .. Len(cs), Joins(i, cs),
         \A u \in Viewers : \/ Anew(u, i, cs)
                            \/ Same(u) /\ (wish[u] = i => i \in DOMAIN calls)
  PROVE  IInv'
<1> USE DEF IInv
<1>1. /\ Len(calls) \in 0 .. MaxAttach /\ DOMAIN calls = 1 .. Len(calls)
      /\ Len(cs) \in 0 .. MaxAttach /\ cs \in [1 .. Len(cs) -> Call]
      /\ i \in Ids
  BY Requests, LenProperties DEF Joins
<1>2. /\ Joined1(i, cs) /\ (JoinedNew(i, cs) \/ JoinedOld(i, cs))
      /\ TypeOK' /\ CallInv' /\ StreamInv'
  <2>1. \A u \in Viewers : view[u] # 0 => view'[u] # 0
    BY <1>1 DEF Anew, Same
  <2> QED
    BY <2>1, JoinKeepsStreams
<1>3. Len(calls') = Len(cs) /\ DOMAIN calls' = 1 .. Len(cs)
  BY <1>2, LenProperties DEF Joined1
<1>4. \A u \in Viewers : Crossed(u)' <=> Crossed(u)
  <2> SUFFICES ASSUME NEW u \in Viewers PROVE Crossed(u)' <=> Crossed(u)
    OBVIOUS
  <2>1. calls'[i].at # "late"
    BY <1>2 DEF JoinedNew, JoinedOld
  <2>2. \A j \in DOMAIN calls' : j # i => j \in DOMAIN calls /\ calls'[j] = calls[j]
    BY <1>1, <1>2, <1>3 DEF Joined1, Joins
  <2>3. i \in DOMAIN calls => calls[i].at # "late"
    BY DEF Joins
  <2>4. \A j \in DOMAIN calls : j \in DOMAIN calls'
    BY <1>1, <1>3 DEF Joins
  <2> QED
    BY <2>1, <2>2, <2>3, <2>4 DEF Crossed
<1>5. ASSUME NEW u \in Viewers, Same(u), wish[u] # 0
      PROVE  /\ wish[u] \in DOMAIN calls
             /\ wish[u] # i => calls'[wish[u]] = calls[wish[u]]
             /\ wish[u] = i => calls[i].at = "protocol" /\ calls[i].fresh = FALSE
                               /\ calls'[i].viewer = calls[i].viewer
                               /\ calls'[i].fresh = FALSE
  <2>1. wish[u] \in DOMAIN calls
    BY <1>1, <1>5 DEF TypeOK
  <2>2. wish[u] # i => calls'[wish[u]] = calls[wish[u]]
    BY <1>1, <1>2, <2>1 DEF Joined1, Joins
  <2>3. ASSUME wish[u] = i
        PROVE  /\ calls[i].at = "protocol" /\ calls[i].fresh = FALSE
               /\ calls'[i].viewer = calls[i].viewer /\ calls'[i].fresh = FALSE
    <3>1. cs[i] = calls[i]
      BY <2>1, <2>3 DEF Joins
    <3>2. calls[i].at = "protocol" /\ calls[i] \in Call
      BY <2>1, <2>3, <3>1, Requests DEF Joins
    <3>3. calls[i].fresh = FALSE
      <4>1. ~calls[i].fresh /\ calls[i].fresh \in BOOLEAN
        BY <2>1, <2>3, <3>2, CallFields DEF CallInv
      <4> QED
        BY <4>1
    <3> QED
      BY <1>2, <3>1, <3>2, <3>3 DEF Joined1
  <2> QED
    BY <2>1, <2>2, <2>3
<1>6. ViewInv'
  <2> SUFFICES ASSUME NEW u \in Viewers
      PROVE  /\ disposed' => wish'[u] = 0
             /\ wish'[u] # 0 => calls'[wish'[u]].viewer = u
             /\ view'[u] \in {0, wish'[u]}
             /\ view'[u] = 0 /\ wish'[u] # 0 =>
                  calls'[wish'[u]].at = "failed" \/ Crossed(u)'
    BY DEF ViewInv
  <2>1. CASE Anew(u, i, cs)
    <3>1. i # 0 /\ ~disposed' /\ calls'[i].viewer = u
      BY <1>1, <1>2, <2>1 DEF Anew, Joined1, Joins
    <3> QED
      BY <2>1, <3>1 DEF Anew
  <2>2. CASE Same(u)
    <3>1. ASSUME wish[u] # 0 PROVE calls'[wish[u]].viewer = u
      BY <1>5, <2>2, <3>1 DEF ViewInv
    <3>2. ASSUME view[u] = 0, wish[u] # 0
          PROVE  calls'[wish[u]].at = "failed" \/ Crossed(u)'
      <4>1. calls[wish[u]].at = "failed" \/ Crossed(u)
        BY <3>2 DEF ViewInv
      <4> QED
        BY <1>4, <1>5, <2>2, <3>2, <4>1
    <3> QED
      BY <2>2, <3>1, <3>2 DEF ViewInv, Same, Joins
  <2> QED
    BY <2>1, <2>2
<1>7. \A u \in Viewers : Anew(u, i, cs) => Served(u)'
  <2>1. Usable(shared)'
    BY <1>1, <1>2 DEF Usable, Joined1
  <2>2. cs[i].viewer \in streams'[shared'].viewers
    BY <1>2 DEF JoinedNew, JoinedOld
  <2> QED
    BY <2>1, <2>2 DEF Anew, Served
<1>8. ASSUME NEW u \in Viewers
      PROVE  /\ Served(u) => Served(u)' /\ JoinedOld(i, cs)
             /\ ToBeTold(u) <=> ToBeTold(u)'
  <2>1. Served(u) => Served(u)' /\ JoinedOld(i, cs)
    BY <1>1, <1>2 DEF Served, Usable, Joined1, JoinedNew, JoinedOld
  <2>2. shared' \in Ids /\ streams'[shared'].up
    BY <1>1, <1>2 DEF Joined1
  <2>3. ASSUME ToBeTold(u)' PROVE ToBeTold(u)
    <3>1. PICK s \in Ids : u \in streams'[s].viewers /\ ~streams'[s].up
                           /\ ~streams'[s].over
      BY <2>3 DEF ToBeTold
    <3>2. s # shared'
      BY <2>2, <3>1
    <3>3. streams'[s] = streams[s]
      BY <1>2, <3>2 DEF Joined1
    <3> QED
      BY <3>1, <3>3 DEF ToBeTold
  <2>4. ASSUME ToBeTold(u) PROVE ToBeTold(u)'
    <3>1. PICK s \in Ids : u \in streams[s].viewers /\ ~streams[s].up
                           /\ ~streams[s].over
      BY <2>4 DEF ToBeTold
    <3>2. s # i
      BY <3>1 DEF StreamInv, Joins
    <3>3. s # shared'
      BY <1>2, <3>1, <3>2 DEF JoinedNew, JoinedOld, Usable
    <3>4. streams'[s] = streams[s]
      BY <1>2, <3>3 DEF Joined1
    <3> QED
      BY <3>1, <3>4 DEF ToBeTold
  <2> QED
    BY <2>1, <2>3, <2>4
<1>9. ASSUME NEW u \in Viewers, Same(u), Joined(u)', wish[u] # i
      PROVE  Joined(u) /\ calls'[wish[u]] = calls[wish[u]]
  <2>1. Relies(u) /\ wish[u] # 0
    BY <1>9 DEF Joined, Relies, Same, Joins
  <2>2. calls'[wish[u]] = calls[wish[u]]
    BY <1>5, <1>9, <2>1
  <2> QED
    BY <1>4, <1>9, <2>1, <2>2 DEF Joined, Same
<1>10. ASSUME NEW u \in Viewers, Same(u), wish[u] = i
       PROVE  Joined(u)' => Served(u)'
  <2>1. ASSUME Joined(u)' PROVE u = cs[i].viewer
    <3>1. wish[u] # 0
      BY <1>10, <2>1 DEF Joined, Relies, Same
    <3>2. calls[i].viewer = u /\ i \in DOMAIN calls
      BY <1>5, <1>10, <3>1 DEF ViewInv
    <3> QED
      BY <3>2 DEF Joins
  <2>2. Usable(shared)'
    BY <1>1, <1>2 DEF Usable, Joined1
  <2>3. cs[i].viewer \in streams'[shared'].viewers
    BY <1>2 DEF JoinedNew, JoinedOld
  <2> QED
    BY <2>1, <2>2, <2>3 DEF Served
<1>11. ServeInv'
  <2> SUFFICES ASSUME NEW u \in Viewers, Joined(u)'
      PROVE  Served(u)' \/ ToBeTold(u)'
    BY DEF ServeInv
  <2>1. CASE Anew(u, i, cs)
    BY <1>7, <2>1
  <2>2. CASE Same(u) /\ wish[u] = i
    BY <1>10, <2>2
  <2>3. CASE Same(u) /\ wish[u] # i
    <3>1. Served(u) \/ ToBeTold(u)
      BY <1>9, <2>3 DEF ServeInv
    <3> QED
      BY <1>8, <3>1
  <2> QED
    BY <2>1, <2>2, <2>3
<1>12. PaintInv'
  <2> SUFFICES ASSUME NEW u \in Viewers, Joined(u)', calls'[wish'[u]].fresh,
                      Served(u)', ~ToBeTold(u)', streams'[shared'].link = "open"
      PROVE  streams'[shared'].due \/ u \in painted'
    BY DEF PaintInv
  <2>1. JoinedOld(i, cs)
    BY <1>2 DEF JoinedNew
  <2>2. CASE Anew(u, i, cs)
    <3>1. calls'[i].fresh = cs[i].fresh /\ calls'[i].fresh
      BY <1>2, <2>2 DEF Anew, Joined1
    <3>2. cs[i].refresh = Refresh(u) /\ view[u] = 0
      BY <2>2, <3>1 DEF Anew
    <3>3. Usable(shared) /\ streams[shared].link = "open"
      BY <2>1 DEF JoinedOld
    <3>4. cs[i].refresh = TRUE
      BY <3>2, <3>3 DEF Refresh
    <3> QED
      BY <2>1, <3>3, <3>4 DEF JoinedOld
  <2>3. CASE Same(u) /\ wish[u] = i
    <3>1. wish[u] # 0
      BY <2>3 DEF Joined, Relies, Same
    <3>2. calls'[i].fresh = FALSE
      BY <1>5, <2>3, <3>1
    <3> QED
      BY <2>3, <3>2 DEF Same
  <2>4. CASE Same(u) /\ wish[u] # i
    <3>1. Joined(u) /\ calls[wish[u]].fresh
      BY <1>9, <2>4 DEF Same
    <3>2. ~ToBeTold(u) /\ Served(u)
      BY <1>8, <3>1 DEF ServeInv
    <3>3. streams[shared].link = "open"
      BY <2>1 DEF JoinedOld
    <3>4. streams[shared].due \/ u \in painted
      BY <3>1, <3>2, <3>3 DEF PaintInv
    <3>5. streams[shared].due => streams'[shared'].due = TRUE
      <4>1. streams[shared].due \in BOOLEAN
        BY <2>1, StreamFields DEF JoinedOld, Usable, TypeOK
      <4> QED
        BY <2>1, <4>1 DEF JoinedOld
    <3> QED
      BY <2>4, <3>4, <3>5 DEF Same
  <2> QED
    BY <2>2, <2>3, <2>4
<1> QED
  BY <1>2, <1>6, <1>11, <1>12

-----------------------------------------------------------------------------
(* Requests that move while the streams stay. *)

\* The initial states satisfy the invariant.
LEMMA InitInv ==
  ASSUME Init
  PROVE  IInv
<1>1. /\ Len(calls) = 0 /\ DOMAIN calls = {} /\ calls \in Seq(Call)
  BY DEF Init
<1>2. NoStream \in Stream
  BY DEF NoStream, Stream
<1>3. \A s \in Ids : streams[s] = NoStream
  BY DEF Init
<1>4. TypeOK
  <2>1. \A s \in Ids : shared = s => streams[s].link # "none"
    BY DEF Init
  <2>2. streams \in [Ids -> Stream]
    BY <1>2 DEF Init
  <2>3. /\ shared \in 0 .. Len(calls) /\ Len(calls) <= MaxAttach
        /\ view \in [Viewers -> 0 .. Len(calls)]
        /\ wish \in [Viewers -> 0 .. Len(calls)]
    BY <1>1 DEF Init
  <2>4. /\ known \in BOOLEAN /\ disposed \in BOOLEAN
        /\ online \subseteq Viewers /\ told \subseteq Viewers
        /\ painted \subseteq Viewers
    BY DEF Init
  <2> QED
    BY <1>1, <2>1, <2>2, <2>3, <2>4 DEF TypeOK
<1>5. CallInv
  BY <1>1 DEF CallInv
<1>6. StreamInv
  BY <1>3 DEF StreamInv, NoStream
<1>7. ViewInv /\ ServeInv /\ PaintInv
  BY DEF Init, ViewInv, ServeInv, PaintInv, Joined, Relies
<1> QED
  BY <1>4, <1>5, <1>6, <1>7 DEF IInv

\* While a viewer stays on the streams as they are, it stays served or told.
LEMMA SameStreams ==
  ASSUME NEW u \in Viewers, UNCHANGED <<shared, streams>>
  PROVE  (Served(u)' <=> Served(u)) /\ (ToBeTold(u)' <=> ToBeTold(u))
BY DEF Served, Usable, ToBeTold

\* A request is answered, with a failed ping or with its frame.
LEMMA AnswerKeeps ==
  ASSUME IInv, NEW i \in DOMAIN calls, NEW how \in {"ok", "failed"},
         \/ calls[i].at = "protocol" /\ how = "failed"
         \/ calls[i].at = "frame" /\ how = "ok" /\ ~disposed,
         calls' = [calls EXCEPT ![i] = End(@, how)],
         UNCHANGED <<known, disposed, shared, streams, view, online, wish,
                     told, painted>>
  PROVE  IInv'
<1> USE DEF IInv
<1>1. EndsAs(i, how)
  BY EndMoves DEF Ended
<1>2. /\ DOMAIN calls' = DOMAIN calls /\ DOMAIN calls = 1 .. Len(calls)
      /\ Len(calls') = Len(calls)
  BY <1>1, Requests, LenProperties DEF EndsAs
<1>3. TypeOK'
  BY <1>1 DEF EndsAs, TypeOK
<1>4. CallInv'
  <2> SUFFICES ASSUME NEW j \in DOMAIN calls
      PROVE  /\ calls'[j].at = "protocol" => ~calls'[j].fresh /\ streams[j].link = "none"
             /\ calls'[j].at = "connecting" =>
                  calls'[j].of \in Ids /\ streams[calls'[j].of].link = "connecting"
             /\ calls'[j].at = "frame" =>
                  /\ calls'[j].of \in Ids
                  /\ streams[calls'[j].of].link \in {"open", "failed"}
    BY <1>2 DEF CallInv
  <2>1. CASE j = i
    BY <1>1, <2>1 DEF EndsAs
  <2>2. CASE j # i
    BY <1>1, <2>2 DEF EndsAs, CallInv
  <2> QED
    BY <2>1, <2>2
<1>5. StreamInv'
  <2>1. ASSUME NEW s \in Ids, disposed PROVE Waiting(s) \subseteq Waiting(s)'
    BY <1>1, <1>2, <2>1 DEF EndsAs, Waiting
  <2> QED
    BY <1>2, <2>1 DEF StreamInv
<1>6. \A u \in Viewers : Crossed(u)' <=> Crossed(u)
  BY <1>1, <1>2 DEF EndsAs, Crossed
<1>7. \A u \in Viewers : wish[u] # 0 =>
        /\ wish[u] \in DOMAIN calls
        /\ calls'[wish[u]].viewer = calls[wish[u]].viewer
        /\ calls'[wish[u]].fresh = calls[wish[u]].fresh
        /\ calls[wish[u]].at = "failed" => calls'[wish[u]].at = "failed"
        /\ calls'[wish[u]].at \in {"connecting", "frame", "ok"} =>
             calls[wish[u]].at \in {"connecting", "frame", "ok"}
  BY <1>1, <1>2 DEF EndsAs, TypeOK
<1>8. ViewInv'
  BY <1>6, <1>7 DEF ViewInv
<1>9. \A u \in Viewers : Joined(u)' => Joined(u) /\ wish[u] # 0
  BY <1>6, <1>7 DEF Joined, Relies
<1>10. ServeInv'
  BY <1>9, SameStreams DEF ServeInv
<1>11. PaintInv'
  BY <1>7, <1>9, SameStreams DEF PaintInv
<1> QED
  BY <1>3, <1>4, <1>5, <1>8, <1>10, <1>11

\* A viewer attaches while the protocol is not known.
LEMMA AskKeeps ==
  ASSUME IInv, NEW v \in Viewers, Attach(v), ~known
  PROVE  IInv'
<1> USE DEF IInv
<1> DEFINE i == Len(calls) + 1
           c == [viewer |-> v, at |-> "protocol", of |-> 0,
                 refresh |-> Refresh(v), fresh |-> known /\ view[v] = 0]
<1>1. /\ calls' = Append(calls, c) /\ i <= MaxAttach /\ ~disposed
      /\ view' = [view EXCEPT ![v] = i] /\ wish' = [wish EXCEPT ![v] = i]
      /\ told' = told \ {v}
      /\ painted' = (IF view[v] = 0 THEN painted \ {v} ELSE painted)
      /\ UNCHANGED <<known, disposed, shared, streams, online>>
  BY DEF Attach
<1>2. c \in Call /\ c.viewer = v /\ c.at = "protocol" /\ c.fresh = FALSE
  <2>1. Refresh(v) \in BOOLEAN
    BY DEF Refresh, Usable, TypeOK
  <2>2. PICK r \in BOOLEAN : r = Refresh(v)
    BY <2>1
  <2>3. PICK f \in BOOLEAN : f = (known /\ view[v] = 0)
    OBVIOUS
  <2>4. f = FALSE
    BY <2>3
  <2>5. c = [viewer |-> v, at |-> "protocol", of |-> 0, refresh |-> r, fresh |-> f]
    BY <2>2, <2>3, Zenon
  <2> HIDE DEF c
  <2> QED
    BY <2>4, <2>5 DEF Call, Pending
<1> HIDE DEF c
<1>3. /\ Len(calls) \in Nat /\ DOMAIN calls = 1 .. Len(calls) /\ i \in Ids
      /\ calls' \in Seq(Call) /\ Len(calls') = i /\ DOMAIN calls' = 1 .. i
      /\ calls'[i] = c /\ \A j \in DOMAIN calls : calls'[j] = calls[j]
  BY <1>1, <1>2, Requests, AppendProperties, LenProperties DEF TypeOK
<1>4. streams[i].link = "none"
  BY <1>3 DEF StreamInv
<1>5. TypeOK'
  BY <1>1, <1>3 DEF TypeOK
<1>6. CallInv'
  <2> SUFFICES ASSUME NEW j \in 1 .. i
      PROVE  /\ calls'[j].at = "protocol" => ~calls'[j].fresh /\ streams[j].link = "none"
             /\ calls'[j].at = "connecting" =>
                  calls'[j].of \in Ids /\ streams[calls'[j].of].link = "connecting"
             /\ calls'[j].at = "frame" =>
                  /\ calls'[j].of \in Ids
                  /\ streams[calls'[j].of].link \in {"open", "failed"}
    BY <1>1, <1>3 DEF CallInv
  <2>1. CASE j = i
    BY <1>2, <1>3, <1>4, <2>1
  <2>2. CASE j # i
    BY <1>3, <2>2 DEF CallInv
  <2> QED
    BY <2>1, <2>2
<1>7. \A u \in Viewers : view[u] # 0 => view'[u] # 0
  BY <1>1, <1>3 DEF TypeOK
<1>8. StreamInv'
  <2>1. \A s \in Ids : streams[s].viewers \in SUBSET Viewers
    BY StreamFields
  <2>2. \A s \in Ids : streams[s].link # "none" => s <= i
    BY <1>3 DEF StreamInv
  <2> QED
    BY <1>1, <1>3, <1>7, <2>1, <2>2 DEF StreamInv
<1>9. \A u \in Viewers : Crossed(u)' <=> Crossed(u)
  BY <1>2, <1>3 DEF Crossed
<1>10. \A u \in Viewers \ {v} :
         /\ view'[u] = view[u] /\ wish'[u] = wish[u]
         /\ wish[u] # 0 => calls'[wish[u]] = calls[wish[u]]
         /\ u \in told' <=> u \in told
         /\ u \in painted' <=> u \in painted
  BY <1>1, <1>3 DEF TypeOK
<1>11. view'[v] = i /\ wish'[v] = i /\ i # 0
  BY <1>1, <1>3 DEF TypeOK
<1>12. ViewInv'
  <2> SUFFICES ASSUME NEW u \in Viewers
      PROVE  /\ disposed' => wish'[u] = 0
             /\ wish'[u] # 0 => calls'[wish'[u]].viewer = u
             /\ view'[u] \in {0, wish'[u]}
             /\ view'[u] = 0 /\ wish'[u] # 0 =>
                  calls'[wish'[u]].at = "failed" \/ Crossed(u)'
    BY DEF ViewInv
  <2>1. CASE u = v
    BY <1>1, <1>2, <1>3, <1>11, <2>1
  <2>2. CASE u # v
    <3>1. /\ view'[u] = view[u] /\ wish'[u] = wish[u]
          /\ wish[u] # 0 => calls'[wish[u]] = calls[wish[u]]
      BY <1>10, <2>2
    <3> QED
      BY <1>1, <1>9, <3>1 DEF ViewInv
  <2> QED
    BY <2>1, <2>2
<1>13. \A u \in Viewers : Joined(u)' => Joined(u) /\ u # v /\ wish[u] # 0
  <2> SUFFICES ASSUME NEW u \in Viewers, Joined(u)'
      PROVE  Joined(u) /\ u # v /\ wish[u] # 0
    OBVIOUS
  <2>1. u # v
    BY <1>2, <1>3, <1>11 DEF Joined
  <2>2. /\ wish'[u] = wish[u] /\ u \notin told /\ wish[u] # 0
        /\ calls'[wish[u]] = calls[wish[u]]
    BY <1>10, <2>1 DEF Joined, Relies
  <2> QED
    BY <1>1, <1>9, <2>1, <2>2 DEF Joined, Relies
<1>14. ServeInv'
  BY <1>1, <1>13, SameStreams DEF ServeInv
<1>15. PaintInv'
  BY <1>1, <1>10, <1>13, SameStreams DEF PaintInv
<1> QED
  BY <1>5, <1>6, <1>8, <1>12, <1>14, <1>15

-----------------------------------------------------------------------------
(* Events of one stream. *)

\* What StreamInv says of one stream.
StreamOk(s) ==
  /\ streams[s].link # "none" => s <= Len(calls)
  /\ streams[s].link = "none" => ~streams[s].up /\ streams[s].viewers = {}
  /\ streams[s].up => /\ shared = s /\ ~streams[s].over
                      /\ streams[s].link \in {"connecting", "open"}
  /\ streams[s].up /\ ~streams[s].stray /\ ~disposed =>
       streams[s].viewers # {} /\ \A v \in streams[s].viewers : view[v] # 0
  /\ streams[s].up /\ disposed => streams[s].link = "connecting" /\ Waiting(s) # {}

\* A viewer that has joined has not left the bridge.
LEMMA JoinedIsViewing ==
  ASSUME ViewInv, NEW u \in Viewers, Joined(u)
  PROVE  view[u] # 0
BY DEF ViewInv, Joined, Relies

\* Nothing is said of a viewer but what the requests and the bridge say.
LEMMA SameViewers ==
  ASSUME IInv, UNCHANGED <<calls, disposed, view, wish>>
  PROVE  /\ ViewInv' /\ \A u \in Viewers : Crossed(u)' <=> Crossed(u)
         /\ \A s \in Ids : Waiting(s)' = Waiting(s)
BY DEF IInv, ViewInv, Crossed, Waiting

\* A complete frame comes for the viewers that are still there.
LEMMA FrameKeeps ==
  ASSUME IInv, NEW s \in Ids, FrameArrives(s)
  PROVE  IInv'
<1> USE DEF IInv
<1> DEFINE here == {v \in streams[s].viewers : view[v] # 0}
           n == [streams[s] EXCEPT !.due = FALSE, !.viewers = here]
<1>1. /\ streams[s].up /\ streams[s].link = "open" /\ streams[s].due
      /\ painted' = painted \cup here
      /\ UNCHANGED <<known, disposed, calls, shared, view, online, wish, told>>
  BY DEF FrameArrives
<1>2. shared = s /\ Usable(shared) /\ ~streams[s].over
  BY <1>1, OneUp DEF StreamInv
<1>3. streams' = [streams EXCEPT ![s] = n]
  BY <1>1 DEF FrameArrives, TypeOK, Stream
<1>4. /\ n \in Stream /\ n.up = streams[s].up /\ n.link = streams[s].link
      /\ n.over = streams[s].over /\ n.stray = streams[s].stray
      /\ n.viewers = here /\ n.due = FALSE
  BY DEF TypeOK, Stream
<1> HIDE DEF n
<1>5. /\ streams' \in [Ids -> Stream] /\ streams'[s] = n
      /\ \A t \in Ids \ {s} : streams'[t] = streams[t]
  BY <1>3, <1>4 DEF TypeOK
<1>6. \A t \in Ids : streams'[t].link = streams[t].link
  BY <1>4, <1>5
<1>7. ViewInv' /\ (\A u \in Viewers : Crossed(u)' <=> Crossed(u))
      /\ \A t \in Ids : Waiting(t)' = Waiting(t)
  BY <1>1, SameViewers
<1>8. TypeOK'
  BY <1>1, <1>5, <1>6, StreamFields DEF TypeOK
<1>9. CallInv'
  BY <1>1, <1>6, Requests DEF CallInv
<1>10. StreamInv'
  BY <1>1, <1>2, <1>4, <1>5, <1>7 DEF StreamInv
<1>11. \A u \in Viewers : Joined(u)' => Joined(u) /\ view[u] # 0
  BY <1>1, <1>7, JoinedIsViewing DEF Joined, Relies
<1>12. \A u \in Viewers : ToBeTold(u) => ToBeTold(u)'
  BY <1>1, <1>5 DEF ToBeTold
<1>13. \A u \in Viewers : Served(u) /\ view[u] # 0 => Served(u)' /\ u \in painted'
  BY <1>1, <1>2, <1>4, <1>5 DEF Served, Usable
<1>14. ServeInv'
  BY <1>11, <1>12, <1>13 DEF ServeInv
<1>15. \A u \in Viewers : Served(u)' => u \in painted'
  BY <1>1, <1>2, <1>4, <1>5 DEF Served
<1>16. PaintInv'
  BY <1>15 DEF PaintInv
<1> QED
  BY <1>7, <1>8, <1>9, <1>10, <1>14, <1>16

\* A stream dies under its viewers.
LEMMA DeathKeeps ==
  ASSUME IInv, NEW s \in Ids, StreamDies(s)
  PROVE  IInv'
<1> USE DEF IInv
<1>1. /\ streams[s].up
      /\ UNCHANGED <<known, disposed, calls, shared, view, online, wish, told,
                     painted>>
  BY DEF StreamDies
<1>2. shared = s /\ ~streams[s].over /\ streams[s].link # "none"
  BY <1>1, OneUp DEF StreamInv
<1>3. PICK n \in Stream : n = Closed(streams[s])
  BY StreamFields, ClosedFields
<1>4. /\ n.up = FALSE /\ n.link = streams[s].link
      /\ n.over = streams[s].over /\ n.viewers = streams[s].viewers
  BY <1>3, StreamFields, ClosedFields
<1>5. /\ streams' \in [Ids -> Stream] /\ streams'[s] = n
      /\ \A t \in Ids \ {s} : streams'[t] = streams[t]
  BY <1>3 DEF TypeOK, StreamDies
<1>6. \A t \in Ids : streams'[t].link = streams[t].link
  BY <1>4, <1>5
<1>7. ViewInv' /\ (\A u \in Viewers : Crossed(u)' <=> Crossed(u))
      /\ \A t \in Ids : Waiting(t)' = Waiting(t)
  BY <1>1, SameViewers
<1>8. TypeOK'
  BY <1>1, <1>5, <1>6 DEF TypeOK
<1>9. CallInv'
  BY <1>1, <1>6, Requests DEF CallInv
<1>10. StreamInv'
  BY <1>1, <1>2, <1>4, <1>5, <1>7 DEF StreamInv
<1>11. \A u \in Viewers : Joined(u)' => Joined(u)
  BY <1>1, <1>7 DEF Joined, Relies
<1>12. \A u \in Viewers : Served(u) \/ ToBeTold(u) => ToBeTold(u)'
  BY <1>1, <1>2, <1>4, <1>5 DEF ToBeTold, Served
<1>13. ServeInv'
  BY <1>11, <1>12 DEF ServeInv
<1>14. \A u \in Viewers : ~Served(u)'
  BY <1>1, <1>2, <1>4, <1>5 DEF Served, Usable
<1>15. PaintInv'
  BY <1>14 DEF PaintInv
<1> QED
  BY <1>7, <1>8, <1>9, <1>10, <1>13, <1>15

\* The viewers of a closed stream are told.
LEMMA CloseEventKeeps ==
  ASSUME IInv, NEW s \in Ids, CloseEvent(s)
  PROVE  IInv'
<1> USE DEF IInv
<1> DEFINE n == [streams[s] EXCEPT !.over = TRUE, !.viewers = {}]
           all == IF disposed THEN {} ELSE streams[s].viewers \cap online
<1>1. /\ streams[s].link # "none" /\ ~streams[s].up /\ ~streams[s].over
      /\ shared' = (IF shared = s THEN 0 ELSE shared)
      /\ told' = told \cup all /\ painted' = painted \ all
      /\ UNCHANGED <<known, disposed, calls, view, online, wish>>
  BY DEF CloseEvent
<1>2. streams' = [streams EXCEPT ![s] = n]
  BY DEF CloseEvent, TypeOK, Stream
<1>3. /\ n \in Stream /\ n.up = streams[s].up /\ n.link = streams[s].link
      /\ n.over = TRUE /\ n.viewers = {}
  BY DEF TypeOK, Stream
<1> HIDE DEF n
<1>4. /\ streams' \in [Ids -> Stream] /\ streams'[s] = n
      /\ \A t \in Ids \ {s} : streams'[t] = streams[t]
  BY <1>2, <1>3 DEF TypeOK
<1>5. \A t \in Ids : streams'[t].link = streams[t].link
  BY <1>3, <1>4
<1>6. ViewInv' /\ (\A u \in Viewers : Crossed(u)' <=> Crossed(u))
      /\ \A t \in Ids : Waiting(t)' = Waiting(t)
  BY <1>1, SameViewers
<1>7. TypeOK'
  <2>1. told' \subseteq Viewers /\ painted' \subseteq Viewers
    BY <1>1, StreamFields DEF TypeOK
  <2>2. shared' \in 0 .. Len(calls') /\ \A t \in Ids : shared' = t => shared = t
    BY <1>1 DEF TypeOK
  <2> QED
    BY <1>1, <1>4, <1>5, <2>1, <2>2 DEF TypeOK
<1>8. CallInv'
  BY <1>1, <1>5, Requests DEF CallInv
<1>9. StreamInv'
  BY <1>1, <1>3, <1>4, <1>6 DEF StreamInv
<1>10. ASSUME NEW u \in Viewers, Joined(u)'
       PROVE  Joined(u) /\ u \notin all /\ u \notin streams[s].viewers
  BY <1>1, <1>6, <1>10 DEF Joined, Relies
<1>11. \A u \in Viewers : u \notin streams[s].viewers /\ ToBeTold(u) => ToBeTold(u)'
  BY <1>4 DEF ToBeTold
<1>12. \A u \in Viewers : Served(u) <=> Served(u)'
  <2>1. CASE shared = s
    BY <1>1, <2>1 DEF Served, Usable
  <2>2. CASE shared # s
    <3>1. shared' = shared /\ (shared # 0 => streams'[shared] = streams[shared])
      BY <1>1, <1>4, <2>2, Requests DEF TypeOK
    <3> QED
      BY <3>1 DEF Served, Usable
  <2> QED
    BY <2>1, <2>2
<1>13. ServeInv'
  BY <1>10, <1>11, <1>12 DEF ServeInv
<1>14. ASSUME NEW u \in Viewers, Served(u)'
       PROVE  /\ shared' = shared /\ streams'[shared] = streams[shared]
              /\ Served(u)
  <2>1. shared # s /\ Served(u)
    BY <1>1, <1>12, <1>14 DEF Served, Usable
  <2> QED
    BY <1>1, <1>4, <2>1, Requests DEF Served, Usable, TypeOK
<1>15. PaintInv'
  <2> SUFFICES ASSUME NEW u \in Viewers, Joined(u)', calls'[wish'[u]].fresh,
                      Served(u)', ~ToBeTold(u)', streams'[shared'].link = "open"
      PROVE  streams'[shared'].due \/ u \in painted'
    BY DEF PaintInv
  <2>1. Joined(u) /\ u \notin all /\ ~ToBeTold(u)
    BY <1>10, <1>11
  <2>2. /\ shared' = shared /\ streams'[shared] = streams[shared] /\ Served(u)
    BY <1>14
  <2>3. streams[shared].due \/ u \in painted
    BY <1>1, <2>1, <2>2 DEF PaintInv
  <2> QED
    BY <1>1, <2>1, <2>2, <2>3
<1> QED
  BY <1>6, <1>7, <1>8, <1>9, <1>13, <1>15

\* A stream is connected: its requests await the frame that is due.
LEMMA ConnectKeeps ==
  ASSUME IInv, NEW s \in Ids, ConnectOk(s)
  PROVE  IInv'
<1> USE DEF IInv
<1> DEFINE n == [streams[s] EXCEPT !.link = "open", !.due = TRUE]
           framed(i) == [calls[i] EXCEPT !.at = "frame"]
           g(i) == IF i \in Waiting(s) THEN framed(i) ELSE calls[i]
<1>1. /\ streams[s].up /\ streams[s].link = "connecting" /\ ~disposed
      /\ calls' = [i \in DOMAIN calls |-> g(i)]
      /\ UNCHANGED <<known, disposed, shared, view, online, wish, told, painted>>
  BY DEF ConnectOk
<1>2. shared = s /\ ~streams[s].over
  BY <1>1, OneUp DEF StreamInv
<1>3. streams' = [streams EXCEPT ![s] = n]
  BY DEF ConnectOk, TypeOK, Stream
<1>4. /\ n \in Stream /\ n.up = streams[s].up /\ n.link = "open" /\ n.due = TRUE
      /\ n.over = streams[s].over /\ n.stray = streams[s].stray
      /\ n.viewers = streams[s].viewers
  BY DEF TypeOK, Stream
<1>5. \A i \in DOMAIN calls :
        /\ framed(i) \in Call /\ framed(i).viewer = calls[i].viewer
        /\ framed(i).fresh = calls[i].fresh /\ framed(i).at = "frame"
        /\ framed(i).of = calls[i].of
  BY Requests DEF Call, Pending
<1> HIDE DEF n, framed
<1>6. /\ streams' \in [Ids -> Stream] /\ streams'[s] = n
      /\ \A t \in Ids \ {s} : streams'[t] = streams[t]
  BY <1>3, <1>4 DEF TypeOK
<1>7. /\ DOMAIN calls = 1 .. Len(calls) /\ calls' \in [1 .. Len(calls) -> Call]
      /\ \A i \in DOMAIN calls : calls'[i] = g(i)
  BY <1>1, <1>5, Requests
<1>8. calls' \in Seq(Call) /\ Len(calls') = Len(calls) /\ DOMAIN calls' = DOMAIN calls
  BY <1>7, MapSeq, Requests
<1>9. \A i \in DOMAIN calls :
        /\ calls'[i].viewer = calls[i].viewer /\ calls'[i].fresh = calls[i].fresh
        /\ i \in Waiting(s) => calls'[i].at = "frame" /\ calls'[i].of = calls[i].of
                               /\ calls[i].at = "connecting"
        /\ i \notin Waiting(s) => calls'[i] = calls[i]
  BY <1>5, <1>7 DEF Waiting
<1>10. \A u \in Viewers : Crossed(u)' <=> Crossed(u)
  BY <1>8, <1>9 DEF Crossed
<1>11. TypeOK'
  BY <1>1, <1>2, <1>4, <1>6, <1>8 DEF TypeOK
<1>12. CallInv'
  <2> SUFFICES ASSUME NEW j \in DOMAIN calls
      PROVE  /\ calls'[j].at = "protocol" => ~calls'[j].fresh /\ streams'[j].link = "none"
             /\ calls'[j].at = "connecting" =>
                  calls'[j].of \in Ids /\ streams'[calls'[j].of].link = "connecting"
             /\ calls'[j].at = "frame" =>
                  /\ calls'[j].of \in Ids
                  /\ streams'[calls'[j].of].link \in {"open", "failed"}
    BY <1>8 DEF CallInv
  <2>1. CASE j \in Waiting(s)
    <3>1. calls'[j].at = "frame" /\ calls'[j].of = s
      BY <1>9, <2>1 DEF Waiting
    <3> QED
      BY <1>4, <1>6, <3>1
  <2>2. CASE j \notin Waiting(s)
    <3>1. calls'[j] = calls[j]
      BY <1>9, <2>2
    <3>2. calls[j].at = "connecting" => calls[j].of # s
      BY <2>2 DEF Waiting
    <3>3. j \in Ids
      BY Requests
    <3>4. \A t \in Ids : streams[t].link = "none" => streams'[t].link = "none"
      BY <1>1, <1>6
    <3>5. \A t \in Ids : streams[t].link \in {"open", "failed"}
            => streams'[t].link \in {"open", "failed"}
      BY <1>4, <1>6
    <3> QED
      BY <1>6, <3>1, <3>2, <3>3, <3>4, <3>5 DEF CallInv
  <2> QED
    BY <2>1, <2>2
<1>13. StreamInv'
  <2> SUFFICES ASSUME NEW t \in Ids PROVE StreamOk(t)'
    BY DEF StreamInv, StreamOk
  <2>1. StreamOk(t) /\ (streams[t].up => t = s)
    BY <1>2, OneUp DEF StreamInv, StreamOk
  <2>2. CASE t = s
    BY <1>1, <1>2, <1>4, <1>6, <1>8, <2>1, <2>2 DEF StreamOk
  <2>3. CASE t # s
    BY <1>1, <1>6, <1>8, <2>1, <2>3 DEF StreamOk
  <2> QED
    BY <2>2, <2>3
<1>14. \A u \in Viewers : wish[u] # 0 => wish[u] \in DOMAIN calls
  BY <1>7, Requests DEF TypeOK
<1>15. ViewInv'
  BY <1>1, <1>9, <1>10, <1>14 DEF ViewInv, Waiting
<1>16. \A u \in Viewers : Joined(u)' => Joined(u)
  BY <1>1, <1>9, <1>10, <1>14 DEF Joined, Relies
<1>17. \A u \in Viewers : (Served(u) => Served(u)') /\ (ToBeTold(u) => ToBeTold(u)')
  BY <1>1, <1>2, <1>4, <1>6 DEF Served, Usable, ToBeTold
<1>18. ServeInv'
  BY <1>16, <1>17 DEF ServeInv
<1>19. PaintInv'
  BY <1>1, <1>2, <1>4, <1>6 DEF PaintInv
<1> QED
  BY <1>11, <1>12, <1>13, <1>15, <1>18, <1>19

-----------------------------------------------------------------------------
(* Viewers that leave. *)

\* A stream that viewers V left, of which m is the one they left, is still as
\* the invariant has it.
LEMMA LeftStream ==
  ASSUME IInv, NEW V \in SUBSET Viewers, NEW m \in {0, shared}, NEW t \in Ids,
         LeftAs(streams'[t], streams[t], V, t = m), t = shared => t = m,
         streams'[t] \in Stream, shared' = MapAfter(V, m), view' = Forgotten(V),
         disposed' = disposed, Len(calls') = Len(calls),
         disposed => Waiting(t) \subseteq Waiting(t)'
  PROVE  StreamOk(t)'
<1>1. StreamOk(t) /\ streams[t] \in Stream
  BY DEF IInv, StreamInv, StreamOk, TypeOK
<1>2. \A v \in Viewers : view'[v] = IF v \in V THEN 0 ELSE view[v]
  BY DEF Forgotten
<1>3. streams[t].viewers \in SUBSET Viewers
  BY StreamFields DEF IInv
<1>4. CASE streams'[t].up = TRUE
  <2>1. streams[t].up = TRUE /\ t = shared /\ t = m
    BY <1>1, <1>4 DEF LeftAs, StreamOk
  <2>2. /\ streams'[t].viewers = streams[t].viewers \ V
        /\ streams'[t].viewers # {} /\ streams'[t].stray = streams[t].stray
        /\ streams'[t].link = streams[t].link /\ streams'[t].over = streams[t].over
    BY <1>4, <2>1 DEF LeftAs
  <2>3. shared' = t
    BY <2>1, <2>2 DEF MapAfter
  <2> QED
    BY <1>1, <1>2, <1>3, <1>4, <2>1, <2>2, <2>3 DEF StreamOk
<1>5. CASE streams'[t].up = FALSE
  <2>1. streams'[t].link = streams[t].link
    BY DEF LeftAs
  <2>2. streams[t].link = "none" => streams'[t].viewers = {}
    BY <1>1 DEF LeftAs, StreamOk
  <2> QED
    BY <1>1, <1>5, <2>1, <2>2 DEF StreamOk
<1> QED
  BY <1>4, <1>5 DEF Stream

\* A viewer that does not leave stays served or is told, and its stream still
\* owes it the frame.
LEMMA StaysServed ==
  ASSUME IInv, NEW V \in SUBSET Viewers, NEW u \in Viewers, u \notin V,
         Left(V, shared), shared' = MapAfter(V, shared)
  PROVE  /\ Served(u) => Served(u)'
         /\ ToBeTold(u) => ToBeTold(u)'
         /\ Served(u)' => /\ Served(u) /\ shared' = shared
                          /\ streams'[shared].link = streams[shared].link
                          /\ streams'[shared].due = streams[shared].due
<1> USE DEF IInv
<1>1. /\ \A t \in Ids : /\ streams'[t] \in Stream /\ streams[t] \in Stream
                        /\ LeftAs(streams'[t], streams[t], V, t = shared)
      /\ shared # 0 => shared \in Ids
  BY Requests DEF Left, TypeOK
<1>2. ASSUME Served(u) PROVE Served(u)'
  <2>1. shared \in Ids /\ u \in streams[shared].viewers /\ streams[shared].up
    BY <1>1, <1>2 DEF Served, Usable
  <2>2. u \in streams'[shared].viewers
    BY <1>1, <2>1 DEF LeftAs
  <2>3. streams'[shared].up = streams[shared].up
    BY <1>1, <2>1, <2>2 DEF LeftAs
  <2>4. ~(streams[shared].viewers \subseteq V) /\ shared' = shared
    BY <2>1 DEF MapAfter
  <2>5. streams'[shared].up = TRUE /\ shared # 0
    BY <2>1, <2>3, StreamFields
  <2>6. Usable(shared)'
    BY <2>4, <2>5 DEF Usable
  <2> QED
    BY <2>2, <2>4, <2>6 DEF Served
<1>3. ASSUME ToBeTold(u) PROVE ToBeTold(u)'
  <2>1. PICK t \in Ids : u \in streams[t].viewers /\ ~streams[t].up /\ ~streams[t].over
    BY <1>3 DEF ToBeTold
  <2>2. u \in streams'[t].viewers
    BY <1>1, <2>1 DEF LeftAs
  <2>3. streams'[t].up = streams[t].up /\ streams'[t].over = streams[t].over
    BY <1>1, <2>2 DEF LeftAs
  <2> QED
    BY <2>1, <2>2, <2>3 DEF ToBeTold
<1>4. ASSUME Served(u)'
      PROVE  /\ Served(u) /\ shared' = shared
             /\ streams'[shared].link = streams[shared].link
             /\ streams'[shared].due = streams[shared].due
  <2>1. shared' = shared /\ shared \in Ids
    BY <1>1, <1>4 DEF Served, Usable, MapAfter
  <2>2. streams'[shared].up = TRUE /\ u \in streams'[shared].viewers
    BY <1>1, <1>4, <2>1 DEF Served, Usable, Stream
  <2>3. /\ streams[shared].up = TRUE /\ streams'[shared].due = streams[shared].due
        /\ streams'[shared].link = streams[shared].link
        /\ u \in streams[shared].viewers
    BY <1>1, <2>1, <2>2 DEF LeftAs
  <2> QED
    BY <2>1, <2>3 DEF Served, Usable
<1> QED
  BY <1>2, <1>3, <1>4

\* A viewer leaves by itself, with or without its socket.
LEMMA DepartureKeeps ==
  ASSUME IInv, NEW v \in Viewers, ~disposed, Leave({v}), Forgets(v),
         online' \subseteq online, \A u \in Viewers : u # v => (u \in online' <=> u \in online),
         UNCHANGED <<known, disposed, calls>>
  PROVE  IInv'
<1> USE DEF IInv
<1> DEFINE V == {v}
<1>1. /\ streams' = Detached(V, shared) /\ shared' = MapAfter(V, shared)
      /\ view' = Forgotten(V) /\ wish' = [wish EXCEPT ![v] = 0]
      /\ told' = told \ V /\ painted' = painted \ V
  BY DEF Leave, Forgets
<1>2. V \in SUBSET Viewers /\ shared \in 0 .. MaxAttach
  BY Requests DEF TypeOK
<1> HIDE DEF V
<1>3. Left(V, shared)
  BY <1>1, <1>2, LeftMoves
<1>4. \A t \in Ids : streams'[t] \in Stream /\ streams'[t].link = streams[t].link
  BY <1>3 DEF Left, LeftAs
<1>5. /\ \A u \in Viewers : /\ view'[u] = IF u \in V THEN 0 ELSE view[u]
                            /\ wish'[u] = IF u \in V THEN 0 ELSE wish[u]
      /\ view' \in [Viewers -> 0 .. Len(calls)]
      /\ wish' \in [Viewers -> 0 .. Len(calls)]
  BY <1>1, Requests DEF Forgotten, TypeOK, V
<1>6. TypeOK'
  <2>1. shared' \in {0, shared}
    BY <1>1 DEF MapAfter
  <2>2. \A t \in Ids : shared' = t => streams'[t].link # "none"
    BY <1>4, <2>1 DEF TypeOK
  <2> QED
    BY <1>1, <1>3, <1>5, <2>1, <2>2 DEF TypeOK, Left
<1>7. CallInv'
  BY <1>4, Requests DEF CallInv
<1>8. StreamInv'
  <2> SUFFICES ASSUME NEW t \in Ids PROVE StreamOk(t)'
    BY DEF StreamInv, StreamOk
  <2>1. LeftAs(streams'[t], streams[t], V, t = shared)
    BY <1>3 DEF Left
  <2> QED
    BY <1>1, <1>2, <1>4, <2>1, LeftStream
<1>9. \A u \in Viewers : Crossed(u)' <=> Crossed(u)
  BY DEF Crossed
<1>10. ViewInv'
  BY <1>5, <1>9 DEF ViewInv
<1>11. ASSUME NEW u \in Viewers, Joined(u)'
       PROVE  Joined(u) /\ u \notin V /\ wish'[u] = wish[u]
              /\ (u \in painted' <=> u \in painted)
  <2>1. u \notin V
    BY <1>5, <1>11 DEF Joined, Relies
  <2> QED
    BY <1>1, <1>5, <1>9, <1>11, <2>1 DEF Joined, Relies, V
<1>12. ServeInv'
  BY <1>1, <1>2, <1>3, <1>11, StaysServed DEF ServeInv
<1>13. PaintInv'
  <2> SUFFICES ASSUME NEW u \in Viewers, Joined(u)', calls'[wish'[u]].fresh,
                      Served(u)', ~ToBeTold(u)', streams'[shared'].link = "open"
      PROVE  streams'[shared'].due \/ u \in painted'
    BY DEF PaintInv
  <2>1. /\ Served(u) /\ ~ToBeTold(u) /\ shared' = shared
        /\ streams[shared].link = "open"
        /\ streams'[shared].due = streams[shared].due
    BY <1>1, <1>2, <1>3, <1>11, StaysServed
  <2>2. Joined(u) /\ calls[wish[u]].fresh
    BY <1>11
  <2>3. streams[shared].due \/ u \in painted
    BY <2>1, <2>2 DEF PaintInv
  <2> QED
    BY <1>11, <2>1, <2>3
<1> QED
  BY <1>6, <1>7, <1>8, <1>10, <1>12, <1>13

\* A socket closes that does not view the terminal.
LEMMA GoneKeeps ==
  ASSUME IInv, NEW v \in Viewers, ~disposed, view[v] = 0, Forgets(v),
         online' = online \ {v},
         UNCHANGED <<known, disposed, calls, streams, shared, view>>
  PROVE  IInv'
<1> USE DEF IInv
<1>1. /\ wish' = [wish EXCEPT ![v] = 0] /\ told' = told \ {v}
      /\ painted' = painted \ {v}
  BY DEF Forgets
<1>2. /\ TypeOK' /\ CallInv'
  BY <1>1, Requests DEF TypeOK, CallInv
<1>3. StreamInv'
  BY DEF StreamInv, Waiting
<1>4. \A u \in Viewers : Crossed(u)' <=> Crossed(u)
  BY DEF Crossed
<1>5. \A u \in Viewers : wish'[u] = IF u = v THEN 0 ELSE wish[u]
  BY <1>1 DEF TypeOK
<1>6. ViewInv'
  BY <1>4, <1>5 DEF ViewInv
<1>7. ASSUME NEW u \in Viewers, Joined(u)'
      PROVE  Joined(u) /\ u # v /\ wish'[u] = wish[u]
  BY <1>1, <1>4, <1>5, <1>7 DEF Joined, Relies
<1>8. ServeInv'
  BY <1>7, SameStreams DEF ServeInv
<1>9. PaintInv'
  BY <1>1, <1>7, SameStreams DEF PaintInv
<1> QED
  BY <1>2, <1>3, <1>6, <1>8, <1>9

\* The bridge is disposed: the stream of the map is closed.
LEMMA DisposeKeeps ==
  ASSUME IInv, Dispose
  PROVE  IInv'
<1> USE DEF IInv
<1>1. /\ disposed' = TRUE /\ shared' = 0 /\ view' = Forgotten(Viewers)
      /\ wish' = Forgotten(Viewers) /\ told' = {} /\ painted' = {}
      /\ UNCHANGED <<known, calls, online>>
  BY DEF Dispose
<1>2. ASSUME NEW t \in Ids
      PROVE  /\ streams'[t] \in Stream /\ streams'[t].up = FALSE
             /\ streams'[t].link = streams[t].link
             /\ streams'[t].viewers = streams[t].viewers
  <2>1. CASE t = shared
    <3>1. streams'[t] = Closed(streams[t])
      BY <2>1 DEF Dispose, TypeOK
    <3> QED
      BY <3>1, StreamFields, ClosedFields
  <2>2. CASE t # shared
    <3>1. streams'[t] = streams[t]
      BY <2>2 DEF Dispose, TypeOK
    <3>2. ~streams[t].up
      BY <2>2, OneUp
    <3> QED
      BY <3>1, <3>2, StreamFields
  <2> QED
    BY <2>1, <2>2
<1>3. DOMAIN streams' = Ids /\ streams' = [t \in Ids |-> streams'[t]]
  BY DEF Dispose, TypeOK
<1>4. streams' \in [Ids -> Stream]
  BY <1>2, <1>3
<1>5. \A u \in Viewers : view'[u] = 0 /\ wish'[u] = 0
  BY <1>1 DEF Forgotten
<1>6. view' \in [Viewers -> 0 .. Len(calls)] /\ wish' \in [Viewers -> 0 .. Len(calls)]
  BY <1>1, Requests DEF Forgotten
<1>7. TypeOK'
  BY <1>1, <1>4, <1>6, Requests DEF TypeOK
<1>8. CallInv'
  <2>1. \A t \in Ids : streams'[t].link = streams[t].link
    BY <1>2
  <2> QED
    BY <1>1, <2>1, Requests DEF CallInv
<1>9. StreamInv'
  BY <1>1, <1>2 DEF StreamInv
<1>10. ViewInv' /\ ServeInv' /\ PaintInv'
  BY <1>1, <1>5 DEF ViewInv, ServeInv, PaintInv, Joined, Relies
<1> QED
  BY <1>7, <1>8, <1>9, <1>10

-----------------------------------------------------------------------------
(* Failures. *)

\* A connection fails, and with it every request that awaits it.
LEMMA ConnectFailKeeps ==
  ASSUME IInv, NEW s \in Ids, ConnectFails(s)
  PROVE  IInv'
<1> USE DEF IInv
<1> DEFINE V == {calls[i].viewer : i \in Waiting(s)}
           m == IF shared = s THEN 0 ELSE shared
<1>1. /\ streams[s].link = "connecting" /\ AfterFailure(s, V, m)
      /\ shared' = MapAfter(V, m) /\ view' = Forgotten(V)
      /\ UNCHANGED <<known, disposed, online, wish, told, painted>>
  BY DEF ConnectFails, AfterFailure
<1>2. /\ V \in SUBSET Viewers /\ m \in 0 .. MaxAttach /\ m # s
      /\ m \in {0, shared} /\ (shared # s => m = shared) /\ (shared = s => m = 0)
  <2>1. \A i \in Waiting(s) : calls[i].viewer \in Viewers
    BY Requests, CallFields DEF Waiting
  <2> QED
    BY <2>1, Requests DEF TypeOK
<1>3. \A i \in Waiting(s) : calls[i].viewer \in V
  OBVIOUS
<1>4. \A u \in V : \E i \in Waiting(s) : calls[i].viewer = u
  OBVIOUS
<1> HIDE DEF V, m
<1>5. Failed(s, V, m)
  BY <1>1, <1>2, FailureMoves
<1>6. \A t \in Ids : streams'[t] \in Stream
  BY <1>5 DEF Failed
<1>7. \A t \in Ids \ {s} : /\ LeftAs(streams'[t], streams[t], V, t = m)
                           /\ streams'[t].link = streams[t].link
  BY <1>5 DEF Failed, LeftAs
<1>8. /\ Len(calls') = Len(calls) /\ DOMAIN calls' = DOMAIN calls
      /\ calls' \in Seq(Call) /\ DOMAIN calls = 1 .. Len(calls)
  BY <1>5, Requests, LenProperties DEF Failed
<1>9. \A i \in DOMAIN calls :
        /\ calls'[i].viewer = calls[i].viewer
        /\ i \notin Waiting(s) => calls'[i] = calls[i]
        /\ i \in Waiting(s) => calls'[i].at \in {"failed", "late"}
  BY <1>5 DEF Failed
<1>10. /\ \A u \in Viewers : view'[u] = IF u \in V THEN 0 ELSE view[u]
       /\ view' \in [Viewers -> 0 .. Len(calls)]
  BY <1>1, Requests DEF Forgotten, TypeOK
<1>11. TypeOK'
  <2>1. shared' \in {0, m}
    BY <1>1 DEF MapAfter
  <2>2. \A t \in Ids : shared' = t => streams'[t].link # "none"
    BY <1>2, <1>7, <2>1 DEF TypeOK
  <2>3. streams' \in [Ids -> Stream]
    BY <1>5 DEF Failed
  <2> QED
    BY <1>1, <1>2, <1>8, <1>10, <2>1, <2>2, <2>3 DEF TypeOK
<1>12. CallInv'
  <2> SUFFICES ASSUME NEW j \in DOMAIN calls
      PROVE  /\ calls'[j].at = "protocol" => ~calls'[j].fresh /\ streams'[j].link = "none"
             /\ calls'[j].at = "connecting" =>
                  calls'[j].of \in Ids /\ streams'[calls'[j].of].link = "connecting"
             /\ calls'[j].at = "frame" =>
                  /\ calls'[j].of \in Ids
                  /\ streams'[calls'[j].of].link \in {"open", "failed"}
    BY <1>8 DEF CallInv
  <2>1. CASE j \in Waiting(s)
    BY <1>9, <2>1
  <2>2. CASE j \notin Waiting(s)
    <3>1. calls'[j] = calls[j] /\ j \in Ids
      BY <1>9, <2>2, Requests
    <3>2. calls[j].at = "connecting" => calls[j].of # s
      BY <2>2 DEF Waiting
    <3>3. calls[j].at = "protocol" => j # s
      BY <1>1 DEF CallInv
    <3>4. streams'[s].link = "failed"
      BY <1>5 DEF Failed
    <3> QED
      BY <1>7, <3>1, <3>2, <3>3, <3>4 DEF CallInv
  <2> QED
    BY <2>1, <2>2
<1>13. StreamInv'
  <2> SUFFICES ASSUME NEW t \in Ids PROVE StreamOk(t)'
    BY DEF StreamInv, StreamOk
  <2>1. CASE t = s
    <3>1. streams'[s].up = FALSE /\ streams'[s].link = "failed"
      BY <1>5 DEF Failed
    <3>2. s <= Len(calls')
      BY <1>1, <1>8 DEF StreamInv
    <3> QED
      BY <2>1, <3>1, <3>2 DEF StreamOk
  <2>2. CASE t # s
    <3>1. Waiting(t) \subseteq Waiting(t)'
      <4> SUFFICES ASSUME NEW i \in Waiting(t) PROVE i \in Waiting(t)'
        OBVIOUS
      <4>1. i \in DOMAIN calls /\ i \notin Waiting(s)
        BY <2>2 DEF Waiting
      <4>2. calls'[i] = calls[i]
        BY <1>9, <4>1
      <4> QED
        BY <1>8, <4>1, <4>2 DEF Waiting
    <3>2. t = shared => t = m
      BY <1>2, <2>2
    <3> QED
      BY <1>1, <1>2, <1>6, <1>7, <1>8, <2>2, <3>1, <3>2, LeftStream
  <2> QED
    BY <2>1, <2>2
<1>14. \A u \in Viewers : Crossed(u) => Crossed(u)'
  BY <1>8, <1>9 DEF Crossed, Waiting
<1>15. \A u \in Viewers : wish[u] # 0 => wish[u] \in DOMAIN calls
  BY <1>8 DEF TypeOK
<1>16. ViewInv'
  <2> SUFFICES ASSUME NEW u \in Viewers
      PROVE  /\ disposed' => wish'[u] = 0
             /\ wish'[u] # 0 => calls'[wish'[u]].viewer = u
             /\ view'[u] \in {0, wish'[u]}
             /\ view'[u] = 0 /\ wish'[u] # 0 =>
                  calls'[wish'[u]].at = "failed" \/ Crossed(u)'
    BY DEF ViewInv
  <2>1. /\ disposed' => wish'[u] = 0
        /\ wish'[u] # 0 => calls'[wish'[u]].viewer = u
        /\ view'[u] \in {0, wish'[u]}
    BY <1>1, <1>9, <1>10, <1>15 DEF ViewInv
  <2>2. ASSUME view'[u] = 0, wish[u] # 0
        PROVE  calls'[wish[u]].at = "failed" \/ Crossed(u)'
    <3>1. CASE view[u] = 0
      <4>1. calls[wish[u]].at = "failed" \/ Crossed(u)
        BY <2>2, <3>1 DEF ViewInv
      <4>2. calls[wish[u]].at = "failed" => calls'[wish[u]].at = "failed"
        BY <1>9, <1>15, <2>2 DEF Waiting
      <4> QED
        BY <1>14, <4>1, <4>2
    <3>2. CASE view[u] # 0
      <4>1. u \in V /\ view[u] = wish[u]
        BY <1>10, <2>2, <3>2 DEF ViewInv
      <4>2. PICK i \in Waiting(s) : calls[i].viewer = u
        BY <1>4, <4>1
      <4>3. i \in DOMAIN calls
        BY <4>2 DEF Waiting
      <4>4. CASE wish[u] \in Waiting(s)
        <5>1. calls[wish[u]].viewer = u
          BY <2>2 DEF ViewInv
        <5>2. calls'[wish[u]].at = "failed"
          BY <1>5, <1>15, <2>2, <4>1, <4>4, <5>1 DEF Failed
        <5> QED
          BY <5>2
      <4>5. CASE wish[u] \notin Waiting(s)
        <5>1. calls'[i].at = "late" /\ calls'[i].viewer = u
          BY <1>5, <3>2, <4>1, <4>2, <4>3, <4>5 DEF Failed
        <5> QED
          BY <1>8, <4>3, <5>1 DEF Crossed
      <4> QED
        BY <4>4, <4>5
    <3> QED
      BY <3>1, <3>2
  <2> QED
    BY <1>1, <2>1, <2>2
<1>17. ASSUME NEW u \in Viewers, Joined(u)'
       PROVE  Joined(u) /\ u \notin V /\ calls'[wish[u]] = calls[wish[u]]
  <2>1. wish[u] # 0 /\ wish[u] \in DOMAIN calls /\ Relies(u) /\ ~Crossed(u)'
    BY <1>1, <1>15, <1>17 DEF Joined, Relies
  <2>2. calls'[wish[u]].at \in {"connecting", "frame", "ok"}
    BY <1>1, <1>17 DEF Joined
  <2>3. calls'[wish[u]] = calls[wish[u]]
    BY <1>9, <2>1, <2>2
  <2>4. view'[u] # 0
    BY <1>1, <1>16, <2>1, <2>2 DEF ViewInv
  <2> QED
    BY <1>10, <1>14, <2>1, <2>2, <2>3, <2>4 DEF Joined
<1>18. ASSUME NEW u \in Viewers, u \notin V, ToBeTold(u)
       PROVE  ToBeTold(u)'
  <2>1. PICK t \in Ids : u \in streams[t].viewers /\ ~streams[t].up /\ ~streams[t].over
    BY <1>18 DEF ToBeTold
  <2>2. CASE t = s
    BY <1>5, <2>1, <2>2 DEF ToBeTold, Failed
  <2>3. CASE t # s
    <3>1. u \in streams'[t].viewers
      BY <1>7, <1>18, <2>1, <2>3 DEF LeftAs
    <3>2. streams'[t].up = streams[t].up /\ streams'[t].over = streams[t].over
      BY <1>7, <2>3, <3>1 DEF LeftAs
    <3> QED
      BY <2>1, <3>1, <3>2 DEF ToBeTold
  <2> QED
    BY <2>2, <2>3
<1>19. ASSUME NEW u \in Viewers, u \notin V, Served(u)
       PROVE  Served(u)' \/ ToBeTold(u)'
  <2>1. shared \in Ids /\ u \in streams[shared].viewers /\ streams[shared].up
    BY <1>19, Requests DEF Served, Usable, TypeOK
  <2>2. CASE shared = s
    <3>1. ~streams[s].over
      BY <2>1, <2>2 DEF StreamInv
    <3> QED
      BY <1>5, <2>1, <2>2, <3>1 DEF ToBeTold, Failed
  <2>3. CASE shared # s
    <3>1. m = shared /\ u \in streams'[shared].viewers
      BY <1>2, <1>7, <1>19, <2>1, <2>3 DEF LeftAs
    <3>2. streams'[shared].up = streams[shared].up
      BY <1>7, <2>1, <2>3, <3>1 DEF LeftAs
    <3>3. ~(streams[shared].viewers \subseteq V)
      BY <1>19, <2>1
    <3>4. shared' = shared
      BY <1>1, <3>1, <3>3 DEF MapAfter
    <3>5. streams'[shared].up = TRUE /\ shared # 0
      BY <2>1, <3>2, StreamFields
    <3>6. Usable(shared)'
      BY <3>4, <3>5 DEF Usable
    <3> QED
      BY <3>1, <3>4, <3>6 DEF Served
  <2> QED
    BY <2>2, <2>3
<1>20. ServeInv'
  BY <1>17, <1>18, <1>19 DEF ServeInv
<1>21. PaintInv'
  <2> SUFFICES ASSUME NEW u \in Viewers, Joined(u)', calls'[wish'[u]].fresh,
                      Served(u)', ~ToBeTold(u)', streams'[shared'].link = "open"
      PROVE  streams'[shared'].due \/ u \in painted'
    BY DEF PaintInv
  <2>1. Joined(u) /\ calls[wish[u]].fresh /\ u \notin V
    BY <1>1, <1>17
  <2>2. shared' = m /\ m = shared /\ shared # s /\ shared \in Ids
    BY <1>1, <1>2, Requests DEF Served, Usable, MapAfter, TypeOK
  <2>3. ~ToBeTold(u)
    BY <1>18, <2>1
  <2>4. streams'[shared].up = TRUE
    <3>1. Usable(shared)'
      BY DEF Served
    <3> QED
      BY <1>6, <2>2, <3>1 DEF Usable, Stream
  <2>5. /\ streams[shared].up = TRUE /\ streams'[shared].due = streams[shared].due
        /\ streams'[shared].link = streams[shared].link
        /\ streams'[shared].viewers = streams[shared].viewers \ V
    BY <1>7, <2>2, <2>4 DEF LeftAs
  <2>6. Served(u)
    <3>1. u \in streams[shared].viewers
      BY <2>2, <2>5 DEF Served
    <3> QED
      BY <2>2, <2>5, <3>1 DEF Served, Usable
  <2>7. streams[shared].due \/ u \in painted
    BY <2>1, <2>2, <2>3, <2>5, <2>6 DEF PaintInv
  <2> QED
    BY <1>1, <2>2, <2>5, <2>7
<1> QED
  BY <1>11, <1>12, <1>13, <1>16, <1>20, <1>21

\* A request that finds the bridge disposed closes the stream it joined.
LEMMA LateAnswerKeeps ==
  ASSUME IInv, NEW i \in DOMAIN calls, Answer(i), disposed
  PROVE  IInv'
<1> USE DEF IInv
<1> DEFINE V == {calls[i].viewer}
           d == Detached(V, shared)
           s == calls[i].of
<1>1. /\ calls[i].at = "frame" /\ streams' = [d EXCEPT ![s] = Closed(@)]
      /\ shared' = MapAfter(V, shared) /\ view' = Forgotten(V)
      /\ calls' = [calls EXCEPT ![i] = End(@, "failed")]
      /\ UNCHANGED <<known, disposed, online, wish, told, painted>>
  BY DEF Answer
<1>2. V \in SUBSET Viewers /\ shared \in 0 .. MaxAttach /\ s \in Ids
  BY <1>1, Requests, CallFields DEF TypeOK, CallInv
<1>3. /\ d \in [Ids -> Stream]
      /\ \A t \in Ids : LeftAs(d[t], streams[t], V, t = shared)
  BY <1>2, DetachedFields
<1> HIDE DEF V, d, s
<1>4. EndsAs(i, "failed")
  BY <1>1, EndMoves DEF Ended
<1>5. /\ DOMAIN calls' = DOMAIN calls /\ DOMAIN calls = 1 .. Len(calls)
      /\ Len(calls') = Len(calls)
  BY <1>4, Requests, LenProperties DEF EndsAs
<1>6. PICK c \in Stream : c = Closed(d[s])
  BY <1>2, <1>3, ClosedFields
<1>7. c.up = FALSE /\ c.link = d[s].link /\ c.viewers = d[s].viewers
      /\ c.over = d[s].over
  BY <1>2, <1>3, <1>6, ClosedFields
<1>8. /\ streams' \in [Ids -> Stream] /\ streams'[s] = c
      /\ \A t \in Ids \ {s} : streams'[t] = d[t]
  BY <1>1, <1>2, <1>3, <1>6
<1>9. \A t \in Ids : streams'[t].link = streams[t].link
  BY <1>3, <1>7, <1>8 DEF LeftAs
<1>10. \A u \in Viewers : view'[u] \in {0, view[u]}
  BY <1>1 DEF Forgotten
<1>11. TypeOK'
  <2>1. shared' \in {0, shared}
    BY <1>1 DEF MapAfter
  <2>2. view' \in [Viewers -> 0 .. Len(calls)]
    BY <1>1, Requests DEF Forgotten, TypeOK
  <2> QED
    BY <1>1, <1>4, <1>5, <1>8, <1>9, <2>1, <2>2 DEF TypeOK, EndsAs
<1>12. CallInv'
  <2> SUFFICES ASSUME NEW j \in DOMAIN calls
      PROVE  /\ calls'[j].at = "protocol" => ~calls'[j].fresh /\ streams'[j].link = "none"
             /\ calls'[j].at = "connecting" =>
                  calls'[j].of \in Ids /\ streams'[calls'[j].of].link = "connecting"
             /\ calls'[j].at = "frame" =>
                  /\ calls'[j].of \in Ids
                  /\ streams'[calls'[j].of].link \in {"open", "failed"}
    BY <1>5 DEF CallInv
  <2>1. CASE j = i
    BY <1>4, <2>1 DEF EndsAs
  <2>2. CASE j # i
    <3>1. calls'[j] = calls[j] /\ j \in Ids
      BY <1>4, <2>2, Requests DEF EndsAs
    <3> QED
      BY <1>9, <3>1 DEF CallInv
  <2> QED
    BY <2>1, <2>2
<1>13. StreamInv'
  <2> SUFFICES ASSUME NEW t \in Ids PROVE StreamOk(t)'
    BY DEF StreamInv, StreamOk
  <2>1. Waiting(t) \subseteq Waiting(t)'
    BY <1>1, <1>4, <1>5 DEF EndsAs, Waiting
  <2>2. CASE t = s
    <3>1. streams'[t].up = FALSE /\ streams'[t].link = d[s].link
          /\ streams'[t].viewers = d[s].viewers
      BY <1>7, <1>8, <2>2
    <3>2. d[s].link = streams[s].link
      BY <1>2, <1>3 DEF LeftAs
    <3>3. streams[s].link = "none" => d[s].viewers = {}
      BY <1>2, <1>3 DEF LeftAs, StreamInv
    <3> QED
      BY <1>5, <2>2, <3>1, <3>2, <3>3 DEF StreamOk, StreamInv
  <2>3. CASE t # s
    <3>1. LeftAs(streams'[t], streams[t], V, t = shared)
      BY <1>3, <1>8, <2>3
    <3>2. streams'[t] \in Stream
      BY <1>8
    <3> QED
      BY <1>1, <1>2, <1>5, <2>1, <3>1, <3>2, LeftStream
  <2> QED
    BY <2>2, <2>3
<1>14. \A u \in Viewers : wish'[u] = 0
  BY <1>1 DEF ViewInv
<1>15. ViewInv'
  <2>1. \A u \in Viewers : view[u] = 0
    BY DEF ViewInv
  <2> QED
    BY <1>10, <1>14, <2>1 DEF ViewInv
<1>16. ServeInv' /\ PaintInv'
  BY <1>14 DEF ServeInv, PaintInv, Joined, Relies
<1> QED
  BY <1>11, <1>12, <1>13, <1>15, <1>16

-----------------------------------------------------------------------------
(* The steps together. *)

\* A request joins, and says nothing of viewers but its own.
AsksToJoin(i, cs) ==
  /\ Joins(i, cs)
  /\ \A u \in Viewers : \/ Anew(u, i, cs)
                        \/ Same(u) /\ (wish[u] = i => i \in DOMAIN calls)

\* An attach joins at once when the protocol is known.
LEMMA AttachJoins ==
  ASSUME IInv, NEW v \in Viewers, Attach(v), known
  PROVE  \E cs \in Seq(Call) : \E i \in 1 .. Len(cs) : AsksToJoin(i, cs)
<1> USE DEF IInv
<1> DEFINE i == Len(calls) + 1
           c == [viewer |-> v, at |-> "protocol", of |-> 0,
                 refresh |-> Refresh(v), fresh |-> known /\ view[v] = 0]
<1>1. /\ v \in online /\ ~disposed /\ i <= MaxAttach
      /\ view' = [view EXCEPT ![v] = i] /\ wish' = [wish EXCEPT ![v] = i]
      /\ told' = told \ {v}
      /\ painted' = (IF view[v] = 0 THEN painted \ {v} ELSE painted)
      /\ Join(i, Append(calls, c))
      /\ UNCHANGED <<known, disposed, online>>
  BY DEF Attach
<1>2. /\ c \in Call /\ c.viewer = v /\ c.at = "protocol"
      /\ c.refresh = Refresh(v)
      /\ c.fresh => view[v] = 0
  <2>1. Refresh(v) \in BOOLEAN
    BY DEF Refresh, Usable, TypeOK
  <2>2. PICK r \in BOOLEAN : r = Refresh(v)
    BY <2>1
  <2>3. PICK f \in BOOLEAN : f = (known /\ view[v] = 0)
    OBVIOUS
  <2>4. f => view[v] = 0
    BY <2>3
  <2>5. c = [viewer |-> v, at |-> "protocol", of |-> 0, refresh |-> r, fresh |-> f]
    BY <2>2, <2>3, Zenon
  <2> HIDE DEF c
  <2>6. c \in Call /\ c.viewer = v /\ c.at = "protocol" /\ c.refresh = r /\ c.fresh = f
    BY <2>5 DEF Call, Pending
  <2>7. c.refresh = Refresh(v)
    BY <2>2, <2>6, Zenon
  <2>8. c.fresh => view[v] = 0
    BY <2>4, <2>6, Zenon
  <2> QED
    BY <2>6, <2>7, <2>8, Zenon
<1> HIDE DEF c
<1>3. PICK cs : cs = Append(calls, c)
  OBVIOUS
<1>4. /\ Len(calls) \in Nat /\ DOMAIN calls = 1 .. Len(calls) /\ i \in Ids
      /\ cs \in Seq(Call) /\ Len(cs) = i /\ cs[i] = c
      /\ \A j \in DOMAIN calls : cs[j] = calls[j]
  BY <1>1, <1>2, <1>3, Requests, AppendProperties, LenProperties DEF TypeOK
<1>5. streams[i].link = "none"
  BY <1>4 DEF StreamInv
<1>6. Joins(i, cs)
  <2>1. /\ view' \in [Viewers -> 0 .. i] /\ wish' \in [Viewers -> 0 .. i]
        /\ told' \subseteq Viewers /\ painted' \subseteq Viewers
    BY <1>1, <1>4 DEF TypeOK
  <2>2. known' \in BOOLEAN /\ Join(i, cs)
    BY <1>1, <1>3, Zenon DEF TypeOK
  <2> QED
    BY <1>1, <1>2, <1>4, <1>5, <2>1, <2>2 DEF Joins
<1>7. ASSUME NEW u \in Viewers
      PROVE  Anew(u, i, cs) \/ (Same(u) /\ (wish[u] = i => i \in DOMAIN calls))
  <2>1. CASE u = v
    <3>1. view'[u] = i /\ wish'[u] = i /\ u \notin told' /\ i \notin DOMAIN calls
      BY <1>1, <1>4, <2>1 DEF TypeOK
    <3>2. u = cs[i].viewer
      BY <1>2, <1>4, <2>1
    <3>3. cs[i].fresh => cs[i].refresh = Refresh(u) /\ view[u] = 0
      <4>1. cs[i] = c /\ u = v
        BY <1>4, <2>1
      <4> QED
        BY <1>2, <4>1
    <3> QED
      BY <1>1, <2>1, <3>1, <3>2, <3>3, Zenon DEF Anew
  <2>2. CASE u # v
    BY <1>1, <1>4, <2>2 DEF Same, TypeOK
  <2> QED
    BY <2>1, <2>2
<1> HIDE DEF i
<1>8. i \in 1 .. Len(cs)
  BY <1>4
<1>9. AsksToJoin(i, cs)
  BY <1>6, <1>7 DEF AsksToJoin
<1> QED
  BY <1>4, <1>8, <1>9

\* A viewer attaches while the protocol is known.
LEMMA AttachKeeps ==
  ASSUME IInv, NEW v \in Viewers, Attach(v), known
  PROVE  IInv'
BY AttachJoins, JoinKeeps DEF AsksToJoin

\* The protocol is answered and the request joins.
LEMMA ProtocolJoins ==
  ASSUME IInv, NEW i \in DOMAIN calls, ProtocolAnswers(i)
  PROVE  \E cs \in Seq(Call) : \E j \in 1 .. Len(cs) : AsksToJoin(j, cs)
<1> USE DEF IInv
<1>1. /\ calls[i].at = "protocol" /\ known' = TRUE /\ Join(i, calls)
      /\ UNCHANGED <<disposed, online, wish, told, view, painted>>
  BY DEF ProtocolAnswers
<1>2. PICK cs \in Seq(Call) : cs = calls
  BY DEF TypeOK
<1>3. i \in 1 .. Len(cs) /\ Len(cs) <= MaxAttach
  BY <1>2, Requests
<1>4. Joins(i, cs)
  <2>1. streams[i].link = "none"
    BY <1>1 DEF CallInv
  <2>2. Join(i, cs)
    BY <1>1, <1>2, Zenon
  <2>3. known' \in BOOLEAN
    BY <1>1
  <2>4. /\ view' \in [Viewers -> 0 .. Len(cs)] /\ wish' \in [Viewers -> 0 .. Len(cs)]
        /\ told' \subseteq Viewers /\ painted' \subseteq Viewers
    BY <1>1, <1>2 DEF TypeOK
  <2>5. \A j \in 1 .. Len(cs) : j \notin DOMAIN calls => j = i
    BY <1>2, Requests
  <2> QED
    BY <1>1, <1>2, <1>3, <2>1, <2>2, <2>3, <2>4, <2>5, Requests DEF Joins
<1>5. \A u \in Viewers : Same(u)
  BY <1>1 DEF Same
<1> QED
  BY <1>2, <1>3, <1>4, <1>5 DEF AsksToJoin

\* The invariant holds after it.
LEMMA ProtocolKeeps ==
  ASSUME IInv, NEW i \in DOMAIN calls, ProtocolAnswers(i)
  PROVE  IInv'
BY ProtocolJoins, JoinKeeps DEF AsksToJoin

\* Every step keeps the invariant.
LEMMA StepKeeps ==
  ASSUME IInv, [Next]_vars
  PROVE  IInv'
<1> USE DEF IInv
<1>1. CASE UNCHANGED vars
  <2>1. UNCHANGED <<calls, disposed, view, wish, streams, shared>>
    BY <1>1 DEF vars
  <2>2. TypeOK' /\ CallInv'
    BY <1>1, Requests DEF vars, TypeOK, CallInv
  <2>3. ViewInv' /\ (\A u \in Viewers : Crossed(u)' <=> Crossed(u))
        /\ \A t \in Ids : Waiting(t)' = Waiting(t)
    BY <2>1, SameViewers
  <2>4. StreamInv'
    BY <2>1, <2>3 DEF StreamInv
  <2>5. \A u \in Viewers : Joined(u)' => Joined(u)
    BY <1>1, <2>3 DEF vars, Joined, Relies
  <2>6. ServeInv'
    BY <2>1, <2>5, SameStreams DEF ServeInv
  <2>7. PaintInv'
    BY <1>1, <2>5, SameStreams DEF PaintInv, vars
  <2> QED
    BY <2>2, <2>3, <2>4, <2>6, <2>7
<1>2. ASSUME NEW v \in Viewers, Attach(v) PROVE IInv'
  BY <1>2, AskKeeps, AttachKeeps
<1>3. ASSUME NEW v \in Viewers, Detach(v) PROVE IInv'
  BY <1>3, DepartureKeeps DEF Detach
<1>4. ASSUME NEW v \in Viewers, WsCloses(v) PROVE IInv'
  <2>1. CASE view[v] = 0
    BY <1>4, <2>1, GoneKeeps DEF WsCloses
  <2>2. CASE view[v] # 0
    BY <1>4, <2>2, DepartureKeeps DEF WsCloses
  <2> QED
    BY <2>1, <2>2
<1>5. ASSUME NEW i \in DOMAIN calls, ProtocolAnswers(i) PROVE IInv'
  BY <1>5, ProtocolKeeps
<1>6. ASSUME NEW i \in DOMAIN calls, ProtocolFails(i) PROVE IInv'
  BY <1>6, AnswerKeeps DEF ProtocolFails
<1>7. ASSUME NEW i \in DOMAIN calls, Answer(i) PROVE IInv'
  <2>1. CASE disposed
    BY <1>7, <2>1, LateAnswerKeeps
  <2>2. CASE ~disposed
    BY <1>7, <2>2, AnswerKeeps DEF Answer
  <2> QED
    BY <2>1, <2>2
<1>8. ASSUME NEW s \in Ids,
             \/ ConnectOk(s) \/ ConnectFails(s)
             \/ FrameArrives(s) \/ StreamDies(s) \/ CloseEvent(s)
      PROVE IInv'
  BY <1>8, ConnectKeeps, ConnectFailKeeps, FrameKeeps, DeathKeeps, CloseEventKeeps
<1>9. CASE Dispose
  BY <1>9, DisposeKeeps
<1> HIDE DEF IInv
<1> QED
  BY <1>1, <1>2, <1>3, <1>4, <1>5, <1>6, <1>7, <1>8, <1>9 DEF Next

-----------------------------------------------------------------------------
(* What the bridge promises, for any number of viewers and attaches. *)

\* The inductive invariant: requests, streams and viewers agree at every await.
THEOREM Invariance == Spec => []IInv
<1>1. Init => IInv
  BY InitInv
<1>2. IInv /\ [Next]_vars => IInv'
  BY StepKeeps
<1> QED
  BY <1>1, <1>2, PTL DEF Spec

\* A viewer whose last attach was answered is on the live stream, was told that
\* the stream closed, or is about to be (terminal-bridge.ts:849-950).
THEOREM ViewersAreServedOrTold == Spec => []ServedOrTold
<1>1. IInv => ServedOrTold
  BY DEF IInv, ServeInv, ServedOrTold, Attached, Joined
<1> QED
  BY <1>1, Invariance, PTL

\* A stream that is up is the one of the map and has a viewer: the last viewer
\* to leave closes it (detachTerminalViewer).
THEOREM NoStreamIsUnwatched == Spec => []StreamsAreWatched
<1>1. IInv => StreamsAreWatched
  BY DEF IInv, StreamInv, StreamsAreWatched
<1> QED
  BY <1>1, Invariance, PTL

\* Once the bridge is disposed and no attach is under way, no stream is up
\* (dispose, and the checks after each await of an attach).
THEOREM DisposeEndsStreams == Spec => []NothingOutlivesDispose
<1>1. ASSUME IInv, disposed, \A i \in DOMAIN calls : calls[i].at \in Ended,
             NEW s \in Ids
      PROVE  ~streams[s].up
  <2>1. Waiting(s) = {}
    BY <1>1 DEF Waiting, Ended
  <2> QED
    BY <1>1, <2>1 DEF IInv, StreamInv
<1>2. IInv => NothingOutlivesDispose
  BY <1>1 DEF NothingOutlivesDispose
<1> QED
  BY <1>2, Invariance, PTL

\* A browser that is new to the terminal is painted or a complete frame is due,
\* on a reused stream as on a new one (the refresh of handleTerminal).
THEOREM NewViewersGetAFrame == Spec => []NewViewersArePainted
<1>1. IInv => NewViewersArePainted
  BY DEF IInv, PaintInv, NewViewersArePainted, Attached, Joined
<1> QED
  BY <1>1, Invariance, PTL

\* An attach never awaits a connection that has ended, whoever left, replaced
\* the stream in the map or disposed of the bridge meanwhile.
THEOREM EveryAttachCanEnd == Spec => []NoAttachIsStuck
<1>1. IInv => NoAttachIsStuck
  BY DEF IInv, CallInv, NoAttachIsStuck
<1> QED
  BY <1>1, Invariance, PTL

-----------------------------------------------------------------------------
(* The refinement of SharedStream: what a step shows of the streams. *)

\* The live stream is the one that is up, if any.
LiveIs ==
  /\ Live \in Ids \cup {0}
  /\ \A t \in Ids : Live = t <=> streams[t].up = TRUE
  /\ Live # 0 => Live = shared
  /\ Watching \in SUBSET Viewers
  /\ \A t \in Ids : Live = t => Watching = streams[t].viewers
  /\ Live = 0 => Watching = {}

\* One stream at most is up, and the map has it (StreamInv).
LEMMA LiveFacts == IInv => LiveIs
<1> SUFFICES ASSUME IInv PROVE LiveIs
  OBVIOUS
<1> USE DEF IInv
<1>1. shared \in Ids \cup {0}
  BY Requests DEF TypeOK, Ids
<1>2. ASSUME NEW t \in Ids PROVE Live = t <=> streams[t].up = TRUE
  <2>1. t # 0
    BY DEF Ids
  <2> QED
    BY <2>1, OneUp, StreamFields DEF Live, Usable
<1>3. Live \in {0, shared}
  BY DEF Live
<1>4. ASSUME NEW t \in Ids, Live = t PROVE Watching = streams[t].viewers
  BY <1>4 DEF Watching, Ids
<1> QED
  BY <1>1, <1>2, <1>3, <1>4, StreamFields DEF LiveIs, Watching

\* The same of the next state.
LEMMA LiveFactsNext == IInv' => LiveIs'
BY LiveFacts, PTL

\* A stream of which a step shows nothing.
SameSeen(t) ==
  /\ streams'[t].up = streams[t].up /\ streams'[t].over = streams[t].over
  /\ streams'[t].viewers = streams[t].viewers
  /\ streams'[t].link = "none" <=> streams[t].link = "none"

\* Nobody is told, and nobody comes back.
NoneTold ==
  /\ told' \subseteq told /\ online' \subseteq online
  /\ disposed => disposed'

\* Then nobody can be told who could not before.
LEMMA NoneToldSeen ==
  ASSUME NoneTold
  PROVE  SharedView!NobodyIsTold
BY DEF NoneTold, SharedView!NobodyIsTold, Here

\* A stream that shows nothing is open, and owes, as before.
LEMMA SameStreamSeen ==
  ASSUME NEW t \in Ids, SameSeen(t)
  PROVE  /\ t \in OpenedStreams' <=> t \in OpenedStreams
         /\ Owed'[t] = Owed[t]
BY DEF SameSeen, OpenedStreams, Owed

\* What the streams owe, as functions of them.
LEMMA OwedIs ==
  /\ DOMAIN Owed = Ids /\ DOMAIN Owed' = Ids
  /\ Owed = [t \in Ids |-> Owed[t]] /\ Owed' = [t \in Ids |-> Owed'[t]]
BY DEF Owed

\* No stream shows anything, and who watches still views if it did.
LEMMA IdleSeen ==
  ASSUME IInv, IInv', NoneTold, \A t \in Ids : SameSeen(t),
         \A u \in Watching : view[u] # 0 => view'[u] # 0
  PROVE  SharedView!Next
<1>1. LiveIs /\ LiveIs'
  BY LiveFacts, LiveFactsNext
<1>2. OpenedStreams' = OpenedStreams
  BY SameStreamSeen DEF OpenedStreams
<1>3. Owed' = Owed
  BY SameStreamSeen, OwedIs
<1>4. Live' = Live
  BY <1>1 DEF LiveIs, SameSeen
<1>5. Watching' = Watching
  <2>1. CASE Live = 0
    BY <1>1, <1>4, <2>1 DEF LiveIs
  <2>2. CASE Live # 0
    BY <1>1, <1>4, <2>2 DEF LiveIs, SameSeen
  <2> QED
    BY <2>1, <2>2
<1>6. Viewing' \in SUBSET Viewers /\ Viewing \cap Watching \subseteq Viewing'
  BY DEF Viewing
<1> QED
  BY <1>2, <1>3, <1>4, <1>5, <1>6, NoneToldSeen DEF SharedView!Idle, SharedView!Next

\* A stream that viewers V have left: it may have closed if none stayed.
Thinned(d, r, V) ==
  /\ d.link = r.link /\ d.over = r.over /\ d.viewers = r.viewers \ V
  /\ d.up = TRUE => r.up = TRUE
  /\ d.viewers # {} => d.up = r.up

\* Viewers leave the stream of the map, if it has one.
LEMMA LeaveSeen ==
  ASSUME IInv, IInv', NoneTold, NEW V \in SUBSET Viewers,
         \A t \in Ids : t # shared => SameSeen(t),
         \A t \in Ids : t = shared => Thinned(streams'[t], streams[t], V),
         Viewing' = Viewing \ V
  PROVE  SharedView!Next
<1>1. LiveIs /\ LiveIs'
  BY LiveFacts, LiveFactsNext
<1>2. shared \in Ids \cup {0} /\ 0 \notin Ids
  BY Requests DEF IInv, TypeOK, Ids
<1>3. OpenedStreams' = OpenedStreams
  BY DEF OpenedStreams, SameSeen, Thinned
<1>4. CASE Live # 0
  <2>1. Live = shared /\ shared \in Ids
    BY <1>1, <1>2, <1>4 DEF LiveIs
  <2>2. \A t \in Ids : Live' = t => t = shared
    BY <1>1, <2>1 DEF LiveIs, SameSeen
  <2>3. Live' \in {Live, 0}
    BY <1>1, <2>1, <2>2 DEF LiveIs
  <2>4. Watching' = Watching \ V /\ (Watching' # {} => Live' = Live)
    <3>1. streams'[shared].viewers = Watching \ V
      BY <1>1, <2>1 DEF LiveIs, Thinned
    <3>2. streams'[shared].viewers # {} => streams'[shared].up = TRUE
      BY <1>1, <2>1 DEF LiveIs, Thinned
    <3>3. CASE Live' = shared
      BY <1>1, <2>1, <3>1, <3>3 DEF LiveIs
    <3>4. CASE Live' # shared
      BY <1>1, <2>1, <2>3, <3>1, <3>2, <3>4 DEF LiveIs
    <3> QED
      BY <2>1, <3>3, <3>4, <1>1, <2>3, <3>1, <3>2 DEF LiveIs
  <2>5. Owed' = Owed
    <3>1. ASSUME NEW t \in Ids PROVE Owed'[t] = Owed[t]
      <4>1. CASE t = shared
        <5>1. Owed[t] = {}
          BY <1>1, <2>1, <4>1 DEF Owed, LiveIs
        <5>2. streams'[t].viewers # {} => streams'[t].up
          BY <1>1, <2>1, <4>1 DEF LiveIs, Thinned
        <5> QED
          BY <5>1, <5>2 DEF Owed
      <4>2. CASE t # shared
        BY <4>2, SameStreamSeen
      <4> QED
        BY <4>1, <4>2
    <3> QED
      BY <3>1, OwedIs
  <2>6. SharedView!Leave(V)
    BY <1>3, <1>4, <2>3, <2>4, <2>5, NoneToldSeen DEF SharedView!Leave, SharedView!Go
  <2> QED
    BY <2>6 DEF SharedView!Next
<1>5. CASE Live = 0 /\ shared # 0
  <2>1. Live' = 0
    BY <1>1, <1>2, <1>5 DEF LiveIs, SameSeen, Thinned
  <2>2. Watching = {} /\ Watching' = {}
    BY <1>1, <1>5, <2>1 DEF LiveIs
  <2>3. Owed' = [Owed EXCEPT ![shared] = @ \ V]
    <3>1. shared \in Ids
      BY <1>2, <1>5
    <3>2. Owed'[shared] = Owed[shared] \ V
      <4>1. streams[shared].up # TRUE /\ streams'[shared].up # TRUE
        BY <1>1, <1>2, <1>5, <2>1, <3>1 DEF LiveIs
      <4>2. ~streams[shared].up /\ ~streams'[shared].up
        <5>1. streams[shared].up \in BOOLEAN
          BY <3>1, StreamFields DEF IInv
        <5>2. streams'[shared].up \in BOOLEAN
          BY <3>1 DEF IInv, TypeOK, Stream
        <5> QED
          BY <4>1, <5>1, <5>2
      <4> QED
        BY <3>1, <4>2 DEF Owed, Thinned
    <3>3. ASSUME NEW t \in Ids, t # shared PROVE Owed'[t] = Owed[t]
      BY <3>3, SameStreamSeen
    <3> QED
      BY <3>1, <3>2, <3>3, OwedIs
  <2>4. SharedView!Decline(shared, V)
    BY <1>3, <1>5, <2>1, <2>2, <2>3, NoneToldSeen DEF SharedView!Decline, SharedView!Go
  <2> QED
    BY <1>2, <1>5, <2>4 DEF SharedView!Next
<1>6. CASE shared = 0
  <2>1. \A t \in Ids : SameSeen(t)
    BY <1>2, <1>6
  <2>2. Watching = {}
    BY <1>1, <1>6 DEF LiveIs
  <2> QED
    BY <2>1, <2>2, IdleSeen
<1> QED
  BY <1>4, <1>5, <1>6

\* The live stream ends with its viewers, who are owed word of it.
LEMMA EndSeen ==
  ASSUME IInv, IInv', NoneTold, NEW s \in Ids, streams[s].up,
         streams'[s].up = FALSE, streams'[s].viewers = streams[s].viewers,
         streams'[s].over = streams[s].over, streams'[s].link # "none",
         \A t \in Ids : t # s => SameSeen(t),
         \A u \in Viewers : view'[u] # 0 => view[u] # 0
  PROVE  SharedView!Next
<1>1. LiveIs /\ LiveIs' /\ s # 0
  BY LiveFacts, LiveFactsNext DEF Ids
<1>2. streams[s].up = TRUE /\ streams[s].over = FALSE /\ streams[s].link # "none"
  BY StreamFields DEF IInv, StreamInv
<1>3. Live = s /\ Watching = streams[s].viewers
  BY <1>1, <1>2 DEF LiveIs
<1>4. Live' = 0
  BY <1>1, <1>3 DEF LiveIs, SameSeen
<1>5. Watching' = {}
  BY <1>1, <1>4 DEF LiveIs
<1>6. OpenedStreams' = OpenedStreams
  BY <1>2 DEF OpenedStreams, SameSeen
<1>7. Owed' = [Owed EXCEPT ![Live] = Watching]
  <2>1. Owed'[s] = Watching
    BY <1>2, <1>3 DEF Owed
  <2>2. ASSUME NEW t \in Ids, t # s PROVE Owed'[t] = Owed[t]
    BY <2>2, SameStreamSeen
  <2> QED
    BY <1>3, <2>1, <2>2, OwedIs
<1>8. Viewing' \subseteq Viewing
  BY DEF Viewing
<1>9. SharedView!End
  BY <1>1, <1>3, <1>4, <1>5, <1>6, <1>7, <1>8, NoneToldSeen DEF SharedView!End
<1> QED
  BY <1>9 DEF SharedView!Next

\* A viewer opens a stream, or joins the live one.
LEMMA JoinSeen ==
  ASSUME IInv, IInv', NoneTold, NEW cs \in Seq(Call), NEW i \in 1 .. Len(cs),
         Joins(i, cs), \A u \in Viewers : view[u] # 0 => view'[u] # 0,
         \A u \in Viewers : u # cs[i].viewer /\ view'[u] # 0 => view[u] # 0
  PROVE  SharedView!Next
<1> DEFINE v == cs[i].viewer
<1>1. /\ LiveIs /\ LiveIs' /\ v \in Viewers /\ i \in Ids /\ 0 \notin Ids
      /\ streams[i].link = "none"
  BY LiveFacts, LiveFactsNext, CallFields, LenProperties DEF Joins, Ids
<1>2. Joined1(i, cs) /\ (JoinedNew(i, cs) \/ JoinedOld(i, cs))
  BY JoinKeepsStreams
<1>3. SharedView!Comes(v)
  BY DEF SharedView!Comes, Viewing
<1>4. shared' \in Ids /\ streams'[shared'].up = TRUE
  BY <1>2, LenProperties DEF Joined1, Joins, Ids
<1>5. Live' = shared' /\ Watching' = streams'[shared'].viewers
  BY <1>1, <1>4 DEF LiveIs
<1>6. \A t \in Ids : t # shared' => SameSeen(t)
  BY <1>2 DEF Joined1, SameSeen
<1>7. CASE JoinedNew(i, cs)
  <2>1. Live = 0
    BY <1>7 DEF JoinedNew, Live
  <2>2. shared' = i /\ Watching' = {v}
    BY <1>5, <1>7 DEF JoinedNew
  <2>3. i \notin OpenedStreams /\ OpenedStreams' = OpenedStreams \cup {i}
    <3>1. i \notin OpenedStreams /\ i \in OpenedStreams'
      BY <1>1, <1>7 DEF OpenedStreams, JoinedNew
    <3>2. \A t \in Ids : t # i => (t \in OpenedStreams' <=> t \in OpenedStreams)
      BY <1>6, <2>2, SameStreamSeen
    <3> QED
      BY <3>1, <3>2 DEF OpenedStreams
  <2>4. Owed' = Owed
    <3>1. Owed[i] = {}
      BY <1>1 DEF Owed, IInv, StreamInv
    <3>2. Owed'[i] = {}
      BY <1>1, <1>4, <2>2 DEF Owed
    <3>3. \A t \in Ids : t # i => Owed'[t] = Owed[t]
      BY <1>6, <2>2, SameStreamSeen
    <3> QED
      BY <3>1, <3>2, <3>3, OwedIs
  <2>5. SharedView!Open(v, i)
    BY <1>3, <1>5, <2>1, <2>2, <2>3, <2>4, NoneToldSeen DEF SharedView!Open
  <2> QED
    BY <1>1, <2>5 DEF SharedView!Next
<1>8. CASE JoinedOld(i, cs)
  <2>1. Live = shared /\ shared # 0 /\ shared' = shared /\ shared \in Ids
    BY <1>4, <1>8 DEF JoinedOld, Live, Usable
  <2>2. Watching' = Watching \cup {v}
    BY <1>1, <1>5, <1>8, <2>1 DEF JoinedOld, LiveIs
  <2>3. streams[shared].up = TRUE /\ streams[shared].link # "none"
    BY <1>1, <2>1 DEF LiveIs, IInv, StreamInv
  <2>4. OpenedStreams' = OpenedStreams
    BY <1>6, <1>8, <2>1, <2>3 DEF OpenedStreams, SameSeen, JoinedOld
  <2>5. Owed' = Owed
    <3>1. Owed[shared] = {} /\ Owed'[shared] = {}
      BY <1>4, <2>1, <2>3 DEF Owed
    <3>2. \A t \in Ids : t # shared => Owed'[t] = Owed[t]
      BY <1>6, <2>1, SameStreamSeen
    <3> QED
      BY <3>1, <3>2, OwedIs
  <2>6. SharedView!Join(v)
    BY <1>3, <1>5, <2>1, <2>2, <2>4, <2>5, NoneToldSeen DEF SharedView!Join
  <2> QED
    BY <1>1, <2>6 DEF SharedView!Next
<1> QED
  BY <1>2, <1>7, <1>8

\* An attach whose turn it is to join shows as a join.
LEMMA AsksToJoinSeen ==
  ASSUME IInv, IInv', NoneTold,
         NEW cs \in Seq(Call), NEW i \in 1 .. Len(cs), AsksToJoin(i, cs)
  PROVE  SharedView!Next
<1>1. i # 0
  BY LenProperties
<1>2. \A u \in Viewers : view[u] # 0 => view'[u] # 0
  BY <1>1 DEF AsksToJoin, Anew, Same
<1>3. \A u \in Viewers : u # cs[i].viewer /\ view'[u] # 0 => view[u] # 0
  BY DEF AsksToJoin, Anew, Same
<1> QED
  BY <1>2, <1>3, JoinSeen DEF AsksToJoin

\* Nothing is shown while the streams stay and nobody leaves.
LEMMA StillSeen ==
  ASSUME IInv, IInv', NoneTold, UNCHANGED streams,
         \A u \in Viewers : view[u] # 0 => view'[u] # 0
  PROVE  SharedView!Next
<1>1. \A t \in Ids : SameSeen(t)
  BY DEF SameSeen
<1>2. Watching \in SUBSET Viewers
  BY LiveFacts DEF LiveIs
<1> QED
  BY <1>1, <1>2, IdleSeen

\* A departure shows as one.
LEMMA DepartureSeen ==
  ASSUME IInv, IInv', NoneTold, NEW V \in SUBSET Viewers, Leave(V)
  PROVE  SharedView!Next
<1>1. Left(V, shared)
  BY LeftMoves, Requests DEF Leave, IInv, TypeOK
<1>2. \A t \in Ids : t # shared => SameSeen(t)
  BY <1>1 DEF Left, LeftAs, SameSeen
<1>3. \A t \in Ids : t = shared => Thinned(streams'[t], streams[t], V)
  BY <1>1 DEF Left, LeftAs, Thinned
<1>4. Viewing' = Viewing \ V
  BY DEF Viewing, Leave, Forgotten
<1> QED
  BY <1>2, <1>3, <1>4, LeaveSeen

\* A frame shows as the departure of those that left before.
LEMMA FrameSeen ==
  ASSUME IInv, IInv', NEW s \in Ids, FrameArrives(s)
  PROVE  SharedView!Next
<1> DEFINE V == {v \in Viewers : view[v] = 0}
           here == {v \in streams[s].viewers : view[v] # 0}
           n == [streams[s] EXCEPT !.due = FALSE, !.viewers = here]
<1>1. /\ streams[s].up /\ streams' = [streams EXCEPT ![s] = n]
      /\ UNCHANGED <<disposed, view, online, told, shared>>
  BY DEF FrameArrives, IInv, TypeOK, Stream
<1>2. NoneTold
  BY <1>1 DEF NoneTold
<1>3. shared = s
  BY <1>1, OneUp DEF IInv
<1>4. /\ n.up = streams[s].up /\ n.link = streams[s].link
      /\ n.over = streams[s].over /\ n.viewers = here
  BY StreamFields DEF IInv, Stream
<1>5. here = streams[s].viewers \ V
  BY StreamFields DEF IInv
<1>6. streams'[s] = n /\ \A t \in Ids : t # s => streams'[t] = streams[t]
  BY <1>1 DEF IInv, TypeOK
<1> HIDE DEF n, here
<1>7. \A t \in Ids : t # shared => SameSeen(t)
  BY <1>3, <1>6 DEF SameSeen
<1>8. \A t \in Ids : t = shared => Thinned(streams'[t], streams[t], V)
  BY <1>3, <1>4, <1>5, <1>6 DEF Thinned
<1>9. Viewing' = Viewing \ V
  BY <1>1 DEF Viewing
<1> QED
  BY <1>2, <1>7, <1>8, <1>9, LeaveSeen

\* The death of a stream shows as its end.
LEMMA DeathSeen ==
  ASSUME IInv, IInv', NEW s \in Ids, StreamDies(s)
  PROVE  SharedView!Next
<1>1. /\ streams[s].up /\ streams' = [streams EXCEPT ![s] = Closed(@)]
      /\ UNCHANGED <<disposed, view, online, told>>
  BY DEF StreamDies
<1>2. NoneTold
  BY <1>1 DEF NoneTold
<1>3. streams'[s] = Closed(streams[s]) /\ \A t \in Ids : t # s => SameSeen(t)
  BY <1>1 DEF IInv, TypeOK, SameSeen
<1>4. streams[s].link # "none"
  BY <1>1 DEF IInv, StreamInv
<1>5. /\ streams'[s].up = FALSE /\ streams'[s].viewers = streams[s].viewers
      /\ streams'[s].over = streams[s].over
  BY <1>3, StreamFields, ClosedFields DEF IInv
<1>6. streams'[s].link # "none"
  <2>1. streams[s] \in Stream
    BY StreamFields DEF IInv
  <2> QED
    BY <1>3, <1>4, <2>1, ClosedFields
<1> QED
  BY <1>1, <1>2, <1>3, <1>5, <1>6, EndSeen

\* The close event shows as the word to those that the stream owes it.
LEMMA CloseEventSeen ==
  ASSUME IInv, IInv', NEW s \in Ids, CloseEvent(s)
  PROVE  SharedView!Next
<1> DEFINE all == IF disposed THEN {} ELSE streams[s].viewers \cap online
           n == [streams[s] EXCEPT !.over = TRUE, !.viewers = {}]
<1>1. /\ streams[s].link # "none" /\ ~streams[s].up /\ ~streams[s].over
      /\ told' = told \cup all
      /\ UNCHANGED <<disposed, view, online>>
  BY DEF CloseEvent
<1>2. streams' = [streams EXCEPT ![s] = n]
  BY DEF CloseEvent, IInv, TypeOK, Stream
<1>3. /\ n.up = streams[s].up /\ n.link = streams[s].link
      /\ n.over = TRUE /\ n.viewers = {}
  BY StreamFields DEF IInv, Stream
<1> HIDE DEF n
<1>4. streams'[s] = n /\ \A t \in Ids : t # s => SameSeen(t)
  BY <1>2 DEF IInv, TypeOK, SameSeen
<1>5. LiveIs /\ LiveIs'
  BY LiveFacts, LiveFactsNext
<1>6. OpenedStreams' = OpenedStreams
  BY <1>3, <1>4 DEF OpenedStreams, SameSeen
<1>7. Live' = Live
  BY <1>3, <1>4, <1>5 DEF LiveIs, SameSeen
<1>8. Watching' = Watching
  <2>1. CASE Live = 0
    BY <1>5, <1>7, <2>1 DEF LiveIs
  <2>2. CASE Live # 0
    <3>1. Live # s /\ Live \in Ids
      BY <1>1, <1>5, <2>2 DEF LiveIs
    <3> QED
      BY <1>4, <1>5, <1>7, <3>1 DEF LiveIs, SameSeen
  <2> QED
    BY <2>1, <2>2
<1>9. Owed[s] = streams[s].viewers
  BY <1>1 DEF Owed
<1>10. Owed' = [Owed EXCEPT ![s] = {}]
  <2>1. Owed'[s] = {}
    BY <1>3, <1>4 DEF Owed
  <2>2. ASSUME NEW t \in Ids, t # s PROVE Owed'[t] = Owed[t]
    BY <1>4, <2>2, SameStreamSeen
  <2> QED
    BY <2>1, <2>2, OwedIs
<1>11. told' = told \cup (Owed[s] \cap Here)
  BY <1>1, <1>9 DEF Here
<1>12. Viewing' = Viewing /\ Here' = Here
  BY <1>1 DEF Viewing, Here
<1>13. SharedView!Tell(s)
  BY <1>6, <1>7, <1>8, <1>10, <1>11, <1>12 DEF SharedView!Tell
<1> QED
  BY <1>13 DEF SharedView!Next

\* A connection that opens shows nothing.
LEMMA ConnectSeen ==
  ASSUME IInv, IInv', NEW s \in Ids, ConnectOk(s)
  PROVE  SharedView!Next
<1> DEFINE n == [streams[s] EXCEPT !.link = "open", !.due = TRUE]
<1>1. /\ streams[s].link = "connecting"
      /\ UNCHANGED <<disposed, view, online, told>>
  BY DEF ConnectOk
<1>2. streams' = [streams EXCEPT ![s] = n]
  BY DEF ConnectOk, IInv, TypeOK, Stream
<1>3. /\ n.up = streams[s].up /\ n.link = "open"
      /\ n.over = streams[s].over /\ n.viewers = streams[s].viewers
  BY StreamFields DEF IInv, Stream
<1> HIDE DEF n
<1>4. \A t \in Ids : SameSeen(t)
  BY <1>1, <1>2, <1>3 DEF IInv, TypeOK, SameSeen
<1>5. NoneTold
  BY <1>1 DEF NoneTold
<1> QED
  BY <1>1, <1>4, <1>5, IdleSeen

\* A connection that fails shows as the end of its stream if that lived, and
\* else as the departure of those that awaited it.
LEMMA ConnectFailSeen ==
  ASSUME IInv, IInv', NEW s \in Ids, ConnectFails(s)
  PROVE  SharedView!Next
<1> DEFINE V == {calls[i].viewer : i \in Waiting(s)}
           m == IF shared = s THEN 0 ELSE shared
<1>1. /\ streams[s].link = "connecting" /\ AfterFailure(s, V, m)
      /\ view' = Forgotten(V)
      /\ UNCHANGED <<disposed, online, told>>
  BY DEF ConnectFails, AfterFailure
<1>2. V \in SUBSET Viewers /\ m \in 0 .. MaxAttach /\ m # s
  <2>1. \A i \in Waiting(s) : calls[i].viewer \in Viewers
    BY Requests, CallFields DEF Waiting, IInv
  <2> QED
    BY <2>1, Requests DEF IInv, TypeOK, Ids
<1>3. (shared = s => m = 0) /\ (shared # s => m = shared) /\ 0 \notin Ids
  BY DEF Ids
<1> HIDE DEF V, m
<1>4. Failed(s, V, m)
  BY <1>1, <1>2, FailureMoves DEF IInv
<1>5. NoneTold
  BY <1>1 DEF NoneTold
<1>6. /\ Viewing' = Viewing \ V
      /\ \A u \in Viewers : view'[u] # 0 => view[u] # 0
  BY <1>1 DEF Viewing, Forgotten
<1>7. /\ streams'[s].up = FALSE /\ streams'[s].link = "failed"
      /\ streams'[s].viewers = streams[s].viewers
      /\ streams'[s].over = streams[s].over
  BY <1>4 DEF Failed
<1>8. CASE streams[s].up
  <2>1. shared = s
    BY <1>8, OneUp DEF IInv
  <2>2. \A t \in Ids : t # s => SameSeen(t)
    BY <1>3, <1>4, <2>1 DEF Failed, LeftAs, SameSeen
  <2> QED
    BY <1>5, <1>6, <1>7, <1>8, <2>2, EndSeen
<1>9. CASE ~streams[s].up
  <2>1. SameSeen(s)
    <3>1. streams[s].up = FALSE
      BY <1>9, StreamFields DEF IInv
    <3> QED
      BY <1>1, <1>7, <3>1 DEF SameSeen
  <2>2. CASE shared = s
    <3>1. \A t \in Ids : SameSeen(t)
      BY <1>3, <1>4, <2>1, <2>2 DEF Failed, LeftAs, SameSeen
    <3>2. Watching = {}
      <4>1. Live = 0
        BY <1>9, <2>2 DEF Live, Usable
      <4> QED
        BY <4>1 DEF Watching
    <3> QED
      BY <1>5, <3>1, <3>2, IdleSeen
  <2>3. CASE shared # s
    <3>1. \A t \in Ids : t # shared => SameSeen(t)
      BY <1>3, <1>4, <2>1, <2>3 DEF Failed, LeftAs, SameSeen
    <3>2. \A t \in Ids : t = shared => Thinned(streams'[t], streams[t], V)
      BY <1>3, <1>4, <2>3 DEF Failed, LeftAs, Thinned
    <3> QED
      BY <1>2, <1>5, <1>6, <3>1, <3>2, LeaveSeen
  <2> QED
    BY <2>2, <2>3
<1> QED
  BY <1>8, <1>9

\* An answer after dispose() shows as the departure of its viewer.
LEMMA LateAnswerSeen ==
  ASSUME IInv, IInv', NEW i \in DOMAIN calls, Answer(i), disposed
  PROVE  SharedView!Next
<1> DEFINE V == {calls[i].viewer}
           d == Detached(V, shared)
           s == calls[i].of
<1>1. /\ calls[i].at = "frame" /\ streams' = [d EXCEPT ![s] = Closed(@)]
      /\ view' = Forgotten(V)
      /\ UNCHANGED <<disposed, online, told>>
  BY DEF Answer
<1>2. V \in SUBSET Viewers /\ shared \in 0 .. MaxAttach /\ s \in Ids
  BY <1>1, Requests, CallFields DEF IInv, TypeOK, CallInv
<1>3. streams[s].up = FALSE
  <2>1. streams[s].link \in {"open", "failed"}
    BY <1>1 DEF IInv, CallInv
  <2>2. ~streams[s].up
    BY <1>2, <2>1 DEF IInv, StreamInv
  <2> QED
    BY <1>2, <2>2, StreamFields DEF IInv
<1>4. /\ d \in [Ids -> Stream]
      /\ \A t \in Ids : LeftAs(d[t], streams[t], V, t = shared)
  BY <1>2, DetachedFields DEF IInv
<1> HIDE DEF V, d, s
<1>5. /\ streams'[s] = Closed(d[s])
      /\ \A t \in Ids : t # s => streams'[t] = d[t]
  BY <1>1, <1>2, <1>4
<1>6. /\ streams'[s].up = FALSE /\ streams'[s].link = d[s].link
      /\ streams'[s].viewers = d[s].viewers /\ streams'[s].over = d[s].over
  <2>1. d[s] \in Stream
    BY <1>2, <1>4
  <2> QED
    BY <1>5, <2>1, ClosedFields
<1>7. ASSUME NEW t \in Ids, t # shared PROVE SameSeen(t)
  <2>1. d[t] = streams[t]
    BY <1>4, <1>7 DEF LeftAs
  <2>2. CASE t = s
    BY <1>3, <1>6, <2>1, <2>2 DEF SameSeen
  <2>3. CASE t # s
    BY <1>5, <2>1, <2>3 DEF SameSeen
  <2> QED
    BY <2>2, <2>3
<1>8. ASSUME NEW t \in Ids, t = shared
      PROVE  Thinned(streams'[t], streams[t], V)
  <2>1. Thinned(d[t], streams[t], V)
    BY <1>4, <1>8 DEF LeftAs, Thinned
  <2>2. CASE t = s
    BY <1>3, <1>6, <2>1, <2>2 DEF Thinned
  <2>3. CASE t # s
    BY <1>5, <2>1, <2>3
  <2> QED
    BY <2>2, <2>3
<1>9. Viewing' = Viewing \ V
  BY <1>1 DEF Viewing, Forgotten
<1>10. NoneTold
  BY <1>1 DEF NoneTold
<1> QED
  BY <1>2, <1>7, <1>8, <1>9, <1>10, LeaveSeen

\* dispose() shows as the end of the stream of the map.
LEMMA DisposeSeen ==
  ASSUME IInv, IInv', Dispose
  PROVE  SharedView!Next
<1>1. /\ disposed' = TRUE /\ view' = Forgotten(Viewers) /\ told' = {}
      /\ UNCHANGED online
  BY DEF Dispose
<1>2. NoneTold
  BY <1>1 DEF NoneTold
<1>3. \A t \in Ids : /\ t = shared => streams'[t] = Closed(streams[t])
                     /\ t # shared => streams'[t] = streams[t]
  BY DEF Dispose, IInv, TypeOK, Ids
<1>4. \A t \in Ids : t # shared => SameSeen(t)
  BY <1>3 DEF SameSeen
<1>5. ASSUME NEW t \in Ids, t = shared
      PROVE  /\ streams'[t].up = FALSE /\ streams'[t].viewers = streams[t].viewers
             /\ streams'[t].over = streams[t].over
             /\ streams'[t].link = streams[t].link
  <2>1. streams[t] \in Stream /\ streams'[t] = Closed(streams[t])
    BY <1>3, <1>5, StreamFields DEF IInv
  <2> QED
    BY <2>1, ClosedFields
<1>6. CASE Usable(shared)
  <2>1. shared \in Ids /\ streams[shared].up
    BY <1>6, Requests DEF Usable, IInv, TypeOK, Ids
  <2>2. streams[shared].link # "none"
    BY <2>1 DEF IInv, StreamInv
  <2>3. \A u \in Viewers : view'[u] # 0 => view[u] # 0
    BY <1>1 DEF Forgotten
  <2> QED
    BY <1>2, <1>4, <1>5, <2>1, <2>2, <2>3, EndSeen
<1>7. CASE ~Usable(shared)
  <2>1. ASSUME NEW t \in Ids, t = shared PROVE SameSeen(t)
    <3>1. ~streams[t].up
      BY <1>7, <2>1 DEF Usable, Ids
    <3>2. streams[t].up = FALSE
      BY <3>1, StreamFields DEF IInv
    <3> QED
      BY <1>5, <2>1, <3>2 DEF SameSeen
  <2>2. Watching = {}
    <3>1. Live = 0
      BY <1>7 DEF Live
    <3> QED
      BY <3>1 DEF Watching
  <2> QED
    BY <1>2, <1>4, <2>1, <2>2, IdleSeen
<1> QED
  BY <1>6, <1>7

\* Every step of the bridge is one of the shared stream, or shows nothing.
LEMMA SharedStep ==
  ASSUME IInv, IInv', [Next]_vars
  PROVE  [SharedView!Next]_(SharedView!vars)
<1>1. CASE UNCHANGED vars
  <2>1. UNCHANGED <<streams, shared, view, told, online, disposed>>
    BY <1>1 DEF vars
  <2> QED
    BY <2>1 DEF SharedView!vars, OpenedStreams, Live, Usable, Watching, Viewing,
                Owed, Here
<1>2. ASSUME NEW v \in Viewers, Attach(v) PROVE SharedView!Next
  <2>1. NoneTold
    BY <1>2 DEF Attach, NoneTold
  <2>2. CASE known
    BY <1>2, <2>1, <2>2, AttachJoins, AsksToJoinSeen
  <2>3. CASE ~known
    <3>1. UNCHANGED streams /\ view' = [view EXCEPT ![v] = Len(calls) + 1]
      BY <1>2, <2>3 DEF Attach
    <3>2. Len(calls) + 1 # 0
      BY Requests DEF IInv
    <3>3. \A u \in Viewers : view[u] # 0 => view'[u] # 0
      BY <3>1, <3>2 DEF IInv, TypeOK
    <3> QED
      BY <2>1, <3>1, <3>3, StillSeen
  <2> QED
    BY <2>2, <2>3
<1>3. ASSUME NEW v \in Viewers, Detach(v) PROVE SharedView!Next
  <2>1. NoneTold /\ Leave({v})
    BY <1>3 DEF Detach, Forgets, NoneTold
  <2> QED
    BY <2>1, DepartureSeen
<1>4. ASSUME NEW v \in Viewers, WsCloses(v) PROVE SharedView!Next
  <2>1. NoneTold
    BY <1>4 DEF WsCloses, Forgets, NoneTold
  <2>2. CASE view[v] # 0
    <3>1. Leave({v})
      BY <1>4, <2>2 DEF WsCloses
    <3> QED
      BY <2>1, <3>1, DepartureSeen
  <2>3. CASE view[v] = 0
    BY <1>4, <2>1, <2>3, StillSeen DEF WsCloses
  <2> QED
    BY <2>2, <2>3
<1>5. ASSUME NEW i \in DOMAIN calls, ProtocolAnswers(i) PROVE SharedView!Next
  <2>1. NoneTold
    BY <1>5 DEF ProtocolAnswers, browserVars, NoneTold
  <2> QED
    BY <1>5, <2>1, ProtocolJoins, AsksToJoinSeen
<1>6. ASSUME NEW i \in DOMAIN calls, ProtocolFails(i) PROVE SharedView!Next
  <2>1. NoneTold /\ UNCHANGED <<streams, view>>
    BY <1>6 DEF ProtocolFails, browserVars, NoneTold
  <2> QED
    BY <2>1, StillSeen
<1>7. ASSUME NEW i \in DOMAIN calls, Answer(i) PROVE SharedView!Next
  <2>1. CASE disposed
    BY <1>7, <2>1, LateAnswerSeen
  <2>2. CASE ~disposed
    <3>1. NoneTold /\ UNCHANGED <<streams, view>>
      BY <1>7, <2>2 DEF Answer, browserVars, NoneTold
    <3> QED
      BY <3>1, StillSeen
  <2> QED
    BY <2>1, <2>2
<1>8. ASSUME NEW s \in Ids,
             \/ ConnectOk(s) \/ ConnectFails(s)
             \/ FrameArrives(s) \/ StreamDies(s) \/ CloseEvent(s)
      PROVE SharedView!Next
  BY <1>8, ConnectSeen, ConnectFailSeen, FrameSeen, DeathSeen, CloseEventSeen
<1>9. CASE Dispose
  BY <1>9, DisposeSeen
<1> QED
  BY <1>1, <1>2, <1>3, <1>4, <1>5, <1>6, <1>7, <1>8, <1>9 DEF Next

\* Whatever the bridge does, its viewers share one stream at a time: each is
\* dropped only when it stops viewing, and is owed word of the end of a stream
\* that it watches, which it gets once (detachTerminalViewer, the close handler).
THEOREM StreamsAreShared == Spec => ViewersShareStream
<1>1. Init => SharedView!Init
  BY DEF Init, SharedView!Init, OpenedStreams, Live, Usable, Watching, Viewing,
         Owed, Here, NoStream
<1>2. IInv /\ IInv' /\ [Next]_vars => [SharedView!Next]_(SharedView!vars)
  BY SharedStep
<1> QED
  BY <1>1, <1>2, Invariance, PTL DEF Spec, ViewersShareStream, SharedView!Spec

=============================================================================
