---------------------------- MODULE TerminalBridge ----------------------------
(***************************************************************************)
(* One terminal of the terminal bridge (server/src/bridge/                 *)
(* terminal-bridge.ts): the browsers that view it share one stream to      *)
(* Herdr.  An attach asks for the protocol (once per bridge), joins or     *)
(* opens the stream, awaits its connection, then its first frame; a        *)
(* detach, a closed socket, a stream that dies, a late failure and         *)
(* dispose() come between any two of these awaits.                         *)
(*                                                                         *)
(* A stream (EndpointTerminalSession or ThinClient) has the number of the  *)
(* attach that opened it, which is also the viewer's token.  All viewers   *)
(* have one size.  The clipboard relay and the input are left out.         *)
(***************************************************************************)
EXTENDS Naturals, Sequences, FiniteSets

CONSTANTS
  Viewers,
  MaxAttach   \* bound: attach requests

ASSUME TerminalAssumption == MaxAttach \in Nat

VARIABLES
  known,      \* resolvedProtocol is set
  disposed,
  calls,      \* the attach requests, in the order they came
  shared,     \* sharedTerminals: the stream of the terminal, 0 for none
  streams,    \* every stream opened so far
  view,       \* terminalViewers and attachmentTokens: 0, or the last attach
  online,     \* the browsers whose socket is open
  wish,       \* browser: the attach it relies on, 0 after a detach
  told,       \* browser: it got terminal_closed since that attach
  painted     \* browser: it got a complete frame of the terminal

vars == <<known, disposed, calls, shared, streams, view, online, wish, told,
          painted>>
browserVars == <<online, wish, told>>

Ids == 1 .. MaxAttach
Pending == {"protocol", "connecting", "frame"}
Ended == {"ok", "failed", "late"}   \* late: it failed under a newer attach
Call == [viewer : Viewers, at : Pending \cup Ended, of : 0 .. MaxAttach,
         refresh : BOOLEAN, fresh : BOOLEAN]
\* up: not isClosed; due: Herdr owes a complete frame; over: "close" was
\* emitted; stray (history): joined by a viewer that had left.
Stream == [up : BOOLEAN, link : {"none", "connecting", "open", "failed"},
           viewers : SUBSET Viewers, due : BOOLEAN, over : BOOLEAN,
           stray : BOOLEAN]
NoStream == [up |-> FALSE, link |-> "none", viewers |-> {}, due |-> FALSE,
             over |-> FALSE, stray |-> FALSE]

TypeOK ==
  /\ known \in BOOLEAN /\ disposed \in BOOLEAN
  /\ calls \in Seq(Call) /\ Len(calls) <= MaxAttach
  /\ shared \in 0 .. Len(calls)
  /\ \A s \in Ids : shared = s => streams[s].link # "none"
  /\ streams \in [Ids -> Stream]
  /\ view \in [Viewers -> 0 .. Len(calls)]
  /\ wish \in [Viewers -> 0 .. Len(calls)]
  /\ online \subseteq Viewers /\ told \subseteq Viewers /\ painted \subseteq Viewers

Init ==
  /\ known = FALSE /\ disposed = FALSE
  /\ calls = <<>> /\ shared = 0
  /\ streams = [s \in Ids |-> NoStream]
  /\ view = [v \in Viewers |-> 0] /\ wish = [v \in Viewers |-> 0]
  /\ online = Viewers /\ told = {} /\ painted = {}

-----------------------------------------------------------------------------
\* Mutant: the stream forgets its viewers before they are told.
ClosedSilent(stream) == [stream EXCEPT !.up = FALSE, !.due = FALSE,
                                       !.stray = FALSE, !.viewers = {}]

Closed(stream) == [stream EXCEPT !.up = FALSE, !.due = FALSE, !.stray = FALSE]

(* detachTerminalViewer, of each viewer of V, when the map has stream m. *)

\* Mutant: the last viewer to leave does not close the stream.
DetachedOpen(V, m) ==
  IF m = 0 THEN streams ELSE [streams EXCEPT ![m].viewers = @ \ V]

Detached(V, m) ==
  IF m = 0 THEN streams
  ELSE LET left == [streams[m] EXCEPT !.viewers = @ \ V]
       IN [streams EXCEPT ![m] = IF left.viewers = {} THEN Closed(left) ELSE left]

MapAfter(V, m) == IF m # 0 /\ streams[m].viewers \subseteq V THEN 0 ELSE m

Forgotten(V) == [v \in Viewers |-> IF v \in V THEN 0 ELSE view[v]]

Leave(V) ==
  /\ streams' = Detached(V, shared)
  /\ shared' = MapAfter(V, shared)
  /\ view' = Forgotten(V)

-----------------------------------------------------------------------------
(* terminal.attach *)

End(call, how) == [call EXCEPT !.at = how, !.of = 0, !.refresh = FALSE]

Usable(s) == s # 0 /\ streams[s].up

\* Mutant: a new stream is not connected.
OpenedIdle(v) == [NoStream EXCEPT !.up = TRUE, !.viewers = {v}]

Opened(v) == [NoStream EXCEPT !.up = TRUE, !.link = "connecting",
                              !.viewers = {v}, !.stray = view'[v] = 0]

\* viewers.add, and the resize of a stream that is to be shown again.
Viewed(stream, v, again) ==
  [stream EXCEPT !.viewers = @ \cup {v}, !.due = @ \/ again,
                 !.stray = @ \/ view'[v] = 0]

Awaiting(call, s, at) == [call EXCEPT !.of = s, !.refresh = FALSE, !.at = at]

\* getSharedTerminal after its await: an open stream is not awaited, and is
\* resized at once when the attach decided to refresh it.
Join(i, cs) ==
  LET v == cs[i].viewer
      s == IF Usable(shared) THEN shared ELSE i
      open == Usable(shared) /\ streams[shared].link = "open"
  IN /\ shared' = s
     /\ streams' = [streams EXCEPT ![s] =
          IF s = i THEN Opened(v) ELSE Viewed(@, v, open /\ cs[i].refresh)]
     /\ calls' = [cs EXCEPT ![i] =
          Awaiting(@, s, IF open THEN "frame" ELSE "connecting")]

\* Mutant: a viewer that has painted before is refreshed, not a new one.
RefreshKnown(v) ==
  Usable(shared) /\ streams[shared].link = "open" /\ view[v] # 0

\* A reused stream that is open is refreshed for a viewer that is new to it.
Refresh(v) == Usable(shared) /\ streams[shared].link = "open" /\ view[v] = 0

Attach(v) ==
  LET i == Len(calls) + 1
      cs == Append(calls, [viewer |-> v, at |-> "protocol", of |-> 0,
                           refresh |-> Refresh(v),
                           fresh |-> known /\ view[v] = 0])
  IN /\ v \in online /\ ~disposed /\ i <= MaxAttach
     /\ view' = [view EXCEPT ![v] = i]
     /\ wish' = [wish EXCEPT ![v] = i]
     /\ told' = told \ {v}
     /\ painted' = IF view[v] = 0 THEN painted \ {v} ELSE painted
     /\ IF known THEN Join(i, cs)
        ELSE calls' = cs /\ UNCHANGED <<shared, streams>>
     /\ UNCHANGED <<known, disposed, online>>

\* bridgeProtocol: concurrent requests each ping Herdr for themselves.
ProtocolAnswers(i) ==
  /\ calls[i].at = "protocol"
  /\ known' = TRUE
  /\ view' = view
  /\ Join(i, calls)
  /\ UNCHANGED <<disposed, browserVars, painted>>

\* The ping fails: the request is answered, and nothing is detached.
ProtocolFails(i) ==
  /\ calls[i].at = "protocol"
  /\ calls' = [calls EXCEPT ![i] = End(@, "failed")]
  /\ UNCHANGED <<known, disposed, shared, streams, view, browserVars, painted>>

Waiting(s) == {i \in DOMAIN calls : calls[i].at = "connecting" /\ calls[i].of = s}

\* The stream is attached: Herdr sends its first frame, which is complete.
ConnectOk(s) ==
  /\ streams[s].up /\ streams[s].link = "connecting"
  /\ ~disposed
  /\ streams' = [streams EXCEPT ![s].link = "open", ![s].due = TRUE]
  /\ calls' = [i \in DOMAIN calls |->
       IF i \in Waiting(s) THEN [calls[i] EXCEPT !.at = "frame"] ELSE calls[i]]
  /\ UNCHANGED <<known, disposed, shared, view, browserVars, painted>>

\* Mutant: the stream that failed is not closed.
AfterFailureUp(s, V, m) ==
  /\ streams' = [Detached(V, m) EXCEPT ![s].link = "failed"]
  /\ shared' = MapAfter(V, m)
  /\ view' = Forgotten(V)
  /\ calls' = [i \in DOMAIN calls |->
       IF i \in Waiting(s) THEN End(calls[i], "failed") ELSE calls[i]]

\* Every request that awaited the stream detaches its viewer from the stream
\* the map has now.
AfterFailure(s, V, m) ==
  /\ streams' = [Detached(V, m) EXCEPT ![s] = [Closed(@) EXCEPT !.link = "failed"]]
  /\ shared' = MapAfter(V, m)
  /\ view' = Forgotten(V)
  /\ calls' = [i \in DOMAIN calls |->
       IF i \notin Waiting(s) THEN calls[i]
       ELSE LET newer == view[calls[i].viewer]
            IN End(calls[i], IF newer \in Waiting(s) \cup {0}
                             THEN "failed" ELSE "late")]

\* The connection fails, or is refused because the bridge was disposed.  It
\* may have been closed for long: the lookup of the pane is not cancelled.
ConnectFails(s) ==
  /\ streams[s].link = "connecting"
  /\ AfterFailure(s, {calls[i].viewer : i \in Waiting(s)},
                  IF shared = s THEN 0 ELSE shared)
  /\ UNCHANGED <<known, disposed, browserVars, painted>>

\* After the first frame, or the 20 seconds it is given.
Answer(i) ==
  /\ calls[i].at = "frame"
  /\ IF disposed
     THEN /\ streams' = [Detached({calls[i].viewer}, shared)
                           EXCEPT ![calls[i].of] = Closed(@)]
          /\ shared' = MapAfter({calls[i].viewer}, shared)
          /\ view' = Forgotten({calls[i].viewer})
          /\ calls' = [calls EXCEPT ![i] = End(@, "failed")]
     ELSE /\ calls' = [calls EXCEPT ![i] = End(@, "ok")]
          /\ UNCHANGED <<streams, shared, view>>
  /\ UNCHANGED <<known, disposed, browserVars, painted>>

-----------------------------------------------------------------------------
(* The stream *)

\* A complete frame: a viewer that has left is dropped, and the stream stays.
FrameArrives(s) ==
  LET here == {v \in streams[s].viewers : view[v] # 0}
  IN /\ streams[s].up /\ streams[s].link = "open" /\ streams[s].due
     /\ streams' = [streams EXCEPT ![s].due = FALSE, ![s].viewers = here]
     /\ painted' = painted \cup here
     /\ UNCHANGED <<known, disposed, calls, shared, view, browserVars>>

\* Herdr ends the stream or sends what cannot be read, or a command of it
\* times out.  While the pane is looked up, the attach is not told of it yet.
StreamDies(s) ==
  /\ streams[s].up
  /\ streams' = [streams EXCEPT ![s] = Closed(@)]
  /\ UNCHANGED <<known, disposed, calls, shared, view, browserVars, painted>>

\* Mutant: only a stream the map has tells its viewers.
CloseEventOfCurrent(s) ==
  /\ streams[s].link # "none" /\ ~streams[s].up /\ ~streams[s].over
  /\ streams' = [streams EXCEPT ![s].over = TRUE, ![s].viewers = {}]
  /\ shared' = IF shared = s THEN 0 ELSE shared
  /\ LET all == IF disposed \/ shared # s THEN {} ELSE streams[s].viewers
     IN told' = told \cup all /\ painted' = painted \ all
  /\ UNCHANGED <<known, disposed, calls, view, online, wish>>

\* "close": the viewers are told to attach again.
CloseEvent(s) ==
  /\ streams[s].link # "none" /\ ~streams[s].up /\ ~streams[s].over
  /\ streams' = [streams EXCEPT ![s].over = TRUE, ![s].viewers = {}]
  /\ shared' = IF shared = s THEN 0 ELSE shared
  /\ LET all == IF disposed THEN {} ELSE streams[s].viewers \cap online
     IN told' = told \cup all /\ painted' = painted \ all
  /\ UNCHANGED <<known, disposed, calls, view, online, wish>>

-----------------------------------------------------------------------------
(* Leaving *)

Forgets(v) == /\ wish' = [wish EXCEPT ![v] = 0]
              /\ told' = told \ {v}
              /\ painted' = painted \ {v}

\* terminal.detach names the terminal: the viewer need not be attached to it.
Detach(v) ==
  /\ v \in online /\ ~disposed
  /\ Leave({v})
  /\ Forgets(v)
  /\ UNCHANGED <<known, disposed, calls, online>>

\* cleanupWs: the terminals this socket views (none when disposed).
WsCloses(v) ==
  /\ v \in online /\ ~disposed
  /\ online' = online \ {v}
  /\ Forgets(v)
  /\ IF view[v] # 0 THEN Leave({v}) ELSE UNCHANGED <<streams, shared, view>>
  /\ UNCHANGED <<known, disposed, calls>>

Dispose ==
  /\ ~disposed
  /\ disposed' = TRUE
  /\ streams' = IF shared = 0 THEN streams
                ELSE [streams EXCEPT ![shared] = Closed(@)]
  /\ shared' = 0
  /\ view' = Forgotten(Viewers)
  /\ wish' = Forgotten(Viewers) /\ told' = {} /\ painted' = {}
  /\ UNCHANGED <<known, calls, online>>

Next ==
  \/ \E v \in Viewers : Attach(v) \/ Detach(v) \/ WsCloses(v)
  \/ \E i \in DOMAIN calls : ProtocolAnswers(i) \/ ProtocolFails(i) \/ Answer(i)
  \/ \E s \in Ids : ConnectOk(s) \/ ConnectFails(s)
  \/ \E s \in Ids : FrameArrives(s) \/ StreamDies(s) \/ CloseEvent(s)
  \/ Dispose

Spec == Init /\ [][Next]_vars

-----------------------------------------------------------------------------
(* What the bridge promises. *)

Relies(v) == ~disposed /\ v \in online /\ wish[v] # 0 /\ v \notin told

Attached(v) == Relies(v) /\ calls[wish[v]].at = "ok"

Served(v) == Usable(shared) /\ v \in streams[shared].viewers

\* Its stream has closed, and the event that tells it so is under way.
ToBeTold(v) == \E s \in Ids : v \in streams[s].viewers
                               /\ ~streams[s].up /\ ~streams[s].over

\* An earlier attach of the viewer failed after a newer one had begun.
Crossed(v) == \E i \in DOMAIN calls : calls[i].viewer = v /\ calls[i].at = "late"

\* A viewer whose last attach was answered is on the live stream, or was told
\* that the stream closed, or is about to be: close, the close event and a
\* failed connection never leave it in silence.  Not so when an earlier attach
\* of the same viewer failed after that one (terminal-bridge.ts:885).
ServedOrTold == \A v \in Viewers :
  Attached(v) /\ ~Crossed(v) => Served(v) \/ ToBeTold(v)

\* The same of every viewer.
EveryViewerIsServed == \A v \in Viewers : Attached(v) => Served(v) \/ ToBeTold(v)

\* A stream that is up has a viewer that still views the terminal, and is the
\* one the map has: the last to leave closes it.  Not so when a viewer left
\* while its attach still asked for the protocol (terminal-bridge.ts:882).
StreamsAreWatched == \A s \in Ids :
  ~disposed /\ streams[s].up /\ ~streams[s].stray
    => shared = s /\ \E v \in streams[s].viewers : view[v] # 0

\* When the bridge is disposed and no attach is under way, no stream is up, of
\* an attach that was in any of its awaits included.
NothingOutlivesDispose ==
  disposed /\ (\A i \in DOMAIN calls : calls[i].at \in Ended)
    => \A s \in Ids : ~streams[s].up

\* A browser that is new to the terminal and whose attach was answered gets a
\* complete frame or one is under way, on a reused stream as on a new one.
\* Not so when the attach had to ask for the protocol, and the refresh was
\* decided before, when it is to attach again anyway, and after the failure
\* that ServedOrTold excepts.
NewViewersArePainted == \A v \in Viewers :
  Attached(v) /\ ~Crossed(v) /\ Served(v) /\ ~ToBeTold(v)
    /\ calls[wish[v]].fresh
    /\ streams[shared].link = "open" /\ ~streams[shared].due
    => v \in painted

\* An attach awaits a connection that is still to end, whoever left, took its
\* place in the map or disposed of the bridge meanwhile: none hangs.
NoAttachIsStuck == \A i \in DOMAIN calls :
  calls[i].at = "connecting" => streams[calls[i].of].link = "connecting"

-----------------------------------------------------------------------------
(* The inductive invariant behind these properties. *)

\* Each request at its await, and what it awaits.
CallInv == \A i \in DOMAIN calls :
  /\ calls[i].at = "protocol" => ~calls[i].fresh /\ streams[i].link = "none"
  /\ calls[i].at = "connecting" =>
       calls[i].of \in Ids /\ streams[calls[i].of].link = "connecting"
  /\ calls[i].at = "frame" =>
       calls[i].of \in Ids /\ streams[calls[i].of].link \in {"open", "failed"}

\* A stream that is up is the one of the map, is watched, and after dispose()
\* is awaited by a request that will close it.
StreamInv == \A s \in Ids :
  /\ streams[s].link # "none" => s <= Len(calls)
  /\ streams[s].link = "none" => ~streams[s].up /\ streams[s].viewers = {}
  /\ streams[s].up => /\ shared = s /\ ~streams[s].over
                      /\ streams[s].link \in {"connecting", "open"}
  /\ streams[s].up /\ ~streams[s].stray /\ ~disposed =>
       streams[s].viewers # {} /\ \A v \in streams[s].viewers : view[v] # 0
  /\ streams[s].up /\ disposed => streams[s].link = "connecting" /\ Waiting(s) # {}

\* The bridge has the viewer under the attach it relies on, or not at all.
ViewInv == \A v \in Viewers :
  /\ disposed => wish[v] = 0
  /\ wish[v] # 0 => calls[wish[v]].viewer = v
  /\ view[v] \in {0, wish[v]}
  /\ view[v] = 0 /\ wish[v] # 0 => calls[wish[v]].at = "failed" \/ Crossed(v)

\* From the time it joins a stream.
Joined(v) == Relies(v) /\ ~Crossed(v)
               /\ calls[wish[v]].at \in {"connecting", "frame", "ok"}

ServeInv == \A v \in Viewers : Joined(v) => Served(v) \/ ToBeTold(v)

PaintInv == \A v \in Viewers :
  /\ Joined(v) /\ calls[wish[v]].fresh /\ Served(v) /\ ~ToBeTold(v)
  /\ streams[shared].link = "open"
  => streams[shared].due \/ v \in painted

IInv == TypeOK /\ CallInv /\ StreamInv /\ ViewInv /\ ServeInv /\ PaintInv

-----------------------------------------------------------------------------
(* The bridge, seen as one shared stream. *)

OpenedStreams == {s \in Ids : streams[s].link # "none"}
Live == IF Usable(shared) THEN shared ELSE 0
Watching == IF Live = 0 THEN {} ELSE streams[Live].viewers
Viewing == {v \in Viewers : view[v] # 0}

\* A stream that closed has its viewers until its close event tells them.
Owed == [s \in Ids |-> IF streams[s].up \/ streams[s].over THEN {}
                       ELSE streams[s].viewers]

\* A bridge that was disposed tells nobody.
Here == IF disposed THEN {} ELSE online

SharedView ==
  INSTANCE SharedStream WITH Streams <- Ids, None <- 0,
    opened <- OpenedStreams, live <- Live, watching <- Watching,
    viewing <- Viewing, owed <- Owed, here <- Here

\* Browsers that share a terminal's stream are dropped from it only when they
\* stop viewing, and each one still there when it ends is told so once: no join,
\* departure, failure or disposal loses a viewer or its notice
\* (detachTerminalViewer and the close handler, terminal-bridge.ts).
ViewersShareStream == SharedView!Spec

=============================================================================
