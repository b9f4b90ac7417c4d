--------------------------- MODULE LastStepProofs ---------------------------
(***************************************************************************)
(* Proofs about LastStep, for any panes and workspaces, any start and any  *)
(* number of changes: the inductive invariant IInv, the five invariants    *)
(* that follow from it, and the refinement of StepRecorder.                *)
(***************************************************************************)
EXTENDS LastStep, FiniteSetTheorems, SequenceTheorems, TLAPS

USE LastStepAssumption DEF serverVars, wireVars, paneVars, edgeVars, workVars,
                           listVars, Revisions

-----------------------------------------------------------------------------
(* Records and queues. *)

\* No pane is gone and there.
LEMMA PaneFields ==
  /\ Gone \notin Pane /\ Gone.ws = NoWorkspace /\ Gone.on = FALSE
  /\ \A x \in Pane : x.ws \in Workspaces /\ x.on \in BOOLEAN /\ x # Gone
  /\ \A x \in Pane \cup {Gone} : x.ws \in Workspaces \cup {NoWorkspace}
                                 /\ (x.ws = NoWorkspace <=> x = Gone)
BY DEF Pane, Gone

\* A map of the panes.
LEMMA MapFields ==
  ASSUME NEW m \in Maps, NEW p \in Panes
  PROVE  /\ m[p] \in Pane \cup {Gone}
         /\ m[p] # Gone => m[p] \in Pane
BY DEF Maps

\* What each kind of message has.
LEMMA MessageFields ==
  ASSUME NEW m \in Message
  PROVE  /\ m.n \in Revisions
         /\ m.kind \in {"status", "closed", "moved", "workspace"}
         /\ m.kind \in {"status", "closed"} =>
              m.pane \in Panes /\ m.now \in Pane \cup {Gone}
         /\ m.kind = "moved" =>
              /\ m.from \in Panes /\ m.fromWs \in Workspaces
              /\ m.pane \in Panes /\ m.now \in Pane
         /\ m.kind = "workspace" => m.ws \in Workspaces
BY DEF Message

\* No listing.
LEMMA NoListingFields ==
  /\ NoListing.at = "none" /\ NoListing.rev = 0 /\ NoListing.seen = 0
  /\ NoListing.panes \in Maps
  /\ NoListing \in [at : {"none", "asked", "answered"}, rev : Revisions,
                    seen : Revisions, panes : Maps]
BY DEF NoListing, Maps

\* What a tracker knows that knows nothing.
LEMMA FreshFields ==
  /\ Fresh.panes \in Maps
  /\ Fresh.paneRev = [p \in Panes |-> 0] 
  /\ \A p \in Panes : Fresh.panes[p] = Gone
  /\ Fresh.closedRev = [w \in Workspaces |-> 0]
  /\ Fresh.off = [w \in Workspaces |-> FALSE]
  /\ Fresh.none = [w \in Workspaces |-> "none"]
  /\ Fresh.zero = [w \in Workspaces |-> 0]
  /\ Fresh.idle = [w \in Workspaces |-> NoWorker]
  /\ Fresh.cycle \in [Workspaces -> [state : Cycles, gen : Revisions, early : BOOLEAN]]
  /\ \A w \in Workspaces : Fresh.cycle[w].state = "none"
BY DEF Fresh, Maps, Cycles

\* The parts of a queue after its head, and after an append.
LEMMA QueueFields ==
  ASSUME NEW S, NEW q \in Seq(S)
  PROVE  /\ DOMAIN q = 1 .. Len(q) /\ Len(q) \in Nat
         /\ q # <<>> =>
              /\ Len(q) >= 1 /\ Head(q) = q[1] /\ Head(q) \in S
              /\ Tail(q) \in Seq(S) /\ Len(Tail(q)) = Len(q) - 1
              /\ \A i \in 1 .. Len(q) - 1 : Tail(q)[i] = q[i + 1]
         /\ \A x \in S :
              /\ Append(q, x) \in Seq(S) /\ Len(Append(q, x)) = Len(q) + 1
              /\ Append(q, x)[Len(q) + 1] = x
              /\ \A i \in 1 .. Len(q) : Append(q, x)[i] = q[i]
<1>1. /\ DOMAIN q = 1 .. Len(q) /\ Len(q) \in Nat
  BY LenProperties
<1>2. ASSUME q # <<>>
      PROVE  /\ Len(q) >= 1 /\ Head(q) = q[1] /\ Head(q) \in S
             /\ Tail(q) \in Seq(S) /\ Len(Tail(q)) = Len(q) - 1
             /\ \A i \in 1 .. Len(q) - 1 : Tail(q)[i] = q[i + 1]
  BY <1>1, <1>2, HeadTailProperties, EmptySeq
<1>3. ASSUME NEW x \in S
      PROVE  /\ Append(q, x) \in Seq(S) /\ Len(Append(q, x)) = Len(q) + 1
             /\ Append(q, x)[Len(q) + 1] = x
             /\ \A i \in 1 .. Len(q) : Append(q, x)[i] = q[i]
  BY <1>3, AppendProperties
<1> QED
  BY <1>1, <1>2, <1>3

\* Whether one queue is as good as another: no workspace waits twice.
Once(q) == \A i, j \in DOMAIN q : q[i] = q[j] => i = j

\* Who waits after the head has gone.
LEMMA TailOnce ==
  ASSUME NEW q \in Seq(Workspaces), q # <<>>, Once(q)
  PROVE  /\ Once(Tail(q))
         /\ \A w \in Workspaces :
              Queued(Tail(q), w) <=> Queued(q, w) /\ w # Head(q)
<1>1. /\ DOMAIN q = 1 .. Len(q) /\ Len(q) \in Nat
      /\ Len(q) >= 1 /\ Head(q) = q[1]
      /\ Tail(q) \in Seq(Workspaces) /\ Len(Tail(q)) = Len(q) - 1
      /\ \A i \in 1 .. Len(q) - 1 : Tail(q)[i] = q[i + 1]
  BY QueueFields
<1>2. DOMAIN Tail(q) = 1 .. Len(q) - 1
  BY <1>1, QueueFields
<1>3. Once(Tail(q))
  BY <1>1, <1>2 DEF Once
<1>4. ASSUME NEW w \in Workspaces
      PROVE  Queued(Tail(q), w) <=> Queued(q, w) /\ w # Head(q)
  <2>1. ASSUME Queued(Tail(q), w) PROVE Queued(q, w) /\ w # Head(q)
    <3>1. PICK i \in 1 .. Len(q) - 1 : Tail(q)[i] = w
      BY <1>2, <2>1 DEF Queued
    <3>2. i + 1 \in DOMAIN q /\ q[i + 1] = w /\ i + 1 # 1 /\ 1 \in DOMAIN q
      BY <1>1, <3>1
    <3> QED
      BY <1>1, <3>2 DEF Once, Queued
  <2>2. ASSUME Queued(q, w), w # Head(q) PROVE Queued(Tail(q), w)
    <3>1. PICK i \in DOMAIN q : q[i] = w
      BY <2>2 DEF Queued
    <3>2. i # 1
      BY <1>1, <2>2, <3>1
    <3>3. i - 1 \in 1 .. Len(q) - 1 /\ (i - 1) + 1 = i
      BY <1>1, <3>2
    <3>4. Tail(q)[i - 1] = w
      BY <1>1, <3>1, <3>3
    <3> QED
      BY <1>2, <3>3, <3>4 DEF Queued
  <2> QED
    BY <2>1, <2>2
<1> QED
  BY <1>1, <1>3, <1>4

\* Who waits after an append.
LEMMA AppendOnce ==
  ASSUME NEW q \in Seq(Workspaces), Once(q),
         NEW x \in Workspaces, ~Queued(q, x)
  PROVE  /\ Once(Append(q, x))
         /\ \A w \in Workspaces : Queued(Append(q, x), w) <=> Queued(q, w) \/ w = x
<1>1. /\ DOMAIN q = 1 .. Len(q) /\ Len(q) \in Nat
      /\ Append(q, x) \in Seq(Workspaces) /\ Len(Append(q, x)) = Len(q) + 1
      /\ Append(q, x)[Len(q) + 1] = x
      /\ \A i \in 1 .. Len(q) : Append(q, x)[i] = q[i]
  BY QueueFields
<1>2. DOMAIN Append(q, x) = 1 .. Len(q) + 1
  BY <1>1, QueueFields
<1>3. \A i \in DOMAIN q : q[i] # x
  BY DEF Queued
<1>4. Once(Append(q, x))
  BY <1>1, <1>2, <1>3 DEF Once
<1>5. ASSUME NEW w \in Workspaces
      PROVE  Queued(Append(q, x), w) <=> Queued(q, w) \/ w = x
  BY <1>1, <1>2 DEF Queued
<1> QED
  BY <1>4, <1>5

-----------------------------------------------------------------------------
(* Workers. *)

\* The types of what the workers keep.
WorkTypes ==
  /\ applied \in [Workspaces -> BOOLEAN]
  /\ workers \in [Workspaces -> Revisions \cup {NoWorker}]
  /\ tasks \in [Workspaces -> SUBSET Task]
  /\ cycle \in [Workspaces -> [state : Cycles, gen : Revisions, early : BOOLEAN]]
  /\ queue \in Seq(Workspaces)

Idles(w) == phase = "running" /\ tasks[w] = {} => applied[w] = stable[w]

\* A worker that goes on with nothing in flight: it has one call or none, and
\* none only if what it applied is stable.
LEMMA WorkKeeps ==
  ASSUME TypeOK, WorkInv, QueueInv, CycleInv, NEW w \in Workspaces,
         NEW ap \in BOOLEAN,
         NEW c \in [state : Cycles, gen : Revisions, early : BOOLEAN],
         NEW q \in Seq(Workspaces),
         Work(w, ap, c, q, {}),
         stable' \in [Workspaces -> BOOLEAN], UNCHANGED <<gen, seeded, phase>>,
         Once(q), ~Queued(q, w),
         \A v \in Workspaces \ {w} : Queued(q, v) <=> Queued(queue, v),
         ap => c.state = "none" \/ c.gen = gen[w] \/ c.early,
         ~seeded => c.state = "none" \/ c.early
  PROVE  /\ WorkTypes' /\ WorkInv' /\ QueueInv' /\ CycleInv'
         /\ Idles(w)'
         /\ \A v \in Workspaces \ {w} : tasks'[v] = tasks[v] /\ applied'[v] = applied[v]
<1> DEFINE due == phase = "running" /\ stable'[w] # ap
           capture == due /\ stable'[w]
           complete == due /\ ~stable'[w] /\ Completable(c)
           task(at) == [gen |-> gen[w], edge |-> stable'[w], at |-> at]
           fresh == [state |-> "pending", gen |-> gen[w], early |-> ~seeded]
<1>1. /\ applied' = [applied EXCEPT ![w] = IF due /\ ~capture /\ ~complete
                                            THEN FALSE ELSE ap]
      /\ tasks' = [tasks EXCEPT ![w] =
            IF capture THEN {} \cup {task("resolving")}
            ELSE IF complete THEN {} \cup {task("snapshot")} ELSE {}]
      /\ workers' = [workers EXCEPT ![w] =
            IF capture \/ complete THEN gen[w] ELSE NoWorker]
      /\ cycle' = [cycle EXCEPT ![w] = IF capture THEN fresh ELSE c]
      /\ queue' = IF complete THEN Append(q, w) ELSE q
  BY DEF Work
<1>2. /\ gen[w] \in Revisions /\ stable'[w] \in BOOLEAN /\ gen[w] # NoWorker
      /\ seeded \in BOOLEAN /\ MaxChanges \in Nat
  BY DEF TypeOK, NoWorker
<1>3. /\ fresh \in [state : Cycles, gen : Revisions, early : BOOLEAN]
      /\ \A at \in {"resolving", "snapshot"} : task(at) \in Task
  BY <1>2 DEF Cycles, Task
<1>4. /\ applied \in [Workspaces -> BOOLEAN]
      /\ workers \in [Workspaces -> Revisions \cup {NoWorker}]
      /\ tasks \in [Workspaces -> SUBSET Task]
      /\ cycle \in [Workspaces -> [state : Cycles, gen : Revisions, early : BOOLEAN]]
  BY DEF TypeOK
<1>5. /\ capture \in BOOLEAN /\ complete \in BOOLEAN
      /\ \A v \in Workspaces \ {w} :
           /\ tasks'[v] = tasks[v] /\ applied'[v] = applied[v]
           /\ workers'[v] = workers[v] /\ cycle'[v] = cycle[v]
  BY <1>1, <1>4
<1>6. CASE capture
  <2>1. /\ tasks'[w] = {task("resolving")} /\ workers'[w] = gen[w]
        /\ cycle'[w] = fresh /\ queue' = q /\ applied'[w] = FALSE
        /\ stable'[w] = TRUE
    BY <1>1, <1>2, <1>4, <1>6
  <2>a. PICK x : x = task("resolving")
    OBVIOUS
  <2>b. /\ x.edge = TRUE /\ x.gen = gen[w] /\ x.at = "resolving"
        /\ tasks'[w] = {x}
        /\ cycle'[w].state = "pending" /\ cycle'[w].gen = gen[w]
    BY <2>1, <2>a
  <2>2. WorkTypes'
    <3>1. applied' \in [Workspaces -> BOOLEAN]
      BY <1>1, <1>4
    <3>2. workers' \in [Workspaces -> Revisions \cup {NoWorker}]
      BY <1>1, <1>2, <1>4
    <3>3. tasks' \in [Workspaces -> SUBSET Task]
      <4>1. {task("resolving")} \in SUBSET Task
        BY <1>3
      <4> QED
        BY <1>1, <1>4, <1>6, <4>1
    <3>4. cycle' \in [Workspaces -> [state : Cycles, gen : Revisions, early : BOOLEAN]]
      BY <1>1, <1>3, <1>4, <1>6
    <3> QED
      BY <2>1, <3>1, <3>2, <3>3, <3>4 DEF WorkTypes
  <2>3. WorkInv'
    <3> SUFFICES ASSUME NEW v \in Workspaces
                 PROVE  /\ \A s, t \in tasks'[v] : s = t
                        /\ workers'[v] = NoWorker <=> tasks'[v] = {}
                        /\ \A t \in tasks'[v] :
                             IF t.edge THEN /\ cycle'[v].state = "pending"
                                            /\ cycle'[v].gen = t.gen
                             ELSE /\ t.at = "snapshot" /\ cycle'[v].state = "captured"
                                  /\ cycle'[v].gen = t.gen \/ cycle'[v].early
      BY DEF WorkInv
    <3>1. CASE v = w
      BY <1>2, <2>1, <2>b, <3>1
    <3>2. CASE v # w
      BY <1>5, <3>2 DEF WorkInv
    <3> QED
      BY <3>1, <3>2
  <2>4. QueueInv'
    <3>1. \A v \in Workspaces :
            Queued(q, v) <=> \E t \in tasks'[v] : t.at = "snapshot"
      <4> SUFFICES ASSUME NEW v \in Workspaces
                   PROVE  Queued(q, v) <=> \E t \in tasks'[v] : t.at = "snapshot"
        OBVIOUS
      <4>1. CASE v = w
        BY <2>b, <4>1
      <4>2. CASE v # w
        BY <1>5, <4>2 DEF QueueInv
      <4> QED
        BY <4>1, <4>2
    <3> QED
      BY <2>1, <3>1 DEF QueueInv, Once, Queued
  <2>5. CycleInv'
    <3>1. \A v \in Workspaces \ {w} : applied'[v] = applied[v] /\ cycle'[v] = cycle[v]
      BY <1>5
    <3>2. cycle'[w].early = ~seeded
      BY <2>1
    <3> QED
      BY <2>1, <3>1, <3>2 DEF CycleInv
  <2> QED
    BY <1>5, <2>1, <2>2, <2>3, <2>4, <2>5 DEF Idles
<1>7. CASE complete
  <2>1. /\ tasks'[w] = {task("snapshot")} /\ workers'[w] = gen[w]
        /\ cycle'[w] = c /\ queue' = Append(q, w) /\ applied'[w] = ap
        /\ stable'[w] = FALSE /\ ap = TRUE /\ c.state = "captured"
    BY <1>1, <1>2, <1>4, <1>7 DEF Completable
  <2>a. PICK x : x = task("snapshot")
    OBVIOUS
  <2>b. /\ x.edge = FALSE /\ x.gen = gen[w] /\ x.at = "snapshot"
        /\ tasks'[w] = {x}
    BY <2>1, <2>a
  <2>2. WorkTypes'
    <3>1. applied' \in [Workspaces -> BOOLEAN]
      BY <1>1, <1>4
    <3>2. workers' \in [Workspaces -> Revisions \cup {NoWorker}]
      BY <1>1, <1>2, <1>4
    <3>3. tasks' \in [Workspaces -> SUBSET Task]
      <4>1. {task("snapshot")} \in SUBSET Task
        BY <1>3
      <4>2. ~capture
        BY <2>1
      <4> QED
        BY <1>1, <1>4, <1>7, <4>1, <4>2
    <3>4. cycle' \in [Workspaces -> [state : Cycles, gen : Revisions, early : BOOLEAN]]
      BY <1>1, <1>3, <1>4
    <3>5. queue' \in Seq(Workspaces)
      BY <2>1, QueueFields
    <3> QED
      BY <3>1, <3>2, <3>3, <3>4, <3>5 DEF WorkTypes
  <2>3. WorkInv'
    <3> SUFFICES ASSUME NEW v \in Workspaces
                 PROVE  /\ \A s, t \in tasks'[v] : s = t
                        /\ workers'[v] = NoWorker <=> tasks'[v] = {}
                        /\ \A t \in tasks'[v] :
                             IF t.edge THEN /\ cycle'[v].state = "pending"
                                            /\ cycle'[v].gen = t.gen
                             ELSE /\ t.at = "snapshot" /\ cycle'[v].state = "captured"
                                  /\ cycle'[v].gen = t.gen \/ cycle'[v].early
      BY DEF WorkInv
    <3>1. CASE v = w
      BY <1>2, <2>1, <2>b, <3>1
    <3>2. CASE v # w
      BY <1>5, <3>2 DEF WorkInv
    <3> QED
      BY <3>1, <3>2
  <2>4. QueueInv'
    <3>1. \A v \in Workspaces :
            Queued(queue', v) <=> \E t \in tasks'[v] : t.at = "snapshot"
      <4> SUFFICES ASSUME NEW v \in Workspaces
                   PROVE  Queued(queue', v) <=> \E t \in tasks'[v] : t.at = "snapshot"
        OBVIOUS
      <4>1. Queued(queue', v) <=> Queued(q, v) \/ v = w
        BY <2>1, AppendOnce
      <4>2. CASE v = w
        <5>1. task("snapshot") \in tasks'[v] /\ task("snapshot").at = "snapshot"
          BY <2>1, <4>2
        <5> QED
          BY <4>1, <4>2, <5>1
      <4>3. CASE v # w
        BY <1>5, <4>1, <4>3 DEF QueueInv
      <4> QED
        BY <4>2, <4>3
    <3>2. Once(queue')
      BY <2>1, AppendOnce
    <3> QED
      BY <3>1, <3>2 DEF QueueInv, Once, Queued
  <2>5. CycleInv'
    <3>1. \A v \in Workspaces \ {w} : applied'[v] = applied[v] /\ cycle'[v] = cycle[v]
      BY <1>5
    <3> QED
      BY <2>1, <3>1 DEF CycleInv
  <2> QED
    BY <1>5, <2>1, <2>2, <2>3, <2>4, <2>5 DEF Idles
<1>8. CASE ~capture /\ ~complete
  <2>1. /\ tasks'[w] = {} /\ workers'[w] = NoWorker
        /\ cycle'[w] = c /\ queue' = q
        /\ applied'[w] = (IF due THEN FALSE ELSE ap)
    BY <1>1, <1>2, <1>4, <1>8
  <2>2. WorkTypes'
    <3>1. applied' \in [Workspaces -> BOOLEAN]
      BY <1>1, <1>4
    <3>2. workers' \in [Workspaces -> Revisions \cup {NoWorker}]
      BY <1>1, <1>2, <1>4
    <3>3. tasks' \in [Workspaces -> SUBSET Task]
      BY <1>1, <1>4, <1>8
    <3>4. cycle' \in [Workspaces -> [state : Cycles, gen : Revisions, early : BOOLEAN]]
      BY <1>1, <1>3, <1>4
    <3> QED
      BY <2>1, <3>1, <3>2, <3>3, <3>4 DEF WorkTypes
  <2>3. WorkInv'
    <3> SUFFICES ASSUME NEW v \in Workspaces
                 PROVE  /\ \A s, t \in tasks'[v] : s = t
                        /\ workers'[v] = NoWorker <=> tasks'[v] = {}
                        /\ \A t \in tasks'[v] :
                             IF t.edge THEN /\ cycle'[v].state = "pending"
                                            /\ cycle'[v].gen = t.gen
                             ELSE /\ t.at = "snapshot" /\ cycle'[v].state = "captured"
                                  /\ cycle'[v].gen = t.gen \/ cycle'[v].early
      BY DEF WorkInv
    <3>1. CASE v = w
      BY <2>1, <3>1
    <3>2. CASE v # w
      BY <1>5, <3>2 DEF WorkInv
    <3> QED
      BY <3>1, <3>2
  <2>4. QueueInv'
    <3>1. \A v \in Workspaces :
            Queued(q, v) <=> \E t \in tasks'[v] : t.at = "snapshot"
      <4> SUFFICES ASSUME NEW v \in Workspaces
                   PROVE  Queued(q, v) <=> \E t \in tasks'[v] : t.at = "snapshot"
        OBVIOUS
      <4>1. CASE v = w
        BY <2>1, <4>1
      <4>2. CASE v # w
        BY <1>5, <4>2 DEF QueueInv
      <4> QED
        BY <4>1, <4>2
    <3> QED
      BY <2>1, <3>1 DEF QueueInv, Once, Queued
  <2>5. CycleInv'
    <3>1. \A v \in Workspaces \ {w} : applied'[v] = applied[v] /\ cycle'[v] = cycle[v]
      BY <1>5
    <3>2. applied'[w] => ap
      BY <2>1
    <3> QED
      BY <2>1, <3>1, <3>2 DEF CycleInv
  <2>6. phase = "running" => applied'[w] = stable'[w]
    BY <1>2, <1>8, <2>1
  <2> QED
    BY <1>5, <2>2, <2>3, <2>4, <2>5, <2>6 DEF Idles
<1> QED
  BY <1>5, <1>6, <1>7, <1>8

-----------------------------------------------------------------------------
(* What the steps of the workers leave alone, and what the others do. *)

\* Everything that is not the workers'.
Outside ==
  UNCHANGED <<server, changes, latest, life, status, listing, listed, panes,
              paneRev, closedRev, rev, told, seeded, phase, gen>>

\* The workers' state.
Inside == UNCHANGED <<workers, tasks, cycle, queue>>

\* The types of the rest.
OtherTypes ==
  /\ server \in Maps /\ changes \in Revisions
  /\ life \in Seq(Message) /\ status \in Seq(Message)
  /\ listing \in [at : {"none", "asked", "answered"}, rev : Revisions,
                  seen : Revisions, panes : Maps]
  /\ panes \in Maps /\ paneRev \in [Panes -> Revisions]
  /\ closedRev \in [Workspaces -> Revisions] /\ rev \in Revisions
  /\ seeded \in BOOLEAN
  /\ stable \in [Workspaces -> BOOLEAN]
  /\ pending \in [Workspaces -> {"none", "quiet", "active"}]
  /\ gen \in [Workspaces -> Revisions]
  /\ phase \in {"running", "stopping", "stopped"}
  /\ latest \in [Panes -> Revisions] /\ told \in [Panes -> BOOLEAN]
  /\ listed \in BOOLEAN

\* Both kinds are all there is.
LEMMA Types == TypeOK <=> OtherTypes /\ WorkTypes
BY DEF TypeOK, OtherTypes, WorkTypes

\* So after a step.
LEMMA TypesNext == OtherTypes' /\ WorkTypes' => TypeOK'
BY DEF TypeOK, OtherTypes, WorkTypes

\* The parts about events and listings.
WireInv == MessageInv /\ RevisionInv /\ ListingInv /\ ListedInv /\ EventsOutliveListings

\* A step of a worker does not disturb them.
LEMMA OutsideKeeps ==
  ASSUME WireInv, Outside
  PROVE  WireInv'
<1>1. MessageInv'
  BY DEF WireInv, Outside, MessageInv, Truthful
<1>2. RevisionInv'
  BY DEF WireInv, Outside, RevisionInv
<1>3. ListingInv' /\ ListedInv' /\ EventsOutliveListings'
  BY DEF WireInv, Outside, ListingInv, ListedInv, EventsOutliveListings
<1> QED
  BY <1>1, <1>2, <1>3 DEF WireInv

\* The parts of the invariant.
LEMMA Parts ==
  IInv <=> TypeOK /\ WireInv /\ WorkInv /\ QueueInv /\ CycleInv /\ StableInv
BY DEF IInv, WireInv

\* So after a step.
LEMMA PartsNext ==
  TypeOK' /\ WireInv' /\ WorkInv' /\ QueueInv' /\ CycleInv' /\ StableInv' => IInv'
BY DEF IInv, WireInv

\* A call that ends: the worker goes on, and applies the edge of the call
\* only in the life the call began in.
LEMMA CallEndsKeeps ==
  ASSUME IInv, NEW w \in Workspaces, NEW t \in tasks[w], NEW ok \in BOOLEAN,
         NEW q \in Seq(Workspaces), CallEnds(w, t, ok, q),
         Once(q), ~Queued(q, w),
         \A v \in Workspaces \ {w} : Queued(q, v) <=> Queued(queue, v)
  PROVE  IInv'
<1> DEFINE ap == Consumed(w, t)
           c == Ended(w, t, ok)
<1>1. TypeOK /\ WireInv /\ WorkInv /\ QueueInv /\ CycleInv /\ StableInv
  BY Parts
<1>2. Outside /\ UNCHANGED <<stable, pending>>
  BY DEF CallEnds, Outside
<1>3. /\ applied[w] \in BOOLEAN /\ t \in Task /\ gen[w] \in Revisions
      /\ cycle[w] \in [state : Cycles, gen : Revisions, early : BOOLEAN]
      /\ t.edge \in BOOLEAN
  BY <1>1 DEF TypeOK, Task
<1>4. ap \in BOOLEAN
  BY <1>3 DEF Consumed
<1>5. /\ c \in [state : Cycles, gen : Revisions, early : BOOLEAN]
      /\ c.gen = cycle[w].gen /\ c.early = cycle[w].early /\ c.state # "none"
  BY <1>3 DEF Ended, Cycles
<1>6. tasks[w] \ {t} = {}
  BY <1>1 DEF WorkInv
<1>7. Work(w, ap, c, q, {})
  BY <1>6 DEF CallEnds
<1>8. /\ t.edge => cycle[w].state = "pending" /\ cycle[w].gen = t.gen
      /\ cycle[w].state # "none"
  BY <1>1 DEF WorkInv
<1>9. ap => c.gen = gen[w] \/ c.early
  <2>1. applied[w] => cycle[w].gen = gen[w] \/ cycle[w].early
    BY <1>1, <1>8 DEF CycleInv
  <2> QED
    BY <1>3, <1>5, <1>8, <2>1 DEF Consumed
<1>10. ~seeded => c.early
  BY <1>1, <1>5, <1>8 DEF CycleInv
<1>11. stable' \in [Workspaces -> BOOLEAN] /\ UNCHANGED <<gen, seeded, phase>>
  BY <1>1, <1>2 DEF TypeOK, Outside
<1>12. /\ WorkTypes' /\ WorkInv' /\ QueueInv' /\ CycleInv' /\ Idles(w)'
       /\ \A v \in Workspaces \ {w} : tasks'[v] = tasks[v] /\ applied'[v] = applied[v]
  <2> HIDE DEF ap, c
  <2> QED
    BY <1>1, <1>4, <1>5, <1>7, <1>9, <1>10, <1>11, WorkKeeps
<1>13. OtherTypes'
  BY <1>1, <1>2, Types DEF OtherTypes, Outside
<1>14. WireInv'
  BY <1>1, <1>2, OutsideKeeps
<1>15. StableInv'
  <2>1. stable' = stable /\ pending' = pending /\ panes' = panes /\ phase' = phase
    BY <1>2 DEF Outside
  <2> QED
    BY <1>1, <1>12, <2>1 DEF StableInv, Idles, ActiveIn
<1> QED
  BY <1>12, <1>13, <1>14, <1>15, TypesNext, PartsNext

\* The queue with its head gone, when the head's call ends.
LEMMA SnapshotEndsKeeps ==
  ASSUME IInv, NEW w \in Workspaces, SnapshotEnds(w)
  PROVE  IInv'
<1>1. /\ queue \in Seq(Workspaces) /\ queue # <<>> /\ Head(queue) = w
  BY DEF SnapshotEnds, IInv, TypeOK
<1>2. PICK t \in tasks[w], ok \in BOOLEAN : CallEnds(w, t, ok, Tail(queue))
  BY DEF SnapshotEnds
<1>3. Once(queue)
  BY DEF IInv, QueueInv, Once
<1>4. /\ Once(Tail(queue)) /\ Tail(queue) \in Seq(Workspaces)
      /\ \A v \in Workspaces : Queued(Tail(queue), v) <=> Queued(queue, v) /\ v # w
  BY <1>1, <1>3, TailOnce, QueueFields
<1> QED
  BY <1>2, <1>4, CallEndsKeeps

\* A call that ends before it waited for its turn.
LEMMA ResolveRootFailsKeeps ==
  ASSUME IInv, NEW w \in Workspaces, ResolveRootFails(w)
  PROVE  IInv'
<1>1. PICK t \in tasks[w] : t.at = "resolving" /\ CallEnds(w, t, FALSE, queue)
  BY DEF ResolveRootFails
<1>2. queue \in Seq(Workspaces) /\ Once(queue)
  BY DEF IInv, TypeOK, QueueInv, Once
<1>3. ~Queued(queue, w)
  BY <1>1 DEF IInv, WorkInv, QueueInv
<1> QED
  BY <1>1, <1>2, <1>3, CallEndsKeeps

\* A call that takes its place in the queue.
LEMMA ResolveRootKeeps ==
  ASSUME IInv, NEW w \in Workspaces, ResolveRoot(w)
  PROVE  IInv'
<1>1. PICK t \in tasks[w] :
        /\ t.at = "resolving"
        /\ tasks' = [tasks EXCEPT ![w] = (@ \ {t}) \cup {[t EXCEPT !.at = "snapshot"]}]
        /\ queue' = Append(queue, w)
        /\ UNCHANGED <<serverVars, wireVars, paneVars, edgeVars, applied,
                       workers, cycle, listVars, phase>>
  BY DEF ResolveRoot
<1>2. TypeOK /\ WireInv /\ WorkInv /\ QueueInv /\ CycleInv /\ StableInv
  BY Parts
<1>3. Outside /\ UNCHANGED <<stable, pending, applied, workers, cycle>>
  BY <1>1 DEF Outside
<1>4. /\ t \in Task /\ tasks \in [Workspaces -> SUBSET Task]
      /\ queue \in Seq(Workspaces) /\ Once(queue)
  BY <1>2 DEF TypeOK, QueueInv, Once
<1>5. PICK x : x = [t EXCEPT !.at = "snapshot"]
  OBVIOUS
<1>6. x \in Task /\ x.at = "snapshot" /\ x.gen = t.gen /\ x.edge = t.edge
  BY <1>4, <1>5 DEF Task
<1>7. tasks[w] = {t}
  BY <1>2 DEF WorkInv
<1>8. /\ tasks'[w] = {x} /\ tasks' \in [Workspaces -> SUBSET Task]
      /\ \A v \in Workspaces \ {w} : tasks'[v] = tasks[v]
  BY <1>1, <1>4, <1>5, <1>6, <1>7
<1>9. ~Queued(queue, w)
  BY <1>1, <1>7, <1>2 DEF QueueInv
<1>10. /\ queue' \in Seq(Workspaces) /\ Once(queue')
       /\ \A v \in Workspaces : Queued(queue', v) <=> Queued(queue, v) \/ v = w
  BY <1>1, <1>4, <1>9, AppendOnce, QueueFields
<1>11. TypeOK'
  <2>1. WorkTypes'
    BY <1>2, <1>3, <1>8, <1>10, Types DEF WorkTypes
  <2>2. OtherTypes'
    BY <1>2, <1>3, Types DEF OtherTypes, Outside
  <2> QED
    BY <2>1, <2>2, TypesNext
<1>12. WorkInv'
  <2> SUFFICES ASSUME NEW v \in Workspaces
               PROVE  /\ \A s, r \in tasks'[v] : s = r
                      /\ workers'[v] = NoWorker <=> tasks'[v] = {}
                      /\ \A r \in tasks'[v] :
                           IF r.edge THEN /\ cycle'[v].state = "pending"
                                          /\ cycle'[v].gen = r.gen
                           ELSE /\ r.at = "snapshot" /\ cycle'[v].state = "captured"
                                /\ cycle'[v].gen = r.gen \/ cycle'[v].early
    BY DEF WorkInv
  <2>1. workers' = workers /\ cycle' = cycle
    BY <1>3
  <2>2. CASE v = w
    BY <1>2, <1>6, <1>7, <1>8, <2>1, <2>2 DEF WorkInv
  <2>3. CASE v # w
    BY <1>2, <1>8, <2>1, <2>3 DEF WorkInv
  <2> QED
    BY <2>2, <2>3
<1>13. QueueInv'
  <2>1. ASSUME NEW v \in Workspaces
        PROVE  Queued(queue', v) <=> \E r \in tasks'[v] : r.at = "snapshot"
    <3>1. CASE v = w
      BY <1>6, <1>8, <1>10, <3>1
    <3>2. CASE v # w
      BY <1>2, <1>8, <1>10, <3>2 DEF QueueInv
    <3> QED
      BY <3>1, <3>2
  <2> QED
    BY <1>10, <2>1 DEF QueueInv, Once, Queued
<1>14. CycleInv'
  BY <1>2, <1>3 DEF CycleInv, Outside
<1>15. StableInv'
  <2>1. /\ stable' = stable /\ pending' = pending /\ panes' = panes /\ phase' = phase
        /\ applied' = applied
    BY <1>3 DEF Outside
  <2>2. \A v \in Workspaces : tasks'[v] = {} => tasks[v] = {}
    BY <1>8
  <2> QED
    BY <1>2, <2>1, <2>2 DEF StableInv, ActiveIn
<1> QED
  BY <1>2, <1>3, <1>11, <1>12, <1>13, <1>14, <1>15, OutsideKeeps, PartsNext

\* The debounce timer: an edge that is committed starts a worker if there is
\* none.
LEMMA TimerFiresKeeps ==
  ASSUME IInv, NEW w \in Workspaces, TimerFires(w)
  PROVE  IInv'
<1> DEFINE active == pending[w] = "active"
           commit == ActiveIn(panes, w) = active /\ stable[w] # active
<1>1. TypeOK /\ WireInv /\ WorkInv /\ QueueInv /\ CycleInv /\ StableInv
  BY Parts
<1>2. /\ phase = "running" /\ pending[w] # "none"
      /\ pending' = [pending EXCEPT ![w] = "none"]
      /\ stable' = IF commit THEN [stable EXCEPT ![w] = active] ELSE stable
      /\ IF commit /\ Idle(w)
         THEN Work(w, applied[w], cycle[w], queue, tasks[w])
         ELSE UNCHANGED workVars
      /\ Outside
  BY DEF TimerFires, Outside
<1>3. /\ pending \in [Workspaces -> {"none", "quiet", "active"}]
      /\ stable \in [Workspaces -> BOOLEAN] /\ applied \in [Workspaces -> BOOLEAN]
      /\ cycle \in [Workspaces -> [state : Cycles, gen : Revisions, early : BOOLEAN]]
      /\ queue \in Seq(Workspaces)
  BY <1>1 DEF TypeOK
<1>4. /\ pending' \in [Workspaces -> {"none", "quiet", "active"}]
      /\ stable' \in [Workspaces -> BOOLEAN]
      /\ \A v \in Workspaces \ {w} : stable'[v] = stable[v] /\ pending'[v] = pending[v]
  BY <1>2, <1>3
<1>5. OtherTypes'
  BY <1>1, <1>2, <1>4, Types DEF OtherTypes, Outside
<1>6. WireInv'
  BY <1>1, <1>2, OutsideKeeps
<1>7. ActiveIn(panes, w) => stable'[w]
  BY <1>1, <1>2, <1>3 DEF StableInv
<1>8. panes' = panes /\ phase' = phase
  BY <1>2 DEF Outside
<1>9. CASE commit /\ Idle(w)
  <2>1. tasks[w] = {}
    BY <1>1, <1>9 DEF WorkInv, Idle
  <2>2. ~Queued(queue, w) /\ Once(queue)
    BY <1>1, <2>1 DEF QueueInv, Once
  <2>3. Work(w, applied[w], cycle[w], queue, {})
    BY <1>2, <1>9, <2>1
  <2>4. /\ applied[w] \in BOOLEAN
        /\ cycle[w] \in [state : Cycles, gen : Revisions, early : BOOLEAN]
        /\ UNCHANGED <<gen, seeded, phase>>
    BY <1>2, <1>3 DEF Outside
  <2>5. /\ applied[w] => \/ cycle[w].state = "none"
                         \/ cycle[w].gen = gen[w] \/ cycle[w].early
        /\ ~seeded => cycle[w].state = "none" \/ cycle[w].early
    BY <1>1 DEF CycleInv
  <2>6. /\ WorkTypes' /\ WorkInv' /\ QueueInv' /\ CycleInv' /\ Idles(w)'
        /\ \A v \in Workspaces \ {w} : tasks'[v] = tasks[v] /\ applied'[v] = applied[v]
    BY <1>1, <1>3, <1>4, <2>2, <2>3, <2>4, <2>5, WorkKeeps
  <2>7. StableInv'
    BY <1>1, <1>2, <1>4, <1>7, <1>8, <2>6 DEF StableInv, Idles, ActiveIn
  <2> QED
    BY <1>5, <1>6, <2>6, <2>7, TypesNext, PartsNext
<1>10. CASE ~(commit /\ Idle(w))
  <2>1. UNCHANGED workVars
    BY <1>2, <1>10
  <2>2. WorkTypes' /\ WorkInv' /\ QueueInv'
    BY <1>1, <2>1, Types DEF WorkTypes, WorkInv, QueueInv, Queued
  <2>3. CycleInv'
    BY <1>1, <1>2, <2>1 DEF CycleInv, Outside
  <2>4. Idles(w)'
    BY <1>1, <1>2, <1>8, <1>10, <2>1 DEF Idles, Idle, WorkInv, StableInv
  <2>5. StableInv'
    BY <1>1, <1>2, <1>4, <1>7, <1>8, <2>1, <2>4 DEF StableInv, Idles, ActiveIn
  <2> QED
    BY <1>5, <1>6, <2>2, <2>3, <2>5, TypesNext, PartsNext
<1> QED
  BY <1>9, <1>10

-----------------------------------------------------------------------------
(* Changes at Herdr. *)

\* Messages l are messages q and m.
Grown(l, q, m) ==
  /\ l \in Seq(Message) /\ Len(l) = Len(q) + 1 /\ Len(q) \in Nat
  /\ \A i \in DOMAIN l : l[i] = m \/ (i \in DOMAIN q /\ l[i] = q[i])

\* A message that is announced.
LEMMA AppendGrows ==
  ASSUME NEW q \in Seq(Message), NEW m \in Message
  PROVE  Grown(Append(q, m), q, m)
<1>1. /\ Append(q, m) \in Seq(Message) /\ Len(Append(q, m)) = Len(q) + 1
      /\ Append(q, m)[Len(q) + 1] = m
      /\ \A i \in 1 .. Len(q) : Append(q, m)[i] = q[i]
      /\ DOMAIN q = 1 .. Len(q) /\ Len(q) \in Nat
  BY QueueFields
<1>2. DOMAIN Append(q, m) = 1 .. Len(q) + 1
  BY <1>1, QueueFields
<1>3. ASSUME NEW l, l \in Seq(Message), Len(l) = Len(q) + 1, l[Len(q) + 1] = m,
             \A i \in 1 .. Len(q) : l[i] = q[i], DOMAIN l = 1 .. Len(q) + 1
      PROVE  Grown(l, q, m)
  BY <1>1, <1>3 DEF Grown
<1> QED
  BY <1>1, <1>2, <1>3, Zenon

\* A change makes what it says of its panes so, and older messages about them
\* are known to be older.
LEMMA ChangeKeeps ==
  ASSUME IInv, NEW ps \in SUBSET Panes, Change(ps), server' \in Maps,
         \A p \in Panes \ ps : server'[p] = server[p],
         NEW m \in Message, m.n = changes + 1, Truthful(m)',
         \/ UNCHANGED <<life, status>>
         \/ life' = Append(life, m) /\ UNCHANGED status
         \/ status' = Append(status, m) /\ UNCHANGED life /\ m.kind = "status"
  PROVE  IInv'
<1>1. TypeOK /\ WireInv /\ WorkInv /\ QueueInv /\ CycleInv /\ StableInv
  BY Parts
<1>2. /\ phase = "running" /\ changes < MaxChanges /\ changes' = changes + 1
      /\ listed' = FALSE
      /\ latest' = [p \in Panes |-> IF p \in ps THEN changes + 1 ELSE latest[p]]
      /\ told' = [p \in Panes |-> p \notin ps /\ told[p]]
      /\ UNCHANGED <<panes, paneRev, closedRev, rev, stable, pending, gen, applied,
                     workers, tasks, cycle, queue, listing, seeded, phase>>
  BY DEF Change
<1>3. /\ changes \in Nat /\ MaxChanges \in Nat /\ changes + 1 \in Revisions
      /\ latest \in [Panes -> Revisions] /\ told \in [Panes -> BOOLEAN]
      /\ life \in Seq(Message) /\ status \in Seq(Message) /\ rev \in Nat
  BY <1>1, <1>2 DEF TypeOK
<1>4. WorkTypes' /\ WorkInv' /\ QueueInv' /\ CycleInv' /\ StableInv'
  <2>1. WorkTypes'
    BY <1>1, <1>2, Types DEF WorkTypes
  <2>2. WorkInv' /\ QueueInv' /\ CycleInv'
    BY <1>1, <1>2 DEF WorkInv, QueueInv, Queued, CycleInv
  <2>3. StableInv'
    BY <1>1, <1>2 DEF StableInv, ActiveIn
  <2> QED
    BY <2>1, <2>2, <2>3
<1>a. PICK l, q : l = Append(life, m) /\ q = Append(status, m)
  OBVIOUS
<1>b. Grown(l, life, m) /\ Grown(q, status, m)
  BY <1>3, <1>a, AppendGrows
<1>c. /\ l \in Seq(Message) /\ Len(l) = Len(life) + 1 /\ Len(life) \in Nat
      /\ \A i \in DOMAIN l : l[i] = m \/ (i \in DOMAIN life /\ l[i] = life[i])
      /\ q \in Seq(Message) /\ Len(q) = Len(status) + 1 /\ Len(status) \in Nat
      /\ \A i \in DOMAIN q : q[i] = m \/ (i \in DOMAIN status /\ q[i] = status[i])
  BY <1>b DEF Grown
<1>d. \/ life' = life /\ status' = status
      \/ life' = l /\ status' = status
      \/ status' = q /\ life' = life /\ m.kind = "status"
  BY <1>a
<1>5. /\ life' \in Seq(Message) /\ status' \in Seq(Message)
      /\ Len(life') + Len(status') <= Len(life) + Len(status) + 1
      /\ Len(life) \in Nat /\ Len(status) \in Nat
      /\ Len(life') \in Nat /\ Len(status') \in Nat
  BY <1>3, <1>c, <1>d
<1>6. OtherTypes'
  <2>1. latest' \in [Panes -> Revisions] /\ told' \in [Panes -> BOOLEAN]
    BY <1>2, <1>3
  <2> QED
    BY <1>1, <1>2, <1>3, <1>5, <2>1, Types DEF OtherTypes
<1>7. MessageInv'
  <2>1. ASSUME NEW x \in Message, Truthful(x) PROVE Truthful(x)'
    <3>1. /\ x.n <= changes /\ x.n \in Nat
      BY <2>1, MessageFields DEF Truthful
    <3>2. ASSUME NEW p \in Panes, x.n = latest'[p]
          PROVE  x.n = latest[p] /\ server'[p] = server[p]
      <4>1. p \notin ps
        BY <1>2, <1>3, <3>1, <3>2
      <4> QED
        BY <1>2, <3>2, <4>1
    <3>3. x.n <= changes'
      BY <1>2, <1>3, <3>1
    <3>4. /\ x.kind \in {"status", "closed", "moved"} => x.pane \in Panes
          /\ x.kind = "moved" => x.from \in Panes
      BY MessageFields
    <3>5. /\ x.kind \in {"status", "closed", "moved"} /\ x.n = latest'[x.pane]
               => x.now = server'[x.pane]
          /\ x.kind = "moved" /\ x.from # x.pane /\ x.n = latest'[x.from]
               => server'[x.from] = Gone
      BY <2>1, <3>2, <3>4 DEF Truthful
    <3>6. x.kind = "workspace" =>
            \A p \in Panes : x.n = latest'[p] => server'[p] = Gone
      BY <2>1, <3>2 DEF Truthful
    <3>7. x.kind = "closed" => x.now = Gone
      BY <2>1 DEF Truthful
    <3> QED
      BY <3>3, <3>5, <3>6, <3>7 DEF Truthful
  <2>2. \A i \in DOMAIN life' : life'[i] = m \/ (i \in DOMAIN life /\ life'[i] = life[i])
    BY <1>3, <1>c, <1>d
  <2>3. \A i \in DOMAIN status' : \/ status'[i] = m /\ m.kind = "status"
                                  \/ i \in DOMAIN status /\ status'[i] = status[i]
    BY <1>3, <1>c, <1>d
  <2>4. /\ \A i \in DOMAIN life : life[i] \in Message
        /\ \A i \in DOMAIN status : status[i] \in Message
    BY <1>3, LenProperties
  <2>5. /\ rev + Len(life) + Len(status) <= changes
        /\ \A i \in DOMAIN life : Truthful(life[i])
        /\ \A i \in DOMAIN status : status[i].kind = "status" /\ Truthful(status[i])
    BY <1>1 DEF WireInv, MessageInv
  <2>6. \A i \in DOMAIN life' : Truthful(life[i])'
    <3> SUFFICES ASSUME NEW i \in DOMAIN life' PROVE Truthful(life[i])'
      OBVIOUS
    <3>1. PICK x : x = life'[i]
      OBVIOUS
    <3>2. Truthful(x)'
      BY <2>1, <2>2, <2>4, <2>5, <3>1
    <3> QED
      BY <3>1, <3>2 DEF Truthful
  <2>7. \A i \in DOMAIN status' : status'[i].kind = "status" /\ Truthful(status[i])'
    <3> SUFFICES ASSUME NEW i \in DOMAIN status'
                 PROVE  status'[i].kind = "status" /\ Truthful(status[i])'
      OBVIOUS
    <3>1. PICK x : x = status'[i]
      OBVIOUS
    <3>2. x.kind = "status" /\ Truthful(x)'
      BY <2>1, <2>3, <2>4, <2>5, <3>1
    <3> QED
      BY <3>1, <3>2 DEF Truthful
  <2>8. rev' + Len(life') + Len(status') <= changes'
    BY <1>2, <1>3, <1>5, <2>5
  <2> QED
    BY <2>6, <2>7, <2>8 DEF MessageInv
<1>8. RevisionInv'
  <2>1. listing.seen \in Nat
    BY <1>1 DEF TypeOK
  <2>2. \A p \in Panes : latest'[p] <= changes'
    BY <1>1, <1>2, <1>3 DEF WireInv, RevisionInv
  <2> QED
    BY <1>1, <1>2, <1>3, <2>1, <2>2 DEF WireInv, RevisionInv
<1>9. ListingInv' /\ ListedInv' /\ EventsOutliveListings'
  <2>1. listing.seen <= changes /\ listing.seen \in Nat
    BY <1>1 DEF WireInv, RevisionInv, TypeOK
  <2>2. listing'.seen # changes'
    BY <1>2, <1>3, <2>1
  <2>3. \A p \in Panes : told'[p] => told[p] /\ server'[p] = server[p]
    BY <1>2, <1>3
  <2>4. ListingInv'
    BY <1>1, <1>2, <2>2, <2>3 DEF WireInv, ListingInv
  <2>5. ListedInv' /\ EventsOutliveListings'
    BY <1>1, <1>2, <2>2, <2>3 DEF WireInv, ListedInv, EventsOutliveListings
  <2> QED
    BY <2>4, <2>5
<1> QED
  BY <1>4, <1>6, <1>7, <1>8, <1>9, TypesNext, PartsNext DEF WireInv

\* What is needed of the state before a change.
LEMMA ChangeStarts ==
  ASSUME TypeOK, NEW ps, Change(ps)
  PROVE  /\ server \in Maps /\ changes + 1 \in Revisions /\ changes \in Nat
         /\ changes' = changes + 1
         /\ latest' = [p \in Panes |-> IF p \in ps THEN changes + 1 ELSE latest[p]]
BY DEF TypeOK, Change

\* An agent starts or ends its turn.
LEMMA StatusChangesKeeps ==
  ASSUME IInv, NEW p \in Panes, StatusChanges(p)
  PROVE  IInv'
<1>1. /\ server[p] # Gone /\ Change({p})
      /\ server' = [server EXCEPT ![p].on = ~@]
      /\ \/ status' = Append(status, [kind |-> "status", n |-> changes + 1,
                                      pane |-> p, now |-> server'[p]])
         \/ UNCHANGED status
      /\ UNCHANGED life
  BY DEF StatusChanges
<1>2. server \in Maps /\ changes + 1 \in Revisions /\ changes' = changes + 1
  BY <1>1, ChangeStarts DEF IInv
<1>3. /\ server' \in Maps /\ server'[p] \in Pane \cup {Gone}
      /\ \A r \in Panes \ {p} : server'[r] = server[r]
  BY <1>1, <1>2 DEF Maps, Pane
<1>4. PICK m : m = [kind |-> "status", n |-> changes + 1, pane |-> p,
                    now |-> server'[p]]
  OBVIOUS
<1>5. /\ m \in Message /\ m.n = changes + 1 /\ m.kind = "status"
      /\ m.pane = p /\ m.now = server'[p]
  BY <1>2, <1>3, <1>4 DEF Message
<1>6. Truthful(m)'
  BY <1>2, <1>5, MessageFields DEF Truthful
<1>7. \/ status' = Append(status, m)
      \/ UNCHANGED status
  BY <1>1, <1>4
<1> QED
  BY <1>1, <1>3, <1>5, <1>6, <1>7, ChangeKeeps

\* An agent appears.
LEMMA PaneOpensKeeps ==
  ASSUME IInv, NEW p \in Panes, NEW w \in Workspaces, PaneOpens(p, w)
  PROVE  IInv'
<1>1. /\ Change({p}) /\ UNCHANGED <<life, status>>
      /\ server' = [server EXCEPT ![p] = [ws |-> w, on |-> FALSE]]
  BY DEF PaneOpens
<1>2. server \in Maps /\ changes + 1 \in Revisions /\ changes' = changes + 1
  BY <1>1, ChangeStarts DEF IInv
<1>3. /\ server' \in Maps /\ server'[p] \in Pane \cup {Gone}
      /\ \A r \in Panes \ {p} : server'[r] = server[r]
  BY <1>1, <1>2 DEF Maps, Pane
<1>4. PICK m : m = [kind |-> "status", n |-> changes + 1, pane |-> p,
                    now |-> server'[p]]
  OBVIOUS
<1>5. /\ m \in Message /\ m.n = changes + 1 /\ m.kind = "status"
      /\ m.pane = p /\ m.now = server'[p]
  BY <1>2, <1>3, <1>4 DEF Message
<1>6. Truthful(m)'
  BY <1>2, <1>5, MessageFields DEF Truthful
<1> QED
  BY <1>1, <1>3, <1>5, <1>6, ChangeKeeps

\* A pane closes.
LEMMA PaneClosesKeeps ==
  ASSUME IInv, NEW p \in Panes, PaneCloses(p)
  PROVE  IInv'
<1>1. /\ Change({p}) /\ server' = [server EXCEPT ![p] = Gone]
      /\ Announce([kind |-> "closed", n |-> changes + 1, pane |-> p, now |-> Gone])
  BY DEF PaneCloses
<1>2. server \in Maps /\ changes + 1 \in Revisions /\ changes' = changes + 1
  BY <1>1, ChangeStarts DEF IInv
<1>3. /\ server' \in Maps /\ server'[p] = Gone
      /\ \A r \in Panes \ {p} : server'[r] = server[r]
  BY <1>1, <1>2 DEF Maps
<1>4. PICK m : m = [kind |-> "closed", n |-> changes + 1, pane |-> p, now |-> Gone]
  OBVIOUS
<1>5. /\ m \in Message /\ m.n = changes + 1 /\ m.kind = "closed"
      /\ m.pane = p /\ m.now = server'[p] /\ m.now = Gone
  BY <1>2, <1>3, <1>4 DEF Message
<1>6. Truthful(m)'
  BY <1>2, <1>5, MessageFields DEF Truthful
<1>7. life' \in {life, Append(life, m)} /\ UNCHANGED status
  BY <1>1, <1>4 DEF Announce
<1> QED
  BY <1>1, <1>3, <1>5, <1>6, <1>7, ChangeKeeps

\* A pane moves, and keeps its id or gets a new one.
LEMMA PaneMovesKeeps ==
  ASSUME IInv, NEW p \in Panes, NEW q \in Panes, NEW w \in Workspaces,
         PaneMoves(p, q, w)
  PROVE  IInv'
<1>1. /\ server[p] # Gone /\ Change({p, q})
      /\ server' = [server EXCEPT ![p] = Gone, ![q] = [ws |-> w, on |-> server[p].on]]
      /\ Announce([kind |-> "moved", n |-> changes + 1, from |-> p,
                   fromWs |-> server[p].ws, pane |-> q, now |-> server'[q]])
  BY DEF PaneMoves
<1>2. server \in Maps /\ changes + 1 \in Revisions /\ changes' = changes + 1
  BY <1>1, ChangeStarts DEF IInv
<1>3. server[p] \in Pane /\ server[p].ws \in Workspaces /\ server[p].on \in BOOLEAN
  BY <1>1, <1>2, MapFields, PaneFields
<1>4. PICK x : x = [ws |-> w, on |-> server[p].on]
  OBVIOUS
<1>5. x \in Pane
  BY <1>3, <1>4 DEF Pane
<1>6. /\ server' \in Maps /\ server'[q] = x
      /\ p # q => server'[p] = Gone
      /\ \A r \in Panes \ {p, q} : server'[r] = server[r]
  BY <1>1, <1>2, <1>4, <1>5 DEF Maps
<1>7. PICK m : m = [kind |-> "moved", n |-> changes + 1, from |-> p,
                    fromWs |-> server[p].ws, pane |-> q, now |-> server'[q]]
  OBVIOUS
<1>8. /\ m \in Message /\ m.n = changes + 1 /\ m.kind = "moved"
      /\ m.pane = q /\ m.from = p /\ m.now = server'[q]
  BY <1>2, <1>3, <1>5, <1>6, <1>7 DEF Message
<1>9. Truthful(m)'
  BY <1>2, <1>6, <1>8, MessageFields DEF Truthful
<1>10. life' \in {life, Append(life, m)} /\ UNCHANGED status
  BY <1>1, <1>7 DEF Announce
<1> QED
  BY <1>1, <1>6, <1>8, <1>9, <1>10, ChangeKeeps

\* A workspace closes with its panes.
LEMMA WorkspaceClosesKeeps ==
  ASSUME IInv, NEW w \in Workspaces, WorkspaceCloses(w)
  PROVE  IInv'
<1> DEFINE ps == {p \in Panes : server[p].ws = w}
<1>1. /\ Change(ps)
      /\ server' = [p \in Panes |-> IF server[p].ws = w THEN Gone ELSE server[p]]
      /\ Announce([kind |-> "workspace", n |-> changes + 1, ws |-> w])
  BY DEF WorkspaceCloses
<1>2. /\ server \in Maps /\ changes + 1 \in Revisions /\ changes' = changes + 1
      /\ latest' = [p \in Panes |-> IF p \in ps THEN changes + 1 ELSE latest[p]]
      /\ changes \in Nat
  <2> HIDE DEF ps
  <2> QED
    BY <1>1, ChangeStarts DEF IInv
<1>3. /\ server' \in Maps /\ \A p \in ps : server'[p] = Gone
      /\ \A p \in Panes \ ps : server'[p] = server[p]
  BY <1>1, <1>2 DEF Maps
<1>4. PICK m : m = [kind |-> "workspace", n |-> changes + 1, ws |-> w]
  OBVIOUS
<1>5. m \in Message /\ m.n = changes + 1 /\ m.kind = "workspace"
  BY <1>2, <1>4 DEF Message
<1>6. \A p \in Panes : latest[p] <= changes /\ latest[p] \in Nat
  BY DEF IInv, RevisionInv, TypeOK
<1>7. Truthful(m)'
  <2>1. \A p \in Panes : m.n = latest'[p] => server'[p] = Gone
    BY <1>2, <1>3, <1>5, <1>6
  <2> QED
    BY <1>2, <1>5, <2>1 DEF Truthful
<1>8. life' \in {life, Append(life, m)} /\ UNCHANGED status
  BY <1>1, <1>4 DEF Announce
<1>9. ps \in SUBSET Panes
  OBVIOUS
<1> HIDE DEF ps
<1> QED
  BY <1>1, <1>3, <1>5, <1>7, <1>8, <1>9, ChangeKeeps

-----------------------------------------------------------------------------
(* Events. *)

\* The messages that are left when one is taken.
LEMMA MessagesLeft ==
  ASSUME IInv, UNCHANGED <<server, changes, latest>>,
         \/ life # <<>> /\ life' = Tail(life) /\ UNCHANGED status
         \/ status # <<>> /\ status' = Tail(status) /\ UNCHANGED life
  PROVE  /\ life' \in Seq(Message) /\ status' \in Seq(Message)
         /\ Len(life') + Len(status') + 1 = Len(life) + Len(status)
         /\ rev + 1 + Len(life') + Len(status') <= changes
         /\ Len(life') \in Nat /\ Len(status') \in Nat
         /\ \A i \in DOMAIN life' : Truthful(life[i])'
         /\ \A i \in DOMAIN status' : status'[i].kind = "status" /\ Truthful(status[i])'
<1>1. /\ life \in Seq(Message) /\ status \in Seq(Message) /\ rev \in Nat /\ changes \in Nat
      /\ rev + Len(life) + Len(status) <= changes
      /\ \A i \in DOMAIN life : Truthful(life[i])
      /\ \A i \in DOMAIN status : status[i].kind = "status" /\ Truthful(status[i])
  BY DEF IInv, TypeOK, MessageInv
<1>2. /\ DOMAIN life = 1 .. Len(life) /\ Len(life) \in Nat
      /\ DOMAIN status = 1 .. Len(status) /\ Len(status) \in Nat
  BY <1>1, QueueFields
<1>3. CASE life # <<>> /\ life' = Tail(life) /\ UNCHANGED status
  <2>1. /\ life' \in Seq(Message) /\ Len(life') = Len(life) - 1
        /\ \A i \in 1 .. Len(life) - 1 : life'[i] = life[i + 1]
    BY <1>1, <1>3, QueueFields
  <2>2. DOMAIN life' = 1 .. Len(life) - 1 /\ Len(life') \in Nat
    BY <2>1, QueueFields
  <2>3. \A i \in DOMAIN life' : i + 1 \in DOMAIN life /\ life'[i] = life[i + 1]
    BY <1>2, <2>1, <2>2
  <2>4. ASSUME NEW i \in DOMAIN life' PROVE Truthful(life[i])'
    <3>1. PICK x : x = life[i + 1]
      OBVIOUS
    <3>2. Truthful(x) /\ life'[i] = x
      BY <1>1, <2>3, <3>1
    <3> QED
      BY <3>2 DEF Truthful
  <2>5. \A i \in DOMAIN status' : status'[i].kind = "status" /\ Truthful(status[i])'
    BY <1>1, <1>3 DEF Truthful
  <2>6. status' = status /\ Len(status') = Len(status)
    BY <1>3
  <2>7. /\ Len(life') + Len(status') + 1 = Len(life) + Len(status)
        /\ rev + 1 + Len(life') + Len(status') <= changes
        /\ Len(life') \in Nat /\ Len(status') \in Nat
    <3>1. PICK a, b, c, d : /\ a = Len(life) /\ b = Len(status)
                             /\ c = Len(life') /\ d = Len(status')
      OBVIOUS
    <3>2. /\ a \in Nat /\ b \in Nat /\ c \in Nat /\ d \in Nat
          /\ rev \in Nat /\ changes \in Nat
          /\ rev + a + b <= changes /\ c + d + 1 = a + b
      <4>1. /\ a \in Nat /\ b \in Nat /\ rev + a + b <= changes
            /\ rev \in Nat /\ changes \in Nat
        BY <1>1, <1>2, <3>1
      <4>2. c \in Nat /\ d \in Nat
        BY <1>2, <2>2, <2>6, <3>1
      <4>3. c + d + 1 = a + b
        BY <2>1, <2>6, <3>1, <4>1, <4>2
      <4> QED
        BY <4>1, <4>2, <4>3
    <3>3. rev + 1 + c + d <= changes
      BY <3>2
    <3> QED
      BY <3>1, <3>2, <3>3
  <2>8. status' \in Seq(Message)
    BY <1>1, <2>6
  <2> QED
    BY <2>1, <2>4, <2>5, <2>7, <2>8
<1>4. CASE status # <<>> /\ status' = Tail(status) /\ UNCHANGED life
  <2>1. /\ status' \in Seq(Message) /\ Len(status') = Len(status) - 1
        /\ \A i \in 1 .. Len(status) - 1 : status'[i] = status[i + 1]
    BY <1>1, <1>4, QueueFields
  <2>2. DOMAIN status' = 1 .. Len(status) - 1 /\ Len(status') \in Nat
    BY <2>1, QueueFields
  <2>3. \A i \in DOMAIN status' : i + 1 \in DOMAIN status /\ status'[i] = status[i + 1]
    BY <1>2, <2>1, <2>2
  <2>4. ASSUME NEW i \in DOMAIN status'
        PROVE  status'[i].kind = "status" /\ Truthful(status[i])'
    <3>1. PICK x : x = status[i + 1]
      OBVIOUS
    <3>2. x.kind = "status" /\ Truthful(x) /\ status'[i] = x
      BY <1>1, <2>3, <3>1
    <3> QED
      BY <3>2 DEF Truthful
  <2>5. \A i \in DOMAIN life' : Truthful(life[i])'
    BY <1>1, <1>4 DEF Truthful
  <2>6. life' = life /\ Len(life') = Len(life)
    BY <1>4
  <2>7. /\ Len(life') + Len(status') + 1 = Len(life) + Len(status)
        /\ rev + 1 + Len(life') + Len(status') <= changes
        /\ Len(life') \in Nat /\ Len(status') \in Nat
    <3>1. PICK a, b, c, d : /\ a = Len(life) /\ b = Len(status)
                             /\ c = Len(life') /\ d = Len(status')
      OBVIOUS
    <3>2. /\ a \in Nat /\ b \in Nat /\ c \in Nat /\ d \in Nat
          /\ rev \in Nat /\ changes \in Nat
          /\ rev + a + b <= changes /\ c + d + 1 = a + b
      <4>1. /\ a \in Nat /\ b \in Nat /\ rev + a + b <= changes
            /\ rev \in Nat /\ changes \in Nat
        BY <1>1, <1>2, <3>1
      <4>2. c \in Nat /\ d \in Nat
        BY <1>2, <2>2, <2>6, <3>1
      <4>3. c + d + 1 = a + b
        BY <2>1, <2>6, <3>1, <4>1, <4>2
      <4> QED
        BY <4>1, <4>2, <4>3
    <3>3. rev + 1 + c + d <= changes
      BY <3>2
    <3> QED
      BY <3>1, <3>2, <3>3
  <2>8. life' \in Seq(Message)
    BY <1>1, <2>6
  <2> QED
    BY <2>1, <2>4, <2>5, <2>7, <2>8
<1> QED
  BY <1>3, <1>4

\* What an event may do: it moves the panes ps, and a workspace counts as
\* closed only if none of them is in it.
LEMMA EventKeeps ==
  ASSUME IInv, phase = "running", NEW ps \in SUBSET Panes,
         rev' = rev + 1, panes' \in Maps,
         paneRev' \in [Panes -> Nat], told' \in [Panes -> BOOLEAN],
         \A p \in Panes \ ps : /\ panes'[p] = panes[p]
                               /\ paneRev'[p] = paneRev[p] /\ told'[p] = told[p],
         \A p \in ps : paneRev'[p] = rev + 1 /\ (told'[p] => panes'[p] = server[p]),
         closedRev' \in [Workspaces -> Nat],
         \A w \in Workspaces :
           \/ closedRev'[w] = 0
           \/ closedRev'[w] = rev + 1 /\ \A p \in Panes : panes'[p].ws # w
           \/ closedRev'[w] = closedRev[w] /\ \A p \in ps : panes'[p].ws # w,
         gen' \in [Workspaces -> Nat], \A w \in Workspaces : gen'[w] <= rev + 1,
         listed' = FALSE, UNCHANGED <<server, changes, latest, listing, seeded, phase>>,
         UNCHANGED <<workers, tasks, cycle, queue>>,
         \/ life # <<>> /\ life' = Tail(life) /\ UNCHANGED status
         \/ status # <<>> /\ status' = Tail(status) /\ UNCHANGED life,
         applied' \in [Workspaces -> BOOLEAN], stable' \in [Workspaces -> BOOLEAN],
         pending' \in [Workspaces -> {"none", "quiet", "active"}],
         CycleInv', StableInv'
  PROVE  IInv'
<1>1. TypeOK /\ WireInv /\ WorkInv /\ QueueInv /\ CycleInv /\ StableInv
  BY Parts
<1>2. /\ life' \in Seq(Message) /\ status' \in Seq(Message)
      /\ rev + 1 + Len(life') + Len(status') <= changes
      /\ Len(life') \in Nat /\ Len(status') \in Nat
      /\ \A i \in DOMAIN life' : Truthful(life[i])'
      /\ \A i \in DOMAIN status' : status'[i].kind = "status" /\ Truthful(status[i])'
  BY MessagesLeft
<1>3. /\ rev \in Nat /\ changes \in Revisions /\ MaxChanges \in Nat
      /\ rev + 1 \in Revisions /\ rev + 1 <= changes
  BY <1>1, <1>2 DEF TypeOK
<1>4. /\ paneRev \in [Panes -> Revisions] /\ closedRev \in [Workspaces -> Revisions]
      /\ \A p \in Panes : paneRev[p] <= rev /\ latest[p] <= changes
      /\ \A w \in Workspaces : closedRev[w] <= rev
      /\ listing.rev <= rev /\ listing.rev \in Nat
  BY <1>1 DEF WireInv, RevisionInv, TypeOK
<1>5. /\ \A p \in Panes : paneRev'[p] <= rev + 1 /\ paneRev'[p] \in Nat
      /\ \A w \in Workspaces : closedRev'[w] <= rev + 1 /\ closedRev'[w] \in Nat
  <2>1. ASSUME NEW p \in Panes PROVE paneRev'[p] <= rev + 1 /\ paneRev'[p] \in Nat
    <3>1. paneRev[p] <= rev /\ paneRev[p] \in Nat
      BY <1>4
    <3> QED
      BY <1>3, <3>1
  <2>2. ASSUME NEW w \in Workspaces
        PROVE  closedRev'[w] <= rev + 1 /\ closedRev'[w] \in Nat
    <3>1. closedRev[w] <= rev /\ closedRev[w] \in Nat
      BY <1>4
    <3>2. closedRev'[w] \in {0, rev + 1, closedRev[w]}
      OBVIOUS
    <3> QED
      BY <1>3, <3>1, <3>2
  <2> QED
    BY <2>1, <2>2
<1>6. OtherTypes'
  <2>1. paneRev' \in [Panes -> Revisions]
    BY <1>3, <1>5
  <2>2. closedRev' \in [Workspaces -> Revisions]
    BY <1>3, <1>5
  <2>3. gen' \in [Workspaces -> Revisions]
    BY <1>3
  <2> QED
    BY <1>1, <1>2, <1>3, <2>1, <2>2, <2>3, Types DEF OtherTypes
<1>7. WorkTypes'
  BY <1>1, Types DEF WorkTypes
<1>8. WorkInv' /\ QueueInv'
  BY <1>1 DEF WorkInv, QueueInv, Queued
<1>9. MessageInv'
  BY <1>2 DEF MessageInv
<1>10. RevisionInv'
  BY <1>1, <1>3, <1>4, <1>5 DEF WireInv, RevisionInv
<1>11. EventsOutliveListings'
  BY <1>1 DEF WireInv, EventsOutliveListings
<1>12. ListedInv'
  BY DEF ListedInv
<1>13. ListingInv'
  <2>1. ASSUME listing.at = "answered", NEW p \in Panes, told'[p],
               paneRev'[p] <= listing.rev
        PROVE  listing.panes[p] = server[p]
    <3>1. p \notin ps
      BY <1>3, <1>4, <2>1
    <3> QED
      BY <1>1, <2>1, <3>1 DEF WireInv, ListingInv
  <2>2. listing.at = "answered" /\ listing.seen = changes => listing.panes = server
    BY <1>1 DEF WireInv, ListingInv
  <2>3. ASSUME listing.at # "none", NEW w \in Workspaces, closedRev'[w] > listing.rev,
               NEW p \in Panes
        PROVE  panes'[p].ws # w
    <3>1. closedRev'[w] # 0
      BY <1>4, <2>3
    <3>2. CASE closedRev'[w] = closedRev[w] /\ \A r \in ps : panes'[r].ws # w
      <4>1. panes[p].ws # w
        BY <1>1, <2>3, <3>2 DEF WireInv, ListingInv
      <4> QED
        BY <3>2, <4>1
    <3> QED
      BY <3>1, <3>2
  <2> QED
    BY <2>1, <2>2, <2>3 DEF ListingInv
<1> QED
  BY <1>6, <1>7, <1>8, <1>9, <1>10, <1>11, <1>12, <1>13, TypesNext, PartsNext
  DEF WireInv

\* An observation of all workspaces that gained an active pane.
LEMMA ObservedSettles ==
  ASSUME IInv, phase = "running", NEW m, NEW ws,
         \A w \in Workspaces : ActiveIn(m, w) /\ w \notin ws => ActiveIn(panes, w)
  PROVE  /\ Observed(m, ws) \in [Workspaces -> {"none", "quiet", "active"}]
         /\ \A w \in Workspaces :
              ActiveIn(m, w) /\ Observed(m, ws)[w] # "active" => stable[w]
<1>1. /\ pending \in [Workspaces -> {"none", "quiet", "active"}]
      /\ stable \in [Workspaces -> BOOLEAN]
  BY DEF IInv, TypeOK
<1>2. \A w \in Workspaces : ActiveIn(m, w) \in BOOLEAN
  BY DEF ActiveIn
<1>3. ASSUME NEW w \in Workspaces
      PROVE  /\ Observed(m, ws)[w] \in {"none", "quiet", "active"}
             /\ ActiveIn(m, w) /\ Observed(m, ws)[w] # "active" => stable[w]
  BY <1>1, <1>2 DEF Observed, IInv, StableInv
<1> QED
  BY <1>1, <1>3 DEF Observed

\* So the transitions after an event that closes no workspace.
LEMMA ObservedKeeps ==
  ASSUME IInv, phase = "running", NEW ws, pending' = Observed(panes', ws),
         UNCHANGED <<stable, gen, applied, tasks, cycle, seeded, phase>>,
         \A w \in Workspaces : ActiveIn(panes', w) /\ w \notin ws => ActiveIn(panes, w)
  PROVE  /\ CycleInv' /\ StableInv'
         /\ pending' \in [Workspaces -> {"none", "quiet", "active"}]
         /\ stable' \in [Workspaces -> BOOLEAN] /\ applied' \in [Workspaces -> BOOLEAN]
         /\ gen' \in [Workspaces -> Nat] /\ \A w \in Workspaces : gen'[w] <= rev + 1
<1>1. CycleInv'
  BY DEF IInv, CycleInv
<1>2. PICK m : m = panes'
  OBVIOUS
<1>3. /\ Observed(m, ws) \in [Workspaces -> {"none", "quiet", "active"}]
      /\ \A w \in Workspaces :
           ActiveIn(m, w) /\ Observed(m, ws)[w] # "active" => stable[w]
  BY <1>2, ObservedSettles
<1>4. StableInv'
  <2> SUFFICES ASSUME NEW w \in Workspaces
               PROVE  /\ tasks'[w] = {} => applied'[w] = stable'[w]
                      /\ ActiveIn(panes, w)' /\ pending'[w] # "active" => stable'[w]
    BY DEF StableInv
  <2>1. ActiveIn(panes, w)' => ActiveIn(m, w)
    BY <1>2 DEF ActiveIn
  <2>2. pending' = Observed(m, ws)
    BY <1>2
  <2> QED
    BY <1>3, <2>1, <2>2 DEF IInv, StableInv
<1>5. /\ gen \in [Workspaces -> Revisions] /\ rev \in Nat
      /\ \A w \in Workspaces : gen[w] <= rev
      /\ stable \in [Workspaces -> BOOLEAN] /\ applied \in [Workspaces -> BOOLEAN]
  BY DEF IInv, TypeOK, RevisionInv
<1>6. gen' \in [Workspaces -> Nat] /\ \A w \in Workspaces : gen'[w] <= rev + 1
  BY <1>5
<1> QED
  BY <1>1, <1>2, <1>3, <1>4, <1>5, <1>6

\* The head of a queue of messages says what is so.
LEMMA HeadTruthful ==
  ASSUME IInv
  PROVE  /\ life # <<>> => Head(life) \in Message /\ Truthful(Head(life))
         /\ status # <<>> => /\ Head(status) \in Message /\ Truthful(Head(status))
                             /\ Head(status).kind = "status"
<1>1. life \in Seq(Message) /\ status \in Seq(Message)
  BY DEF IInv, TypeOK
<1>2. /\ \A i \in DOMAIN life : Truthful(life[i])
      /\ \A i \in DOMAIN status : status[i].kind = "status" /\ Truthful(status[i])
  BY DEF IInv, MessageInv
<1>3. ASSUME life # <<>> PROVE Head(life) \in Message /\ Truthful(Head(life))
  <2>1. Head(life) = life[1] /\ Head(life) \in Message /\ 1 \in DOMAIN life
    BY <1>1, <1>3, QueueFields
  <2> QED
    BY <1>2, <2>1
<1>4. ASSUME status # <<>>
      PROVE  /\ Head(status) \in Message /\ Truthful(Head(status))
             /\ Head(status).kind = "status"
  <2>1. Head(status) = status[1] /\ Head(status) \in Message /\ 1 \in DOMAIN status
    BY <1>1, <1>4, QueueFields
  <2> QED
    BY <1>2, <2>1
<1> QED
  BY <1>3, <1>4

\* The types of what an event changes.
LEMMA EventTypes ==
  ASSUME IInv
  PROVE  /\ rev \in Nat /\ panes \in Maps /\ server \in Maps
         /\ paneRev \in [Panes -> Nat] /\ told \in [Panes -> BOOLEAN]
         /\ closedRev \in [Workspaces -> Nat] /\ gen \in [Workspaces -> Nat]
         /\ \A w \in Workspaces : gen[w] <= rev
         /\ pending \in [Workspaces -> {"none", "quiet", "active"}]
         /\ stable \in [Workspaces -> BOOLEAN] /\ applied \in [Workspaces -> BOOLEAN]
BY DEF IInv, TypeOK, RevisionInv

\* The status of a pane.
LEMMA HandleStatusKeeps ==
  ASSUME IInv, HandleStatus
  PROVE  IInv'
<1>1. PICK m : m = Head(status)
  OBVIOUS
<1>2. /\ phase = "running" /\ status # <<>> /\ rev' = rev + 1
      /\ paneRev' = [paneRev EXCEPT ![m.pane] = rev']
      /\ closedRev' = [closedRev EXCEPT ![m.now.ws] = 0]
      /\ panes' = [panes EXCEPT ![m.pane] = m.now]
      /\ pending' = Observed(panes', {panes[m.pane].ws, m.now.ws})
      /\ told' = [told EXCEPT ![m.pane] = Known(m.n, m.pane)]
      /\ status' = Tail(status)
      /\ listed' = FALSE
      /\ UNCHANGED <<server, changes, latest, life, listing, seeded, phase>>
      /\ UNCHANGED <<workers, tasks, cycle, queue>>
      /\ UNCHANGED <<stable, gen, applied>>
  BY <1>1 DEF HandleStatus, EventTaken
<1>3. /\ m \in Message /\ Truthful(m) /\ m.kind = "status"
  BY <1>1, <1>2, HeadTruthful
<1>4. /\ m.pane \in Panes /\ m.now \in Pane \cup {Gone}
  BY <1>3, MessageFields
<1>5. /\ panes' \in Maps /\ panes'[m.pane] = m.now
      /\ \A r \in Panes \ {m.pane} : panes'[r] = panes[r]
  BY <1>2, <1>4, EventTypes DEF Maps
<1>6. /\ paneRev' \in [Panes -> Nat] /\ told' \in [Panes -> BOOLEAN]
      /\ paneRev'[m.pane] = rev + 1 /\ told'[m.pane] = (m.n = latest[m.pane])
      /\ \A p \in Panes \ {m.pane} : paneRev'[p] = paneRev[p] /\ told'[p] = told[p]
  BY <1>2, <1>4, EventTypes DEF Known
<1>7. told'[m.pane] => panes'[m.pane] = server[m.pane]
  BY <1>3, <1>5, <1>6 DEF Truthful
<1>8. /\ closedRev' \in [Workspaces -> Nat]
      /\ \A w \in Workspaces : closedRev'[w] = IF w = m.now.ws THEN 0 ELSE closedRev[w]
  BY <1>2, EventTypes
<1>9. \A w \in Workspaces :
        \/ closedRev'[w] = 0
        \/ closedRev'[w] = rev + 1 /\ \A p \in Panes : panes'[p].ws # w
        \/ closedRev'[w] = closedRev[w] /\ \A p \in {m.pane} : panes'[p].ws # w
  BY <1>5, <1>8
<1>10. ASSUME NEW w \in Workspaces, ActiveIn(panes', w),
              w \notin {panes[m.pane].ws, m.now.ws}
       PROVE  ActiveIn(panes, w)
  BY <1>5, <1>10 DEF ActiveIn
<1>11. /\ CycleInv' /\ StableInv'
       /\ pending' \in [Workspaces -> {"none", "quiet", "active"}]
       /\ stable' \in [Workspaces -> BOOLEAN] /\ applied' \in [Workspaces -> BOOLEAN]
       /\ gen' \in [Workspaces -> Nat] /\ \A w \in Workspaces : gen'[w] <= rev + 1
  <2>1. PICK ws : ws = {panes[m.pane].ws, m.now.ws}
    OBVIOUS
  <2> QED
    BY <1>2, <1>10, <2>1, ObservedKeeps
<1>12. {m.pane} \in SUBSET Panes
  BY <1>4
<1>13. PICK ps : ps = {m.pane}
  OBVIOUS
<1>14. /\ ps \in SUBSET Panes
       /\ \A p \in Panes \ ps : /\ panes'[p] = panes[p]
                               /\ paneRev'[p] = paneRev[p] /\ told'[p] = told[p]
       /\ \A p \in ps : paneRev'[p] = rev + 1 /\ (told'[p] => panes'[p] = server[p])
  BY <1>5, <1>6, <1>7, <1>12, <1>13
<1>15. \A w \in Workspaces :
         \/ closedRev'[w] = 0
         \/ closedRev'[w] = rev + 1 /\ \A p \in Panes : panes'[p].ws # w
         \/ closedRev'[w] = closedRev[w] /\ \A p \in ps : panes'[p].ws # w
  BY <1>9, <1>13
<1> QED
  BY <1>2, <1>5, <1>6, <1>8, <1>11, <1>14, <1>15, EventKeeps

\* A pane that closed.
LEMMA HandlePaneClosedKeeps ==
  ASSUME IInv, phase = "running", life # <<>>, life' = Tail(life),
         NEW m, m = Head(life), m.kind = "closed", HandlePaneClosed(m),
         listed' = FALSE, UNCHANGED <<server, changes, latest, status, listing, seeded, phase>>,
         UNCHANGED <<workers, tasks, cycle, queue>>
  PROVE  IInv'
<1>2. /\ rev' = rev + 1
      /\ paneRev' = [paneRev EXCEPT ![m.pane] = rev']
      /\ panes' = [panes EXCEPT ![m.pane] = Gone]
      /\ pending' = Observed(panes', {panes[m.pane].ws})
      /\ told' = [told EXCEPT ![m.pane] = Known(m.n, m.pane)]
      /\ UNCHANGED <<closedRev, stable, gen, applied>>
  BY DEF HandlePaneClosed
<1>3. /\ m \in Message /\ Truthful(m)
  BY HeadTruthful
<1>4. m.pane \in Panes
  BY <1>3, MessageFields
<1>5. /\ panes' \in Maps /\ panes'[m.pane] = Gone
      /\ \A r \in Panes \ {m.pane} : panes'[r] = panes[r]
  BY <1>2, <1>4, EventTypes DEF Maps
<1>6. /\ paneRev' \in [Panes -> Nat] /\ told' \in [Panes -> BOOLEAN]
      /\ paneRev'[m.pane] = rev + 1 /\ told'[m.pane] = (m.n = latest[m.pane])
      /\ \A p \in Panes \ {m.pane} : paneRev'[p] = paneRev[p] /\ told'[p] = told[p]
  BY <1>2, <1>4, EventTypes DEF Known
<1>7. told'[m.pane] => panes'[m.pane] = server[m.pane]
  BY <1>3, <1>5, <1>6 DEF Truthful
<1>8. Gone.ws \notin Workspaces /\ Gone.on = FALSE
  BY PaneFields
<1>9. /\ closedRev' \in [Workspaces -> Nat]
      /\ \A w \in Workspaces :
           \/ closedRev'[w] = 0
           \/ closedRev'[w] = rev + 1 /\ \A p \in Panes : panes'[p].ws # w
           \/ closedRev'[w] = closedRev[w] /\ \A p \in {m.pane} : panes'[p].ws # w
  BY <1>2, <1>5, <1>8, EventTypes
<1>10. ASSUME NEW w \in Workspaces, ActiveIn(panes', w), w \notin {panes[m.pane].ws}
       PROVE  ActiveIn(panes, w)
  BY <1>5, <1>8, <1>10 DEF ActiveIn
<1>11. /\ CycleInv' /\ StableInv'
       /\ pending' \in [Workspaces -> {"none", "quiet", "active"}]
       /\ stable' \in [Workspaces -> BOOLEAN] /\ applied' \in [Workspaces -> BOOLEAN]
       /\ gen' \in [Workspaces -> Nat] /\ \A w \in Workspaces : gen'[w] <= rev + 1
  <2>1. PICK ws : ws = {panes[m.pane].ws}
    OBVIOUS
  <2> QED
    BY <1>2, <1>10, <2>1, ObservedKeeps
<1>12. {m.pane} \in SUBSET Panes
  BY <1>4
<1>13. PICK ps : ps = {m.pane}
  OBVIOUS
<1>14. /\ ps \in SUBSET Panes
       /\ \A p \in Panes \ ps : /\ panes'[p] = panes[p]
                               /\ paneRev'[p] = paneRev[p] /\ told'[p] = told[p]
       /\ \A p \in ps : paneRev'[p] = rev + 1 /\ (told'[p] => panes'[p] = server[p])
  BY <1>5, <1>6, <1>7, <1>12, <1>13
<1>15. \A w \in Workspaces :
         \/ closedRev'[w] = 0
         \/ closedRev'[w] = rev + 1 /\ \A p \in Panes : panes'[p].ws # w
         \/ closedRev'[w] = closedRev[w] /\ \A p \in ps : panes'[p].ws # w
  BY <1>9, <1>13
<1> QED
  BY <1>2, <1>5, <1>6, <1>9, <1>11, <1>14, <1>15, EventKeeps

\* A pane that moved.
LEMMA HandleMovedKeeps ==
  ASSUME IInv, phase = "running", life # <<>>, life' = Tail(life),
         NEW m, m = Head(life), m.kind = "moved", HandleMoved(m),
         listed' = FALSE, UNCHANGED <<server, changes, latest, status, listing, seeded, phase>>,
         UNCHANGED <<workers, tasks, cycle, queue>>
  PROVE  IInv'
<1>2. /\ rev' = rev + 1
      /\ paneRev' = [paneRev EXCEPT ![m.from] = rev', ![m.pane] = rev']
      /\ closedRev' = [closedRev EXCEPT ![m.now.ws] = 0]
      /\ panes' = [panes EXCEPT ![m.from] = Gone, ![m.pane] = m.now]
      /\ pending' = Observed(panes', {m.fromWs, panes[m.from].ws, m.now.ws})
      /\ told' = [told EXCEPT ![m.from] = Known(m.n, m.from),
                              ![m.pane] = Known(m.n, m.pane)]
      /\ UNCHANGED <<stable, gen, applied>>
  BY DEF HandleMoved
<1>3. /\ m \in Message /\ Truthful(m)
  BY HeadTruthful
<1>4. m.pane \in Panes /\ m.from \in Panes /\ m.now \in Pane
  BY <1>3, MessageFields
<1>5. /\ panes' \in Maps /\ panes'[m.pane] = m.now
      /\ m.from # m.pane => panes'[m.from] = Gone
      /\ \A r \in Panes \ {m.from, m.pane} : panes'[r] = panes[r]
  <2>1. PICK g : g = [panes EXCEPT ![m.from] = Gone]
    OBVIOUS
  <2>2. g \in Maps /\ g[m.from] = Gone /\ \A r \in Panes \ {m.from} : g[r] = panes[r]
    BY <1>4, <2>1, EventTypes DEF Maps
  <2>3. panes' = [g EXCEPT ![m.pane] = m.now]
    BY <1>2, <2>1
  <2>4. panes' \in Maps /\ panes'[m.pane] = m.now
        /\ \A r \in Panes \ {m.pane} : panes'[r] = g[r]
    BY <1>4, <2>2, <2>3 DEF Maps
  <2> QED
    BY <1>4, <2>2, <2>4
<1>6. /\ paneRev' \in [Panes -> Nat] /\ told' \in [Panes -> BOOLEAN]
      /\ \A p \in {m.from, m.pane} :
           paneRev'[p] = rev + 1 /\ told'[p] = (m.n = latest[p])
      /\ \A p \in Panes \ {m.from, m.pane} :
           paneRev'[p] = paneRev[p] /\ told'[p] = told[p]
  <2>1. /\ paneRev' \in [Panes -> Nat]
        /\ \A p \in {m.from, m.pane} : paneRev'[p] = rev + 1
        /\ \A p \in Panes \ {m.from, m.pane} : paneRev'[p] = paneRev[p]
    <3>1. PICK r : r = rev + 1
      OBVIOUS
    <3>2. r \in Nat /\ paneRev' = [paneRev EXCEPT ![m.from] = r, ![m.pane] = r]
      BY <1>2, <3>1, EventTypes
    <3> QED
      BY <1>4, <3>1, <3>2, EventTypes
  <2>2. PICK a, b : a = (m.n = latest[m.from]) /\ b = (m.n = latest[m.pane])
    OBVIOUS
  <2>3. a \in BOOLEAN /\ b \in BOOLEAN
    BY <2>2
  <2>4. told' = [told EXCEPT ![m.from] = a, ![m.pane] = b]
    BY <1>2, <2>2 DEF Known
  <2>5. /\ told' \in [Panes -> BOOLEAN]
        /\ \A p \in Panes \ {m.from, m.pane} : told'[p] = told[p]
        /\ told'[m.pane] = b
        /\ m.from # m.pane => told'[m.from] = a
    BY <1>4, <2>3, <2>4, EventTypes
  <2> QED
    BY <2>1, <2>2, <2>5
<1>7. \A p \in {m.from, m.pane} : told'[p] => panes'[p] = server[p]
  <2>1. told'[m.pane] => panes'[m.pane] = server[m.pane]
    BY <1>3, <1>5, <1>6 DEF Truthful
  <2>2. m.from # m.pane /\ told'[m.from] => panes'[m.from] = server[m.from]
    BY <1>3, <1>5, <1>6 DEF Truthful
  <2> QED
    BY <2>1, <2>2
<1>8. /\ closedRev' \in [Workspaces -> Nat]
      /\ \A w \in Workspaces : closedRev'[w] = IF w = m.now.ws THEN 0 ELSE closedRev[w]
      /\ Gone.ws \notin Workspaces /\ Gone.on = FALSE
  BY <1>2, EventTypes, PaneFields
<1>9. \A w \in Workspaces :
        \/ closedRev'[w] = 0
        \/ closedRev'[w] = rev + 1 /\ \A p \in Panes : panes'[p].ws # w
        \/ closedRev'[w] = closedRev[w] /\ \A p \in {m.from, m.pane} : panes'[p].ws # w
  BY <1>5, <1>8
<1>10. ASSUME NEW w \in Workspaces, ActiveIn(panes', w),
              w \notin {m.fromWs, panes[m.from].ws, m.now.ws}
       PROVE  ActiveIn(panes, w)
  BY <1>5, <1>8, <1>10 DEF ActiveIn
<1>11. /\ CycleInv' /\ StableInv'
       /\ pending' \in [Workspaces -> {"none", "quiet", "active"}]
       /\ stable' \in [Workspaces -> BOOLEAN] /\ applied' \in [Workspaces -> BOOLEAN]
       /\ gen' \in [Workspaces -> Nat] /\ \A w \in Workspaces : gen'[w] <= rev + 1
  <2>1. PICK ws : ws = {m.fromWs, panes[m.from].ws, m.now.ws}
    OBVIOUS
  <2> QED
    BY <1>2, <1>10, <2>1, ObservedKeeps
<1>12. {m.from, m.pane} \in SUBSET Panes
  BY <1>4
<1>13. PICK ps : ps = {m.from, m.pane}
  OBVIOUS
<1>14. /\ ps \in SUBSET Panes
       /\ \A p \in Panes \ ps : /\ panes'[p] = panes[p]
                               /\ paneRev'[p] = paneRev[p] /\ told'[p] = told[p]
       /\ \A p \in ps : paneRev'[p] = rev + 1 /\ (told'[p] => panes'[p] = server[p])
  BY <1>5, <1>6, <1>7, <1>12, <1>13
<1>15. \A w \in Workspaces :
         \/ closedRev'[w] = 0
         \/ closedRev'[w] = rev + 1 /\ \A p \in Panes : panes'[p].ws # w
         \/ closedRev'[w] = closedRev[w] /\ \A p \in ps : panes'[p].ws # w
  BY <1>9, <1>13
<1>16. /\ rev' = rev + 1 /\ panes' \in Maps /\ paneRev' \in [Panes -> Nat]
       /\ told' \in [Panes -> BOOLEAN] /\ closedRev' \in [Workspaces -> Nat]
  BY <1>2, <1>5, <1>6, <1>8
<1> QED
  BY <1>11, <1>14, <1>15, <1>16, EventKeeps

\* A workspace that closed: nothing of it is left but the worker.
LEMMA HandleWorkspaceClosedKeeps ==
  ASSUME IInv, phase = "running", life # <<>>, life' = Tail(life),
         NEW m, m = Head(life), m.kind = "workspace", HandleWorkspaceClosed(m),
         listed' = FALSE, UNCHANGED <<server, changes, latest, status, listing, seeded, phase>>,
         UNCHANGED <<workers, tasks, cycle, queue>>
  PROVE  IInv'
<1>1. PICK its : its = {p \in Panes : panes[p].ws = m.ws}
  OBVIOUS
<1>2. /\ rev' = rev + 1
      /\ closedRev' = [closedRev EXCEPT ![m.ws] = rev']
      /\ paneRev' = [p \in Panes |-> IF p \in its THEN rev' ELSE paneRev[p]]
      /\ panes' = [p \in Panes |-> IF p \in its THEN Gone ELSE panes[p]]
      /\ gen' = [gen EXCEPT ![m.ws] = @ + 1]
      /\ pending' = [pending EXCEPT ![m.ws] = "none"]
      /\ stable' = [stable EXCEPT ![m.ws] = FALSE]
      /\ applied' = [applied EXCEPT ![m.ws] = FALSE]
      /\ told' = [p \in Panes |-> IF p \in its THEN Known(m.n, p) ELSE told[p]]
  BY <1>1 DEF HandleWorkspaceClosed
<1>3. m \in Message /\ Truthful(m) /\ m.ws \in Workspaces
  BY HeadTruthful, MessageFields
<1>4. its \in SUBSET Panes /\ Gone.ws \notin Workspaces /\ Gone.on = FALSE
  BY <1>1, PaneFields
<1>5. /\ panes' \in Maps /\ \A p \in its : panes'[p] = Gone
      /\ \A p \in Panes \ its : panes'[p] = panes[p] /\ panes[p].ws # m.ws
  BY <1>1, <1>2, <1>4, EventTypes DEF Maps
<1>6. /\ paneRev' \in [Panes -> Nat] /\ told' \in [Panes -> BOOLEAN]
      /\ \A p \in its : paneRev'[p] = rev + 1 /\ told'[p] = (m.n = latest[p])
      /\ \A p \in Panes \ its : paneRev'[p] = paneRev[p] /\ told'[p] = told[p]
  <2>1. /\ paneRev' \in [Panes -> Nat]
        /\ \A p \in its : paneRev'[p] = rev + 1
        /\ \A p \in Panes \ its : paneRev'[p] = paneRev[p]
    BY <1>2, <1>4, EventTypes
  <2>2. /\ told' \in [Panes -> BOOLEAN]
        /\ \A p \in Panes \ its : told'[p] = told[p]
        /\ \A p \in its : told'[p] = (m.n = latest[p])
    BY <1>2, <1>4, EventTypes DEF Known
  <2> QED
    BY <2>1, <2>2
<1>7. \A p \in its : told'[p] => panes'[p] = server[p]
  BY <1>3, <1>4, <1>5, <1>6 DEF Truthful
<1>8. /\ closedRev' \in [Workspaces -> Nat] /\ closedRev'[m.ws] = rev + 1
      /\ \A w \in Workspaces \ {m.ws} : closedRev'[w] = closedRev[w]
  BY <1>2, <1>3, EventTypes
<1>9. \A w \in Workspaces :
        \/ closedRev'[w] = 0
        \/ closedRev'[w] = rev + 1 /\ \A p \in Panes : panes'[p].ws # w
        \/ closedRev'[w] = closedRev[w] /\ \A p \in its : panes'[p].ws # w
  <2>1. \A p \in Panes : panes'[p].ws # m.ws
    BY <1>3, <1>4, <1>5
  <2>2. \A w \in Workspaces : \A p \in its : panes'[p].ws # w
    BY <1>4, <1>5
  <2> QED
    BY <1>8, <2>1, <2>2
<1>10. /\ pending' \in [Workspaces -> {"none", "quiet", "active"}]
       /\ stable' \in [Workspaces -> BOOLEAN] /\ applied' \in [Workspaces -> BOOLEAN]
       /\ gen' \in [Workspaces -> Nat] /\ \A w \in Workspaces : gen'[w] <= rev + 1
       /\ applied'[m.ws] = FALSE /\ stable'[m.ws] = FALSE
       /\ \A w \in Workspaces \ {m.ws} :
            /\ gen'[w] = gen[w] /\ pending'[w] = pending[w]
            /\ stable'[w] = stable[w] /\ applied'[w] = applied[w]
  <2>1. /\ gen' \in [Workspaces -> Nat]
        /\ \A w \in Workspaces \ {m.ws} : gen'[w] = gen[w]
        /\ \A w \in Workspaces : gen'[w] <= rev + 1
    <3>1. gen'[m.ws] = gen[m.ws] + 1 /\ gen[m.ws] \in Nat /\ gen[m.ws] <= rev
      BY <1>2, <1>3, EventTypes
    <3>2. \A w \in Workspaces \ {m.ws} : gen'[w] = gen[w]
      BY <1>2, <1>3, EventTypes
    <3>3. gen' \in [Workspaces -> Nat]
      BY <1>2, <1>3, EventTypes
    <3>4. \A w \in Workspaces : gen[w] \in Nat /\ gen[w] <= rev /\ rev \in Nat
      BY EventTypes
    <3> QED
      BY <3>1, <3>2, <3>3, <3>4
  <2>2. /\ pending' \in [Workspaces -> {"none", "quiet", "active"}]
        /\ stable' \in [Workspaces -> BOOLEAN] /\ applied' \in [Workspaces -> BOOLEAN]
        /\ applied'[m.ws] = FALSE /\ stable'[m.ws] = FALSE
        /\ \A w \in Workspaces \ {m.ws} :
             /\ pending'[w] = pending[w]
             /\ stable'[w] = stable[w] /\ applied'[w] = applied[w]
    BY <1>2, <1>3, EventTypes
  <2> QED
    BY <2>1, <2>2
<1>11. CycleInv'
  BY <1>10 DEF IInv, CycleInv
<1>12. StableInv'
  <2> SUFFICES ASSUME NEW w \in Workspaces
               PROVE  /\ tasks'[w] = {} => applied'[w] = stable'[w]
                      /\ ActiveIn(panes, w)' /\ pending'[w] # "active" => stable'[w]
    BY DEF StableInv
  <2>1. ActiveIn(panes, w)' => ActiveIn(panes, w) /\ w # m.ws
    BY <1>4, <1>5 DEF ActiveIn
  <2>2. CASE w = m.ws
    BY <1>10, <2>1, <2>2
  <2>3. CASE w # m.ws
    BY <1>10, <2>1, <2>3 DEF IInv, StableInv
  <2> QED
    BY <2>2, <2>3
<1> QED
  BY <1>2, <1>4, <1>5, <1>6, <1>7, <1>8, <1>9, <1>10, <1>11, <1>12, EventKeeps

\* The events of the event socket.
LEMMA HandleLifeKeeps ==
  ASSUME IInv, HandleLife
  PROVE  IInv'
<1>1. PICK m : m = Head(life)
  OBVIOUS
<1>2. /\ phase = "running" /\ life # <<>> /\ life' = Tail(life)
      /\ \/ m.kind = "moved" /\ HandleMoved(m)
         \/ m.kind = "closed" /\ HandlePaneClosed(m)
         \/ m.kind = "workspace" /\ HandleWorkspaceClosed(m)
      /\ listed' = FALSE
      /\ UNCHANGED <<server, changes, latest, status, listing, seeded, phase>>
      /\ UNCHANGED <<workers, tasks, cycle, queue>>
  BY <1>1 DEF HandleLife
<1> QED
  BY <1>1, <1>2, HandleMovedKeeps, HandlePaneClosedKeeps, HandleWorkspaceClosedKeeps

-----------------------------------------------------------------------------
(* Listings, and the stop. *)

\* A step that leaves the workers and the transitions alone.
LEMMA WorkStays ==
  ASSUME IInv, UNCHANGED <<stable, pending, gen, applied, workers, tasks, cycle,
                           queue, panes, seeded, phase>>
  PROVE  WorkTypes' /\ WorkInv' /\ QueueInv' /\ CycleInv' /\ StableInv'
<1>1. WorkTypes'
  BY Parts, Types DEF WorkTypes
<1>2. WorkInv' /\ QueueInv' /\ CycleInv'
  BY DEF IInv, WorkInv, QueueInv, Queued, CycleInv
<1>3. StableInv'
  BY DEF IInv, StableInv, ActiveIn
<1> QED
  BY <1>1, <1>2, <1>3

\* A listing is asked for.
LEMMA BeginPaneListKeeps ==
  ASSUME IInv, BeginPaneList
  PROVE  IInv'
<1>1. /\ phase = "running" /\ listing' = [NoListing EXCEPT !.at = "asked", !.rev = rev]
      /\ UNCHANGED <<server, changes, latest, life, status, panes, paneRev, closedRev,
                     rev, told, stable, pending, gen, applied, workers, tasks, cycle,
                     queue, seeded, listed, phase>>
  BY DEF BeginPaneList
<1>2. /\ rev \in Revisions /\ \A w \in Workspaces : closedRev[w] <= rev /\ closedRev[w] \in Nat
      /\ changes \in Nat /\ OtherTypes
  BY Parts, Types DEF IInv, TypeOK, RevisionInv
<1>3. /\ listing'.at = "asked" /\ listing'.rev = rev /\ listing'.seen = 0
      /\ listing' \in [at : {"none", "asked", "answered"}, rev : Revisions,
                       seen : Revisions, panes : Maps]
  BY <1>1, <1>2, NoListingFields
<1>4. OtherTypes'
  BY <1>1, <1>2, <1>3 DEF OtherTypes
<1>5. WorkTypes' /\ WorkInv' /\ QueueInv' /\ CycleInv' /\ StableInv'
  BY <1>1, WorkStays
<1>6. MessageInv'
  BY <1>1 DEF IInv, MessageInv, Truthful
<1>7. RevisionInv'
  BY <1>1, <1>2, <1>3 DEF IInv, RevisionInv
<1>8. ListingInv' /\ ListedInv' /\ EventsOutliveListings'
  BY <1>1, <1>2, <1>3 DEF IInv, ListingInv, ListedInv, EventsOutliveListings
<1> QED
  BY <1>4, <1>5, <1>6, <1>7, <1>8, TypesNext, PartsNext DEF WireInv

\* Herdr answers a listing: as the panes are.
LEMMA AnswerPaneListKeeps ==
  ASSUME IInv, AnswerPaneList
  PROVE  IInv'
<1>1. /\ listing.at = "asked"
      /\ listing' = [listing EXCEPT !.at = "answered", !.seen = changes, !.panes = server]
      /\ UNCHANGED <<server, changes, latest, life, status, panes, paneRev, closedRev,
                     rev, told, stable, pending, gen, applied, workers, tasks, cycle,
                     queue, seeded, listed, phase>>
  BY DEF AnswerPaneList
<1>2. changes \in Revisions /\ OtherTypes /\ RevisionInv
  BY Parts, Types DEF IInv, TypeOK
<1>3. /\ listing'.at = "answered" /\ listing'.rev = listing.rev
      /\ listing'.seen = changes /\ listing'.panes = server
      /\ listing' \in [at : {"none", "asked", "answered"}, rev : Revisions,
                       seen : Revisions, panes : Maps]
  BY <1>1, <1>2 DEF OtherTypes
<1>4. OtherTypes'
  BY <1>1, <1>2, <1>3 DEF OtherTypes
<1>5. WorkTypes' /\ WorkInv' /\ QueueInv' /\ CycleInv' /\ StableInv'
  BY <1>1, WorkStays
<1>6. MessageInv'
  BY <1>1 DEF IInv, MessageInv, Truthful
<1>7. phase = "running"
  BY <1>1, <1>2, NoListingFields DEF RevisionInv
<1>8. RevisionInv'
  BY <1>1, <1>2, <1>3, <1>7 DEF RevisionInv
<1>9. ListingInv' /\ ListedInv' /\ EventsOutliveListings'
  BY <1>1, <1>3 DEF IInv, ListingInv, ListedInv, EventsOutliveListings
<1> QED
  BY <1>4, <1>5, <1>6, <1>8, <1>9, TypesNext, PartsNext DEF WireInv

\* What is known once a listing is applied: a pane that was told of is as it
\* was told, and all are as listed if nothing came since it was asked for.
LEMMA ListedFields ==
  ASSUME IInv, listing.at = "answered", NEW p \in Panes
  PROVE  /\ Listed(p) \in Pane \cup {Gone}
         /\ told[p] => Listed(p) = panes[p]
         /\ listing.rev = rev => Listed(p) = listing.panes[p]
<1>1. /\ panes \in Maps /\ listing.panes \in Maps /\ rev \in Nat
      /\ listing.rev \in Nat /\ listing.rev <= rev
      /\ paneRev[p] \in Nat /\ paneRev[p] <= rev
      /\ \A w \in Workspaces : closedRev[w] \in Nat /\ closedRev[w] <= rev
  BY DEF IInv, TypeOK, RevisionInv
<1>2. panes[p] \in Pane \cup {Gone} /\ listing.panes[p] \in Pane \cup {Gone}
  BY <1>1, MapFields
<1>3. Listed(p) \in Pane \cup {Gone}
  BY <1>2 DEF Listed
<1>4. listing.panes[p] # Gone => listing.panes[p].ws \in Workspaces
  BY <1>2, PaneFields
<1>5. ASSUME told[p] PROVE Listed(p) = panes[p]
  <2>1. phase = "running"
    BY NoListingFields DEF IInv, RevisionInv
  <2>2. panes[p] = server[p]
    BY <1>5, <2>1 DEF IInv, EventsOutliveListings
  <2>3. CASE paneRev[p] > listing.rev
    BY <2>3 DEF Listed
  <2>4. CASE ~(paneRev[p] > listing.rev)
    <3>1. listing.panes[p] = panes[p]
      BY <1>1, <1>5, <2>2, <2>4 DEF IInv, ListingInv
    <3>2. listing.panes[p] # Gone => ~(closedRev[listing.panes[p].ws] > listing.rev)
      BY <1>4, <3>1 DEF IInv, ListingInv
    <3> QED
      BY <2>4, <3>1, <3>2 DEF Listed
  <2> QED
    BY <2>3, <2>4
<1>6. ASSUME listing.rev = rev PROVE Listed(p) = listing.panes[p]
  <2>1. ~(paneRev[p] > listing.rev)
    BY <1>1, <1>6
  <2>2. listing.panes[p] # Gone => ~(closedRev[listing.panes[p].ws] > listing.rev)
    BY <1>1, <1>4, <1>6
  <2> QED
    BY <2>1, <2>2 DEF Listed
<1> QED
  BY <1>3, <1>5, <1>6

\* A listing is applied; the first one seeds the transitions.
LEMMA ReconcilePaneListKeeps ==
  ASSUME IInv, ReconcilePaneList
  PROVE  IInv'
<1> DEFINE m == [p \in Panes |-> Listed(p)]
           ws == {panes[p].ws : p \in Panes} \cup {m[p].ws : p \in Panes}
<1>2. /\ listing.at = "answered" /\ panes' = m
      /\ IF seeded
         THEN pending' = Observed(m, ws) /\ UNCHANGED <<stable, applied>>
         ELSE /\ stable' = [w \in Workspaces |->
                              IF w \in ws THEN ActiveIn(m, w) ELSE stable[w]]
              /\ applied' = [w \in Workspaces |->
                               IF w \in ws THEN ActiveIn(m, w) ELSE applied[w]]
              /\ UNCHANGED pending
      /\ listing' = NoListing /\ seeded' = TRUE
      /\ listed' = (listing.rev = rev /\ listing.seen = changes)
      /\ UNCHANGED <<server, changes, latest, life, status, paneRev, closedRev, rev,
                     told, gen, workers, tasks, cycle, queue, phase>>
  BY DEF ReconcilePaneList
<1>1. /\ m = [p \in Panes |-> Listed(p)]
      /\ ws = {panes[p].ws : p \in Panes} \cup {m[p].ws : p \in Panes}
  OBVIOUS
<1> HIDE DEF m, ws
<1>3. /\ OtherTypes /\ WorkTypes /\ RevisionInv /\ ListingInv /\ WorkInv
      /\ CycleInv /\ StableInv /\ MessageInv /\ EventsOutliveListings /\ QueueInv
  BY Parts, Types DEF IInv
<1>4. phase = "running"
  BY <1>2, <1>3, NoListingFields DEF RevisionInv
<1>5. /\ m \in Maps
      /\ \A p \in Panes : told[p] => m[p] = panes[p]
      /\ listing.rev = rev => \A p \in Panes : m[p] = listing.panes[p]
  BY <1>1, <1>2, ListedFields DEF Maps
<1>6. \A w \in Workspaces : ActiveIn(m, w) => w \in ws
  BY <1>1 DEF ActiveIn
<1>7. \A w \in Workspaces : ActiveIn(m, w) \in BOOLEAN
  BY DEF ActiveIn
<1>8. /\ stable' \in [Workspaces -> BOOLEAN] /\ applied' \in [Workspaces -> BOOLEAN]
      /\ pending' \in [Workspaces -> {"none", "quiet", "active"}]
      /\ StableInv' /\ CycleInv'
  <2>1. \A w \in Workspaces : ActiveIn(panes, w)' <=> ActiveIn(m, w)
    BY <1>2 DEF ActiveIn
  <2>2. CASE seeded
    <3>1. /\ Observed(m, ws) \in [Workspaces -> {"none", "quiet", "active"}]
          /\ \A w \in Workspaces :
               ActiveIn(m, w) /\ Observed(m, ws)[w] # "active" => stable[w]
      BY <1>4, <1>6, ObservedSettles
    <3>2. /\ pending' = Observed(m, ws) /\ stable' = stable /\ applied' = applied
          /\ tasks' = tasks /\ cycle' = cycle /\ gen' = gen /\ seeded' = seeded
      BY <1>2, <2>2
    <3>3. StableInv'
      BY <1>3, <1>4, <2>1, <3>1, <3>2 DEF StableInv
    <3>4. CycleInv'
      BY <1>3, <3>2 DEF CycleInv
    <3> QED
      BY <1>3, <3>1, <3>2, <3>3, <3>4 DEF OtherTypes, WorkTypes
  <2>3. CASE ~seeded
    <3>1. /\ stable' = [w \in Workspaces |->
                          IF w \in ws THEN ActiveIn(m, w) ELSE stable[w]]
          /\ applied' = [w \in Workspaces |->
                           IF w \in ws THEN ActiveIn(m, w) ELSE applied[w]]
          /\ pending' = pending
          /\ tasks' = tasks /\ cycle' = cycle /\ gen' = gen /\ seeded' = TRUE
      BY <1>2, <2>3
    <3>2. stable' \in [Workspaces -> BOOLEAN] /\ applied' \in [Workspaces -> BOOLEAN]
      BY <1>3, <1>7, <3>1 DEF OtherTypes, WorkTypes
    <3>3. StableInv'
      BY <1>3, <1>4, <1>6, <2>1, <3>1 DEF StableInv
    <3>4. CycleInv'
      BY <1>3, <2>3, <3>1 DEF CycleInv
    <3> QED
      BY <1>3, <3>1, <3>2, <3>3, <3>4 DEF OtherTypes
  <2> QED
    BY <1>3, <2>2, <2>3 DEF OtherTypes
<1>9. /\ listing.rev \in Revisions /\ listing.seen \in Revisions
      /\ listing.rev <= rev /\ listing.seen <= changes
      /\ listed' \in BOOLEAN
  BY <1>2, <1>3 DEF OtherTypes, RevisionInv
<1>10. OtherTypes'
  BY <1>2, <1>3, <1>5, <1>8, <1>9, NoListingFields DEF OtherTypes
<1>11. WorkTypes'
  BY <1>2, <1>3, <1>8 DEF WorkTypes
<1>12. WorkInv' /\ QueueInv'
  BY <1>2, <1>3 DEF WorkInv, QueueInv, Queued
<1>13. MessageInv'
  BY <1>2, <1>3 DEF MessageInv, Truthful
<1>14. RevisionInv'
  <2>1. rev \in Nat /\ changes \in Nat
    BY <1>3 DEF OtherTypes
  <2> QED
    BY <1>2, <1>3, <1>4, <1>9, <2>1, NoListingFields DEF RevisionInv
<1>15. ListingInv'
  BY <1>2, NoListingFields DEF ListingInv
<1>16. ListedInv'
  <2> SUFFICES ASSUME listed'
               PROVE  panes' = server'
    BY DEF ListedInv
  <2>1. listing.rev = rev /\ listing.seen = changes
    BY <1>2, <1>9
  <2>2. listing.panes = server /\ server \in Maps
    BY <1>2, <1>3, <2>1 DEF ListingInv, OtherTypes
  <2>3. \A p \in Panes : m[p] = server[p]
    BY <1>5, <2>1, <2>2
  <2>4. m = server
    BY <1>5, <2>2, <2>3 DEF Maps
  <2> QED
    BY <1>2, <2>4
<1>17. EventsOutliveListings'
  BY <1>2, <1>3, <1>5 DEF EventsOutliveListings
<1> QED
  BY <1>8, <1>10, <1>11, <1>12, <1>13, <1>14, <1>15, <1>16, <1>17, TypesNext, PartsNext
  DEF WireInv

\* The runtime leaves its sockets; its workers go on.
LEMMA StopKeeps ==
  ASSUME IInv, Stop
  PROVE  IInv'
<1>1. /\ phase' = "stopping" /\ life' = <<>> /\ status' = <<>>
      /\ pending' = Fresh.none
      /\ listing' = NoListing /\ listed' = FALSE
      /\ server' = Fresh.panes /\ changes' = MaxChanges /\ latest' = Fresh.paneRev
      /\ told' = [p \in Panes |-> FALSE]
      /\ UNCHANGED <<panes, paneRev, closedRev, rev, stable, gen, applied, workers,
                     tasks, cycle, queue, seeded>>
  BY DEF Stop
<1>2. OtherTypes /\ WorkTypes /\ RevisionInv /\ WorkInv /\ QueueInv /\ CycleInv
  BY Parts, Types DEF IInv
<1>3. MaxChanges \in Nat /\ rev \in 0 .. MaxChanges
  BY <1>2 DEF OtherTypes
<1>4. /\ life' \in Seq(Message) /\ status' \in Seq(Message)
      /\ Len(life') = 0 /\ Len(status') = 0 /\ DOMAIN life' = {} /\ DOMAIN status' = {}
  BY <1>1, EmptySeq
<1>5. /\ latest' \in [Panes -> Revisions] /\ told' \in [Panes -> BOOLEAN]
      /\ \A p \in Panes : latest'[p] = 0
      /\ pending' \in [Workspaces -> {"none", "quiet", "active"}]
      /\ server' \in Maps
  BY <1>1, <1>3, FreshFields
<1>6. OtherTypes'
  <2>1. changes' \in Revisions /\ phase' \in {"running", "stopping", "stopped"}
    BY <1>1, <1>3
  <2>2. /\ listing' \in [at : {"none", "asked", "answered"}, rev : Revisions,
                         seen : Revisions, panes : Maps]
        /\ listed' \in BOOLEAN
    BY <1>1, NoListingFields
  <2>3. /\ panes' \in Maps /\ paneRev' \in [Panes -> Revisions]
        /\ closedRev' \in [Workspaces -> Revisions] /\ rev' \in Revisions
        /\ seeded' \in BOOLEAN /\ stable' \in [Workspaces -> BOOLEAN]
        /\ gen' \in [Workspaces -> Revisions]
    BY <1>1, <1>2 DEF OtherTypes
  <2> QED
    BY <1>4, <1>5, <2>1, <2>2, <2>3 DEF OtherTypes
<1>7. WorkTypes' /\ WorkInv' /\ QueueInv' /\ CycleInv'
  BY <1>1, <1>2 DEF WorkTypes, WorkInv, QueueInv, Queued, CycleInv
<1>8. StableInv' /\ ListedInv' /\ EventsOutliveListings'
  BY <1>1 DEF StableInv, ListedInv, EventsOutliveListings
<1>9. MessageInv'
  BY <1>1, <1>3, <1>4 DEF MessageInv
<1>10. RevisionInv'
  BY <1>1, <1>2, <1>3, <1>5, NoListingFields DEF RevisionInv
<1>11. ListingInv'
  BY <1>1, NoListingFields DEF ListingInv
<1> QED
  BY <1>6, <1>7, <1>8, <1>9, <1>10, <1>11, TypesNext, PartsNext DEF WireInv

\* The tracker forgets everything.
LEMMA StopEndsKeeps ==
  ASSUME IInv, StopEnds
  PROVE  IInv'
<1>1. /\ phase = "stopping" /\ phase' = "stopped" /\ \A w \in Workspaces : tasks[w] = {}
      /\ panes' = Fresh.panes /\ paneRev' = Fresh.paneRev
      /\ closedRev' = Fresh.closedRev /\ rev' = 0 /\ seeded' = FALSE
      /\ stable' = Fresh.off /\ applied' = Fresh.off /\ gen' = Fresh.zero
      /\ workers' = Fresh.idle /\ cycle' = Fresh.cycle
      /\ UNCHANGED <<server, changes, latest, life, status, pending, tasks, queue,
                     told, listing, listed>>
  BY DEF StopEnds
<1>2. OtherTypes /\ WorkTypes /\ RevisionInv /\ WorkInv /\ QueueInv /\ MessageInv
  BY Parts, Types DEF IInv
<1>3. MaxChanges \in Nat /\ rev \in Nat /\ changes \in Nat
  BY <1>2 DEF OtherTypes
<1>4. /\ panes' \in Maps /\ paneRev' \in [Panes -> Revisions]
      /\ closedRev' \in [Workspaces -> Revisions] /\ rev' \in Revisions
      /\ stable' \in [Workspaces -> BOOLEAN] /\ applied' \in [Workspaces -> BOOLEAN]
      /\ gen' \in [Workspaces -> Revisions]
      /\ workers' \in [Workspaces -> Revisions \cup {NoWorker}]
      /\ cycle' \in [Workspaces -> [state : Cycles, gen : Revisions, early : BOOLEAN]]
      /\ \A p \in Panes : paneRev'[p] = 0
      /\ \A w \in Workspaces :
           /\ closedRev'[w] = 0 /\ gen'[w] = 0 /\ workers'[w] = NoWorker
           /\ cycle'[w].state = "none"
  BY <1>1, <1>3, FreshFields
<1>5. OtherTypes'
  BY <1>1, <1>2, <1>4 DEF OtherTypes
<1>6. WorkTypes'
  BY <1>1, <1>2, <1>4 DEF WorkTypes
<1>7. WorkInv' /\ CycleInv'
  BY <1>1, <1>4 DEF WorkInv, CycleInv
<1>8. QueueInv'
  BY <1>1, <1>2 DEF QueueInv, Queued
<1>9. StableInv' /\ ListedInv' /\ EventsOutliveListings'
  BY <1>1 DEF StableInv, ListedInv, EventsOutliveListings
<1>10. MessageInv'
  <2>1. Len(life) \in Nat /\ Len(status) \in Nat
    BY <1>2, LenProperties DEF OtherTypes
  <2>2. rev' + Len(life') + Len(status') <= changes'
    BY <1>1, <1>2, <1>3, <2>1 DEF MessageInv
  <2> QED
    BY <1>1, <1>2, <2>2 DEF MessageInv, Truthful
<1>11. listing = NoListing /\ ~listed
  BY <1>1, <1>2 DEF RevisionInv
<1>12. RevisionInv'
  BY <1>1, <1>2, <1>3, <1>4, <1>11, NoListingFields DEF RevisionInv
<1>13. ListingInv'
  BY <1>1, <1>11, NoListingFields DEF ListingInv
<1> QED
  BY <1>5, <1>6, <1>7, <1>8, <1>9, <1>10, <1>12, <1>13, TypesNext, PartsNext DEF WireInv

-----------------------------------------------------------------------------
(* The invariant. *)

\* The invariant holds before anything is known.
LEMMA InitInv == Init => IInv
<1> SUFFICES ASSUME Init PROVE IInv
  OBVIOUS
<1>1. /\ server \in Maps /\ changes = 0 /\ rev = 0 /\ MaxChanges \in Nat
      /\ life = <<>> /\ status = <<>> /\ queue = <<>> /\ phase = "running"
      /\ listing = NoListing /\ listed = FALSE /\ seeded = FALSE
      /\ panes = Fresh.panes /\ paneRev = Fresh.paneRev /\ closedRev = Fresh.closedRev
      /\ stable = Fresh.off /\ applied = Fresh.off /\ pending = Fresh.none
      /\ gen = Fresh.zero /\ workers = Fresh.idle /\ cycle = Fresh.cycle
      /\ tasks = [w \in Workspaces |-> {}]
      /\ latest = [p \in Panes |-> 0] /\ told = [p \in Panes |-> FALSE]
  BY StartsAssumption DEF Init
<1>2. /\ \A S : <<>> \in Seq(S)
      /\ Len(life) = 0 /\ Len(status) = 0
      /\ DOMAIN life = {} /\ DOMAIN status = {} /\ DOMAIN queue = {}
  BY <1>1, EmptySeq
<1>3. /\ panes \in Maps /\ paneRev \in [Panes -> Revisions]
      /\ closedRev \in [Workspaces -> Revisions]
      /\ stable \in [Workspaces -> BOOLEAN] /\ applied \in [Workspaces -> BOOLEAN]
      /\ pending \in [Workspaces -> {"none", "quiet", "active"}]
      /\ gen \in [Workspaces -> Revisions]
      /\ latest \in [Panes -> Revisions] /\ told \in [Panes -> BOOLEAN]
      /\ \A p \in Panes : paneRev[p] = 0 /\ latest[p] = 0 /\ panes[p] = Gone
      /\ \A w \in Workspaces : closedRev[w] = 0 /\ gen[w] = 0 /\ stable[w] = FALSE
  BY <1>1, FreshFields
<1>4. /\ workers \in [Workspaces -> Revisions \cup {NoWorker}]
      /\ tasks \in [Workspaces -> SUBSET Task]
      /\ cycle \in [Workspaces -> [state : Cycles, gen : Revisions, early : BOOLEAN]]
      /\ \A w \in Workspaces :
           /\ workers[w] = NoWorker /\ tasks[w] = {} /\ cycle[w].state = "none"
           /\ applied[w] = FALSE
  BY <1>1, FreshFields
<1>5. TypeOK
  <2>1. OtherTypes
    BY <1>1, <1>2, <1>3, NoListingFields DEF OtherTypes
  <2>2. WorkTypes
    BY <1>1, <1>2, <1>3, <1>4 DEF WorkTypes
  <2> QED
    BY <2>1, <2>2, Types
<1>6. MessageInv
  BY <1>1, <1>2 DEF MessageInv
<1>7. RevisionInv /\ ListingInv /\ ListedInv
  BY <1>1, <1>3, NoListingFields DEF RevisionInv, ListingInv, ListedInv
<1>8. EventsOutliveListings /\ WorkInv /\ CycleInv
  BY <1>1, <1>4 DEF EventsOutliveListings, WorkInv, CycleInv
<1>9. QueueInv
  BY <1>2, <1>4 DEF QueueInv, Queued
<1>10. StableInv
  BY <1>3, <1>4, PaneFields DEF StableInv, ActiveIn
<1> QED
  BY <1>5, <1>6, <1>7, <1>8, <1>9, <1>10 DEF IInv

\* Every step preserves the invariant.
LEMMA NextKeeps == IInv /\ [Next]_vars => IInv'
<1> SUFFICES ASSUME IInv, [Next]_vars PROVE IInv'
  OBVIOUS
<1>1. CASE Herdr
  BY <1>1, StatusChangesKeeps, PaneOpensKeeps, PaneClosesKeeps, PaneMovesKeeps,
     WorkspaceClosesKeeps DEF Herdr
<1>2. CASE Listing
  BY <1>2, BeginPaneListKeeps, AnswerPaneListKeeps, ReconcilePaneListKeeps DEF Listing
<1>3. CASE Progress
  BY <1>3, HandleStatusKeeps, HandleLifeKeeps, StopEndsKeeps, TimerFiresKeeps,
     ResolveRootKeeps, ResolveRootFailsKeeps, SnapshotEndsKeeps DEF Progress
<1>4. CASE Stop
  BY <1>4, StopKeeps
<1>5. CASE UNCHANGED vars
  <2>1. Outside /\ UNCHANGED <<stable, pending, applied, workers, tasks, cycle, queue>>
    BY <1>5 DEF vars, Outside
  <2>2. WireInv'
    BY <2>1, OutsideKeeps, Parts
  <2>3. WorkTypes' /\ WorkInv' /\ QueueInv' /\ CycleInv' /\ StableInv'
    BY <2>1, WorkStays DEF Outside
  <2>4. OtherTypes'
    BY <2>1, Parts, Types DEF OtherTypes, Outside
  <2> QED
    BY <2>2, <2>3, <2>4, TypesNext, PartsNext
<1> QED
  BY <1>1, <1>2, <1>3, <1>4, <1>5 DEF Next

-----------------------------------------------------------------------------
(* The theorems. *)

\* The inductive invariant of the tracker and the store holds throughout.
THEOREM Invariance == Safety => []IInv
<1>1. Init => IInv
  BY InitInv
<1>2. IInv /\ [Next]_vars => IInv'
  BY NextKeeps
<1> QED
  BY <1>1, <1>2, PTL DEF Safety

\* The worker of a workspace has at most one call of the store under way, and
\* waits at most once for the root, whatever was closed and opened meanwhile.
THEOREM CallsDoNotOverlap == Safety => []OneCallPerWorkspace
<1>1. IInv => OneCallPerWorkspace
  <2> SUFFICES ASSUME IInv, NEW w \in Workspaces
               PROVE  /\ Cardinality(tasks[w]) <= 1
                      /\ Cardinality({i \in DOMAIN queue : queue[i] = w}) <= 1
    BY DEF OneCallPerWorkspace
  <2>1. \A s, t \in tasks[w] : s = t
    BY DEF IInv, WorkInv
  <2>2. \A i, j \in {k \in DOMAIN queue : queue[k] = w} : i = j
    BY DEF IInv, QueueInv
  <2>3. ASSUME NEW S, \A x, y \in S : x = y PROVE Cardinality(S) <= 1
    <3>1. CASE S = {}
      BY <3>1, FS_EmptySet
    <3>2. CASE S # {}
      <4>1. PICK x \in S : TRUE
        BY <3>2
      <4>2. S = {x}
        BY <2>3, <4>1
      <4> QED
        BY <4>2, FS_Singleton
    <3> QED
      BY <3>1, <3>2
  <2> QED
    BY <2>1, <2>2, <2>3
<1> QED
  BY <1>1, Invariance, PTL

\* With no timer and no call under way, what was committed has been applied,
\* and a workspace in which an agent works is known to be active.
THEOREM QuietIsSettled == Safety => []QuietMeansSettled
<1>1. IInv => QuietMeansSettled
  BY DEF IInv, StableInv, QuietMeansSettled
<1> QED
  BY <1>1, Invariance, PTL

\* No listing takes back what an event told of a pane after it was asked for.
THEOREM EventsPrevail == Safety => []EventsOutliveListings
<1>1. IInv => EventsOutliveListings
  BY DEF IInv
<1> QED
  BY <1>1, Invariance, PTL

\* A step that is completed was begun in the same life of its workspace.
THEOREM StepsStayInOneLife == Safety => []StepWithinOneLife
<1>1. IInv => StepWithinOneLife
  BY DEF IInv, WorkInv, StepWithinOneLife
<1> QED
  BY <1>1, Invariance, PTL

\* Once nothing is under way after a listing of Herdr as it is, the tracker has
\* its panes, and a step was begun wherever an agent works.
THEOREM SettledTracksHerdr == Safety => []SettledIsTrue
<1>1. IInv => SettledIsTrue
  <2> SUFFICES ASSUME IInv, Settled
               PROVE  /\ panes = server
                      /\ \A w \in Workspaces : ActiveIn(server, w) => applied[w]
    BY DEF SettledIsTrue
  <2>1. panes = server
    BY DEF IInv, ListedInv, Settled
  <2>2. \A w \in Workspaces : ActiveIn(panes, w) => applied[w]
    BY DEF IInv, StableInv, Settled
  <2> QED
    BY <2>1, <2>2
<1> QED
  BY <1>1, Invariance, PTL

-----------------------------------------------------------------------------
(* The calls of the store are those of a StepRecorder.                       *)

\* No step is of a life that is still to come.
AgeInv == \A w \in Workspaces : cycle[w].gen <= gen[w]

CallKind(w) ==
  IF tasks[w] = {} THEN "none"
  ELSE IF \E t \in tasks[w] : t.edge THEN "begin" ELSE "complete"

StepOf(w) == [state |-> cycle[w].state, own |-> cycle[w].gen = gen[w],
              early |-> cycle[w].early]

\* The mapping, workspace by workspace.
LEMMA Mapped ==
  /\ callNow = [w \in Workspaces |-> CallKind(w)]
  /\ stepNow = [w \in Workspaces |-> StepOf(w)]
BY DEF callNow, stepNow, CallKind, StepOf

\* The same after a step.
LEMMA MappedNext ==
  (/\ callNow = [w \in Workspaces |-> CallKind(w)]
   /\ stepNow = [w \in Workspaces |-> StepOf(w)])'
BY Mapped, PTL

\* A step that moves nothing but the call and the step of one workspace.
LEMMA MappedMove ==
  ASSUME NEW w \in Workspaces, NEW kind, NEW step,
         \A v \in Workspaces \ {w} :
           tasks'[v] = tasks[v] /\ cycle'[v] = cycle[v] /\ gen'[v] = gen[v],
         CallKind(w)' = kind, StepOf(w)' = step
  PROVE  /\ callNow' = [callNow EXCEPT ![w] = kind]
         /\ stepNow' = [stepNow EXCEPT ![w] = step]
<1>1. \A v \in Workspaces \ {w} : CallKind(v)' = CallKind(v) /\ StepOf(v)' = StepOf(v)
  BY DEF CallKind, StepOf
<1> QED
  BY <1>1, Mapped, MappedNext

\* A step that moves none.
LEMMA MappedStill ==
  ASSUME UNCHANGED <<tasks, cycle, gen>>
  PROVE  callNow' = callNow /\ stepNow' = stepNow
BY DEF callNow, stepNow

\* What one call in flight is to the store.
LEMMA KindOf ==
  ASSUME IInv, NEW w \in Workspaces
  PROVE  /\ tasks[w] = {} => CallKind(w) = "none"
         /\ \A t \in tasks[w] :
              /\ t.edge \in BOOLEAN
              /\ CallKind(w) = IF t.edge THEN "begin" ELSE "complete"
<1>1. tasks[w] \in SUBSET Task /\ \A s, t \in tasks[w] : s = t
  BY DEF IInv, TypeOK, WorkInv
<1> QED
  BY <1>1 DEF CallKind, Task

\* A worker that goes on from a call that ended, or from none, makes a turn.
LEMMA WorkTurns ==
  ASSUME IInv, IInv', NEW w \in Workspaces, NEW ap \in BOOLEAN, NEW q,
         NEW c \in [state : Cycles, gen : Revisions, early : BOOLEAN],
         c.gen = cycle[w].gen, c.early = cycle[w].early,
         c.state \in Recorder!Outcomes(w),
         Work(w, ap, c, q, {}), UNCHANGED <<gen, seeded, phase>>
  PROVE  Recorder!Turn(w)
<1> DEFINE due == phase = "running" /\ stable'[w] # ap
           capture == due /\ stable'[w]
           complete == due /\ ~stable'[w] /\ Completable(c)
           task(at) == [gen |-> gen[w], edge |-> stable'[w], at |-> at]
           fresh == [state |-> "pending", gen |-> gen[w], early |-> ~seeded]
<1>1. /\ applied' = [applied EXCEPT ![w] = IF due /\ ~capture /\ ~complete
                                            THEN FALSE ELSE ap]
      /\ tasks' = [tasks EXCEPT ![w] =
            IF capture THEN {} \cup {task("resolving")}
            ELSE IF complete THEN {} \cup {task("snapshot")} ELSE {}]
      /\ cycle' = [cycle EXCEPT ![w] = IF capture THEN fresh ELSE c]
  BY DEF Work
<1>2. /\ tasks \in [Workspaces -> SUBSET Task] /\ applied \in [Workspaces -> BOOLEAN]
      /\ cycle \in [Workspaces -> [state : Cycles, gen : Revisions, early : BOOLEAN]]
      /\ stable'[w] \in BOOLEAN /\ seeded \in BOOLEAN
  BY DEF IInv, TypeOK
<1>3. \A v \in Workspaces \ {w} :
        tasks'[v] = tasks[v] /\ cycle'[v] = cycle[v] /\ gen'[v] = gen[v]
  BY <1>1, <1>2
<1>4. /\ applied'[w] = IF due /\ ~capture /\ ~complete THEN FALSE ELSE ap
      /\ tasks'[w] = IF capture THEN {task("resolving")}
                     ELSE IF complete THEN {task("snapshot")} ELSE {}
      /\ cycle'[w] = IF capture THEN fresh ELSE c
  BY <1>1, <1>2
<1>5. stepNow[w] = StepOf(w)
  BY Mapped
<1> HIDE <1>1
<1>6. CASE capture
  <2>1. phase = "running" /\ stable'[w] = TRUE
    BY <1>2, <1>6
  <2>2. tasks'[w] = {task("resolving")} /\ cycle'[w] = fresh
    BY <1>4, <1>6
  <2>3. CallKind(w)' = "begin"
    <3>1. task("resolving").edge = TRUE
      BY <2>1
    <3> QED
      BY <2>2, <3>1 DEF CallKind
  <2>4. StepOf(w)' = [state |-> "pending", own |-> TRUE, early |-> ~seeded]
    <3>1. /\ cycle'[w].state = "pending" /\ cycle'[w].gen = gen'[w]
          /\ cycle'[w].early = ~seeded
      BY <2>2
    <3> QED
      BY <3>1 DEF StepOf
  <2>5. /\ callNow' = [callNow EXCEPT ![w] = "begin"]
        /\ stepNow' = [stepNow EXCEPT ![w] =
             [state |-> "pending", own |-> TRUE, early |-> ~seeded]]
    BY <1>3, <2>3, <2>4, MappedMove
  <2> QED
    BY <2>1, <2>5 DEF Recorder!Turn
<1>7. CASE complete
  <2>1. /\ phase = "running" /\ stable'[w] = FALSE /\ ap = TRUE /\ ~capture
        /\ c.state = "captured"
    BY <1>2, <1>7 DEF Completable
  <2>2. /\ tasks'[w] = {task("snapshot")} /\ cycle'[w] = c /\ applied'[w] = TRUE
    BY <1>4, <1>7, <2>1
  <2>3. CallKind(w)' = "complete"
    <3>1. task("snapshot").edge = FALSE
      BY <2>1
    <3> QED
      BY <2>2, <3>1 DEF CallKind
  <2>4. StepOf(w)' = [stepNow[w] EXCEPT !.state = "captured"]
    BY <1>5, <2>1, <2>2 DEF StepOf
  <2>5. cycle'[w].gen = gen'[w] \/ cycle'[w].early
    BY <2>1, <2>2 DEF IInv, CycleInv
  <2>6. stepNow[w].own \/ stepNow[w].early
    <3>1. cycle[w].gen = gen[w] \/ cycle[w].early
      BY <2>2, <2>5
    <3>2. stepNow[w].own = (cycle[w].gen = gen[w]) /\ stepNow[w].early = cycle[w].early
      BY <1>5 DEF StepOf
    <3> QED
      BY <3>1, <3>2
  <2>7. /\ callNow' = [callNow EXCEPT ![w] = "complete"]
        /\ stepNow' = [stepNow EXCEPT ![w] = [stepNow[w] EXCEPT !.state = "captured"]]
    BY <1>3, <2>3, <2>4, MappedMove
  <2> QED
    BY <2>1, <2>6, <2>7 DEF Recorder!Turn
<1>8. CASE ~capture /\ ~complete
  <2>1. tasks'[w] = {} /\ cycle'[w] = c
    BY <1>4, <1>8
  <2>2. CallKind(w)' = "none"
    BY <2>1 DEF CallKind
  <2>3. StepOf(w)' = [stepNow[w] EXCEPT !.state = c.state]
    BY <1>5, <2>1 DEF StepOf
  <2>4. PICK state : state = c.state
    OBVIOUS
  <2>5. /\ callNow' = [callNow EXCEPT ![w] = "none"]
        /\ stepNow' = [stepNow EXCEPT ![w] = [stepNow[w] EXCEPT !.state = state]]
    BY <1>3, <2>2, <2>3, <2>4, MappedMove
  <2> QED
    BY <2>4, <2>5 DEF Recorder!Turn
<1> QED
  BY <1>6, <1>7, <1>8

\* A call that ends.
LEMMA CallEndsTurns ==
  ASSUME IInv, IInv', NEW w \in Workspaces, NEW t \in tasks[w], NEW ok \in BOOLEAN,
         NEW q, CallEnds(w, t, ok, q)
  PROVE  Recorder!Turn(w)
<1> DEFINE ap == Consumed(w, t)
           c == Ended(w, t, ok)
<1>1. /\ applied[w] \in BOOLEAN /\ t \in Task /\ t.edge \in BOOLEAN
      /\ cycle[w] \in [state : Cycles, gen : Revisions, early : BOOLEAN]
  BY DEF IInv, TypeOK, Task
<1>2. ap \in BOOLEAN
  BY <1>1 DEF Consumed
<1>3. /\ c \in [state : Cycles, gen : Revisions, early : BOOLEAN]
      /\ c.gen = cycle[w].gen /\ c.early = cycle[w].early
      /\ c.state = IF ~ok THEN "failed" ELSE IF t.edge THEN "captured" ELSE "ended"
  BY <1>1 DEF Ended, Cycles
<1>4. callNow[w] = IF t.edge THEN "begin" ELSE "complete"
  BY KindOf, Mapped
<1>5. c.state \in Recorder!Outcomes(w)
  BY <1>1, <1>3, <1>4 DEF Recorder!Outcomes
<1>6. tasks[w] \ {t} = {}
  BY DEF IInv, WorkInv
<1>7. Work(w, ap, c, q, {}) /\ UNCHANGED <<gen, seeded, phase>>
  BY <1>6 DEF CallEnds
<1> HIDE DEF ap, c
<1> QED
  BY <1>2, <1>3, <1>5, <1>7, WorkTurns

\* Steps of a worker.
LEMMA WorkerTurns ==
  ASSUME IInv, IInv', NEW w \in Workspaces,
         TimerFires(w) \/ ResolveRoot(w) \/ ResolveRootFails(w) \/ SnapshotEnds(w)
  PROVE  Recorder!Turn(w) \/ UNCHANGED <<phase, seeded, callNow, stepNow>>
<1>1. CASE TimerFires(w)
  <2>1. \/ Idle(w) /\ Work(w, applied[w], cycle[w], queue, tasks[w])
        \/ UNCHANGED workVars
    BY <1>1 DEF TimerFires
  <2>2. UNCHANGED <<gen, seeded, phase>>
    BY <1>1 DEF TimerFires
  <2>3. CASE Idle(w) /\ Work(w, applied[w], cycle[w], queue, tasks[w])
    <3>1. tasks[w] = {}
      BY <2>3 DEF IInv, WorkInv, Idle
    <3>2. /\ callNow[w] = "none" /\ stepNow[w].state = cycle[w].state
      BY <3>1, Mapped, KindOf DEF StepOf
    <3>3. cycle[w].state \in Recorder!Outcomes(w)
      BY <3>2 DEF Recorder!Outcomes
    <3>4. PICK ap \in BOOLEAN,
               c \in [state : Cycles, gen : Revisions, early : BOOLEAN] :
            ap = applied[w] /\ c = cycle[w]
      BY DEF IInv, TypeOK
    <3> QED
      BY <2>2, <2>3, <3>1, <3>3, <3>4, WorkTurns
  <2> QED
    BY <2>1, <2>2, <2>3, MappedStill
<1>2. CASE ResolveRoot(w)
  <2>1. PICK t \in tasks[w] :
          /\ tasks' = [tasks EXCEPT ![w] = (@ \ {t}) \cup {[t EXCEPT !.at = "snapshot"]}]
          /\ UNCHANGED <<gen, cycle, seeded, phase>>
    BY <1>2 DEF ResolveRoot
  <2>2. /\ tasks \in [Workspaces -> SUBSET Task] /\ tasks[w] \ {t} = {}
        /\ t \in Task
    BY DEF IInv, TypeOK, WorkInv
  <2>3. PICK s : s = [t EXCEPT !.at = "snapshot"]
    OBVIOUS
  <2>4. s.edge = t.edge
    BY <2>2, <2>3 DEF Task
  <2>5. tasks'[w] = {s} /\ \A v \in Workspaces \ {w} : tasks'[v] = tasks[v]
    BY <2>1, <2>2, <2>3
  <2>6. \A v \in Workspaces : CallKind(v)' = CallKind(v)
    <3>1. CallKind(w)' = CallKind(w)
      BY <2>4, <2>5, KindOf DEF CallKind
    <3> QED
      BY <2>5, <3>1 DEF CallKind
  <2> QED
    BY <2>1, <2>6 DEF callNow, stepNow, CallKind
<1>3. CASE ResolveRootFails(w)
  BY <1>3, CallEndsTurns DEF ResolveRootFails
<1>4. CASE SnapshotEnds(w)
  <2>1. PICK t \in tasks[w], ok \in BOOLEAN : CallEnds(w, t, ok, Tail(queue))
    BY <1>4 DEF SnapshotEnds
  <2> QED
    BY <2>1, CallEndsTurns
<1> QED
  BY <1>1, <1>2, <1>3, <1>4

\* A step begins in the life that its workspace has.
LEMMA WorkAges ==
  ASSUME IInv, AgeInv, NEW w \in Workspaces, NEW ap, NEW c, NEW q, NEW others,
         c.gen = cycle[w].gen, Work(w, ap, c, q, others), UNCHANGED gen
  PROVE  AgeInv'
<1>1. \E capture \in BOOLEAN :
        cycle' = [cycle EXCEPT ![w] =
          IF capture THEN [state |-> "pending", gen |-> gen[w], early |-> ~seeded]
          ELSE c]
  <2>1. stable'[w] \in BOOLEAN => (phase = "running" /\ stable'[w] # ap /\ stable'[w]) \in BOOLEAN
    OBVIOUS
  <2> QED
    BY <2>1 DEF Work
<1>2. cycle \in [Workspaces -> [state : Cycles, gen : Revisions, early : BOOLEAN]]
      /\ gen \in [Workspaces -> Revisions] /\ MaxChanges \in Nat
  BY DEF IInv, TypeOK
<1>3. \A v \in Workspaces \ {w} : cycle'[v] = cycle[v]
  BY <1>1, <1>2
<1>4. cycle'[w].gen \in {gen[w], cycle[w].gen}
  BY <1>1, <1>2
<1> QED
  BY <1>2, <1>3, <1>4 DEF AgeInv

\* The step of a worker keeps ages, whatever it does.
LEMMA WorkerAges ==
  ASSUME IInv, AgeInv, NEW w \in Workspaces,
         TimerFires(w) \/ ResolveRoot(w) \/ ResolveRootFails(w) \/ SnapshotEnds(w)
  PROVE  AgeInv'
<1>1. CASE TimerFires(w)
  <2>1. /\ \/ Work(w, applied[w], cycle[w], queue, tasks[w])
           \/ UNCHANGED <<cycle>>
        /\ UNCHANGED gen
    BY <1>1 DEF TimerFires
  <2>2. CASE UNCHANGED <<cycle>>
    BY <2>1, <2>2 DEF AgeInv
  <2> QED
    BY <2>1, <2>2, WorkAges
<1>2. ASSUME NEW t \in tasks[w], NEW ok \in BOOLEAN, NEW q, CallEnds(w, t, ok, q)
      PROVE  AgeInv'
  <2>1. PICK c, ap : c = Ended(w, t, ok) /\ ap = Consumed(w, t)
    OBVIOUS
  <2>2. c.gen = cycle[w].gen
    <3>1. cycle[w] \in [state : Cycles, gen : Revisions, early : BOOLEAN]
      BY DEF IInv, TypeOK
    <3> QED
      BY <2>1, <3>1 DEF Ended
  <2>3. Work(w, ap, c, q, tasks[w] \ {t}) /\ UNCHANGED gen
    BY <1>2, <2>1 DEF CallEnds
  <2> QED
    BY <2>2, <2>3, WorkAges
<1>3. CASE ResolveRoot(w)
  BY <1>3 DEF ResolveRoot, AgeInv
<1>4. CASE ResolveRootFails(w)
  BY <1>2, <1>4 DEF ResolveRootFails
<1>5. CASE SnapshotEnds(w)
  <2>1. PICK t \in tasks[w], ok \in BOOLEAN : CallEnds(w, t, ok, Tail(queue))
    BY <1>5 DEF SnapshotEnds
  <2> QED
    BY <1>2, <2>1
<1> QED
  BY <1>1, <1>3, <1>4, <1>5

\* What Herdr does reaches no call of the store.
LEMMA HerdrIsApart ==
  ASSUME Herdr
  PROVE  UNCHANGED <<phase, seeded, tasks, cycle, gen>>
<1>1. \E ps : Change(ps)
  BY DEF Herdr, StatusChanges, PaneOpens, PaneCloses, PaneMoves, WorkspaceCloses
<1> QED
  BY <1>1 DEF Change

\* An event ends the life of the workspace that closed, or touches no step.
LEMMA EventCloses ==
  ASSUME IInv, AgeInv, HandleStatus \/ HandleLife
  PROVE  /\ phase = "running" /\ UNCHANGED <<phase, seeded, tasks, cycle>>
         /\ \/ UNCHANGED gen
            \/ \E w \in Workspaces : gen' = [gen EXCEPT ![w] = @ + 1]
<1>1. CASE HandleStatus
  BY <1>1 DEF HandleStatus, EventTaken
<1>2. CASE HandleLife
  <2>1. PICK m : m = Head(life)
    OBVIOUS
  <2>2. /\ phase = "running" /\ life # <<>>
        /\ UNCHANGED <<phase, seeded, tasks, cycle>>
        /\ \/ m.kind = "moved" /\ HandleMoved(m)
           \/ m.kind = "closed" /\ HandlePaneClosed(m)
           \/ m.kind = "workspace" /\ HandleWorkspaceClosed(m)
    BY <1>2, <2>1 DEF HandleLife
  <2>3. m.kind = "workspace" => m.ws \in Workspaces
    BY <2>1, <2>2, HeadTruthful, MessageFields
  <2>4. m.kind = "workspace" /\ HandleWorkspaceClosed(m)
          => gen' = [gen EXCEPT ![m.ws] = @ + 1]
    BY DEF HandleWorkspaceClosed
  <2>5. HandleMoved(m) \/ HandlePaneClosed(m) => UNCHANGED gen
    BY DEF HandleMoved, HandlePaneClosed
  <2> QED
    BY <2>2, <2>3, <2>4, <2>5
<1> QED
  BY <1>1, <1>2

\* No step of the tracker makes a step younger than its workspace.
LEMMA AgeStep == IInv /\ AgeInv /\ [Next]_vars => AgeInv'
<1> SUFFICES ASSUME IInv, AgeInv, [Next]_vars PROVE AgeInv'
  OBVIOUS
<1>1. gen \in [Workspaces -> Revisions] /\ MaxChanges \in Nat
      /\ cycle \in [Workspaces -> [state : Cycles, gen : Revisions, early : BOOLEAN]]
  BY DEF IInv, TypeOK
<1>2. CASE UNCHANGED <<cycle, gen>>
  BY <1>2 DEF AgeInv
<1>3. CASE HandleStatus \/ HandleLife
  <2>1. \/ UNCHANGED gen
        \/ \E w \in Workspaces : gen' = [gen EXCEPT ![w] = @ + 1]
    BY <1>3, EventCloses
  <2>2. UNCHANGED cycle
    BY <1>3, EventCloses
  <2> QED
    BY <1>1, <2>1, <2>2 DEF AgeInv
<1>4. CASE StopEnds
  <2>1. \A w \in Workspaces : cycle'[w].gen = 0 /\ gen'[w] = 0
    BY <1>4 DEF StopEnds, Fresh
  <2> QED
    BY <2>1 DEF AgeInv
<1>5. CASE Herdr
  BY <1>2, <1>5, HerdrIsApart
<1>6. CASE Listing \/ Stop \/ UNCHANGED vars
  BY <1>2, <1>6 DEF Listing, BeginPaneList, AnswerPaneList, ReconcilePaneList,
                    Stop, vars
<1> QED
  BY <1>3, <1>4, <1>5, <1>6, WorkerAges DEF Next, Progress

\* A close is told to the step of its workspace.
LEMMA CloseStep ==
  ASSUME IInv, AgeInv, NEW w \in Workspaces, phase = "running",
         gen' = [gen EXCEPT ![w] = @ + 1],
         UNCHANGED <<phase, seeded, tasks, cycle>>
  PROVE  Recorder!Close(w)
<1>1. /\ cycle \in [Workspaces -> [state : Cycles, gen : Revisions, early : BOOLEAN]]
      /\ gen \in [Workspaces -> Revisions] /\ MaxChanges \in Nat
  BY DEF IInv, TypeOK
<1>2. cycle[w].gen # gen'[w] /\ \A v \in Workspaces \ {w} : gen'[v] = gen[v]
  BY <1>1 DEF AgeInv
<1>3. CallKind(w)' = callNow[w]
  BY Mapped DEF CallKind
<1>4. StepOf(w)' = [stepNow[w] EXCEPT !.own = FALSE]
  <2>1. cycle'[w] = cycle[w] /\ (cycle'[w].gen = gen'[w]) = FALSE
    BY <1>2
  <2>2. StepOf(w)' = [state |-> cycle[w].state, own |-> FALSE,
                      early |-> cycle[w].early]
    BY <2>1 DEF StepOf
  <2>3. PICK own : stepNow[w] = [state |-> cycle[w].state, own |-> own,
                                 early |-> cycle[w].early]
    BY Mapped DEF StepOf
  <2>4. PICK state, early, no :
          state = cycle[w].state /\ early = cycle[w].early /\ no = FALSE
    OBVIOUS
  <2>5. [[state |-> state, own |-> own, early |-> early] EXCEPT !.own = no]
          = [state |-> state, own |-> no, early |-> early]
    OBVIOUS
  <2> QED
    BY <2>2, <2>3, <2>4, <2>5, Zenon
<1>5. /\ callNow' = [callNow EXCEPT ![w] = callNow[w]]
      /\ stepNow' = [stepNow EXCEPT ![w] = [stepNow[w] EXCEPT !.own = FALSE]]
  BY <1>2, <1>3, <1>4, MappedMove
<1>6. callNow' = callNow
  BY <1>5, Mapped
<1> QED
  BY <1>5, <1>6 DEF Recorder!Close

\* Every step is one of the recorder, or none that the store can tell.
LEMMA RecorderStep ==
  IInv /\ IInv' /\ AgeInv /\ [Next]_vars => [Recorder!Next]_(Recorder!vars)
<1> SUFFICES ASSUME IInv, IInv', AgeInv, [Next]_vars
             PROVE  Recorder!Next \/ UNCHANGED <<phase, seeded, callNow, stepNow>>
  BY DEF Recorder!vars
<1>1. CASE UNCHANGED <<phase, seeded, tasks, cycle, gen>>
  BY <1>1, MappedStill
<1>2. CASE Herdr
  BY <1>1, <1>2, HerdrIsApart
<1>3. CASE HandleStatus \/ HandleLife
  BY <1>1, <1>3, EventCloses, CloseStep DEF Recorder!Next
<1>4. ASSUME NEW w \in Workspaces,
             TimerFires(w) \/ ResolveRoot(w) \/ ResolveRootFails(w) \/ SnapshotEnds(w)
      PROVE  Recorder!Next \/ UNCHANGED <<phase, seeded, callNow, stepNow>>
  BY <1>4, WorkerTurns DEF Recorder!Next
<1>5. CASE ReconcilePaneList
  <2>1. /\ listing.at = "answered" /\ seeded' = TRUE
        /\ UNCHANGED <<phase, tasks, cycle, gen>>
    BY <1>5 DEF ReconcilePaneList
  <2>2. phase = "running"
    BY <2>1, NoListingFields DEF IInv, RevisionInv
  <2> QED
    BY <2>1, <2>2, MappedStill DEF Recorder!Next, Recorder!Seed
<1>6. CASE BeginPaneList \/ AnswerPaneList \/ UNCHANGED vars
  BY <1>1, <1>6 DEF BeginPaneList, AnswerPaneList, vars
<1>7. CASE Stop
  <2>1. /\ phase = "running" /\ phase' = "stopping"
        /\ UNCHANGED <<seeded, tasks, cycle, gen>>
    BY <1>7 DEF Stop
  <2> QED
    BY <2>1, MappedStill DEF Recorder!Next, Recorder!Stop
<1>8. CASE StopEnds
  <2>1. /\ phase = "stopping" /\ phase' = "stopped" /\ seeded' = FALSE
        /\ cycle' = Fresh.cycle /\ gen' = Fresh.zero /\ UNCHANGED tasks
        /\ \A w \in Workspaces : tasks[w] = {}
    BY <1>8 DEF StopEnds
  <2>2. \A w \in Workspaces : callNow[w] = "none"
    BY <2>1, Mapped DEF CallKind
  <2>3. callNow' = callNow
    BY <2>1 DEF callNow
  <2>4. \A w \in Workspaces : cycle'[w] = [state |-> "none", gen |-> 0, early |-> FALSE]
                              /\ gen'[w] = 0
    BY <2>1 DEF Fresh
  <2>5. \A w \in Workspaces : StepOf(w)' = Recorder!NoStep
    <3>1. \A w \in Workspaces :
            /\ cycle'[w].state = "none" /\ cycle'[w].early = FALSE
            /\ (cycle'[w].gen = gen'[w]) = TRUE
      BY <2>4
    <3> QED
      BY <3>1 DEF StepOf, Recorder!NoStep
  <2>6. stepNow' = [w \in Workspaces |-> Recorder!NoStep]
    BY <2>5, MappedNext
  <2> QED
    BY <2>1, <2>2, <2>3, <2>6 DEF Recorder!Next, Recorder!Stopped
<1> QED
  BY <1>2, <1>3, <1>4, <1>5, <1>6, <1>7, <1>8 DEF Next, Listing, Progress

\* The tracker and the store keep the contract of a StepRecorder: one call at
\* a time, a completion only after a capture of the same life, none after stop.
THEOREM StepsStayRecorded == Safety => StepsAreRecorded
<1>1. Init => Recorder!Init /\ AgeInv
  <2> SUFFICES ASSUME Init PROVE Recorder!Init /\ AgeInv
    OBVIOUS
  <2>1. \A w \in Workspaces :
          /\ tasks[w] = {} /\ gen[w] = 0
          /\ cycle[w] = [state |-> "none", gen |-> 0, early |-> FALSE]
    BY DEF Init, Fresh
  <2>2. \A w \in Workspaces : CallKind(w) = "none" /\ StepOf(w) = Recorder!NoStep
    <3>1. \A w \in Workspaces :
            /\ cycle[w].state = "none" /\ cycle[w].early = FALSE
            /\ (cycle[w].gen = gen[w]) = TRUE
      BY <2>1
    <3> QED
      BY <2>1, <3>1 DEF CallKind, StepOf, Recorder!NoStep
  <2>3. AgeInv
    BY <2>1 DEF AgeInv
  <2> QED
    BY <2>2, <2>3, Mapped DEF Init, Recorder!Init
<1>2. Safety => []AgeInv
  BY <1>1, AgeStep, Invariance, PTL DEF Safety
<1> QED
  BY <1>1, <1>2, RecorderStep, Invariance, PTL DEF Safety, StepsAreRecorded, Recorder!Spec

=============================================================================
