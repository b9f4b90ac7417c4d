--------------------------- MODULE BrowserSyncProofs ---------------------------
(***************************************************************************)
(* Proofs about BrowserSync, for any set of connections and any bounds:    *)
(* the inductive invariant IInv, the two invariants that follow from it,   *)
(* of what the browser shows and of the events that keep it fresh, and the *)
(* refinement of RuntimeFollower.                                          *)
(***************************************************************************)
EXTENDS BrowserSync, SequenceTheorems, TLAPS

USE SyncAssumption DEF Gens, Catalogs, serverVars, socketVars, leaseVars,
                       catalogVars, refreshVars, bounds

-----------------------------------------------------------------------------
(* Records and queues. *)

\* The bounds are numbers.
LEMMA Bounds ==
  MaxGen \in Nat /\ MaxAsks \in Nat /\ MaxChanges \in Nat /\ MaxTroubles \in Nat
BY DEF SyncAssumption

\* A refresh that begins, and none.
LEMMA AskedFields ==
  ASSUME NEW c \in Conns, NEW cat \in Catalogs
  PROVE  /\ Asked(c, cat) \in Fetch /\ Asked(c, cat).at = "asked"
         /\ Asked(c, cat).of = [conn |-> c, gen |-> cat[c]]
         /\ NoFetch \in Fetch /\ NoFetch.at = "none"
BY DEF Asked, NoFetch, Fetch, Source

\* A new request of the catalog.
LEMMA NewAskFields ==
  ASSUME NEW kind \in {"connect", "poll", "list"}
  PROVE  /\ NewAsk(kind) \in Ask /\ NewAsk(kind).kind = kind
         /\ NewAsk(kind).answered = FALSE
BY DEF NewAsk, Ask

\* Queue r has the requests of queue q, and others that are not answered.
Extends(r, q) ==
  /\ r \in Seq(Ask) /\ Len(r) <= MaxAsks
  /\ \A k \in DOMAIN r : \/ k \in DOMAIN q /\ r[k] = q[k]
                         \/ r[k].answered = FALSE
  /\ q # <<>> => r # <<>> /\ r[1] = q[1]

\* A request is queued, or dropped at the bound.
LEMMA AskForExtends ==
  ASSUME NEW q \in Seq(Ask), Len(q) <= MaxAsks,
         NEW kind \in {"connect", "poll", "list"}
  PROVE  Extends(AskFor(kind, q), q)
<1>1. /\ Len(q) \in Nat /\ DOMAIN q = 1 .. Len(q)
      /\ q # <<>> => Len(q) # 0
  BY LenProperties, EmptySeq
<1>2. CASE Len(q) = MaxAsks
  <2>1. AskFor(kind, q) = q
    BY <1>2 DEF AskFor
  <2> QED
    BY <1>1, <1>2, <2>1 DEF Extends
<1>3. CASE Len(q) # MaxAsks
  <2>1. PICK a \in Ask : a = NewAsk(kind)
    BY NewAskFields
  <2>2. a.answered = FALSE
    BY <2>1, NewAskFields
  <2>3. AskFor(kind, q) = Append(q, a)
    BY <1>3, <2>1 DEF AskFor
  <2>4. PICK r : r = Append(q, a)
    OBVIOUS
  <2>5. /\ r \in Seq(Ask) /\ Len(r) = Len(q) + 1 /\ r[Len(q) + 1] = a
        /\ \A i \in 1 .. Len(q) : r[i] = q[i]
        /\ DOMAIN r = 1 .. Len(q) + 1
    BY <1>1, <2>4, AppendProperties, LenProperties
  <2>6. r # <<>>
    BY <1>1, <2>5, EmptySeq
  <2>7. Len(r) <= MaxAsks
    <3>1. Len(q) + 1 <= MaxAsks
      <4>1. PICK n \in Nat : n = Len(q)
        BY <1>1
      <4>2. n <= MaxAsks /\ n # MaxAsks
        BY <1>3, <4>1
      <4> QED
        BY <4>1, <4>2, Bounds
    <3> QED
      BY <2>5, <3>1
  <2>8. \A j \in DOMAIN r : (j \in DOMAIN q /\ r[j] = q[j]) \/ r[j].answered = FALSE
    BY <1>1, <2>2, <2>5
  <2>9. q # <<>> => r[1] = q[1]
    BY <1>1, <2>5
  <2>10. Extends(r, q)
    BY <2>5, <2>6, <2>7, <2>8, <2>9 DEF Extends
  <2> QED
    BY <2>3, <2>4, <2>10
<1> QED
  BY <1>2, <1>3

\* A queue without its first request.
LEMMA TailFields ==
  ASSUME NEW q \in Seq(Ask), q # <<>>, Len(q) <= MaxAsks
  PROVE  /\ Tail(q) \in Seq(Ask) /\ Len(Tail(q)) < MaxAsks
         /\ Head(q) = q[1] /\ q[1] \in Ask /\ 1 \in DOMAIN q
         /\ \A k \in DOMAIN Tail(q) : k + 1 \in DOMAIN q /\ Tail(q)[k] = q[k + 1]
<1>1. /\ Len(q) \in Nat /\ Len(q) # 0 /\ DOMAIN q = 1 .. Len(q)
  BY LenProperties, EmptySeq
<1>2. /\ Tail(q) \in Seq(Ask) /\ Len(Tail(q)) = Len(q) - 1
      /\ \A i \in 1 .. Len(q) - 1 : Tail(q)[i] = q[i + 1]
  BY <1>1, HeadTailProperties
<1>3. DOMAIN Tail(q) = 1 .. Len(q) - 1
  BY <1>2, LenProperties
<1>4. Head(q) = q[1] /\ q[1] \in Ask
  BY <1>1, ElementOfSeq
<1> QED
  BY <1>1, <1>2, <1>3, <1>4

\* A queue without its k-th request.
LEMMA RemovedFields ==
  ASSUME NEW q \in Seq(Ask), NEW k \in DOMAIN q, Len(q) <= MaxAsks
  PROVE  /\ RemoveAt(q, k) \in Seq(Ask) /\ Len(RemoveAt(q, k)) <= MaxAsks
         /\ \A j \in DOMAIN RemoveAt(q, k) :
              /\ \E i \in DOMAIN q : RemoveAt(q, k)[j] = q[i]
              /\ j <= k - 1 => j \in DOMAIN q /\ RemoveAt(q, k)[j] = q[j]
              /\ j > k - 1 => j + 1 \in DOMAIN q /\ RemoveAt(q, k)[j] = q[j + 1]
         /\ k # 1 => RemoveAt(q, k) # <<>> /\ RemoveAt(q, k)[1] = q[1]
<1> DEFINE b == SubSeq(q, 1, k - 1)
           e == SubSeq(q, k + 1, Len(q))
           r == b \o e
<1>1. Len(q) \in Nat /\ DOMAIN q = 1 .. Len(q) /\ k \in 1 .. Len(q)
  BY LenProperties
<1>2. /\ b \in Seq(Ask) /\ Len(b) = k - 1
      /\ \A i \in 1 .. k - 1 : b[i] = q[i]
  BY <1>1, SubSeqProperties
<1>3. /\ e \in Seq(Ask) /\ Len(e) = Len(q) - k
      /\ \A i \in 1 .. Len(q) - k : e[i] = q[k + i]
  <2>1. \A i \in k + 1 .. Len(q) : q[i] \in Ask
    BY <1>1, ElementOfSeq
  <2>2. k + 1 \in Int /\ Len(q) \in Int
    BY <1>1
  <2>3. /\ e \in Seq(Ask)
        /\ Len(e) = IF k + 1 <= Len(q) THEN Len(q) - (k + 1) + 1 ELSE 0
        /\ \A i \in 1 .. Len(q) - (k + 1) + 1 : e[i] = q[k + 1 + i - 1]
    BY <2>1, <2>2, SubSeqProperties
  <2> HIDE DEF e
  <2>4. Len(e) = Len(q) - k
    BY <1>1, <2>3
  <2>5. ASSUME NEW i \in 1 .. Len(q) - k PROVE e[i] = q[k + i]
    <3>1. k + 1 + i - 1 = k + i /\ i \in 1 .. Len(q) - (k + 1) + 1
      BY <1>1
    <3> QED
      BY <2>3, <3>1
  <2> QED
    BY <2>3, <2>4, <2>5
<1> HIDE DEF b, e
<1>4. /\ r \in Seq(Ask) /\ Len(r) = Len(q) - 1
      /\ \A i \in 1 .. Len(q) - 1 : r[i] = IF i <= k - 1 THEN b[i] ELSE e[i - (k - 1)]
  <2>1. /\ r \in Seq(Ask) /\ Len(r) = Len(b) + Len(e)
        /\ \A i \in 1 .. Len(b) + Len(e) :
             r[i] = IF i <= Len(b) THEN b[i] ELSE e[i - Len(b)]
    BY <1>2, <1>3, ConcatProperties
  <2>2. Len(b) + Len(e) = Len(q) - 1
    BY <1>1, <1>2, <1>3
  <2> HIDE DEF r
  <2> QED
    BY <1>2, <2>1, <2>2
<1>5. DOMAIN r = 1 .. Len(q) - 1
  BY <1>4, LenProperties
<1>6. RemoveAt(q, k) = r
  BY DEF RemoveAt, b, e
<1> HIDE DEF r
<1>7. \A j \in 1 .. Len(q) - 1 : r[j] = IF j <= k - 1 THEN q[j] ELSE q[j + 1]
  <2> SUFFICES ASSUME NEW j \in 1 .. Len(q) - 1
      PROVE  r[j] = IF j <= k - 1 THEN q[j] ELSE q[j + 1]
    OBVIOUS
  <2>1. CASE j <= k - 1
    BY <1>1, <1>2, <1>4, <2>1
  <2>2. CASE ~(j <= k - 1)
    <3>1. j - (k - 1) \in 1 .. Len(q) - k /\ k + (j - (k - 1)) = j + 1
      BY <1>1, <2>2
    <3> QED
      BY <1>3, <1>4, <2>2, <3>1
  <2> QED
    BY <2>1, <2>2
<1>8. ASSUME NEW j \in DOMAIN r
      PROVE  /\ \E i \in DOMAIN q : r[j] = q[i]
             /\ j <= k - 1 => j \in DOMAIN q /\ r[j] = q[j]
             /\ j > k - 1 => j + 1 \in DOMAIN q /\ r[j] = q[j + 1]
  BY <1>1, <1>5, <1>7
<1>9. k # 1 => r # <<>> /\ r[1] = q[1]
  BY <1>1, <1>4, <1>7, EmptySeq
<1> QED
  BY <1>1, <1>4, <1>6, <1>8, <1>9

-----------------------------------------------------------------------------
(* Refreshes and sessions. *)

\* The types of the state, variable by variable.
LEMMA Types ==
  ASSUME TypeOK
  PROVE  /\ fetch \in Fetch /\ queued \in BOOLEAN /\ timer \in BOOLEAN
         /\ catalog \in Catalogs /\ ready \in BOOLEAN /\ rearm \in BOOLEAN
         /\ asks \in Seq(Ask) /\ Len(asks) <= MaxAsks /\ Len(asks) \in Nat
         /\ DOMAIN asks = 1 .. Len(asks)
         /\ \A k \in DOMAIN asks : asks[k] \in Ask
         /\ \A c \in Conns : /\ sessions[c] \in Session /\ sessions[c].gen \in Gens
                             /\ sessions[c].view \in Content
                             /\ gen[c] \in Gens /\ gen[c] # 0 /\ catalog[c] \in Gens
<1>1. /\ Len(asks) \in Nat /\ DOMAIN asks = 1 .. Len(asks)
      /\ \A k \in DOMAIN asks : asks[k] \in Ask
  BY LenProperties, ElementOfSeq DEF TypeOK
<1> QED
  BY <1>1 DEF TypeOK, Session

\* Refreshes f and q become fetch' and queued', one asked of c in cat perhaps.
Refreshed(c, cat, f, q) ==
  /\ fetch' \in Fetch /\ queued' \in BOOLEAN
  /\ queued' = TRUE => fetch'.at # "none"
  /\ fetch' = f \/ (fetch' = Asked(c, cat) /\ cat[c] # 0 /\ c \in Conns)
  /\ q = TRUE => queued' = TRUE \/ fetch'.at = "asked"

\* What asking for a refresh does.
LEMMA RefreshMoves ==
  ASSUME NEW c, NEW cat \in Catalogs, NEW r \in BOOLEAN, NEW f \in Fetch,
         NEW q \in BOOLEAN, q = TRUE => f.at # "none",
         f.at = "none" => f = NoFetch,
         status' = "connected" => c \in Conns, RefreshNow(c, cat, r, f, q)
  PROVE  /\ Refreshed(c, cat, f, q)
         /\ status' = "connected" /\ r = TRUE /\ cat[c] # 0 =>
              queued' = TRUE \/ fetch'.at = "asked"
         /\ fetch' # f => status' = "connected" /\ r = TRUE
<1>1. CASE ~Leased(c, cat, r)
  BY <1>1 DEF RefreshNow, Refreshed, Leased
<1>2. CASE Leased(c, cat, r)
  <2>1. c \in Conns /\ cat[c] # 0 /\ status' = "connected" /\ r = TRUE
    BY <1>2 DEF Leased
  <2>2. CASE f = NoFetch
    <3>1. fetch' = Asked(c, cat) /\ queued' = FALSE
      BY <1>2, <2>2 DEF RefreshNow
    <3> QED
      BY <2>1, <3>1, AskedFields DEF Refreshed
  <2>3. CASE f # NoFetch
    <3>1. fetch' = f /\ queued' = TRUE
      BY <1>2, <2>3 DEF RefreshNow
    <3> QED
      BY <2>1, <2>3, <3>1 DEF Refreshed
  <2> QED
    BY <2>2, <2>3
<1> QED
  BY <1>1, <1>2

\* A session that is shown again is of the catalog's runtime, or empty.
LEMMA RestoredFields ==
  ASSUME TypeOK, SessionInv, NEW c \in Conns
  PROVE  /\ Restored(c) \in Session /\ Restored(c).gen = catalog[c]
         /\ Restored(c).view = Empty \/ Restored(c).view = sessions[c].view
<1>1. sessions[c] \in Session /\ catalog[c] \in Gens /\ sessions[c].gen = catalog[c]
  BY Types DEF SessionInv
<1>2. Empty \in Content
  BY DEF Empty, Content, Source
<1> QED
  BY <1>1, <1>2 DEF Restored, Session

-----------------------------------------------------------------------------
(* What an action leaves alone. *)

\* The parts of the invariant, when what they are about does not change.
LEMMA Kept ==
  ASSUME IInv
  PROVE  /\ UNCHANGED <<sessions, catalog>> => SessionInv'
         /\ UNCHANGED <<fetch, active, ready, catalog>> => FetchInv'
         /\ UNCHANGED <<ready, status, rearm, catalog, active, asks>>
              /\ (failed => failed') => CatalogInv'
         /\ UNCHANGED <<ready, status, rearm, catalog, active, gen, feed, sessions,
                        fetch>>
              /\ (failed => failed') /\ (Coming => Coming') => FreshInv'
<1>1. UNCHANGED <<sessions, catalog>> => SessionInv'
  BY DEF IInv, SessionInv
<1>2. UNCHANGED <<fetch, active, ready, catalog>> => FetchInv'
  BY DEF IInv, FetchInv
<1>3. UNCHANGED <<ready, status, rearm, catalog, active, asks>>
        /\ (failed => failed') => CatalogInv'
  BY DEF IInv, CatalogInv
<1>4. UNCHANGED <<ready, status, rearm, catalog, active, gen, feed, sessions, fetch>>
        /\ (failed => failed') /\ (Coming => Coming') => FreshInv'
  BY DEF IInv, FreshInv
<1> QED
  BY <1>1, <1>2, <1>3, <1>4

\* The initial states satisfy the invariant.
LEMMA InitInv ==
  ASSUME Init
  PROVE  IInv
<1>1. /\ <<>> \in Seq(Ask) /\ Len(<<>>) = 0 /\ Len(<<>>) <= MaxAsks
  BY EmptySeq
<1>2. /\ Empty \in Content /\ NoFetch \in Fetch /\ NoFetch.at = "none"
      /\ [gen |-> 0, view |-> Empty] \in Session
  BY DEF Empty, NoFetch, Content, Fetch, Source, Session
<1>3. TypeOK
  <2>1. sessions \in [Conns -> Session]
    BY <1>2 DEF Init
  <2>2. asks \in Seq(Ask) /\ Len(asks) <= MaxAsks
    BY <1>1 DEF Init
  <2>3. status \in {"disconnected", "connecting", "connected"}
    BY DEF Init
  <2>4. /\ gen \in [Conns -> Gens \ {0}] /\ feed \in [Conns -> BOOLEAN]
        /\ events \subseteq Source /\ active \in Conns \cup {Legacy}
        /\ catalog \in Catalogs /\ fetch \in Fetch
        /\ changes \in 0 .. MaxChanges /\ troubles \in 0 .. MaxTroubles
    BY <1>2 DEF Init
  <2>5. /\ retrying \in BOOLEAN /\ stray \in BOOLEAN /\ synced \in BOOLEAN
        /\ paused \in BOOLEAN /\ ready \in BOOLEAN
        /\ polling \in BOOLEAN /\ timer \in BOOLEAN
        /\ queued \in BOOLEAN /\ (queued => fetch.at # "none")
        /\ rearm \in BOOLEAN /\ failed \in BOOLEAN
    BY DEF Init
  <2> QED
    BY <2>1, <2>2, <2>3, <2>4, <2>5 DEF TypeOK
<1>4. SessionInv
  BY DEF Init, SessionInv
<1>5. FetchInv
  BY <1>2 DEF Init, FetchInv
<1>6. CatalogInv
  BY <1>1, EmptySeq DEF Init, CatalogInv
<1>7. FreshInv
  BY DEF Init, FreshInv
<1>8. PausedInv
  BY DEF Init, PausedInv
<1> QED
  BY <1>3, <1>4, <1>5, <1>6, <1>7, <1>8 DEF IInv

-----------------------------------------------------------------------------
(* The bridge. *)

\* The socket is lost or given up.
LEMMA TeardownKeeps ==
  ASSUME IInv, Teardown, status # "disconnected", stray' \in BOOLEAN, troubles' \in 0 .. MaxTroubles,
         UNCHANGED changes
  PROVE  IInv'
<1> USE DEF IInv
<1>1. /\ status' = "disconnected" /\ synced' \in BOOLEAN /\ retrying' = TRUE
      /\ timer' = FALSE /\ fetch' = NoFetch /\ queued' = FALSE
      /\ asks' = <<>> /\ events' = {} /\ ready' = FALSE /\ rearm' = TRUE
      /\ UNCHANGED <<gen, feed, paused, active, catalog, failed, sessions, polling>>
  BY DEF Teardown, DropLeased
<1>2. NoFetch \in Fetch /\ NoFetch.at = "none"
  BY DEF NoFetch, Fetch, Source
<1>3. TypeOK'
  <2>1. asks' \in Seq(Ask) /\ Len(asks') <= MaxAsks
    BY <1>1, EmptySeq
  <2>2. /\ fetch' \in Fetch /\ events' \subseteq Source
        /\ queued' = TRUE => fetch'.at # "none"
    BY <1>1, <1>2
  <2>3. /\ gen' \in [Conns -> Gens \ {0}] /\ feed' \in [Conns -> BOOLEAN]
        /\ active' \in Conns \cup {Legacy} /\ catalog' \in Catalogs
        /\ sessions' \in [Conns -> Session]
        /\ paused' \in BOOLEAN /\ polling' \in BOOLEAN /\ failed' \in BOOLEAN
    BY <1>1 DEF TypeOK
  <2> QED
    BY <1>1, <2>1, <2>2, <2>3 DEF TypeOK
<1>4. SessionInv'
  BY <1>1, Kept
<1>5. FetchInv' /\ FreshInv'
  BY <1>1, <1>2 DEF FetchInv, FreshInv
<1>6. CatalogInv'
  BY <1>1, EmptySeq DEF CatalogInv
<1>7. PausedInv'
  BY <1>1 DEF PausedInv
<1> QED
  BY <1>3, <1>4, <1>5, <1>6, <1>7

\* The reconnect timer, and the late close event of a socket given up.
LEMMA ReconnectKeeps ==
  ASSUME IInv, Reconnect \/ StrayCloses
  PROVE  IInv'
<1> USE DEF IInv
<1>1. /\ status' \in {"disconnected", "connecting", "connected"}
      /\ retrying' \in BOOLEAN /\ stray' \in BOOLEAN
      /\ status' = "connected" <=> status = "connected"
      /\ UNCHANGED <<gen, feed, events, synced, paused, active, catalog, ready, asks,
                     rearm, timer, fetch, queued, failed, sessions, polling, changes,
                     troubles>>
  BY DEF Reconnect, StrayCloses, TypeOK
<1>2. TypeOK'
  BY <1>1 DEF TypeOK
<1>3. SessionInv' /\ FetchInv'
  BY <1>1, Kept
<1>4. CatalogInv'
  BY <1>1 DEF CatalogInv
<1>5. FreshInv'
  BY <1>1 DEF FreshInv, Coming
<1>6. PausedInv'
  BY DEF Reconnect, StrayCloses, PausedInv
<1> QED
  BY <1>2, <1>3, <1>4, <1>5, <1>6

\* The hello, and the first selection.
LEMMA HelloKeeps ==
  ASSUME IInv, Hello
  PROVE  IInv'
<1> USE DEF IInv
<1>1. /\ status = "connecting" /\ status' = "connected" /\ retrying' = FALSE
      /\ polling' = TRUE /\ asks' = <<NewAsk("connect")>>
      /\ UNCHANGED <<gen, feed, events, stray, synced, paused, catalog, ready, rearm,
                     failed, changes, troubles>>
  BY DEF Hello, HelloWith
<1>2. ~ready
  BY <1>1 DEF CatalogInv
<1>3. /\ fetch.at = "none" /\ fetch = NoFetch /\ queued = FALSE
  BY <1>2 DEF FetchInv, TypeOK
<1>4. /\ NoFetch \in Fetch /\ NoFetch.at = "none"
  BY DEF NoFetch, Fetch, Source
<1>5. /\ fetch' = NoFetch /\ queued' = FALSE /\ timer' \in BOOLEAN
      /\ active' \in Conns
  BY <1>1, <1>3 DEF Hello, HelloWith, DropLeased, TypeOK
<1>6. PICK a \in Ask : a = NewAsk("connect")
  BY NewAskFields
<1>7. a.kind = "connect" /\ a.answered = FALSE
  BY <1>6, NewAskFields
<1>8. /\ asks' \in Seq(Ask) /\ Len(asks') = 1 /\ DOMAIN asks' = {1}
      /\ asks'[1] = a /\ asks' # <<>>
  BY <1>1, <1>6, EmptySeq
<1>9. /\ sessions' \in [Conns -> Session]
      /\ \A c \in Conns :
           /\ sessions'[c].gen = catalog[c]
           /\ sessions'[c].view = Empty \/ sessions'[c].view = sessions[c].view
  <2>1. CASE active = Legacy
    <3>1. sessions' = [sessions EXCEPT ![Default] = Restored(Default)]
      BY <2>1 DEF Hello, HelloWith
    <3>2. PICK r \in Session : r = Restored(Default)
      BY RestoredFields
    <3>3. /\ r.gen = catalog[Default]
          /\ r.view = Empty \/ r.view = sessions[Default].view
      BY <3>2, RestoredFields
    <3> QED
      BY <3>1, <3>2, <3>3 DEF SessionInv, TypeOK
  <2>2. CASE active # Legacy
    BY <2>2 DEF Hello, HelloWith, SessionInv, TypeOK
  <2> QED
    BY <2>1, <2>2
<1>10. TypeOK'
  <2>1. asks' \in Seq(Ask) /\ Len(asks') <= MaxAsks
    BY <1>8
  <2>2. /\ gen' \in [Conns -> Gens \ {0}] /\ feed' \in [Conns -> BOOLEAN]
        /\ catalog' \in Catalogs /\ events' \subseteq Source
        /\ stray' \in BOOLEAN /\ synced' \in BOOLEAN /\ paused' \in BOOLEAN
        /\ ready' \in BOOLEAN /\ rearm' \in BOOLEAN /\ failed' \in BOOLEAN
        /\ changes' \in 0 .. MaxChanges /\ troubles' \in 0 .. MaxTroubles
    BY <1>1 DEF TypeOK
  <2> QED
    BY <1>1, <1>4, <1>5, <1>9, <2>1, <2>2 DEF TypeOK
<1>11. SessionInv'
  BY <1>1, <1>9 DEF SessionInv
<1>12. FetchInv' /\ FreshInv'
  BY <1>1, <1>2, <1>4, <1>5 DEF FetchInv, FreshInv
<1>13. CatalogInv'
  BY <1>1, <1>2, <1>5, <1>7, <1>8 DEF CatalogInv
<1>14. PausedInv'
  BY <1>1 DEF PausedInv
<1> QED
  BY <1>10, <1>11, <1>12, <1>13, <1>14

-----------------------------------------------------------------------------
(* The requests of the catalog. *)

\* Types of the variables that requests, timers and refreshes change.
LEMMA Retyped ==
  ASSUME TypeOK, PausedInv,
         UNCHANGED <<gen, feed, status, retrying, stray, synced, paused,
                     active, catalog, ready, rearm, polling>>,
         sessions' \in [Conns -> Session], events' \subseteq Source,
         timer' \in BOOLEAN, failed' \in BOOLEAN, fetch' \in Fetch,
         queued' \in BOOLEAN, queued' = TRUE => fetch'.at # "none",
         asks' \in Seq(Ask), Len(asks') <= MaxAsks,
         changes' \in 0 .. MaxChanges, troubles' \in 0 .. MaxTroubles
  PROVE  TypeOK' /\ PausedInv'
<1>1. /\ gen' \in [Conns -> Gens \ {0}] /\ feed' \in [Conns -> BOOLEAN]
      /\ status' \in {"disconnected", "connecting", "connected"}
      /\ active' \in Conns \cup {Legacy} /\ catalog' \in Catalogs
  BY DEF TypeOK
<1>2. /\ retrying' \in BOOLEAN /\ stray' \in BOOLEAN /\ synced' \in BOOLEAN
      /\ paused' \in BOOLEAN /\ ready' \in BOOLEAN /\ rearm' \in BOOLEAN
      /\ polling' \in BOOLEAN
  BY DEF TypeOK
<1>3. PausedInv'
  BY DEF PausedInv
<1> QED
  BY <1>1, <1>2, <1>3 DEF TypeOK

\* A trouble is counted.
LEMMA TroubleCounts ==
  ASSUME TypeOK, Trouble
  PROVE  changes' \in 0 .. MaxChanges /\ troubles' \in 0 .. MaxTroubles
BY Bounds DEF Trouble, TypeOK

\* One more request does no harm.
LEMMA RequestKeeps ==
  ASSUME IInv, Extends(asks', asks), status = "connected",
         UNCHANGED <<status, active, catalog, ready, rearm, failed>>
  PROVE  CatalogInv'
<1> USE DEF IInv
<1>1. Len(asks') \in Nat /\ DOMAIN asks' = 1 .. Len(asks')
  BY LenProperties DEF Extends
<1>2. \A k \in DOMAIN asks' : asks'[k].answered => \A c \in Conns : asks'[k].gens[c] # 0
  BY DEF CatalogInv, Extends
<1>3. ~ready /\ ~rearm => failed \/ (asks' # <<>> /\ asks'[1].kind = "connect")
  BY DEF CatalogInv, Extends
<1>4. ~ready /\ ~rearm => \A c \in Conns : catalog[c] = 0
  BY DEF CatalogInv
<1> QED
  BY <1>2, <1>3, <1>4 DEF CatalogInv

\* The user's own reading of the catalog.
LEMMA ListConnectionsKeeps ==
  ASSUME IInv, ListConnections
  PROVE  IInv'
<1> USE DEF IInv
<1>1. /\ status = "connected"
      /\ UNCHANGED <<gen, feed, events, status, retrying, stray, synced, paused,
                     active, catalog, ready, rearm, timer, fetch, queued, failed,
                     sessions, polling>>
  BY DEF ListConnections
<1>2. Extends(asks', asks)
  BY Types, AskForExtends DEF ListConnections
<1>3. TypeOK' /\ PausedInv'
  <2>1. changes' \in 0 .. MaxChanges /\ troubles' \in 0 .. MaxTroubles
    BY TroubleCounts DEF ListConnections
  <2>2. /\ events' \subseteq Source /\ fetch' \in Fetch
        /\ timer' \in BOOLEAN /\ failed' \in BOOLEAN /\ queued' \in BOOLEAN
        /\ queued' = TRUE => fetch'.at # "none"
        /\ sessions' \in [Conns -> Session]
    BY <1>1 DEF TypeOK
  <2> QED
    BY <1>1, <1>2, <2>1, <2>2, Retyped DEF Extends
<1>4. SessionInv' /\ FetchInv'
  BY <1>1, Kept
<1>5. CatalogInv'
  BY <1>1, <1>2, RequestKeeps
<1>6. FreshInv'
  BY <1>1, Kept DEF Coming
<1> QED
  BY <1>3, <1>4, <1>5, <1>6

\* The catalog is read for a request.
LEMMA CatalogAnsweredKeeps ==
  ASSUME IInv, CatalogAnswered
  PROVE  IInv'
<1> USE DEF IInv
<1>1. PICK k \in DOMAIN asks :
        /\ asks' = [asks EXCEPT ![k].answered = TRUE, ![k].gens = gen]
        /\ UNCHANGED <<gen, feed, events, status, retrying, stray, synced, paused,
                       active, catalog, ready, rearm, timer, fetch, queued, failed,
                       sessions, polling, changes, troubles>>
  BY DEF CatalogAnswered
<1>2. PICK a \in Ask : a = asks[k]
  BY Types
<1>3. PICK b : b = [[a EXCEPT !.answered = TRUE] EXCEPT !.gens = gen]
  OBVIOUS
<1>4. b \in Ask /\ b.kind = a.kind /\ b.gens = gen
  BY <1>2, <1>3 DEF Ask, TypeOK
<1>5. asks' = [asks EXCEPT ![k] = b]
  BY <1>1, <1>2, <1>3 DEF Ask
<1>6. /\ asks' \in Seq(Ask) /\ Len(asks') = Len(asks) /\ DOMAIN asks' = DOMAIN asks
      /\ \A j \in DOMAIN asks : asks'[j] = IF j = k THEN b ELSE asks[j]
  BY <1>4, <1>5, Types, ExceptSeq, LenProperties
<1>7. TypeOK' /\ PausedInv'
  <2>1. Len(asks') <= MaxAsks
    BY <1>6 DEF TypeOK
  <2>2. /\ events' \subseteq Source /\ fetch' \in Fetch
        /\ timer' \in BOOLEAN /\ failed' \in BOOLEAN /\ queued' \in BOOLEAN
        /\ queued' = TRUE => fetch'.at # "none"
        /\ sessions' \in [Conns -> Session]
        /\ changes' \in 0 .. MaxChanges /\ troubles' \in 0 .. MaxTroubles
    BY <1>1 DEF TypeOK
  <2> QED
    BY <1>1, <1>6, <2>1, <2>2, Retyped
<1>8. SessionInv' /\ FetchInv'
  BY <1>1, Kept
<1>9. CatalogInv'
  <2>1. \A c \in Conns : b.gens[c] # 0
    BY <1>4 DEF TypeOK
  <2>2. \A j \in DOMAIN asks' : asks'[j].answered => \A c \in Conns : asks'[j].gens[c] # 0
    BY <1>6, <2>1 DEF CatalogInv
  <2>3. asks # <<>>
    BY <1>1, Types, EmptySeq
  <2>4. status = "connected" /\ asks' # <<>>
    BY <1>6, <2>3, Types, EmptySeq DEF CatalogInv
  <2>5. 1 \in DOMAIN asks
    <3>1. Len(asks) # 0
      BY <2>3, Types, EmptySeq
    <3> QED
      BY <3>1, Types
  <2>6. asks'[1].kind = asks[1].kind
    BY <1>2, <1>4, <1>6, <2>5
  <2> QED
    BY <1>1, <2>2, <2>3, <2>4, <2>6 DEF CatalogInv
<1>10. FreshInv'
  BY <1>1, Kept DEF Coming
<1> QED
  BY <1>7, <1>8, <1>9, <1>10

\* A request of the catalog fails.
LEMMA CatalogFailsKeeps ==
  ASSUME IInv, CatalogFails
  PROVE  IInv'
<1> USE DEF IInv
<1>1. PICK k \in DOMAIN asks :
        /\ Trouble
        /\ asks' = RemoveAt(asks, k)
        /\ failed' = (failed \/ asks[k].kind = "connect")
        /\ UNCHANGED <<gen, feed, events, status, retrying, stray, synced, paused,
                       active, catalog, ready, rearm, timer, fetch, queued,
                       sessions, polling>>
  BY DEF CatalogFails
<1>2. /\ asks' \in Seq(Ask) /\ Len(asks') <= MaxAsks
      /\ \A j \in DOMAIN asks' : \E i \in DOMAIN asks : asks'[j] = asks[i]
      /\ k # 1 => asks' # <<>> /\ asks'[1] = asks[1]
  <2>1. PICK q \in Seq(Ask) : q = asks /\ Len(q) <= MaxAsks
    BY Types
  <2>2. k \in DOMAIN q
    BY <2>1
  <2>3. PICK r : r = RemoveAt(q, k)
    OBVIOUS
  <2>4. /\ r \in Seq(Ask) /\ Len(r) <= MaxAsks
        /\ \A j \in DOMAIN r : \E i \in DOMAIN q : r[j] = q[i]
        /\ k # 1 => r # <<>> /\ r[1] = q[1]
    BY <2>1, <2>2, <2>3, RemovedFields
  <2> QED
    BY <1>1, <2>1, <2>3, <2>4
<1>3. failed' \in BOOLEAN /\ (failed => failed')
      /\ (asks[k].kind = "connect" => failed')
  BY <1>1 DEF TypeOK
<1>4. TypeOK' /\ PausedInv'
  <2>1. changes' \in 0 .. MaxChanges /\ troubles' \in 0 .. MaxTroubles
    BY <1>1, TroubleCounts
  <2>2. /\ events' \subseteq Source /\ fetch' \in Fetch
        /\ timer' \in BOOLEAN /\ queued' \in BOOLEAN
        /\ queued' = TRUE => fetch'.at # "none"
        /\ sessions' \in [Conns -> Session]
    BY <1>1 DEF TypeOK
  <2> QED
    BY <1>1, <1>2, <1>3, <2>1, <2>2, Retyped
<1>5. SessionInv' /\ FetchInv'
  BY <1>1, Kept
<1>6. CatalogInv'
  <2>1. asks # <<>>
    BY <1>1, Types, EmptySeq
  <2>2. status = "connected"
    BY <2>1 DEF CatalogInv
  <2>3. \A j \in DOMAIN asks' : asks'[j].answered => \A c \in Conns : asks'[j].gens[c] # 0
    BY <1>2 DEF CatalogInv
  <2>4. ~ready /\ ~rearm => failed' \/ (asks' # <<>> /\ asks'[1].kind = "connect")
    BY <1>2, <1>3, <2>2 DEF CatalogInv
  <2> QED
    BY <1>1, <2>2, <2>3, <2>4 DEF CatalogInv
<1>7. FreshInv'
  BY <1>1, <1>3, Kept DEF Coming
<1> QED
  BY <1>4, <1>5, <1>6, <1>7

-----------------------------------------------------------------------------
(* Refreshes. *)

\* Asking for a refresh, with what is shown and read left alone.
LEMMA RefreshKeeps ==
  ASSUME IInv, RefreshNow(active, catalog, ready, fetch, queued),
         UNCHANGED <<gen, feed, status, active, catalog, ready, rearm, sessions>>
  PROVE  /\ fetch' \in Fetch /\ queued' \in BOOLEAN
         /\ queued' = TRUE => fetch'.at # "none"
         /\ FetchInv' /\ FreshInv'
<1> USE DEF IInv
<1>1. /\ fetch \in Fetch /\ queued \in BOOLEAN /\ ready \in BOOLEAN
      /\ catalog \in Catalogs
      /\ queued = TRUE => fetch.at # "none"
      /\ fetch.at = "none" => fetch = NoFetch
      /\ status' = "connected" => active \in Conns
  BY DEF TypeOK, FetchInv, CatalogInv
<1>2. /\ Refreshed(active, catalog, fetch, queued)
      /\ status' = "connected" /\ ready = TRUE /\ catalog[active] # 0 =>
           queued' = TRUE \/ fetch'.at = "asked"
      /\ fetch' # fetch => status' = "connected" /\ ready = TRUE
  BY <1>1, RefreshMoves
<1>3. fetch' \in Fetch /\ queued' \in BOOLEAN /\ (queued' = TRUE => fetch'.at # "none")
  BY <1>2 DEF Refreshed
<1>4. FetchInv'
  <2>1. CASE fetch' = fetch
    BY <2>1 DEF FetchInv
  <2>2. CASE fetch' # fetch
    <3>1. /\ fetch' = Asked(active, catalog) /\ catalog[active] # 0
          /\ active \in Conns /\ ready = TRUE
      BY <1>2, <2>2 DEF Refreshed
    <3>2. fetch'.at = "asked" /\ fetch'.of = [conn |-> active, gen |-> catalog[active]]
      BY <1>1, <3>1, AskedFields
    <3> QED
      BY <3>1, <3>2 DEF FetchInv
  <2> QED
    BY <2>1, <2>2
<1>5. FreshInv'
  <2> SUFFICES ASSUME status' = "connected", ready', ~rearm',
                      catalog'[active'] = gen'[active'], feed'[active']
      PROVE  /\ \/ failed' \/ Coming' \/ sessions'[active'].view.fresh
                \/ fetch'.at = "asked" \/ (fetch'.at = "answered" /\ fetch'.fresh)
             /\ fetch'.at = "answered" => fetch'.fresh \/ Coming'
    BY DEF FreshInv
  <2>1. active \in Conns /\ ready = TRUE
    BY <1>1
  <2>2. catalog[active] # 0
    BY <2>1, Types
  <2>3. queued' = TRUE \/ fetch'.at = "asked"
    BY <1>2, <2>1, <2>2
  <2> QED
    BY <2>3 DEF Coming
<1> QED
  BY <1>3, <1>4, <1>5

\* The refresh timer fires.
LEMMA RefreshTimerFiresKeeps ==
  ASSUME IInv, RefreshTimerFires
  PROVE  IInv'
<1> USE DEF IInv
<1>1. /\ timer' = FALSE /\ RefreshNow(active, catalog, ready, fetch, queued)
      /\ UNCHANGED <<gen, feed, events, status, retrying, stray, synced, paused,
                     active, catalog, ready, rearm, asks, failed, sessions, polling,
                     changes, troubles>>
  BY DEF RefreshTimerFires
<1>2. /\ fetch' \in Fetch /\ queued' \in BOOLEAN
      /\ queued' = TRUE => fetch'.at # "none"
      /\ FetchInv' /\ FreshInv'
  BY <1>1, RefreshKeeps
<1>3. TypeOK' /\ PausedInv'
  <2>1. /\ events' \subseteq Source /\ timer' \in BOOLEAN /\ failed' \in BOOLEAN
        /\ asks' \in Seq(Ask) /\ Len(asks') <= MaxAsks
        /\ sessions' \in [Conns -> Session]
        /\ changes' \in 0 .. MaxChanges /\ troubles' \in 0 .. MaxTroubles
    BY <1>1 DEF TypeOK
  <2> QED
    BY <1>1, <1>2, <2>1, Retyped
<1>4. SessionInv' /\ CatalogInv'
  BY <1>1, Kept
<1> QED
  BY <1>2, <1>3, <1>4

\* The page is visible, focused or online again.
LEMMA ReturnKeeps ==
  ASSUME IInv, Return
  PROVE  IInv'
<1> USE DEF IInv
<1>1. /\ status = "connected"
      /\ RefreshNow(active, catalog, ready, fetch, queued)
      /\ UNCHANGED <<gen, feed, events, status, retrying, stray, synced, paused,
                     active, catalog, ready, rearm, timer, failed, sessions, polling>>
  BY DEF Return
<1>2. /\ fetch' \in Fetch /\ queued' \in BOOLEAN
      /\ queued' = TRUE => fetch'.at # "none"
      /\ FetchInv' /\ FreshInv'
  BY <1>1, RefreshKeeps
<1>3. Extends(asks', asks)
  BY Types, AskForExtends DEF Return
<1>4. TypeOK' /\ PausedInv'
  <2>1. changes' \in 0 .. MaxChanges /\ troubles' \in 0 .. MaxTroubles
    BY TroubleCounts DEF Return
  <2>2. /\ events' \subseteq Source /\ timer' \in BOOLEAN /\ failed' \in BOOLEAN
        /\ sessions' \in [Conns -> Session]
    BY <1>1 DEF TypeOK
  <2> QED
    BY <1>1, <1>2, <1>3, <2>1, <2>2, Retyped DEF Extends
<1>5. SessionInv'
  BY <1>1, Kept
<1>6. CatalogInv'
  BY <1>1, <1>3, RequestKeeps
<1> QED
  BY <1>2, <1>4, <1>5, <1>6

\* The metadata poll.
LEMMA PollKeeps ==
  ASSUME IInv, Poll
  PROVE  IInv'
<1> USE DEF IInv
<1>1. /\ status = "connected" /\ timer' = (timer \/ ready)
      /\ UNCHANGED <<gen, feed, events, status, retrying, stray, synced, paused,
                     active, catalog, ready, rearm, fetch, queued, failed, sessions,
                     polling, changes, troubles>>
  BY DEF Poll
<1>2. Extends(asks', asks)
  BY Types, AskForExtends DEF Poll
<1>3. TypeOK' /\ PausedInv'
  <2>1. timer' \in BOOLEAN
    BY <1>1 DEF TypeOK
  <2>2. /\ events' \subseteq Source /\ fetch' \in Fetch /\ failed' \in BOOLEAN
        /\ queued' \in BOOLEAN /\ (queued' = TRUE => fetch'.at # "none")
        /\ sessions' \in [Conns -> Session]
        /\ changes' \in 0 .. MaxChanges /\ troubles' \in 0 .. MaxTroubles
    BY <1>1 DEF TypeOK
  <2> QED
    BY <1>1, <1>2, <2>1, <2>2, Retyped DEF Extends
<1>4. SessionInv' /\ FetchInv'
  BY <1>1, Kept
<1>5. CatalogInv'
  BY <1>1, <1>2, RequestKeeps
<1>6. FreshInv'
  BY <1>1, Kept DEF Coming
<1> QED
  BY <1>3, <1>4, <1>5, <1>6

\* An event arrives, and counts only for the runtime that is shown.
LEMMA EventArrivesKeeps ==
  ASSUME IInv, NEW e \in events, EventArrives(e)
  PROVE  IInv'
<1> USE DEF IInv
<1>1. /\ events' = events \ {e}
      /\ timer' = (timer \/ (ready /\ catalog[e.conn] = e.gen /\ active = e.conn))
      /\ UNCHANGED <<gen, feed, status, retrying, stray, synced, paused, active,
                     catalog, ready, asks, rearm, fetch, queued, failed, sessions,
                     polling, changes, troubles>>
  BY DEF EventArrives
<1>2. TypeOK' /\ PausedInv'
  <2>1. timer' \in BOOLEAN
    BY <1>1 DEF TypeOK
  <2>2. /\ events' \subseteq Source /\ fetch' \in Fetch /\ failed' \in BOOLEAN
        /\ queued' \in BOOLEAN /\ (queued' = TRUE => fetch'.at # "none")
        /\ asks' \in Seq(Ask) /\ Len(asks') <= MaxAsks
        /\ sessions' \in [Conns -> Session]
        /\ changes' \in 0 .. MaxChanges /\ troubles' \in 0 .. MaxTroubles
    BY <1>1 DEF TypeOK
  <2> QED
    BY <1>1, <2>1, <2>2, Retyped
<1>3. SessionInv' /\ FetchInv' /\ CatalogInv'
  BY <1>1, Kept
<1>4. FreshInv'
  <2> SUFFICES ASSUME status = "connected", ready, ~rearm,
                      catalog[active] = gen[active], feed[active], Coming
      PROVE  Coming'
    BY <1>1 DEF FreshInv
  <2>1. CASE e = [conn |-> active, gen |-> gen[active]]
    <3>1. e.conn = active /\ e.gen = gen[active]
      BY <2>1
    <3> QED
      BY <1>1, <3>1 DEF Coming
  <2>2. CASE e # [conn |-> active, gen |-> gen[active]]
    BY <1>1, <2>2 DEF Coming
  <2> QED
    BY <2>1, <2>2
<1> QED
  BY <1>2, <1>3, <1>4

\* The server reads Herdr for a refresh.
LEMMA FetchAnsweredKeeps ==
  ASSUME IInv, FetchAnswered
  PROVE  IInv'
<1> USE DEF IInv
<1>1. /\ fetch.at = "asked"
      /\ fetch' = [fetch EXCEPT !.at = "answered", !.fresh = TRUE]
      /\ UNCHANGED <<gen, feed, events, status, retrying, stray, synced, paused,
                     active, catalog, ready, asks, rearm, timer, queued, failed,
                     sessions, polling, changes, troubles>>
  BY DEF FetchAnswered
<1>2. fetch \in Fetch
  BY DEF TypeOK
<1>3. /\ fetch' \in Fetch /\ fetch'.at = "answered" /\ fetch'.fresh = TRUE
      /\ fetch'.of = fetch.of
  BY <1>1, <1>2 DEF Fetch
<1>4. TypeOK' /\ PausedInv'
  <2>1. /\ events' \subseteq Source /\ timer' \in BOOLEAN /\ failed' \in BOOLEAN
        /\ queued' \in BOOLEAN
        /\ asks' \in Seq(Ask) /\ Len(asks') <= MaxAsks
        /\ sessions' \in [Conns -> Session]
        /\ changes' \in 0 .. MaxChanges /\ troubles' \in 0 .. MaxTroubles
    BY <1>1 DEF TypeOK
  <2> QED
    BY <1>1, <1>3, <2>1, Retyped
<1>5. SessionInv' /\ CatalogInv'
  BY <1>1, Kept
<1>6. FetchInv'
  BY <1>1, <1>3 DEF FetchInv
<1>7. FreshInv'
  BY <1>3 DEF FreshInv
<1> QED
  BY <1>4, <1>5, <1>6, <1>7

\* A refresh is over, and the queued one begins.
LEMMA NextFields ==
  ASSUME IInv, NextRefresh, fetch.at # "none"
  PROVE  /\ fetch' \in Fetch /\ queued' = FALSE
         /\ fetch' = NoFetch \/
              (fetch'.at = "asked" /\ fetch'.of = [conn |-> active, gen |-> catalog[active]])
         /\ queued => fetch'.at = "asked"
         /\ fetch'.at \in {"none", "asked"} /\ NoFetch.at = "none"
         /\ UNCHANGED <<active, ready, catalog>> => FetchInv'
<1> USE DEF IInv
<1>1. active \in Conns /\ catalog \in Catalogs /\ ready /\ catalog[active] # 0
  BY DEF FetchInv, TypeOK
<1>2. /\ Asked(active, catalog) \in Fetch /\ Asked(active, catalog).at = "asked"
      /\ Asked(active, catalog).of = [conn |-> active, gen |-> catalog[active]]
      /\ NoFetch \in Fetch /\ NoFetch.at = "none"
  BY <1>1, AskedFields
<1>3. /\ fetch' = (IF queued THEN Asked(active, catalog) ELSE NoFetch)
      /\ queued' = FALSE
  BY DEF NextRefresh
<1>4. UNCHANGED <<active, ready, catalog>> => FetchInv'
  BY <1>1, <1>2, <1>3 DEF FetchInv
<1> QED
  BY <1>2, <1>3, <1>4

\* A refresh that succeeds.
LEMMA RefreshEndsKeeps ==
  ASSUME IInv, RefreshEnds
  PROVE  IInv'
<1> USE DEF IInv
<1>1. /\ fetch.at = "answered" /\ sessions' = Published(active) /\ failed' = FALSE
      /\ NextRefresh
      /\ UNCHANGED <<gen, feed, events, status, retrying, stray, synced, paused,
                     active, catalog, ready, asks, rearm, timer, polling, changes,
                     troubles>>
  BY DEF RefreshEnds
<1>2. /\ active \in Conns /\ ready /\ catalog[active] # 0
      /\ fetch.of = [conn |-> active, gen |-> catalog[active]]
  BY <1>1 DEF FetchInv
<1>3. /\ fetch' \in Fetch /\ queued' = FALSE
      /\ queued => fetch'.at = "asked"
      /\ fetch'.at \in {"none", "asked"}
      /\ FetchInv'
  BY <1>1, NextFields
<1>4. PICK v : v = [fresh |-> fetch.fresh, of |-> fetch.of]
  OBVIOUS
<1>5. /\ v \in Content /\ v.fresh = fetch.fresh /\ v.of = fetch.of
      /\ fetch.fresh \in BOOLEAN
  BY <1>4 DEF TypeOK, Fetch, Content
<1>6. sessions' = [sessions EXCEPT ![active].view = v]
  BY <1>1, <1>4 DEF Published
<1>7. /\ sessions' \in [Conns -> Session]
      /\ \A c \in Conns : sessions'[c].gen = sessions[c].gen
      /\ sessions'[active].view = v
      /\ \A c \in Conns : c # active => sessions'[c] = sessions[c]
  <2>1. PICK s \in Session : s = [sessions[active] EXCEPT !.view = v]
    BY <1>2, <1>5, Types DEF Session
  <2>2. s.view = v /\ s.gen = sessions[active].gen
    BY <1>2, <2>1, Types DEF Session
  <2>3. sessions' = [sessions EXCEPT ![active] = s]
    BY <1>6, <2>1
  <2> QED
    BY <1>2, <2>1, <2>2, <2>3 DEF TypeOK
<1>8. TypeOK' /\ PausedInv'
  <2>1. /\ events' \subseteq Source /\ timer' \in BOOLEAN
        /\ asks' \in Seq(Ask) /\ Len(asks') <= MaxAsks
        /\ changes' \in 0 .. MaxChanges /\ troubles' \in 0 .. MaxTroubles
    BY <1>1 DEF TypeOK
  <2> QED
    BY <1>1, <1>3, <1>7, <2>1, Retyped
<1>9. SessionInv'
  BY <1>1, <1>2, <1>5, <1>7 DEF SessionInv
<1>10. CatalogInv'
  BY <1>1, <1>2 DEF CatalogInv
<1>11. FreshInv'
  <2> SUFFICES ASSUME status = "connected", ready, ~rearm,
                      catalog[active] = gen[active], feed[active]
      PROVE  /\ Coming' \/ sessions'[active].view.fresh \/ fetch'.at = "asked"
             /\ fetch'.at # "answered"
    BY <1>1 DEF FreshInv
  <2>1. fetch.fresh \/ Coming
    BY <1>1 DEF FreshInv
  <2>2. fetch.fresh => sessions'[active].view.fresh
    BY <1>5, <1>7
  <2>3. Coming => Coming' \/ fetch'.at = "asked"
    BY <1>1, <1>3 DEF Coming
  <2> QED
    BY <1>3, <2>1, <2>2, <2>3
<1> QED
  BY <1>3, <1>8, <1>9, <1>10, <1>11

\* A refresh that is refused, or fails.
LEMMA RefreshFailedKeeps ==
  ASSUME IInv, FetchRefused \/ FetchFails
  PROVE  IInv'
<1> USE DEF IInv
<1>1. /\ fetch.at = "asked" /\ failed' = TRUE /\ NextRefresh
      /\ UNCHANGED <<gen, feed, events, status, retrying, stray, synced, paused,
                     active, catalog, ready, asks, rearm, timer, sessions, polling>>
  BY DEF FetchRefused, FetchFails, RefreshFailed
<1>2. changes' \in 0 .. MaxChanges /\ troubles' \in 0 .. MaxTroubles
  BY TroubleCounts DEF FetchRefused, FetchFails, TypeOK
<1>3. /\ fetch' \in Fetch /\ queued' = FALSE
      /\ fetch'.at \in {"none", "asked"}
      /\ FetchInv'
  BY <1>1, NextFields
<1>4. TypeOK' /\ PausedInv'
  <2>1. /\ events' \subseteq Source /\ timer' \in BOOLEAN
        /\ asks' \in Seq(Ask) /\ Len(asks') <= MaxAsks
        /\ sessions' \in [Conns -> Session]
    BY <1>1 DEF TypeOK
  <2> QED
    BY <1>1, <1>2, <1>3, <2>1, Retyped
<1>5. SessionInv' /\ CatalogInv'
  BY <1>1, Kept
<1>6. FreshInv'
  BY <1>1, <1>3 DEF FreshInv
<1> QED
  BY <1>3, <1>4, <1>5, <1>6

-----------------------------------------------------------------------------
(* Commands of the user. *)

\* Another connection is selected.
LEMMA SelectKeeps ==
  ASSUME IInv, NEW c \in Conns, Select(c)
  PROVE  IInv'
<1> USE DEF IInv
<1>1. /\ catalog[c] # 0 /\ active' = c
      /\ sessions' = [sessions EXCEPT ![c] = Restored(c)]
      /\ synced' = TRUE /\ polling' = (status = "connected")
      /\ timer' = FALSE /\ failed' = FALSE
      /\ RefreshNow(c, catalog, ready, NoFetch, FALSE)
      /\ UNCHANGED <<gen, feed, events, status, retrying, stray, paused, catalog,
                     ready, asks, rearm>>
  BY DEF Select
<1>2. changes' \in 0 .. MaxChanges /\ troubles' \in 0 .. MaxTroubles
  BY TroubleCounts DEF Select
<1>3. ready \in BOOLEAN /\ catalog \in Catalogs
  BY DEF TypeOK
<1>4. /\ NoFetch \in Fetch /\ NoFetch.at = "none"
      /\ Asked(c, catalog) \in Fetch /\ Asked(c, catalog).at = "asked"
      /\ Asked(c, catalog).of = [conn |-> c, gen |-> catalog[c]]
  BY <1>3, AskedFields
<1>5. /\ Refreshed(c, catalog, NoFetch, FALSE)
      /\ status' = "connected" /\ ready = TRUE /\ catalog[c] # 0 =>
           queued' = TRUE \/ fetch'.at = "asked"
      /\ fetch' # NoFetch => status' = "connected" /\ ready = TRUE
  BY <1>1, <1>3, <1>4, RefreshMoves
<1>6. /\ sessions' \in [Conns -> Session]
      /\ \A d \in Conns :
           /\ sessions'[d].gen = catalog[d]
           /\ sessions'[d].view = Empty \/ sessions'[d].view = sessions[d].view
  <2>1. PICK r \in Session : r = Restored(c)
    BY RestoredFields
  <2>2. /\ r.gen = catalog[c]
        /\ r.view = Empty \/ r.view = sessions[c].view
    BY <2>1, RestoredFields
  <2> QED
    BY <1>1, <2>1, <2>2 DEF SessionInv, TypeOK
<1>7. TypeOK'
  <2>1. /\ gen' \in [Conns -> Gens \ {0}] /\ feed' \in [Conns -> BOOLEAN]
        /\ status' \in {"disconnected", "connecting", "connected"}
        /\ active' \in Conns \cup {Legacy} /\ catalog' \in Catalogs
        /\ events' \subseteq Source
        /\ asks' \in Seq(Ask) /\ Len(asks') <= MaxAsks
    BY <1>1 DEF TypeOK
  <2>2. /\ retrying' \in BOOLEAN /\ stray' \in BOOLEAN /\ synced' \in BOOLEAN
        /\ paused' \in BOOLEAN /\ ready' \in BOOLEAN /\ polling' \in BOOLEAN
        /\ timer' \in BOOLEAN /\ rearm' \in BOOLEAN /\ failed' \in BOOLEAN
    BY <1>1 DEF TypeOK
  <2>3. /\ fetch' \in Fetch /\ queued' \in BOOLEAN
        /\ queued' = TRUE => fetch'.at # "none"
    BY <1>5 DEF Refreshed
  <2> QED
    BY <1>2, <1>6, <2>1, <2>2, <2>3 DEF TypeOK
<1>8. SessionInv'
  BY <1>1, <1>6 DEF SessionInv
<1>9. FetchInv'
  <2>1. CASE fetch' = NoFetch
    BY <1>4, <2>1 DEF FetchInv
  <2>2. CASE fetch' # NoFetch
    <3>1. fetch' = Asked(c, catalog) /\ ready = TRUE
      BY <1>5, <2>2 DEF Refreshed
    <3> QED
      BY <1>1, <1>4, <3>1 DEF FetchInv
  <2> QED
    BY <2>1, <2>2
<1>10. CatalogInv' /\ PausedInv'
  BY <1>1 DEF CatalogInv, PausedInv
<1>11. FreshInv'
  BY <1>1, <1>3, <1>5 DEF FreshInv, Coming
<1> QED
  BY <1>7, <1>8, <1>9, <1>10, <1>11

\* The connection is paused.
LEMMA PauseKeeps ==
  ASSUME IInv, Pause
  PROVE  IInv'
<1> USE DEF IInv
<1>1. /\ paused' = TRUE /\ status' = "disconnected" /\ synced' = TRUE
      /\ retrying' = FALSE /\ stray' = (stray \/ status # "disconnected")
      /\ timer' = FALSE /\ fetch' = NoFetch /\ queued' = FALSE /\ polling' = FALSE
      /\ asks' = <<>> /\ events' = {}
      /\ ready' = (ready /\ status = "disconnected")
      /\ rearm' = (rearm \/ status # "disconnected")
      /\ UNCHANGED <<gen, feed, active, catalog, failed, sessions>>
  BY DEF Pause, DropLeased
<1>2. changes' \in 0 .. MaxChanges /\ troubles' \in 0 .. MaxTroubles
  BY TroubleCounts DEF Pause
<1>3. NoFetch \in Fetch /\ NoFetch.at = "none"
  BY DEF NoFetch, Fetch, Source
<1>4. /\ ready' = FALSE /\ stray' \in BOOLEAN /\ rearm' \in BOOLEAN
      /\ ~rearm' => ~rearm /\ ~ready
  BY <1>1 DEF CatalogInv, TypeOK
<1>5. TypeOK'
  <2>1. asks' \in Seq(Ask) /\ Len(asks') <= MaxAsks
    BY <1>1, EmptySeq
  <2>2. /\ gen' \in [Conns -> Gens \ {0}] /\ feed' \in [Conns -> BOOLEAN]
        /\ active' \in Conns \cup {Legacy} /\ catalog' \in Catalogs
        /\ sessions' \in [Conns -> Session]
        /\ failed' \in BOOLEAN
    BY <1>1 DEF TypeOK
  <2> QED
    BY <1>1, <1>2, <1>3, <1>4, <2>1, <2>2 DEF TypeOK
<1>6. SessionInv'
  BY <1>1, Kept
<1>7. FetchInv' /\ FreshInv' /\ PausedInv'
  BY <1>1, <1>3 DEF FetchInv, FreshInv, PausedInv
<1>8. CatalogInv'
  BY <1>1, <1>4, EmptySeq DEF CatalogInv
<1> QED
  BY <1>5, <1>6, <1>7, <1>8

\* The connection is resumed.
LEMMA ResumeKeeps ==
  ASSUME IInv, Resume
  PROVE  IInv'
<1> USE DEF IInv
<1>1. /\ paused' = FALSE /\ status' = "connecting" /\ polling' = TRUE
      /\ UNCHANGED <<gen, feed, events, retrying, stray, synced, active, catalog,
                     ready, asks, rearm, timer, fetch, queued, failed, sessions,
                     changes, troubles>>
  BY DEF Resume
<1>2. status = "disconnected"
  BY DEF Resume, PausedInv
<1>3. ready = FALSE /\ asks = <<>>
  BY <1>2 DEF CatalogInv, TypeOK
<1>4. TypeOK'
  BY <1>1 DEF TypeOK
<1>5. SessionInv' /\ FetchInv'
  BY <1>1, Kept
<1>6. PausedInv' /\ FreshInv'
  BY <1>1 DEF PausedInv, FreshInv
<1>7. CatalogInv'
  BY <1>1, <1>2, <1>3, EmptySeq DEF CatalogInv
<1> QED
  BY <1>4, <1>5, <1>6, <1>7

-----------------------------------------------------------------------------
(* The server and Herdr. *)

\* What Push adds.
LEMMA PushFields ==
  ASSUME TypeOK, NEW c \in Conns
  PROVE  /\ Push(c, gen[c]) \subseteq Source /\ events \subseteq Push(c, gen[c])
         /\ status = "connected" => [conn |-> c, gen |-> gen[c]] \in Push(c, gen[c])
<1>1. [conn |-> c, gen |-> gen[c]] \in Source
  BY Types DEF Source
<1> QED
  BY <1>1 DEF Push, TypeOK

\* Herdr changes.
LEMMA HerdrChangesKeeps ==
  ASSUME IInv, NEW c \in Conns, HerdrChanges(c)
  PROVE  IInv'
<1> USE DEF IInv
<1>1. /\ changes < MaxChanges /\ changes' = changes + 1
      /\ sessions' = [d \in Conns |-> IF sessions[d].view.of.conn = c
                                      THEN [sessions[d] EXCEPT !.view.fresh = FALSE]
                                      ELSE sessions[d]]
      /\ fetch' = IF fetch.of.conn = c THEN [fetch EXCEPT !.fresh = FALSE] ELSE fetch
      /\ events' = IF feed[c] THEN Push(c, gen[c]) ELSE events
      /\ UNCHANGED <<gen, feed, status, retrying, stray, synced, paused, active,
                     catalog, ready, asks, rearm, timer, queued, failed, polling,
                     troubles>>
  BY DEF HerdrChanges
<1>2. /\ fetch' \in Fetch /\ fetch'.at = fetch.at /\ fetch'.of = fetch.of
      /\ fetch.of.conn # c => fetch' = fetch
      /\ fetch = NoFetch => fetch' = NoFetch
  <2>1. fetch \in Fetch
    BY DEF TypeOK
  <2>2. NoFetch.fresh = FALSE
    BY DEF NoFetch
  <2> QED
    BY <1>1, <2>1, <2>2 DEF Fetch
<1>3. ASSUME NEW d \in Conns
      PROVE  /\ sessions'[d] \in Session /\ sessions'[d].gen = sessions[d].gen
             /\ sessions'[d].view.of = sessions[d].view.of
             /\ sessions[d].view.of.conn # c => sessions'[d] = sessions[d]
             /\ sessions[d].view = Empty => sessions'[d].view = Empty
  <2>1. PICK s \in Session : s = sessions[d]
    BY Types
  <2>2. PICK v \in Content : v = s.view
    BY <2>1 DEF Session
  <2>3. PICK w \in Content : w = [v EXCEPT !.fresh = FALSE]
    BY <2>2 DEF Content
  <2>4. /\ w.of = v.of
        /\ v = Empty => w = Empty
    BY <2>2, <2>3 DEF Content, Empty
  <2>5. PICK t \in Session : t = [s EXCEPT !.view = w]
    BY <2>1, <2>3 DEF Session
  <2>6. t.view = w /\ t.gen = s.gen
    BY <2>1, <2>3, <2>5 DEF Session
  <2>7. [sessions[d] EXCEPT !.view.fresh = FALSE] = t
    BY <2>1, <2>2, <2>3, <2>5
  <2>8. sessions'[d] = IF s.view.of.conn = c THEN t ELSE s
    BY <1>1, <2>1, <2>7
  <2> QED
    BY <2>1, <2>2, <2>4, <2>5, <2>6, <2>8
<1>4. sessions' \in [Conns -> Session]
  <2>1. sessions' = [d \in Conns |-> sessions'[d]]
    BY <1>1
  <2> QED
    BY <1>3, <2>1
<1>5. TypeOK' /\ PausedInv'
  <2>1. /\ timer' \in BOOLEAN /\ failed' \in BOOLEAN /\ queued' \in BOOLEAN
        /\ queued' = TRUE => fetch'.at # "none"
        /\ asks' \in Seq(Ask) /\ Len(asks') <= MaxAsks
        /\ troubles' \in 0 .. MaxTroubles
    BY <1>1, <1>2 DEF TypeOK
  <2>2. changes' \in 0 .. MaxChanges
    BY <1>1, Bounds DEF TypeOK
  <2>3. events' \subseteq Source
    BY <1>1, PushFields DEF TypeOK
  <2> QED
    BY <1>1, <1>2, <1>4, <2>1, <2>2, <2>3, Retyped
<1>6. SessionInv'
  BY <1>1, <1>3 DEF SessionInv
<1>7. FetchInv'
  BY <1>1, <1>2 DEF FetchInv
<1>8. CatalogInv'
  BY <1>1, Kept
<1>9. FreshInv'
  <2> SUFFICES ASSUME status = "connected", ready, ~rearm,
                      catalog[active] = gen[active], feed[active]
      PROVE  /\ \/ failed \/ Coming' \/ sessions'[active].view.fresh
                \/ fetch'.at = "asked" \/ (fetch'.at = "answered" /\ fetch'.fresh)
             /\ fetch'.at = "answered" => fetch'.fresh \/ Coming'
    BY <1>1 DEF FreshInv
  <2>1. active \in Conns
    BY DEF CatalogInv
  <2>2. events \subseteq events'
    BY <1>1, PushFields
  <2>3. CASE c = active
    <3>1. [conn |-> active, gen |-> gen[active]] \in events'
      BY <1>1, <2>3, PushFields
    <3> QED
      BY <1>1, <3>1 DEF Coming
  <2>4. CASE c # active
    <3>1. sessions'[active].view.fresh = sessions[active].view.fresh
      <4>1. CASE sessions[active].view = Empty
        BY <1>3, <2>1, <4>1
      <4>2. CASE sessions[active].view # Empty
        <5>1. sessions[active].view.of = [conn |-> active, gen |-> catalog[active]]
          BY <2>1, <4>2 DEF SessionInv
        <5>2. sessions[active].view.of.conn = active
          BY <5>1
        <5> QED
          BY <1>3, <2>1, <2>4, <5>2
      <4> QED
        BY <4>1, <4>2
    <3>2. fetch.at # "none" => fetch' = fetch
      BY <1>2, <2>4 DEF FetchInv
    <3>3. Coming => Coming'
      BY <1>1, <2>2 DEF Coming
    <3> QED
      BY <1>2, <3>1, <3>2, <3>3 DEF FreshInv
  <2> QED
    BY <2>3, <2>4
<1> QED
  BY <1>5, <1>6, <1>7, <1>8, <1>9

\* The subscription of a runtime is lost or restored, or the runtime replaced.
LEMMA ServerKeeps ==
  ASSUME IInv, NEW c \in Conns, FeedLost(c) \/ FeedReady(c) \/ RuntimeRestarts(c)
  PROVE  IInv'
<1> USE DEF IInv
<1>1. UNCHANGED <<status, retrying, stray, synced, paused, active, catalog, ready,
                  asks, rearm, timer, fetch, queued, failed, sessions, polling>>
  BY DEF FeedLost, FeedReady, RuntimeRestarts
<1>2. /\ gen' \in [Conns -> Gens \ {0}] /\ feed' \in [Conns -> BOOLEAN]
      /\ events' \subseteq Source /\ events \subseteq events'
      /\ \A d \in Conns : /\ gen'[d] = gen[d] \/ ~feed'[d]
                          /\ \/ feed'[d] => feed[d]
                             \/ status = "connected" =>
                                  [conn |-> d, gen |-> gen'[d]] \in events'
  <2>1. CASE FeedLost(c)
    BY <2>1 DEF FeedLost, TypeOK
  <2>2. CASE FeedReady(c)
    <3>1. /\ feed' = [feed EXCEPT ![c] = TRUE] /\ events' = Push(c, gen[c])
          /\ gen' = gen
      BY <2>2 DEF FeedReady
    <3> QED
      BY <3>1, PushFields DEF TypeOK
  <2>3. CASE RuntimeRestarts(c)
    <3>1. /\ gen[c] < MaxGen /\ gen' = [gen EXCEPT ![c] = gen[c] + 1]
          /\ feed' = [feed EXCEPT ![c] = FALSE] /\ events' = events
      BY <2>3 DEF RuntimeRestarts
    <3>2. gen[c] + 1 \in Gens \ {0}
      BY <3>1, Bounds, Types
    <3> QED
      BY <3>1, <3>2 DEF TypeOK
  <2> QED
    BY <2>1, <2>2, <2>3
<1>3. changes' \in 0 .. MaxChanges /\ troubles' \in 0 .. MaxTroubles
  BY TroubleCounts DEF FeedLost, FeedReady, RuntimeRestarts, TypeOK
<1>4. TypeOK'
  <2>1. /\ status' \in {"disconnected", "connecting", "connected"}
        /\ active' \in Conns \cup {Legacy} /\ catalog' \in Catalogs
        /\ sessions' \in [Conns -> Session] /\ fetch' \in Fetch
        /\ asks' \in Seq(Ask) /\ Len(asks') <= MaxAsks
    BY <1>1 DEF TypeOK
  <2>2. /\ retrying' \in BOOLEAN /\ stray' \in BOOLEAN /\ synced' \in BOOLEAN
        /\ paused' \in BOOLEAN /\ ready' \in BOOLEAN /\ polling' \in BOOLEAN
        /\ timer' \in BOOLEAN /\ rearm' \in BOOLEAN /\ failed' \in BOOLEAN
        /\ queued' \in BOOLEAN
        /\ queued' = TRUE => fetch'.at # "none"
    BY <1>1 DEF TypeOK
  <2> QED
    BY <1>2, <1>3, <2>1, <2>2 DEF TypeOK
<1>5. SessionInv' /\ FetchInv' /\ CatalogInv'
  BY <1>1, Kept
<1>6. PausedInv'
  BY <1>1 DEF PausedInv
<1>7. FreshInv'
  <2> SUFFICES ASSUME status = "connected", ready, ~rearm,
                      catalog[active] = gen'[active], feed'[active]
      PROVE  Coming' \/ (FreshInv /\ feed[active] /\ gen'[active] = gen[active]
                           /\ (Coming => Coming'))
    BY <1>1 DEF FreshInv
  <2>1. active \in Conns
    BY DEF CatalogInv
  <2>2. gen'[active] = gen[active]
    BY <1>2, <2>1
  <2>3. feed[active] \/ [conn |-> active, gen |-> gen'[active]] \in events'
    BY <1>2, <2>1
  <2>4. Coming => Coming'
    BY <1>1, <1>2, <2>2 DEF Coming
  <2> QED
    BY <1>1, <2>2, <2>3, <2>4 DEF Coming
<1> QED
  BY <1>4, <1>5, <1>6, <1>7

-----------------------------------------------------------------------------
(* A catalog arrives. *)

\* The sessions are of the runtimes of the catalog, or emptied.
LEMMA ReconciledFields ==
  ASSUME TypeOK, SessionInv, NEW cat \in Catalogs, NEW c \in Conns
  PROVE  /\ Reconciled(cat) \in [Conns -> Session]
         /\ Reconciled(cat)[c].gen = cat[c]
         /\ ~Invalidated(c, cat) => Reconciled(cat)[c].view = sessions[c].view
         /\ Invalidated(c, cat) => Reconciled(cat)[c].view = Empty
<1>1. Empty \in Content
  BY DEF Empty, Content, Source
<1>2. \A d \in Conns :
        [gen |-> cat[d], view |-> IF Invalidated(d, cat) THEN Empty ELSE sessions[d].view]
          \in Session
  BY <1>1, Types DEF Session
<1> QED
  BY <1>2 DEF Reconciled

\* Whether the runtime that is shown was replaced.
Replaced(cat) == Invalidated(active, cat) /\ ~FirstTag(active, cat)

\* A catalog that replaces nothing shown leaves the runtime as it was.
LEMMA NotReplaced ==
  ASSUME TypeOK, active \in Conns, NEW cat \in Catalogs, ~Replaced(cat),
         catalog[active] # 0
  PROVE  catalog[active] = cat[active] /\ ~Invalidated(active, cat)
<1>1. ~FirstTag(active, cat)
  BY DEF FirstTag
<1> QED
  BY <1>1 DEF Replaced, Invalidated

\* A catalog is delivered.
LEMMA CatalogDeliveredKeeps ==
  ASSUME IInv, CatalogDelivered
  PROVE  IInv'
<1> USE DEF IInv
<1>1. PICK q \in Seq(Ask) : q = asks /\ q # <<>> /\ Len(q) <= MaxAsks /\ Head(q).answered
  BY Types DEF CatalogDelivered
<1>2. PICK ask \in Ask : ask = Head(q)
  BY <1>1, TailFields
<1>3. PICK t \in Seq(Ask) : t = Tail(q)
  BY <1>1, TailFields
<1>4. PICK cat \in Catalogs : cat = ask.gens
  BY <1>2 DEF Ask
<1>5. PICK kind \in {"connect", "poll", "list"} : kind = ask.kind
  BY <1>2 DEF Ask
<1>6. /\ status = "connected" /\ active \in Conns
      /\ \A c \in Conns : cat[c] # 0
      /\ Len(t) < MaxAsks
      /\ \A k \in DOMAIN t : t[k].answered => \A c \in Conns : t[k].gens[c] # 0
  <2>1. /\ Len(t) < MaxAsks /\ ask = q[1] /\ 1 \in DOMAIN q
        /\ \A k \in DOMAIN t : k + 1 \in DOMAIN q /\ t[k] = q[k + 1]
    BY <1>1, <1>2, <1>3, TailFields
  <2>2. status = "connected" /\ active \in Conns
    BY <1>1 DEF CatalogInv
  <2>3. \A k \in DOMAIN q : q[k].answered => \A c \in Conns : q[k].gens[c] # 0
    BY <1>1 DEF CatalogInv
  <2> QED
    BY <1>1, <1>2, <1>4, <2>1, <2>2, <2>3
<1>7. PICK replaced \in BOOLEAN : replaced <=> Replaced(cat)
  BY Zenon
<1>8. PICK f : f = IF replaced THEN Asked(active, cat) ELSE fetch
  OBVIOUS
<1>9. PICK u \in BOOLEAN : u = IF replaced THEN FALSE ELSE queued
  BY DEF TypeOK
<1>10. PICK again \in BOOLEAN : again <=> (kind = "connect" \/ (kind = "poll" /\ rearm))
  BY Zenon
<1>11. /\ status' = status /\ catalog' = cat /\ ready' = TRUE
       /\ sessions' = Reconciled(cat)
       /\ synced' = (synced \/ replaced) /\ polling' = (polling \/ replaced)
       /\ rearm' = (rearm /\ ~again)
       /\ asks' = (IF kind = "connect" THEN AskFor("poll", t) ELSE t)
       /\ IF kind = "connect"
          THEN RefreshNow(active, cat, TRUE, f, u) /\ timer' = (timer /\ ~replaced)
          ELSE fetch' = f /\ queued' = u /\ timer' = ((timer /\ ~replaced) \/ again)
       /\ failed' = (failed /\ ~replaced)
       /\ UNCHANGED <<gen, feed, events, retrying, stray, paused, active, changes,
                      troubles>>
  BY <1>1, <1>2, <1>3, <1>4, <1>5, <1>7, <1>8, <1>9, <1>10
     DEF CatalogDelivered, Replaced
<1> HIDE DEF Replaced
<1>12. /\ Asked(active, cat) \in Fetch /\ Asked(active, cat).at = "asked"
       /\ Asked(active, cat).of = [conn |-> active, gen |-> cat[active]]
  BY <1>6, AskedFields
<1>13. ~replaced /\ catalog[active] # 0 =>
         catalog[active] = cat[active] /\ sessions'[active].view = sessions[active].view
  BY <1>6, <1>7, <1>11, NotReplaced, ReconciledFields
<1>14. /\ f \in Fetch
       /\ replaced => f.at = "asked"
       /\ ~replaced => f = fetch
       /\ u = TRUE => f.at # "none"
       /\ f.at = "none" => f = NoFetch
       /\ f.at # "none" => f.of = [conn |-> active, gen |-> cat[active]]
  <2>1. CASE replaced
    BY <1>8, <1>9, <1>12, <2>1
  <2>2. CASE ~replaced
    BY <1>8, <1>9, <1>13, <2>2 DEF FetchInv, TypeOK
  <2> QED
    BY <2>1, <2>2
<1>15. /\ fetch' \in Fetch /\ queued' \in BOOLEAN
       /\ queued' = TRUE => fetch'.at # "none"
       /\ fetch'.at = "none" => fetch' = NoFetch
       /\ fetch'.at # "none" => fetch'.of = [conn |-> active, gen |-> cat[active]]
       /\ kind = "connect" => queued' = TRUE \/ fetch'.at = "asked"
       /\ kind # "connect" => fetch' = f /\ queued' = u
  <2>1. CASE kind = "connect"
    <3>1. RefreshNow(active, cat, TRUE, f, u) /\ Leased(active, cat, TRUE)
      BY <1>6, <1>11, <2>1 DEF Leased
    <3>2. CASE f = NoFetch
      <4>1. fetch' = Asked(active, cat) /\ queued' = FALSE
        BY <3>1, <3>2 DEF RefreshNow
      <4> QED
        BY <1>12, <2>1, <4>1
    <3>3. CASE f # NoFetch
      <4>1. fetch' = f /\ queued' = TRUE
        BY <3>1, <3>3 DEF RefreshNow
      <4> QED
        BY <1>14, <2>1, <3>3, <4>1
    <3> QED
      BY <3>2, <3>3
  <2>2. CASE kind # "connect"
    BY <1>11, <1>14, <2>2
  <2> QED
    BY <2>1, <2>2
<1>16. /\ asks' \in Seq(Ask) /\ Len(asks') <= MaxAsks
       /\ \A k \in DOMAIN asks' :
            asks'[k].answered => \A c \in Conns : asks'[k].gens[c] # 0
  <2>1. Len(t) <= MaxAsks
    <3>1. PICK n \in Nat : n = Len(t)
      BY LenProperties
    <3> QED
      BY <1>6, <3>1, Bounds
  <2>2. CASE kind = "connect"
    <3>1. PICK r : r = AskFor("poll", t)
      OBVIOUS
    <3>2. Extends(r, t)
      BY <2>1, <3>1, AskForExtends
    <3>3. \A k \in DOMAIN r : r[k].answered => \A c \in Conns : r[k].gens[c] # 0
      BY <1>6, <3>2 DEF Extends
    <3> QED
      BY <1>11, <2>2, <3>1, <3>2, <3>3 DEF Extends
  <2>3. CASE kind # "connect"
    BY <1>6, <1>11, <2>1, <2>3
  <2> QED
    BY <2>2, <2>3
<1>17. TypeOK'
  <2>1. /\ gen' \in [Conns -> Gens \ {0}] /\ feed' \in [Conns -> BOOLEAN]
        /\ status' \in {"disconnected", "connecting", "connected"}
        /\ active' \in Conns \cup {Legacy} /\ catalog' \in Catalogs
        /\ events' \subseteq Source
        /\ changes' \in 0 .. MaxChanges /\ troubles' \in 0 .. MaxTroubles
    BY <1>11 DEF TypeOK
  <2>2. /\ retrying' \in BOOLEAN /\ stray' \in BOOLEAN /\ synced' \in BOOLEAN
        /\ paused' \in BOOLEAN /\ ready' \in BOOLEAN /\ polling' \in BOOLEAN
        /\ rearm' \in BOOLEAN /\ failed' \in BOOLEAN
    BY <1>11 DEF TypeOK
  <2>3. timer' \in BOOLEAN
    BY <1>11 DEF TypeOK
  <2>4. sessions' \in [Conns -> Session]
    BY <1>6, <1>11, ReconciledFields
  <2> QED
    BY <1>15, <1>16, <2>1, <2>2, <2>3, <2>4 DEF TypeOK
<1>18. PausedInv'
  BY <1>11 DEF PausedInv
<1>19. SessionInv'
  <2> SUFFICES ASSUME NEW c \in Conns
      PROVE  /\ sessions'[c].gen = catalog'[c]
             /\ sessions'[c].view # Empty =>
                  /\ catalog'[c] # 0
                  /\ sessions'[c].view.of = [conn |-> c, gen |-> catalog'[c]]
    BY DEF SessionInv
  <2>1. /\ sessions'[c].gen = cat[c] /\ catalog'[c] = cat[c] /\ cat[c] # 0
        /\ ~Invalidated(c, cat) => sessions'[c].view = sessions[c].view
        /\ Invalidated(c, cat) => sessions'[c].view = Empty
    BY <1>6, <1>11, ReconciledFields
  <2>2. CASE Invalidated(c, cat) \/ sessions[c].view = Empty
    BY <2>1, <2>2
  <2>3. CASE ~Invalidated(c, cat) /\ sessions[c].view # Empty
    <3>1. /\ catalog[c] # 0
          /\ sessions[c].view.of = [conn |-> c, gen |-> catalog[c]]
      BY <2>3 DEF SessionInv
    <3>2. catalog[c] = cat[c]
      BY <2>3, <3>1 DEF Invalidated
    <3> QED
      BY <2>1, <2>3, <3>1, <3>2
  <2> QED
    BY <2>2, <2>3
<1>20. FetchInv'
  BY <1>6, <1>11, <1>15 DEF FetchInv
<1>21. CatalogInv'
  BY <1>6, <1>11, <1>16 DEF CatalogInv
<1>22. FreshInv'
  <2> SUFFICES ASSUME ~rearm', cat[active] = gen[active], feed[active]
      PROVE  /\ \/ failed' \/ Coming' \/ sessions'[active].view.fresh
                \/ fetch'.at = "asked" \/ (fetch'.at = "answered" /\ fetch'.fresh)
             /\ fetch'.at = "answered" => fetch'.fresh \/ Coming'
    BY <1>11 DEF FreshInv
  <2>1. CASE kind = "connect"
    BY <1>15, <2>1 DEF Coming
  <2>2. CASE kind # "connect" /\ replaced
    BY <1>14, <1>15, <2>2
  <2>3. CASE kind # "connect" /\ again
    <3>1. timer' = TRUE
      BY <1>11, <2>3
    <3> QED
      BY <3>1 DEF Coming
  <2>4. CASE kind # "connect" /\ ~again /\ ~replaced
    <3>1. /\ fetch' = fetch /\ queued' = queued /\ timer' = timer /\ failed' = failed
          /\ ~rearm
      <4>1. queued \in BOOLEAN /\ timer \in BOOLEAN /\ failed \in BOOLEAN /\ rearm \in BOOLEAN
        BY DEF TypeOK
      <4>2. fetch' = fetch /\ queued' = queued
        BY <1>9, <1>14, <1>15, <2>4
      <4>3. timer' = timer
        BY <1>11, <2>4, <4>1
      <4>4. failed' = failed /\ ~rearm
        BY <1>11, <2>4, <4>1
      <4> QED
        BY <4>2, <4>3, <4>4
    <3>2. CASE ready
      <4>1. catalog[active] # 0
        BY <1>6, <3>2 DEF CatalogInv
      <4>2. /\ catalog[active] = cat[active]
            /\ sessions'[active].view = sessions[active].view
        BY <1>13, <2>4, <4>1
      <4>3. Coming => Coming'
        BY <1>11, <3>1 DEF Coming
      <4> QED
        BY <1>6, <3>1, <3>2, <4>2, <4>3 DEF FreshInv
    <3>3. CASE ~ready
      <4>1. fetch.at = "none"
        BY <3>3 DEF FetchInv
      <4>2. asks[1].kind = kind
        BY <1>1, <1>2, <1>5, TailFields
      <4>3. failed
        BY <1>6, <2>4, <3>1, <3>3, <4>2 DEF CatalogInv
      <4> QED
        BY <3>1, <4>1, <4>3
    <3> QED
      BY <3>2, <3>3
  <2> QED
    BY <2>1, <2>2, <2>3, <2>4
<1> QED
  BY <1>17, <1>18, <1>19, <1>20, <1>21, <1>22

-----------------------------------------------------------------------------
(* The theorems. *)

\* Every step keeps the invariant.
LEMMA StepKeeps ==
  ASSUME IInv, [Next]_vars
  PROVE  IInv'
<1>1. CASE Connect \/ StrayCloses
  BY <1>1, HelloKeeps, ReconnectKeeps DEF Connect
<1>2. CASE SocketCloses \/ ForceReconnect
  <2>1. /\ Teardown /\ status # "disconnected" /\ stray' \in BOOLEAN
        /\ UNCHANGED changes
    BY <1>2 DEF SocketCloses, ForceReconnect, Trouble, IInv, TypeOK
  <2>2. troubles' \in 0 .. MaxTroubles
    BY <1>2, TroubleCounts DEF SocketCloses, ForceReconnect, IInv
  <2> QED
    BY <2>1, <2>2, TeardownKeeps
<1>3. CASE RefreshTimerFires \/ Return \/ Poll \/ \E e \in events : EventArrives(e)
  BY <1>3, RefreshTimerFiresKeeps, ReturnKeeps, PollKeeps, EventArrivesKeeps
<1>4. CASE RefreshProceeds \/ FetchFails
  BY <1>4, FetchAnsweredKeeps, RefreshEndsKeeps, RefreshFailedKeeps DEF RefreshProceeds
<1>5. CASE ListConnections \/ CatalogAnswered \/ CatalogFails \/ CatalogDelivered
  BY <1>5, ListConnectionsKeeps, CatalogAnsweredKeeps, CatalogFailsKeeps,
     CatalogDeliveredKeeps
<1>6. CASE Pause \/ Resume \/ \E c \in Conns : Select(c)
  BY <1>6, PauseKeeps, ResumeKeeps, SelectKeeps
<1>7. CASE \E c \in Conns : HerdrChanges(c)
  BY <1>7, HerdrChangesKeeps
<1>8. CASE \E c \in Conns : FeedLost(c) \/ FeedReady(c) \/ RuntimeRestarts(c)
  BY <1>8, ServerKeeps
<1>9. CASE UNCHANGED vars
  <2>1. TypeOK'
    BY <1>9 DEF IInv, TypeOK, vars
  <2>2. SessionInv' /\ FetchInv' /\ CatalogInv' /\ FreshInv'
    BY <1>9, Kept DEF vars, Coming
  <2>3. PausedInv'
    BY <1>9 DEF IInv, PausedInv, vars
  <2> QED
    BY <2>1, <2>2, <2>3 DEF IInv
<1>10. [Next]_vars
         => \/ Connect \/ StrayCloses \/ SocketCloses \/ ForceReconnect
            \/ RefreshTimerFires \/ Return \/ Poll
            \/ \E e \in events : EventArrives(e)
            \/ RefreshProceeds \/ FetchFails
            \/ ListConnections \/ CatalogAnswered \/ CatalogFails \/ CatalogDelivered
            \/ Pause \/ Resume \/ \E c \in Conns : Select(c)
            \/ \E c \in Conns : HerdrChanges(c)
            \/ \E c \in Conns : FeedLost(c) \/ FeedReady(c) \/ RuntimeRestarts(c)
            \/ UNCHANGED vars
  BY DEF Next, Command, Fault
<1> QED
  BY <1>1, <1>2, <1>3, <1>4, <1>5, <1>6, <1>7, <1>8, <1>9, <1>10

\* The invariant holds, whatever the order of events, answers, losses and
\* commands, and without any fairness.
THEOREM Invariance == Safety => []IInv
<1>1. Init => IInv
  BY InitInv
<1>2. IInv /\ [Next]_vars => IInv'
  BY StepKeeps
<1> QED
  BY <1>1, <1>2, PTL DEF Safety

\* What a session shows was read from the runtime that the session and the
\* catalog have, over selections, reconnects, replacements and stale replies
\* (store.ts activateConnectionState, reconcileConnectionCatalogSessions).
THEOREM ViewsAreOfTheirRuntime == Spec => []ViewIsOfItsRuntime
<1>1. IInv => ViewIsOfItsRuntime
  BY DEF IInv, SessionInv, ViewIsOfItsRuntime
<1> QED
  BY <1>1, Invariance, PTL DEF Spec

\* Events alone keep the browser up to date: with nothing under way and the
\* runtime subscribed, what it shows is what Herdr has (runtime.ts resync,
\* store.ts refreshNow and its queue).
THEOREM EventsKeepFresh == Spec => []QuietMeansFresh
<1>1. ASSUME IInv PROVE QuietMeansFresh
  <2> SUFFICES ASSUME status = "connected", ready, ~rearm, Quiet, ~failed,
                      catalog[active] = gen[active], feed[active]
      PROVE  sessions[active].view.fresh
    BY DEF QuietMeansFresh
  <2>1. fetch.at = "none"
    BY DEF Quiet, NoFetch
  <2>2. queued = FALSE
    BY <1>1, <2>1 DEF IInv, TypeOK
  <2>3. ~Coming
    BY <2>2 DEF Coming, Quiet
  <2> QED
    BY <1>1, <2>1, <2>3 DEF IInv, FreshInv
<1> QED
  BY <1>1, Invariance, PTL DEF Spec

-----------------------------------------------------------------------------
(* The browser follows the runtimes.                                         *)

\* The answered requests of queue r are some of queue q, in their order.
Thinned(r, q) ==
  \A j, k \in DOMAIN r :
    j <= k /\ r[j].answered /\ r[k].answered =>
      \E i, l \in DOMAIN q : i <= l /\ r[j] = q[i] /\ r[k] = q[l]

\* The generations of catalogs and answers are numbers.
LEMMA GensAreNat ==
  ASSUME TypeOK
  PROVE  /\ \A c \in Conns : gen[c] \in Nat /\ catalog[c] \in Nat
         /\ \A k \in DOMAIN asks : \A c \in Conns : asks[k].gens[c] \in Nat
<1>1. \A k \in DOMAIN asks : asks[k].gens \in Catalogs
  BY Types DEF Ask
<1> QED
  BY <1>1, Types

\* Answers that remain are still in order, when the catalog is as it was or
\* that of the first answer, and the server is where it was or ahead.
LEMMA OrderKept ==
  ASSUME IInv, IInv', OrderInv, Thinned(asks', asks),
         \A c \in Conns : gen'[c] >= gen[c],
         \/ UNCHANGED catalog
         \/ asks # <<>> /\ asks[1].answered /\ catalog' = asks[1].gens
  PROVE  OrderInv'
<1> USE DEF IInv
<1>1. /\ \A c \in Conns : gen[c] \in Nat /\ gen'[c] \in Nat /\ catalog[c] \in Nat
      /\ \A k \in DOMAIN asks : k \in Nat /\ k >= 1
      /\ \A k \in DOMAIN asks : \A c \in Conns : asks[k].gens[c] \in Nat
      /\ \A k \in DOMAIN asks' : k \in Nat
      /\ asks # <<>> => 1 \in DOMAIN asks
  <2>1. TypeOK' => /\ \A c \in Conns : gen'[c] \in Gens
                   /\ asks' \in Seq(Ask)
    BY DEF TypeOK
  <2>2. \A k \in DOMAIN asks' : k \in Nat
    BY <2>1, LenProperties
  <2>3. asks # <<>> => Len(asks) # 0
    BY Types, EmptySeq
  <2> QED
    BY <2>1, <2>2, <2>3, GensAreNat, Types
<1>2. \A k \in DOMAIN asks' : asks'[k].answered =>
        \E i \in DOMAIN asks : asks[i].answered /\ asks'[k] = asks[i]
  BY <1>1 DEF Thinned
<1>3. \A c \in Conns : catalog'[c] <= gen[c]
  BY <1>1 DEF OrderInv
<1>4. \A i \in DOMAIN asks : asks[i].answered =>
        \A c \in Conns : catalog'[c] <= asks[i].gens[c] /\ asks[i].gens[c] <= gen[c]
  BY <1>1 DEF OrderInv
<1>5. ASSUME NEW c \in Conns PROVE catalog'[c] <= gen'[c]
  <2>1. catalog'[c] \in Nat
    BY <1>1
  <2> QED
    BY <1>1, <1>3, <2>1
<1>6. ASSUME NEW k \in DOMAIN asks', asks'[k].answered, NEW c \in Conns
      PROVE  catalog'[c] <= asks'[k].gens[c] /\ asks'[k].gens[c] <= gen'[c]
  BY <1>1, <1>2, <1>4, <1>6
<1>7. ASSUME NEW j \in DOMAIN asks', NEW k \in DOMAIN asks', j <= k,
             asks'[j].answered, asks'[k].answered, NEW c \in Conns
      PROVE  asks'[j].gens[c] <= asks'[k].gens[c]
  BY <1>7 DEF Thinned, OrderInv
<1> QED
  BY <1>5, <1>6, <1>7 DEF OrderInv

\* A queue whose answered requests were there before is thinned.
LEMMA SameAnswers ==
  ASSUME NEW q \in Seq(Ask), NEW r, NEW d \in {0, 1},
         \A k \in DOMAIN r : r[k].answered =>
           k \in Nat /\ k + d \in DOMAIN q /\ r[k] = q[k + d]
  PROVE  Thinned(r, q)
<1> SUFFICES ASSUME NEW j \in DOMAIN r, NEW k \in DOMAIN r, j <= k,
                    r[j].answered, r[k].answered
    PROVE  \E i, l \in DOMAIN q : i <= l /\ r[j] = q[i] /\ r[k] = q[l]
  BY DEF Thinned
<1>1. j \in Nat /\ k \in Nat /\ j + d <= k + d
  OBVIOUS
<1> QED
  BY <1>1

\* The queue of requests is as it was, longer, or begun anew.
LEMMA OrderUnlessAnswered ==
  ASSUME IInv, IInv', OrderInv, UNCHANGED <<gen, catalog>>,
         \/ UNCHANGED asks
         \/ asks' = <<>>
         \/ asks' = <<NewAsk("connect")>>
         \/ \E kind \in {"poll", "list"} : asks' = AskFor(kind, asks)
  PROVE  OrderInv'
<1> USE DEF IInv
<1>1. \A k \in DOMAIN asks' : asks'[k].answered =>
        k \in DOMAIN asks /\ asks'[k] = asks[k]
  <2>1. CASE asks' = <<NewAsk("connect")>>
    <3>1. DOMAIN asks' = {1} /\ asks'[1] = NewAsk("connect")
      BY <2>1
    <3> QED
      BY <3>1, NewAskFields
  <2>2. ASSUME NEW kind \in {"poll", "list"}, asks' = AskFor(kind, asks)
        PROVE  \A k \in DOMAIN asks' : asks'[k].answered =>
                 k \in DOMAIN asks /\ asks'[k] = asks[k]
    BY <2>2, AskForExtends, Types DEF Extends
  <2> QED
    BY <2>1, <2>2
<1>2. \A k \in DOMAIN asks : k \in Nat /\ k + 0 = k
  BY Types
<1>3. Thinned(asks', asks)
  <2>1. PICK r : r = asks'
    OBVIOUS
  <2>2. \A k \in DOMAIN r : r[k].answered =>
          k \in Nat /\ k + 0 \in DOMAIN asks /\ r[k] = asks[k + 0]
    BY <1>1, <1>2, <2>1
  <2>3. Thinned(r, asks)
    BY <2>2, SameAnswers, Types
  <2> QED
    BY <2>1, <2>3
<1>4. \A c \in Conns : gen'[c] >= gen[c]
  BY GensAreNat
<1> QED
  BY <1>3, <1>4, OrderKept

\* An answer has the generations of this moment.
LEMMA CatalogAnsweredOrders ==
  ASSUME IInv, IInv', OrderInv, CatalogAnswered
  PROVE  OrderInv'
<1> USE DEF IInv
<1>1. PICK k \in DOMAIN asks :
        /\ \A j \in DOMAIN asks : asks[j].answered <=> j < k
        /\ asks' = [asks EXCEPT ![k].answered = TRUE, ![k].gens = gen]
        /\ UNCHANGED <<serverVars, events, socketVars, leaseVars, catalog, ready, rearm,
                       refreshVars, sessions, polling, bounds>>
  BY Zenon DEF CatalogAnswered
<1>2. /\ DOMAIN asks' = DOMAIN asks
      /\ asks'[k].gens = gen
      /\ \A j \in DOMAIN asks : j # k => asks'[j] = asks[j]
      /\ \A j \in DOMAIN asks : j \in Nat
  <2>1. asks[k] \in Ask
    BY Types
  <2>2. PICK b : b = [[asks[k] EXCEPT !.answered = TRUE] EXCEPT !.gens = gen]
    OBVIOUS
  <2>3. b.gens = gen
    BY <2>1, <2>2 DEF Ask
  <2>4. asks' = [asks EXCEPT ![k] = b]
    BY <1>1, <2>1, <2>2 DEF Ask
  <2> QED
    BY <2>3, <2>4, Types
<1>3. \A j \in DOMAIN asks' : asks'[j].answered => j <= k
  BY <1>1, <1>2
<1>4. ASSUME NEW j \in DOMAIN asks', asks'[j].answered, NEW c \in Conns
      PROVE  catalog'[c] <= asks'[j].gens[c] /\ asks'[j].gens[c] <= gen'[c]
  BY <1>1, <1>2, <1>4, GensAreNat DEF OrderInv
<1>5. ASSUME NEW i \in DOMAIN asks', NEW j \in DOMAIN asks', i <= j,
             asks'[i].answered, asks'[j].answered, NEW c \in Conns
      PROVE  asks'[i].gens[c] <= asks'[j].gens[c]
  <2>1. CASE j = k
    BY <1>1, <1>2, <1>4, <1>5, <2>1, GensAreNat
  <2>2. CASE j # k
    <3>1. i # k
      BY <1>2, <1>3, <1>5, <2>2
    <3> QED
      BY <1>2, <1>5, <2>2, <3>1 DEF OrderInv
  <2> QED
    BY <2>1, <2>2
<1> QED
  BY <1>1, <1>4, <1>5 DEF OrderInv

\* A request that fails leaves the others in their order.
LEMMA CatalogFailsOrders ==
  ASSUME IInv, IInv', OrderInv, CatalogFails
  PROVE  OrderInv'
<1> USE DEF IInv
<1>1. PICK k \in DOMAIN asks : asks' = RemoveAt(asks, k) /\ UNCHANGED <<gen, catalog>>
  BY DEF CatalogFails
<1>2. PICK q \in Seq(Ask) : q = asks /\ Len(q) <= MaxAsks
  BY Types
<1>3. PICK r : r = RemoveAt(q, k)
  OBVIOUS
<1>4. /\ r \in Seq(Ask)
      /\ \A j \in DOMAIN r :
           /\ j <= k - 1 => j \in DOMAIN q /\ r[j] = q[j]
           /\ j > k - 1 => j + 1 \in DOMAIN q /\ r[j] = q[j + 1]
  BY <1>2, <1>3, RemovedFields
<1>5. k \in Nat /\ \A j \in DOMAIN r : j \in Nat
  BY <1>2, <1>4, LenProperties
<1>6. Thinned(r, q)
  <2> SUFFICES ASSUME NEW i \in DOMAIN r, NEW j \in DOMAIN r, i <= j
      PROVE  \E m, l \in DOMAIN q : m <= l /\ r[i] = q[m] /\ r[j] = q[l]
    BY DEF Thinned
  <2>1. CASE j <= k - 1
    <3>1. i <= k - 1
      BY <1>5, <2>1
    <3> QED
      BY <1>4, <2>1, <3>1
  <2>2. CASE j > k - 1 /\ i <= k - 1
    <3>1. i <= j + 1
      BY <1>5
    <3> QED
      BY <1>4, <2>2, <3>1
  <2>3. CASE j > k - 1 /\ i > k - 1
    <3>1. i + 1 <= j + 1
      BY <1>5
    <3> QED
      BY <1>4, <2>3, <3>1
  <2> QED
    BY <1>5, <2>1, <2>2, <2>3
<1>7. \A c \in Conns : gen'[c] >= gen[c]
  BY <1>1, GensAreNat
<1> QED
  BY <1>1, <1>2, <1>3, <1>6, <1>7, OrderKept

\* The catalog becomes that of the first answer.
LEMMA CatalogDeliveredOrders ==
  ASSUME IInv, IInv', OrderInv, CatalogDelivered
  PROVE  OrderInv' /\ \A c \in Conns : catalog[c] <= catalog'[c] /\ catalog'[c] <= gen[c]
<1> USE DEF IInv
<1>1. PICK q \in Seq(Ask) : q = asks /\ q # <<>> /\ Len(q) <= MaxAsks /\ Head(q).answered
  BY Types DEF CatalogDelivered
<1>2. PICK t \in Seq(Ask) : t = Tail(q)
  BY <1>1, TailFields
<1>3. /\ asks # <<>> /\ asks[1].answered /\ catalog' = asks[1].gens /\ UNCHANGED gen
      /\ asks' = t \/ asks' = AskFor("poll", t)
  <2>1. Head(q) = q[1]
    BY <1>1, TailFields
  <2>2. catalog' = Head(q).gens /\ UNCHANGED gen
    BY <1>1 DEF CatalogDelivered
  <2>3. asks' = IF Head(q).kind = "connect" THEN AskFor("poll", t) ELSE t
    BY <1>1, <1>2 DEF CatalogDelivered
  <2> QED
    BY <1>1, <2>1, <2>2, <2>3
<1>4. /\ Len(t) <= MaxAsks
      /\ \A k \in DOMAIN t : k \in Nat /\ k + 1 \in DOMAIN q /\ t[k] = q[k + 1]
  <2>1. /\ Len(t) < MaxAsks
        /\ \A k \in DOMAIN t : k + 1 \in DOMAIN q /\ t[k] = q[k + 1]
    BY <1>1, <1>2, TailFields
  <2>2. Len(t) \in Nat /\ DOMAIN t = 1 .. Len(t)
    BY LenProperties
  <2> QED
    BY <2>1, <2>2, Bounds
<1>5. PICK r : r = asks'
  OBVIOUS
<1>6. \A k \in DOMAIN r : r[k].answered => k \in DOMAIN t /\ r[k] = t[k]
  <2>1. CASE r = t
    BY <2>1
  <2>2. CASE r = AskFor("poll", t)
    <3>1. Extends(AskFor("poll", t), t)
      BY <1>4, AskForExtends
    <3> QED
      BY <2>2, <3>1 DEF Extends
  <2> QED
    BY <1>3, <1>5, <2>1, <2>2
<1>7. Thinned(r, q)
  BY <1>4, <1>6, SameAnswers
<1>8. \A c \in Conns : gen'[c] >= gen[c]
  BY <1>3, GensAreNat
<1>9. OrderInv'
  BY <1>1, <1>3, <1>5, <1>7, <1>8, OrderKept
<1>10. 1 \in DOMAIN asks
  BY <1>1, TailFields
<1> QED
  BY <1>3, <1>9, <1>10 DEF OrderInv

\* A restart is ahead of every answer.
LEMMA RestartOrders ==
  ASSUME IInv, IInv', OrderInv, NEW c \in Conns, RuntimeRestarts(c)
  PROVE  OrderInv' /\ \A d \in Conns : gen'[d] >= gen[d]
<1>1. /\ gen' = [gen EXCEPT ![c] = @ + 1] /\ UNCHANGED <<asks, catalog>>
  BY DEF RuntimeRestarts
<1>2. \A d \in Conns : gen'[d] >= gen[d]
  BY <1>1, GensAreNat DEF IInv, TypeOK
<1>3. Thinned(asks', asks)
  BY <1>1 DEF Thinned
<1> QED
  BY <1>1, <1>2, <1>3, OrderKept

\* Every step keeps the order.
LEMMA OrderStep ==
  ASSUME IInv, IInv', OrderInv, [Next]_vars
  PROVE  OrderInv'
<1>1. CASE \/ Connect \/ RefreshTimerFires \/ RefreshProceeds \/ Poll \/ StrayCloses
           \/ \E e \in events : EventArrives(e)
           \/ \E c \in Conns : FeedReady(c)
           \/ Command
           \/ SocketCloses \/ ForceReconnect \/ FetchFails
           \/ \E c \in Conns : HerdrChanges(c) \/ FeedLost(c)
           \/ UNCHANGED vars
  <2>1. UNCHANGED <<gen, catalog>>
    BY <1>1 DEF Connect, Reconnect, Hello, HelloWith, RefreshTimerFires,
       RefreshProceeds, FetchAnswered, FetchRefused, RefreshEnds, RefreshFailed,
       Poll, StrayCloses, EventArrives, FeedReady, Command, ListConnections, Return,
       Pause, Resume, Select, SocketCloses, ForceReconnect, Teardown, FetchFails,
       HerdrChanges, FeedLost, vars
  <2>2. \/ UNCHANGED asks
        \/ asks' = <<>>
        \/ asks' = <<NewAsk("connect")>>
        \/ \E kind \in {"poll", "list"} : asks' = AskFor(kind, asks)
    BY <1>1 DEF Connect, Reconnect, Hello, HelloWith, RefreshTimerFires,
       RefreshProceeds, FetchAnswered, FetchRefused, RefreshEnds, RefreshFailed,
       Poll, StrayCloses, EventArrives, FeedReady, Command, ListConnections, Return,
       Pause, Resume, Select, SocketCloses, ForceReconnect, Teardown, FetchFails,
       HerdrChanges, FeedLost, vars
  <2> QED
    BY <2>1, <2>2, OrderUnlessAnswered
<1>2. CASE CatalogAnswered \/ CatalogFails \/ CatalogDelivered
  BY <1>2, CatalogAnsweredOrders, CatalogFailsOrders, CatalogDeliveredOrders
<1>3. CASE \E c \in Conns : RuntimeRestarts(c)
  BY <1>3, RestartOrders
<1> QED
  BY <1>1, <1>2, <1>3 DEF Next, Fault

-----------------------------------------------------------------------------
(* The steps of a RuntimeFollower.                                           *)

\* Sessions whose contents are of the same runtimes show the same.
LEMMA ShownKept ==
  ASSUME \A c \in Conns : sessions'[c].view.of = sessions[c].view.of
  PROVE  shownNow' = shownNow
BY DEF shownNow

\* An empty session shows nothing.
LEMMA ShownFields ==
  ASSUME NEW c \in Conns
  PROVE  /\ shownNow[c] = IF sessions[c].view.of.gen = 0 THEN {}
                          ELSE {sessions[c].view.of}
         /\ shownNow'[c] = IF sessions'[c].view.of.gen = 0 THEN {}
                           ELSE {sessions'[c].view.of}
         /\ sessions'[c].view = Empty => shownNow'[c] = {}
         /\ sessions'[c].view = sessions[c].view => shownNow'[c] = shownNow[c]
BY DEF shownNow, Empty

\* A session that is shown again shows the same, or nothing.
LEMMA SelectionLearns ==
  ASSUME IInv, IInv', OrderInv, NEW c \in Conns,
         sessions' = [sessions EXCEPT ![c] = Restored(c)], UNCHANGED <<gen, catalog>>
  PROVE  Follower!Learn
<1> USE DEF IInv
<1>1. \A d \in Conns : sessions'[d].view \in {Empty, sessions[d].view}
  <2>1. PICK s : s = Restored(c)
    OBVIOUS
  <2>2. s.view = Empty \/ s.view = sessions[c].view
    BY <2>1, RestoredFields
  <2> QED
    BY <2>1, <2>2 DEF TypeOK
<1>2. \A d \in Conns : shownNow'[d] = {} \/ shownNow'[d] = shownNow[d]
  BY <1>1, ShownFields
<1>3. /\ catalog' \in [Conns -> Nat]
      /\ \A d \in Conns : catalog[d] <= catalog'[d] /\ catalog'[d] <= gen[d]
                           /\ catalog'[d] = catalog[d]
  BY GensAreNat DEF TypeOK, OrderInv
<1> QED
  BY <1>2, <1>3 DEF Follower!Learn

\* A catalog that is delivered is newer, and what it outdates is not shown.
LEMMA CatalogDeliveredLearns ==
  ASSUME IInv, IInv', OrderInv, CatalogDelivered
  PROVE  Follower!Learn
<1> USE DEF IInv
<1>1. PICK cat \in Catalogs : cat = Head(asks).gens
  <2>1. PICK q \in Seq(Ask) : q = asks /\ q # <<>> /\ Len(q) <= MaxAsks
    BY Types DEF CatalogDelivered
  <2> QED
    BY <2>1, TailFields DEF Ask
<1>2. catalog' = cat /\ sessions' = Reconciled(cat) /\ UNCHANGED gen
  BY <1>1 DEF CatalogDelivered
<1>3. \A c \in Conns : catalog[c] <= catalog'[c] /\ catalog'[c] <= gen[c]
  BY CatalogDeliveredOrders
<1>4. ASSUME NEW c \in Conns
      PROVE  \/ shownNow'[c] = {}
             \/ shownNow'[c] = shownNow[c] /\ catalog'[c] = catalog[c]
  <2>1. CASE Invalidated(c, cat)
    BY <1>2, <2>1, ReconciledFields, ShownFields
  <2>2. CASE ~Invalidated(c, cat)
    <3>1. sessions'[c].view = sessions[c].view
      BY <1>2, <2>2, ReconciledFields
    <3>2. CASE catalog[c] = 0
      <4>1. sessions[c].view = Empty
        BY <3>2 DEF SessionInv
      <4> QED
        BY <3>1, <4>1, ShownFields
    <3>3. CASE catalog[c] # 0
      BY <1>2, <2>2, <3>1, <3>3, ShownFields DEF Invalidated
    <3> QED
      BY <3>2, <3>3
  <2> QED
    BY <2>1, <2>2
<1>5. catalog' \in [Conns -> Nat]
  BY <1>2
<1> QED
  BY <1>2, <1>3, <1>4, <1>5 DEF Follower!Learn

\* A refresh shows what it read, of the runtime that is known.
LEMMA RefreshEndsShows ==
  ASSUME IInv, IInv', RefreshEnds
  PROVE  Follower!Show
<1> USE DEF IInv
<1>1. /\ fetch.at = "answered" /\ sessions' = Published(active)
      /\ UNCHANGED <<gen, catalog>>
  BY DEF RefreshEnds
<1>2. PICK c \in Conns :
        c = active /\ catalog[c] # 0 /\ fetch.of = [conn |-> c, gen |-> catalog[c]]
  BY <1>1 DEF FetchInv
<1>3. PICK s : s = [conn |-> c, gen |-> catalog[c]]
  OBVIOUS
<1>4. s.gen # 0 /\ fetch.of = s
  BY <1>2, <1>3
<1>5. PICK v : v = [fresh |-> fetch.fresh, of |-> fetch.of]
  OBVIOUS
<1>6. v.of = s
  BY <1>4, <1>5
<1>7. sessions' = [sessions EXCEPT ![c].view = v]
  BY <1>1, <1>2, <1>5 DEF Published
<1>8. sessions'[c].view = v /\ \A d \in Conns : d # c => sessions'[d] = sessions[d]
  BY <1>7, Types DEF TypeOK, Session
<1>9. shownNow'[c] = {s} /\ \A d \in Conns : d # c => shownNow'[d] = shownNow[d]
  BY <1>4, <1>6, <1>8, ShownFields
<1>10. shownNow' = [shownNow EXCEPT ![c] = {s}]
  BY <1>9 DEF shownNow
<1> QED
  BY <1>1, <1>2, <1>3, <1>10 DEF Follower!Show

\* A change at Herdr outdates what is shown, which stays of its runtime.
LEMMA HerdrChangesShowsTheSame ==
  ASSUME IInv, NEW c \in Conns, HerdrChanges(c)
  PROVE  UNCHANGED <<gen, catalog, shownNow>>
<1>1. UNCHANGED <<gen, catalog>>
  BY DEF HerdrChanges
<1>2. sessions' = [d \in Conns |-> IF sessions[d].view.of.conn = c
                                  THEN [sessions[d] EXCEPT !.view.fresh = FALSE]
                                  ELSE sessions[d]]
  BY DEF HerdrChanges
<1>3. ASSUME NEW d \in Conns PROVE sessions'[d].view.of = sessions[d].view.of
  <2>1. sessions[d] \in Session /\ sessions[d].view \in Content
    BY Types DEF IInv
  <2>2. PICK s : s = sessions[d]
    OBVIOUS
  <2>3. [s EXCEPT !.view.fresh = FALSE].view.of = s.view.of
    BY <2>1, <2>2 DEF Session, Content
  <2> QED
    BY <1>2, <2>2, <2>3
<1> QED
  BY <1>1, <1>3, ShownKept

\* Every step is one of the abstract specification's.
LEMMA FollowerStep ==
  ASSUME IInv, IInv', OrderInv, OrderInv', [Next]_vars
  PROVE  Follower!Next \/ UNCHANGED <<gen, catalog, shownNow>>
<1>1. CASE \/ Reconnect \/ RefreshTimerFires \/ FetchAnswered \/ FetchRefused \/ Poll
           \/ StrayCloses \/ CatalogAnswered \/ CatalogFails
           \/ \E e \in events : EventArrives(e)
           \/ \E c \in Conns : FeedReady(c) \/ FeedLost(c)
           \/ ListConnections \/ Return \/ Pause \/ Resume
           \/ SocketCloses \/ ForceReconnect \/ FetchFails
           \/ UNCHANGED vars
  <2>1. CatalogAnswered => UNCHANGED <<gen, catalog, sessions>>
    <3>1. CatalogAnswered =>
            UNCHANGED <<serverVars, events, socketVars, leaseVars, catalog, ready, rearm,
                        refreshVars, sessions, polling, bounds>>
      BY Zenon DEF CatalogAnswered
    <3> QED
      BY <3>1
  <2>2. CatalogFails => UNCHANGED <<gen, catalog, sessions>>
    BY DEF CatalogFails
  <2>3. UNCHANGED <<gen, catalog, sessions>>
    BY <1>1, <2>1, <2>2 DEF Reconnect, RefreshTimerFires, FetchAnswered, FetchRefused,
       RefreshFailed, Poll, StrayCloses, EventArrives,
       FeedReady, FeedLost, ListConnections, Return, Pause, Resume, SocketCloses,
       ForceReconnect, Teardown, FetchFails, vars
  <2> QED
    BY <2>3, ShownKept
<1>2. CASE Hello
  <2>1. CASE active = Legacy
    BY <1>2, <2>1, SelectionLearns DEF Hello, HelloWith, Follower!Next
  <2>2. CASE active # Legacy
    BY <1>2, <2>2, ShownKept DEF Hello, HelloWith
  <2> QED
    BY <2>1, <2>2
<1>3. CASE \E c \in Conns : Select(c)
  BY <1>3, SelectionLearns DEF Select, Follower!Next
<1>4. CASE CatalogDelivered \/ RefreshEnds
  BY <1>4, CatalogDeliveredLearns, RefreshEndsShows DEF Follower!Next
<1>5. CASE \E c \in Conns : HerdrChanges(c)
  BY <1>5, HerdrChangesShowsTheSame
<1>6. ASSUME NEW c \in Conns, RuntimeRestarts(c) PROVE Follower!Next
  <2>1. UNCHANGED <<catalog, sessions>>
    BY <1>6 DEF RuntimeRestarts
  <2>2. \A d \in Conns : gen'[d] >= gen[d]
    BY <1>6, RestartOrders
  <2>3. gen' \in [Conns -> Nat]
    BY DEF IInv, TypeOK
  <2> QED
    BY <2>1, <2>2, <2>3, ShownKept DEF Follower!Replace, Follower!Next
<1> QED
  BY <1>1, <1>2, <1>3, <1>4, <1>5, <1>6
     DEF Next, Connect, RefreshProceeds, Command, Fault

\* The browser never goes back to an earlier runtime, and shows what it read
\* from the one it knows.
THEOREM RuntimesAreFollowed == Safety => FollowsRuntimes
<1>1. Init => OrderInv /\ Follower!Init
  <2> SUFFICES ASSUME Init PROVE OrderInv /\ Follower!Init
    OBVIOUS
  <2>1. OrderInv
    BY DEF Init, OrderInv
  <2>2. shownNow = [c \in Conns |-> {}]
    BY DEF Init, shownNow, Empty
  <2>3. gen \in [Conns -> Nat]
    BY DEF Init
  <2> QED
    BY <2>1, <2>2, <2>3 DEF Init, Follower!Init
<1>2. IInv /\ IInv' /\ OrderInv /\ [Next]_vars => OrderInv'
  BY OrderStep
<1>3. IInv /\ IInv' /\ OrderInv /\ OrderInv' /\ [Next]_vars
        => [Follower!Next]_(Follower!vars)
  BY FollowerStep DEF Follower!vars
<1> QED
  BY <1>1, <1>2, <1>3, Invariance, PTL DEF Safety, FollowsRuntimes, Follower!Spec

=============================================================================
