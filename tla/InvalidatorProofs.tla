---------------------------- MODULE InvalidatorProofs ----------------------------
(***************************************************************************)
(* The invalidator implements BlockCache, for any number of sessions and   *)
(* polls and with or without the trigger, so what BlockCacheProofs proves  *)
(* holds of it; it never stops trying to listen; and a process that        *)
(* listens serves the last block, once no notification is on its way.      *)
(***************************************************************************)
EXTENDS Invalidator, BlockCacheProofs

(***************************************************************************)
(* What is on its way to the process: heights the database has had.        *)
(***************************************************************************)
HeardHeights ==
  /\ dbHeight \in Heights
  /\ inbox \in [Sessions -> Seq(1 .. dbHeight)]
  /\ poll \in [Polls -> (0 .. dbHeight) \cup {NoPoll}]

(* Nothing has been heard at the start. *)
LEMMA HeardHeightsInit == InvalidatorInit => HeardHeights
BY DEF InvalidatorInit, Init, HeardHeights

(* Closing or severing a session loses what was on its way to it. *)
LEMMA EmptiedInbox ==
  ASSUME HeardHeights, NEW s \in Sessions, inbox' = [inbox EXCEPT ![s] = << >>],
         UNCHANGED <<dbHeight, poll>>
  PROVE  HeardHeights'
BY DEF HeardHeights

(* What is announced later is a height there has been. *)
LEMMA HeardHeightsStep == HeardHeights /\ [InvalidatorNext]_invalidatorVars => HeardHeights'
<1> SUFFICES ASSUME HeardHeights, [InvalidatorNext]_invalidatorVars PROVE HeardHeights'
  OBVIOUS
<1> USE MaxHeightAssumption
<1>1. CASE NewBlock
  <2>1. dbHeight' = dbHeight + 1 /\ dbHeight' \in Heights
    BY <1>1 DEF NewBlock, CommitBlock, HeardHeights, Heights
  <2>2. \A s \in Sessions : inbox[s] \in Seq(1 .. dbHeight') /\ dbHeight' \in 1 .. dbHeight'
    <3>1. \A i \in 1 .. dbHeight : i \in 1 .. dbHeight'
      BY <2>1 DEF HeardHeights, Heights
    <3>2. \A s \in Sessions : inbox[s] \in Seq(1 .. dbHeight)
      BY DEF HeardHeights
    <3> QED BY <2>1, <3>1, <3>2, SeqMonotonic DEF HeardHeights, Heights
  <2>3. inbox' \in [Sessions -> Seq(1 .. dbHeight')]
    <3>1. \A s \in Sessions : inbox'[s] \in Seq(1 .. dbHeight')
      <4> TAKE s \in Sessions
      <4>1. inbox[s] \in Seq(1 .. dbHeight') /\ dbHeight' \in 1 .. dbHeight'
        BY <2>2
      <4>2. Append(inbox[s], dbHeight') \in Seq(1 .. dbHeight')
        BY <4>1, AppendProperties
      <4> QED BY <1>1, <4>1, <4>2 DEF NewBlock
    <3>2. inbox' = [s \in Sessions |-> inbox'[s]]
      BY <1>1 DEF NewBlock
    <3> QED BY <3>1, <3>2
  <2>4. poll' \in [Polls -> (0 .. dbHeight') \cup {NoPoll}]
    BY <1>1, <2>1 DEF NewBlock, HeardHeights, Heights
  <2> QED BY <2>1, <2>3, <2>4 DEF HeardHeights
<1>2. ASSUME UNCHANGED <<dbHeight, inbox, poll>> PROVE HeardHeights'
  BY <1>2 DEF HeardHeights
<1>3. ASSUME NEW r \in Requests, ServeRequest(r) PROVE HeardHeights'
  <2>1. UNCHANGED dbHeight
    BY <1>3 DEF ServeRequest, Serve, Bypass, Hit, Miss, Read, End, Abandon
  <2> QED BY <1>2, <1>3, <2>1 DEF ServeRequest, sessionVars
<1>4. ASSUME NEW s \in Sessions, Listen(s) PROVE HeardHeights'
  <2>1. CASE Reconnect(s) \/ ConnectSucceeds(s) \/ ListenExecuted(s) \/ ListenRejected(s)
    BY <1>2, <2>1
    DEF Reconnect, ConnectSucceeds, ListenExecuted, ListenRejected, vars
  <2>2. CASE ListenAnswered(s)
    BY <1>2, <2>2 DEF ListenAnswered, Relisten
  <2>3. CASE ConnectFails(s) \/ Sever(s)
    BY <2>3, EmptiedInbox DEF ConnectFails, Sever, CloseSession, vars
  <2>4. CASE ConnectionError(s)
    BY <2>4, EmptiedInbox DEF ConnectionError, CloseSession, Relisten
  <2>5. CASE Deliver(s)
    <3>1. Tail(inbox[s]) \in Seq(1 .. dbHeight)
      BY <2>5 DEF Deliver, HeardHeights
    <3> QED BY <2>5, <3>1 DEF Deliver, Notified, HeardHeights
  <2> QED BY <1>4, <2>1, <2>2, <2>3, <2>4, <2>5 DEF Listen
<1>5. ASSUME NEW p \in Polls, Poll(p) PROVE HeardHeights'
  <2>1. CASE PollRead(p)
    BY <2>1 DEF PollRead, HeardHeights, Heights, vars, sessionVars
  <2>2. CASE PollAnswered(p)
    BY <2>2 DEF PollAnswered, Polled, HeardHeights, sessionVars
  <2>3. CASE PollFails(p)
    BY <2>3 DEF PollFails, HeardHeights, vars, sessionVars
  <2> QED BY <1>5, <2>1, <2>2, <2>3 DEF Poll
<1>6. CASE UNCHANGED invalidatorVars
  BY <1>2, <1>6 DEF invalidatorVars, vars, sessionVars
<1> QED BY <1>1, <1>3, <1>4, <1>5, <1>6 DEF InvalidatorNext

(***************************************************************************)
(* Every step of the invalidator is a step of BlockCache or leaves its     *)
(* variables alone.                                                        *)
(***************************************************************************)
LEMMA StepRefines == HeardHeights /\ [InvalidatorNext]_invalidatorVars => [Next]_vars
<1> SUFFICES ASSUME HeardHeights, [InvalidatorNext]_invalidatorVars PROVE [Next]_vars
  OBVIOUS
<1>1. CASE NewBlock
  BY <1>1 DEF NewBlock, Next
<1>2. ASSUME NEW r \in Requests, ServeRequest(r) PROVE [Next]_vars
  BY <1>2 DEF ServeRequest, Next
<1>3. ASSUME NEW s \in Sessions, Listen(s) PROVE [Next]_vars
  <2>1. CASE \/ Reconnect(s) \/ ConnectSucceeds(s) \/ ConnectFails(s)
             \/ ListenExecuted(s) \/ ListenRejected(s) \/ Sever(s)
    <3>1. UNCHANGED vars
      BY <2>1 DEF Reconnect, ConnectSucceeds, ConnectFails, ListenExecuted,
                  ListenRejected, Sever
    <3> QED BY <3>1
  <2>2. CASE ListenAnswered(s) \/ ConnectionError(s)
    BY <2>2 DEF ListenAnswered, ConnectionError, Next
  <2>3. CASE Deliver(s)
    <3>1. Head(inbox[s]) \in 1 .. dbHeight
      <4>1. inbox[s] \in Seq(1 .. dbHeight) /\ inbox[s] # << >>
        BY <2>3 DEF Deliver, HeardHeights
      <4> QED BY <4>1, HeadTailProperties
    <3> QED BY <2>3, <3>1 DEF Deliver, Next
  <2> QED BY <1>3, <2>1, <2>2, <2>3 DEF Listen
<1>4. ASSUME NEW p \in Polls, Poll(p) PROVE [Next]_vars
  <2>1. CASE PollRead(p) \/ PollFails(p)
    <3>1. UNCHANGED vars
      BY <2>1 DEF PollRead, PollFails
    <3> QED BY <3>1
  <2>2. CASE PollAnswered(p)
    <3>1. poll[p] \in 0 .. dbHeight
      BY <2>2 DEF PollAnswered, HeardHeights
    <3> QED BY <2>2, <3>1 DEF PollAnswered, Next
  <2> QED BY <1>4, <2>1, <2>2 DEF Poll
<1>5. CASE UNCHANGED invalidatorVars
  BY <1>5 DEF invalidatorVars
<1> QED BY <1>1, <1>2, <1>3, <1>4, <1>5 DEF InvalidatorNext

(* The invalidator implements BlockCache. *)
THEOREM InvalidatorImplementsBlockCache == InvalidatorSpec => ImplementsBlockCache
<1>1. InvalidatorInit => Init
  BY DEF InvalidatorInit
<1> QED
  BY <1>1, HeardHeightsInit, HeardHeightsStep, StepRefines, PTL
  DEF InvalidatorSpec, ImplementsBlockCache, Spec

(* What is proved of BlockCache holds of the cache of the running process. *)
THEOREM InvalidatorCoverage == InvalidatorSpec => []CacheCoversKnownBlocks
BY InvalidatorImplementsBlockCache, CoverageAlways, PTL DEF ImplementsBlockCache

-----------------------------------------------------------------------------
(* Some way to a LISTEN session is always open. *)
ListenInv == session \in [Sessions -> SessionStates] /\ ListenerNeverGivenUp

(* The invariant of the sessions holds at the start. *)
LEMMA ListenInvInit == InvalidatorInit => ListenInv
BY DEF InvalidatorInit, ListenInv, SessionStates, ListenerNeverGivenUp

(* Every step keeps it. *)
LEMMA ListenInvStep == ListenInv /\ [InvalidatorNext]_invalidatorVars => ListenInv'
<1> SUFFICES ASSUME ListenInv, [InvalidatorNext]_invalidatorVars PROVE ListenInv'
  OBVIOUS
<1>0. session \in [Sessions -> SessionStates]
  BY DEF ListenInv
<1>1. ASSUME UNCHANGED <<session, reconnectTimer>> PROVE ListenInv'
  BY <1>1 DEF ListenInv, ListenerNeverGivenUp
(* A step that leaves session s in a state that leads to LISTEN, or that   *)
(* leaves the timer running, keeps the invariant.                          *)
<1>2. ASSUME NEW s \in Sessions, NEW st \in SessionStates,
             session' = [session EXCEPT ![s] = st],
             st \notin {"none", "rejected"} \/ reconnectTimer' # "off"
      PROVE  ListenInv'
  BY <1>0, <1>2 DEF ListenInv, ListenerNeverGivenUp
<1>3. ScheduleReconnect => reconnectTimer' # "off"
  BY DEF ScheduleReconnect
<1>4. CASE NewBlock \/ \E r \in Requests : ServeRequest(r)
  BY <1>1, <1>4 DEF NewBlock, ServeRequest, sessionVars, reconnectVars
<1>5. ASSUME NEW s \in Sessions, Listen(s) PROVE ListenInv'
  <2>1. CASE Reconnect(s) \/ ConnectSucceeds(s) \/ ListenExecuted(s) \/ ListenAnswered(s)
    <3>1. PICK st \in {"connecting", "subscribing", "registered", "listening"} :
            session' = [session EXCEPT ![s] = st]
      BY <2>1 DEF Reconnect, ConnectSucceeds, ListenExecuted, ListenAnswered
    <3> QED BY <1>2, <3>1 DEF SessionStates
  <2>2. CASE ConnectFails(s) \/ ConnectionError(s) \/ ListenRejected(s)
    <3>1. PICK st \in {"none", "rejected"} : session' = [session EXCEPT ![s] = st]
      BY <2>2 DEF ConnectFails, ConnectionError, ListenRejected, CloseSession
    <3>2. reconnectTimer' # "off"
      BY <1>3, <2>2 DEF ConnectFails, ConnectionError, ListenRejected
    <3> QED BY <1>2, <3>1, <3>2 DEF SessionStates
  <2>3. CASE Deliver(s) \/ Sever(s)
    BY <1>1, <2>3 DEF Deliver, Sever, reconnectVars
  <2> QED BY <1>5, <2>1, <2>2, <2>3 DEF Listen
<1>6. ASSUME NEW p \in Polls, Poll(p) PROVE ListenInv'
  BY <1>1, <1>6 DEF Poll, PollRead, PollAnswered, PollFails, sessionVars, reconnectVars
<1>7. CASE UNCHANGED invalidatorVars
  BY <1>1, <1>7 DEF invalidatorVars, sessionVars, reconnectVars
<1> QED BY <1>4, <1>5, <1>6, <1>7 DEF InvalidatorNext

(* No order of failures leaves the process without a way to listen again. *)
THEOREM NeverGivenUpAlways == InvalidatorSpec => []ListenerNeverGivenUp
<1>1. InvalidatorSpec => []ListenInv
  BY ListenInvInit, ListenInvStep, PTL DEF InvalidatorSpec
<1>2. ListenInv => ListenerNeverGivenUp
  BY DEF ListenInv
<1> QED BY <1>1, <1>2, PTL

-----------------------------------------------------------------------------
(* Freshness, and the types of the invalidator *)

(* What is outstanding after a request was served was so before, or is     *)
(* read just now.                                                          *)
LEMMA ServeOutstanding ==
  ASSUME MapInv, NEW r \in Requests, Serve(r)
  PROVE  /\ dbHeight' = dbHeight
         /\ \A b \in Outstanding' : b \in Outstanding \/ b.height = dbHeight
<1>0. /\ cache \in CacheMaps /\ Len(cache) =< MaxEntries
      /\ phase \in [Requests -> Phases] /\ key \in [Requests -> Keys]
      /\ body \in [Requests -> Bodies]
  BY MapInvCache DEF MapInv, TypeOK, CacheBounded
<1> DEFINE Known(b) == b \in Outstanding \/ b.height = dbHeight
<1>1. dbHeight' = dbHeight
  BY DEF Serve, Bypass, Hit, Miss, Read, End, Abandon
<1>2. ASSUME NEW j \in DOMAIN cache' PROVE Known(cache'[j].val)
  <2>1. CASE UNCHANGED cache
    BY <1>2, <2>1 DEF Outstanding, CachedBodies
  <2>2. CASE Hit(r)
    <3>1. \E i \in DOMAIN cache : cache'[j] = cache[i]
      BY <1>0, <1>2, <2>2, RefreshedProperties DEF Hit
    <3> QED BY <3>1 DEF Outstanding, CachedBodies
  <2>3. CASE End(r) /\ cache' = Stored(cache, key[r], body[r])
    <3>1. \/ cache'[j] = [key |-> key[r], val |-> body[r]]
          \/ \E i \in DOMAIN cache : cache'[j] = cache[i]
      BY <1>0, <1>2, <2>3, StoredProperties
    <3>2. body[r] \in InFlightBodies
      BY <2>3 DEF End, InFlightBodies
    <3> QED BY <3>1, <3>2 DEF Outstanding, CachedBodies
  <2> QED BY <2>1, <2>2, <2>3 DEF Serve, Bypass, Miss, Read, End, Abandon
<1>3. ASSUME NEW q \in Requests, phase'[q] = "read" PROVE Known(body'[q])
  <2>1. CASE Read(r) /\ q = r
    <3>1. PICK ok \in BOOLEAN : body'[q] = FreshBody(ok)
      BY <1>0, <2>1 DEF Read
    <3> QED BY <3>1 DEF FreshBody
  <2>2. CASE ~ (Read(r) /\ q = r)
    <3>1. phase[q] = "read" /\ body'[q] = body[q]
      BY <1>0, <1>3, <2>2 DEF Serve, Bypass, Hit, Miss, Read, End, Abandon
    <3> QED BY <3>1 DEF Outstanding, InFlightBodies
  <2> QED BY <2>1, <2>2
<1>4. \A b \in Outstanding' : Known(b)
  BY <1>2, <1>3 DEF Outstanding, CachedBodies, InFlightBodies
<1> QED BY <1>1, <1>4

(* After a flush, all that is outstanding is marked. *)
LEMMA FlushOutstanding ==
  ASSUME MapInv, ClearBlockCache, UNCHANGED phase
  PROVE  \A b \in Outstanding' : b.spanned /\ \E c \in Outstanding : b.height = c.height
<1>1. CachedBodies' = {}
  BY DEF CachedBodies, ClearBlockCache, EmptyMap
<1>2. ASSUME NEW r \in Requests, phase'[r] = "read"
      PROVE  body'[r].spanned /\ body'[r].height = body[r].height /\ body[r] \in InFlightBodies
  <2>1. body'[r] = [body[r] EXCEPT !.spanned = TRUE]
    BY <1>2 DEF ClearBlockCache
  <2>2. body[r] \in Bodies
    BY DEF MapInv, TypeOK
  <2> QED BY <1>2, <2>1, <2>2 DEF Bodies, InFlightBodies
<1>3. \A b \in InFlightBodies' : b.spanned /\ \E c \in Outstanding : b.height = c.height
  BY <1>2 DEF InFlightBodies, Outstanding
<1> QED BY <1>1, <1>3 DEF Outstanding

(* What is outstanding, cached or in flight, are bodies. *)
LEMMA OutstandingTypes == MapInv => Outstanding \subseteq Bodies
<1> SUFFICES ASSUME MapInv, NEW b \in Outstanding PROVE b \in Bodies
  OBVIOUS
<1>1. ASSUME NEW i \in DOMAIN cache PROVE cache[i].val \in Bodies
  <2>1. cache[i] \in Entries(Keys, Bodies)
    BY <1>1 DEF MapInv, TypeOK
  <2> QED BY <2>1 DEF Entries
<1>2. \A r \in Requests : body[r] \in Bodies
  BY DEF MapInv, TypeOK
<1> QED BY <1>1, <1>2 DEF Outstanding, CachedBodies, InFlightBodies

-----------------------------------------------------------------------------
(* What the induction on ListeningInv knows of a state. *)
ListeningTypes == MapInv /\ HeardHeights /\ ListenInv

(* A flush leaves sessions and listener alone. *)
LEMMA FlushKeepsListening ==
  ASSUME MapInv, ListeningInv, ClearBlockCache, UNCHANGED <<phase, dbHeight>>
  PROVE  ListeningInv'
<1>1. \A b \in Outstanding' : b.spanned /\ \E c \in Outstanding : b.height = c.height
  BY FlushOutstanding
<1>2. \A b \in Outstanding' : b.height =< dbHeight'
  BY <1>1 DEF ListeningInv
<1>3. \A b \in Outstanding' : b.spanned
  BY <1>1
<1>4. ListeningInv' = (/\ \A b \in Outstanding' : b.height =< dbHeight'
                       /\ \A s \in Sessions : Hears(s)' =>
                            \A b \in Outstanding' :
                               ~ b.spanned => dbHeight' =< b.height + Len(inbox'[s]))
  BY DEF ListeningInv
<1> QED BY <1>2, <1>3, <1>4

(* A step without a commit and without a new hearer, and whose bodies were *)
(* there before or are read just now.                                      *)
LEMMA QuietKeepsListening ==
  ASSUME ListeningTypes, ListeningInv, UNCHANGED dbHeight,
         \A b \in Outstanding' : b \in Outstanding \/ b.height = dbHeight,
         \A s \in Sessions : Hears(s)' => Hears(s) /\ inbox'[s] = inbox[s]
  PROVE  ListeningInv'
<1>1. dbHeight \in Nat
  BY DEF ListeningTypes, MapInv, TypeOK, Heights
<1>2. \A b \in Outstanding' : b.height =< dbHeight'
  BY <1>1 DEF ListeningInv
<1>3. ASSUME NEW s \in Sessions, Hears(s)', NEW b \in Outstanding', ~ b.spanned
      PROVE  dbHeight' =< b.height + Len(inbox'[s])
  <2>1. Hears(s) /\ inbox'[s] = inbox[s]
    BY <1>3
  <2>2. Len(inbox[s]) \in Nat
    BY DEF ListeningTypes, HeardHeights
  <2>3. CASE b \in Outstanding
    BY <1>3, <2>1, <2>3 DEF ListeningInv
  <2>4. CASE b.height = dbHeight
    BY <1>1, <2>1, <2>2, <2>4
  <2> QED BY <2>3, <2>4
<1> QED BY <1>2, <1>3 DEF ListeningInv

(* Nothing is outstanding at the start. *)
LEMMA ListeningInvInit == InvalidatorInit => ListeningInv
<1> SUFFICES ASSUME InvalidatorInit PROVE ListeningInv
  OBVIOUS
<1>1. Outstanding = {}
  BY DEF InvalidatorInit, Init, Outstanding, CachedBodies, InFlightBodies, EmptyMap
<1> QED BY <1>1 DEF ListeningInv

(* Every step keeps what is outstanding announced to whoever listens. *)
LEMMA ListeningInvStep ==
  ListeningTypes /\ ListeningInv /\ [InvalidatorNext]_invalidatorVars => ListeningInv'
<1> SUFFICES ASSUME ListeningTypes, ListeningInv, [InvalidatorNext]_invalidatorVars
             PROVE  ListeningInv'
  OBVIOUS
<1>0. /\ MapInv /\ dbHeight \in Nat /\ Outstanding \subseteq Bodies
      /\ session \in [Sessions -> SessionStates]
      /\ inbox \in [Sessions -> Seq(1 .. dbHeight)]
  BY OutstandingTypes DEF ListeningTypes, MapInv, TypeOK, Heights, HeardHeights, ListenInv
<1>1. CASE NewBlock
  <2>1. dbHeight' = dbHeight + 1 /\ UNCHANGED <<cache, phase, body, session, severed>>
    BY <1>1 DEF NewBlock, CommitBlock, requestVars
  <2>2. Outstanding' = Outstanding
    BY <2>1 DEF Outstanding, CachedBodies, InFlightBodies
  <2>3. \A b \in Outstanding : b.height \in Nat
    BY <1>0 DEF Bodies, Heights
  <2>4. \A b \in Outstanding' : b.height =< dbHeight'
    BY <1>0, <2>1, <2>2, <2>3 DEF ListeningInv
  <2>5. ASSUME NEW s \in Sessions, Hears(s)', NEW b \in Outstanding', ~ b.spanned
        PROVE  dbHeight' =< b.height + Len(inbox'[s])
    <3>1. Hears(s)
      BY <2>1, <2>5 DEF Hears
    <3>2. inbox'[s] = Append(inbox[s], dbHeight')
      BY <1>1, <3>1 DEF NewBlock, Hears, Subscribed
    <3>3. inbox[s] \in Seq(1 .. dbHeight)
      BY <1>0
    <3>4. Len(inbox'[s]) = Len(inbox[s]) + 1 /\ Len(inbox[s]) \in Nat
      BY <3>2, <3>3
    <3>5. dbHeight =< b.height + Len(inbox[s])
      BY <2>2, <2>5, <3>1 DEF ListeningInv
    <3>6. b.height \in Nat
      BY <2>2, <2>3
    <3> QED BY <1>0, <2>1, <3>4, <3>5, <3>6
  <2> QED BY <2>4, <2>5 DEF ListeningInv
<1>2. ASSUME UNCHANGED <<dbHeight, cache, phase, body>>,
             \A s \in Sessions : Hears(s)' => Hears(s) /\ inbox'[s] = inbox[s]
      PROVE  ListeningInv'
  <2>1. Outstanding' = Outstanding
    BY <1>2 DEF Outstanding, CachedBodies, InFlightBodies
  <2> QED BY <1>2, <2>1, QuietKeepsListening
<1>3. ASSUME NEW r \in Requests, ServeRequest(r) PROVE ListeningInv'
  <2>1. \A s \in Sessions : Hears(s)' => Hears(s) /\ inbox'[s] = inbox[s]
    BY <1>3 DEF ServeRequest, sessionVars, Hears
  <2>2. Serve(r)
    BY <1>3 DEF ServeRequest
  <2> QED BY <1>0, <2>1, <2>2, ServeOutstanding, QuietKeepsListening
<1>4. ASSUME NEW t \in Sessions, Listen(t) PROVE ListeningInv'
  <2>1. CASE Reconnect(t) \/ ConnectSucceeds(t) \/ ListenExecuted(t) \/ ListenRejected(t)
    <3>1. \A s \in Sessions : Hears(s)' => Hears(s) /\ inbox'[s] = inbox[s]
      BY <1>0, <2>1
      DEF Hears, Reconnect, ConnectSucceeds, ListenExecuted, ListenRejected, SessionStates
    <3>2. UNCHANGED <<dbHeight, cache, phase, body>>
      BY <2>1 DEF Reconnect, ConnectSucceeds, ListenExecuted, ListenRejected, vars
    <3> QED BY <1>2, <3>1, <3>2
  <2>2. CASE ConnectFails(t) \/ Sever(t)
    <3>1. \A s \in Sessions : Hears(s)' => Hears(s) /\ inbox'[s] = inbox[s]
      BY <1>0, <2>2 DEF Hears, ConnectFails, Sever, CloseSession
    <3>2. UNCHANGED <<dbHeight, cache, phase, body>>
      BY <2>2 DEF ConnectFails, Sever, vars
    <3> QED BY <1>2, <3>1, <3>2
  <2>3. CASE ListenAnswered(t) \/ ConnectionError(t)
    BY <1>0, <2>3, FlushKeepsListening DEF ListenAnswered, ConnectionError, Relisten
  <2>4. CASE Deliver(t)
    BY <1>0, <2>4, FlushKeepsListening DEF Deliver, Notified
  <2> QED BY <1>4, <2>1, <2>2, <2>3, <2>4 DEF Listen
<1>5. ASSUME NEW p \in Polls, Poll(p) PROVE ListeningInv'
  <2>1. \A s \in Sessions : Hears(s)' => Hears(s) /\ inbox'[s] = inbox[s]
    BY <1>5 DEF Poll, PollRead, PollAnswered, PollFails, sessionVars, Hears
  <2>2. CASE PollRead(p) \/ PollFails(p)
    BY <1>2, <2>1, <2>2 DEF PollRead, PollFails, vars
  <2>3. CASE PollAnswered(p)
    <3>1. UNCHANGED <<dbHeight, phase>>
      BY <2>3 DEF PollAnswered, Polled
    <3>2. CASE ClearBlockCache
      BY <1>0, <3>1, <3>2, FlushKeepsListening
    <3>3. CASE UNCHANGED <<cache, body>>
      BY <1>2, <2>1, <3>1, <3>3
    <3> QED BY <2>3, <3>2, <3>3 DEF PollAnswered, Polled
  <2> QED BY <1>5, <2>2, <2>3 DEF Poll
<1>6. CASE UNCHANGED invalidatorVars
  BY <1>2, <1>6 DEF invalidatorVars, vars, sessionVars, Hears
<1> QED BY <1>1, <1>3, <1>4, <1>5, <1>6 DEF InvalidatorNext

(* The listener's variables keep their types. *)
LEMMA ListeningTypesAlways == InvalidatorSpec => []ListeningTypes
<1>1. InvalidatorInit => ListeningTypes
  BY MapInvInit, HeardHeightsInit, ListenInvInit DEF InvalidatorInit, ListeningTypes
<1>2. ListeningTypes /\ [InvalidatorNext]_invalidatorVars => ListeningTypes'
  BY StepRefines, MapInvStep, HeardHeightsStep, ListenInvStep DEF ListeningTypes
<1> QED BY <1>1, <1>2, PTL DEF InvalidatorSpec

(***************************************************************************)
(* block-cache.ts:172-173: no response, cached or on its way, that a flush *)
(* has not overtaken misses more blocks than there are notifications on    *)
(* their way to a session that hears of them.                              *)
(***************************************************************************)
THEOREM ListeningInvAlways == InvalidatorSpec => []ListeningInv
BY ListeningTypesAlways, ListeningInvInit, ListeningInvStep, PTL DEF InvalidatorSpec

(***************************************************************************)
(* block-cache.ts:22-23 and :172-173: a session that listens and has       *)
(* nothing on its way keeps the whole cache at the last block, whatever    *)
(* was committed around its reconnects.                                    *)
(***************************************************************************)
THEOREM ListeningMeansFreshAlways == InvalidatorSpec => []ListeningMeansFresh
<1>1. ListeningTypes /\ ListeningInv => ListeningMeansFresh
  <2> SUFFICES ASSUME ListeningTypes, ListeningInv,
                      NEW s \in Sessions, Hears(s), inbox[s] = << >>,
                      NEW b \in CachedBodies, ~ b.spanned
               PROVE  b.height = dbHeight
    BY DEF ListeningMeansFresh
  <2>1. b \in Outstanding /\ b \in Bodies /\ dbHeight \in Nat
    BY OutstandingTypes DEF ListeningTypes, MapInv, TypeOK, Heights, Outstanding
  <2>2. b.height \in Nat
    BY <2>1 DEF Bodies, Heights
  <2>3. dbHeight =< b.height + Len(inbox[s]) /\ Len(inbox[s]) = 0
    BY <2>1 DEF ListeningInv
  <2>4. b.height =< dbHeight
    BY <2>1 DEF ListeningInv
  <2> QED BY <2>1, <2>2, <2>3, <2>4
<1> QED BY <1>1, ListeningTypesAlways, ListeningInvAlways, PTL

-----------------------------------------------------------------------------
(* The types that no invariant above speaks of *)
ReconnectTypes ==
  /\ severed \in SUBSET Sessions
  /\ reconnectTimer \in {"off", "short", "long"}
  /\ attempts \in 0 .. 3

(* The types survive every step. *)
LEMMA ReconnectTypesStep ==
  ReconnectTypes /\ [InvalidatorNext]_invalidatorVars => ReconnectTypes'
<1> SUFFICES ASSUME ReconnectTypes, [InvalidatorNext]_invalidatorVars PROVE ReconnectTypes'
  OBVIOUS
<1>1. CASE UNCHANGED <<severed, reconnectVars>>
  BY <1>1 DEF ReconnectTypes, reconnectVars
<1>2. CASE NewBlock \/ \E r \in Requests : ServeRequest(r)
  BY <1>1, <1>2 DEF NewBlock, ServeRequest, sessionVars
<1>3. ASSUME NEW s \in Sessions, Listen(s) PROVE ReconnectTypes'
  BY <1>3 DEF ReconnectTypes, Listen, Reconnect, ConnectSucceeds, ConnectFails, ListenExecuted,
              ListenRejected, ListenAnswered, Deliver, Sever, ConnectionError,
              CloseSession, ScheduleReconnect, reconnectVars
<1>4. CASE \E p \in Polls : Poll(p)
  BY <1>1, <1>4 DEF Poll, PollRead, PollAnswered, PollFails, sessionVars
<1>5. CASE UNCHANGED invalidatorVars
  BY <1>1, <1>5 DEF invalidatorVars, sessionVars
<1> QED BY <1>2, <1>3, <1>4, <1>5 DEF InvalidatorNext

(* The variables of the invalidator keep their types. *)
THEOREM InvalidatorTypeCorrect == InvalidatorSpec => []InvalidatorTypeOK
<1>1. InvalidatorInit => ReconnectTypes
  BY DEF InvalidatorInit, ReconnectTypes
<1>2. InvalidatorSpec => []ReconnectTypes
  BY <1>1, ReconnectTypesStep, PTL DEF InvalidatorSpec
<1>3. ListeningTypes /\ ReconnectTypes => InvalidatorTypeOK
  <2> SUFFICES ASSUME ListeningTypes, ReconnectTypes PROVE InvalidatorTypeOK
    OBVIOUS
  <2>1. dbHeight \in Nat /\ dbHeight =< MaxHeight /\ MaxHeight \in Nat
    BY MaxHeightAssumption DEF ListeningTypes, HeardHeights, Heights
  <2>2. inbox \in [Sessions -> Seq(Heights)]
    <3>1. \A i \in 1 .. dbHeight : i \in Heights
      BY <2>1 DEF Heights
    <3>2. \A s \in Sessions : inbox[s] \in Seq(Heights)
      BY <3>1, SeqMonotonic DEF ListeningTypes, HeardHeights
    <3> QED BY <3>2 DEF ListeningTypes, HeardHeights
  <2>3. poll \in [Polls -> 0 .. NoPoll]
    BY <2>1 DEF ListeningTypes, HeardHeights, NoPoll
  <2> QED BY <2>2, <2>3
      DEF InvalidatorTypeOK, ListeningTypes, ReconnectTypes, MapInv, ListenInv
<1> QED BY <1>2, <1>3, ListeningTypesAlways, PTL

=============================================================================
