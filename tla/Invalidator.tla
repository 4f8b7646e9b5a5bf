------------------------------- MODULE Invalidator -------------------------------
(***************************************************************************)
(* startBlockCacheInvalidator of cache/block-cache.ts: how the process     *)
(* that holds the cache of BlockCache hears of blocks.  A dedicated        *)
(* session LISTENs for the notifications that a trigger on "Chain" sends   *)
(* when the indexer commits, and a timer polls the height as a backstop.   *)
(***************************************************************************)
EXTENDS BlockCache

CONSTANTS
  Sessions,          \* bound: the sessions that can be open at one time
  Polls,             \* bound: the polls that can be under way at one time
  TriggerInstalled   \* whether scripts/block-notify-trigger.sql was applied

ASSUME TriggerInstalledAssumption == TriggerInstalled \in BOOLEAN

VARIABLES
  session,         \* the state of each session, see SessionStates
  severed,         \* sessions whose peer is gone, which the client cannot tell
  inbox,           \* notifications on their way to each session
  reconnectTimer,  \* off, or running with the delay of 2 s or of 30 s
  attempts,        \* consecutive connects without a LISTEN, counted up to 3
  poll             \* what each poll under way has read, or NoPoll

sessionVars    == <<session, severed, inbox>>
reconnectVars  == <<reconnectTimer, attempts>>
invalidatorVars == <<vars, sessionVars, reconnectVars, poll>>

(***************************************************************************)
(*   connecting   client.connect() is pending                              *)
(*   subscribing  LISTEN is sent                                           *)
(*   registered   the server has executed LISTEN, the client has not       *)
(*                resumed from its await                                   *)
(*   listening    the client has resumed                                   *)
(*   rejected     LISTEN failed; nothing ends the client                   *)
(***************************************************************************)
SessionStates ==
  {"none", "connecting", "subscribing", "registered", "listening", "rejected"}

NoPoll == MaxHeight + 1

Subscribed(s) == session[s] \in {"registered", "listening"}

InvalidatorInit ==
  /\ Init
  /\ \E s \in Sessions :
       session = [t \in Sessions |-> IF t = s THEN "connecting" ELSE "none"]
  /\ severed = {}
  /\ inbox = [s \in Sessions |-> << >>]
  /\ reconnectTimer = "off" /\ attempts = 1
  /\ poll = [p \in Polls |-> NoPoll]

-----------------------------------------------------------------------------
(* Mutant of NewBlock: the trigger announces the block to come. *)
NewBlockAnnouncesNext ==
  /\ CommitBlock
  /\ inbox' = [s \in Sessions |->
                 IF TriggerInstalled /\ Subscribed(s) /\ s \notin severed
                 THEN Append(inbox[s], dbHeight' + 1) ELSE inbox[s]]
  /\ UNCHANGED <<session, severed, reconnectVars, poll>>

(* The indexer's commit, and what the trigger sends with it. *)
NewBlock ==
  /\ CommitBlock
  /\ inbox' = [s \in Sessions |->
                 IF TriggerInstalled /\ Subscribed(s) /\ s \notin severed
                 THEN Append(inbox[s], dbHeight') ELSE inbox[s]]
  /\ UNCHANGED <<session, severed, reconnectVars, poll>>

(* A request is served; the invalidator has no part in it. *)
ServeRequest(r) == Serve(r) /\ UNCHANGED <<sessionVars, reconnectVars, poll>>

-----------------------------------------------------------------------------
(* Mutant of ScheduleReconnect: gives up after three attempts. *)
ScheduleThreeTimes ==
  reconnectTimer' = IF attempts < 3 THEN "short" ELSE reconnectTimer

ScheduleReconnect ==
  reconnectTimer' = IF reconnectTimer # "off" THEN reconnectTimer
                    ELSE IF attempts < 3 THEN "short" ELSE "long"

CloseSession(s) ==
  /\ session' = [session EXCEPT ![s] = "none"]
  /\ inbox' = [inbox EXCEPT ![s] = << >>]
  /\ severed' = severed \ {s}

(* The timer fires and connect() opens a new client. *)
Reconnect(s) ==
  /\ reconnectTimer # "off" /\ session[s] = "none"
  /\ reconnectTimer' = "off"
  /\ attempts' = IF attempts < 3 THEN attempts + 1 ELSE attempts
  /\ session' = [session EXCEPT ![s] = "connecting"]
  /\ UNCHANGED <<vars, severed, inbox, poll>>

ConnectSucceeds(s) ==
  /\ session[s] = "connecting" /\ s \notin severed
  /\ session' = [session EXCEPT ![s] = "subscribing"]
  /\ UNCHANGED <<vars, severed, inbox, reconnectVars, poll>>

ConnectFails(s) ==
  /\ session[s] = "connecting"
  /\ CloseSession(s)
  /\ ScheduleReconnect
  /\ UNCHANGED <<vars, attempts, poll>>

(* The server executes LISTEN: from here on it sends notifications. *)
ListenExecuted(s) ==
  /\ session[s] = "subscribing" /\ s \notin severed
  /\ session' = [session EXCEPT ![s] = "registered"]
  /\ UNCHANGED <<vars, severed, inbox, reconnectVars, poll>>

ListenRejected(s) ==
  /\ session[s] = "subscribing" /\ s \notin severed
  /\ session' = [session EXCEPT ![s] = "rejected"]
  /\ ScheduleReconnect
  /\ UNCHANGED <<vars, severed, inbox, attempts, poll>>

(* Mutant of ListenAnswered: trusts what was cached before LISTEN. *)
ListenAnsweredWithoutFlush(s) ==
  /\ session[s] = "registered" /\ s \notin severed
  /\ session' = [session EXCEPT ![s] = "listening"]
  /\ attempts' = 0
  /\ UNCHANGED <<vars, severed, inbox, reconnectTimer, poll>>

(* await client.query(LISTEN) resumes. *)
ListenAnswered(s) ==
  /\ session[s] = "registered" /\ s \notin severed
  /\ session' = [session EXCEPT ![s] = "listening"]
  /\ attempts' = 0
  /\ Relisten
  /\ UNCHANGED <<severed, inbox, reconnectTimer, poll>>

(* Mutant of Deliver: remembers the height and flushes nothing. *)
DeliverKnown(s) ==
  /\ Subscribed(s) /\ s \notin severed /\ inbox[s] # << >>
  /\ lastSeenHeight' = Head(inbox[s])
  /\ UNCHANGED <<dbHeight, cache, requestVars, statVars>>
  /\ inbox' = [inbox EXCEPT ![s] = Tail(inbox[s])]
  /\ UNCHANGED <<session, severed, reconnectVars, poll>>

(***************************************************************************)
(* A notification reaches the client.  It may share a packet with the      *)
(* answer to LISTEN, and is then handled before the await resumes.         *)
(***************************************************************************)
Deliver(s) ==
  /\ Subscribed(s) /\ s \notin severed /\ inbox[s] # << >>
  /\ Notified(Head(inbox[s]))
  /\ inbox' = [inbox EXCEPT ![s] = Tail(inbox[s])]
  /\ UNCHANGED <<session, severed, reconnectVars, poll>>

(***************************************************************************)
(* The peer vanishes without a word (a failover, a NAT entry that expired).*)
(* The client has no keep-alive and no timeout to notice it by.            *)
(***************************************************************************)
Sever(s) ==
  /\ session[s] # "none" /\ s \notin severed
  /\ severed' = severed \cup {s}
  /\ inbox' = [inbox EXCEPT ![s] = << >>]
  /\ UNCHANGED <<vars, session, reconnectVars, poll>>

(***************************************************************************)
(* The client's 'error' event: flush, end the client, schedule.  When it   *)
(* interrupts LISTEN, the catch of connect() also schedules, to no effect. *)
(***************************************************************************)
ConnectionError(s) ==
  /\ session[s] \in {"subscribing", "registered", "listening", "rejected"}
  /\ CloseSession(s)
  /\ ScheduleReconnect
  /\ Relisten
  /\ UNCHANGED <<attempts, poll>>

-----------------------------------------------------------------------------
(* setInterval starts a poll whether or not the last one has returned. *)
PollRead(p) ==
  /\ poll[p] = NoPoll
  /\ poll' = [poll EXCEPT ![p] = dbHeight]
  /\ UNCHANGED <<vars, sessionVars, reconnectVars>>

PollAnswered(p) ==
  /\ poll[p] # NoPoll
  /\ Polled(poll[p])
  /\ poll' = [poll EXCEPT ![p] = NoPoll]
  /\ UNCHANGED <<sessionVars, reconnectVars>>

PollFails(p) ==
  /\ poll[p] # NoPoll
  /\ poll' = [poll EXCEPT ![p] = NoPoll]
  /\ UNCHANGED <<vars, sessionVars, reconnectVars>>

-----------------------------------------------------------------------------
Listen(s) ==
  \/ Reconnect(s) \/ ConnectSucceeds(s) \/ ConnectFails(s)
  \/ ListenExecuted(s) \/ ListenRejected(s) \/ ListenAnswered(s)
  \/ Deliver(s) \/ Sever(s) \/ ConnectionError(s)

Poll(p) == PollRead(p) \/ PollAnswered(p) \/ PollFails(p)

InvalidatorNext ==
  \/ NewBlock
  \/ \E r \in Requests : ServeRequest(r)
  \/ \E s \in Sessions : Listen(s)
  \/ \E p \in Polls : Poll(p)

InvalidatorSpec == InvalidatorInit /\ [][InvalidatorNext]_invalidatorVars

(***************************************************************************)
(* setInterval keeps firing while the server runs, and the database does   *)
(* not fail every poll for ever.  Nothing is assumed of the LISTEN session,*)
(* of the trigger, of the indexer or of the requests.                      *)
(***************************************************************************)
PollFairness ==
  \A p \in Polls : WF_invalidatorVars(PollRead(p)) /\ SF_invalidatorVars(PollAnswered(p))

FairInvalidatorSpec == InvalidatorSpec /\ PollFairness

-----------------------------------------------------------------------------
(* Type invariant. *)
InvalidatorTypeOK ==
  /\ TypeOK
  /\ session \in [Sessions -> SessionStates]
  /\ severed \in SUBSET Sessions
  /\ inbox \in [Sessions -> Seq(Heights)]
  /\ reconnectTimer \in {"off", "short", "long"}
  /\ attempts \in 0 .. 3
  /\ poll \in [Polls -> 0 .. NoPoll]

(***************************************************************************)
(* What the polls and the sessions carry are heights the database had: the *)
(* invalidator implements BlockCache, where a notification or a poll may   *)
(* bring any such height at any time.                                      *)
(***************************************************************************)
ImplementsBlockCache == Spec

(* The process has resumed from LISTEN, and notifications reach it. *)
Hears(s) == TriggerInstalled /\ session[s] = "listening" /\ s \notin severed

(***************************************************************************)
(* block-cache.ts:22-23 and :172-173: once LISTEN is answered, and while   *)
(* no notification is on its way, every response in the cache shows the    *)
(* last block, those read before the first block was heard of included;    *)
(* nothing committed around a reconnect is missed.  Responses that a flush *)
(* overtook are the exception (see OvertakenEntriesCovered).               *)
(***************************************************************************)
ListeningMeansFresh ==
  \A s \in Sessions :
    Hears(s) /\ inbox[s] = << >> => \A b \in CachedBodies : ~ b.spanned => b.height = dbHeight

(***************************************************************************)
(* What makes ListeningMeansFresh inductive: responses in flight count as  *)
(* well, and none misses more blocks than are on their way to a session    *)
(* that hears of them.                                                     *)
(***************************************************************************)
Outstanding == CachedBodies \cup InFlightBodies

ListeningInv ==
  /\ \A b \in Outstanding : b.height =< dbHeight
  /\ \A s \in Sessions : Hears(s) =>
       \A b \in Outstanding : ~ b.spanned => dbHeight =< b.height + Len(inbox[s])

(***************************************************************************)
(* block-cache.ts:135-179: on every path out of connect() and of the error *)
(* handler, in any order and for any number of sessions, a session is      *)
(* being opened or is open, or the timer that opens one is running.        *)
(***************************************************************************)
ListenerNeverGivenUp ==
  \/ reconnectTimer # "off"
  \/ \E s \in Sessions : session[s] \notin {"none", "rejected"}

(* key k is cached with a response that does not show the last block. *)
Stale(k) ==
  \E i \in DOMAIN cache : /\ cache[i].key = k
                          /\ cache[i].val.height < dbHeight
                          /\ ~ cache[i].val.spanned /\ ~ cache[i].val.blind

(***************************************************************************)
(* block-cache.ts:20-21: with no trigger and no LISTEN session, through    *)
(* polls that overlap, fail and answer late, a stale response does not     *)
(* stay in the cache for good.                                             *)
(***************************************************************************)
PollsBoundStaleness == \A k \in Keys : Stale(k) ~> ~ Stale(k)

=============================================================================
