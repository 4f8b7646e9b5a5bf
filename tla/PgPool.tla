---------------------------------- MODULE PgPool ----------------------------------
(***************************************************************************)
(* The two connection pools (db.ts and core-db.ts) under connections that  *)
(* are cut at any moment.  A client of pg is an event emitter: when its    *)
(* connection is lost it emits an error, which ends the process if nobody  *)
(* listens.  pg-pool listens while a client is idle or connecting, and     *)
(* stops to while it is checked out.                                       *)
(*                                                                         *)
(* A client is a place in its pool, taken or not.  Users are the requests, *)
(* loaders and PostGraphile's transactions that check clients out.         *)
(***************************************************************************)
EXTENDS Naturals, FiniteSets

CONSTANTS
  MainClients, CoreClients,   \* the places, as many as max
  MainUsers, CoreUsers

ASSUME PoolAssumption ==
  /\ MainClients \cap CoreClients = {} /\ MainUsers \cap CoreUsers = {}

Clients == MainClients \cup CoreClients
Users   == MainUsers \cup CoreUsers

VARIABLES
  client,      \* the state of each place
  cut,         \* whether its connection is lost
  broken,      \* whether a client that is checked out has emitted its error
  listeners,   \* for the errors of each client: the pool's, and the process's own
  user,        \* what each user does
  holds,       \* the client it waits to be connected or has checked out
  crashed      \* an error event had no listener

poolVars == <<client, cut, broken, listeners, user, holds, crashed>>

ClientPlaces == {"none", "connecting", "idle", "held"}
UserStates   == {"away", "queued", "opening", "holding"}

PoolInit ==
  /\ client = [c \in Clients |-> "none"]
  /\ cut = [c \in Clients |-> FALSE]
  /\ broken = [c \in Clients |-> FALSE]
  /\ listeners = [c \in Clients |-> {}]
  /\ user = [u \in Users |-> "away"]
  /\ holds = [u \in Users |-> {}]
  /\ crashed = FALSE

-----------------------------------------------------------------------------
(* Mutant of PoolOf: the core service draws from the main pool as well. *)
PoolOfAll(u) == MainClients

(* The places of the pool that u draws from *)
PoolOf(u) == IF u \in MainUsers THEN MainClients ELSE CoreClients

(* Mutant of OnConnect: no listener of the process's own. *)
OnConnectNothing == {}

(* pool.on("connect"): a listener for as long as the client lives *)
OnConnect == {"process"}

(* pool.on("error"): there is a listener for what idle clients emit. *)
OnPoolError == TRUE

Free(c) ==
  /\ client' = [client EXCEPT ![c] = "none"]
  /\ cut' = [cut EXCEPT ![c] = FALSE]
  /\ broken' = [broken EXCEPT ![c] = FALSE]
  /\ listeners' = [listeners EXCEPT ![c] = {}]

Wait(u) ==
  /\ user[u] = "away"
  /\ user' = [user EXCEPT ![u] = "queued"]
  /\ UNCHANGED <<client, cut, broken, listeners, holds, crashed>>

(* newClient, when no client is idle and there is a place left *)
Open(u, c) ==
  /\ user[u] = "queued" /\ c \in PoolOf(u) /\ client[c] = "none"
  /\ \A d \in PoolOf(u) : client[d] # "idle"
  /\ user' = [user EXCEPT ![u] = "opening"]
  /\ holds' = [holds EXCEPT ![u] = {c}]
  /\ client' = [client EXCEPT ![c] = "connecting"]
  /\ listeners' = [listeners EXCEPT ![c] = {"pool"}]
  /\ UNCHANGED <<cut, broken, crashed>>

(* connect is emitted, and the pool's listener taken off. *)
Connected(u, c) ==
  /\ user[u] = "opening" /\ holds[u] = {c}
  /\ user' = [user EXCEPT ![u] = "holding"]
  /\ client' = [client EXCEPT ![c] = "held"]
  /\ listeners' = [listeners EXCEPT ![c] = (@ \cup OnConnect) \ {"pool"}]
  /\ UNCHANGED <<cut, broken, holds, crashed>>

(* Refused, or not connected in time *)
ConnectFails(u, c) ==
  /\ user[u] = "opening" /\ holds[u] = {c}
  /\ user' = [user EXCEPT ![u] = "away"]
  /\ holds' = [holds EXCEPT ![u] = {}]
  /\ Free(c)
  /\ UNCHANGED crashed

CheckOut(u, c) ==
  /\ user[u] = "queued" /\ c \in PoolOf(u) /\ client[c] = "idle"
  /\ user' = [user EXCEPT ![u] = "holding"]
  /\ holds' = [holds EXCEPT ![u] = {c}]
  /\ client' = [client EXCEPT ![c] = "held"]
  /\ listeners' = [listeners EXCEPT ![c] = @ \ {"pool"}]
  /\ UNCHANGED <<cut, broken, crashed>>

(* connectionTimeoutMillis *)
GiveUp(u) ==
  /\ user[u] = "queued"
  /\ user' = [user EXCEPT ![u] = "away"]
  /\ UNCHANGED <<client, cut, broken, listeners, holds, crashed>>

(* The pool discards a client it knows to be broken. *)
Release(u, c) ==
  /\ user[u] = "holding" /\ holds[u] = {c}
  /\ user' = [user EXCEPT ![u] = "away"]
  /\ holds' = [holds EXCEPT ![u] = {}]
  /\ IF broken[c] THEN Free(c)
     ELSE /\ client' = [client EXCEPT ![c] = "idle"]
          /\ listeners' = [listeners EXCEPT ![c] = @ \cup {"pool"}]
          /\ UNCHANGED <<cut, broken>>
  /\ UNCHANGED crashed

(* idleTimeoutMillis *)
IdleTimeout(c) ==
  /\ client[c] = "idle"
  /\ Free(c)
  /\ UNCHANGED <<user, holds, crashed>>

(* The database, a proxy or a tunnel drops the connection, *)
Cut(c) ==
  /\ client[c] \in {"idle", "held"} /\ ~ cut[c]
  /\ cut' = [cut EXCEPT ![c] = TRUE]
  /\ UNCHANGED <<client, broken, listeners, user, holds, crashed>>

(* and the client emits an error.  The pool drops it if it is idle, and    *)
(* emits an error of its own.                                              *)
ClientError(c) ==
  /\ cut[c] /\ ~ broken[c]
  /\ crashed' = \/ crashed
                \/ listeners[c] = {}
                \/ "pool" \in listeners[c] /\ ~ OnPoolError
  /\ IF "pool" \in listeners[c] THEN Free(c)
     ELSE /\ broken' = [broken EXCEPT ![c] = TRUE]
          /\ UNCHANGED <<client, cut, listeners>>
  /\ UNCHANGED <<user, holds>>

-----------------------------------------------------------------------------
PoolNext ==
  \/ \E u \in Users : Wait(u) \/ GiveUp(u)
  \/ \E u \in Users, c \in Clients :
       Open(u, c) \/ Connected(u, c) \/ ConnectFails(u, c) \/ CheckOut(u, c) \/ Release(u, c)
  \/ \E c \in Clients : IdleTimeout(c) \/ Cut(c) \/ ClientError(c)

PoolSpec == PoolInit /\ [][PoolNext]_poolVars

(***************************************************************************)
(* Connecting ends, one way or the other, the users of the main pool       *)
(* release what they have checked out, as query_timeout sees to it, and    *)
(* the pool serves its queue in order.  Nothing of the kind is said of the *)
(* users of the core pool.                                                 *)
(***************************************************************************)
PoolFairness ==
  \A u \in MainUsers :
    /\ WF_poolVars(\E c \in Clients : Connected(u, c) \/ ConnectFails(u, c))
    /\ WF_poolVars(\E c \in Clients : Release(u, c))
    /\ SF_poolVars(\E c \in Clients : Open(u, c) \/ CheckOut(u, c))

FairPoolSpec == PoolSpec /\ PoolFairness

-----------------------------------------------------------------------------
(* Type invariant. *)
PoolTypeOK ==
  /\ client \in [Clients -> ClientPlaces]
  /\ cut \in [Clients -> BOOLEAN] /\ broken \in [Clients -> BOOLEAN]
  /\ listeners \in [Clients -> SUBSET {"pool", "process"}]
  /\ user \in [Users -> UserStates]
  /\ holds \in [Users -> SUBSET Clients]
  /\ crashed \in BOOLEAN

(***************************************************************************)
(* db.ts:27-41: "An errored idle client must never crash the process", and *)
(* one that is killed while it is checked out has a handler for its error: *)
(* at whatever moment connections are lost, the process goes on.           *)
(***************************************************************************)
NeverCrashes == ~ crashed

(***************************************************************************)
(* core-db.ts:5-7: "Kept separate from the main pool so core-DB slowness   *)
(* can never starve regular GraphQL traffic": a user of the main pool gets *)
(* its turn without the users of the core pool ever releasing theirs.  It  *)
(* may leave the queue by giving up or to a connection that fails, too,    *)
(* but nothing in PoolFairness makes it give up: without a place, or one   *)
(* that comes free, it could wait for ever.                                *)
(***************************************************************************)
MainIsServed == \A u \in MainUsers : user[u] = "queued" ~> user[u] # "queued"

=============================================================================
