----------------------------- MODULE UpstreamsProofs -----------------------------
(***************************************************************************)
(* The process towards what it depends on: the gateway, the chain's client,*)
(* the chain's queries and the database pools, which MC_Upstreams checks   *)
(* side by side.                                                           *)
(***************************************************************************)
EXTENDS IpfsProxy, TokenomicsClient, ChainSupply, PgPool, DataLemmas

-----------------------------------------------------------------------------
(***************************************************************************)
(* The bound on what the gateway is asked in a minute, for any number of   *)
(* downloads and whatever limit and number of retries.                     *)
(***************************************************************************)

ProxyTypes ==
  /\ step \in [Downloads -> Steps]
  /\ tries \in [Downloads -> 0 .. Retries]
  /\ tokens \in 0 .. Limit
  /\ arrived \in Nat
  /\ \A d \in Downloads :
       /\ step[d] \in {"waiting", "sleeping"} => tries[d] = 0
       /\ step[d] = "repeating" => tries[d] # 0

(* The requests axios-retry may yet make of d's current call *)
LeftOf(d) ==
  CASE step[d] = "asking"    -> Retries - tries[d]
    [] step[d] = "repeating" -> Retries - tries[d] + 1
    [] OTHER                 -> 0

(* They are counted as a set of pairs, so that no sum is needed. *)
Left == {p \in Downloads \X (1 .. Retries) : p[2] =< LeftOf(p[1])}

Allowance == (Limit - tokens) * (Retries + 1) + Cardinality(Downloads) * Retries

(***************************************************************************)
(* What has arrived and what may yet arrive without another token, is paid *)
(* for by the tokens taken, or is left of the minute before.               *)
(***************************************************************************)
ArrivalsInv == ProxyTypes /\ arrived + Cardinality(Left) =< Allowance

-----------------------------------------------------------------------------

(* The pairs of a download and a retry are finitely many. *)
LEMMA AllPairs ==
  /\ IsFiniteSet(Downloads \X (1 .. Retries))
  /\ Cardinality(Downloads \X (1 .. Retries)) = Cardinality(Downloads) * Retries
  /\ Cardinality(Downloads) * Retries \in Nat
<1>1. IsFiniteSet(1 .. Retries) /\ Cardinality(1 .. Retries) = Retries
  BY FS_Interval, ProxyAssumption
<1>2. IsFiniteSet(Downloads) /\ Cardinality(Downloads) \in Nat
  BY FS_CardinalityType, ProxyAssumption
<1>3. Cardinality(Downloads \X (1 .. Retries)) = Cardinality(Downloads) * Retries
      /\ IsFiniteSet(Downloads \X (1 .. Retries))
  BY <1>1, <1>2, FS_Product
<1>4. Cardinality(Downloads \X (1 .. Retries)) \in Nat
  BY <1>3, FS_CardinalityType
<1> QED BY <1>3, <1>4

(* Each download has at most its retries left. *)
LEMMA LeftBound ==
  /\ IsFiniteSet(Left)
  /\ Cardinality(Left) \in Nat
  /\ Cardinality(Left) =< Cardinality(Downloads) * Retries
<1>1. Left \in SUBSET (Downloads \X (1 .. Retries))
  BY DEF Left
<1>2. IsFiniteSet(Left) /\ Cardinality(Left) =< Cardinality(Downloads \X (1 .. Retries))
  BY <1>1, AllPairs, FS_Subset
<1> QED BY <1>2, AllPairs, FS_CardinalityType

(* The same, of the next state. *)
LEMMA LeftBoundNext ==
  /\ IsFiniteSet(Left')
  /\ Cardinality(Left') \in Nat
  /\ Cardinality(Left') =< Cardinality(Downloads) * Retries
<1>1. Left' \in SUBSET (Downloads \X (1 .. Retries))
  BY DEF Left
<1>2. IsFiniteSet(Left') /\ Cardinality(Left') =< Cardinality(Downloads \X (1 .. Retries))
  BY <1>1, AllPairs, FS_Subset
<1> QED BY <1>2, AllPairs, FS_CardinalityType

(* A token more pays for a request and its retries. *)
LEMMA AllowanceOfToken ==
  ASSUME NEW n \in Nat, NEW c \in Nat
  PROVE  (n + 1) * c = n * c + c /\ n * c \in Nat
OBVIOUS

-----------------------------------------------------------------------------

(* At the start nothing has arrived and nothing is left. *)
LEMMA ArrivalsInit == ProxyInit => ArrivalsInv
<1> SUFFICES ASSUME ProxyInit PROVE ArrivalsInv
  OBVIOUS
<1>1. ProxyTypes
  BY ProxyAssumption DEF ProxyInit, ProxyTypes, Steps
<1>2. Left = {}
  BY <1>1, ProxyAssumption DEF ProxyInit, Left, LeftOf
<1>3. Cardinality(Left) = 0
  BY <1>2, FS_EmptySet
<1>4. (Limit - tokens) * (Retries + 1) = 0
  BY ProxyAssumption DEF ProxyInit
<1> QED BY <1>1, <1>3, <1>4, AllPairs DEF ArrivalsInv, Allowance, ProxyInit

(* Who takes a token has the whole of its retries before it. *)
LEMMA TakeTokenPreserves ==
  ASSUME ArrivalsInv, NEW d \in Downloads, TakeToken(d)
  PROVE  ArrivalsInv'
<1>1. /\ ProxyTypes /\ tries[d] = 0 /\ step[d] = "waiting"
      /\ tokens \in Nat /\ arrived \in Nat /\ tokens > 0
  BY ProxyAssumption DEF ArrivalsInv, ProxyTypes, TakeToken
<1>2. /\ step' = [step EXCEPT ![d] = "asking"] /\ tries' = tries
      /\ tokens' = tokens - 1 /\ arrived' = arrived + 1
  BY DEF TakeToken, Send
<1>3. ProxyTypes'
  BY <1>1, <1>2, ProxyAssumption DEF ProxyTypes, Steps
<1> DEFINE mine == {d} \X (1 .. Retries)
<1>4. IsFiniteSet(mine) /\ Cardinality(mine) = Retries
  <2>1. IsFiniteSet(1 .. Retries) /\ Cardinality(1 .. Retries) = Retries
    BY FS_Interval, ProxyAssumption
  <2>2. IsFiniteSet({d}) /\ Cardinality({d}) = 1
    BY FS_Singleton
  <2>3. Cardinality(mine) = 1 * Retries /\ IsFiniteSet(mine)
    BY <2>1, <2>2, FS_Product
  <2> QED BY <2>3, ProxyAssumption
<1>5. Left' \in SUBSET (Left \cup mine)
  BY <1>1, <1>2 DEF Left, LeftOf, ProxyTypes
<1>6. /\ IsFiniteSet(Left \cup mine)
      /\ Cardinality(Left \cup mine) =< Cardinality(Left) + Retries
  <2> HIDE DEF mine
  <2>1. /\ IsFiniteSet(Left \cup mine)
        /\ Cardinality(Left \cup mine) =
             Cardinality(Left) + Cardinality(mine) - Cardinality(Left \cap mine)
    BY <1>4, LeftBound, FS_Union
  <2>2. Cardinality(Left \cap mine) \in Nat
    BY <1>4, LeftBound, FS_Intersection, FS_CardinalityType
  <2> QED BY <1>4, <2>1, <2>2, LeftBound, ProxyAssumption
<1>7. Cardinality(Left') =< Cardinality(Left \cup mine)
  BY <1>5, <1>6, FS_Subset
<1>8. Cardinality(Left') =< Cardinality(Left) + Retries
  <2> HIDE DEF mine
  <2>1. Cardinality(Left \cup mine) \in Nat
    BY <1>6, FS_CardinalityType
  <2> QED BY <1>6, <1>7, <2>1, LeftBound, LeftBoundNext, ProxyAssumption
<1>9. /\ (Limit - tokens') * (Retries + 1) = (Limit - tokens) * (Retries + 1) + (Retries + 1)
      /\ (Limit - tokens) * (Retries + 1) \in Nat
  <2>1. Limit - tokens \in Nat /\ Limit - tokens' = (Limit - tokens) + 1
    BY <1>1, <1>2, ProxyAssumption DEF ProxyTypes
  <2> QED BY <2>1, AllowanceOfToken, ProxyAssumption
<1>10. arrived' + Cardinality(Left') =< Allowance'
  BY <1>1, <1>2, <1>8, <1>9, LeftBound, LeftBoundNext, AllPairs, ProxyAssumption
     DEF ArrivalsInv, Allowance
<1> QED BY <1>3, <1>10 DEF ArrivalsInv

(* A repetition was counted beforehand. *)
LEMMA RepeatPreserves ==
  ASSUME ArrivalsInv, NEW d \in Downloads, Repeat(d)
  PROVE  ArrivalsInv'
<1>1. /\ ProxyTypes /\ step[d] = "repeating" /\ tries[d] \in 1 .. Retries
      /\ arrived \in Nat
  BY ProxyAssumption DEF ArrivalsInv, ProxyTypes, Repeat
<1>2. /\ step' = [step EXCEPT ![d] = "asking"] /\ tries' = tries
      /\ tokens' = tokens /\ arrived' = arrived + 1
  BY DEF Repeat, Send
<1>3. ProxyTypes'
  BY <1>1, <1>2, ProxyAssumption DEF ProxyTypes, Steps
<1> DEFINE this == <<d, Retries - tries[d] + 1>>
<1>4. this \in Left
  BY <1>1, ProxyAssumption DEF Left, LeftOf
<1>5. Left' \in SUBSET (Left \ {this})
  <2> SUFFICES ASSUME NEW q \in Downloads, NEW n \in 1 .. Retries, <<q, n>> \in Left'
               PROVE  <<q, n>> \in Left /\ <<q, n>> # this
    BY DEF Left
  <2>1. n =< LeftOf(q)'
    BY DEF Left
  <2>2. CASE q = d
    <3>1. n =< Retries - tries[d]
      BY <1>1, <1>2, <2>1, <2>2 DEF LeftOf, ProxyTypes
    <3> QED BY <1>1, <2>2, <3>1, ProxyAssumption DEF Left, LeftOf
  <2>3. CASE q # d
    BY <1>1, <1>2, <2>1, <2>3 DEF Left, LeftOf, ProxyTypes
  <2> QED BY <2>2, <2>3
<1>6. IsFiniteSet(Left \ {this}) /\ Cardinality(Left \ {this}) = Cardinality(Left) - 1
  <2> HIDE DEF this
  <2> QED BY <1>4, LeftBound, FS_RemoveElement
<1>7. Cardinality(Left') =< Cardinality(Left) - 1
  <2> HIDE DEF this
  <2> QED BY <1>5, <1>6, FS_Subset
<1>8. Allowance' = Allowance
  BY <1>2 DEF Allowance
<1>9. Limit - tokens \in Nat
  BY <1>1, ProxyAssumption DEF ProxyTypes
<1>10. Allowance \in Nat
  BY <1>9, AllowanceOfToken, AllPairs, ProxyAssumption DEF Allowance
<1>11. arrived' + Cardinality(Left') =< Allowance'
  <2> HIDE DEF this
  <2> QED BY <1>1, <1>2, <1>7, <1>8, <1>10, LeftBound, LeftBoundNext DEF ArrivalsInv
<1> QED BY <1>3, <1>11 DEF ArrivalsInv

(* Other steps of a download leave no more of its call than there was. *)
LEMMA AnsweredPreserves ==
  ASSUME ArrivalsInv, NEW d \in Downloads, GatewayAnswers(d) \/ Wake(d)
  PROVE  ArrivalsInv'
<1>1. ProxyTypes /\ UNCHANGED <<tokens, arrived>>
  BY DEF ArrivalsInv, GatewayAnswers, Found, NotFound, Broken, TooMany, RepeatLater, Reply,
         StartOver, Wake
<1>2. ProxyTypes' /\ Left' \in SUBSET Left
  <2>1. CASE step[d] = "asking" /\ RepeatLater(d)
    <3>1. /\ step' = [step EXCEPT ![d] = "repeating"] /\ tries' = [tries EXCEPT ![d] = @ + 1]
          /\ tries[d] < Retries
      BY <2>1 DEF RepeatLater
    <3>2. ProxyTypes'
      BY <1>1, <3>1, ProxyAssumption DEF ProxyTypes, Steps
    <3>3. ASSUME NEW q \in Downloads PROVE LeftOf(q)' = LeftOf(q)
      BY <1>1, <2>1, <3>1, ProxyAssumption DEF LeftOf, ProxyTypes
    <3> QED BY <3>2, <3>3 DEF Left
  <2>2. CASE step[d] = "asking" /\ StartOver(d)
    <3>1. step' = [step EXCEPT ![d] = "sleeping"] /\ tries' = [tries EXCEPT ![d] = 0]
      BY <2>2 DEF StartOver
    <3>2. ProxyTypes'
      BY <1>1, <3>1, ProxyAssumption DEF ProxyTypes, Steps
    <3> QED BY <1>1, <3>1, <3>2, ProxyAssumption DEF Left, LeftOf, ProxyTypes
  <2>3. ASSUME NEW what, step[d] = "asking", Reply(d, what)
        PROVE  ProxyTypes' /\ Left' \in SUBSET Left
    <3>1. step' = [step EXCEPT ![d] = "answered"] /\ tries' = tries
      BY <2>3 DEF Reply
    <3>2. ProxyTypes'
      BY <1>1, <3>1, ProxyAssumption DEF ProxyTypes, Steps
    <3> QED BY <1>1, <3>1, <3>2, ProxyAssumption DEF Left, LeftOf, ProxyTypes
  <2>4. CASE Wake(d)
    <3>1. /\ step[d] = "sleeping" /\ tries' = tries
          /\ step' = [step EXCEPT ![d] = "waiting"]
      BY <2>4 DEF Wake
    <3>2. ProxyTypes'
      BY <1>1, <3>1, ProxyAssumption DEF ProxyTypes, Steps
    <3> QED BY <1>1, <3>1, <3>2, ProxyAssumption DEF Left, LeftOf, ProxyTypes
  <2> QED BY <2>1, <2>2, <2>3, <2>4 DEF GatewayAnswers, Found, NotFound, Broken, TooMany
<1>3. Cardinality(Left') =< Cardinality(Left)
  BY <1>2, LeftBound, FS_Subset
<1> QED BY <1>1, <1>2, <1>3, LeftBound, LeftBoundNext, AllPairs, AllowanceOfToken,
            ProxyAssumption DEF ArrivalsInv, ProxyTypes, Allowance

(* What is left when a minute begins is no more than all retries there are.*)
LEMMA NewMinutePreserves ==
  ASSUME ArrivalsInv, NewMinute
  PROVE  ArrivalsInv'
<1>1. ProxyTypes'
  BY ProxyAssumption DEF ArrivalsInv, ProxyTypes, NewMinute
<1>2. (Limit - tokens') * (Retries + 1) = 0 /\ arrived' = 0
  BY ProxyAssumption DEF NewMinute
<1> QED BY <1>1, <1>2, LeftBoundNext, AllPairs DEF ArrivalsInv, Allowance

(* The invariant survives every step. *)
LEMMA ArrivalsNext == ArrivalsInv /\ [ProxyNext]_proxyVars => ArrivalsInv'
<1>1. CASE UNCHANGED proxyVars
  BY <1>1 DEF ArrivalsInv, ProxyTypes, Allowance, Left, LeftOf, proxyVars
<1> QED BY <1>1, TakeTokenPreserves, RepeatPreserves, AnsweredPreserves, NewMinutePreserves
        DEF ProxyNext

(***************************************************************************)
(* rest/ipfs.ts:20-49: for any number of downloads and whatever limit, the *)
(* gateway is asked no more in a minute than axios-retry can make of the   *)
(* tokens taken, and of the downloads under way when the minute began.     *)
(***************************************************************************)
THEOREM ArrivalsWithinRetriesAlways == ProxySpec => []ArrivalsWithinRetries
<1>1. ArrivalsInv => ArrivalsWithinRetries
  <2>1. (Limit - tokens) * (Retries + 1) \in Nat \/ ~ ArrivalsInv
    <3> SUFFICES ASSUME ArrivalsInv PROVE (Limit - tokens) * (Retries + 1) \in Nat
      OBVIOUS
    <3>1. Limit - tokens \in Nat
      BY ProxyAssumption DEF ArrivalsInv, ProxyTypes
    <3> QED BY <3>1, AllowanceOfToken, ProxyAssumption
  <2> QED BY <2>1, LeftBound, AllPairs DEF ArrivalsInv, ProxyTypes, Allowance,
                                           ArrivalsWithinRetries
<1> QED BY <1>1, ArrivalsInit, ArrivalsNext, PTL DEF ProxySpec

-----------------------------------------------------------------------------
(***************************************************************************)
(* For any number of callers and attempts, one attempt at a time is under  *)
(* way, and qc() is the client that SharedClient describes.                *)
(***************************************************************************)

(* Every caller that awaits, awaits an attempt that was begun. *)
ClientInv ==
  /\ ClientTypeOK
  /\ OneAttemptAtATime
  /\ \A a \in Attempts : state[a] = "unused" <=> a > attempts
  /\ \A c \in Callers : caller[c] = "awaiting" => awaited[c] \in 1 .. attempts
  /\ clientPromise # 0 => rpcSet

-----------------------------------------------------------------------------

(* There is no client and no attempt at the start. *)
LEMMA ClientInvInit == ClientInit => ClientInv
  BY ClientAssumption
     DEF ClientInit, ClientInv, ClientTypeOK, OneAttemptAtATime, Attempts, AttemptStates,
         CallerStates

(* An attempt that has not failed, though it was begun, is the last, and    *)
(* it is the one that is shared.                                            *)
LEMMA UnsettledIsShared ==
  ASSUME ClientInv, NEW a \in Attempts, state[a] \notin {"unused", "failed"}
  PROVE  a = attempts /\ clientPromise = a
  BY ClientAssumption DEF ClientInv, ClientTypeOK, OneAttemptAtATime, Attempts

(* Callers keep the invariant. *)
LEMMA CallerStepPreserves ==
  ASSUME ClientInv, NEW c \in Callers,
         Unconfigured(c) \/ Join(c) \/ Resume(c) \/ Leave(c)
  PROVE  ClientInv'
<1>1. UNCHANGED <<rpcSet, clientPromise, attempts, state>>
  BY DEF Unconfigured, Join, Resume, Leave
<1>2. ClientTypeOK'
  <2>1. caller' \in [Callers -> CallerStates] /\ awaited' \in [Callers -> 0 .. MaxAttempts]
    <3>1. /\ caller \in [Callers -> CallerStates] /\ clientPromise \in 0 .. MaxAttempts
          /\ awaited \in [Callers -> 0 .. MaxAttempts] /\ 0 \in 0 .. MaxAttempts
      BY ClientAssumption DEF ClientInv, ClientTypeOK
    <3>2. CASE Unconfigured(c) \/ Resume(c)
      BY <3>1, <3>2 DEF CallerStates, Unconfigured, Resume
    <3>3. CASE Join(c) \/ Leave(c)
      BY <3>1, <3>3 DEF CallerStates, Join, Leave
    <3> QED BY <3>2, <3>3
  <2> QED BY <1>1, <2>1 DEF ClientInv, ClientTypeOK
<1>3. OneAttemptAtATime'
  BY <1>1 DEF ClientInv, OneAttemptAtATime
<1>4. Join(c) => clientPromise \in 1 .. attempts
  BY ClientAssumption DEF ClientInv, ClientTypeOK, OneAttemptAtATime, Join
<1>5. \A d \in Callers : caller'[d] = "awaiting" => awaited'[d] \in 1 .. attempts
  BY <1>4 DEF ClientInv, ClientTypeOK, Unconfigured, Join, Resume, Leave
<1> QED BY <1>1, <1>2, <1>3, <1>5 DEF ClientInv

(* A caller that finds no attempt begins one and waits for it. *)
LEMMA BeginAttemptPreserves ==
  ASSUME ClientInv, NEW c \in Callers, BeginAttempt(c)
  PROVE  ClientInv'
<1>1. /\ attempts' = attempts + 1 /\ attempts' \in Attempts /\ clientPromise' = attempts'
      /\ attempts \in Nat
  BY ClientAssumption DEF ClientInv, ClientTypeOK, BeginAttempt, Attempts
<1>2. /\ state' \in [Attempts -> AttemptStates]
      /\ \A a \in Attempts : state'[a] = IF a = attempts' THEN "open" ELSE state[a]
  BY <1>1 DEF ClientInv, ClientTypeOK, BeginAttempt, AttemptStates
<1>3. ClientTypeOK'
  BY <1>1, <1>2, ClientAssumption
     DEF ClientInv, ClientTypeOK, CallerStates, BeginAttempt, Attempts
<1>4. \A a \in Attempts : a =< attempts => state[a] = "failed"
  BY <1>1, ClientAssumption DEF ClientInv, OneAttemptAtATime, BeginAttempt, Attempts
<1>5. OneAttemptAtATime'
  BY <1>1, <1>2, <1>4 DEF OneAttemptAtATime, Attempts
<1>6. \A a \in Attempts : state'[a] = "unused" <=> a > attempts'
  BY <1>1, <1>2 DEF ClientInv, Attempts
<1>7. \A d \in Callers : caller'[d] = "awaiting" => awaited'[d] \in 1 .. attempts'
  BY <1>1 DEF ClientInv, ClientTypeOK, BeginAttempt
<1> QED BY <1>3, <1>5, <1>6, <1>7 DEF ClientInv, BeginAttempt

(* An attempt that ends leaves a client or none. *)
LEMMA AttemptStepPreserves ==
  ASSUME ClientInv, NEW a \in Attempts, Resolve(a) \/ Reject(a) \/ Catch(a)
  PROVE  ClientInv'
<1>1. a = attempts /\ clientPromise = a /\ a \in Nat /\ a # 0
  BY UnsettledIsShared DEF Resolve, Reject, Catch, Attempts
<1>2. UNCHANGED <<rpcSet, attempts, caller, awaited>>
  BY DEF Resolve, Reject, Catch
<1>3. /\ state' \in [Attempts -> AttemptStates]
      /\ \A b \in Attempts : b # a => state'[b] = state[b]
      /\ \/ state'[a] \in {"resolved", "rejected"} /\ clientPromise' = clientPromise
         \/ state'[a] = "failed" /\ clientPromise' = 0
  BY DEF ClientInv, ClientTypeOK, AttemptStates, Resolve, Reject, Catch
<1>4. ClientTypeOK'
  BY <1>2, <1>3, ClientAssumption DEF ClientInv, ClientTypeOK
<1>5. OneAttemptAtATime'
  BY <1>1, <1>2, <1>3 DEF ClientInv, OneAttemptAtATime, Attempts
<1>6. \A b \in Attempts : state'[b] = "unused" <=> b > attempts'
  BY <1>1, <1>2, <1>3 DEF ClientInv, Attempts
<1> QED BY <1>2, <1>3, <1>4, <1>5, <1>6 DEF ClientInv

(* The invariant survives every step. *)
LEMMA ClientInvNext == ClientInv /\ [ClientNext]_clientVars => ClientInv'
<1>1. CASE UNCHANGED clientVars
  BY <1>1 DEF ClientInv, ClientTypeOK, OneAttemptAtATime, clientVars
<1> QED BY <1>1, CallerStepPreserves, BeginAttemptPreserves, AttemptStepPreserves DEF ClientNext

(* tokenomics.ts:23-28: the shared promise is that of the last attempt, and *)
(* callers wait for an attempt that was begun.                              *)
THEOREM ClientInvAlways == ClientSpec => []ClientInv
  BY ClientInvInit, ClientInvNext, PTL DEF ClientSpec

(* The types of TokenomicsClient, for any number of callers and attempts. *)
THEOREM ClientTypeCorrect == ClientSpec => []ClientTypeOK
<1>1. ClientInv => ClientTypeOK
  BY DEF ClientInv
<1> QED BY <1>1, ClientInvAlways, PTL

(* tokenomics.ts:23-26: never are two attempts under way, none is left      *)
(* without its callers, and none is shared once it has failed.              *)
THEOREM OneAttemptAlways == ClientSpec => []OneAttemptAtATime
<1>1. ClientInv => OneAttemptAtATime
  BY DEF ClientInv
<1> QED BY <1>1, ClientInvAlways, PTL

-----------------------------------------------------------------------------
(* The mapping of callers, one by one, before a step and after it *)
LEMMA HolderAt ==
  ASSUME NEW c \in Callers
  PROVE  /\ caller[c] = "away" => HolderOf[c] = "away"
         /\ caller[c] = "holding" => HolderOf[c] = "served"
         /\ caller[c] = "rejected" => HolderOf[c] = "turned down"
         /\ caller[c] = "awaiting" =>
              HolderOf[c] = IF state[awaited[c]] # "failed" THEN "waiting" ELSE "turned down"
  BY DEF HolderOf

(* How a caller stands to the client after a step, by its own state. *)
LEMMA HolderAfter ==
  ASSUME NEW c \in Callers
  PROVE  /\ caller'[c] = "away" => HolderOf'[c] = "away"
         /\ caller'[c] = "holding" => HolderOf'[c] = "served"
         /\ caller'[c] = "rejected" => HolderOf'[c] = "turned down"
         /\ caller'[c] = "awaiting" =>
              HolderOf'[c] = IF state'[awaited'[c]] # "failed" THEN "waiting" ELSE "turned down"
  BY DEF HolderOf

(* HolderOf is a function of the callers, before and after. *)
LEMMA HolderFunction ==
  /\ HolderOf = [c \in Callers |-> HolderOf[c]]
  /\ HolderOf' = [c \in Callers |-> HolderOf'[c]]
  BY Zenon DEF HolderOf

(* A function after one EXCEPT. *)
LEMMA Updated ==
  ASSUME NEW S, NEW f, NEW g, NEW x, NEW c \in S,
         f = [d \in S |-> f[d]], g = [d \in S |-> g[d]],
         g[c] = x, \A d \in S : d # c => g[d] = f[d]
  PROVE  g = [f EXCEPT ![c] = x]
  OBVIOUS

(* What a caller sees of the attempt it awaits *)
LEMMA AwaitedIsShared ==
  ASSUME ClientInv, NEW c \in Callers, caller[c] = "awaiting"
  PROVE  /\ awaited[c] \in Attempts
         /\ state[awaited[c]] # "failed" => awaited[c] = clientPromise /\ awaited[c] = attempts
<1>1. awaited[c] \in Attempts /\ ~ (awaited[c] > attempts)
  BY ClientAssumption DEF ClientInv, ClientTypeOK, Attempts
<1>2. state[awaited[c]] # "unused"
  BY <1>1 DEF ClientInv
<1> QED BY <1>1, <1>2, UnsettledIsShared

(* A caller comes: without an endpoint, or for the shared client. *)
LEMMA AskSteps ==
  ASSUME ClientInv, NEW c \in Callers, Unconfigured(c) \/ BeginAttempt(c) \/ Join(c)
  PROVE  Shared!TurnDown(c) \/ Shared!Ask(c)
<1>1. HolderOf[c] = "away"
  BY HolderAt DEF Unconfigured, BeginAttempt, Join
<1>2. ASSUME NEW d \in Callers, d # c PROVE HolderOf'[d] = HolderOf[d]
  <2>1. caller'[d] = caller[d] /\ awaited'[d] = awaited[d] /\ caller[d] \in CallerStates
    BY <1>2 DEF ClientInv, ClientTypeOK, Unconfigured, BeginAttempt, Join
  <2>2. caller[d] = "awaiting" => state'[awaited[d]] = state[awaited[d]]
    <3>1. caller[d] = "awaiting" => awaited[d] # attempts + 1 /\ awaited[d] \in Attempts
      BY AwaitedIsShared, ClientAssumption DEF ClientInv, ClientTypeOK, Attempts
    <3> QED BY <3>1 DEF ClientInv, ClientTypeOK, Unconfigured, BeginAttempt, Join
  <2> QED BY <2>1, <2>2, HolderAt, HolderAfter DEF CallerStates
<1>3. CASE Unconfigured(c)
  <2>1. CellOf = "none" /\ CellOf' = "none"
    BY <1>3 DEF ClientInv, CellOf, Unconfigured
  <2>2. HolderOf'[c] = "turned down"
    BY <1>3, HolderAfter DEF ClientInv, ClientTypeOK, Unconfigured
  <2>3. HolderOf' = [HolderOf EXCEPT ![c] = "turned down"]
    BY <1>2, <2>2, HolderFunction, Updated
  <2> QED BY <1>1, <2>1, <2>3 DEF Shared!TurnDown
<1>4. CASE BeginAttempt(c) \/ Join(c)
  <2>1. /\ caller'[c] = "awaiting" /\ awaited'[c] = clientPromise'
        /\ clientPromise' # 0 /\ state'[clientPromise'] # "failed"
        /\ clientPromise = 0 => state'[clientPromise'] = "open"
        /\ clientPromise # 0 => UNCHANGED <<clientPromise, state>>
    <3>1. CASE BeginAttempt(c)
      <4>1. attempts' = attempts + 1 /\ attempts' \in Attempts /\ attempts' # 0
        BY <3>1, ClientAssumption DEF ClientInv, ClientTypeOK, BeginAttempt, Attempts
      <4> QED BY <3>1, <4>1 DEF ClientInv, ClientTypeOK, BeginAttempt
    <3>2. CASE Join(c)
      BY <3>2 DEF ClientInv, ClientTypeOK, OneAttemptAtATime, Join
    <3> QED BY <1>4, <3>1, <3>2
  <2>2. CellOf' = IF CellOf = "none" THEN "making" ELSE CellOf
    BY <2>1 DEF CellOf
  <2>3. HolderOf'[c] = "waiting"
    BY <2>1, HolderAfter
  <2>4. HolderOf' = [HolderOf EXCEPT ![c] = "waiting"]
    BY <1>2, <2>3, HolderFunction, Updated
  <2> QED BY <1>1, <2>2, <2>4 DEF Shared!Ask
<1> QED BY <1>3, <1>4

(* A caller resumes, or leaves. *)
LEMMA ResumeSteps ==
  ASSUME ClientInv, NEW c \in Callers, Resume(c) \/ Leave(c)
  PROVE  Shared!Serve(c) \/ Shared!Leave(c) \/ UNCHANGED <<CellOf, HolderOf>>
<1>1. CellOf' = CellOf
  BY DEF CellOf, Resume, Leave
<1>2. ASSUME NEW d \in Callers, d # c PROVE HolderOf'[d] = HolderOf[d]
  <2>1. /\ caller'[d] = caller[d] /\ awaited'[d] = awaited[d] /\ state' = state
        /\ caller[d] \in CallerStates
    BY <1>2 DEF ClientInv, ClientTypeOK, Resume, Leave
  <2> QED BY <2>1, HolderAt, HolderAfter DEF CallerStates
<1>3. CASE Resume(c) /\ state[awaited[c]] = "resolved"
  <2>1. CellOf = "kept"
    <3>1. awaited[c] = clientPromise /\ clientPromise # 0
      BY <1>3, AwaitedIsShared DEF Resume, Attempts
    <3> QED BY <1>3, <3>1 DEF CellOf
  <2>2. HolderOf[c] = "waiting"
    BY <1>3, HolderAt DEF Resume
  <2>3. HolderOf'[c] = "served"
    BY <1>3, HolderAfter DEF ClientInv, ClientTypeOK, Resume
  <2>4. HolderOf' = [HolderOf EXCEPT ![c] = "served"]
    BY <1>2, <2>3, HolderFunction, Updated
  <2> QED BY <1>1, <2>1, <2>2, <2>4 DEF Shared!Serve
<1>4. CASE Resume(c) /\ state[awaited[c]] = "failed"
  <2>1. HolderOf[c] = "turned down"
    BY <1>4, HolderAt DEF Resume
  <2>2. HolderOf'[c] = "turned down"
    BY <1>4, HolderAfter DEF ClientInv, ClientTypeOK, Resume
  <2>3. \A d \in Callers : HolderOf'[d] = HolderOf[d]
    BY <1>2, <2>1, <2>2
  <2>4. HolderOf' = HolderOf
    BY <2>3, HolderFunction
  <2> QED BY <1>1, <2>4
<1>5. CASE Leave(c)
  <2>1. HolderOf[c] \in {"served", "turned down"}
    BY <1>5, HolderAt DEF Leave
  <2>2. HolderOf'[c] = "away"
    BY <1>5, HolderAfter DEF ClientInv, ClientTypeOK, Leave
  <2>3. HolderOf' = [HolderOf EXCEPT ![c] = "away"]
    BY <1>2, <2>2, HolderFunction, Updated
  <2> QED BY <1>1, <2>1, <2>3 DEF Shared!Leave
<1> QED BY <1>3, <1>4, <1>5 DEF Resume

(* An attempt settles, or its handler runs. *)
LEMMA AttemptSteps ==
  ASSUME ClientInv, NEW a \in Attempts, Resolve(a) \/ Reject(a) \/ Catch(a)
  PROVE  Shared!Made \/ Shared!Broke \/ UNCHANGED <<CellOf, HolderOf>>
<1>1. a = attempts /\ clientPromise = a /\ a # 0
  BY UnsettledIsShared DEF Resolve, Reject, Catch, Attempts
<1>2. state \in [Attempts -> AttemptStates] /\ CellOf = "making"
  BY <1>1 DEF ClientInv, ClientTypeOK, CellOf, Resolve, Reject, Catch
<1>3. ASSUME NEW d \in Callers
      PROVE  /\ caller'[d] = caller[d] /\ awaited'[d] = awaited[d]
             /\ caller[d] \in CallerStates
             /\ caller[d] = "awaiting" =>
                  awaited[d] \in Attempts /\ (state[awaited[d]] # "failed" => awaited[d] = a)
  BY <1>1, <1>3, AwaitedIsShared DEF ClientInv, ClientTypeOK, Resolve, Reject, Catch
<1>4. CASE Resolve(a) \/ Reject(a)
  <2>1. ASSUME NEW d \in Callers PROVE HolderOf'[d] = HolderOf[d]
    <3>1. caller[d] = "awaiting" =>
            (state'[awaited[d]] = "failed" <=> state[awaited[d]] = "failed")
      BY <1>2, <1>3, <1>4 DEF Resolve, Reject
    <3>2. /\ caller'[d] = caller[d] /\ awaited'[d] = awaited[d]
          /\ caller[d] \in CallerStates
      BY <1>3
    <3> QED BY <3>1, <3>2, HolderAt, HolderAfter DEF CallerStates
  <2>2. HolderOf' = HolderOf
    BY <2>1, HolderFunction
  <2>3. CellOf' = IF Resolve(a) THEN "kept" ELSE "making"
    BY <1>1, <1>2, <1>4 DEF CellOf, Resolve, Reject
  <2> QED BY <1>2, <2>2, <2>3 DEF Shared!Made
<1>5. CASE Catch(a)
  <2>1. CellOf' = "none"
    BY <1>5 DEF CellOf, Catch
  <2>2. ASSUME NEW d \in Callers
        PROVE  HolderOf'[d] = IF HolderOf[d] = "waiting" THEN "turned down" ELSE HolderOf[d]
    <3>1. caller[d] = "awaiting" => state'[awaited[d]] = "failed"
      BY <1>2, <1>3, <1>5 DEF Catch
    <3>2. /\ caller'[d] = caller[d] /\ awaited'[d] = awaited[d]
          /\ caller[d] \in CallerStates
      BY <1>3
    <3> QED BY <3>1, <3>2, HolderAt, HolderAfter DEF CallerStates
  <2>3. HolderOf' = [c \in Callers |->
                       IF HolderOf[c] = "waiting" THEN "turned down" ELSE HolderOf[c]]
    BY <2>2, HolderFunction
  <2> QED BY <1>2, <2>1, <2>3 DEF Shared!Broke
<1> QED BY <1>4, <1>5

(* Every step of the client is one of SharedClient, or none. *)
LEMMA StepImplements ==
  ClientInv /\ [ClientNext]_clientVars => [Shared!CellNext]_<<CellOf, HolderOf>>
<1> SUFFICES ASSUME ClientInv, [ClientNext]_clientVars
             PROVE  [Shared!CellNext]_<<CellOf, HolderOf>>
  OBVIOUS
<1>1. CASE UNCHANGED clientVars
  BY <1>1 DEF clientVars, CellOf, HolderOf
<1>2. ASSUME NEW c \in Callers, Unconfigured(c) \/ BeginAttempt(c) \/ Join(c)
      PROVE  Shared!CellNext
  BY <1>2, AskSteps DEF Shared!CellNext
<1>3. ASSUME NEW c \in Callers, Resume(c) \/ Leave(c)
      PROVE  [Shared!CellNext]_<<CellOf, HolderOf>>
  BY <1>3, ResumeSteps DEF Shared!CellNext
<1>4. ASSUME NEW a \in Attempts, Resolve(a) \/ Reject(a) \/ Catch(a)
      PROVE  [Shared!CellNext]_<<CellOf, HolderOf>>
  BY <1>4, AttemptSteps DEF Shared!CellNext
<1> QED BY <1>1, <1>2, <1>3, <1>4 DEF ClientNext

(* tokenomics.ts:16-28: for any number of callers and of attempts that      *)
(* fail, qc() implements the shared client.                                 *)
THEOREM ClientImplementsSharedClient == ClientSpec => ImplementsSharedClient
<1>1. ClientInit => Shared!CellInit
  BY DEF ClientInit, Shared!CellInit, CellOf, HolderOf
<1>2. ClientInv /\ [ClientNext]_clientVars => [Shared!CellNext]_<<CellOf, HolderOf>>
  BY StepImplements
<1> QED BY <1>1, <1>2, ClientInvAlways, PTL
        DEF ClientSpec, ImplementsSharedClient, Shared!CellSpec, Shared!cellVars

-----------------------------------------------------------------------------
(***************************************************************************)
(* For pools of any size and any number of users: a lost connection never  *)
(* ends the process.                                                       *)
(***************************************************************************)

(* Who listens to a client follows from its place in the pool. *)
PlacesInv ==
  \A c \in Clients :
    /\ client[c] \in {"connecting", "idle"} => "pool" \in listeners[c]
    /\ client[c] \in {"idle", "held"} => "process" \in listeners[c]
    /\ client[c] = "held" => "pool" \notin listeners[c]
    /\ cut[c] => client[c] \in {"idle", "held"}
    /\ broken[c] => client[c] = "held"

(* What a user has is in the place that goes with what the user does. *)
HoldersInv ==
  \A u \in Users :
    /\ user[u] \in {"away", "queued"} => holds[u] = {}
    /\ user[u] = "opening" => \E c \in Clients : holds[u] = {c} /\ client[c] = "connecting"
    /\ user[u] = "holding" => \E c \in Clients : holds[u] = {c} /\ client[c] = "held"

(* No client is with two users. *)
ExclusiveInv == \A u, v \in Users : holds[u] \cap holds[v] # {} => u = v

PoolInv ==
  /\ PoolTypeOK /\ PlacesInv /\ HoldersInv /\ ExclusiveInv
  /\ ~ crashed

-----------------------------------------------------------------------------

(* The pool starts empty. *)
LEMMA PoolInvInit == PoolInit => PoolInv
  BY DEF PoolInit, PoolInv, PoolTypeOK, PlacesInv, HoldersInv, ExclusiveInv,
         ClientPlaces, UserStates

(* A client that is being connected or checked out, has the user that the  *)
(* action is about; one in another place has none.                         *)
LEMMA HolderOfClient ==
  ASSUME PoolInv, NEW u \in Users, NEW c \in Clients, c \in holds[u]
  PROVE  /\ holds[u] = {c}
         /\ \/ user[u] = "opening" /\ client[c] = "connecting"
            \/ user[u] = "holding" /\ client[c] = "held"
         /\ \A v \in Users : c \in holds[v] => v = u
<1>1. user[u] \in {"opening", "holding"}
  BY DEF PoolInv, PoolTypeOK, HoldersInv, UserStates
<1>2. \A v \in Users : c \in holds[v] => v = u
  BY DEF PoolInv, ExclusiveInv
<1> QED BY <1>1, <1>2 DEF PoolInv, HoldersInv

(* A place that is freed *)
LEMMA FreeTypes ==
  ASSUME PoolTypeOK, NEW c \in Clients, Free(c)
  PROVE  /\ client' \in [Clients -> ClientPlaces]
         /\ cut' \in [Clients -> BOOLEAN] /\ broken' \in [Clients -> BOOLEAN]
         /\ listeners' \in [Clients -> SUBSET {"pool", "process"}]
  BY DEF PoolTypeOK, Free, ClientPlaces

(* Opening a connection keeps the invariant. *)
LEMMA OpenPreserves ==
  ASSUME PoolInv, NEW u \in Users, NEW c \in Clients, Open(u, c)
  PROVE  PoolInv'
<1>1. \A v \in Users : c \notin holds[v]
  BY HolderOfClient DEF Open
<1>2. PoolTypeOK' /\ ~ crashed'
  BY DEF PoolInv, PoolTypeOK, Open, ClientPlaces, UserStates
<1>3. PlacesInv'
  BY DEF PoolInv, PoolTypeOK, PlacesInv, Open
<1>4. HoldersInv'
  BY <1>1 DEF PoolInv, PoolTypeOK, HoldersInv, Open
<1>5. ExclusiveInv'
  BY <1>1 DEF PoolInv, PoolTypeOK, ExclusiveInv, Open
<1> QED BY <1>2, <1>3, <1>4, <1>5 DEF PoolInv

(* A connection that comes up keeps it. *)
LEMMA ConnectedPreserves ==
  ASSUME PoolInv, NEW u \in Users, NEW c \in Clients, Connected(u, c)
  PROVE  PoolInv'
<1>1. /\ client[c] = "connecting"
      /\ \A v \in Users : c \in holds[v] => v = u
  BY HolderOfClient DEF Connected
<1>2. PoolTypeOK' /\ ~ crashed'
  BY DEF PoolInv, PoolTypeOK, Connected, ClientPlaces, UserStates, OnConnect
<1>3. PlacesInv'
  BY <1>1 DEF PoolInv, PoolTypeOK, PlacesInv, Connected, OnConnect
<1>4. HoldersInv'
  BY <1>1 DEF PoolInv, PoolTypeOK, HoldersInv, Connected
<1>5. ExclusiveInv'
  BY DEF PoolInv, ExclusiveInv, Connected
<1> QED BY <1>2, <1>3, <1>4, <1>5 DEF PoolInv

(* A connection that fails keeps it. *)
LEMMA ConnectFailsPreserves ==
  ASSUME PoolInv, NEW u \in Users, NEW c \in Clients, ConnectFails(u, c)
  PROVE  PoolInv'
<1>1. /\ client[c] = "connecting"
      /\ \A v \in Users : c \in holds[v] => v = u
  BY HolderOfClient DEF ConnectFails
<1>2. PoolTypeOK' /\ ~ crashed'
  BY DEF PoolInv, PoolTypeOK, ConnectFails, Free, ClientPlaces, UserStates
<1>3. PlacesInv'
  BY DEF PoolInv, PoolTypeOK, PlacesInv, ConnectFails, Free
<1>4. HoldersInv'
  BY <1>1 DEF PoolInv, PoolTypeOK, HoldersInv, ConnectFails, Free
<1>5. ExclusiveInv'
  BY DEF PoolInv, PoolTypeOK, ExclusiveInv, ConnectFails
<1> QED BY <1>2, <1>3, <1>4, <1>5 DEF PoolInv

(* Checking a client out keeps it. *)
LEMMA CheckOutPreserves ==
  ASSUME PoolInv, NEW u \in Users, NEW c \in Clients, CheckOut(u, c)
  PROVE  PoolInv'
<1>1. \A v \in Users : c \notin holds[v]
  BY HolderOfClient DEF CheckOut
<1>2. PoolTypeOK' /\ ~ crashed'
  BY DEF PoolInv, PoolTypeOK, CheckOut, ClientPlaces, UserStates
<1>3. PlacesInv'
  BY DEF PoolInv, PoolTypeOK, PlacesInv, CheckOut
<1>4. HoldersInv'
  BY <1>1 DEF PoolInv, PoolTypeOK, HoldersInv, CheckOut
<1>5. ExclusiveInv'
  BY <1>1 DEF PoolInv, PoolTypeOK, ExclusiveInv, CheckOut
<1> QED BY <1>2, <1>3, <1>4, <1>5 DEF PoolInv

(* Releasing a client keeps it. *)
LEMMA ReleasePreserves ==
  ASSUME PoolInv, NEW u \in Users, NEW c \in Clients, Release(u, c)
  PROVE  PoolInv'
<1>1. /\ client[c] = "held"
      /\ \A v \in Users : c \in holds[v] => v = u
  BY HolderOfClient DEF Release
<1>2. PoolTypeOK' /\ ~ crashed'
  <2>1. CASE broken[c]
    BY <2>1, FreeTypes DEF PoolInv, PoolTypeOK, Release, UserStates
  <2>2. CASE ~ broken[c]
    BY <2>2 DEF PoolInv, PoolTypeOK, Release, ClientPlaces, UserStates
  <2> QED BY <2>1, <2>2
<1>3. PlacesInv'
  BY <1>1 DEF PoolInv, PoolTypeOK, PlacesInv, Release, Free
<1>4. HoldersInv'
  BY <1>1 DEF PoolInv, PoolTypeOK, HoldersInv, Release, Free
<1>5. ExclusiveInv'
  BY DEF PoolInv, PoolTypeOK, ExclusiveInv, Release
<1> QED BY <1>2, <1>3, <1>4, <1>5 DEF PoolInv

(* A user comes to the queue or leaves it. *)
LEMMA QueuePreserves ==
  ASSUME PoolInv, NEW u \in Users, Wait(u) \/ GiveUp(u)
  PROVE  PoolInv'
<1>1. /\ UNCHANGED <<client, cut, broken, listeners, holds, crashed>>
      /\ user[u] \in {"away", "queued"} /\ user'[u] \in {"away", "queued"}
      /\ user' \in [Users -> UserStates]
      /\ \A v \in Users : v # u => user'[v] = user[v]
  BY DEF PoolInv, PoolTypeOK, Wait, GiveUp, UserStates
<1>2. PoolTypeOK' /\ PlacesInv' /\ ExclusiveInv' /\ ~ crashed'
  BY <1>1 DEF PoolInv, PoolTypeOK, PlacesInv, ExclusiveInv
<1>3. HoldersInv'
  BY <1>1 DEF PoolInv, HoldersInv
<1> QED BY <1>2, <1>3 DEF PoolInv

(* An idle client that is closed keeps it. *)
LEMMA IdleTimeoutPreserves ==
  ASSUME PoolInv, NEW c \in Clients, IdleTimeout(c)
  PROVE  PoolInv'
<1>1. \A v \in Users : c \notin holds[v]
  BY HolderOfClient DEF IdleTimeout
<1>2. PoolTypeOK'
  BY FreeTypes DEF PoolInv, PoolTypeOK, IdleTimeout
<1>3. PlacesInv'
  BY DEF PoolInv, PoolTypeOK, PlacesInv, IdleTimeout, Free
<1>4. HoldersInv'
  BY <1>1 DEF PoolInv, PoolTypeOK, HoldersInv, IdleTimeout, Free
<1>5. ExclusiveInv' /\ ~ crashed'
  BY DEF PoolInv, ExclusiveInv, IdleTimeout
<1> QED BY <1>2, <1>3, <1>4, <1>5 DEF PoolInv

(* A connection that is cut keeps it. *)
LEMMA CutPreserves ==
  ASSUME PoolInv, NEW c \in Clients, Cut(c)
  PROVE  PoolInv'
<1>1. PoolTypeOK'
  BY DEF PoolInv, PoolTypeOK, Cut
<1>2. PlacesInv'
  BY DEF PoolInv, PoolTypeOK, PlacesInv, Cut
<1>3. HoldersInv' /\ ExclusiveInv' /\ ~ crashed'
  BY DEF PoolInv, HoldersInv, ExclusiveInv, Cut
<1> QED BY <1>1, <1>2, <1>3 DEF PoolInv

(* An error finds the client idle, with the pool listening, or checked     *)
(* out, with the process listening.                                        *)
LEMMA ClientErrorPreserves ==
  ASSUME PoolInv, NEW c \in Clients, ClientError(c)
  PROVE  PoolInv'
<1>1. \/ client[c] = "idle" /\ "pool" \in listeners[c]
      \/ client[c] = "held" /\ "pool" \notin listeners[c] /\ "process" \in listeners[c]
  BY DEF PoolInv, PlacesInv, ClientError
<1>2. client[c] = "idle" => \A v \in Users : c \notin holds[v]
  BY HolderOfClient
<1>3. ~ crashed'
  BY <1>1 DEF PoolInv, ClientError, OnPoolError
<1>4. PoolTypeOK'
  BY <1>3 DEF PoolInv, PoolTypeOK, ClientError, Free, ClientPlaces
<1>5. PlacesInv'
  BY <1>1 DEF PoolInv, PoolTypeOK, PlacesInv, ClientError, Free
<1>6. HoldersInv'
  BY <1>1, <1>2 DEF PoolInv, PoolTypeOK, HoldersInv, ClientError, Free
<1>7. ExclusiveInv'
  BY DEF PoolInv, ExclusiveInv, ClientError
<1> QED BY <1>3, <1>4, <1>5, <1>6, <1>7 DEF PoolInv

(* The invariant survives every step. *)
LEMMA PoolInvNext == PoolInv /\ [PoolNext]_poolVars => PoolInv'
<1> SUFFICES ASSUME PoolInv, [PoolNext]_poolVars PROVE PoolInv'
  OBVIOUS
<1>1. CASE UNCHANGED poolVars
  BY <1>1 DEF poolVars, PoolInv, PoolTypeOK, PlacesInv, HoldersInv, ExclusiveInv
<1>2. ASSUME NEW u \in Users, Wait(u) \/ GiveUp(u) PROVE PoolInv'
  BY <1>2, QueuePreserves
<1>3. ASSUME NEW c \in Clients, IdleTimeout(c) PROVE PoolInv'
  BY <1>3, IdleTimeoutPreserves
<1>4. ASSUME NEW c \in Clients, Cut(c) PROVE PoolInv'
  BY <1>4, CutPreserves
<1>5. ASSUME NEW u \in Users, NEW c \in Clients,
             Open(u, c) \/ Connected(u, c) \/ ConnectFails(u, c)
      PROVE  PoolInv'
  BY <1>5, OpenPreserves, ConnectedPreserves, ConnectFailsPreserves
<1>6. ASSUME NEW u \in Users, NEW c \in Clients, CheckOut(u, c) \/ Release(u, c)
      PROVE  PoolInv'
  BY <1>6, CheckOutPreserves, ReleasePreserves
<1>7. ASSUME NEW c \in Clients, ClientError(c) PROVE PoolInv'
  BY <1>7, ClientErrorPreserves
<1> QED BY <1>1, <1>2, <1>3, <1>4, <1>5, <1>6, <1>7 DEF PoolNext

-----------------------------------------------------------------------------
(* What the pools keep: users and clients have each other, a connected      *)
(* client has the listener of its life, and nothing crashes.                *)
THEOREM PoolInvAlways == PoolSpec => []PoolInv
  BY PoolInvInit, PoolInvNext, PTL DEF PoolSpec

(* The types of the pools, for any number of places and users. *)
THEOREM PoolTypeCorrect == PoolSpec => []PoolTypeOK
<1>1. PoolInv => PoolTypeOK
  BY DEF PoolInv
<1> QED BY <1>1, PoolInvAlways, PTL

(* db.ts:27-46 and core-db.ts:25-37: with a listener on the pool and one on *)
(* every client for as long as it lives, no lost connection finds nobody    *)
(* listening, whenever it is lost.                                          *)
THEOREM NeverCrashesAlways == PoolSpec => []NeverCrashes
<1>1. PoolInv => NeverCrashes
  BY DEF PoolInv, NeverCrashes
<1> QED BY <1>1, PoolInvAlways, PTL

-----------------------------------------------------------------------------
(***************************************************************************)
(* For any number of denominations and channels, any limit of a page and   *)
(* any blocks in between: what supplyTotal and supplyIBC gather.           *)
(***************************************************************************)

(* Of finitely many numbers the n least are the ones below any other, and  *)
(* they are n, or all there are.                                           *)
LEMMA LeastOfProperties ==
  ASSUME NEW S \in SUBSET Nat, IsFiniteSet(S), NEW n \in Nat
  PROVE  /\ LeastOf(S, n) \in SUBSET S /\ IsFiniteSet(LeastOf(S, n))
         /\ Cardinality(LeastOf(S, n)) =< n
         /\ \A x \in S, y \in LeastOf(S, n) : x =< y => x \in LeastOf(S, n)
         /\ Cardinality(S) =< n => LeastOf(S, n) = S
<1> DEFINE T == LeastOf(S, n)
           R == Ascending(S)
           rank == [x \in T |-> Rank(x, S, R)]
<1>1. IsStrictTotalOrder(R, S) /\ \A x, y \in S : <<x, y>> \in R <=> x < y
  BY AscendingOrders
<1>2. /\ \A x \in S : Rank(x, S, R) \in 0 .. Cardinality(S) - 1
      /\ \A x, y \in S : <<x, y>> \in R => Rank(x, S, R) < Rank(y, S, R)
  <2> HIDE DEF R
  <2> QED BY <1>1, RankMonotone
<1>3. Cardinality(S) \in Nat BY FS_CardinalityType
<1>4. T \in SUBSET S /\ \A x \in S : x \in T <=> Rank(x, S, R) < n
  BY DEF LeastOf
<1>5. IsFiniteSet(T) BY <1>4, FS_Subset
<1> HIDE DEF T, R
<1>6. \A x, y \in S : x < y => Rank(x, S, R) < Rank(y, S, R) BY <1>1, <1>2
<1>7. \A x \in S : Rank(x, S, R) \in Nat BY <1>2, <1>3
<1>8. \A x \in S, y \in T : x =< y => x \in T
  BY <1>4, <1>6, <1>7
<1>9. Cardinality(S) =< n => T = S
  <2> SUFFICES ASSUME Cardinality(S) =< n, NEW x \in S PROVE Rank(x, S, R) < n
    BY <1>4
  <2> DEFINE r == Rank(x, S, R)
             c == Cardinality(S)
  <2>1. r \in 0 .. c - 1 /\ c \in Nat /\ c =< n BY <1>2, <1>3
  <2> HIDE DEF r, c
  <2>2. r < n BY <2>1
  <2> QED BY <2>2 DEF r
<1>10. Cardinality(T) =< n
  <2>1. rank \in [T -> 0 .. n - 1] BY <1>4, <1>7
  <2>2. \A x, y \in T : rank[x] = rank[y] => x = y
    BY <1>4, <1>6, <1>7
  <2>3. IsFiniteSet(0 .. n - 1) /\ Cardinality(0 .. n - 1) = n BY FS_Interval
  <2> HIDE DEF rank
  <2>4. rank \in Injection(T, 0 .. n - 1) BY <2>1, <2>2, Fun_IsInj
  <2>5. Cardinality(T) =< Cardinality(0 .. n - 1) BY <2>3, <2>4, FS_Injection
  <2> QED BY <2>3, <2>5
<1> QED BY <1>4, <1>5, <1>8, <1>9, <1>10 DEF T

(***************************************************************************)
(* A page from the key on has no more than PageLimit elements, ascending   *)
(* from the key, and leaves out none of what is before the next key.       *)
(***************************************************************************)
LEMMA PageProperties ==
  ASSUME NEW S \in SUBSET (Nat \ {0}), IsFiniteSet(S), NEW key \in Nat
  PROVE  /\ PageFrom(S, key) \in Seq(S)
         /\ Len(PageFrom(S, key)) =< PageLimit
         /\ \A i \in 1 .. Len(PageFrom(S, key)) : PageFrom(S, key)[i] >= key
         /\ \A i, j \in 1 .. Len(PageFrom(S, key)) :
              i < j => PageFrom(S, key)[i] < PageFrom(S, key)[j]
         /\ NextKey(S, key) \in Nat
         /\ NextKey(S, key) # 0 =>
              \A i \in 1 .. Len(PageFrom(S, key)) : PageFrom(S, key)[i] < NextKey(S, key)
         /\ \A x \in S : x >= key /\ (NextKey(S, key) = 0 \/ x < NextKey(S, key)) =>
              \E i \in 1 .. Len(PageFrom(S, key)) : PageFrom(S, key)[i] = x
         /\ (\A x \in S : x >= key) /\ Cardinality(S) =< PageLimit =>
              \A x \in S : \E i \in 1 .. Len(PageFrom(S, key)) : PageFrom(S, key)[i] = x
<1> DEFINE F == {x \in S : x >= key}
           T == LeastOf(F, PageLimit)
           p == PageFrom(S, key)
           N == Cardinality(T)
           after == {x \in S : x >= key /\ \A i \in DOMAIN p : x > p[i]}
<1>1. F \in SUBSET S /\ F \in SUBSET Nat /\ IsFiniteSet(F) /\ PageLimit \in Nat
  BY FS_Subset, SupplyAssumption
<1>2. /\ T \in SUBSET F /\ IsFiniteSet(T) /\ N =< PageLimit
      /\ \A x \in F, y \in T : x =< y => x \in T
      /\ Cardinality(F) =< PageLimit => T = F
  <2> HIDE DEF F
  <2> QED BY <1>1, LeastOfProperties
<1>3. N \in Nat BY <1>2, FS_CardinalityType
<1>4. p = InOrder(T, Ascending(T)) BY DEF PageFrom, FirstOf
<1> HIDE DEF T, N, p
<1>5. T \in SUBSET Int BY <1>1, <1>2
<1>6. IsStrictTotalOrder(Ascending(T), T) /\ \A x, y \in T : <<x, y>> \in Ascending(T) <=> x < y
  BY <1>5, AscendingOrders
<1>7. /\ p \in [1 .. N -> T]
      /\ \A x \in T : \E i \in 1 .. N : p[i] = x
      /\ \A i, j \in 1 .. N : i < j <=> <<p[i], p[j]>> \in Ascending(T)
  BY <1>2, <1>4, <1>6, InOrderProperties DEF N
<1>8. p \in Seq(T) /\ Len(p) = N BY <1>3, <1>7
<1>9. \A i \in 1 .. N : p[i] \in S /\ p[i] >= key /\ p[i] \in Nat
  BY <1>1, <1>2, <1>7
<1>10. p \in Seq(S)
  <2>1. p \in [1 .. N -> S] BY <1>1, <1>2, <1>7
  <2> QED BY <1>3, <2>1
<1>11. \A i, j \in 1 .. N : i < j => p[i] < p[j] BY <1>6, <1>7
<1>12. NextKey(S, key) = IF after = {} THEN 0 ELSE CHOOSE x \in after : \A y \in after : x =< y
  BY DEF NextKey, Min, p
<1>13. \A x : x \in after <=> x \in S /\ x >= key /\ \A i \in 1 .. N : x > p[i]
  BY <1>7
<1>14. after \in SUBSET S OBVIOUS
<1> DEFINE k == NextKey(S, key)
<1> HIDE DEF after, k
<1>15. after # {} => k \in after /\ \A y \in after : k =< y
  <2> SUFFICES ASSUME after # {} PROVE \E x \in after : \A y \in after : x =< y
    BY <1>12 DEF k
  <2>1. PICK x \in after : \A y \in after : <<y, x>> \notin OpToRel(<, Nat)
    BY <1>14, WFMin, NatLessThanWellFounded
  <2>2. x \in Nat /\ \A y \in after : y \in Nat /\ ~ (y < x)
    BY <2>1, <1>14 DEF OpToRel
  <2>3. \A y \in after : x =< y BY <2>2
  <2> QED BY <2>3
<1>16. after = {} => k = 0
  BY <1>12 DEF k
<1>17. k \in Nat /\ (k # 0 => \A i \in 1 .. N : p[i] < k)
  <2>1. CASE after = {} BY <2>1, <1>16
  <2>2. CASE after # {}
    <3>1. k \in Nat /\ \A i \in 1 .. N : k > p[i]
      BY <2>2, <1>13, <1>14, <1>15
    <3> QED BY <3>1, <1>9
  <2> QED BY <2>1, <2>2
<1>18. ASSUME NEW x \in S, x >= key, k = 0 \/ x < k
       PROVE  \E i \in 1 .. N : p[i] = x
  <2>1. x \notin after
    <3> SUFFICES ASSUME x \in after PROVE FALSE OBVIOUS
    <3>1. k \in after /\ k =< x BY <1>15
    <3>2. k \in Nat \ {0} /\ x \in Nat BY <1>14, <3>1
    <3> QED BY <1>18, <3>1, <3>2
  <2>2. PICK i \in 1 .. N : ~ (x > p[i]) BY <2>1, <1>13, <1>18
  <2>3. x \in F /\ p[i] \in T /\ x =< p[i] BY <1>7, <1>9, <1>18, <2>2
  <2> HIDE DEF F
  <2>4. x \in T BY <1>2, <2>3
  <2> QED BY <2>4, <1>7
<1>19. ASSUME \A x \in S : x >= key, Cardinality(S) =< PageLimit, NEW x \in S
       PROVE  \E i \in 1 .. N : p[i] = x
  <2>1. F = S BY <1>19
  <2> HIDE DEF F
  <2> QED BY <2>1, <1>2, <1>7, <1>19
<1> HIDE DEF F
<1> QED BY <1>2, <1>8, <1>9, <1>10, <1>11, <1>17, <1>18, <1>19 DEF p, k

(* The key of the next page is not before the one of this page. *)
LEMMA NextKeyLater ==
  ASSUME NEW S \in SUBSET Nat, NEW key \in Nat, NextKey(S, key) # 0
  PROVE  NextKey(S, key) >= key
<1> DEFINE after == {x \in S : x >= key /\ \A i \in DOMAIN PageFrom(S, key) : x > PageFrom(S, key)[i]}
<1>1. after \in SUBSET Nat /\ \A x \in after : x >= key OBVIOUS
<1>2. NextKey(S, key) = IF after = {} THEN 0 ELSE CHOOSE x \in after : \A y \in after : x =< y
  BY DEF NextKey, Min
<1> HIDE DEF after
<1>3. after # {} BY <1>2
<1>4. PICK x \in after : \A y \in after : <<y, x>> \notin OpToRel(<, Nat)
  BY <1>1, <1>3, WFMin, NatLessThanWellFounded
<1>5. x \in Nat /\ \A y \in after : y \in Nat /\ ~ (y < x)
  BY <1>1, <1>4 DEF OpToRel
<1>6. \A y \in after : x =< y BY <1>5
<1>7. (CHOOSE z \in after : \A y \in after : z =< y) \in after BY <1>6
<1> QED BY <1>1, <1>2, <1>3, <1>7

SupplyTypes ==
  /\ supply \in [Denoms -> Nat]
  /\ OpenChannels \in SUBSET Channels
  /\ escrow \in [OpenChannels -> Nat]
  /\ blocks \in Nat
  /\ field \in {"supplyTotal", "supplyIBC"}
  /\ progress \in {"begin", "paging", "asking", "done", "rejected"}
  /\ pageKey \in Nat
  /\ listed \in Seq([denom : Denoms, amount : Nat])
  /\ balances \in [DOMAIN balances -> Nat]
  /\ held \in [open : SUBSET Channels, denom : [Denoms -> SUBSET Nat],
               channel : [Channels -> SUBSET Nat]]

(* What there is now has been there. *)
SeenInv ==
  /\ \A d \in Denoms : supply[d] \in held.denom[d]
  /\ \A c \in OpenChannels : escrow[c] \in held.channel[c]

IsListed(d) == \E i \in DOMAIN listed : listed[i].denom = d

(* The pages so far end before the next one, and miss nothing before it. *)
ListedInv ==
  field = "supplyTotal" =>
    /\ progress # "asking"
    /\ \A i, j \in DOMAIN listed : i < j => listed[i].denom < listed[j].denom
    /\ \A i \in DOMAIN listed : listed[i].amount \in held.denom[listed[i].denom] \ {0}
    /\ progress \in {"begin", "paging"} =>
         /\ pageKey # 0
         /\ \A i \in DOMAIN listed : listed[i].denom < pageKey
         /\ \A d \in Denoms : 0 \notin held.denom[d] /\ d < pageKey => IsListed(d)
    /\ progress = "done" => \A d \in Denoms : 0 \notin held.denom[d] => IsListed(d)

Asked == DOMAIN balances \cup pending

(* The two sums over the escrows that have answered *)
SumOfAnswers == SumFunctionOnSet(balances, DOMAIN balances)

SumOfEscrows == SumFunctionOnSet(escrow, DOMAIN balances)

(* A block moves one of the sums by one at most, and the other not at all. *)
EscrowsInv ==
  field = "supplyIBC" =>
    /\ Asked \in SUBSET OpenChannels
    /\ DOMAIN balances \cap pending = {}
    /\ \A c \in DOMAIN balances : balances[c] \in held.channel[c]
    /\ progress = "begin" => Asked = {} /\ held.open = OpenChannels
    /\ progress \in {"asking", "done"} =>
         /\ Cardinality(Asked) =< PageLimit
         /\ Cardinality(held.open) =< PageLimit => held.open \subseteq Asked
    /\ progress = "done" => pending = {}
    /\ SumOfAnswers =< SumOfEscrows + blocks
    /\ SumOfEscrows =< SumOfAnswers + blocks

SupplyInv == SupplyTypes /\ SeenInv /\ ListedInv /\ EscrowsInv

-----------------------------------------------------------------------------

(* Nothing has been read at the start. *)
LEMMA SupplyInvInit == SupplyInit => SupplyInv
<1> SUFFICES ASSUME SupplyInit PROVE SupplyInv
  OBVIOUS
<1>1. /\ supply \in [Denoms -> Nat] /\ OpenChannels \in SUBSET Channels
      /\ escrow \in [OpenChannels -> Nat]
  BY SupplyAssumption DEF SupplyInit, OpenChannels
<1>2. /\ DOMAIN balances = {} /\ balances \in [DOMAIN balances -> Nat]
      /\ pending = {} /\ Asked = {}
  BY DEF SupplyInit, Asked
<1>3. /\ held.open = OpenChannels /\ held.denom = [d \in Denoms |-> {supply[d]}]
      /\ held.channel = [c \in Channels |-> IF c \in OpenChannels THEN {escrow[c]} ELSE {}]
  BY DEF SupplyInit
<1>4. held \in [open : SUBSET Channels, denom : [Denoms -> SUBSET Nat],
                channel : [Channels -> SUBSET Nat]]
  <2>1. held.denom \in [Denoms -> SUBSET Nat] /\ held.channel \in [Channels -> SUBSET Nat]
    BY <1>1, <1>3
  <2>2. held = [open |-> held.open, denom |-> held.denom, channel |-> held.channel]
    BY DEF SupplyInit
  <2> QED BY <1>1, <1>3, <2>1, <2>2
<1>5. SupplyTypes
  BY <1>1, <1>2, <1>4 DEF SupplyInit, SupplyTypes
<1>6. SeenInv
  BY <1>1, <1>3 DEF SeenInv
<1>7. ListedInv
  <2>1. listed = << >> /\ DOMAIN listed = {} /\ pageKey = 1 /\ progress = "begin"
    BY DEF SupplyInit
  <2>2. \A d \in Denoms : d \in Nat /\ ~ (d < 1) BY SupplyAssumption
  <2> QED BY <2>1, <2>2 DEF ListedInv
<1>8. SumOfAnswers = 0 /\ SumOfEscrows = 0 /\ blocks = 0
  BY <1>2, SumEmpty DEF SumOfAnswers, SumOfEscrows, SupplyInit
<1>9. EscrowsInv
  <2>1. SumOfAnswers =< SumOfEscrows + blocks /\ SumOfEscrows =< SumOfAnswers + blocks
    BY <1>8
  <2> QED BY <1>2, <1>3, <2>1 DEF EscrowsInv, SupplyInit
<1> QED BY <1>5, <1>6, <1>7, <1>9 DEF SupplyInv

(* One comes out of b and goes into c, as far as they are in S. *)
MovesOne(f, g, S, b, c) ==
  /\ \A x \in S : f[x] \in Int /\ g[x] \in Int
  /\ b # c
  /\ b \in S => g[b] = f[b] - 1
  /\ c \in S => g[c] = f[c] + 1
  /\ \A x \in S : x # b /\ x # c => g[x] = f[x]

(* Then the sum over S changes by one at most. *)
LEMMA SumAfterMove ==
  ASSUME NEW f, NEW g, NEW S, IsFiniteSet(S), NEW b, NEW c, MovesOne(f, g, S, b, c)
  PROVE  /\ SumFunctionOnSet(f, S) \in Int /\ SumFunctionOnSet(g, S) \in Int
         /\ SumFunctionOnSet(g, S) =< SumFunctionOnSet(f, S) + 1
         /\ SumFunctionOnSet(f, S) =< SumFunctionOnSet(g, S) + 1
<1> DEFINE m == [x \in S |-> IF x = b THEN g[x] ELSE f[x]]
<1>1. /\ \A x \in S : f[x] \in Int /\ g[x] \in Int
      /\ \A x \in S : m[x] \in Int /\ (x # b => m[x] = f[x]) /\ (x # c => g[x] = m[x])
      /\ b \in S => m[b] = f[b] - 1
      /\ c \in S => g[c] = m[c] + 1
  BY DEF MovesOne
<1> HIDE DEF m
<1>2. /\ SumFunctionOnSet(f, S) \in Int /\ SumFunctionOnSet(m, S) \in Int
      /\ b \in S => SumFunctionOnSet(m, S) = SumFunctionOnSet(f, S) + (m[b] - f[b])
      /\ b \notin S => SumFunctionOnSet(m, S) = SumFunctionOnSet(f, S)
  BY <1>1, SumChangedAt
<1>3. /\ SumFunctionOnSet(m, S) \in Int /\ SumFunctionOnSet(g, S) \in Int
      /\ c \in S => SumFunctionOnSet(g, S) = SumFunctionOnSet(m, S) + (g[c] - m[c])
      /\ c \notin S => SumFunctionOnSet(g, S) = SumFunctionOnSet(m, S)
  BY <1>1, SumChangedAt
<1>4. /\ b \in S => m[b] - f[b] = -1
      /\ c \in S => g[c] - m[c] = 1
  BY <1>1
<1> QED BY <1>2, <1>3, <1>4

(* What has been listed are denominations and coins. *)
LEMMA ListedTypes ==
  ASSUME SupplyTypes
  PROVE  /\ listed \in [1 .. Len(listed) -> [denom : Denoms, amount : Nat]]
         /\ Len(listed) \in Nat /\ DOMAIN listed = 1 .. Len(listed)
         /\ \A i \in DOMAIN listed : listed[i].denom \in Denoms
<1> DEFINE E == [denom : Denoms, amount : Nat]
<1>1. listed \in Seq(E)
  BY DEF SupplyTypes
<1> HIDE DEF E
<1>2. /\ listed \in [1 .. Len(listed) -> E]
      /\ Len(listed) \in Nat /\ DOMAIN listed = 1 .. Len(listed)
  BY <1>1
<1>3. ASSUME NEW i \in DOMAIN listed PROVE listed[i].denom \in Denoms
  <2>1. listed[i] \in E BY <1>2
  <2> QED BY <2>1 DEF E
<1> QED BY <1>2, <1>3 DEF E

(* The sums of escrows are numbers. *)
LEMMA SumsAreNumbers ==
  ASSUME SupplyTypes, Asked \subseteq OpenChannels
  PROVE  SumOfAnswers \in Int /\ SumOfEscrows \in Int
<1>1. DOMAIN balances \subseteq OpenChannels /\ IsFiniteSet(DOMAIN balances)
  BY SupplyAssumption, FS_Subset DEF SupplyTypes, Asked
<1>2. \A c \in DOMAIN balances : balances[c] \in Int /\ escrow[c] \in Int
  BY <1>1 DEF SupplyTypes
<1> QED BY <1>1, <1>2, SumInt DEF SumOfAnswers, SumOfEscrows

-----------------------------------------------------------------------------

(* The chain's supply changes between pages: what was seen stays seen. *)
LEMMA ChangeSupplyPreserves ==
  ASSUME SupplyInv, ChangeSupply
  PROVE  SupplyInv'
<1> USE DEF SupplyInv
<1>1. PICK d \in Denoms, n \in 0 .. MaxAmount :
        /\ supply' = [supply EXCEPT ![d] = n]
        /\ held' = [held EXCEPT !.denom[d] = @ \cup {n}]
  BY DEF ChangeSupply
<1>2. n \in Nat BY SupplyAssumption
<1>3. /\ UNCHANGED <<escrow, field, progress, pageKey, listed, balances, pending>>
      /\ progress \in {"paging", "asking"} /\ blocks \in Nat /\ blocks' = blocks + 1
      /\ OpenChannels' = OpenChannels
  BY DEF ChangeSupply, Block, UnderWay, readVars, SupplyTypes, OpenChannels
<1>4. /\ held.denom \in [Denoms -> SUBSET Nat] /\ held.open \in SUBSET Channels
      /\ held.channel \in [Channels -> SUBSET Nat]
      /\ held' = [open |-> held.open, denom |-> [held.denom EXCEPT ![d] = @ \cup {n}],
                  channel |-> held.channel]
  BY <1>1 DEF SupplyTypes
<1>5. /\ held'.open = held.open /\ held'.channel = held.channel
      /\ held'.denom = [held.denom EXCEPT ![d] = @ \cup {n}]
      /\ held'.denom \in [Denoms -> SUBSET Nat]
      /\ \A e \in Denoms : held.denom[e] \subseteq held'.denom[e]
  BY <1>2, <1>4
<1>6. held' \in [open : SUBSET Channels, denom : [Denoms -> SUBSET Nat],
                 channel : [Channels -> SUBSET Nat]]
  <2>1. held' = [open |-> held'.open, denom |-> held'.denom, channel |-> held'.channel]
    BY <1>4, <1>5
  <2> QED BY <1>4, <1>5, <2>1
<1>7. SupplyTypes'
  <2>1. supply' \in [Denoms -> Nat] BY <1>1, <1>2 DEF SupplyTypes
  <2>2. blocks' \in Nat BY <1>3
  <2> QED BY <1>3, <1>6, <2>1, <2>2 DEF SupplyTypes
<1>8. SeenInv'
  BY <1>1, <1>3, <1>5 DEF SeenInv, SupplyTypes
<1>9. ListedInv'
  <2>1. \A i \in DOMAIN listed : listed[i].denom \in Denoms
    BY ListedTypes
  <2> QED BY <1>3, <1>5, <2>1 DEF ListedInv, IsListed
<1>10. EscrowsInv'
  <2>1. SumOfAnswers' = SumOfAnswers /\ SumOfEscrows' = SumOfEscrows /\ Asked' = Asked
    BY <1>3 DEF SumOfAnswers, SumOfEscrows, Asked
  <2>2. field = "supplyIBC" => Asked \subseteq OpenChannels
    BY DEF EscrowsInv
  <2>3. field = "supplyIBC" =>
          /\ SumOfAnswers =< SumOfEscrows + blocks'
          /\ SumOfEscrows =< SumOfAnswers + blocks'
    <3> SUFFICES ASSUME field = "supplyIBC"
                 PROVE  /\ SumOfAnswers =< SumOfEscrows + blocks'
                        /\ SumOfEscrows =< SumOfAnswers + blocks'
      OBVIOUS
    <3>1. SumOfAnswers \in Int /\ SumOfEscrows \in Int
      BY SumsAreNumbers, <2>2
    <3> QED BY <1>3, <3>1 DEF EscrowsInv
  <2> QED BY <1>3, <1>5, <2>1, <2>3 DEF EscrowsInv
<1> QED BY <1>7, <1>8, <1>9, <1>10

(* Coins move in or out of an escrow: what was read stays read. *)
LEMMA MoveEscrowPreserves ==
  ASSUME SupplyInv, MoveEscrow
  PROVE  SupplyInv'
<1> USE DEF SupplyInv
<1>1. PICK b \in OpenChannels, c \in OpenChannels :
        /\ b # c /\ escrow[b] > 0
        /\ escrow' = [escrow EXCEPT ![b] = @ - 1, ![c] = @ + 1]
        /\ held' = [held EXCEPT !.channel[b] = @ \cup {escrow[b] - 1},
                                !.channel[c] = @ \cup {escrow[c] + 1}]
  BY DEF MoveEscrow
<1>2. /\ UNCHANGED <<supply, field, progress, pageKey, listed, balances, pending>>
      /\ progress \in {"paging", "asking"} /\ blocks \in Nat /\ blocks' = blocks + 1
  BY DEF MoveEscrow, Block, UnderWay, readVars, SupplyTypes
<1>3. /\ escrow \in [OpenChannels -> Nat] /\ OpenChannels \in SUBSET Channels
      /\ escrow[b] \in Nat /\ escrow[c] \in Nat /\ escrow[b] - 1 \in Nat /\ escrow[c] + 1 \in Nat
  BY <1>1 DEF SupplyTypes
<1>4. /\ escrow' \in [OpenChannels -> Nat] /\ OpenChannels' = OpenChannels
      /\ escrow'[b] = escrow[b] - 1 /\ escrow'[c] = escrow[c] + 1
      /\ \A d \in OpenChannels : d # b /\ d # c => escrow'[d] = escrow[d]
  <2>1. escrow' = [d \in OpenChannels |-> IF d = b THEN escrow[b] - 1
                                          ELSE IF d = c THEN escrow[c] + 1 ELSE escrow[d]]
    BY <1>1, <1>3
  <2>2. escrow' \in [OpenChannels -> Nat] BY <1>3, <2>1
  <2>3. OpenChannels' = OpenChannels BY <2>2 DEF OpenChannels
  <2> QED BY <1>1, <2>1, <2>2, <2>3
<1>5. /\ held.denom \in [Denoms -> SUBSET Nat] /\ held.open \in SUBSET Channels
      /\ held.channel \in [Channels -> SUBSET Nat]
      /\ held' = [open |-> held.open, denom |-> held.denom,
                  channel |-> [held.channel EXCEPT ![b] = @ \cup {escrow[b] - 1},
                                                   ![c] = @ \cup {escrow[c] + 1}]]
  BY <1>1 DEF SupplyTypes
<1>6. /\ held'.open = held.open /\ held'.denom = held.denom
      /\ held'.channel \in [Channels -> SUBSET Nat]
      /\ \A d \in Channels : held.channel[d] \subseteq held'.channel[d]
      /\ escrow[b] - 1 \in held'.channel[b] /\ escrow[c] + 1 \in held'.channel[c]
  <2>1. held'.channel = [d \in Channels |->
            IF d = b THEN held.channel[b] \cup {escrow[b] - 1}
            ELSE IF d = c THEN held.channel[c] \cup {escrow[c] + 1} ELSE held.channel[d]]
    BY <1>1, <1>3, <1>5
  <2> QED BY <1>1, <1>3, <1>5, <2>1
<1>7. held' \in [open : SUBSET Channels, denom : [Denoms -> SUBSET Nat],
                 channel : [Channels -> SUBSET Nat]]
  <2>1. held' = [open |-> held'.open, denom |-> held'.denom, channel |-> held'.channel]
    BY <1>5
  <2> QED BY <1>5, <1>6, <2>1
<1>8. SupplyTypes'
  BY <1>2, <1>3, <1>4, <1>7 DEF SupplyTypes
<1>9. SeenInv'
  BY <1>2, <1>3, <1>4, <1>6 DEF SeenInv
<1>10. ListedInv'
  BY <1>2, <1>6 DEF ListedInv, IsListed
<1>11. EscrowsInv'
  <2> SUFFICES ASSUME field = "supplyIBC" PROVE EscrowsInv'
    BY <1>2 DEF EscrowsInv
  <2>1. DOMAIN balances \subseteq OpenChannels /\ IsFiniteSet(DOMAIN balances)
    BY <1>3, SupplyAssumption, FS_Subset DEF EscrowsInv, Asked
  <2>2. SumOfAnswers' = SumOfAnswers /\ Asked' = Asked
    BY <1>2 DEF SumOfAnswers, Asked
  <2>3. SumOfAnswers \in Int
    BY SumsAreNumbers DEF EscrowsInv
  <2>4. /\ SumOfEscrows \in Int /\ SumOfEscrows' \in Int
        /\ SumOfEscrows' =< SumOfEscrows + 1 /\ SumOfEscrows =< SumOfEscrows' + 1
    <3> DEFINE D == DOMAIN balances
               e == escrow
               f == escrow'
    <3>1. MovesOne(e, f, D, b, c)
      BY <1>1, <1>3, <1>4, <2>1 DEF MovesOne
    <3>2. SumOfEscrows = SumFunctionOnSet(e, D) /\ SumOfEscrows' = SumFunctionOnSet(f, D)
      BY <1>2 DEF SumOfEscrows
    <3> HIDE DEF D, e, f
    <3>3. /\ SumFunctionOnSet(e, D) \in Int /\ SumFunctionOnSet(f, D) \in Int
          /\ SumFunctionOnSet(f, D) =< SumFunctionOnSet(e, D) + 1
          /\ SumFunctionOnSet(e, D) =< SumFunctionOnSet(f, D) + 1
      BY <2>1, <3>1, SumAfterMove DEF D
    <3> QED BY <3>2, <3>3
  <2>5. /\ SumOfAnswers =< SumOfEscrows' + blocks'
        /\ SumOfEscrows' =< SumOfAnswers + blocks'
    <3>1. \A x, e, f, k \in Int :
            x =< e + k /\ e =< x + k /\ f =< e + 1 /\ e =< f + 1
              => x =< f + (k + 1) /\ f =< x + (k + 1)
      OBVIOUS
    <3>2. SumOfAnswers =< SumOfEscrows + blocks /\ SumOfEscrows =< SumOfAnswers + blocks
      BY DEF EscrowsInv
    <3>3. blocks \in Int /\ blocks' = blocks + 1
      BY <1>2
    <3> QED BY <2>3, <2>4, <3>1, <3>2, <3>3
  <2>6. \A d \in DOMAIN balances : balances[d] \in held'.channel[d]
    BY <1>3, <1>6, <2>1 DEF EscrowsInv
  <2> QED BY <1>2, <1>4, <1>6, <2>2, <2>5, <2>6 DEF EscrowsInv
<1> QED BY <1>8, <1>9, <1>10, <1>11

(* A channel that opens has not been read. *)
LEMMA OpenChannelPreserves ==
  ASSUME SupplyInv, OpenChannel
  PROVE  SupplyInv'
<1> USE DEF SupplyInv
<1>1. PICK c \in Channels \ OpenChannels :
        /\ escrow' = [d \in OpenChannels \cup {c} |-> IF d = c THEN 0 ELSE escrow[d]]
        /\ held' = [held EXCEPT !.channel[c] = {0}]
  BY DEF OpenChannel
<1>2. /\ UNCHANGED <<supply, field, progress, pageKey, listed, balances, pending>>
      /\ progress \in {"paging", "asking"} /\ blocks \in Nat /\ blocks' = blocks + 1
  BY DEF OpenChannel, Block, UnderWay, readVars, SupplyTypes
<1>3. escrow \in [OpenChannels -> Nat] /\ OpenChannels \in SUBSET Channels
  BY DEF SupplyTypes
<1>4. /\ OpenChannels' = OpenChannels \cup {c}
      /\ escrow' \in [OpenChannels' -> Nat] /\ OpenChannels' \in SUBSET Channels
      /\ \A d \in OpenChannels : escrow'[d] = escrow[d]
      /\ escrow'[c] = 0
  <2>1. OpenChannels' = OpenChannels \cup {c} BY <1>1 DEF OpenChannels
  <2> QED BY <1>1, <1>3, <2>1
<1>5. /\ held.denom \in [Denoms -> SUBSET Nat] /\ held.open \in SUBSET Channels
      /\ held.channel \in [Channels -> SUBSET Nat]
      /\ held' = [open |-> held.open, denom |-> held.denom,
                  channel |-> [held.channel EXCEPT ![c] = {0}]]
  BY <1>1 DEF SupplyTypes
<1>6. /\ held'.open = held.open /\ held'.denom = held.denom
      /\ held'.channel \in [Channels -> SUBSET Nat]
      /\ \A d \in Channels : d # c => held'.channel[d] = held.channel[d]
      /\ held'.channel[c] = {0}
  BY <1>1, <1>5
<1>7. held' \in [open : SUBSET Channels, denom : [Denoms -> SUBSET Nat],
                 channel : [Channels -> SUBSET Nat]]
  <2>1. held' = [open |-> held'.open, denom |-> held'.denom, channel |-> held'.channel]
    BY <1>5
  <2> QED BY <1>5, <1>6, <2>1
<1>8. SupplyTypes'
  BY <1>2, <1>4, <1>7 DEF SupplyTypes
<1>9. SeenInv'
  BY <1>1, <1>2, <1>3, <1>4, <1>6 DEF SeenInv
<1>10. ListedInv'
  BY <1>2, <1>6 DEF ListedInv, IsListed
<1>11. EscrowsInv'
  <2> SUFFICES ASSUME field = "supplyIBC" PROVE EscrowsInv'
    BY <1>2 DEF EscrowsInv
  <2>1. DOMAIN balances \subseteq OpenChannels /\ IsFiniteSet(DOMAIN balances)
    BY <1>3, SupplyAssumption, FS_Subset DEF EscrowsInv, Asked
  <2>2. SumOfAnswers' = SumOfAnswers /\ Asked' = Asked
    BY <1>2 DEF SumOfAnswers, Asked
  <2>3. SumOfAnswers \in Int /\ SumOfEscrows \in Int
    BY SumsAreNumbers DEF EscrowsInv
  <2>4. SumOfEscrows' = SumOfEscrows
    <3>1. \A d \in DOMAIN balances : escrow'[d] = escrow[d] BY <1>4, <2>1
    <3>2. SumFunctionOnSet(escrow', DOMAIN balances) = SumFunctionOnSet(escrow, DOMAIN balances)
      BY <2>1, <3>1, SumEqual
    <3> QED BY <1>2, <3>2 DEF SumOfEscrows
  <2>5. /\ SumOfAnswers =< SumOfEscrows' + blocks'
        /\ SumOfEscrows' =< SumOfAnswers + blocks'
    <3>1. \A x, e, k \in Int :
            x =< e + k /\ e =< x + k => x =< e + (k + 1) /\ e =< x + (k + 1)
      OBVIOUS
    <3>2. SumOfAnswers =< SumOfEscrows + blocks /\ SumOfEscrows =< SumOfAnswers + blocks
      BY DEF EscrowsInv
    <3>3. blocks \in Int /\ blocks' = blocks + 1
      BY <1>2
    <3> QED BY <2>3, <2>4, <3>1, <3>2, <3>3
  <2>6. \A d \in DOMAIN balances : balances[d] \in held'.channel[d]
    BY <1>1, <1>3, <1>6, <2>1 DEF EscrowsInv
  <2> QED BY <1>2, <1>4, <1>6, <2>2, <2>5, <2>6 DEF EscrowsInv
<1> QED BY <1>8, <1>9, <1>10, <1>11

-----------------------------------------------------------------------------
(* A page continues the list, and takes it up to the key of the next one.  *)
LEMMA TotalPagePreserves ==
  ASSUME SupplyInv, TotalPage
  PROVE  SupplyInv'
<1> USE DEF SupplyInv
<1> DEFINE E == [denom : Denoms, amount : Nat]
           p == PageFrom(Present, pageKey)
           new == [i \in DOMAIN p |-> [denom |-> p[i], amount |-> supply[p[i]]]]
           n == Len(listed)
           m == Len(p)
           k == NextKey(Present, pageKey)
<1>1. /\ field = "supplyTotal" /\ progress \in {"begin", "paging"}
      /\ listed' = listed \o new /\ pageKey' = k
      /\ progress' = IF k = 0 THEN "done" ELSE "paging"
      /\ UNCHANGED <<supply, escrow, blocks, field, balances, pending, held>>
  BY DEF TotalPage, chainVars
<1>2. /\ Present \in SUBSET Denoms /\ Present \in SUBSET (Nat \ {0}) /\ IsFiniteSet(Present)
      /\ pageKey \in Nat /\ supply \in [Denoms -> Nat]
      /\ \A d \in Denoms : d \in Present <=> supply[d] # 0
  BY SupplyAssumption, FS_Subset DEF Present, SupplyTypes
<1>3. /\ p \in Seq(Present)
      /\ \A i \in 1 .. m : p[i] >= pageKey
      /\ \A i, j \in 1 .. m : i < j => p[i] < p[j]
      /\ k \in Nat
      /\ k # 0 => \A i \in 1 .. m : p[i] < k
      /\ \A x \in Present : x >= pageKey /\ (k = 0 \/ x < k) => \E i \in 1 .. m : p[i] = x
  BY <1>2, PageProperties
<1> HIDE DEF p, k
<1>4. m \in Nat /\ DOMAIN p = 1 .. m /\ \A i \in 1 .. m : p[i] \in Present
  BY <1>3
<1>5. \A i \in 1 .. m : p[i] \in Denoms /\ p[i] \in Nat /\ supply[p[i]] \in Nat \ {0}
  BY <1>2, <1>4
<1>6. new \in [1 .. m -> E] /\ \A i \in 1 .. m : new[i].denom = p[i] /\ new[i].amount = supply[p[i]]
  BY <1>4, <1>5
<1>7. listed \in Seq(E) /\ n \in Nat /\ DOMAIN listed = 1 .. n
      /\ \A i \in 1 .. n : listed[i].denom \in Denoms /\ listed[i].denom \in Nat
  BY SupplyAssumption, ListedTypes DEF SupplyTypes
<1> HIDE DEF E, new, m
<1>8. new \in Seq(E) /\ Len(new) = m BY <1>4, <1>6
<1>9. /\ listed \o new \in Seq(E) /\ Len(listed \o new) = n + m
      /\ \A i \in 1 .. n + m : (listed \o new)[i] = IF i =< n THEN listed[i] ELSE new[i - n]
  BY <1>7, <1>8, ConcatProperties
<1> HIDE DEF n
<1>10. /\ DOMAIN listed' = 1 .. n + m
       /\ \A i \in 1 .. n : listed'[i] = listed[i]
       /\ \A i \in n + 1 .. n + m : i - n \in 1 .. m /\ listed'[i] = new[i - n]
  BY <1>1, <1>4, <1>7, <1>9
<1>11. \A j \in 1 .. m : n + j \in DOMAIN listed' /\ listed'[n + j] = new[j]
  <2> SUFFICES ASSUME NEW j \in 1 .. m PROVE n + j \in DOMAIN listed' /\ listed'[n + j] = new[j]
    OBVIOUS
  <2>1. n + j \in n + 1 .. n + m /\ (n + j) - n = j BY <1>4, <1>7
  <2>2. n + j \in 1 .. n + m BY <1>4, <1>7
  <2> QED BY <2>1, <2>2, <1>10
<1>12. \A d : IsListed(d)' <=> IsListed(d) \/ \E j \in 1 .. m : p[j] = d
  <2> TAKE d
  <2>1. IsListed(d) => IsListed(d)'
    <3>1. \A i \in 1 .. n : i \in DOMAIN listed' BY <1>4, <1>7, <1>10
    <3> QED BY <3>1, <1>7, <1>10 DEF IsListed
  <2>2. (\E j \in 1 .. m : p[j] = d) => IsListed(d)'
    BY <1>6, <1>11 DEF IsListed
  <2>3. IsListed(d)' => IsListed(d) \/ \E j \in 1 .. m : p[j] = d
    <3> SUFFICES ASSUME NEW i \in 1 .. n + m, listed'[i].denom = d
                 PROVE  IsListed(d) \/ \E j \in 1 .. m : p[j] = d
      BY <1>10 DEF IsListed
    <3>1. CASE i =< n
      <4>1. i \in 1 .. n BY <3>1, <1>7
      <4> QED BY <4>1, <1>7, <1>10 DEF IsListed
    <3>2. CASE ~ (i =< n)
      <4>1. i \in n + 1 .. n + m BY <3>2, <1>4, <1>7
      <4> QED BY <4>1, <1>6, <1>10
    <3> QED BY <3>1, <3>2
  <2> QED BY <2>1, <2>2, <2>3
<1>13. SupplyTypes'
  <2>1. listed' \in Seq([denom : Denoms, amount : Nat]) BY <1>1, <1>9 DEF E
  <2>2. OpenChannels' = OpenChannels BY <1>1 DEF OpenChannels
  <2> QED BY <1>1, <1>3, <2>1, <2>2 DEF SupplyTypes
<1>14. SeenInv'
  BY <1>1 DEF SeenInv, OpenChannels
<1>15. EscrowsInv'
  BY <1>1 DEF EscrowsInv
<1>16. /\ \A i, j \in DOMAIN listed : i < j => listed[i].denom < listed[j].denom
       /\ \A i \in DOMAIN listed : listed[i].amount \in held.denom[listed[i].denom] \ {0}
       /\ pageKey # 0 /\ \A i \in DOMAIN listed : listed[i].denom < pageKey
       /\ \A d \in Denoms : 0 \notin held.denom[d] /\ d < pageKey => IsListed(d)
  BY <1>1 DEF ListedInv
<1>17. ASSUME NEW i \in 1 .. n + m, NEW j \in 1 .. n + m, i < j
       PROVE  listed'[i].denom < listed'[j].denom
  <2>1. CASE j =< n
    <3>1. i \in 1 .. n /\ j \in 1 .. n BY <1>17, <2>1, <1>7
    <3> QED BY <3>1, <1>7, <1>10, <1>16, <1>17
  <2>2. CASE i =< n /\ ~ (j =< n)
    <3>1. i \in 1 .. n /\ j \in n + 1 .. n + m BY <2>2, <1>4, <1>7
    <3>2. listed'[i].denom \in Nat /\ listed'[i].denom < pageKey BY <3>1, <1>7, <1>10, <1>16
    <3>3. j - n \in 1 .. m /\ listed'[j].denom = p[j - n] BY <3>1, <1>6, <1>10
    <3>4. p[j - n] >= pageKey /\ p[j - n] \in Nat BY <3>3, <1>3, <1>5
    <3> QED BY <3>2, <3>3, <3>4, <1>2
  <2>3. CASE ~ (i =< n)
    <3>1. i \in n + 1 .. n + m /\ j \in n + 1 .. n + m BY <2>3, <1>4, <1>7, <1>17
    <3>2. /\ i - n \in 1 .. m /\ j - n \in 1 .. m /\ i - n < j - n
          /\ listed'[i].denom = p[i - n] /\ listed'[j].denom = p[j - n]
      BY <3>1, <1>4, <1>6, <1>7, <1>10, <1>17
    <3> QED BY <3>2, <1>3
  <2> QED BY <2>1, <2>2, <2>3
<1>18. ASSUME NEW i \in 1 .. n + m
       PROVE  /\ listed'[i].amount \in held.denom[listed'[i].denom] \ {0}
              /\ k # 0 => listed'[i].denom < k
  <2>1. CASE i =< n
    <3>1. i \in 1 .. n BY <2>1, <1>7
    <3>2. listed'[i] = listed[i] /\ listed[i].denom < pageKey /\ listed[i].denom \in Nat
      BY <3>1, <1>7, <1>10, <1>16
    <3>3. listed'[i].amount \in held.denom[listed'[i].denom] \ {0}
      BY <3>1, <3>2, <1>7, <1>16
    <3>4. k # 0 => k >= pageKey
      <4>1. Present \in SUBSET Nat BY <1>2
      <4> QED BY <4>1, <1>2, NextKeyLater DEF k
    <3>5. k # 0 => listed'[i].denom < k
      BY <3>2, <3>4, <1>2, <1>3
    <3> QED BY <3>3, <3>5
  <2>2. CASE ~ (i =< n)
    <3>1. i \in n + 1 .. n + m BY <2>2, <1>4, <1>7
    <3>2. i - n \in 1 .. m /\ listed'[i].denom = p[i - n] /\ listed'[i].amount = supply[p[i - n]]
      BY <3>1, <1>6, <1>10
    <3>3. p[i - n] \in Denoms /\ supply[p[i - n]] \in Nat \ {0} BY <3>2, <1>5
    <3>4. supply[p[i - n]] \in held.denom[p[i - n]] BY <3>3 DEF SeenInv
    <3> QED BY <3>2, <3>3, <3>4, <1>3
  <2> QED BY <2>1, <2>2
<1>19. ASSUME NEW d \in Denoms, 0 \notin held.denom[d], k = 0 \/ d < k
       PROVE  IsListed(d)'
  <2>1. CASE d < pageKey
    BY <2>1, <1>12, <1>16, <1>19
  <2>2. CASE ~ (d < pageKey)
    <3>1. supply[d] # 0 BY <1>19 DEF SeenInv
    <3>2. d \in Present /\ d >= pageKey BY <2>2, <3>1, <1>2
    <3> QED BY <3>2, <1>3, <1>12, <1>19
  <2> QED BY <2>1, <2>2
<1>20. ListedInv'
  <2> SUFFICES /\ progress' # "asking"
               /\ \A i, j \in DOMAIN listed' : i < j => listed'[i].denom < listed'[j].denom
               /\ \A i \in DOMAIN listed' :
                    listed'[i].amount \in held'.denom[listed'[i].denom] \ {0}
               /\ progress' \in {"begin", "paging"} =>
                    /\ pageKey' # 0
                    /\ \A i \in DOMAIN listed' : listed'[i].denom < pageKey'
                    /\ \A d \in Denoms : 0 \notin held'.denom[d] /\ d < pageKey' => IsListed(d)'
               /\ progress' = "done" => \A d \in Denoms : 0 \notin held'.denom[d] => IsListed(d)'
    BY DEF ListedInv
  <2>1. \A i, j \in DOMAIN listed' : i < j => listed'[i].denom < listed'[j].denom
    BY <1>10, <1>17
  <2>2. \A i \in DOMAIN listed' : listed'[i].amount \in held'.denom[listed'[i].denom] \ {0}
    BY <1>1, <1>10, <1>18
  <2>3. progress' \in {"begin", "paging"} => k # 0
    BY <1>1
  <2>4. progress' = "done" => k = 0
    BY <1>1
  <2> QED BY <2>1, <2>2, <2>3, <2>4, <1>1, <1>10, <1>18, <1>19
<1> QED BY <1>13, <1>14, <1>15, <1>20

(* The channels of the first page are the ones that are asked. *)
LEMMA ListChannelsPreserves ==
  ASSUME SupplyInv, ListChannels
  PROVE  SupplyInv'
<1> USE DEF SupplyInv
<1> DEFINE p == PageFrom(OpenChannels, 1)
           m == Len(p)
<1>1. /\ field = "supplyIBC" /\ progress = "begin"
      /\ pending' = {p[i] : i \in DOMAIN p}
      /\ progress' = IF pending' = {} THEN "done" ELSE "asking"
      /\ UNCHANGED <<supply, escrow, blocks, field, pageKey, listed, balances, held>>
  BY DEF ListChannels, chainVars
<1>2. /\ OpenChannels \in SUBSET (Nat \ {0}) /\ IsFiniteSet(OpenChannels)
      /\ \A c \in OpenChannels : c >= 1
  BY SupplyAssumption, FS_Subset DEF SupplyTypes
<1>3. /\ p \in Seq(OpenChannels) /\ m =< PageLimit
      /\ \A i, j \in 1 .. m : i < j => p[i] < p[j]
      /\ Cardinality(OpenChannels) =< PageLimit =>
           \A c \in OpenChannels : \E i \in 1 .. m : p[i] = c
  BY <1>2, PageProperties
<1> HIDE DEF p
<1>4. m \in Nat /\ DOMAIN p = 1 .. m /\ p \in [1 .. m -> OpenChannels]
  BY <1>3
<1> HIDE DEF m
<1>5. IsFiniteSet(1 .. m) /\ Cardinality(1 .. m) = m BY <1>4, FS_Interval
<1>6. pending' \in SUBSET OpenChannels /\ \A c : c \in pending' <=> \E i \in 1 .. m : p[i] = c
  BY <1>1, <1>4
<1>7. IsFiniteSet(pending') /\ Cardinality(pending') =< m
  <2>1. p \in [1 .. m -> pending'] BY <1>4, <1>6
  <2>2. p \in Surjection(1 .. m, pending') BY <2>1, <1>6, Fun_IsSurj
  <2>3. IsFiniteSet(pending') /\ Cardinality(pending') =< Cardinality(1 .. m)
    BY <2>2, <1>5, FS_Surjection
  <2> QED BY <2>3, <1>5
<1>8. Cardinality(pending') =< PageLimit
  BY <1>3, <1>4, <1>7, SupplyAssumption, FS_CardinalityType
<1>9. Asked = {} /\ held.open = OpenChannels /\ DOMAIN balances = {}
  BY <1>1 DEF EscrowsInv, Asked
<1>10. Asked' = pending' BY <1>1, <1>9 DEF Asked
<1>11. /\ SumOfAnswers' = SumOfAnswers /\ SumOfEscrows' = SumOfEscrows
       /\ OpenChannels' = OpenChannels
  BY <1>1 DEF SumOfAnswers, SumOfEscrows, OpenChannels
<1>12. EscrowsInv'
  <2>1. Cardinality(held'.open) =< PageLimit => held'.open \subseteq Asked'
    BY <1>1, <1>3, <1>6, <1>9, <1>10
  <2>2. progress' \in {"asking", "done"} /\ (progress' = "done" => pending' = {})
    BY <1>1
  <2> QED BY <1>1, <1>6, <1>8, <1>9, <1>10, <1>11, <2>1, <2>2 DEF EscrowsInv
<1>13. SupplyTypes'
  BY <1>1, <1>11 DEF SupplyTypes
<1>14. SeenInv' /\ ListedInv'
  BY <1>1, <1>11 DEF SeenInv, ListedInv
<1> QED BY <1>12, <1>13, <1>14

(* An answer is the escrow's balance when it is given: both sums grow by it. *)
LEMMA BalanceReturnsPreserves ==
  ASSUME SupplyInv, NEW c \in pending, BalanceReturns(c)
  PROVE  SupplyInv'
<1> USE DEF SupplyInv
<1> DEFINE D == DOMAIN balances
<1>1. /\ progress = "asking" /\ field = "supplyIBC"
      /\ balances' = [d \in D \cup {c} |-> IF d = c THEN escrow[c] ELSE balances[d]]
      /\ pending' = pending \ {c}
      /\ progress' = IF pending' = {} THEN "done" ELSE "asking"
      /\ UNCHANGED <<supply, escrow, blocks, field, pageKey, listed, held>>
  BY DEF BalanceReturns, chainVars, ListedInv, SupplyTypes
<1>2. /\ Asked \in SUBSET OpenChannels /\ c \in OpenChannels /\ c \notin D
      /\ escrow \in [OpenChannels -> Nat] /\ balances \in [D -> Nat]
      /\ D \subseteq OpenChannels /\ IsFiniteSet(D)
  BY <1>1, SupplyAssumption, FS_Subset DEF EscrowsInv, Asked, SupplyTypes
<1> HIDE DEF D
<1>3. /\ DOMAIN balances' = D \cup {c} /\ balances'[c] = escrow[c]
      /\ balances' \in [D \cup {c} -> Nat]
      /\ \A d \in D : balances'[d] = balances[d]
  BY <1>1, <1>2
<1>4. Asked' = Asked
  BY <1>1, <1>3 DEF Asked, D
<1>5. SumOfAnswers' = escrow[c] + SumOfAnswers
  <2>1. \A x \in D \cup {c} : balances'[x] \in Int BY <1>3
  <2>2. SumFunctionOnSet(balances', D \cup {c}) = balances'[c] + SumFunctionOnSet(balances', D)
    BY <1>2, <2>1, SumAdd
  <2>3. SumFunctionOnSet(balances', D) = SumFunctionOnSet(balances, D)
    BY <1>2, <1>3, SumEqual
  <2>4. SumOfAnswers = SumFunctionOnSet(balances, D)
        /\ SumOfAnswers' = SumFunctionOnSet(balances', D \cup {c})
    BY <1>3 DEF SumOfAnswers, D
  <2> QED BY <1>3, <2>2, <2>3, <2>4
<1>6. SumOfEscrows' = escrow[c] + SumOfEscrows
  <2>1. \A x \in D \cup {c} : escrow[x] \in Int BY <1>2
  <2>2. SumFunctionOnSet(escrow, D \cup {c}) = escrow[c] + SumFunctionOnSet(escrow, D)
    BY <1>2, <2>1, SumAdd
  <2>3. SumOfEscrows = SumFunctionOnSet(escrow, D)
        /\ SumOfEscrows' = SumFunctionOnSet(escrow, D \cup {c})
    BY <1>1, <1>3 DEF SumOfEscrows, D
  <2> QED BY <2>2, <2>3
<1>7. SumOfAnswers \in Int /\ SumOfEscrows \in Int /\ escrow[c] \in Int /\ blocks \in Int
  BY <1>2, SumsAreNumbers DEF SupplyTypes
<1>8. SumOfAnswers' =< SumOfEscrows' + blocks' /\ SumOfEscrows' =< SumOfAnswers' + blocks'
  BY <1>1, <1>5, <1>6, <1>7 DEF EscrowsInv
<1>9. \A d \in DOMAIN balances' : balances'[d] \in held'.channel[d]
  BY <1>1, <1>2, <1>3 DEF EscrowsInv, SeenInv, D
<1>10. OpenChannels' = OpenChannels BY <1>1 DEF OpenChannels
<1>11. EscrowsInv'
  <2>1. DOMAIN balances' \cap pending' = {} BY <1>1, <1>3 DEF EscrowsInv, D
  <2>2. progress' \in {"asking", "done"} /\ (progress' = "done" => pending' = {})
    BY <1>1
  <2> QED BY <1>1, <1>2, <1>4, <1>8, <1>9, <1>10, <2>1, <2>2 DEF EscrowsInv
<1>12. SupplyTypes'
  <2>1. balances' \in [DOMAIN balances' -> Nat] BY <1>3
  <2> QED BY <1>1, <1>10, <2>1 DEF SupplyTypes
<1>13. SeenInv' /\ ListedInv'
  BY <1>1, <1>10 DEF SeenInv, ListedInv
<1> QED BY <1>11, <1>12, <1>13

(* The invariant survives every step. *)
LEMMA SupplyInvNext == SupplyInv /\ [SupplyNext]_supplyVars => SupplyInv'
<1> SUFFICES ASSUME SupplyInv, [SupplyNext]_supplyVars PROVE SupplyInv'
  OBVIOUS
<1>1. CASE ChangeSupply
  BY <1>1, ChangeSupplyPreserves
<1>2. CASE MoveEscrow
  BY <1>2, MoveEscrowPreserves
<1>3. CASE OpenChannel
  BY <1>3, OpenChannelPreserves
<1>4. CASE TotalPage
  BY <1>4, TotalPagePreserves
<1>5. CASE ListChannels
  BY <1>5, ListChannelsPreserves
<1>6. ASSUME NEW c \in pending, BalanceReturns(c) PROVE SupplyInv'
  BY <1>6, BalanceReturnsPreserves
<1>7. CASE CallFails
  <2>1. /\ progress' = "rejected"
        /\ UNCHANGED <<supply, escrow, blocks, field, pageKey, listed, balances, pending, held>>
    BY <1>7 DEF CallFails, chainVars
  <2>2. /\ SumOfAnswers' = SumOfAnswers /\ SumOfEscrows' = SumOfEscrows /\ Asked' = Asked
        /\ OpenChannels' = OpenChannels
    BY <2>1 DEF SumOfAnswers, SumOfEscrows, Asked, OpenChannels
  <2> QED BY <2>1, <2>2 DEF SupplyInv, SupplyTypes, SeenInv, ListedInv, EscrowsInv, IsListed
<1>8. CASE SupplyEnded \/ UNCHANGED supplyVars
  <2>1. UNCHANGED <<supply, escrow, blocks, field, progress, pageKey, listed, balances, pending, held>>
    BY <1>8 DEF SupplyEnded, supplyVars, chainVars, readVars
  <2>2. /\ SumOfAnswers' = SumOfAnswers /\ SumOfEscrows' = SumOfEscrows /\ Asked' = Asked
        /\ OpenChannels' = OpenChannels
    BY <2>1 DEF SumOfAnswers, SumOfEscrows, Asked, OpenChannels
  <2> QED BY <2>1, <2>2 DEF SupplyInv, SupplyTypes, SeenInv, ListedInv, EscrowsInv, IsListed
<1> QED BY <1>1, <1>2, <1>3, <1>4, <1>5, <1>6, <1>7, <1>8 DEF SupplyNext

(* What is read, listed and summed is related to what the chain has had.   *)
THEOREM SupplyInvAlways == SupplySpec => []SupplyInv
BY SupplyInvInit, SupplyInvNext, PTL DEF SupplySpec

(***************************************************************************)
(* supplyTotal, tokenomics.ts:36-61: however many denominations there are, *)
(* wherever its pages end and whatever the chain does in between, each     *)
(* denomination is listed once, and no lasting one is missed.              *)
(***************************************************************************)
THEOREM SupplyListedOnceAlways == SupplySpec => []SupplyListedOnce
<1>1. SupplyInv => SupplyListedOnce
  BY DEF SupplyInv, ListedInv, SupplyListedOnce, IsListed
<1> QED BY <1>1, SupplyInvAlways, PTL

(***************************************************************************)
(* supplyIBC, tokenomics.ts:63-98: the sum is off by no more than one for  *)
(* every block that came while the escrows were asked, and no escrow of    *)
(* the first page is missing from it.                                      *)
(***************************************************************************)
THEOREM EscrowsSummedAlways == SupplySpec => []EscrowsSummed
<1>1. SupplyInv => EscrowsSummed
  <2> SUFFICES ASSUME SupplyInv, field = "supplyIBC", progress = "done"
               PROVE  EscrowsSummed
    BY DEF EscrowsSummed
  <2>1. Asked = DOMAIN balances
    BY DEF SupplyInv, EscrowsInv, Asked
  <2>2. TotalIBC = SumOfAnswers
    BY DEF TotalIBC, SumFunction, SumOfAnswers
  <2> QED BY <2>1, <2>2 DEF SupplyInv, EscrowsInv, EscrowsSummed, SumOfEscrows
<1> QED BY <1>1, SupplyInvAlways, PTL

=============================================================================
