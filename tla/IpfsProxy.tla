-------------------------------- MODULE IpfsProxy --------------------------------
(***************************************************************************)
(* GET /api/ipfs/:cid (rest/ipfs.ts): every download takes a token of a    *)
(* rate limiter before it asks the gateway, and starts over when the       *)
(* gateway answers 429.  Underneath, axios-retry repeats a request that    *)
(* met a network error or a broken gateway, without the handler knowing.   *)
(*                                                                         *)
(* The gateway allows as many requests a minute as the limiter gives       *)
(* tokens, and both minutes begin together: no arrangement is better for   *)
(* the proxy.  What is downloaded is its content type.                     *)
(***************************************************************************)
EXTENDS Naturals, FiniteSets

CONSTANTS
  Downloads,    \* requests to the proxy
  Limit,        \* tokensPerInterval, and what the gateway allows
  Retries       \* of axios-retry

ASSUME ProxyAssumption ==
  /\ IsFiniteSet(Downloads)
  /\ Limit \in Nat \ {0} /\ Retries \in Nat

VARIABLES
  step,       \* what each download does next
  tries,      \* the repetitions axios-retry has made of its request
  refused,    \* whether the gateway counts its request as one too many
  reply,      \* what the client is sent
  tokens,     \* left in the limiter this minute
  arrived     \* requests the gateway has counted this minute

proxyVars == <<step, tries, refused, reply, tokens, arrived>>

(***************************************************************************)
(*   waiting    for a token             asking      the gateway            *)
(*   repeating  axios-retry's delay     sleeping    the handler's second   *)
(*   answered                                                              *)
(***************************************************************************)
Steps == {"waiting", "asking", "repeating", "sleeping", "answered"}

Unanswered == "none"

(* The classes of content type that INLINE_SAFE_TYPES and the test for     *)
(* directories tell apart                                                  *)
ContentTypes == {"safe", "active", "html", "missing"}

(* Safe types are sent as they are, others as a stream of bytes. *)
ReplyTo(type) ==
  CASE type = "safe" -> "document"
    [] type = "active" -> "bytes"
    [] OTHER -> "not found"

ProxyInit ==
  /\ step = [d \in Downloads |-> "waiting"]
  /\ tries = [d \in Downloads |-> 0]
  /\ refused = [d \in Downloads |-> FALSE]
  /\ reply = [d \in Downloads |-> Unanswered]
  /\ tokens = Limit
  /\ arrived = 0

-----------------------------------------------------------------------------
(* A request of d reaches the gateway, which counts it. *)
Send(d) ==
  /\ step' = [step EXCEPT ![d] = "asking"]
  /\ refused' = [refused EXCEPT ![d] = arrived >= Limit]
  /\ arrived' = arrived + 1

TakeToken(d) ==
  /\ step[d] = "waiting" /\ tokens > 0
  /\ tokens' = tokens - 1
  /\ Send(d)
  /\ UNCHANGED <<tries, reply>>

(* axios-retry repeats the request, with no token. *)
Repeat(d) ==
  /\ step[d] = "repeating"
  /\ Send(d)
  /\ UNCHANGED <<tries, reply, tokens>>

RepeatLater(d) ==
  /\ tries[d] < Retries
  /\ step' = [step EXCEPT ![d] = "repeating"]
  /\ tries' = [tries EXCEPT ![d] = @ + 1]
  /\ UNCHANGED <<refused, reply, tokens, arrived>>

Reply(d, what) ==
  /\ step' = [step EXCEPT ![d] = "answered"]
  /\ reply' = [reply EXCEPT ![d] = what]
  /\ UNCHANGED <<tries, refused, tokens, arrived>>

(* 429 has come up to the handler: it sleeps, and asks in a new call. *)
StartOver(d) ==
  /\ step' = [step EXCEPT ![d] = "sleeping"]
  /\ tries' = [tries EXCEPT ![d] = 0]
  /\ UNCHANGED <<refused, reply, tokens, arrived>>

(* The gateway has the document, or a directory. *)
Found(d, type) ==
  /\ step[d] = "asking" /\ ~ refused[d]
  /\ Reply(d, ReplyTo(type))

(* Any other status below 500 *)
NotFound(d) ==
  /\ step[d] = "asking" /\ ~ refused[d]
  /\ Reply(d, "not found")

(* A status above, or none *)
Broken(d) ==
  /\ step[d] = "asking" /\ ~ refused[d]
  /\ IF tries[d] < Retries THEN RepeatLater(d) ELSE Reply(d, "not found")

(* 429, which axios-retry may or may not repeat, by its version *)
TooMany(d) ==
  /\ step[d] = "asking" /\ refused[d]
  /\ RepeatLater(d) \/ StartOver(d)

(* Mutant of Wake: asks again at once. *)
WakeAndSend(d) ==
  /\ step[d] = "sleeping"
  /\ Send(d)
  /\ UNCHANGED <<tries, reply, tokens>>

(* After the sleep the handler begins again with a token. *)
Wake(d) ==
  /\ step[d] = "sleeping"
  /\ step' = [step EXCEPT ![d] = "waiting"]
  /\ UNCHANGED <<tries, refused, reply, tokens, arrived>>

(* Mutant of NewMinute: the limiter gets no new tokens. *)
NewMinuteOfGateway ==
  /\ arrived' = 0
  /\ UNCHANGED <<step, tries, refused, reply, tokens>>

(* A minute begins, for the limiter and for the gateway. *)
NewMinute ==
  /\ tokens' = Limit
  /\ arrived' = 0
  /\ UNCHANGED <<step, tries, refused, reply>>

-----------------------------------------------------------------------------
GatewayAnswers(d) ==
  (\E type \in ContentTypes : Found(d, type)) \/ NotFound(d) \/ Broken(d) \/ TooMany(d)

ProxyNext ==
  \/ \E d \in Downloads : TakeToken(d) \/ Repeat(d) \/ GatewayAnswers(d) \/ Wake(d)
  \/ NewMinute

ProxySpec == ProxyInit /\ [][ProxyNext]_proxyVars

(***************************************************************************)
(* Timers fire, minutes pass, and the gateway answers what it is asked.    *)
(* The last conjunct is about the gateway: one that has again and again    *)
(* let a download through does not stay broken for ever.                   *)
(***************************************************************************)
ProxyFairness ==
  /\ \A d \in Downloads :
       /\ WF_proxyVars(TakeToken(d)) /\ WF_proxyVars(Repeat(d)) /\ WF_proxyVars(Wake(d))
       /\ WF_proxyVars(GatewayAnswers(d))
       /\ SF_proxyVars(NotFound(d) \/ \E type \in ContentTypes : Found(d, type))
  /\ WF_proxyVars(NewMinute)

FairProxySpec == ProxySpec /\ ProxyFairness

-----------------------------------------------------------------------------
(***************************************************************************)
(* rest/ipfs.ts:20-49: whatever is repeated and started over, the gateway  *)
(* sees no more requests a minute than axios-retry can make of the tokens  *)
(* taken, and of the downloads under way when the minute began.            *)
(***************************************************************************)
ArrivalsWithinRetries ==
  arrived =< (Limit - tokens) * (Retries + 1) + Cardinality(Downloads) * Retries

(***************************************************************************)
(* util/rate-limiter.ts:3-4: "mirror the limiter ixo-blocksync uses so     *)
(* /api/ipfs/:cid never trips the upstream limit".                         *)
(***************************************************************************)
NeverTripsTheLimit == arrived =< Limit

(***************************************************************************)
(* rest/ipfs.ts:15-49: every download is answered in the end, although it  *)
(* starts over as often as the gateway says 429, if a gateway that lets it *)
(* through again and again has an answer at some time.                     *)
(***************************************************************************)
DownloadsEnd == \A d \in Downloads : step[d] = "waiting" ~> step[d] = "answered"

=============================================================================
