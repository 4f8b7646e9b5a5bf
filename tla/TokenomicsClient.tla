----------------------------- MODULE TokenomicsClient -----------------------------
(***************************************************************************)
(* qc() of loaders/tokenomics.ts: the chain's query client is created once *)
(* and shared as a promise.  An attempt to create it is the promise of     *)
(* createQueryClient with the handler that .catch adds; when it rejects,   *)
(* the handler, a job of its own, resets clientPromise and rejects the     *)
(* promise the callers await, who resume one by one after that.  Callers   *)
(* come at any moment in between.                                          *)
(***************************************************************************)
EXTENDS Naturals

CONSTANTS
  Callers,        \* fields being resolved
  MaxAttempts     \* bound: attempts to create the client

ASSUME ClientAssumption == MaxAttempts \in Nat

VARIABLES
  rpcSet,          \* whether RPC is configured
  clientPromise,   \* the attempt whose promise is shared, 0 for undefined
  attempts,        \* attempts begun
  state,           \* of each attempt
  caller,          \* what each caller does
  awaited          \* the attempt whose promise it awaits or was given

clientVars == <<rpcSet, clientPromise, attempts, state, caller, awaited>>

(***************************************************************************)
(*   open       createQueryClient has not settled                          *)
(*   rejected   it has, and the catch handler is yet to run                *)
(*   failed     the promise of the callers is rejected                     *)
(*   resolved   it is fulfilled                                            *)
(***************************************************************************)
AttemptStates == {"unused", "open", "rejected", "failed", "resolved"}
CallerStates  == {"away", "awaiting", "holding", "rejected"}

Attempts == 1 .. MaxAttempts

ClientInit ==
  /\ rpcSet \in BOOLEAN
  /\ clientPromise = 0
  /\ attempts = 0
  /\ state = [a \in Attempts |-> "unused"]
  /\ caller = [c \in Callers |-> "away"]
  /\ awaited = [c \in Callers |-> 0]

-----------------------------------------------------------------------------
(* qc() throws without an endpoint, *)
Unconfigured(c) ==
  /\ caller[c] = "away" /\ ~ rpcSet
  /\ caller' = [caller EXCEPT ![c] = "rejected"]
  /\ UNCHANGED <<rpcSet, clientPromise, attempts, state, awaited>>

(* begins an attempt if there is none to join, *)
BeginAttempt(c) ==
  /\ caller[c] = "away" /\ rpcSet /\ clientPromise = 0
  /\ attempts < MaxAttempts
  /\ attempts' = attempts + 1
  /\ clientPromise' = attempts'
  /\ state' = [state EXCEPT ![attempts'] = "open"]
  /\ caller' = [caller EXCEPT ![c] = "awaiting"]
  /\ awaited' = [awaited EXCEPT ![c] = attempts']
  /\ UNCHANGED rpcSet

(* and returns the shared promise otherwise, settled or not. *)
Join(c) ==
  /\ caller[c] = "away" /\ rpcSet /\ clientPromise # 0
  /\ caller' = [caller EXCEPT ![c] = "awaiting"]
  /\ awaited' = [awaited EXCEPT ![c] = clientPromise]
  /\ UNCHANGED <<rpcSet, clientPromise, attempts, state>>

(* createQueryClient settles. *)
Resolve(a) ==
  /\ state[a] = "open"
  /\ state' = [state EXCEPT ![a] = "resolved"]
  /\ UNCHANGED <<rpcSet, clientPromise, attempts, caller, awaited>>

(* Mutant of Reject: resets at once, before the callers' promise is rejected. *)
RejectAndReset(a) ==
  /\ state[a] = "open"
  /\ state' = [state EXCEPT ![a] = "rejected"]
  /\ clientPromise' = 0
  /\ UNCHANGED <<rpcSet, attempts, caller, awaited>>

Reject(a) ==
  /\ state[a] = "open"
  /\ state' = [state EXCEPT ![a] = "rejected"]
  /\ UNCHANGED <<rpcSet, clientPromise, attempts, caller, awaited>>

(* Mutant of Catch: keeps the rejected promise. *)
CatchWithoutReset(a) ==
  /\ state[a] = "rejected"
  /\ state' = [state EXCEPT ![a] = "failed"]
  /\ UNCHANGED <<rpcSet, clientPromise, attempts, caller, awaited>>

(* The catch handler *)
Catch(a) ==
  /\ state[a] = "rejected"
  /\ clientPromise' = 0
  /\ state' = [state EXCEPT ![a] = "failed"]
  /\ UNCHANGED <<rpcSet, attempts, caller, awaited>>

(* A caller resumes after its await. *)
Resume(c) ==
  /\ caller[c] = "awaiting"
  /\ \/ /\ state[awaited[c]] = "resolved"
        /\ caller' = [caller EXCEPT ![c] = "holding"]
     \/ /\ state[awaited[c]] = "failed"
        /\ caller' = [caller EXCEPT ![c] = "rejected"]
  /\ UNCHANGED <<rpcSet, clientPromise, attempts, state, awaited>>

(* Its field is answered; another one may come. *)
Leave(c) ==
  /\ caller[c] \in {"holding", "rejected"}
  /\ caller' = [caller EXCEPT ![c] = "away"]
  /\ awaited' = [awaited EXCEPT ![c] = 0]
  /\ UNCHANGED <<rpcSet, clientPromise, attempts, state>>

-----------------------------------------------------------------------------
ClientNext ==
  \/ \E c \in Callers :
       Unconfigured(c) \/ BeginAttempt(c) \/ Join(c) \/ Resume(c) \/ Leave(c)
  \/ \E a \in Attempts : Resolve(a) \/ Reject(a) \/ Catch(a)

ClientSpec == ClientInit /\ [][ClientNext]_clientVars

-----------------------------------------------------------------------------
(* Type invariant. *)
ClientTypeOK ==
  /\ rpcSet \in BOOLEAN
  /\ clientPromise \in 0 .. MaxAttempts
  /\ attempts \in 0 .. MaxAttempts
  /\ state \in [Attempts -> AttemptStates]
  /\ caller \in [Callers -> CallerStates]
  /\ awaited \in [Callers -> 0 .. MaxAttempts]

(***************************************************************************)
(* tokenomics.ts:23-26: the attempts before the last have failed, so that  *)
(* no more than one is under way and no client is lost, and the last is    *)
(* shared until it has failed.                                             *)
(***************************************************************************)
OneAttemptAtATime ==
  /\ \A a \in Attempts : a < attempts => state[a] = "failed"
  /\ clientPromise # 0 => clientPromise = attempts /\ state[attempts] # "failed"
  /\ clientPromise = 0 /\ attempts # 0 => state[attempts] = "failed"

(***************************************************************************)
(* Refinement mapping.  A caller that awaits a promise that has been       *)
(* rejected is as good as turned down, and the attempt has broken when its *)
(* catch handler runs, not when createQueryClient rejects.                 *)
(***************************************************************************)
CellOf ==
  IF clientPromise = 0 THEN "none"
  ELSE IF state[clientPromise] = "resolved" THEN "kept" ELSE "making"

HolderOf ==
  [c \in Callers |->
     CASE caller[c] = "away" -> "away"
       [] caller[c] = "holding" -> "served"
       [] caller[c] = "awaiting" /\ state[awaited[c]] # "failed" -> "waiting"
       [] OTHER -> "turned down"]

Shared == INSTANCE SharedClient WITH cell <- CellOf, holder <- HolderOf

(***************************************************************************)
(* tokenomics.ts:16-28: whatever the interleaving of callers, the settling *)
(* of attempts and their handlers, qc() is the shared client: a caller is  *)
(* turned down only by a failure it waited for, "allow retry on next       *)
(* request" holds for everyone who asks after it, and a client once made   *)
(* is kept.                                                                *)
(***************************************************************************)
ImplementsSharedClient == Shared!CellSpec

=============================================================================
