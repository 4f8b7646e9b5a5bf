------------------------------ MODULE MC_Upstreams ------------------------------
(***************************************************************************)
(* The process towards what it depends on: the IPFS gateway, the chain's   *)
(* client, the chain's queries and the database pools.  They share         *)
(* nothing, so that nothing is lost by letting one of them move while the  *)
(* others rest, in states where no fair action of theirs is enabled.       *)
(***************************************************************************)
EXTENDS IpfsProxy, TokenomicsClient, ChainSupply, PgPool

VARIABLE active    \* the one that moves

allVars == <<active, proxyVars, clientVars, supplyVars, poolVars>>

(* A process that has answered its downloads and was asked nothing else *)
ProxyAtRest ==
  /\ step = [d \in Downloads |-> "answered"]
  /\ tries = [d \in Downloads |-> 0]
  /\ refused = [d \in Downloads |-> FALSE]
  /\ reply = [d \in Downloads |-> "document"]
  /\ tokens = Limit /\ arrived = 0

SupplyAtRest ==
  /\ SupplyInit
  /\ field = "supplyIBC" /\ DOMAIN escrow = {} /\ supply = [d \in Denoms |-> 0]

Init ==
  /\ active \in {"gateway", "client", "chain", "database"}
  /\ IF active = "gateway" THEN ProxyInit ELSE ProxyAtRest
  /\ ClientInit /\ (active # "client" => rpcSet)
  /\ IF active = "chain" THEN SupplyInit ELSE SupplyAtRest
  /\ PoolInit

(* The bound on attempts is reached: nobody can ask any more. *)
ClientStops == attempts = MaxAttempts /\ UNCHANGED clientVars

Next ==
  /\ UNCHANGED active
  /\ \/ active = "gateway" /\ ProxyNext /\ UNCHANGED <<clientVars, supplyVars, poolVars>>
     \/ active = "client" /\ (ClientNext \/ ClientStops)
          /\ UNCHANGED <<proxyVars, supplyVars, poolVars>>
     \/ active = "chain" /\ SupplyNext /\ UNCHANGED <<proxyVars, clientVars, poolVars>>
     \/ active = "database" /\ PoolNext /\ UNCHANGED <<proxyVars, clientVars, supplyVars>>

Spec == Init /\ [][Next]_allVars /\ ProxyFairness /\ PoolFairness

=============================================================================
