-------------------------------- MODULE ChainSupply --------------------------------
(***************************************************************************)
(* supplyTotal and supplyIBC of loaders/tokenomics.ts, with a client at    *)
(* hand: each is many calls to the chain, which commits blocks between any *)
(* two of them.  The bank's supplies are paged through by key, in the      *)
(* order of denominations; the escrows of the channels are asked at the    *)
(* same time, and answer in any order.                                     *)
(*                                                                         *)
(* A denomination and a channel are their places in the order of the keys. *)
(* A denomination without supply is not in the store.                      *)
(***************************************************************************)
EXTENDS Listing, Sequences, FiniteSetsExt

CONSTANTS
  Denoms, Channels,   \* numbers from 1
  PageLimit,          \* the limit of pagination()
  MaxAmount,          \* bound: of a supply and of an escrow
  MaxBlocks           \* bound: blocks while a field is resolved

ASSUME SupplyAssumption ==
  /\ Denoms \subseteq Nat \ {0} /\ Channels \subseteq Nat \ {0}
  /\ IsFiniteSet(Denoms) /\ IsFiniteSet(Channels)
  /\ PageLimit \in Nat \ {0} /\ MaxAmount \in Nat /\ MaxBlocks \in Nat

VARIABLES
  supply,     \* of each denomination
  escrow,     \* of each open channel
  blocks,     \* committed so far
  field,      \* the field being resolved
  progress,   \* of its resolution
  pageKey,    \* where the next page begins
  listed,     \* the supplies read so far
  balances,   \* the escrow balances read so far
  pending,    \* the channels whose balance is awaited
  held        \* auxiliary: the channels open at first, and what each denomination
              \* and channel had since

chainVars  == <<supply, escrow, blocks>>
readVars   == <<field, progress, pageKey, listed, balances, pending>>
supplyVars == <<chainVars, readVars, held>>

OpenChannels == DOMAIN escrow

Present == {d \in Denoms : supply[d] > 0}

(* Calls have been made, and more follow. *)
UnderWay == progress \in {"paging", "asking"}

SupplyInit ==
  /\ supply \in [Denoms -> 0 .. MaxAmount]
  /\ \E open \in SUBSET Channels :
       /\ \A c \in open, d \in Channels : d < c => d \in open
       /\ escrow \in [open -> 0 .. MaxAmount]
  /\ blocks = 0
  /\ field \in {"supplyTotal", "supplyIBC"}
  /\ progress = "begin"
  /\ pageKey = 1
  /\ listed = << >>
  /\ balances = [c \in {} |-> 0]
  /\ pending = {}
  /\ held = [open |-> OpenChannels,
             denom |-> [d \in Denoms |-> {supply[d]}],
             channel |-> [c \in Channels |-> IF c \in OpenChannels THEN {escrow[c]} ELSE {}]]

-----------------------------------------------------------------------------
(* The chain *)

Block == UnderWay /\ blocks < MaxBlocks /\ blocks' = blocks + 1

(* Supplies change, appear and disappear. *)
ChangeSupply ==
  /\ Block
  /\ \E d \in Denoms, n \in 0 .. MaxAmount :
       /\ supply' = [supply EXCEPT ![d] = n]
       /\ held' = [held EXCEPT !.denom[d] = @ \cup {n}]
  /\ UNCHANGED <<escrow, readVars>>

(* A token moves from the escrow of a channel to that of another. *)
MoveEscrow ==
  /\ Block
  /\ \E b, c \in OpenChannels :
       /\ b # c /\ escrow[b] > 0
       /\ escrow' = [escrow EXCEPT ![b] = @ - 1, ![c] = @ + 1]
       /\ held' = [held EXCEPT !.channel[b] = @ \cup {escrow[b] - 1},
                               !.channel[c] = @ \cup {escrow[c] + 1}]
  /\ UNCHANGED <<supply, readVars>>

(* The next channel is opened. *)
OpenChannel ==
  /\ Block
  /\ \E c \in Channels \ OpenChannels :
       /\ \A d \in Channels : d < c => d \in OpenChannels
       /\ escrow' = [d \in OpenChannels \cup {c} |-> IF d = c THEN 0 ELSE escrow[d]]
       /\ held' = [held EXCEPT !.channel[c] = {0}]
  /\ UNCHANGED <<supply, readVars>>

-----------------------------------------------------------------------------
(* The n least of S, and their list in ascending order *)
LeastOf(S, n) == {x \in S : Rank(x, S, Ascending(S)) < n}

FirstOf(S, n) == InOrder(LeastOf(S, n), Ascending(LeastOf(S, n)))

(* Cosmos' pagination by key, of S from the key on: a page, and the key of *)
(* what follows it, 0 for none *)
PageFrom(S, key) == FirstOf({x \in S : x >= key}, PageLimit)

NextKey(S, key) ==
  LET after == {x \in S : x >= key /\ \A i \in DOMAIN PageFrom(S, key) : x > PageFrom(S, key)[i]}
  IN  IF after = {} THEN 0 ELSE Min(after)

(* Mutant of TotalPage: asks every page from the first key. *)
TotalPageAgain ==
  /\ field = "supplyTotal" /\ progress \in {"begin", "paging"}
  /\ \E page \in {PageFrom(Present, 1)} :
       listed' = listed \o [i \in DOMAIN page |-> [denom |-> page[i], amount |-> supply[page[i]]]]
  /\ pageKey' = NextKey(Present, pageKey)
  /\ progress' = IF pageKey' = 0 THEN "done" ELSE "paging"
  /\ UNCHANGED <<chainVars, field, balances, pending, held>>

(* supplyTotal: one page, and another while there is a next key.  The       *)
(* traces of IBC denominations, looked up at the end, are left out.        *)
TotalPage ==
  /\ field = "supplyTotal" /\ progress \in {"begin", "paging"}
  /\ \E page \in {PageFrom(Present, pageKey)} :
       listed' = listed \o [i \in DOMAIN page |-> [denom |-> page[i], amount |-> supply[page[i]]]]
  /\ pageKey' = NextKey(Present, pageKey)
  /\ progress' = IF pageKey' = 0 THEN "done" ELSE "paging"
  /\ UNCHANGED <<chainVars, field, balances, pending, held>>

(* getIBCEscrows: the first page of channels, and no other *)
ListChannels ==
  /\ field = "supplyIBC" /\ progress = "begin"
  /\ LET page == PageFrom(OpenChannels, 1)
     IN  pending' = {page[i] : i \in DOMAIN page}
  /\ progress' = IF pending' = {} THEN "done" ELSE "asking"
  /\ UNCHANGED <<chainVars, field, pageKey, listed, balances, held>>

(* Mutant of BalanceReturns: done with the first answer, like Promise.race. *)
BalanceReturnsFirst(c) ==
  /\ progress = "asking" /\ c \in pending
  /\ balances' = [d \in DOMAIN balances \cup {c} |-> IF d = c THEN escrow[c] ELSE balances[d]]
  /\ pending' = pending \ {c}
  /\ progress' = "done"
  /\ UNCHANGED <<chainVars, field, pageKey, listed, held>>

(* The balance of one escrow account *)
BalanceReturns(c) ==
  /\ progress = "asking" /\ c \in pending
  /\ balances' = [d \in DOMAIN balances \cup {c} |-> IF d = c THEN escrow[c] ELSE balances[d]]
  /\ pending' = pending \ {c}
  /\ progress' = IF pending' = {} THEN "done" ELSE "asking"
  /\ UNCHANGED <<chainVars, field, pageKey, listed, held>>

(* A call fails, and the field with it. *)
CallFails ==
  /\ progress \in {"begin", "paging", "asking"}
  /\ progress' = "rejected"
  /\ UNCHANGED <<chainVars, field, pageKey, listed, balances, pending, held>>

TotalIBC == SumFunction(balances)

SupplyEnded == progress \in {"done", "rejected"} /\ UNCHANGED supplyVars

SupplyNext ==
  \/ ChangeSupply \/ MoveEscrow \/ OpenChannel
  \/ TotalPage
  \/ ListChannels \/ \E c \in pending : BalanceReturns(c)
  \/ CallFails
  \/ SupplyEnded

SupplySpec == SupplyInit /\ [][SupplyNext]_supplyVars

-----------------------------------------------------------------------------
(***************************************************************************)
(* tokenomics.ts:41-48: no denomination is listed twice, one that was      *)
(* there all the while is listed, and with a supply that it had, although  *)
(* pages come from different blocks and a page's first denomination may be *)
(* gone when it is asked for.                                              *)
(***************************************************************************)
SupplyListedOnce ==
  field = "supplyTotal" =>
    /\ \A i, j \in DOMAIN listed : i < j => listed[i].denom < listed[j].denom
    /\ \A i \in DOMAIN listed : listed[i].amount \in held.denom[listed[i].denom] \ {0}
    /\ progress = "done" =>
         \A d \in Denoms : 0 \notin held.denom[d] => \E i \in DOMAIN listed : listed[i].denom = d

(***************************************************************************)
(* tokenomics.ts:63-98: the sum has one addend for each of the first       *)
(* PageLimit channels there are, a balance of its own time.  So it is off  *)
(* by no more than what moved meanwhile, if there are no more channels.    *)
(***************************************************************************)
EscrowsSummed ==
  field = "supplyIBC" /\ progress = "done" =>
    /\ \A c \in DOMAIN balances : balances[c] \in held.channel[c]
    /\ Cardinality(DOMAIN balances) =< PageLimit
    /\ Cardinality(held.open) =< PageLimit => held.open \subseteq DOMAIN balances
    /\ LET sum(S) == SumFunctionOnSet(escrow, S)
       IN  /\ TotalIBC =< sum(DOMAIN balances) + blocks
           /\ sum(DOMAIN balances) =< TotalIBC + blocks

=============================================================================
