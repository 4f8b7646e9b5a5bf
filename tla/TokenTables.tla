------------------------------- MODULE TokenTables -------------------------------
(***************************************************************************)
(* The tables the queries of loaders/token.ts read, TokenBalance, Token,   *)
(* TokenClass and TokenRetired, the indexer that writes them, and what the *)
(* rule of allEntityRetired shows of them.                                 *)
(*                                                                         *)
(* A token has a name (its class) and a collection.  An address holds, of  *)
(* every token, an amount, what it minted and what it retired.             *)
(***************************************************************************)
EXTENDS Integers, Sequences, FiniteSets, Functions, LoaderKeys

CONSTANTS
  Characters,    \* that addresses, names and keys are made of
  Addresses,     \* strings without a dash
  Tokens,        \* records of a name and a collection
  Entities,      \* records of an id, a class and an admin account
  NoAccount,     \* of an entity that has no admin account
  Names,         \* the names requests filter by, the empty string for none
  Batches,       \* sets of requests that may come together
  FanOuts,       \* sets of requests for the entities of an owner or a class
  Holdings,      \* what addresses may hold when a batch begins
  MaxCommits     \* bound: operations the indexer commits meanwhile

(* The spec tuples of token.ts:424-428 *)
Requests == [address : Addresses, name : Names, allRetired : BOOLEAN]

FanOutRequests == [address : STRING, name : Names, allRetired : BOOLEAN]

(* What the columns of the tables can hold *)
Tables == [Addresses -> [Tokens -> [amount : Nat, minted : Nat, retired : Nat]]]

ASSUME TokenAssumption ==
  /\ {"-", "N", "U", "L", "0", "1"} \subseteq Characters
  /\ IsFiniteSet(Addresses) /\ Addresses \subseteq Seq(Characters)
  /\ \A a \in Addresses : Dashes(a) = {}
  /\ IsFiniteSet(Tokens)
  /\ Names \subseteq Seq(Characters) \ {NullName}
  /\ Batches \subseteq SUBSET Requests /\ FanOuts \subseteq SUBSET FanOutRequests
  /\ Holdings \subseteq Tables
  /\ MaxCommits \in Nat

ASSUME EntityAssumption ==
  /\ IsFiniteSet(Entities)
  /\ \A e, f \in Entities : e.id = f.id => e = f
  /\ NoAccount \notin Addresses
  /\ \A e \in Entities : e.admin \in Addresses \cup {NoAccount}

VARIABLES
  balance,    \* TokenBalance: the holdings of each address in each token
  commits

tableVars == <<balance, commits>>

Nothing == [amount |-> 0, minted |-> 0, retired |-> 0]

Held(t, a, token) == t[a][token] # Nothing

(* SUM("amount") of TokenRetired *)
RetiredEver(t, token) == SumFunction([a \in Addresses |-> t[a][token].retired])

(* Mutant of RetiredShown: all retirements ever, whether minted or not. *)
RetiredShownAlways(t, a, token, allRetired) ==
  IF ~ allRetired THEN t[a][token].retired ELSE RetiredEver(t, token)

(* What a request shows as retired: with allEntityRetired, for a token     *)
(* that the address minted, all retirements ever.                          *)
RetiredShown(t, a, token, allRetired) ==
  IF ~ allRetired THEN t[a][token].retired
  ELSE IF t[a][token].minted # 0 THEN RetiredEver(t, token) ELSE 0

-----------------------------------------------------------------------------
TablesInit ==
  /\ balance \in Holdings
  /\ commits = 0

(* The indexer: amounts are whole and nothing becomes negative. *)
Commit == commits < MaxCommits /\ commits' = commits + 1

Mint(a, k) ==
  /\ Commit
  /\ balance' = [balance EXCEPT ![a][k].amount = @ + 1, ![a][k].minted = @ + 1]

Transfer(a, b, k) ==
  /\ a # b /\ balance[a][k].amount > 0
  /\ Commit
  /\ balance' = [balance EXCEPT ![a][k].amount = @ - 1, ![b][k].amount = @ + 1]

Retire(a, k) ==
  /\ balance[a][k].amount > 0
  /\ Commit
  /\ balance' = [balance EXCEPT ![a][k].amount = @ - 1, ![a][k].retired = @ + 1]

Index ==
  \/ \E a \in Addresses, k \in Tokens : Mint(a, k) \/ Retire(a, k)
  \/ \E a, b \in Addresses, k \in Tokens : Transfer(a, b, k)

-----------------------------------------------------------------------------
(***************************************************************************)
(* Reference definitions: the tokens of address a that a request shows,    *)
(* from holdings t and retirements u, and the sums of their collections.   *)
(* A token that shows zeros only is dropped.                               *)
(***************************************************************************)
ShownTokens(t, u, r) ==
  LET a == r.address
      shown(k) == [t[a][k] EXCEPT
                     !.retired = IF r.allRetired /\ t[a][k].minted # 0
                                 THEN RetiredEver(u, k)
                                 ELSE IF r.allRetired THEN 0 ELSE @]
  IN  {[token |-> k, shown |-> shown(k)] :
         k \in {l \in Tokens : (r.name = << >> \/ l.name = r.name) /\ shown(l) # Nothing}}

FoldedTotals(tokens) ==
  LET of(x) == {y \in tokens : /\ y.token.name = x.token.name
                               /\ y.token.collection = x.token.collection}
  IN  {[name |-> x.token.name, collection |-> x.token.collection,
        amount  |-> SumFunction([y \in of(x) |-> y.shown.amount]),
        minted  |-> SumFunction([y \in of(x) |-> y.shown.minted]),
        retired |-> SumFunction([y \in of(x) |-> y.shown.retired])] : x \in tokens}

=============================================================================
