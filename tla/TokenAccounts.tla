------------------------------ MODULE TokenAccounts ------------------------------
(***************************************************************************)
(* The getAccountTokens field of loaders/token.ts: one batch of requests   *)
(* for the tokens of addresses, token by token.  A DataLoader collapses    *)
(* them into one query of balances per name filter.  A request with        *)
(* allEntityRetired then reads the retirements of the tokens the address   *)
(* minted, one query per token name, one after the other; the indexer may  *)
(* commit between any two queries.                                         *)
(***************************************************************************)
EXTENDS TokenTables

VARIABLES
  batch,      \* the requests of the batch
  rows,       \* the rows each group's query returned, or Pending
  tokens,     \* what each request has gathered
  todo,       \* the token names whose retirements it has yet to read
  outcome,    \* of the batch
  seen,       \* auxiliary: the holdings each group's query saw
  seenRetired \* auxiliary: the retirements each request saw, by token name

loaderVars == <<batch, rows, tokens, todo, outcome, seen, seenRetired>>
vars == <<tableVars, loaderVars>>

Pending == {Nothing}

ClassNames == {k.name : k \in Tokens}

-----------------------------------------------------------------------------
(* createBalancesLoader: a group for each name filter *)

KeyOf(r) == BalancesKey(r.address, r.name)

Parsed == {ParseBalancesKey(KeyOf(r)) : r \in batch}

Groups == {p.name : p \in Parsed}

AddressesOf(g) == {p.address : p \in {q \in Parsed : q.name = g}}

BalanceRows(t, addresses, name) ==
  UNION {{[address |-> a, token |-> k, shown |-> t[a][k]] :
            k \in {l \in Tokens : Held(t, a, l) /\ (name = << >> \/ l.name = name)}} :
         a \in addresses}

(* The rows a request is handed; a key names both the address and the group. *)
RowsOf(r) ==
  {row \in UNION {rows[g] : g \in Groups} :
     \E g \in Groups : row \in rows[g] /\ BalancesKey(row.address, g) = KeyOf(r)}

-----------------------------------------------------------------------------
(* getAccountTokens *)

NamesIn(ts) == {x.token.name : x \in ts}

(* Mutant of WithRetired: the test for tokens minted here is inverted. *)
WithRetiredUnminted(ts, n, u) ==
  {IF x.token.name # n THEN x
   ELSE [x EXCEPT !.shown.retired =
           IF x.shown.minted = 0 THEN RetiredEver(u, x.token) ELSE 0] : x \in ts}

(* Mutant of WithRetired: asks for every token, minted here or not. *)
WithAllRetired(ts, n, u) ==
  {IF x.token.name # n THEN x
   ELSE [x EXCEPT !.shown.retired = RetiredEver(u, x.token)] : x \in ts}

(* The tokens of one name, with their retired amounts read from table u *)
WithRetired(ts, n, u) ==
  {IF x.token.name # n THEN x
   ELSE [x EXCEPT !.shown.retired =
           IF x.shown.minted # 0 THEN RetiredEver(u, x.token) ELSE 0] : x \in ts}

NotAllZero(ts) == {x \in ts : x.shown # Nothing}

Init ==
  /\ TablesInit
  /\ batch \in Batches
  /\ rows = [g \in Groups |-> Pending]
  /\ tokens = [r \in batch |-> {}]
  /\ todo = [r \in batch |-> {}]
  /\ outcome = "reading"
  /\ seen = [g \in Groups |-> balance]
  /\ seenRetired = [r \in batch |-> [n \in ClassNames |-> balance]]

BalancesReturn(g) ==
  /\ outcome = "reading" /\ rows[g] = Pending
  /\ rows' = [rows EXCEPT ![g] = BalanceRows(balance, AddressesOf(g), g)]
  /\ seen' = [seen EXCEPT ![g] = balance]
  /\ UNCHANGED <<tableVars, batch, tokens, todo, outcome, seenRetired>>

(* The DataLoader resolves every request, which sorts its rows by name. *)
Gather ==
  /\ outcome = "reading"
  /\ \A g \in Groups : rows[g] # Pending
  /\ outcome' = "gathered"
  /\ tokens' = [r \in batch |->
                  {[token |-> x.token, shown |-> x.shown] : x \in RowsOf(r)}]
  /\ todo' = [r \in batch |-> IF r.allRetired THEN NamesIn(tokens'[r]) ELSE {}]
  /\ UNCHANGED <<tableVars, batch, rows, seen, seenRetired>>

(* One round of the loop over the names of request r *)
RetirementsReturn(r, n) ==
  /\ outcome = "gathered" /\ n \in todo[r]
  /\ tokens' = [tokens EXCEPT ![r] = WithRetired(tokens[r], n, balance)]
  /\ todo' = [todo EXCEPT ![r] = @ \ {n}]
  /\ seenRetired' = [seenRetired EXCEPT ![r][n] = balance]
  /\ UNCHANGED <<tableVars, batch, rows, outcome, seen>>

(* All requests are through: tokens that are all zero are deleted. *)
Answer ==
  /\ outcome = "gathered"
  /\ \A r \in batch : todo[r] = {}
  /\ outcome' = "answered"
  /\ tokens' = [r \in batch |-> NotAllZero(tokens[r])]
  /\ UNCHANGED <<tableVars, batch, rows, todo, seen, seenRetired>>

(* A query fails, and Promise.all rejects the whole batch. *)
QueryFails ==
  /\ \/ outcome = "reading" /\ \E g \in Groups : rows[g] = Pending
     \/ outcome = "gathered" /\ \E r \in batch : \E x \in tokens[r] :
          x.token.name \in todo[r] /\ x.shown.minted # 0
  /\ outcome' = "rejected"
  /\ UNCHANGED <<tableVars, batch, rows, tokens, todo, seen, seenRetired>>

Settled == outcome \in {"answered", "rejected"} /\ UNCHANGED vars

Next ==
  \/ Index /\ UNCHANGED loaderVars
  \/ \E g \in Groups : BalancesReturn(g)
  \/ Gather
  \/ \E r \in batch, n \in ClassNames : RetirementsReturn(r, n)
  \/ Answer
  \/ QueryFails
  \/ Settled

Spec == Init /\ [][Next]_vars

-----------------------------------------------------------------------------
(***************************************************************************)
(* token.ts:214-215 and :274-275: whatever else is in the batch and        *)
(* whatever is committed between the queries, a request gets the tokens of *)
(* its address and name, with the amounts of the snapshot of its group     *)
(* and, if it asked for all retirements, those of the snapshot read for    *)
(* the token's name, of minted tokens only.                                *)
(***************************************************************************)
TokensOfTwoSnapshots ==
  outcome = "answered" =>
    \A r \in batch :
      tokens[r] =
        UNION {{x \in ShownTokens(seen[r.name], seenRetired[r][n], r) : x.token.name = n} :
                 n \in ClassNames}

(***************************************************************************)
(* token.ts:274-275, for clients that add up: a token that the address     *)
(* minted is shown with no fewer retirements than the request without      *)
(* allEntityRetired shows, although amounts and retirements come from      *)
(* different snapshots.                                                    *)
(***************************************************************************)
AllRetiredCoversOwn ==
  outcome = "answered" =>
    \A q, r \in batch :
      q.address = r.address /\ q.name = r.name /\ ~ q.allRetired /\ r.allRetired =>
        \A x \in tokens[q] :
          x.shown.minted # 0 =>
            \E y \in tokens[r] : y.token = x.token /\ y.shown.retired >= x.shown.retired

=============================================================================
