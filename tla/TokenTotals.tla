------------------------------- MODULE TokenTotals -------------------------------
(***************************************************************************)
(* The four getTokensTotal* fields of loaders/token.ts: one batch of       *)
(* requests for the totals of an address, of the entities an address owns, *)
(* of those of a collection, or for what the latter add up to.  Requests   *)
(* for entities first query the entities, each when its turn comes, and    *)
(* then load the totals of their admin accounts.                           *)
(*                                                                         *)
(* A DataLoader collapses what is loaded in one tick into a dispatch: one  *)
(* grouped query per name filter and retired mode, at the same time.  A    *)
(* key it has loaded before is not queried again.  Every query has a       *)
(* snapshot of its own, and the indexer commits in between.                *)
(***************************************************************************)
EXTENDS TokenTables

VARIABLES
  owner,      \* of each entity
  field,      \* which of the fields the batch is for
  batch,      \* the requests of the batch
  found,      \* the entities of each request, or Pending
  rows,       \* of each dispatch, a set of keys: the rows of each group, or Pending
  outcome,    \* of the batch
  answers,    \* what each request gets
  seen        \* auxiliary: the holdings each query of a dispatch saw

loaderVars == <<field, batch, found, rows, outcome, answers, seen>>
vars == <<tableVars, owner, loaderVars>>

Pending == {Nothing}

Fields == {"address", "entities", "collection", "amounts"}

Owners == {r.address : r \in UNION FanOuts}

-----------------------------------------------------------------------------
(* The queries of token.ts:95-132, on the table t *)

SumRow(t, a, name, collection, allRetired) ==
  LET tokens == {k \in Tokens : k.name = name /\ k.collection = collection /\ Held(t, a, k)}
  IN  [address |-> a, name |-> name, collection |-> collection,
       amount  |-> SumFunction([k \in tokens |-> t[a][k].amount]),
       minted  |-> SumFunction([k \in tokens |-> t[a][k].minted]),
       retired |-> SumFunction([k \in tokens |-> RetiredShown(t, a, k, allRetired)])]

GroupedRows(t, addresses, name, allRetired) ==
  UNION {{SumRow(t, a, k.name, k.collection, allRetired) :
            k \in {l \in Tokens : Held(t, a, l) /\ (name = << >> \/ l.name = name)}} :
         a \in addresses}

-----------------------------------------------------------------------------
(* createTotalsLoader: the groups that the keys of a dispatch fall into *)

GroupOf(key) == LET p == ParseTotalsKey(key) IN [name |-> p.name, retired |-> p.retired]

GroupsOf(dispatch) == {GroupOf(key) : key \in dispatch}

AddressesOf(dispatch, g) ==
  {ParseTotalsKey(key).address : key \in {k \in dispatch : GroupOf(k) = g}}

(* Mutant of RowsOf: looks rows up by address alone. *)
RowsOfAddress(key) ==
  LET d == CHOOSE e \in DOMAIN rows : key \in e
  IN  {row \in UNION {rows[d][g] : g \in GroupsOf(d)} : row.address = ParseTotalsKey(key).address}

(* What loader.load(key) resolves to, from the dispatch that had the key *)
RowsOf(key) ==
  LET d == CHOOSE e \in DOMAIN rows : key \in e
  IN  {row \in rows[d][GroupOf(key)] : row.address = ParseTotalsKey(key).address}

-----------------------------------------------------------------------------
(* getTokensTotalByAddress drops the collections whose sums are all zero. *)
TotalsFrom(rs) ==
  {[name |-> x.name, collection |-> x.collection,
    amount |-> x.amount, minted |-> x.minted, retired |-> x.retired] :
   x \in {y \in rs : y.amount # 0 \/ y.minted # 0 \/ y.retired # 0}}

KeyFor(r, account) == TotalsKey(account, r.name, r.allRetired)

TotalsOf(r, account) ==
  IF account = NoAccount THEN {} ELSE TotalsFrom(RowsOf(KeyFor(r, account)))

(* The entities whose totals are not empty, with them *)
ByEntity(r) ==
  {x \in {[entity |-> e.id, tokens |-> TotalsOf(r, e.admin)] : e \in found[r]} : x.tokens # {}}

(* Mutant of Amounts: the amounts of an entity replace those before it. *)
AmountsOfOne(r) ==
  LET parts == UNION {{[entity |-> x.entity, total |-> t] : t \in x.tokens} : x \in ByEntity(r)}
      of(n) == {p \in parts : p.total.name = n /\ \A q \in parts : q.total.name = n => p.entity >= q.entity}
  IN  {[name    |-> n,
        amount  |-> SumFunction([p \in of(n) |-> p.total.amount]),
        minted  |-> SumFunction([p \in of(n) |-> p.total.minted]),
        retired |-> SumFunction([p \in of(n) |-> p.total.retired])] :
       n \in {p.total.name : p \in parts}}

(* getTokensTotalForCollectionAmounts: added up, by token name *)
Amounts(r) ==
  LET parts == UNION {{[entity |-> x.entity, total |-> t] : t \in x.tokens} : x \in ByEntity(r)}
      of(n) == {p \in parts : p.total.name = n}
  IN  {[name    |-> n,
        amount  |-> SumFunction([p \in of(n) |-> p.total.amount]),
        minted  |-> SumFunction([p \in of(n) |-> p.total.minted]),
        retired |-> SumFunction([p \in of(n) |-> p.total.retired])] :
       n \in {p.total.name : p \in parts}}

-----------------------------------------------------------------------------
(* The entities a request asks for: devices by owner, or by class *)
Related(r) ==
  IF field = "entities" THEN {e \in Entities : owner[e] = r.address}
                        ELSE {e \in Entities : e.class = r.address}

Unread(dispatch) == [g \in GroupsOf(dispatch) |-> Pending]

Init ==
  /\ TablesInit
  /\ \E s \in Owners : owner = [e \in Entities |-> s]
  /\ field \in Fields
  /\ batch \in IF field = "address" THEN Batches ELSE FanOuts
  /\ found = [r \in batch |-> IF field = "address" THEN {} ELSE Pending]
  /\ rows = LET loaded == IF field = "address" THEN {{KeyFor(r, r.address) : r \in batch}} ELSE {}
            IN  [d \in loaded |-> Unread(d)]
  /\ outcome = "waiting"
  /\ answers = [r \in {} |-> {}]
  /\ seen = [x \in {} |-> balance]

(* An entity changes hands, which only the query by owner can tell. *)
HandOver ==
  /\ field = "entities"
  /\ Commit
  /\ \E e \in Entities, s \in Owners : owner[e] # s /\ owner' = [owner EXCEPT ![e] = s]
  /\ UNCHANGED <<balance, loaderVars>>

(* The entities of request r are there; what is not loaded yet of their    *)
(* accounts is loaded, in one dispatch.                                    *)
EntitiesReturn(r) ==
  /\ outcome = "waiting" /\ found[r] = Pending
  /\ found' = [found EXCEPT ![r] = Related(r)]
  /\ LET keys == {KeyFor(r, e.admin) : e \in {f \in Related(r) : f.admin # NoAccount}}
         new  == keys \ UNION DOMAIN rows
     IN  rows' = IF new = {} THEN rows
                 ELSE [d \in DOMAIN rows \cup {new} |-> IF d = new THEN Unread(new) ELSE rows[d]]
  /\ UNCHANGED <<tableVars, owner, field, batch, outcome, answers, seen>>

(* One of the queries of a dispatch returns ... *)
QueryReturns(d, g) ==
  /\ outcome = "waiting" /\ rows[d][g] = Pending
  /\ rows' = [rows EXCEPT ![d][g] = GroupedRows(balance, AddressesOf(d, g), g.name, g.retired)]
  /\ seen' = [x \in DOMAIN seen \cup {<<d, g>>} |-> IF x = <<d, g>> THEN balance ELSE seen[x]]
  /\ UNCHANGED <<tableVars, owner, field, batch, found, outcome, answers>>

(* ... or fails, and Promise.all rejects every request of the batch. *)
QueryFails ==
  /\ outcome = "waiting"
  /\ \/ \E r \in batch : found[r] = Pending
     \/ \E d \in DOMAIN rows : \E g \in GroupsOf(d) : rows[d][g] = Pending
  /\ outcome' = "rejected"
  /\ UNCHANGED <<tableVars, owner, field, batch, found, rows, answers, seen>>

Answer ==
  /\ outcome = "waiting"
  /\ \A r \in batch : found[r] # Pending
  /\ \A d \in DOMAIN rows : \A g \in GroupsOf(d) : rows[d][g] # Pending
  /\ outcome' = "answered"
  /\ answers' = [r \in batch |->
                   CASE field = "address" -> TotalsOf(r, r.address)
                     [] field \in {"entities", "collection"} -> ByEntity(r)
                     [] field = "amounts" -> Amounts(r)]
  /\ UNCHANGED <<tableVars, owner, field, batch, found, rows, seen>>

Settled == outcome # "waiting" /\ UNCHANGED vars

Next ==
  \/ Index /\ UNCHANGED <<owner, loaderVars>>
  \/ HandOver
  \/ \E r \in batch : EntitiesReturn(r)
  \/ \E d \in DOMAIN rows : \E g \in GroupsOf(d) : QueryReturns(d, g)
  \/ QueryFails
  \/ Answer
  \/ Settled

Spec == Init /\ [][Next]_vars

-----------------------------------------------------------------------------
(* The holdings that the query for an account of request r saw *)
SeenBy(r, account) ==
  LET key == KeyFor(r, account)
  IN  seen[<<CHOOSE d \in DOMAIN rows : key \in d, [name |-> r.name, retired |-> r.allRetired]>>]

(* The tokens that request r shows of an account, by the reference *)
Shown(r, account) ==
  IF account = NoAccount THEN {}
  ELSE LET t == SeenBy(r, account)
       IN  ShownTokens(t, t, [r EXCEPT !.address = account])

(***************************************************************************)
(* token.ts:77-80 and :157-159: whatever else is in the batch, in whatever *)
(* order its queries return and whatever is committed meanwhile, a request *)
(* gets what folding the tokens of its address, or of each of its entities,*)
(* gives in the snapshot the query for that account saw.                   *)
(***************************************************************************)
TotalsAreTheFold ==
  outcome = "answered" =>
    \A r \in batch :
      CASE field = "address" -> answers[r] = FoldedTotals(Shown(r, r.address))
        [] field \in {"entities", "collection"} ->
             answers[r] = {[entity |-> e.id, tokens |-> FoldedTotals(Shown(r, e.admin))] :
                             e \in {f \in found[r] : Shown(r, f.admin) # {}}}
        [] OTHER -> TRUE

(***************************************************************************)
(* token.ts:396-417: the amounts of a collection are, for every token      *)
(* name, the sums over all tokens of that name of all its entities, with   *)
(* an account counted once for each entity that has it.                    *)
(***************************************************************************)
AmountsAddUp ==
  outcome = "answered" /\ field = "amounts" =>
    \A r \in batch :
      LET all   == UNION {{[entity |-> e.id, is |-> x] : x \in Shown(r, e.admin)} : e \in found[r]}
          of(n) == {y \in all : y.is.token.name = n}
      IN  answers[r] = {[name    |-> n,
                         amount  |-> SumFunction([y \in of(n) |-> y.is.shown.amount]),
                         minted  |-> SumFunction([y \in of(n) |-> y.is.shown.minted]),
                         retired |-> SumFunction([y \in of(n) |-> y.is.shown.retired])] :
                          n \in {y.is.token.name : y \in all}}

(***************************************************************************)
(* token.ts:113-118 and :411-413: if no two entities of a collection share *)
(* an account, its amounts with allEntityRetired have, of the tokens of a  *)
(* name that one of the accounts minted, every retirement once, whoever    *)
(* holds them now, provided none of these tokens was minted at two of the  *)
(* accounts.  Of tokens minted elsewhere they promise nothing.             *)
(***************************************************************************)
RetirementsCountedOnce ==
  outcome = "answered" /\ field = "amounts" =>
    \A r \in batch :
      LET with       == {e \in found[r] : e.admin # NoAccount}
          accounts   == {e.admin : e \in with}
          now        == \A a \in accounts : SeenBy(r, a) = balance
          minters(k) == {a \in accounts : balance[a][k].minted # 0}
          named(n)   == {k \in Tokens : k.name = n}
      IN  r.allRetired /\ now /\ Cardinality(accounts) = Cardinality(with) =>
            \A x \in answers[r] :
              (\A k \in named(x.name) : Cardinality(minters(k)) =< 1)
              => x.retired = SumFunction([k \in {l \in named(x.name) : minters(l) # {}} |->
                                         RetiredEver(balance, k)])

=============================================================================
