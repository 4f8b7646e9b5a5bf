------------------------------- MODULE TokenBatches -------------------------------
(***************************************************************************)
(* The batch callbacks of loaders/token.ts as PostGraphile calls them: one *)
(* batch is for getAccountTokens or for one of the getTokensTotal* fields. *)
(***************************************************************************)
EXTENDS TokenTables

VARIABLES
  detail,                                 \* whether the batch is for getAccountTokens
  batch, rows, outcome, seen,             \* of either
  owner, field, found, answers,           \* of TokenTotals
  tokens, todo, seenRetired               \* of TokenAccounts

totalsOnly   == <<owner, field, found, answers>>
accountsOnly == <<tokens, todo, seenRetired>>
batchVars == <<tableVars, detail, batch, rows, outcome, seen, totalsOnly, accountsOnly>>

Totals   == INSTANCE TokenTotals
Accounts == INSTANCE TokenAccounts

None == [x \in {} |-> {}]

TotalsInit ==
  /\ ~ detail /\ Totals!Init
  /\ tokens = None /\ todo = None /\ seenRetired = None

AccountsInit ==
  /\ detail /\ Accounts!Init
  /\ owner = None /\ field = "none" /\ found = None /\ answers = None

Init == detail \in BOOLEAN /\ (TotalsInit \/ AccountsInit)

Next ==
  /\ UNCHANGED detail
  /\ \/ ~ detail /\ Totals!Next /\ UNCHANGED accountsOnly
     \/ detail /\ Accounts!Next /\ UNCHANGED totalsOnly

Spec == Init /\ [][Next]_batchVars

-----------------------------------------------------------------------------
(* The properties of the two, stated there *)
TotalsAreTheFold       == ~ detail => Totals!TotalsAreTheFold
AmountsAddUp           == ~ detail => Totals!AmountsAddUp
RetirementsCountedOnce == ~ detail => Totals!RetirementsCountedOnce
TokensOfTwoSnapshots   == detail => Accounts!TokensOfTwoSnapshots
AllRetiredCoversOwn    == detail => Accounts!AllRetiredCoversOwn

=============================================================================
