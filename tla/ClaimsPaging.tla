------------------------------ MODULE ClaimsPaging ------------------------------
(***************************************************************************)
(* GET /api/claims/collection/:id/claims (loaders/claims.ts and            *)
(* rest/claims.ts): a client pages through the claims of one collection    *)
(* while the indexer submits claims, evaluates them and loads their schema *)
(* types.  Each request runs two queries, each in a snapshot of its own: a *)
(* probe for claims without a schema type, then the page.                  *)
(*                                                                         *)
(* A claim is its submission date and its id, the pair the rows are        *)
(* ordered by.  Claims of other collections and what a row shows are left  *)
(* out.                                                                    *)
(***************************************************************************)
EXTENDS Integers, Sequences, FiniteSets, SequencesExt, Listing

CONSTANTS
  Dates, Ids,       \* a claim is submitted in the block of a date, with an id
  Types,            \* schema types
  Statuses,         \* evaluation statuses other than 0
  MaxEvaluations,   \* bound: evaluations, of all claims together
  Takes,            \* the page sizes clients ask for
  NotANumber,       \* what Number() makes of take=abc
  DefaultTake,      \* 1000: the limit that replaces one that is no number
  Orders,           \* the values of orderBy clients send
  NoFilter,         \* no filter
  Null              \* SQL's null: a type not loaded, no evaluation joined

ASSUME PagingAssumption ==
  /\ Dates \subseteq Nat /\ IsFiniteSet(Dates)
  /\ Ids \subseteq Nat \ {0} /\ IsFiniteSet(Ids)
  /\ MaxEvaluations \in Nat
  /\ Takes \subseteq Nat \cup {-1, NotANumber} /\ DefaultTake \in Nat \ {0}
  /\ Statuses \subseteq Nat \ {0}
  /\ Orders \subseteq {"asc", "desc", "DESC"}
  /\ {NoFilter, Null} \cap Types = {} /\ {NoFilter, Null} \cap Statuses = {}

Claims == [date : Dates, id : Ids]

NoCursor == [date |-> 0, id |-> 0]

Queries == [type : Types \cup {NoFilter}, status : Statuses \cup {0, NoFilter},
            take : Takes, order : Orders]

VARIABLES
  claims,    \* the claims submitted so far
  type,      \* the schema type of each, Null until it is loaded
  history,   \* the statuses of the evaluations of each
  pc,        \* what the client, or the request it sent, does next
  query,     \* the filters, page size and order the client asked for
  cursor,    \* the cursor it sends, or NoCursor
  received,  \* the claims of the pages so far
  owed       \* auxiliary: the claims that were there when the client started
             \* and that, for all one knows, have matched its filters since

indexerVars == <<claims, type, history>>
clientVars  == <<pc, query, cursor, received, owed>>
vars == <<indexerVars, clientVars>>

-----------------------------------------------------------------------------
(* The query of claims.ts:54-99, over the rows of Claim LEFT JOIN Evaluation *)

(* a row of claim c for each evaluation of it, or one without *)
JoinedStatuses(c) == IF history[c] = << >> THEN <<Null>> ELSE history[c]

StatusMatches(s, filter) ==
  \/ filter = NoFilter
  \/ filter = 0 /\ s = Null
  \/ s # Null /\ s = filter

TypeMatches(c, filter) == filter = NoFilter \/ type[c] = filter

Earlier(a, b) == a.date < b.date \/ (a.date = b.date /\ a.id < b.id)

(* Mutant of AfterCursor: compares dates, inclusively. *)
FromCursorDate(c, order, cur) ==
  \/ cur = NoCursor
  \/ order = "desc" /\ c.date =< cur.date
  \/ order # "desc" /\ cur.date =< c.date

(* Mutant of AfterCursor: does not break ties of date by id. *)
AfterCursorDate(c, order, cur) ==
  \/ cur = NoCursor
  \/ order = "desc" /\ c.date < cur.date
  \/ order # "desc" /\ cur.date < c.date

(* The comparison with the cursor knows 'desc' only in lower case. *)
AfterCursor(c, order, cur) ==
  \/ cur = NoCursor
  \/ order = "desc" /\ Earlier(c, cur)
  \/ order # "desc" /\ Earlier(cur, c)

MatchingRows(c, statusFilter) ==
  {[claim |-> c, n |-> n] : n \in {m \in DOMAIN JoinedStatuses(c) :
                                     StatusMatches(JoinedStatuses(c)[m], statusFilter)}}

RowsFrom(typeFilter, statusFilter, order, cur) ==
  UNION {MatchingRows(c, statusFilter) :
           c \in {d \in claims : TypeMatches(d, typeFilter) /\ AfterCursor(d, order, cur)}}

(* ORDER BY takes the keyword in either case.  The rows of one claim tie;  *)
(* they are listed in the order of its evaluations.                        *)
RowBefore(order, a, b) ==
  \/ IF order \in {"desc", "DESC"} THEN Earlier(b.claim, a.claim) ELSE Earlier(a.claim, b.claim)
  \/ a.claim = b.claim /\ a.n < b.n

OrderBy(order, S) == {p \in S \X S : RowBefore(order, p[1], p[2])}

Rows(typeFilter, statusFilter, order, cur) ==
  LET found == RowsFrom(typeFilter, statusFilter, order, cur)
      rows  == InOrder(found, OrderBy(order, found))
  IN  [i \in DOMAIN rows |-> rows[i].claim]

(* LIMIT *)
Limited(rows, n) == SubSeq(rows, 1, IF n < Len(rows) THEN n ELSE Len(rows))

-----------------------------------------------------------------------------
Init ==
  /\ claims \in SUBSET {c \in Claims : \A d \in Dates : c.date =< d}
  /\ type \in [Claims -> Types \cup {Null}]
  /\ \A c \in Claims : c \notin claims => type[c] = Null
  /\ history = [c \in Claims |-> << >>]
  /\ pc = "start"
  /\ query \in Queries
  /\ cursor = NoCursor
  /\ received = << >>
  /\ owed = {}

(* What the client should see of claim c, if it stays as it is. *)
MayMatch(c) ==
  /\ query.type = NoFilter \/ type[c] \in {query.type, Null}
  /\ \E i \in DOMAIN JoinedStatuses(c) : StatusMatches(JoinedStatuses(c)[i], query.status)

-----------------------------------------------------------------------------
(* The indexer, another process.  It commits the claims of a block at once,*)
(* and block times increase.                                               *)
SubmitClaims ==
  \E d \in Dates, ids \in SUBSET Ids :
    /\ \A c \in claims : c.date < d
    /\ ids # {}
    /\ claims' = claims \cup {[date |-> d, id |-> i] : i \in ids}
    /\ UNCHANGED <<type, history, clientVars>>

Evaluations == Cardinality(UNION {{c} \X DOMAIN history[c] : c \in claims})

(* Mutant of Evaluate: an evaluation of status 0 is written. *)
EvaluateAsPending(c, s) ==
  /\ c \in claims /\ Evaluations < MaxEvaluations
  /\ history' = [history EXCEPT ![c] = Append(@, 0)]
  /\ UNCHANGED <<claims, type, pc, query, cursor, received, owed>>

Evaluate(c, s) ==
  /\ c \in claims /\ Evaluations < MaxEvaluations
  /\ history' = [history EXCEPT ![c] = Append(@, s)]
  /\ UNCHANGED <<claims, type, pc, query, cursor, received>>
  /\ owed' = {d \in owed : MayMatch(d)'}

(* The cron that fetches schema types from cellnode *)
LoadType(c, t) ==
  /\ c \in claims /\ type[c] = Null
  /\ type' = [type EXCEPT ![c] = t]
  /\ UNCHANGED <<claims, history, pc, query, cursor, received>>
  /\ owed' = {d \in owed : MayMatch(d)'}

-----------------------------------------------------------------------------
(* The client starts with no cursor, or goes on with the one it was given. *)
Request ==
  /\ pc \in {"start", "more", "retry"}
  /\ pc' = "probe"
  /\ owed' = IF pc = "start" THEN {c \in claims : MayMatch(c)} ELSE owed
  /\ UNCHANGED <<indexerVars, query, cursor, received>>

(* Mutant of ProbeRows: query(1, undefined), which filters by no type. *)
AnyRows == {c \in claims :
              \E i \in DOMAIN JoinedStatuses(c) :
                StatusMatches(JoinedStatuses(c)[i], query.status)}

(* query(1, null): is a claim without a schema type, of that status, left? *)
ProbeRows == {c \in claims :
                /\ type[c] = Null
                /\ \E i \in DOMAIN JoinedStatuses(c) :
                     StatusMatches(JoinedStatuses(c)[i], query.status)}

Probe ==
  /\ pc = "probe"
  /\ pc' = IF ProbeRows # {} /\ query.type # NoFilter THEN "retry" ELSE "page"
  /\ UNCHANGED <<indexerVars, query, cursor, received, owed>>

(* Mutant of Limit: reads no row beyond the page. *)
LimitOfPage == IF query.take \in {NotANumber, -1} THEN DefaultTake ELSE query.take

(***************************************************************************)
(* The page.  With take=0 the only row is popped and the cursor is read    *)
(* off an empty array: the request fails.  A page size that is no number   *)
(* becomes the default limit, and no number of rows is larger than it;     *)
(* take=-1 becomes the default limit too, and any number of rows is larger.*)
(***************************************************************************)
Limit == IF query.take \in {NotANumber, -1} THEN DefaultTake ELSE query.take + 1

(* The rows behind the cursor *)
Left == Rows(query.type, query.status, query.order, cursor)

HasNextPage(rows) == query.take # NotANumber /\ Len(rows) > query.take

Page ==
  /\ pc = "page"
  /\ \E left \in {Left} : \E rows \in {Limited(left, Limit)} :
       LET data == IF HasNextPage(rows) THEN Front(rows) ELSE rows
       IN  IF rows # << >> /\ data # << >>
           THEN /\ pc' = IF HasNextPage(rows) THEN "more" ELSE "done"
                /\ cursor' = Last(data)
                /\ received' = received \o data
           ELSE /\ pc' = IF rows = << >> THEN "done" ELSE "failed"
                /\ UNCHANGED <<cursor, received>>
  /\ UNCHANGED <<indexerVars, query, owed>>

Client == Request \/ Probe \/ Page

Finished == pc \in {"done", "failed"} /\ UNCHANGED vars

Next ==
  \/ SubmitClaims
  \/ \E c \in Claims, s \in Statuses : Evaluate(c, s)
  \/ \E c \in Claims, t \in Types : LoadType(c, t)
  \/ Client
  \/ Finished

Spec == Init /\ [][Next]_vars

(* The server answers, the client goes on, and the cron loads every type. *)
Fairness ==
  /\ WF_vars(Client)
  /\ \A c \in Claims : WF_vars(\E t \in Types : LoadType(c, t))

FairSpec == Spec /\ Fairness

-----------------------------------------------------------------------------
(* The orders the handler's signature has *)
OrderInSignature == query.order \in {"asc", "desc"}

(* Type invariant. *)
TypeOK ==
  /\ claims \subseteq Claims
  /\ type \in [Claims -> Types \cup {Null}]
  /\ Evaluations =< MaxEvaluations
  /\ \A c \in Claims : ToSet(history[c]) \subseteq Statuses
  /\ pc \in {"start", "probe", "page", "more", "retry", "done", "failed"}
  /\ query \in Queries
  /\ cursor \in Claims \cup {NoCursor}
  /\ ToSet(received) \subseteq Claims
  /\ owed \subseteq claims

(***************************************************************************)
(* claims.ts:149-166: a client that was told there is no next page has     *)
(* every claim that was there when it started and that its filters keep,   *)
(* also one whose schema type was not loaded yet: cursors, ties of date,   *)
(* claims arriving meanwhile and histories of several evaluations make it  *)
(* skip none.  A page size that is no number promises nothing: it gets the *)
(* default limit's rows and is told that this is all.                      *)
(***************************************************************************)
NothingSkipped ==
  OrderInSignature /\ pc = "done" /\ query.take # NotANumber => owed \subseteq ToSet(received)

(***************************************************************************)
(* claims.ts:86-97: the pages put together are in the order asked for, and *)
(* a claim is in them once, unless it has a history: its rows, one after   *)
(* the other, all are of the page that has the first of them.              *)
(***************************************************************************)
PagesInOrder ==
  OrderInSignature =>
    \A i, j \in DOMAIN received :
      i < j => \/ IF query.order = "desc" THEN Earlier(received[j], received[i])
                                          ELSE Earlier(received[i], received[j])
               \/ received[i] = received[j] /\ j - i < Len(history[received[i]])

(***************************************************************************)
(* claims.ts:165, "plus 1 to check if there is a next page": the answer    *)
(* says there is a next page exactly when its cursor leads to one.         *)
(***************************************************************************)
HasNextPageIsTrue ==
  [][Page /\ pc' # "failed" /\ query.take # NotANumber =>
       (pc' = "more" <=> Rows(query.type, query.status, query.order, cursor)' # << >>)]_vars

(***************************************************************************)
(* The same where no claim has a history: then the flag and the cursor     *)
(* agree, whatever the filters, upwards and downwards.                     *)
(***************************************************************************)
HasNextPageUnlessHistory ==
  [][/\ Page /\ pc' # "failed" /\ query.take # NotANumber /\ OrderInSignature
     /\ \A c \in claims : Len(history[c]) < 2
     => (pc' = "more" <=> Rows(query.type, query.status, query.order, cursor)' # << >>)]_vars

(***************************************************************************)
(* A client that follows the cursors, and repeats a request that was told  *)
(* the types are not loaded, comes to the end.                             *)
(***************************************************************************)
PagingEnds == pc = "start" ~> pc \in {"done", "failed"}

=============================================================================
