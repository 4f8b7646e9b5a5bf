-------------------------------- MODULE RequestLog --------------------------------
(***************************************************************************)
(* request-log.ts and plugins/request-errors.ts: one log line per request, *)
(* written when the response finishes or its connection closes, whichever  *)
(* comes first.  The line says whether the client went away, and whether   *)
(* the response carried GraphQL errors: those of an execution are left on  *)
(* res.locals by the plugin, those of a request that was rejected before   *)
(* execution show in the first bytes of the response.  Parsed queries are  *)
(* kept in an LRU cache.                                                   *)
(*                                                                         *)
(* A request to POST /graphql is for a document, a query text with an      *)
(* operation name.  Other requests are those whose body is never parsed.   *)
(***************************************************************************)
EXTENDS InsertionMap, FiniteSets

CONSTANTS
  Requests,
  Documents,
  Misleading,     \* documents whose results may have "errors" in their first
                  \* 64 bytes, as a key at any depth or a whole string value
  Streamed,       \* documents whose result may come in parts (@stream, @defer)
  ParseCacheMax   \* PARSE_CACHE_MAX

ASSUME RequestLogAssumption ==
  /\ Misleading \subseteq Documents /\ Streamed \subseteq Documents
  /\ ParseCacheMax \in Nat \ {0}

VARIABLES
  document,    \* what each request asks for
  stage,       \* how far its handling has come
  failed,      \* auxiliary: whether its response carries errors
  gqlErrors,   \* whether res.locals.gqlErrors is set
  head,        \* whether the first bytes of the response mention "errors"
  delivered,   \* res.writableFinished: it has been handed over in full
  connection,  \* of its response: open, finished, closed
  logged,      \* the flag of emit
  log,         \* the lines written
  parseCache,
  recent       \* auxiliary: documents logged, least recently first

handlingVars == <<document, stage, failed, gqlErrors, head>>
emitVars     == <<logged, log, parseCache, recent>>
vars == <<handlingVars, delivered, connection, emitVars>>

(***************************************************************************)
(*   received, parsed, executed   the handling is under way                *)
(*   ended, refused               res.end has been called, after or before *)
(*                                the body was parsed                      *)
(***************************************************************************)
Stages == {"received", "parsed", "executed", "ended", "refused"}

Init ==
  /\ document \in [Requests -> Documents]
  /\ stage = [r \in Requests |-> "received"]
  /\ failed = [r \in Requests |-> FALSE]
  /\ gqlErrors = [r \in Requests |-> FALSE]
  /\ head = [r \in Requests |-> FALSE]
  /\ delivered = [r \in Requests |-> FALSE]
  /\ connection = [r \in Requests |-> "open"]
  /\ logged = [r \in Requests |-> FALSE]
  /\ log = << >>
  /\ parseCache = EmptyMap
  /\ recent = << >>

-----------------------------------------------------------------------------
(* Handling, further down the chain.  It goes on after the client has left.*)

Move(r, from, to) == stage[r] = from /\ stage' = [stage EXCEPT ![r] = to]

(* express.json has parsed the body. *)
ParseBody(r) ==
  /\ Move(r, "received", "parsed")
  /\ UNCHANGED <<document, failed, gqlErrors, head, delivered, connection, emitVars>>

(* The rate limiter or express.json answers; req.body stays unset. *)
TurnAway(r) ==
  /\ Move(r, "received", "refused")
  /\ UNCHANGED <<document, failed, gqlErrors, head, delivered, connection, emitVars>>

(* The document does not parse or validate: {"errors": ... with status 400.*)
RejectDocument(r) ==
  /\ Move(r, "parsed", "ended")
  /\ failed' = [failed EXCEPT ![r] = TRUE]
  /\ head' = [head EXCEPT ![r] = TRUE]
  /\ UNCHANGED <<document, gqlErrors, delivered, connection, emitVars>>

(* A hit of the block cache, where only responses without errors are.      *)
(* Whether the data mentions "errors" early depends on the data.           *)
ServeCached(r) ==
  /\ Move(r, "parsed", "ended")
  /\ \E mentions \in BOOLEAN :
       /\ mentions => document[r] \in Misleading
       /\ head' = [head EXCEPT ![r] = mentions]
  /\ UNCHANGED <<document, failed, gqlErrors, delivered, connection, emitVars>>

(* Mutant of Execute: the plugin does not look at the result.        *)
ExecuteUnseen(r, errors) ==
  /\ Move(r, "parsed", "executed")
  /\ failed' = [failed EXCEPT ![r] = errors]
  /\ UNCHANGED <<document, gqlErrors, head, delivered, connection, emitVars>>

(* grafast executes the document, with or without errors; the plugin sees  *)
(* the result before it is sent, and does not look into one that comes in  *)
(* parts.                                                                  *)
Execute(r, errors) ==
  /\ Move(r, "parsed", "executed")
  /\ failed' = [failed EXCEPT ![r] = errors]
  /\ \E inParts \in BOOLEAN :
       /\ inParts => document[r] \in Streamed
       /\ gqlErrors' = [gqlErrors EXCEPT ![r] = errors /\ ~ inParts]
  /\ UNCHANGED <<document, head, delivered, connection, emitVars>>

(* The result is sent, data first: errors show up early only if the data   *)
(* is short.                                                               *)
Respond(r) ==
  /\ Move(r, "executed", "ended")
  /\ \E mentions, short \in BOOLEAN :
       /\ mentions => document[r] \in Misleading
       /\ head' = [head EXCEPT ![r] = mentions \/ (failed[r] /\ short)]
  /\ UNCHANGED <<document, failed, gqlErrors, delivered, connection, emitVars>>

-----------------------------------------------------------------------------
(* emit *)

(* Mutant of Looked: a document that is found keeps its place. *)
LookedInPlace(m, d) ==
  IF Has(m, d) THEN m
  ELSE Put(IF Len(m) >= ParseCacheMax THEN DropOldest(m) ELSE m, d, d)

(* gqlInfoFor: look d up, or parse it and make room for it. *)
Looked(m, d) ==
  IF Has(m, d) THEN Put(Delete(m, d), d, Lookup(m, d))
  ELSE Put(IF Len(m) >= ParseCacheMax THEN DropOldest(m) ELSE m, d, d)

(* d goes to the end of s, from where it was if it was there. *)
MadeLast(s, d) ==
  LET places == {i \in DOMAIN s : s[i] = d}
  IN  Append(IF places = {} THEN s ELSE Without(s, CHOOSE i \in places : TRUE), d)

HasBody(r) == stage[r] \notin {"received", "refused"}

(* Mutant of Line: aborted is read off res.writableEnded. *)
LineEnded(r) ==
  [request |-> r, aborted |-> stage[r] \notin {"ended", "refused"},
   errors |-> HasBody(r) /\ (gqlErrors[r] \/ head[r])]

Line(r) ==
  [request |-> r, aborted |-> ~ delivered[r],
   errors |-> HasBody(r) /\ (gqlErrors[r] \/ head[r])]

Emit(r) ==
  IF logged[r] THEN UNCHANGED emitVars
  ELSE /\ logged' = [logged EXCEPT ![r] = TRUE]
       /\ log' = Append(log, Line(r))
       /\ IF HasBody(r)
          THEN /\ parseCache' = Looked(parseCache, document[r])
               /\ recent' = MadeLast(recent, document[r])
          ELSE UNCHANGED <<parseCache, recent>>

(* What was written is handed over in full; a response that is ended after *)
(* its connection has closed goes nowhere.                                 *)
Deliver(r) ==
  /\ stage[r] \in {"ended", "refused"} /\ connection[r] = "open" /\ ~ delivered[r]
  /\ delivered' = [delivered EXCEPT ![r] = TRUE]
  /\ UNCHANGED <<handlingVars, connection, emitVars>>

(* finish is emitted, in a turn of its own. *)
Finish(r) ==
  /\ delivered[r] /\ connection[r] = "open"
  /\ connection' = [connection EXCEPT ![r] = "finished"]
  /\ Emit(r)
  /\ UNCHANGED <<handlingVars, delivered>>

(* The connection closes, at any time. *)
Close(r) ==
  /\ connection[r] # "closed"
  /\ connection' = [connection EXCEPT ![r] = "closed"]
  /\ Emit(r)
  /\ UNCHANGED <<handlingVars, delivered>>

-----------------------------------------------------------------------------
Handle(r) ==
  \/ ParseBody(r) \/ TurnAway(r) \/ RejectDocument(r) \/ ServeCached(r)
  \/ \E errors \in BOOLEAN : Execute(r, errors)
  \/ Respond(r)

Done ==
  /\ \A r \in Requests : stage[r] \in {"ended", "refused"} /\ connection[r] = "closed"
  /\ UNCHANGED vars

Next == (\E r \in Requests : Handle(r) \/ Deliver(r) \/ Finish(r) \/ Close(r)) \/ Done

Spec == Init /\ [][Next]_vars

-----------------------------------------------------------------------------
(***************************************************************************)
(* request-log.ts:105-108, :123 and :155-156: a response that is through,  *)
(* in whatever way, has exactly one line, and it says that the client went *)
(* away exactly if the response was not handed over in full, whether       *)
(* finish came before close or not, and whatever the handling does later.  *)
(***************************************************************************)
OneLineEach ==
  \A r \in Requests :
    LET lines == {i \in DOMAIN log : log[i].request = r}
    IN  /\ Cardinality(lines) = (IF connection[r] = "open" THEN 0 ELSE 1)
        /\ \A i \in lines : log[i].aborted <=> ~ delivered[r]

(***************************************************************************)
(* request-log.ts:77-84 and README.md:115-117: the line of a response that *)
(* was handed over says that there were GraphQL errors if there were,      *)
(* partial failures included, unless the result may have come in parts     *)
(* (request-errors.ts:74-76).  A line says so of a response without errors *)
(* only if its data may mention "errors" in the first 64 bytes, which is   *)
(* all that request-log.ts:139 looks at.                                   *)
(***************************************************************************)
ErrorsReported ==
  \A i \in DOMAIN log :
    LET r == log[i].request
    IN  /\ ~ log[i].aborted /\ failed[r] /\ document[r] \notin Streamed => log[i].errors
        /\ log[i].errors => failed[r] \/ document[r] \in Misleading

(***************************************************************************)
(* request-log.ts:26-28: the documents logged last are the ones that are   *)
(* not parsed again, as many as the cache holds.                           *)
(***************************************************************************)
ParseCacheIsLru ==
  LET kept == IF Len(recent) < ParseCacheMax THEN Len(recent) ELSE ParseCacheMax
  IN  KeyOrder(parseCache) = SubSeq(recent, Len(recent) - kept + 1, Len(recent))

=============================================================================
