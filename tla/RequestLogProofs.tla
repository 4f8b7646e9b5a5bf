----------------------------- MODULE RequestLogProofs -----------------------------
(***************************************************************************)
(* For any number of requests, documents and whatever size of the parse    *)
(* cache: one log line for each response that is through, and it says      *)
(* whether the client went away and, of errors, what there is to say.      *)
(***************************************************************************)
EXTENDS RequestLog, ResponseRecorder, ErrorSummary, DataLemmas

Connections == {"open", "finished", "closed"}

LineRecords == [request : Requests, aborted : BOOLEAN, errors : BOOLEAN]

LogTypes ==
  /\ stage \in [Requests -> Stages]
  /\ failed \in [Requests -> BOOLEAN] /\ gqlErrors \in [Requests -> BOOLEAN]
  /\ head \in [Requests -> BOOLEAN]
  /\ delivered \in [Requests -> BOOLEAN] /\ connection \in [Requests -> Connections]
  /\ logged \in [Requests -> BOOLEAN]
  /\ log \in Seq(LineRecords)

(* Where errors show, by how far the handling has come. *)
HandlingInv ==
  \A r \in Requests :
    /\ stage[r] \in {"received", "parsed", "refused"} =>
         ~ failed[r] /\ ~ gqlErrors[r] /\ ~ head[r]
    /\ stage[r] = "executed" => ~ head[r]
    /\ gqlErrors[r] => failed[r]
    /\ failed[r] => gqlErrors[r] \/ head[r] \/ document[r] \in Streamed
    /\ head[r] => failed[r] \/ document[r] \in Misleading

(* Only what was ended is handed over, and what finished has been. *)
DeliveryInv ==
  \A r \in Requests :
    /\ delivered[r] => stage[r] \in {"ended", "refused"}
    /\ connection[r] = "finished" => delivered[r]

(* Of which responses there are lines. *)
CountInv ==
  \A r \in Requests :
    /\ logged[r] <=> connection[r] # "open"
    /\ ~ logged[r] => \A i \in DOMAIN log : log[i].request # r
    /\ logged[r] => \E i \in DOMAIN log : \A j \in DOMAIN log : log[j].request = r <=> j = i

(* What a line says, about the handling as it is by now. *)
LineTrue(line) ==
  /\ line.aborted <=> ~ delivered[line.request]
  /\ ~ line.aborted => /\ stage[line.request] \in {"ended", "refused"}
                       /\ failed[line.request] =>
                            line.errors \/ document[line.request] \in Streamed
  /\ line.errors => /\ stage[line.request] \in {"executed", "ended"}
                    /\ failed[line.request] \/ document[line.request] \in Misleading

LinesInv == \A i \in DOMAIN log : LineTrue(log[i])

LogInv == LogTypes /\ HandlingInv /\ DeliveryInv /\ CountInv /\ LinesInv

-----------------------------------------------------------------------------

(* Nothing is logged at the start. *)
LEMMA LogInvInit == Init => LogInv
<1> SUFFICES ASSUME Init PROVE LogInv
  OBVIOUS
<1>1. LogTypes
  BY DEF Init, LogTypes, Stages, Connections
<1>2. HandlingInv /\ DeliveryInv /\ CountInv /\ LinesInv
  BY DEF Init, HandlingInv, DeliveryInv, CountInv, LinesInv
<1> QED BY <1>1, <1>2 DEF LogInv

-----------------------------------------------------------------------------
(* Handling leaves the lines alone, and what they say remains true: a line  *)
(* of a response that was handed over is about a handling that is through.  *)

LEMMA HandleTypes ==
  ASSUME LogInv, NEW r \in Requests, Handle(r)
  PROVE  LogTypes' /\ UNCHANGED <<document, delivered, connection, logged, log>>
<1>1. UNCHANGED <<document, delivered, connection, logged, log>>
  BY DEF Handle, ParseBody, TurnAway, RejectDocument, ServeCached, Execute, Respond, emitVars
<1>2. stage' \in [Requests -> Stages]
  BY DEF LogInv, LogTypes, Handle, ParseBody, TurnAway, RejectDocument, ServeCached, Execute,
         Respond, Move, Stages
<1>3. failed' \in [Requests -> BOOLEAN] /\ gqlErrors' \in [Requests -> BOOLEAN]
  <2>1. failed \in [Requests -> BOOLEAN] /\ gqlErrors \in [Requests -> BOOLEAN]
    BY DEF LogInv, LogTypes
  <2>2. ASSUME NEW wrong \in BOOLEAN, Execute(r, wrong)
        PROVE  failed' \in [Requests -> BOOLEAN] /\ gqlErrors' \in [Requests -> BOOLEAN]
    <3>1. PICK inParts \in BOOLEAN :
            gqlErrors' = [gqlErrors EXCEPT ![r] = wrong /\ ~ inParts]
      BY <2>2 DEF Execute
    <3> DEFINE b == wrong /\ ~ inParts
    <3>2. b \in BOOLEAN
      OBVIOUS
    <3>3. gqlErrors' = [gqlErrors EXCEPT ![r] = b]
      BY <3>1
    <3> HIDE DEF b
    <3> QED BY <2>1, <2>2, <3>2, <3>3 DEF Execute
  <2> QED BY <2>1, <2>2 DEF Handle, ParseBody, TurnAway, RejectDocument, ServeCached, Respond
<1>4. head' \in [Requests -> BOOLEAN]
  <2>1. head \in [Requests -> BOOLEAN]
    BY DEF LogInv, LogTypes
  <2>2. \E b \in BOOLEAN : head' = [head EXCEPT ![r] = b] \/ head' = head
    <3>1. CASE RejectDocument(r)
      BY <3>1 DEF RejectDocument
    <3>2. CASE ServeCached(r)
      BY <3>2 DEF ServeCached
    <3>3. CASE Respond(r)
      <4>1. PICK mentions \in BOOLEAN, short \in BOOLEAN :
              head' = [head EXCEPT ![r] = mentions \/ (failed[r] /\ short)]
        BY <3>3 DEF Respond
      <4> DEFINE b == mentions \/ (failed[r] /\ short)
      <4>2. b \in BOOLEAN
        OBVIOUS
      <4>3. head' = [head EXCEPT ![r] = b]
        BY <4>1
      <4> QED BY <4>2, <4>3
    <3>4. CASE UNCHANGED head
      BY <3>4
    <3> QED BY <3>1, <3>2, <3>3, <3>4 DEF Handle, ParseBody, TurnAway, Execute
  <2> QED BY <2>1, <2>2
<1> QED BY <1>1, <1>2, <1>3, <1>4 DEF LogInv, LogTypes

(* What a step of handling does to its own request, and to the others *)
LEMMA HandleEffect ==
  ASSUME LogInv, NEW r \in Requests, Handle(r)
  PROVE  /\ \A q \in Requests : q # r =>
              /\ stage'[q] = stage[q] /\ failed'[q] = failed[q]
              /\ gqlErrors'[q] = gqlErrors[q] /\ head'[q] = head[q]
         /\ \/ /\ stage[r] = "received" /\ stage'[r] \in {"parsed", "refused"}
               /\ UNCHANGED <<failed, gqlErrors, head>>
            \/ /\ stage[r] = "parsed" /\ stage'[r] = "ended"
               /\ gqlErrors' = gqlErrors
               /\ \/ failed'[r] /\ head'[r]
                  \/ failed' = failed /\ (head'[r] => document[r] \in Misleading)
            \/ /\ stage[r] = "parsed" /\ stage'[r] = "executed"
               /\ head' = head
               /\ gqlErrors'[r] => failed'[r]
               /\ failed'[r] => gqlErrors'[r] \/ document[r] \in Streamed
            \/ /\ stage[r] = "executed" /\ stage'[r] = "ended"
               /\ UNCHANGED <<failed, gqlErrors>>
               /\ head'[r] => document[r] \in Misleading \/ failed[r]
<1>1. CASE ParseBody(r) \/ TurnAway(r)
  BY <1>1 DEF LogInv, LogTypes, ParseBody, TurnAway, Move
<1>2. CASE RejectDocument(r) \/ ServeCached(r)
  BY <1>2 DEF LogInv, LogTypes, RejectDocument, ServeCached, Move
<1>3. ASSUME NEW wrong \in BOOLEAN, Execute(r, wrong)
      PROVE  /\ stage[r] = "parsed" /\ stage'[r] = "executed" /\ head' = head
             /\ gqlErrors'[r] => failed'[r]
             /\ failed'[r] => gqlErrors'[r] \/ document[r] \in Streamed
             /\ \A q \in Requests : q # r =>
                  /\ stage'[q] = stage[q] /\ failed'[q] = failed[q]
                  /\ gqlErrors'[q] = gqlErrors[q]
  BY <1>3 DEF LogInv, LogTypes, Execute, Move
<1>4. CASE Respond(r)
  BY <1>4 DEF LogInv, LogTypes, Respond, Move
<1> QED BY <1>1, <1>2, <1>3, <1>4 DEF Handle

(* Handling a request keeps the invariant. *)
LEMMA HandlePreserves ==
  ASSUME LogInv, NEW r \in Requests, Handle(r)
  PROVE  LogInv'
<1>1. LogTypes' /\ UNCHANGED <<document, delivered, connection, logged, log>>
  BY HandleTypes
<1>2. HandlingInv'
  BY <1>1, HandleEffect DEF LogInv, LogTypes, HandlingInv
<1>3. CountInv' /\ DeliveryInv'
  <2>1. CountInv'
    BY <1>1 DEF LogInv, CountInv
  <2>2. DeliveryInv'
    BY <1>1, HandleEffect DEF LogInv, DeliveryInv
  <2> QED BY <2>1, <2>2
<1>4. LinesInv'
  <2>1. ASSUME NEW i \in DOMAIN log PROVE LineTrue(log[i])'
    <3>1. log[i] \in LineRecords /\ LineTrue(log[i])
      BY DEF LogInv, LogTypes, LinesInv
    <3>2. CASE log[i].request # r
      BY <1>1, <3>1, <3>2, HandleEffect DEF LineRecords, LineTrue
    <3>3. CASE log[i].request = r
      <4>1. log[i].aborted
        BY <3>1, <3>3, HandleEffect DEF LineTrue
      <4>2. log[i].errors => stage[r] = "executed" /\ stage'[r] = "ended" /\ failed' = failed
        BY <3>1, <3>3, HandleEffect DEF LineTrue
      <4> QED BY <1>1, <3>1, <3>3, <4>1, <4>2 DEF LineTrue
    <3> QED BY <3>2, <3>3
  <2> QED BY <1>1, <2>1 DEF LinesInv
<1> QED BY <1>1, <1>2, <1>3, <1>4 DEF LogInv

-----------------------------------------------------------------------------
(* The line of a response that had none: it is the last of the lines, and  *)
(* the only one of its request.                                            *)
LEMMA EmitPreserves ==
  ASSUME LogInv, NEW r \in Requests,
         ~ logged[r], Emit(r), UNCHANGED <<handlingVars, delivered>>,
         connection' \in [Requests -> Connections], connection'[r] # "open",
         \A q \in Requests : q # r => connection'[q] = connection[q],
         connection'[r] = "finished" => delivered[r]
  PROVE  LogInv'
<1> DEFINE new == Line(r)
           aborted == ~ delivered[r]
<1>0. /\ UNCHANGED <<document, stage, failed, gqlErrors, head, delivered>>
      /\ logged' = [logged EXCEPT ![r] = TRUE] /\ log' = Append(log, new)
  BY DEF Emit, handlingVars
<1>1. /\ new.request = r /\ new.aborted = aborted
      /\ new.errors <=> HasBody(r) /\ (gqlErrors[r] \/ head[r])
      /\ new \in LineRecords
  BY DEF Line, LineRecords
<1>2. LogTypes'
  BY <1>0, <1>1 DEF LogInv, LogTypes
<1>3. HandlingInv' /\ DeliveryInv'
  BY <1>0 DEF LogInv, HandlingInv, DeliveryInv
<1>4. /\ log \in Seq(LineRecords) /\ DOMAIN log = 1 .. Len(log) /\ Len(log) \in Nat
      /\ DOMAIN log' = 1 .. Len(log) + 1
      /\ log'[Len(log) + 1] = new
      /\ \A i \in DOMAIN log : log'[i] = log[i]
  BY <1>0, <1>1 DEF LogInv, LogTypes
<1>5. CountInv'
  <2>1. ASSUME NEW q \in Requests, q # r
        PROVE  /\ logged'[q] <=> connection'[q] # "open"
               /\ ~ logged'[q] => \A i \in DOMAIN log' : log'[i].request # q
               /\ logged'[q] => \E i \in DOMAIN log' :
                                  \A j \in DOMAIN log' : log'[j].request = q <=> j = i
    <3>1. logged'[q] = logged[q]
      BY <1>0, <2>1 DEF LogInv, LogTypes
    <3>2. logged'[q] <=> connection'[q] # "open"
      BY <2>1, <3>1 DEF LogInv, CountInv
    <3>3. ASSUME ~ logged'[q], NEW i \in DOMAIN log' PROVE log'[i].request # q
      BY <1>1, <1>4, <2>1, <3>1, <3>3 DEF LogInv, CountInv
    <3>4. ASSUME logged'[q]
          PROVE  \E i \in DOMAIN log' : \A j \in DOMAIN log' : log'[j].request = q <=> j = i
      <4>1. PICK i \in DOMAIN log : \A j \in DOMAIN log : log[j].request = q <=> j = i
        BY <3>1, <3>4 DEF LogInv, CountInv
      <4>2. \A j \in DOMAIN log' : log'[j].request = q <=> j = i
        BY <1>1, <1>4, <2>1, <4>1
      <4> QED BY <1>4, <4>1, <4>2
    <3> QED BY <3>2, <3>3, <3>4
  <2>2. logged'[r]
    BY <1>0 DEF LogInv, LogTypes
  <2>3. \A j \in DOMAIN log' : log'[j].request = r <=> j = Len(log) + 1
    BY <1>1, <1>4 DEF LogInv, CountInv
  <2>4. \E i \in DOMAIN log' : \A j \in DOMAIN log' : log'[j].request = r <=> j = i
    BY <1>4, <2>3
  <2> QED BY <2>1, <2>2, <2>4 DEF CountInv
<1>6. LinesInv'
  <2>1. ASSUME NEW i \in DOMAIN log PROVE LineTrue(log[i])'
    <3>1. log[i] \in LineRecords /\ LineTrue(log[i]) /\ log[i].request # r
      BY DEF LogInv, LogTypes, LinesInv, CountInv
    <3>2. connection'[log[i].request] = connection[log[i].request]
      BY <3>1 DEF LineRecords
    <3> QED BY <1>0, <3>1, <3>2 DEF LineTrue
  <2>2. stage[r] \in Stages
    BY DEF LogInv, LogTypes
  <2>3. ASSUME NEW line, line = new
        PROVE  LineTrue(line)'
    <3>1. new.errors => stage[r] \in {"executed", "ended"}
      BY <1>1, <2>2 DEF LogInv, HandlingInv, HasBody, Stages
    <3>2. new.errors => failed[r] \/ document[r] \in Misleading
      BY <1>1 DEF LogInv, HandlingInv
    <3>3. ~ aborted /\ failed[r] => new.errors \/ document[r] \in Streamed
      <4> SUFFICES ASSUME ~ aborted, failed[r], document[r] \notin Streamed PROVE new.errors
        OBVIOUS
      <4>1. stage[r] \in {"ended", "refused"}
        BY DEF LogInv, DeliveryInv
      <4>2. stage[r] # "refused" /\ (gqlErrors[r] \/ head[r])
        BY DEF LogInv, HandlingInv
      <4>3. HasBody(r)
        BY <4>1, <4>2 DEF HasBody
      <4> QED BY <1>1, <4>2, <4>3
    <3>4. /\ line.request = r /\ line.aborted = aborted
          /\ ~ aborted => stage[r] \in {"ended", "refused"}
          /\ ~ aborted /\ failed[r] => line.errors \/ document[r] \in Streamed
          /\ line.errors => stage[r] \in {"executed", "ended"}
          /\ line.errors => failed[r] \/ document[r] \in Misleading
      BY <1>1, <2>3, <3>1, <3>2, <3>3 DEF LogInv, DeliveryInv
    <3> HIDE DEF new
    <3> QED BY <1>0, <3>4 DEF LineTrue
  <2>4. ASSUME NEW i \in DOMAIN log' PROVE LineTrue(log[i])'
    <3>1. CASE i \in DOMAIN log
      BY <1>4, <2>1, <3>1 DEF LineTrue
    <3>2. CASE i = Len(log) + 1
      BY <1>4, <2>3, <3>2 DEF LineTrue
    <3> QED BY <1>4, <3>1, <3>2
  <2> QED BY <2>4 DEF LinesInv
<1> QED BY <1>2, <1>3, <1>5, <1>6 DEF LogInv

(* A response is handed over while it has no line. *)
LEMMA DeliverPreserves ==
  ASSUME LogInv, NEW r \in Requests, Deliver(r)
  PROVE  LogInv'
<1>1. /\ UNCHANGED <<document, stage, failed, gqlErrors, head, connection, logged, log>>
      /\ connection[r] = "open" /\ stage[r] \in {"ended", "refused"}
      /\ delivered' \in [Requests -> BOOLEAN] /\ delivered'[r]
      /\ \A q \in Requests : q # r => delivered'[q] = delivered[q]
  BY DEF Deliver, LogInv, LogTypes, handlingVars, emitVars
<1>2. LogTypes' /\ HandlingInv' /\ CountInv'
  BY <1>1 DEF LogInv, LogTypes, HandlingInv, CountInv
<1>3. DeliveryInv'
  BY <1>1 DEF LogInv, DeliveryInv
<1>4. LinesInv'
  <2>1. ASSUME NEW i \in DOMAIN log PROVE LineTrue(log[i])'
    <3>1. log[i] \in LineRecords /\ LineTrue(log[i]) /\ log[i].request # r
      BY <1>1 DEF LogInv, LogTypes, LinesInv, CountInv
    <3> QED BY <1>1, <3>1 DEF LineTrue, LineRecords
  <2> QED BY <1>1, <2>1 DEF LinesInv
<1> QED BY <1>2, <1>3, <1>4 DEF LogInv

(* Finishing writes the line of a request that has none, or nothing. *)
LEMMA FinishPreserves ==
  ASSUME LogInv, NEW r \in Requests, Finish(r)
  PROVE  LogInv'
<1>1. ~ logged[r]
  BY DEF LogInv, CountInv, Finish
<1>2. /\ connection' \in [Requests -> Connections] /\ connection'[r] = "finished"
      /\ \A q \in Requests : q # r => connection'[q] = connection[q]
  BY DEF LogInv, LogTypes, Connections, Finish
<1>3. delivered[r] /\ Emit(r) /\ UNCHANGED <<handlingVars, delivered>>
  BY DEF Finish
<1> QED BY <1>1, <1>2, <1>3, EmitPreserves

(* So does closing. *)
LEMMA ClosePreserves ==
  ASSUME LogInv, NEW r \in Requests, Close(r)
  PROVE  LogInv'
<1>1. /\ connection' \in [Requests -> Connections] /\ connection'[r] = "closed"
      /\ \A q \in Requests : q # r => connection'[q] = connection[q]
  BY DEF LogInv, LogTypes, Connections, Close
<1>2. CASE connection[r] = "open"
  <2>1. ~ logged[r] /\ Emit(r) /\ UNCHANGED <<handlingVars, delivered>>
    BY <1>2 DEF LogInv, CountInv, Close
  <2> QED BY <1>1, <2>1, EmitPreserves
<1>3. CASE connection[r] # "open"
  <2>1. UNCHANGED <<document, stage, failed, gqlErrors, head, delivered, logged, log>>
    BY <1>3 DEF LogInv, CountInv, Close, Emit, handlingVars, emitVars
  <2>2. LogTypes' /\ HandlingInv' /\ DeliveryInv'
    BY <1>1, <2>1 DEF LogInv, LogTypes, HandlingInv, DeliveryInv
  <2>3. CountInv'
    BY <1>1, <1>3, <2>1 DEF LogInv, CountInv
  <2>4. LinesInv'
    <3>1. ASSUME NEW i \in DOMAIN log PROVE LineTrue(log[i])'
      <4>1. LineTrue(log[i])
        BY DEF LogInv, LinesInv
      <4> QED BY <2>1, <4>1 DEF LineTrue
    <3> QED BY <2>1, <3>1 DEF LinesInv
  <2> QED BY <2>2, <2>3, <2>4 DEF LogInv
<1> QED BY <1>2, <1>3

(* The invariant survives every step. *)
LEMMA LogInvNext == LogInv /\ [Next]_vars => LogInv'
<1> SUFFICES ASSUME LogInv, [Next]_vars PROVE LogInv'
  OBVIOUS
<1>1. CASE UNCHANGED vars
  BY <1>1 DEF vars, handlingVars, emitVars, LogInv, LogTypes, HandlingInv, DeliveryInv, CountInv,
              LinesInv, LineTrue
<1>2. ASSUME NEW r \in Requests, Handle(r) \/ Deliver(r) \/ Finish(r) \/ Close(r)
      PROVE  LogInv'
  BY <1>2, HandlePreserves, DeliverPreserves, FinishPreserves, ClosePreserves
<1> QED BY <1>1, <1>2 DEF Next, Done

(* request-log.ts:68-156: where errors show up as the handling goes on, of  *)
(* which responses there are lines, and what a line says of its request.    *)
THEOREM LogInvAlways == Spec => []LogInv
  BY LogInvInit, LogInvNext, PTL DEF Spec

-----------------------------------------------------------------------------
(* request-log.ts:105-108 and :123: finish and close, in whatever order and *)
(* whether or not both come, leave exactly one line of a response, which    *)
(* says that the client went away exactly if the response was not handed    *)
(* over in full.                                                            *)
THEOREM OneLineEachAlways == Spec => []OneLineEach
<1>1. ASSUME LogInv, NEW r \in Requests
      PROVE  LET lines == {i \in DOMAIN log : log[i].request = r}
             IN  /\ Cardinality(lines) = (IF connection[r] = "open" THEN 0 ELSE 1)
                 /\ \A i \in lines : log[i].aborted <=> ~ delivered[r]
  <2> DEFINE lines == {i \in DOMAIN log : log[i].request = r}
  <2>1. CASE connection[r] = "open"
    <3>1. lines = {}
      BY <1>1, <2>1 DEF LogInv, CountInv
    <3> QED BY <2>1, <3>1, FS_EmptySet
  <2>2. CASE connection[r] # "open"
    <3>1. PICK i \in DOMAIN log : \A j \in DOMAIN log : log[j].request = r <=> j = i
      BY <1>1, <2>2 DEF LogInv, CountInv
    <3>2. lines = {i}
      BY <3>1
    <3>3. Cardinality(lines) = 1
      BY <3>2, FS_Singleton
    <3>4. log[i].aborted <=> ~ delivered[r]
      BY <1>1, <3>1 DEF LogInv, LinesInv, LineTrue
    <3> QED BY <2>2, <3>2, <3>3, <3>4
  <2> QED BY <2>1, <2>2
<1>2. LogInv => OneLineEach
  BY <1>1 DEF OneLineEach
<1> QED BY <1>2, LogInvAlways, PTL

(* request-log.ts:77-84: the plugin's summary and the first bytes together  *)
(* miss no error of a response that was handed over and did not come in     *)
(* parts, and the line of a response without errors says so unless its data *)
(* may mention "errors" in the first 64 bytes.                              *)
THEOREM ErrorsReportedAlways == Spec => []ErrorsReported
<1>1. LogInv => ErrorsReported
  BY DEF LogInv, LinesInv, LineTrue, ErrorsReported
<1> QED BY <1>1, LogInvAlways, PTL

-----------------------------------------------------------------------------
(***************************************************************************)
(* The parse cache.  Both the cache and the record of what was logged last *)
(* move a document to their end; the cache is the end of the record.       *)
(***************************************************************************)
Once(s) == \A i, j \in 1 .. Len(s) : s[i] = s[j] => i = j

(* What MadeLast does to a sequence in which d is at place q, or at none, *)
(* in which case q is one past its end.                                   *)
LEMMA MadeLastProperties ==
  ASSUME NEW S, NEW s \in Seq(S), Once(s), NEW d \in S, NEW q \in 1 .. Len(s) + 1,
         q \in 1 .. Len(s) => s[q] = d,
         q = Len(s) + 1 => \A i \in 1 .. Len(s) : s[i] # d
  PROVE  /\ MadeLast(s, d) \in Seq(S)
         /\ Once(MadeLast(s, d))
         /\ Len(MadeLast(s, d)) = IF q = Len(s) + 1 THEN Len(s) + 1 ELSE Len(s)
         /\ MadeLast(s, d)[Len(MadeLast(s, d))] = d
         /\ \A i \in 1 .. Len(MadeLast(s, d)) - 1 : MadeLast(s, d)[i] = IF i < q THEN s[i] ELSE s[i + 1]
<1> DEFINE places == {i \in DOMAIN s : s[i] = d}
           others == IF places = {} THEN s ELSE Without(s, CHOOSE i \in places : TRUE)
           n == IF q = Len(s) + 1 THEN Len(s) ELSE Len(s) - 1
<1>1. DOMAIN s = 1 .. Len(s) /\ Len(s) \in Nat OBVIOUS
<1>2. q = Len(s) + 1 => places = {} BY <1>1
<1>3. q # Len(s) + 1 => q \in 1 .. Len(s) /\ places = {q} BY <1>1 DEF Once
<1>n. /\ q = Len(s) + 1 => n = Len(s)
      /\ q # Len(s) + 1 => n = Len(s) - 1 /\ q \in 1 .. Len(s)
      /\ n \in Nat
  <2>1. \A len \in Nat : \A p \in 1 .. len + 1 : p # len + 1 => p \in 1 .. len /\ len - 1 \in Nat
    OBVIOUS
  <2>2. q # Len(s) + 1 => q \in 1 .. Len(s) /\ Len(s) - 1 \in Nat BY <1>1, <2>1
  <2> QED BY <1>1, <2>2
<1> HIDE DEF n
<1>4. /\ others \in Seq(S) /\ Len(others) = n
      /\ \A i \in 1 .. n : others[i] = IF i < q THEN s[i] ELSE s[i + 1]
  <2>1. CASE q = Len(s) + 1
    <3>1. others = s /\ n = Len(s) BY <1>2, <1>n, <2>1
    <3> HIDE DEF others
    <3> QED BY <1>1, <2>1, <3>1
  <2>2. CASE q # Len(s) + 1
    <3>1. others = Without(s, q) BY <1>3, <2>2
    <3>2. q \in 1 .. Len(s) /\ n = Len(s) - 1 BY <1>n, <2>2
    <3>3. /\ Without(s, q) \in Seq(S) /\ Len(Without(s, q)) = Len(s) - 1
          /\ \A i \in 1 .. Len(s) - 1 : Without(s, q)[i] = IF i < q THEN s[i] ELSE s[i + 1]
      BY <3>2, WithoutProperties
    <3> HIDE DEF others
    <3> QED BY <3>1, <3>2, <3>3
  <2> QED BY <2>1, <2>2
<1>5. MadeLast(s, d) = Append(others, d) BY DEF MadeLast
<1> HIDE DEF others, places
<1>6. /\ Append(others, d) \in Seq(S) /\ Len(Append(others, d)) = n + 1
      /\ \A i \in 1 .. n : Append(others, d)[i] = others[i]
      /\ Append(others, d)[n + 1] = d
  BY <1>4, AppendProperties
<1>7. \A i \in 1 .. n : (i < q => i \in 1 .. Len(s)) /\ (~ i < q => i + 1 \in 1 .. Len(s))
  <2>1. \A len, m \in Nat : \A p \in 1 .. len + 1 :
          (p = len + 1 /\ m = len) \/ (p # len + 1 /\ m = len - 1) =>
            \A i \in 1 .. m : (i < p => i \in 1 .. len) /\ (~ i < p => i + 1 \in 1 .. len)
    OBVIOUS
  <2> QED BY <1>1, <1>n, <2>1
<1>8. \A i \in 1 .. n : others[i] # d
  <2>1. \A l \in 1 .. Len(s) : l # q => s[l] # d BY <1>n DEF Once
  <2> SUFFICES ASSUME NEW i \in 1 .. n PROVE others[i] # d
    OBVIOUS
  <2>2. CASE i < q
    <3>1. i \in 1 .. Len(s) /\ i # q /\ others[i] = s[i] BY <1>4, <1>7, <2>2
    <3> QED BY <2>1, <3>1
  <2>3. CASE ~ i < q
    <3>1. i + 1 \in 1 .. Len(s) /\ i + 1 # q /\ others[i] = s[i + 1] BY <1>4, <1>7, <2>3
    <3> QED BY <2>1, <3>1
  <2> QED BY <2>2, <2>3
<1>9. \A i, j \in 1 .. n : others[i] = others[j] => i = j
  <2> SUFFICES ASSUME NEW i \in 1 .. n, NEW j \in 1 .. n, others[i] = others[j] PROVE i = j
    OBVIOUS
  <2> DEFINE f(l) == IF l < q THEN l ELSE l + 1
  <2>1. f(i) \in 1 .. Len(s) /\ f(j) \in 1 .. Len(s) BY <1>7
  <2>2. others[i] = s[f(i)] /\ others[j] = s[f(j)] BY <1>4
  <2>3. f(i) = f(j)
    <3> HIDE DEF f
    <3> QED BY <2>1, <2>2 DEF Once
  <2> QED BY <2>3
<1>10. Once(Append(others, d))
  <2> DEFINE t == Append(others, d)
  <2>1. /\ Len(t) = n + 1 /\ t[n + 1] = d
        /\ \A i \in 1 .. n : t[i] = others[i] /\ t[i] # d
    BY <1>6, <1>8
  <2> HIDE DEF t
  <2>2. ASSUME NEW i \in 1 .. n + 1, NEW j \in 1 .. n + 1, t[i] = t[j] PROVE i = j
    <3>1. CASE i = n + 1 /\ j = n + 1 BY <3>1
    <3>2. CASE i = n + 1 /\ j # n + 1
      <4>1. j \in 1 .. n BY <1>n, <3>2
      <4> QED BY <2>1, <2>2, <3>2, <4>1
    <3>3. CASE i # n + 1 /\ j = n + 1
      <4>1. i \in 1 .. n BY <1>n, <3>3
      <4> QED BY <2>1, <2>2, <3>3, <4>1
    <3>4. CASE i # n + 1 /\ j # n + 1
      <4>1. i \in 1 .. n /\ j \in 1 .. n BY <1>n, <3>4
      <4> QED BY <1>9, <2>1, <2>2, <4>1
    <3> QED BY <3>1, <3>2, <3>3, <3>4
  <2> QED BY <2>1, <2>2 DEF Once, t
<1>11. n = IF q = Len(s) + 1 THEN Len(s) ELSE Len(s) - 1 BY <1>n
<1> DEFINE t == Append(others, d)
<1>12. /\ MadeLast(s, d) = t /\ t \in Seq(S) /\ Once(t) /\ Len(t) = n + 1 /\ t[n + 1] = d
       /\ \A i \in 1 .. n : t[i] = IF i < q THEN s[i] ELSE s[i + 1]
  BY <1>4, <1>5, <1>6, <1>10
<1> HIDE DEF t
<1>13. Len(t) - 1 = n /\ Len(t) = IF q = Len(s) + 1 THEN Len(s) + 1 ELSE Len(s)
  <2>1. Len(t) = n + 1 /\ n + 1 - 1 = n BY <1>n, <1>12
  <2>2. \A len, m \in Nat : m = len - 1 => m + 1 = len OBVIOUS
  <2>3. q # Len(s) + 1 => n + 1 = Len(s) BY <1>1, <1>n, <2>2
  <2>4. Len(t) - 1 = n
    <3>1. \A m, l \in Nat : l = m + 1 => l - 1 = m OBVIOUS
    <3>2. Len(t) = n + 1 BY <2>1
    <3>3. Len(t) \in Nat BY <1>n, <3>2
    <3> QED BY <1>n, <3>1, <3>2, <3>3
  <2>5. CASE q = Len(s) + 1
    <3>1. n = Len(s) BY <1>n, <2>5
    <3> QED BY <2>1, <2>4, <2>5, <3>1
  <2>6. CASE q # Len(s) + 1 BY <2>1, <2>3, <2>4, <2>6
  <2> QED BY <2>5, <2>6
<1>14. t[Len(t)] = d BY <1>n, <1>12
<1>15. \A i \in 1 .. Len(t) - 1 : t[i] = IF i < q THEN s[i] ELSE s[i + 1] BY <1>12, <1>13
<1> QED BY <1>12, <1>13, <1>14, <1>15

Parsed == InsertionMaps(Documents, Documents)

(* What a lookup does to the keys of the cache: a document that is there   *)
(* goes to the end from its place q, another one takes the place of the    *)
(* oldest, q = 1, or of none, q past the end.                              *)
LEMMA LookedProperties ==
  ASSUME NEW m \in Parsed, Len(m) =< ParseCacheMax, NEW d \in Documents
  PROVE  /\ Looked(m, d) \in Parsed
         /\ \E q \in 1 .. Len(m) + 1 :
              /\ IF Has(m, d) THEN q \in 1 .. Len(m) /\ m[q].key = d
                 ELSE q = IF Len(m) = ParseCacheMax THEN 1 ELSE Len(m) + 1
              /\ Len(Looked(m, d)) = IF q = Len(m) + 1 THEN Len(m) + 1 ELSE Len(m)
              /\ Looked(m, d)[Len(Looked(m, d))].key = d
              /\ \A i \in 1 .. Len(Looked(m, d)) - 1 :
                   Looked(m, d)[i].key = IF i < q THEN m[i].key ELSE m[i + 1].key
<1>1. m \in Seq(Entries(Documents, Documents)) /\ Len(m) \in Nat /\ DOMAIN m = 1 .. Len(m)
  BY DEF Parsed, InsertionMaps
<1>2. ASSUME NEW base \in Parsed, ~ Has(base, d), NEW v \in Documents
      PROVE  /\ Put(base, d, v) \in Parsed
             /\ Len(Put(base, d, v)) = Len(base) + 1
             /\ Put(base, d, v)[Len(base) + 1].key = d
             /\ \A i \in 1 .. Len(base) : Put(base, d, v)[i] = base[i]
  <2> DEFINE e == [key |-> d, val |-> v]
  <2>1. Put(base, d, v) = Append(base, e) BY <1>2 DEF Put
  <2>2. e \in Entries(Documents, Documents) /\ e.key = d BY DEF Entries
  <2>3. base \in Seq(Entries(Documents, Documents)) BY DEF Parsed, InsertionMaps
  <2>4. Put(base, d, v) \in Parsed BY <1>2, PutProperties DEF Parsed
  <2> HIDE DEF e
  <2>5. /\ Len(Append(base, e)) = Len(base) + 1
        /\ \A i \in 1 .. Len(base) : Append(base, e)[i] = base[i]
        /\ Append(base, e)[Len(base) + 1] = e
    BY <2>2, <2>3, AppendProperties
  <2> QED BY <2>1, <2>2, <2>4, <2>5
<1>3. CASE Has(m, d)
  <2> DEFINE q == Position(m, d)
             base == Delete(m, d)
             v == Lookup(m, d)
  <2>1. q \in 1 .. Len(m) /\ m[q].key = d BY <1>1, <1>3, PositionOfKey
  <2>2. m[q] \in Entries(Documents, Documents) BY <1>1, <2>1
  <2>3. v \in Documents BY <2>2 DEF Lookup, Entries
  <2>4. base \in Parsed /\ ~ Has(base, d) BY DeleteProperties DEF Parsed
  <2>5. base = Without(m, q) BY <1>3 DEF Delete
  <2>6. Looked(m, d) = Put(base, d, v) BY <1>3 DEF Looked
  <2> HIDE DEF q, base, v
  <2>7. Len(base) = Len(m) - 1 /\ \A i \in 1 .. Len(m) - 1 : base[i] = IF i < q THEN m[i] ELSE m[i + 1]
    BY <1>1, <2>1, <2>5, WithoutProperties
  <2> DEFINE t == Looked(m, d)
  <2>8. /\ t \in Parsed /\ Len(t) = Len(base) + 1 /\ t[Len(base) + 1].key = d
        /\ \A i \in 1 .. Len(base) : t[i] = base[i]
    BY <1>2, <2>3, <2>4, <2>6
  <2> HIDE DEF t
  <2>9. Len(t) = Len(m) /\ q # Len(m) + 1 BY <1>1, <2>1, <2>7, <2>8
  <2>10. t[Len(t)].key = d BY <1>1, <2>7, <2>8, <2>9
  <2>11. \A i \in 1 .. Len(t) - 1 : t[i].key = IF i < q THEN m[i].key ELSE m[i + 1].key
    BY <2>7, <2>8, <2>9
  <2> QED BY <1>1, <1>3, <2>1, <2>8, <2>9, <2>10, <2>11 DEF t
<1>4. CASE ~ Has(m, d)
  <2> DEFINE full == Len(m) >= ParseCacheMax
             base == IF full THEN DropOldest(m) ELSE m
             q == IF Len(m) = ParseCacheMax THEN 1 ELSE Len(m) + 1
  <2>0. ParseCacheMax \in Nat \ {0} /\ (full <=> Len(m) = ParseCacheMax)
    <3>1. \A a, b \in Nat : a =< b => (a >= b <=> a = b) OBVIOUS
    <3>2. ParseCacheMax \in Nat \ {0} BY RequestLogAssumption
    <3> QED BY <1>1, <3>1, <3>2
  <2>1. full => m # << >> BY <1>1, <2>0
  <2>2. DropOldest(m) \in Parsed /\ \A j \in DOMAIN DropOldest(m) : \E i \in DOMAIN m : DropOldest(m)[j] = m[i]
    BY DropOldestProperties DEF Parsed
  <2>3. base \in Parsed /\ ~ Has(base, d) BY <1>4, <2>2 DEF Has
  <2>4. /\ Len(base) = IF full THEN Len(m) - 1 ELSE Len(m)
        /\ \A i \in 1 .. Len(base) : base[i] = IF full THEN m[i + 1] ELSE m[i]
    <3>1. CASE full
      <4>1. base = Tail(m) BY <2>1, <3>1 DEF DropOldest
      <4>2. Len(Tail(m)) = Len(m) - 1 /\ \A i \in 1 .. Len(m) - 1 : Tail(m)[i] = m[i + 1]
        BY <1>1, <2>1, <3>1
      <4> HIDE DEF base, full
      <4> QED BY <3>1, <4>1, <4>2
    <3>2. CASE ~ full BY <3>2
    <3> QED BY <3>1, <3>2
  <2>5. Looked(m, d) = Put(base, d, d) BY <1>4 DEF Looked
  <2>6. q \in 1 .. Len(m) + 1 BY <1>1
  <2> DEFINE t == Looked(m, d)
  <2>7. /\ t \in Parsed /\ Len(t) = Len(base) + 1 /\ t[Len(base) + 1].key = d
        /\ \A i \in 1 .. Len(base) : t[i] = base[i]
    <3> HIDE DEF base
    <3> QED BY <1>2, <2>3, <2>5
  <2>8. q = IF Len(m) = ParseCacheMax THEN 1 ELSE Len(m) + 1 OBVIOUS
  <2>9. full => q = 1 /\ q # Len(m) + 1
    <3>1. \A len, max \in Nat : max # 0 /\ len = max => 1 # len + 1 OBVIOUS
    <3>2. full => Len(m) = ParseCacheMax /\ 1 # Len(m) + 1 BY <1>1, <2>0, <3>1
    <3>3. Len(m) = ParseCacheMax => q = 1 OBVIOUS
    <3> QED BY <3>2, <3>3
  <2>10. ~ full => q = Len(m) + 1 BY <2>0
  <2> HIDE DEF t, base, q, full
  <2>11. /\ Len(t) = IF q = Len(m) + 1 THEN Len(m) + 1 ELSE Len(m)
         /\ Len(t) - 1 = Len(base)
    <3>1. CASE full BY <1>1, <2>4, <2>7, <2>9, <3>1
    <3>2. CASE ~ full BY <1>1, <2>4, <2>7, <2>10, <3>2
    <3> QED BY <3>1, <3>2
  <2>12. t[Len(t)].key = d BY <2>7
  <2>13. \A i \in 1 .. Len(t) - 1 : t[i].key = IF i < q THEN m[i].key ELSE m[i + 1].key
    <3> SUFFICES ASSUME NEW i \in 1 .. Len(base)
                 PROVE  t[i].key = IF i < q THEN m[i].key ELSE m[i + 1].key
      BY <2>11
    <3>1. t[i] = base[i] BY <2>7
    <3>2. CASE full
      <4>1. ~ i < q BY <2>9, <3>2
      <4> QED BY <2>4, <3>1, <3>2, <4>1
    <3>3. CASE ~ full
      <4>1. Len(base) = Len(m) BY <2>4, <3>3
      <4>2. i < q BY <1>1, <2>10, <3>3, <4>1
      <4> QED BY <2>4, <3>1, <3>3, <4>2
    <3> QED BY <3>2, <3>3
  <2> QED BY <1>4, <2>6, <2>7, <2>8, <2>11, <2>12, <2>13 DEF t
<1> QED BY <1>3, <1>4

(***************************************************************************)
(* The cache holds the documents logged last, from the place after offset  *)
(* on, and nothing is left out as long as there is room.                   *)
(***************************************************************************)
Recent == Len(recent) - Len(parseCache)

LruInv ==
  /\ document \in [Requests -> Documents]
  /\ parseCache \in Parsed /\ recent \in Seq(Documents) /\ Once(recent)
  /\ Len(parseCache) =< ParseCacheMax /\ Len(parseCache) =< Len(recent)
  /\ Len(parseCache) # ParseCacheMax => Len(parseCache) = Len(recent)
  /\ \A i \in 1 .. Len(parseCache) : parseCache[i].key = recent[Recent + i]

(* Nothing is parsed at the start. *)
LEMMA LruInvInit == Init => LruInv
BY RequestLogAssumption DEF Init, LruInv, Once, Parsed, InsertionMaps, EmptyMap, KeysOnce

(* A document is looked up and noted: both move it from the same place, or *)
(* it was not in the cache and the oldest one makes room for it.           *)
LEMMA LookupKeepsLru ==
  ASSUME LruInv, NEW d \in Documents, document' = document,
         parseCache' = Looked(parseCache, d), recent' = MadeLast(recent, d)
  PROVE  LruInv'
<1> DEFINE m == parseCache  s == recent  c == Len(parseCache)  n == Len(recent)
           mm == parseCache'  ss == recent'
<1>1. /\ m \in Parsed /\ s \in Seq(Documents) /\ Once(s)
      /\ c \in Nat /\ n \in Nat /\ c =< ParseCacheMax /\ c =< n
      /\ (c # ParseCacheMax => c = n)
      /\ \A i \in 1 .. c : m[i].key = s[n - c + i]
  BY DEF LruInv, Recent, Parsed, InsertionMaps
<1>2. ParseCacheMax \in Nat \ {0} BY RequestLogAssumption
<1>3. DOMAIN m = 1 .. c BY <1>1 DEF Parsed, InsertionMaps
<1>4. PICK q \in 1 .. c + 1 :
        /\ IF Has(m, d) THEN q \in 1 .. c /\ m[q].key = d
           ELSE q = IF c = ParseCacheMax THEN 1 ELSE c + 1
        /\ Len(mm) = IF q = c + 1 THEN c + 1 ELSE c
        /\ mm[Len(mm)].key = d
        /\ \A i \in 1 .. Len(mm) - 1 : mm[i].key = IF i < q THEN m[i].key ELSE m[i + 1].key
  <2>1. m \in Parsed /\ Len(m) =< ParseCacheMax /\ mm = Looked(m, d) BY <1>1
  <2> HIDE DEF m, mm
  <2>2. \E q \in 1 .. Len(m) + 1 :
          /\ IF Has(m, d) THEN q \in 1 .. Len(m) /\ m[q].key = d
             ELSE q = IF Len(m) = ParseCacheMax THEN 1 ELSE Len(m) + 1
          /\ Len(Looked(m, d)) = IF q = Len(m) + 1 THEN Len(m) + 1 ELSE Len(m)
          /\ Looked(m, d)[Len(Looked(m, d))].key = d
          /\ \A i \in 1 .. Len(Looked(m, d)) - 1 :
               Looked(m, d)[i].key = IF i < q THEN m[i].key ELSE m[i + 1].key
    BY <2>1, LookedProperties
  <2>3. c = Len(m) BY DEF m
  <2> HIDE DEF c
  <2> QED BY <2>1, <2>2, <2>3
<1>5. mm \in Parsed
  <2>1. m \in Parsed /\ Len(m) =< ParseCacheMax /\ mm = Looked(m, d) BY <1>1
  <2> HIDE DEF m, mm
  <2>2. Looked(m, d) \in Parsed BY <2>1, LookedProperties
  <2> QED BY <2>1, <2>2
<1>6. \E p \in 1 .. n + 1 : /\ p \in 1 .. n => s[p] = d
                            /\ p = n + 1 => \A i \in 1 .. n : s[i] # d
  <2>1. CASE \E p \in 1 .. n : s[p] = d BY <1>1, <2>1
  <2>2. CASE ~ \E p \in 1 .. n : s[p] = d
    <3>1. n + 1 \in 1 .. n + 1 /\ n + 1 \notin 1 .. n BY <1>1
    <3> QED BY <2>2, <3>1
  <2> QED BY <2>1, <2>2
<1>7. PICK p \in 1 .. n + 1 : /\ p \in 1 .. n => s[p] = d
                              /\ p = n + 1 => \A i \in 1 .. n : s[i] # d
  BY <1>6
<1>8. /\ ss \in Seq(Documents) /\ Once(ss)
      /\ Len(ss) = IF p = n + 1 THEN n + 1 ELSE n
      /\ ss[Len(ss)] = d
      /\ \A i \in 1 .. Len(ss) - 1 : ss[i] = IF i < p THEN s[i] ELSE s[i + 1]
  BY <1>1, <1>7, MadeLastProperties
<1>9. p = n + 1 \/ p \in 1 .. n BY <1>1
(* Where d stands in the record and where in the cache *)
<1>10. Has(m, d) => p = n - c + q /\ p # n + 1 /\ q # c + 1
  <2> SUFFICES ASSUME Has(m, d) PROVE p = n - c + q /\ p # n + 1 /\ q # c + 1
    OBVIOUS
  <2>1. q \in 1 .. c /\ m[q].key = d BY <1>4
  <2>2. s[n - c + q] = d BY <1>1, <2>1
  <2>3. n - c + q \in 1 .. n /\ q # c + 1 BY <1>1, <2>1
  <2>4. p # n + 1 BY <1>7, <2>2, <2>3
  <2>5. p \in 1 .. n BY <1>9, <2>4
  <2> QED BY <1>1, <1>7, <2>2, <2>3, <2>4, <2>5 DEF Once
<1>11. ~ Has(m, d) => p = n + 1 \/ p =< n - c
  <2> SUFFICES ASSUME ~ Has(m, d), p # n + 1, ~ p =< n - c PROVE FALSE
    BY <1>1
  <2>1. p \in 1 .. n /\ s[p] = d BY <1>7, <1>9
  <2>2. p - (n - c) \in 1 .. c /\ n - c + (p - (n - c)) = p BY <1>1, <2>1
  <2>3. m[p - (n - c)].key = d BY <1>1, <2>1, <2>2
  <2> QED BY <1>3, <2>2, <2>3 DEF Has
<1> HIDE DEF m, s, mm, ss, c, n
<1>12. ~ Has(m, d) => IF c = ParseCacheMax THEN q = 1 /\ q # c + 1 ELSE q = c + 1 /\ p = n + 1
  BY <1>1, <1>2, <1>4, <1>11
<1>13. /\ Len(mm) =< ParseCacheMax /\ Len(mm) =< Len(ss)
       /\ (Len(mm) # ParseCacheMax => Len(mm) = Len(ss))
       /\ Len(mm) \in Nat \ {0} /\ Len(ss) \in Nat
  <2>1. CASE Has(m, d)
    <3>1. Len(mm) = c /\ Len(ss) = n /\ c # 0 BY <1>1, <1>4, <1>8, <1>10, <2>1
    <3> QED BY <1>1, <3>1
  <2>2. CASE ~ Has(m, d) /\ c = ParseCacheMax
    <3>1. Len(mm) = c /\ (Len(ss) = n + 1 \/ Len(ss) = n) BY <1>4, <1>8, <1>12, <2>2
    <3> QED BY <1>1, <1>2, <2>2, <3>1
  <2>3. CASE ~ Has(m, d) /\ c # ParseCacheMax
    <3>1. Len(mm) = c + 1 /\ Len(ss) = n + 1 BY <1>4, <1>8, <1>12, <2>3
    <3> QED BY <1>1, <1>2, <2>3, <3>1
  <2> QED BY <2>1, <2>2, <2>3
<1>14. ASSUME NEW i \in 1 .. Len(mm) PROVE mm[i].key = ss[Len(ss) - Len(mm) + i]
  <2>1. CASE i = Len(mm)
    <3>1. Len(ss) - Len(mm) + i = Len(ss) BY <1>13, <2>1
    <3> QED BY <1>4, <1>8, <2>1, <3>1
  <2>2. CASE i # Len(mm)
    <3> DEFINE j == Len(ss) - Len(mm) + i
    <3>1. i \in 1 .. Len(mm) - 1 /\ j \in 1 .. Len(ss) - 1 BY <1>13, <2>2
    <3>2. mm[i].key = IF i < q THEN m[i].key ELSE m[i + 1].key BY <1>4, <3>1
    <3>3. ss[j] = IF j < p THEN s[j] ELSE s[j + 1] BY <1>8, <3>1
    <3>4. CASE Has(m, d)
      <4>1. Len(mm) = c /\ Len(ss) = n BY <1>4, <1>8, <1>10, <3>4
      <4>2. j = n - c + i /\ (i < q <=> j < p) BY <1>1, <1>10, <3>4, <4>1
      <4>3. m[i].key = s[n - c + i] /\ m[i + 1].key = s[n - c + (i + 1)] BY <1>1, <3>1, <4>1
      <4>4. n - c + (i + 1) = j + 1 BY <1>1, <4>2
      <4> QED BY <3>2, <3>3, <4>2, <4>3, <4>4
    <3>5. CASE ~ Has(m, d) /\ c = ParseCacheMax
      <4>1. Len(mm) = c /\ q = 1 /\ ~ i < q BY <1>4, <1>12, <3>1, <3>5
      <4>2. m[i + 1].key = s[n - c + (i + 1)] BY <1>1, <3>1, <4>1
      <4>3. CASE p = n + 1
        <5>1. Len(ss) = n + 1 BY <1>8, <4>3
        <5>2. j = n - c + (i + 1) /\ j < p BY <1>1, <3>1, <4>1, <4>3, <5>1
        <5> QED BY <3>2, <3>3, <4>1, <4>2, <5>2
      <4>4. CASE p # n + 1
        <5>1. Len(ss) = n /\ p =< n - c BY <1>8, <1>11, <3>5, <4>4
        <5>2. j + 1 = n - c + (i + 1) /\ ~ j < p BY <1>1, <3>1, <4>1, <5>1
        <5> QED BY <3>2, <3>3, <4>1, <4>2, <5>2
      <4> QED BY <4>3, <4>4
    <3>6. CASE ~ Has(m, d) /\ c # ParseCacheMax
      <4>1. Len(mm) = c + 1 /\ Len(ss) = n + 1 /\ q = c + 1 /\ p = n + 1 /\ c = n
        BY <1>1, <1>4, <1>8, <1>12, <3>6
      <4>2. i \in 1 .. c /\ j = i /\ i < q /\ j < p
        <5>1. Len(ss) = c + 1 /\ Len(mm) = c + 1 /\ c \in Nat BY <1>1, <4>1
        <5>2. i \in 1 .. c BY <3>1, <5>1
        <5>3. j = c + 1 - (c + 1) + i BY <5>1
        <5>4. j = i BY <5>1, <5>2, <5>3
        <5> QED BY <4>1, <5>1, <5>2, <5>4
      <4>3. m[i].key = s[n - c + i] /\ n - c + i = i BY <1>1, <4>1, <4>2
      <4> QED BY <3>2, <3>3, <4>2, <4>3
    <3> QED BY <3>4, <3>5, <3>6
  <2> QED BY <2>1, <2>2
<1>15. document' \in [Requests -> Documents] BY DEF LruInv
<1> QED BY <1>5, <1>8, <1>13, <1>14, <1>15 DEF LruInv, Recent, mm, ss

(* Every step looks up and notes one document, or neither. *)
LEMMA LruInvNext == LruInv /\ [Next]_vars => LruInv'
<1> SUFFICES ASSUME LruInv, [Next]_vars PROVE LruInv'
  OBVIOUS
<1>1. ASSUME UNCHANGED <<document, parseCache, recent>> PROVE LruInv'
  BY <1>1 DEF LruInv, Recent
<1>2. CASE UNCHANGED vars
  BY <1>1, <1>2 DEF vars, handlingVars, emitVars
<1>3. ASSUME NEW r \in Requests, Handle(r) PROVE LruInv'
  <2>1. UNCHANGED <<document, parseCache, recent>>
    BY <1>3 DEF Handle, ParseBody, TurnAway, RejectDocument, ServeCached, Execute, Respond, emitVars
  <2> QED BY <1>1, <2>1
<1>4. ASSUME NEW r \in Requests, Emit(r), document' = document PROVE LruInv'
  <2>1. CASE UNCHANGED <<parseCache, recent>> BY <1>1, <1>4, <2>1
  <2>2. CASE /\ parseCache' = Looked(parseCache, document[r])
             /\ recent' = MadeLast(recent, document[r])
    <3>1. document[r] \in Documents BY DEF LruInv
    <3> QED BY <1>4, <2>2, <3>1, LookupKeepsLru
  <2> QED BY <1>4, <2>1, <2>2 DEF Emit, emitVars
<1>5. ASSUME NEW r \in Requests, Finish(r) \/ Close(r) PROVE LruInv'
  BY <1>4, <1>5 DEF Finish, Close, handlingVars
<1>6. ASSUME NEW r \in Requests, Deliver(r) PROVE LruInv'
  BY <1>1, <1>6 DEF Deliver, handlingVars, emitVars
<1> QED BY <1>2, <1>3, <1>5, <1>6 DEF Next, Done

(* request-log.ts:26-28: through lookups of whatever documents, the ones   *)
(* logged last are in the cache, as many as it holds, in that order.       *)
THEOREM ParseCacheIsLruAlways == Spec => []ParseCacheIsLru
<1>1. LruInv => ParseCacheIsLru
  <2> SUFFICES ASSUME LruInv PROVE ParseCacheIsLru
    OBVIOUS
  <2> DEFINE c == Len(parseCache)
             n == Len(recent)
             room == IF n < ParseCacheMax THEN n ELSE ParseCacheMax
  <2>1. /\ c \in Nat /\ n \in Nat /\ DOMAIN parseCache = 1 .. c /\ recent \in Seq(Documents)
        /\ c =< ParseCacheMax /\ c =< n /\ (c # ParseCacheMax => c = n)
        /\ \A i \in 1 .. c : parseCache[i].key = recent[n - c + i]
    BY DEF LruInv, Recent, Parsed, InsertionMaps
  <2>2. ParseCacheMax \in Nat BY RequestLogAssumption
  <2> HIDE DEF c, n
  <2>3. c = room BY <2>1, <2>2
  <2> HIDE DEF room
  <2>4. /\ Len(SubSeq(recent, n - c + 1, n)) = c
        /\ SubSeq(recent, n - c + 1, n) = [i \in 1 .. c |-> recent[n - c + i]]
    <3>1. n - c + 1 \in 1 .. n + 1 /\ n = Len(recent) BY <2>1 DEF n
    <3> DEFINE t == SubSeq(recent, n - c + 1, n)
    <3>2. t \in Seq(Documents) /\ Len(t) = n - (n - c + 1) + 1
          /\ \A i \in 1 .. n - (n - c + 1) + 1 : t[i] = recent[n - c + 1 + i - 1]
      BY <2>1, <3>1, SubSeqProperties
    <3>3. n - (n - c + 1) + 1 = c BY <2>1
    <3>4. \A i \in 1 .. c : n - c + 1 + i - 1 = n - c + i BY <2>1
    <3>5. t = [i \in 1 .. Len(t) |-> t[i]] BY <3>2
    <3> HIDE DEF t
    <3>6. Len(t) = c /\ \A i \in 1 .. c : t[i] = recent[n - c + i] BY <3>2, <3>3, <3>4
    <3>7. t = [i \in 1 .. c |-> recent[n - c + i]] BY <3>5, <3>6
    <3> QED BY <3>6, <3>7 DEF t
  <2>5. KeyOrder(parseCache) = [i \in 1 .. c |-> recent[n - c + i]]
    BY <2>1 DEF KeyOrder
  <2> QED BY <2>3, <2>4, <2>5 DEF ParseCacheIsLru, room, n
<1> QED BY <1>1, LruInvInit, LruInvNext, PTL DEF Spec

-----------------------------------------------------------------------------
(***************************************************************************)
(* What both recorders have of a response, at every step of it.            *)
(***************************************************************************)
Octets == UNION {ToSet(BytesOf(c)) : c \in Chunks}

RecordedByCache ==
  /\ chunks \in Seq(Seq(Octets)) /\ size \in Nat /\ tooBig \in BOOLEAN
  /\ tooBig => size > MaxEntryBytes /\ size =< Len(sent)
  /\ ~ tooBig => FlattenSeq(chunks) = sent /\ size = Len(sent) /\ size =< MaxEntryBytes

RecordedByLog ==
  /\ bytes = Len(sent)
  /\ firstBytes = Nothing <=> sent = << >>
  /\ firstBytes # Nothing =>
       \E l \in 0 .. Len(sent) : l =< HeadBytes /\ firstBytes = SubSeq(sent, 1, l)

RecorderInv ==
  /\ sent \in Seq(Octets)
  /\ RecordedByCache
  /\ RecordedByLog
  /\ KeepsResultsAsSent

(* What is sent for a text, is a sequence. *)
LEMMA Utf8IsSequence ==
  ASSUME NEW X, NEW text \in Seq(X)
  PROVE  Utf8(text) \in Seq(X \X {1, 2})
<1> DEFINE W == X \X {1, 2}
           F == [i \in DOMAIN text |->
                   IF text[i] \in Wide THEN <<<<text[i], 1>>, <<text[i], 2>>>>
                                       ELSE <<<<text[i], 1>>>>]
<1>1. Len(text) \in Nat /\ DOMAIN text = 1 .. Len(text) OBVIOUS
<1>2. ASSUME NEW x \in X
      PROVE  <<<<x, 1>>, <<x, 2>>>> \in Seq(W) /\ <<<<x, 1>>>> \in Seq(W)
  <2>1. <<x, 1>> \in W /\ <<x, 2>> \in W OBVIOUS
  <2> HIDE DEF W
  <2> QED BY <2>1
<1>3. \A i \in 1 .. Len(text) : F[i] \in Seq(W)
  <2> TAKE i \in 1 .. Len(text)
  <2>1. text[i] \in X OBVIOUS
  <2> HIDE DEF W
  <2> QED BY <1>1, <1>2, <2>1
<1>4. DOMAIN F = 1 .. Len(text) /\ F = [i \in 1 .. Len(text) |-> F[i]] BY <1>1
<1> HIDE DEF W, F
<1>5. F \in [1 .. Len(text) -> Seq(W)] BY <1>3, <1>4
<1>6. F \in Seq(Seq(W)) BY <1>1, <1>5, SeqDef
<1>7. << >> \in Seq(W) BY EmptySeq
<1>8. FlattenSeq(F) \in Seq(W) BY <1>6, <1>7, FlattenProperties
<1> QED BY <1>8 DEF Utf8, F, W

(* The bytes of each chunk are a sequence, of which no beginning is        *)
(* Nothing.                                                                *)
LEMMA BytesOfIsSequence ==
  ASSUME NEW c \in Chunks
  PROVE  /\ BytesOf(c) \in Seq(Octets)
         /\ \A l \in 0 .. Len(BytesOf(c)) : SubSeq(BytesOf(c), 1, l) # Nothing
<1> DEFINE b == BytesOf(c)
<1>1. c.body \in Seq(ToSet(c.body)) /\ Nothing \notin Prefixes(b)
  BY ChunksAssumption
<1>2. \E X : b \in Seq(X)
  <2>1. CASE c.kind = "bytes" BY <1>1, <2>1 DEF BytesOf
  <2>2. CASE c.kind = "text"
    <3>1. Utf8(c.body) \in Seq(ToSet(c.body) \X {1, 2}) BY <1>1, Utf8IsSequence
    <3> QED BY <2>2, <3>1 DEF BytesOf
  <2>3. CASE c.kind # "bytes" /\ c.kind # "text"
    <3>1. b = << >> BY <2>3 DEF BytesOf
    <3> HIDE DEF b
    <3> QED BY <3>1, EmptySeq
  <2> QED BY <2>1, <2>2, <2>3
<1> HIDE DEF b
<1>3. b \in Seq(ToSet(b)) BY <1>2, SeqOfItsValues
<1>4. ToSet(b) \subseteq Octets BY DEF Octets, b
<1>5. b \in Seq(Octets) BY <1>3, <1>4, SeqMonotonic
<1>6. \A l \in 0 .. Len(b) : SubSeq(b, 1, l) # Nothing BY <1>1 DEF Prefixes
<1> QED BY <1>5, <1>6 DEF b

LEMMA RecorderInvInit == RecorderInit => RecorderInv
<1> SUFFICES ASSUME RecorderInit PROVE RecorderInv
  OBVIOUS
<1>1. sent = << >> /\ chunks = << >> /\ << >> \in Seq(Octets) /\ << >> \in Seq(Seq(Octets))
      /\ Len(<< >>) = 0
  BY EmptySeq DEF RecorderInit
<1>2. FlattenSeq(chunks) = << >>
  BY <1>1, FlattenProperties
<1>3. RecordedByCache
  <2>1. size = 0 /\ tooBig = FALSE /\ size \in Nat /\ Len(sent) = 0 BY <1>1 DEF RecorderInit
  <2>2. size =< MaxEntryBytes BY <2>1, RecorderAssumption
  <2>3. FlattenSeq(chunks) = sent /\ chunks \in Seq(Seq(Octets)) BY <1>1, <1>2
  <2> QED BY <2>1, <2>2, <2>3 DEF RecordedByCache
<1>4. RecordedByLog
  BY <1>1 DEF RecorderInit, RecordedByLog
<1> QED BY <1>1, <1>3, <1>4 DEF RecorderInit, RecorderInv, KeepsResultsAsSent

(* A chunk is recorded by the cache, or the record was given up before. *)
LEMMA CacheKeepsRecord ==
  ASSUME sent \in Seq(Octets), RecordedByCache, NEW c \in Chunks, Send(c)
  PROVE  RecordedByCache'
<1> DEFINE b == BytesOf(c)
<1>1. b \in Seq(Octets) BY BytesOfIsSequence
<1>2. sent' = sent \o b /\ CacheRecords(c) BY DEF Send
<1> HIDE DEF b
<1>3. Len(sent) \in Nat /\ Len(b) \in Nat /\ Len(sent \o b) = Len(sent) + Len(b)
  BY <1>1, ConcatProperties
<1>4. size \in Nat /\ chunks \in Seq(Seq(Octets)) /\ tooBig \in BOOLEAN
  BY DEF RecordedByCache
<1>5. CASE tooBig
  <2>1. UNCHANGED <<chunks, size, tooBig>> BY <1>2, <1>5 DEF CacheRecords
  <2>2. size > MaxEntryBytes /\ size =< Len(sent) BY <1>5 DEF RecordedByCache
  <2>3. size =< Len(sent') BY <1>2, <1>3, <1>4, <2>2
  <2> QED BY <1>4, <1>5, <2>1, <2>2, <2>3 DEF RecordedByCache
<1>6. CASE ~ tooBig /\ ~ IsData(c)
  <2>1. b = << >> BY <1>6 DEF IsData, BytesOf, b
  <2>2. sent' = sent BY <1>2, <2>1, ConcatEmptySeq
  <2>3. UNCHANGED <<chunks, size, tooBig>> BY <1>2, <1>6 DEF CacheRecords
  <2> QED BY <2>2, <2>3 DEF RecordedByCache
<1>7. CASE ~ tooBig /\ IsData(c)
  <2>1. FlattenSeq(chunks) = sent /\ size = Len(sent) BY <1>7 DEF RecordedByCache
  <2>2. /\ size' = size + Len(b)
        /\ IF size' > MaxEntryBytes THEN tooBig' = TRUE /\ chunks' = << >>
           ELSE chunks' = Append(chunks, b) /\ UNCHANGED tooBig
    BY <1>2, <1>7 DEF CacheRecords, b
  <2>3. size' \in Nat /\ size' = Len(sent') BY <1>2, <1>3, <2>1, <2>2
  <2>4. CASE size' > MaxEntryBytes
    <3>1. tooBig' = TRUE /\ chunks' = << >> BY <2>2, <2>4
    <3>2. << >> \in Seq(Seq(Octets)) BY EmptySeq
    <3>3. size' =< Len(sent') BY <2>3
    <3> QED BY <2>3, <2>4, <3>1, <3>2, <3>3 DEF RecordedByCache
  <2>5. CASE ~ size' > MaxEntryBytes
    <3>1. chunks' = Append(chunks, b) /\ tooBig' = tooBig BY <2>2, <2>5
    <3>2. chunks' \in Seq(Seq(Octets)) BY <1>1, <1>4, <3>1, AppendProperties
    <3>3. FlattenSeq(Append(chunks, b)) = FlattenSeq(chunks) \o b
      BY <1>1, <1>4, FlattenProperties
    <3>4. FlattenSeq(chunks') = sent' BY <1>2, <2>1, <3>1, <3>3
    <3>5. size' =< MaxEntryBytes BY <2>3, <2>5, RecorderAssumption
    <3>6. tooBig' = FALSE BY <1>4, <1>7, <3>1
    <3> QED BY <2>3, <3>2, <3>4, <3>5, <3>6 DEF RecordedByCache
  <2> QED BY <2>4, <2>5
<1> QED BY <1>5, <1>6, <1>7

(* A chunk is recorded by the log. *)
LEMMA LogKeepsRecord ==
  ASSUME sent \in Seq(Octets), RecordedByLog, NEW c \in Chunks, Send(c)
  PROVE  RecordedByLog'
<1> DEFINE b == BytesOf(c)
<1>1. b \in Seq(Octets) /\ \A l \in 0 .. Len(b) : SubSeq(b, 1, l) # Nothing
  BY BytesOfIsSequence
<1>2. sent' = sent \o b /\ LogRecords(c) BY DEF Send
<1>3. CASE ~ IsData(c)
  <2>1. b = << >> BY <1>3 DEF IsData, BytesOf
  <2>2. UNCHANGED <<bytes, firstBytes>> BY <1>2, <1>3 DEF LogRecords
  <2> HIDE DEF b
  <2>3. sent' = sent BY <1>2, <2>1, ConcatEmptySeq
  <2> QED BY <2>2, <2>3 DEF RecordedByLog
<1>4. CASE IsData(c)
  <2>1. bytes' = bytes + Len(b) /\ firstBytes' = FirstBytesWith(b)
    BY <1>2, <1>4 DEF LogRecords
  <2> HIDE DEF b
  <2>2. Len(sent) \in Nat /\ Len(b) \in Nat /\ Len(sent \o b) = Len(sent) + Len(b)
        /\ (sent \o b = << >> <=> sent = << >> /\ b = << >>)
    BY <1>1, ConcatProperties, ConcatEqualIffEmpty
  <2>3. bytes' = Len(sent') BY <1>2, <2>1, <2>2 DEF RecordedByLog
  <2>4. ASSUME b = << >> \/ firstBytes # Nothing PROVE firstBytes' = firstBytes
    BY <2>1, <2>4 DEF FirstBytesWith
  <2>5. CASE firstBytes = Nothing /\ b = << >>
    <3>1. sent = << >> BY <2>5 DEF RecordedByLog
    <3>2. sent' = << >> BY <1>2, <2>2, <2>5, <3>1
    <3>3. firstBytes' = Nothing BY <2>4, <2>5
    <3> QED BY <2>3, <3>2, <3>3 DEF RecordedByLog
  <2>6. CASE firstBytes # Nothing
    <3>1. PICK l \in 0 .. Len(sent) : l =< HeadBytes /\ firstBytes = SubSeq(sent, 1, l)
      BY <2>6 DEF RecordedByLog
    <3>2. SubSeq(sent \o b, 1, l) = SubSeq(sent, 1, l) BY <1>1, SubSeqOfConcat
    <3>3. firstBytes' = SubSeq(sent', 1, l) BY <1>2, <2>4, <2>6, <3>1, <3>2
    <3>4. l \in 0 .. Len(sent') BY <1>2, <2>2
    <3>5. sent' # << >> BY <1>2, <2>2, <2>6 DEF RecordedByLog
    <3>6. firstBytes' # Nothing BY <2>4, <2>6
    <3> QED BY <2>3, <3>1, <3>3, <3>4, <3>5, <3>6 DEF RecordedByLog
  <2>7. CASE firstBytes = Nothing /\ b # << >>
    <3> DEFINE l == IF HeadBytes < Len(b) THEN HeadBytes ELSE Len(b)
    <3>1. sent = << >> BY <2>7 DEF RecordedByLog
    <3>2. sent' = b BY <1>1, <1>2, <3>1, ConcatEmptySeq
    <3>3. firstBytes' = SubSeq(b, 1, l) BY <2>1, <2>7 DEF FirstBytesWith
    <3>4. l \in 0 .. Len(b) /\ l =< HeadBytes BY <2>2, RecorderAssumption
    <3> HIDE DEF l
    <3>5. firstBytes' # Nothing BY <1>1, <3>3, <3>4
    <3> QED BY <2>3, <2>7, <3>2, <3>3, <3>4, <3>5 DEF RecordedByLog
  <2> QED BY <2>5, <2>6, <2>7
<1> QED BY <1>3, <1>4

(* What the cache keeps at the end is what was sent, if it recorded all. *)
LEMMA EndKeepsSent ==
  ASSUME RecordedByCache, RecordedByCache', sent' \in Seq(Octets), NEW c \in Chunks, End(c)
  PROVE  KeepsResultsAsSent'
<1>1. /\ ended' = TRUE /\ status' = status
      /\ kept' = IF status = 200 /\ ~ tooBig' /\ chunks' # << >> /\ FlattenSeq(chunks') \in Results
                 THEN FlattenSeq(chunks') ELSE Nothing
  BY DEF End
<1>2. Len(sent') \in Nat /\ << >> \notin Results /\ MaxEntryBytes \in Nat
  BY ChunksAssumption, RecorderAssumption
<1>3. CASE tooBig'
  <2>1. size' > MaxEntryBytes /\ size' =< Len(sent') /\ size' \in Nat
    BY <1>3 DEF RecordedByCache
  <2>2. ~ Len(sent') =< MaxEntryBytes BY <1>2, <2>1
  <2> QED BY <1>1, <1>3, <2>2 DEF KeepsResultsAsSent
<1>4. CASE ~ tooBig'
  <2>1. /\ FlattenSeq(chunks') = sent' /\ Len(sent') =< MaxEntryBytes
        /\ chunks' \in Seq(Seq(Octets))
    BY <1>4 DEF RecordedByCache
  <2>2. sent' \in Results => chunks' # << >>
    <3> SUFFICES ASSUME chunks' = << >> PROVE sent' \notin Results
      OBVIOUS
    <3>1. << >> \in Seq(Seq(Octets)) /\ << >> \in Seq(Octets) BY EmptySeq
    <3>2. FlattenSeq(<< >>) = << >> BY <3>1, FlattenProperties
    <3> QED BY <1>2, <2>1, <3>2
  <2> QED BY <1>1, <1>4, <2>1, <2>2 DEF KeepsResultsAsSent
<1> QED BY <1>3, <1>4

LEMMA RecorderInvNext == RecorderInv /\ [RecorderNext]_recorderVars => RecorderInv'
<1> SUFFICES ASSUME RecorderInv, [RecorderNext]_recorderVars PROVE RecorderInv'
  OBVIOUS
<1>1. CASE UNCHANGED recorderVars
  BY <1>1 DEF recorderVars, RecorderInv, RecordedByCache, RecordedByLog, KeepsResultsAsSent
<1>2. ASSUME NEW c \in Chunks, Send(c)
      PROVE  sent' \in Seq(Octets) /\ RecordedByCache' /\ RecordedByLog' /\ ~ ended
  <2>1. sent \in Seq(Octets) /\ RecordedByCache /\ RecordedByLog BY DEF RecorderInv
  <2>2. sent' = sent \o BytesOf(c) /\ ~ ended BY <1>2 DEF Send
  <2>3. sent' \in Seq(Octets) BY <2>1, <2>2, BytesOfIsSequence, ConcatProperties
  <2>4. RecordedByCache' BY <1>2, <2>1, CacheKeepsRecord
  <2>5. RecordedByLog' BY <1>2, <2>1, LogKeepsRecord
  <2> QED BY <2>2, <2>3, <2>4, <2>5
<1>3. ASSUME NEW c \in Chunks, Write(c) PROVE RecorderInv'
  <2>1. Send(c) /\ ended' = ended BY <1>3 DEF Write
  <2>2. sent' \in Seq(Octets) /\ RecordedByCache' /\ RecordedByLog' /\ ~ ended BY <1>2, <2>1
  <2>3. KeepsResultsAsSent' BY <2>1, <2>2 DEF KeepsResultsAsSent
  <2> QED BY <2>2, <2>3 DEF RecorderInv
<1>4. ASSUME NEW c \in Chunks, End(c) PROVE RecorderInv'
  <2>1. Send(c) BY <1>4 DEF End
  <2>2. sent' \in Seq(Octets) /\ RecordedByCache' /\ RecordedByLog' BY <1>2, <2>1
  <2>3. RecordedByCache BY DEF RecorderInv
  <2>4. KeepsResultsAsSent' BY <1>4, <2>2, <2>3, EndKeepsSent
  <2> QED BY <2>2, <2>4 DEF RecorderInv
<1> QED BY <1>1, <1>3, <1>4 DEF RecorderNext, RecorderEnded

(* block-cache.ts:103-120: in however many chunks a response is written,   *)
(* what the cache keeps at its end is what the client got, or nothing.     *)
THEOREM KeepsResultsAsSentAlways == RecorderSpec => []KeepsResultsAsSent
<1>1. RecorderInv => KeepsResultsAsSent BY DEF RecorderInv
<1> QED BY <1>1, RecorderInvInit, RecorderInvNext, PTL DEF RecorderSpec

(* request-log.ts:74-92: the log has the number of the bytes sent and the  *)
(* first of them.                                                          *)
THEOREM LogMeasuresWhatIsSentAlways == RecorderSpec => []LogMeasuresWhatIsSent
<1>1. RecorderInv => LogMeasuresWhatIsSent
  <2> SUFFICES ASSUME RecorderInv PROVE LogMeasuresWhatIsSent
    OBVIOUS
  <2>1. sent \in Seq(Octets) /\ RecordedByLog BY DEF RecorderInv
  <2>2. ASSUME firstBytes # Nothing
        PROVE  Len(firstBytes) =< HeadBytes /\ IsPrefix(firstBytes, sent)
    <3>1. PICK l \in 0 .. Len(sent) : l =< HeadBytes /\ firstBytes = SubSeq(sent, 1, l)
      BY <2>1, <2>2 DEF RecordedByLog
    <3>2. Len(SubSeq(sent, 1, l)) = l /\ IsPrefix(SubSeq(sent, 1, l), sent)
      BY <2>1, SubSeqIsPrefix
    <3> QED BY <3>1, <3>2
  <2> QED BY <2>1, <2>2 DEF RecordedByLog, LogMeasuresWhatIsSent
<1> QED BY <1>1, RecorderInvInit, RecorderInvNext, PTL DEF RecorderSpec

-----------------------------------------------------------------------------
(***************************************************************************)
(* The codes of a summary.  FoldLeft is defined by recursion over the sets *)
(* of positions; here it is reduced to one round of the loop after others. *)
(***************************************************************************)
CodesOn(es, D, g) ==
  g = [T \in D |-> IF T = {} THEN << >> ELSE TakeCode(g[T \ {Max(T)}], es[Max(T)])]

(* FoldLeft, unfolded to the recursive function that computes it. *)
LEMMA CodesIter ==
  ASSUME NEW es
  PROVE  FoldLeft(TakeCode, << >>, es) =
           (CHOOSE g : CodesOn(es, SUBSET DOMAIN es, g))[DOMAIN es]
BY DEF FoldLeft, MapThenFoldSet, CodesOn

(* That function exists. *)
LEMMA CodesExist ==
  ASSUME NEW es, NEW S, IsFiniteSet(S), S \subseteq Int
  PROVE  \E g : CodesOn(es, SUBSET S, g)
<1> DEFINE D(n) == {T \in SUBSET S : Cardinality(T) =< n}
           N == {n \in Nat : \E g : CodesOn(es, D(n), g)}
<1>1. 0 \in N
  <2>1. D(0) = {{}}
    BY FS_Subset, FS_EmptySet, FS_CardinalityType
  <2>2. CodesOn(es, {{}}, [T \in {{}} |-> << >>])
    BY DEF CodesOn
  <2> QED BY <2>1, <2>2
<1>2. ASSUME NEW n \in Nat, n \in N PROVE n + 1 \in N
  <2>1. PICK g : CodesOn(es, D(n), g)
    BY <1>2
  <2> DEFINE h == [T \in D(n + 1) |-> IF T = {} THEN << >>
                                      ELSE TakeCode(g[T \ {Max(T)}], es[Max(T)])]
  <2>2. ASSUME NEW T \in D(n + 1), T # {} PROVE T \ {Max(T)} \in D(n) /\ T \ {Max(T)} \in D(n + 1)
    <3>1. IsFiniteSet(T) /\ Cardinality(T) \in Nat /\ T \subseteq Int
      BY FS_Subset, FS_CardinalityType
    <3>2. Max(T) \in T BY <2>2, <3>1, MaxMember
    <3>3. Cardinality(T \ {Max(T)}) = Cardinality(T) - 1 BY <3>1, <3>2, FS_RemoveElement
    <3>4. Cardinality(T) =< n + 1 /\ T \ {Max(T)} \in SUBSET S OBVIOUS
    <3>5. Cardinality(T \ {Max(T)}) =< n /\ Cardinality(T \ {Max(T)}) =< n + 1
      BY <3>1, <3>3, <3>4
    <3> QED BY <3>4, <3>5
  <2>3. ASSUME NEW T \in D(n) PROVE g[T] = h[T]
    <3>1. IsFiniteSet(T) /\ Cardinality(T) \in Nat BY FS_Subset, FS_CardinalityType
    <3>2. T \in D(n + 1) BY <3>1
    <3>3. g[T] = IF T = {} THEN << >> ELSE TakeCode(g[T \ {Max(T)}], es[Max(T)])
      <4> HIDE DEF D
      <4> QED BY <2>1 DEF CodesOn
    <3> QED BY <3>2, <3>3
  <2>4. h = [T \in D(n + 1) |-> IF T = {} THEN << >>
                                ELSE TakeCode(h[T \ {Max(T)}], es[Max(T)])]
    <3> HIDE DEF D
    <3> QED BY <2>2, <2>3
  <2> HIDE DEF D, h
  <2>5. CodesOn(es, D(n + 1), h) BY <2>4 DEF CodesOn
  <2>6. n + 1 \in Nat OBVIOUS
  <2> QED BY <2>5, <2>6
<1>3. Cardinality(S) \in N
  <2> HIDE DEF N
  <2> QED BY <1>1, <1>2, NatInductionOnSet, FS_CardinalityType
<1>4. D(Cardinality(S)) = SUBSET S
  BY FS_Subset
<1> HIDE DEF D
<1> QED BY <1>3, <1>4

(* The codes after each of the errors, by the codes after those before. *)
LEMMA CodesAfterEach ==
  ASSUME NEW es, es \in Seq(ToSet(es))
  PROVE  \E g : /\ g[{}] = << >>
                /\ \A n \in Nat : n + 1 =< Len(es) =>
                     g[1 .. n + 1] = TakeCode(g[1 .. n], es[n + 1])
                /\ FoldLeft(TakeCode, << >>, es) = g[1 .. Len(es)]
<1> DEFINE S == 1 .. Len(es)
<1>1. Len(es) \in Nat /\ DOMAIN es = S OBVIOUS
<1>2. IsFiniteSet(S) /\ S \subseteq Int BY <1>1, FS_Interval
<1>3. PICK g : g = (CHOOSE h : CodesOn(es, SUBSET S, h)) OBVIOUS
<1>4. CodesOn(es, SUBSET S, g)
  <2> HIDE DEF S
  <2>1. \E h : CodesOn(es, SUBSET S, h) BY <1>2, CodesExist
  <2> QED BY <1>3, <2>1
<1>5. FoldLeft(TakeCode, << >>, es) = g[S]
  <2> HIDE DEF S
  <2> QED BY <1>1, <1>3, CodesIter
<1>6. \A T \in SUBSET S :
        g[T] = IF T = {} THEN << >> ELSE TakeCode(g[T \ {Max(T)}], es[Max(T)])
  <2> HIDE DEF S
  <2> DEFINE F == [T \in SUBSET S |-> IF T = {} THEN << >>
                                      ELSE TakeCode(g[T \ {Max(T)}], es[Max(T)])]
  <2>1. g = F BY <1>4 DEF CodesOn
  <2>2. \A T \in SUBSET S :
          F[T] = IF T = {} THEN << >> ELSE TakeCode(g[T \ {Max(T)}], es[Max(T)])
    OBVIOUS
  <2> HIDE DEF F
  <2> QED BY <2>1, <2>2
<1>7. g[{}] = << >> BY <1>6
<1>8. ASSUME NEW n \in Nat, n + 1 =< Len(es)
      PROVE  g[1 .. n + 1] = TakeCode(g[1 .. n], es[n + 1])
  <2>1. 1 .. n + 1 \in SUBSET S /\ 1 .. n + 1 # {}
    <3>1. \A m \in Nat : n + 1 =< m => 1 .. n + 1 \subseteq 1 .. m /\ n + 1 \in 1 .. n + 1
      OBVIOUS
    <3> QED BY <1>1, <1>8, <3>1
  <2>2. Max(1 .. n + 1) = n + 1 /\ (1 .. n + 1) \ {n + 1} = 1 .. n BY MaxOfInterval
  <2> DEFINE T == 1 .. n + 1
  <2>3. g[T] = TakeCode(g[T \ {Max(T)}], es[Max(T)])
    <3> HIDE DEF S, T
    <3> QED BY <1>6, <2>1 DEF T
  <2> QED BY <2>2, <2>3
<1> QED BY <1>5, <1>7, <1>8

CodesAmong(es, n) == {ErrorCode(es[i]) : i \in 1 .. n}

CodesListed(es, n, codes) ==
  /\ codes \in Seq(CodesAmong(es, n))
  /\ Len(codes) = IF Cardinality(CodesAmong(es, n)) < MaxCodes
                  THEN Cardinality(CodesAmong(es, n)) ELSE MaxCodes
  /\ Len(codes) < MaxCodes => ToSet(codes) = CodesAmong(es, n)
  /\ \A k \in 1 .. Len(codes) :
       \E i \in 1 .. n :
         /\ Cardinality(CodesAmong(es, i)) = k /\ Cardinality(CodesAmong(es, i - 1)) = k - 1
         /\ codes[k] = ErrorCode(es[i])

(* One more error has one more code among them, or none. *)
LEMMA CodesAmongMore ==
  ASSUME NEW es, NEW n \in Nat
  PROVE  /\ Cardinality(CodesAmong(es, n)) \in Nat
         /\ CodesAmong(es, n + 1) = CodesAmong(es, n) \cup {ErrorCode(es[n + 1])}
         /\ ErrorCode(es[n + 1]) \notin CodesAmong(es, n) =>
              Cardinality(CodesAmong(es, n + 1)) = Cardinality(CodesAmong(es, n)) + 1
<1>1. IsFiniteSet(CodesAmong(es, n))
  <2> DEFINE f == [i \in 1 .. n |-> ErrorCode(es[i])]
  <2>1. IsFiniteSet(1 .. n) BY FS_Interval
  <2>2. CodesAmong(es, n) = {f[i] : i \in 1 .. n} BY DEF CodesAmong
  <2> HIDE DEF f
  <2> QED BY <2>1, <2>2, ImageFinite
<1>2. CodesAmong(es, n + 1) = CodesAmong(es, n) \cup {ErrorCode(es[n + 1])}
  <2>1. 1 .. n + 1 = 1 .. n \cup {n + 1} OBVIOUS
  <2> QED BY <2>1 DEF CodesAmong
<1> QED BY <1>1, <1>2, FS_CardinalityType, FS_AddElement

(* With no errors there are no codes. *)
LEMMA CodesListedNone ==
  ASSUME NEW es PROVE CodesListed(es, 0, << >>)
<1>1. CodesAmong(es, 0) = {} BY DEF CodesAmong
<1>2. Cardinality(CodesAmong(es, 0)) = 0 BY <1>1, FS_EmptySet
<1>3. << >> \in Seq(CodesAmong(es, 0)) /\ Len(<< >>) = 0 BY EmptySeq
<1>4. ToSet(<< >>) = {} BY DEF ToSet
<1>5. Len(<< >>) = IF Cardinality(CodesAmong(es, 0)) < MaxCodes
                   THEN Cardinality(CodesAmong(es, 0)) ELSE MaxCodes
  <2>1. 0 < MaxCodes BY SummaryAssumption
  <2> QED BY <1>2, <1>3, <2>1
<1>6. 1 .. Len(<< >>) = {} BY <1>3
<1> QED BY <1>1, <1>3, <1>4, <1>5, <1>6 DEF CodesListed

(* One round of the loop. *)
LEMMA TakeCodeLists ==
  ASSUME NEW es, NEW n \in Nat, NEW codes, CodesListed(es, n, codes)
  PROVE  CodesListed(es, n + 1, TakeCode(codes, es[n + 1]))
<1> DEFINE C == CodesAmong(es, n)
           C1 == CodesAmong(es, n + 1)
           code == ErrorCode(es[n + 1])
           taken == TakeCode(codes, es[n + 1])
<1>1. /\ codes \in Seq(C)
      /\ Len(codes) = IF Cardinality(C) < MaxCodes THEN Cardinality(C) ELSE MaxCodes
      /\ Len(codes) < MaxCodes => ToSet(codes) = C
      /\ \A k \in 1 .. Len(codes) :
           \E i \in 1 .. n :
             /\ Cardinality(CodesAmong(es, i)) = k /\ Cardinality(CodesAmong(es, i - 1)) = k - 1
             /\ codes[k] = ErrorCode(es[i])
  BY DEF CodesListed
<1>2. /\ Cardinality(C) \in Nat /\ Cardinality(C1) \in Nat
      /\ C1 = C \cup {code}
      /\ code \notin C => Cardinality(C1) = Cardinality(C) + 1
  BY CodesAmongMore
<1>3. MaxCodes \in Nat /\ Len(codes) \in Nat
  BY <1>1, SummaryAssumption
<1>4. taken = IF Len(codes) >= MaxCodes \/ code \in ToSet(codes) THEN codes
              ELSE Append(codes, code)
  BY DEF TakeCode
<1>5. /\ codes \in Seq(C1)
      /\ \A k \in 1 .. Len(codes) :
           \E i \in 1 .. n + 1 :
             /\ Cardinality(CodesAmong(es, i)) = k /\ Cardinality(CodesAmong(es, i - 1)) = k - 1
             /\ codes[k] = ErrorCode(es[i])
  <2>1. C \subseteq C1 BY <1>2
  <2>2. codes \in Seq(C1)
    <3> HIDE DEF C, C1
    <3> QED BY <1>1, <2>1, SeqMonotonic
  <2>3. 1 .. n \subseteq 1 .. n + 1 OBVIOUS
  <2> QED BY <1>1, <2>2, <2>3
<1> HIDE DEF C, C1, code, taken
<1>6. CASE Len(codes) >= MaxCodes
  <2>1. taken = codes BY <1>4, <1>6
  <2>2. ~ Len(codes) < MaxCodes /\ ~ Cardinality(C) < MaxCodes /\ Len(codes) = MaxCodes
    BY <1>1, <1>2, <1>3, <1>6
  <2>3. code \in C => C1 = C BY <1>2
  <2>4. ~ Cardinality(C1) < MaxCodes
    <3>1. \A a, m \in Nat : ~ a < m => ~ a + 1 < m OBVIOUS
    <3>2. CASE code \in C BY <2>2, <2>3, <3>2
    <3>3. CASE code \notin C
      <4>1. Cardinality(C1) = Cardinality(C) + 1 BY <1>2, <3>3
      <4> QED BY <1>2, <1>3, <2>2, <3>1, <4>1
    <3> QED BY <3>2, <3>3
  <2> QED BY <1>5, <2>1, <2>2, <2>4 DEF CodesListed, taken, C1
<1>7. CASE Len(codes) < MaxCodes /\ code \in ToSet(codes)
  <2>1. taken = codes BY <1>4, <1>7
  <2>2. ToSet(codes) = C /\ C1 = C BY <1>1, <1>2, <1>7
  <2>3. Len(codes) = IF Cardinality(C1) < MaxCodes THEN Cardinality(C1) ELSE MaxCodes
    BY <1>1, <2>2
  <2> QED BY <1>5, <2>1, <2>2, <2>3 DEF CodesListed, taken, C1
<1>8. CASE Len(codes) < MaxCodes /\ code \notin ToSet(codes)
  <2>1. taken = Append(codes, code) BY <1>3, <1>4, <1>8
  <2>2. ToSet(codes) = C /\ Len(codes) = Cardinality(C) /\ Cardinality(C) < MaxCodes
    BY <1>1, <1>2, <1>3, <1>8
  <2>3. Cardinality(C1) = Cardinality(C) + 1 BY <1>2, <1>8, <2>2
  <2>4. code \in C1 BY <1>2
  <2>5. /\ taken \in Seq(C1) /\ Len(taken) = Len(codes) + 1
        /\ \A k \in 1 .. Len(codes) : taken[k] = codes[k]
        /\ taken[Len(codes) + 1] = code
    BY <1>5, <2>1, <2>4, AppendProperties
  <2>6. Len(taken) = IF Cardinality(C1) < MaxCodes THEN Cardinality(C1) ELSE MaxCodes
    BY <1>2, <1>3, <2>2, <2>3, <2>5
  <2>7. ToSet(taken) = C1
    <3>1. DOMAIN taken = 1 .. Len(codes) \cup {Len(codes) + 1} BY <1>3, <2>5
    <3>2. DOMAIN codes = 1 .. Len(codes) BY <1>5
    <3>3. ToSet(taken) = ToSet(codes) \cup {code} BY <2>5, <3>1, <3>2 DEF ToSet
    <3> QED BY <1>2, <2>2, <3>3
  <2>8. ASSUME NEW k \in 1 .. Len(taken)
        PROVE  \E i \in 1 .. n + 1 :
                 /\ Cardinality(CodesAmong(es, i)) = k
                 /\ Cardinality(CodesAmong(es, i - 1)) = k - 1
                 /\ taken[k] = ErrorCode(es[i])
    <3>1. CASE k \in 1 .. Len(codes)
      <4>1. taken[k] = codes[k] BY <2>5, <3>1
      <4> QED BY <1>5, <3>1, <4>1
    <3>2. CASE k \notin 1 .. Len(codes)
      <4>1. k = Len(codes) + 1 BY <1>3, <2>5, <3>2
      <4>2. Cardinality(CodesAmong(es, n + 1)) = k BY <2>2, <2>3, <4>1 DEF C1
      <4>3. n + 1 - 1 = n /\ k - 1 = Len(codes) BY <1>3, <4>1
      <4>4. Cardinality(CodesAmong(es, n + 1 - 1)) = k - 1 BY <2>2, <4>3 DEF C
      <4>5. taken[k] = ErrorCode(es[n + 1]) BY <2>5, <4>1 DEF code
      <4>6. n + 1 \in 1 .. n + 1 OBVIOUS
      <4> QED BY <4>2, <4>4, <4>5, <4>6
    <3> QED BY <3>1, <3>2
  <2> QED BY <2>5, <2>6, <2>7, <2>8 DEF CodesListed, taken, C1
<1> QED
  <2>1. Len(codes) >= MaxCodes \/ Len(codes) < MaxCodes BY <1>3
  <2> QED BY <1>6, <1>7, <1>8, <2>1 DEF taken

(* All rounds of it. *)
LEMMA CodesListedForAll ==
  ASSUME NEW es, es \in Seq(ToSet(es))
  PROVE  CodesListed(es, Len(es), FoldLeft(TakeCode, << >>, es))
<1>1. PICK g : /\ g[{}] = << >>
               /\ \A n \in Nat : n + 1 =< Len(es) =>
                    g[1 .. n + 1] = TakeCode(g[1 .. n], es[n + 1])
               /\ FoldLeft(TakeCode, << >>, es) = g[1 .. Len(es)]
  BY CodesAfterEach
<1> DEFINE N == {n \in Nat : n =< Len(es) => CodesListed(es, n, g[1 .. n])}
<1>2. Len(es) \in Nat OBVIOUS
<1>3. 0 \in N
  <2>1. 1 .. 0 = {} OBVIOUS
  <2>2. CodesListed(es, 0, g[1 .. 0]) BY <1>1, <2>1, CodesListedNone
  <2> QED BY <2>2
<1>4. ASSUME NEW n \in Nat, n \in N PROVE n + 1 \in N
  <2> SUFFICES ASSUME n + 1 =< Len(es) PROVE CodesListed(es, n + 1, g[1 .. n + 1])
    OBVIOUS
  <2>1. n =< Len(es) BY <1>2
  <2>2. CodesListed(es, n, g[1 .. n]) BY <1>4, <2>1
  <2>3. CodesListed(es, n + 1, TakeCode(g[1 .. n], es[n + 1])) BY <2>2, TakeCodeLists
  <2> QED BY <1>1, <2>3
<1>5. Nat \subseteq N
  <2> HIDE DEF N
  <2> QED BY <1>3, <1>4, NatInductionOnSet
<1>6. CodesListed(es, Len(es), g[1 .. Len(es)]) BY <1>2, <1>5
<1> QED BY <1>1, <1>6

SummaryInv ==
  /\ errors \in Seq(ToSet(errors))
  /\ ~ recorded => summary = Missing
  /\ SummaryIsFaithful

LEMMA SummaryInvNext == SummaryInv /\ [SummaryNext]_summaryVars => SummaryInv'
<1> SUFFICES ASSUME SummaryInv, [SummaryNext]_summaryVars PROVE SummaryInv'
  OBVIOUS
<1>1. CASE UNCHANGED summaryVars
  <2>1. UNCHANGED <<errors, recorded, summary>> BY <1>1 DEF summaryVars
  <2>2. \A n : Distinct(n)' = Distinct(n) BY <2>1 DEF Distinct
  <2>3. SummaryIsFaithful' = SummaryIsFaithful BY <2>1, <2>2 DEF SummaryIsFaithful
  <2> QED BY <2>1, <2>3 DEF SummaryInv
<1>2. CASE Record
  <2>1. /\ errors \in Seq(ToSet(errors)) /\ errors' = errors /\ recorded' = TRUE
        /\ summary' = IF streamed \/ errors = << >> THEN Missing ELSE SummarizeErrors(errors)
    BY <1>2 DEF Record, SummaryInv
  <2>2. CASE streamed \/ errors = << >>
    BY <2>1, <2>2 DEF SummaryInv, SummaryIsFaithful
  <2>3. CASE ~ (streamed \/ errors = << >>)
    <3>1. /\ summary'.count = Len(errors)
          /\ summary'.codes = FoldLeft(TakeCode, << >>, errors)
      <4> DEFINE codes == FoldLeft(TakeCode, << >>, errors)
      <4>1. summary' = SummarizeErrors(errors) BY <2>1, <2>3
      <4> QED BY <4>1 DEF SummarizeErrors
    <3>2. CodesListed(errors, Len(errors), summary'.codes)
      BY <2>1, <3>1, CodesListedForAll
    <3>3. \A n : Distinct(n)' = CodesAmong(errors, n) BY <2>1 DEF Distinct, CodesAmong
    <3>4. DOMAIN errors = 1 .. Len(errors) /\ DOMAIN summary'.codes = 1 .. Len(summary'.codes)
      BY <2>1, <3>2 DEF CodesListed
    <3>5. SummaryIsFaithful'
      BY <2>1, <3>1, <3>2, <3>3, <3>4 DEF SummaryIsFaithful, CodesListed
    <3> QED BY <2>1, <3>5 DEF SummaryInv
  <2> QED BY <2>2, <2>3
<1> QED BY <1>1, <1>2 DEF SummaryNext, SummaryRecorded

(* request-errors.ts:22-30: of however many errors, in whatever order their *)
(* codes come, a summary has the distinct codes that come first.            *)
THEOREM SummaryIsFaithfulAlways == SummarySpec => []SummaryIsFaithful
<1>1. SummaryInit => SummaryInv
  BY SummaryAssumption DEF SummaryInit, SummaryInv, SummaryIsFaithful
<1>2. SummaryInv => SummaryIsFaithful BY DEF SummaryInv
<1> QED BY <1>1, <1>2, SummaryInvNext, PTL DEF SummarySpec

=============================================================================
