------------------------------ MODULE MC_RequestLog ------------------------------
(***************************************************************************)
(* What is recorded about requests, for TLC: the log lines of several, the *)
(* bytes of one response, and the errors of one execution.  They share no  *)
(* state here, so that one moves while the others rest.                    *)
(***************************************************************************)
EXTENDS RequestLog, ResponseRecorder, ErrorSummary, TLC

VARIABLE part     \* the one that moves

allVars == <<part, vars, recorderVars, summaryVars>>

LogAtRest      == document = [r \in Requests |-> CHOOSE d \in Misleading : TRUE] /\ Init
RecorderAtRest == status = 200 /\ RecorderInit
SummaryAtRest  == errors = << >> /\ streamed = FALSE /\ SummaryInit

MCInit ==
  /\ part \in {"lines", "response", "errors"}
  /\ IF part = "lines" THEN Init ELSE LogAtRest
  /\ IF part = "response" THEN RecorderInit ELSE RecorderAtRest
  /\ IF part = "errors" THEN SummaryInit ELSE SummaryAtRest

MCNext ==
  /\ UNCHANGED part
  /\ \/ part = "lines" /\ Next /\ UNCHANGED <<recorderVars, summaryVars>>
     \/ part = "response" /\ RecorderNext /\ UNCHANGED <<vars, summaryVars>>
     \/ part = "errors" /\ SummaryNext /\ UNCHANGED <<vars, recorderVars>>

MCSpec == MCInit /\ [][MCNext]_allVars

Symmetry == Permutations(Requests) \cup Permutations(Documents \ (Misleading \cup Streamed))

-----------------------------------------------------------------------------
(* Texts and bytes, one of them the second byte of a wide character whose  *)
(* first byte is in another chunk; ends without data                       *)
Chunk(kind, body) == [kind |-> kind, body |-> body]

SomeChunks ==
  {Chunk("text", <<"x">>), Chunk("text", <<"w", "x">>), Chunk("text", << >>),
   Chunk("bytes", <<<<"x", 1>>, <<"w", 1>>>>), Chunk("bytes", <<<<"w", 2>>>>),
   Chunk("none", << >>), Chunk("callback", << >>)}

WideOnes == {"w"}

(* A result of one, two, three, four and five bytes *)
SomeResults ==
  {<<<<"x", 1>>>>, <<<<"x", 1>>, <<"x", 1>>>>, <<<<"x", 1>>, <<"w", 1>>, <<"w", 2>>>>,
   <<<<"w", 1>>, <<"w", 2>>, <<"x", 1>>, <<"x", 1>>>>,
   <<<<"w", 1>>, <<"w", 2>>, <<"x", 1>>, <<"x", 1>>, <<"x", 1>>>>}

(* Errors with their code in each of the places, behind an empty one, and  *)
(* without one                                                             *)
Error(original, nested, errcode, extension, path, message) ==
  [original |-> original, nested |-> nested, errcode |-> errcode,
   extension |-> extension, path |-> path, message |-> message]

SomeErrors ==
  {Error("A", Missing, "B", Missing, <<"a", "b">>, 3),
   Error(Missing, "B", "A", Missing, <<"a">>, 2),
   Error(EmptyCode, "A", Missing, "C", <<"a">>, 1),
   Error(Missing, Missing, "C", "A", << >>, 0),
   Error(Missing, Missing, Missing, "D", <<"a">>, 1),
   Error(Missing, Missing, Missing, Missing, << >>, 3)}

SomeErrorLists == UNION {[1 .. n -> SomeErrors] : n \in 0 .. 4}

=============================================================================
