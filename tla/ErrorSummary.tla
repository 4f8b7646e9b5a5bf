------------------------------- MODULE ErrorSummary -------------------------------
(***************************************************************************)
(* plugins/request-errors.ts: what of the errors of an execution goes into *)
(* the log line of its request.                                            *)
(*                                                                         *)
(* An error has the code of the error it wraps, of the one that one wraps, *)
(* and of its extensions, each possibly missing; a path, possibly empty;   *)
(* and the length of its message.                                          *)
(***************************************************************************)
EXTENDS Naturals, Sequences, FiniteSets, SequencesExt

CONSTANTS
  ErrorLists,   \* the errors of executions, each a sequence
  Missing,      \* no code, no path, no summary
  EmptyCode,    \* a code that is the empty string
  MaxCodes,     \* MAX_CODES
  MaxMessage    \* MAX_MESSAGE

ASSUME SummaryAssumption ==
  /\ MaxCodes \in Nat \ {0} /\ MaxMessage \in Nat
  /\ \A es \in ErrorLists : es \in Seq(ToSet(es))

VARIABLES
  errors,       \* of the result
  streamed,     \* whether the result is delivered in parts
  summary,      \* res.locals.gqlErrors
  recorded      \* whether the plugin has seen the result

summaryVars == <<errors, streamed, summary, recorded>>

(* The code of the wrapped error, an empty one too, or else of the one     *)
(* that one wraps                                                          *)
FromOriginal(e) == IF e.original # Missing THEN e.original ELSE e.nested

(* errorCode: the first code there is that is not empty *)
CodesOf(e) ==
  SelectSeq(<<FromOriginal(e), e.errcode, e.extension>>, LAMBDA c : c \notin {Missing, EmptyCode})

ErrorCode(e) == IF CodesOf(e) = << >> THEN "unknown" ELSE Head(CodesOf(e))

(* Mutant of TakeCode: compares with the code before only. *)
TakeCodeAfterOther(codes, e) ==
  IF Len(codes) >= MaxCodes \/ (codes # << >> /\ Last(codes) = ErrorCode(e)) THEN codes
  ELSE Append(codes, ErrorCode(e))

(* One round of the loop, which ends when there are enough codes *)
TakeCode(codes, e) ==
  IF Len(codes) >= MaxCodes \/ ErrorCode(e) \in ToSet(codes) THEN codes
  ELSE Append(codes, ErrorCode(e))

SummarizeErrors(es) ==
  [count   |-> Len(es),
   codes   |-> FoldLeft(TakeCode, << >>, es),
   path    |-> IF es[1].path = << >> THEN Missing ELSE es[1].path,
   shown   |-> IF es[1].message > MaxMessage THEN MaxMessage ELSE es[1].message,
   cut     |-> es[1].message > MaxMessage]

SummaryInit ==
  /\ errors \in ErrorLists
  /\ streamed \in BOOLEAN
  /\ summary = Missing
  /\ recorded = FALSE

(* record, which never looks into a result that comes in parts *)
Record ==
  /\ ~ recorded
  /\ recorded' = TRUE
  /\ summary' = IF streamed \/ errors = << >> THEN Missing ELSE SummarizeErrors(errors)
  /\ UNCHANGED <<errors, streamed>>

SummaryRecorded == recorded /\ UNCHANGED summaryVars

SummaryNext == Record \/ SummaryRecorded

SummarySpec == SummaryInit /\ [][SummaryNext]_summaryVars

-----------------------------------------------------------------------------
(* The codes among the first n errors *)
Distinct(n) == {ErrorCode(errors[i]) : i \in 1 .. n}

(***************************************************************************)
(* request-errors.ts:22-30, "Distinct error codes [...], at most 5": the   *)
(* n-th code of a summary is that of the first error with which there are  *)
(* n codes, no code is left out while there is room, and the count is that *)
(* of all errors.                                                          *)
(***************************************************************************)
SummaryIsFaithful ==
  summary # Missing =>
    /\ summary.count = Len(errors)
    /\ Len(summary.codes) = IF Cardinality(Distinct(Len(errors))) < MaxCodes
                            THEN Cardinality(Distinct(Len(errors))) ELSE MaxCodes
    /\ \A n \in DOMAIN summary.codes :
         \E i \in DOMAIN errors :
           /\ Cardinality(Distinct(i)) = n /\ Cardinality(Distinct(i - 1)) = n - 1
           /\ summary.codes[n] = ErrorCode(errors[i])

=============================================================================
