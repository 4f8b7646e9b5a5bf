------------------------------- MODULE DatetimeTrim -------------------------------
(***************************************************************************)
(* trimFraction of plugins/v4-datetime-format.ts, which rewrites the text  *)
(* of a timestamp by one regular expression, \.(\d*?)0+(?=[^\d]|$), and a  *)
(* reference definition of the text PostgreSQL itself would give.          *)
(*                                                                         *)
(* A timestamp is the text before its seconds' fraction, six digits of     *)
(* microseconds and the text of its zone.                                  *)
(***************************************************************************)
EXTENDS Naturals, Sequences

CONSTANTS
  Digits,       \* the digits that occur, "0" among them
  Wholes,       \* texts up to the seconds, without a dot
  Zones,        \* texts of zones, without a dot and not beginning with a digit
  Places        \* digits of a fraction (6 in to_char's US)

ASSUME TrimAssumption ==
  /\ "0" \in Digits /\ "." \notin Digits
  /\ Places \in Nat \ {0}
  /\ Wholes \cup Zones \subseteq Seq(STRING)
  /\ \A z \in Zones : z # << >> => Head(z) \notin Digits
  /\ \A s \in Wholes \cup Zones : \A i \in DOMAIN s : s[i] # "."

VARIABLES
  time,      \* the value of a field of type Datetime
  text,      \* what is made of it
  trimmed    \* whether the serializer is through

trimVars == <<time, text, trimmed>>

Times == [whole : Wholes, fraction : [1 .. Places -> Digits], zone : Zones]

(***************************************************************************)
(* The regular expression.  A match at i keeps the digits up to k and      *)
(* drops the zeros from there to e, where the digits end.                  *)
(***************************************************************************)
IsMatch(s, i, k, e) ==
  /\ i =< k /\ k < e
  /\ s[i] = "."
  /\ \A j \in i + 1 .. k : s[j] \in Digits
  /\ \A j \in k + 1 .. e : s[j] = "0"
  /\ e = Len(s) \/ s[e + 1] \notin Digits

Matches(s) ==
  {m \in (DOMAIN s) \X (DOMAIN s) \X (DOMAIN s) : IsMatch(s, m[1], m[2], m[3])}

(* Mutant of Preferred: the digits kept are as many as can be, not as few. *)
PreferredGreedy(m, n) ==
  m[1] < n[1] \/ (m[1] = n[1] /\ (m[2] > n[2] \/ (m[2] = n[2] /\ m[3] >= n[3])))

(* The leftmost match; of several the one whose (\d*?) is shortest *)
Preferred(m, n) ==
  m[1] < n[1] \/ (m[1] = n[1] /\ (m[2] < n[2] \/ (m[2] = n[2] /\ m[3] >= n[3])))

TrimFraction(s) ==
  IF Matches(s) = {} THEN s
  ELSE LET m == CHOOSE n \in Matches(s) : \A o \in Matches(s) : Preferred(n, o)
       IN  SubSeq(s, 1, m[1] - 1)
             \o (IF m[2] > m[1] THEN SubSeq(s, m[1], m[2]) ELSE << >>)
             \o SubSeq(s, m[3] + 1, Len(s))

-----------------------------------------------------------------------------
(* PostGraphile 5: to_char(.., 'US') with all its digits *)
V5Text(t) == t.whole \o <<".">> \o t.fraction \o t.zone

(* PostgreSQL's own text: no zeros at the end of the fraction *)
Significant(f) == {n \in 0 .. Places : \A i \in n + 1 .. Places : f[i] = "0"}

V4Text(t) ==
  LET n == CHOOSE m \in Significant(t.fraction) : \A k \in Significant(t.fraction) : m =< k
  IN  IF n = 0 THEN t.whole \o t.zone
      ELSE t.whole \o <<".">> \o SubSeq(t.fraction, 1, n) \o t.zone

TrimInit == time \in Times /\ text = V5Text(time) /\ trimmed = FALSE

(* The serializer that the plugin puts in place of the type's own *)
Serialize ==
  /\ ~ trimmed
  /\ trimmed' = TRUE
  /\ text' = TrimFraction(text)
  /\ UNCHANGED time

Serialized == trimmed /\ UNCHANGED trimVars

TrimNext == Serialize \/ Serialized

TrimSpec == TrimInit /\ [][TrimNext]_trimVars

-----------------------------------------------------------------------------
(***************************************************************************)
(* v4-datetime-format.ts:3-8, "normalise Datetime output back to the exact *)
(* v4 shape": every timestamp, in every zone, comes out as PostgreSQL      *)
(* writes it, and trimming it once more would not change it.               *)
(***************************************************************************)
ExactV4Shape == trimmed => text = V4Text(time) /\ TrimFraction(text) = text

=============================================================================
