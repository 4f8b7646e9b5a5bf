------------------------------ MODULE EntityProofs ------------------------------
(***************************************************************************)
(* What an operation gets of an entity, for any tables and operations: the *)
(* columns of its own row, the text of its timestamps, and what it inherits *)
(* along its classes.                                                      *)
(***************************************************************************)
EXTENDS EntityResolver, EntityReads, DatetimeTrim, DataLemmas

(* The columns of an operation are among the ones its statement selects.   *)
LEMMA ColumnsForProperties ==
  ASSUME NEW read
  PROVE  /\ ColumnsFor(read) # << >>
         /\ \A c \in read \cap Columns : c \in ToSet(ColumnsFor(read))
<1> DEFINE at == {i \in DOMAIN Sorted : Sorted[i] \in read}
           requested == Selection(Sorted, at)
<1>1. /\ DOMAIN Sorted = 1 .. Len(Sorted) /\ Len(Sorted) \in Nat
      /\ Declared # << >> /\ \A c : c \in Columns <=> \E i \in DOMAIN Sorted : Sorted[i] = c
  BY ReadsAssumption DEF ToSet
<1>2. at \in SUBSET (1 .. Len(Sorted)) BY <1>1
<1>3. \A i : i \in at <=> i \in DOMAIN Sorted /\ Sorted[i] \in read
  OBVIOUS
<1>4. ColumnsFor(read) = IF requested = << >> THEN Declared ELSE requested
  BY DEF ColumnsFor
<1> HIDE DEF at
<1>5. PICK e, m : Enumerates(e, m, at) /\ requested = ReadAt(Sorted, e, m)
  <2> DEFINE n == Len(Sorted)
  <2>1. n \in Nat /\ at \in SUBSET (1 .. n) BY <1>1, <1>2
  <2> HIDE DEF n
  <2> QED BY <2>1, SelectionProperties
<1> HIDE DEF requested
<1>6. /\ requested = [j \in 1 .. m |-> Sorted[e[j]]]
      /\ \A x \in at : \E j \in 1 .. m : e[j] = x
  BY <1>5 DEF Enumerates, ReadAt
<1>7. ColumnsFor(read) # << >>
  BY <1>1, <1>4
<1>8. ASSUME NEW c \in read \cap Columns PROVE c \in ToSet(ColumnsFor(read))
  <2>1. PICK i \in DOMAIN Sorted : Sorted[i] = c BY <1>1, <1>8
  <2>2. PICK j \in 1 .. m : e[j] = i BY <1>3, <1>6, <1>8, <2>1
  <2>3. j \in DOMAIN requested /\ requested[j] = c BY <1>6, <2>1, <2>2
  <2>4. requested # << >> BY <2>3
  <2> QED BY <1>4, <2>3, <2>4 DEF ToSet
<1> QED BY <1>7, <1>8

(***************************************************************************)
(* A statement is kept under the columns that it selects, the one that is  *)
(* under way selects the columns of its operation, and what was answered   *)
(* last holds what was asked for.                                          *)
(***************************************************************************)
LastAnswer ==
  \A id \in wanted :
    IF snapshot[id] = Unread THEN rowsRead[id] = Unread
    ELSE \A c \in attributes \cap Columns : rowsRead[id][c] = snapshot[id][c]

ReadsInv ==
  /\ \A key \in DOMAIN statements : statements[key] = key
  /\ sql # << >> => sql = ColumnsFor(attributes)
  /\ sql = << >> => LastAnswer

(* Nothing has been asked for at the start. *)
LEMMA ReadsInvInit == ReadsInit => ReadsInv
BY DEF ReadsInit, ReadsInv, LastAnswer

(* An operation asks for its columns: those it finds cached it has from an
   earlier answer. *)
LEMMA ReadColumnsPreserves ==
  ASSUME ReadsInv, NEW read, NEW of, ReadColumns(read, of)
  PROVE  ReadsInv'
<1> DEFINE key == ColumnsFor(read)
<1>1. /\ statements' = IF key \in DOMAIN statements THEN statements
                       ELSE [k \in DOMAIN statements \cup {key} |->
                               IF k = key THEN key ELSE statements[k]]
      /\ sql' = statements'[key] /\ attributes' = read
  BY DEF ReadColumns, KeyOf
<1>2. key # << >> BY ColumnsForProperties
<1>3. ColumnsFor(attributes)' = ColumnsFor(attributes')
  BY DEF ColumnsFor
<1>4. ColumnsFor(attributes)' = key BY <1>1, <1>3
<1> HIDE DEF key
<1>5. \A k \in DOMAIN statements' : statements'[k] = k
  <2>1. CASE key \in DOMAIN statements
    BY <1>1, <2>1 DEF ReadsInv
  <2>2. CASE key \notin DOMAIN statements
    BY <1>1, <2>2 DEF ReadsInv
  <2> QED BY <2>1, <2>2
<1>6. key \in DOMAIN statements'
  <2>1. CASE key \in DOMAIN statements
    BY <1>1, <2>1
  <2>2. CASE key \notin DOMAIN statements
    BY <1>1, <2>2
  <2> QED BY <2>1, <2>2
<1>7. sql' = key
  BY <1>1, <1>5, <1>6
<1> QED BY <1>2, <1>4, <1>5, <1>7 DEF ReadsInv

(* An answer brings exactly the columns of its query. *)
LEMMA RowsArrivePreserves ==
  ASSUME ReadsInv, RowsArrive
  PROVE  ReadsInv'
<1>1. /\ sql # << >> /\ sql' = << >> /\ snapshot' = table
      /\ UNCHANGED <<table, statements, attributes, wanted>>
      /\ rowsRead' = [id \in wanted |->
                        IF table[id] = Unread THEN Unread
                        ELSE [c \in Columns |-> IF c \in ToSet(sql) THEN table[id][c] ELSE Unread]]
  BY DEF RowsArrive
<1>2. \A c \in attributes \cap Columns : c \in ToSet(sql)
  BY <1>1, ColumnsForProperties DEF ReadsInv
<1>3. LastAnswer'
  <2> SUFFICES ASSUME NEW id \in wanted
               PROVE  IF table[id] = Unread THEN rowsRead'[id] = Unread
                      ELSE \A c \in attributes \cap Columns : rowsRead'[id][c] = table[id][c]
    BY <1>1 DEF LastAnswer
  <2> QED BY <1>1, <1>2
<1> QED BY <1>1, <1>3 DEF ReadsInv

(* The invariant survives every step. *)
LEMMA ReadsInvNext == ReadsInv /\ [ReadsNext]_readVars => ReadsInv'
<1> SUFFICES ASSUME ReadsInv, [ReadsNext]_readVars PROVE ReadsInv'
  OBVIOUS
<1>1. ASSUME NEW read \in Operations, NEW of \in SUBSET Iids \ {{}}, ReadColumns(read, of)
      PROVE  ReadsInv'
  BY <1>1, ReadColumnsPreserves
<1>2. CASE RowsArrive
  BY <1>2, RowsArrivePreserves
<1>3. ASSUME UNCHANGED <<statements, attributes, wanted, sql, rowsRead, snapshot>>
      PROVE  ReadsInv'
  <2>1. LastAnswer' = LastAnswer BY <1>3 DEF LastAnswer
  <2>2. ColumnsFor(attributes)' = ColumnsFor(attributes)
    BY <1>3 DEF ColumnsFor
  <2> QED BY <1>3, <2>1, <2>2 DEF ReadsInv
<1>4. ASSUME NEW id \in Iids, NEW row \in TableRows, UpdateIid(id, row)
      PROVE  ReadsInv'
  BY <1>3, <1>4 DEF UpdateIid
<1>5. CASE ReadsDone \/ UNCHANGED readVars
  BY <1>3, <1>5 DEF ReadsDone, readVars
<1> QED BY <1>1, <1>2, <1>4, <1>5 DEF ReadsNext

(***************************************************************************)
(* entity.ts:62-67: whatever the columns are, whatever operations come,    *)
(* and whichever statements they left, an operation gets every field that  *)
(* it reads as it was in the snapshot of its query.                        *)
(***************************************************************************)
THEOREM GetsWhatItReadsAlways == ReadsSpec => []GetsWhatItReads
<1>1. ReadsInv => GetsWhatItReads
  BY DEF ReadsInv, LastAnswer, GetsWhatItReads
<1> QED BY <1>1, ReadsInvInit, ReadsInvNext, PTL DEF ReadsSpec

-----------------------------------------------------------------------------
(* A timestamp is put together of characters, its digits among them. *)
Letters == STRING \cup Digits \cup {"."}

TextOf(w, g, z) == w \o <<".">> \o g \o z

(* Where the parts of a text are in it *)
LEMMA TextParts ==
  ASSUME NEW w \in Wholes, NEW g \in Seq(Digits), NEW z \in Zones
  PROVE  /\ w \in Seq(Letters) /\ g \in Seq(Letters) /\ z \in Seq(Letters)
         /\ <<".">> \in Seq(Letters)
         /\ TextOf(w, g, z) \in Seq(Letters)
         /\ Len(TextOf(w, g, z)) = Len(w) + 1 + Len(g) + Len(z)
         /\ \A j \in 1 .. Len(w) : TextOf(w, g, z)[j] = w[j]
         /\ TextOf(w, g, z)[Len(w) + 1] = "."
         /\ \A j \in 1 .. Len(g) : TextOf(w, g, z)[Len(w) + 1 + j] = g[j]
         /\ \A j \in 1 .. Len(z) : TextOf(w, g, z)[Len(w) + 1 + Len(g) + j] = z[j]
<1> DEFINE W == Len(w)
           P == Len(g)
           Z == Len(z)
           dot == <<".">>
           wd == w \o dot
           wdg == wd \o g
<1>1. w \in Seq(STRING) /\ z \in Seq(STRING)
  BY TrimAssumption
<1>2. STRING \subseteq Letters /\ Digits \subseteq Letters /\ "." \in Letters
  BY DEF Letters
<1>3. w \in Seq(Letters) /\ z \in Seq(Letters) /\ g \in Seq(Letters)
  BY <1>1, <1>2, SeqMonotonic
<1>4. dot \in Seq(Letters) /\ Len(dot) = 1 /\ dot[1] = "."
  BY <1>2
<1>5. W \in Nat /\ P \in Nat /\ Z \in Nat
  BY <1>3, LenProperties
<1> HIDE DEF dot
<1>6. /\ wd \in Seq(Letters) /\ Len(wd) = W + 1
      /\ \A i \in 1 .. W + 1 : wd[i] = IF i =< W THEN w[i] ELSE dot[i - W]
  <2>1. /\ w \o dot \in Seq(Letters) /\ Len(w \o dot) = Len(w) + Len(dot)
        /\ \A i \in 1 .. Len(w) + Len(dot) :
             (w \o dot)[i] = IF i =< Len(w) THEN w[i] ELSE dot[i - Len(w)]
    BY <1>3, <1>4, ConcatProperties
  <2> QED BY <2>1, <1>4
<1> HIDE DEF wd
<1>7. /\ wdg \in Seq(Letters) /\ Len(wdg) = W + 1 + P
      /\ \A i \in 1 .. W + 1 + P : wdg[i] = IF i =< W + 1 THEN wd[i] ELSE g[i - (W + 1)]
  <2>1. /\ wd \o g \in Seq(Letters) /\ Len(wd \o g) = Len(wd) + Len(g)
        /\ \A i \in 1 .. Len(wd) + Len(g) :
             (wd \o g)[i] = IF i =< Len(wd) THEN wd[i] ELSE g[i - Len(wd)]
    <3>1. wd \in Seq(Letters) /\ g \in Seq(Letters) BY <1>3, <1>6
    <3> QED BY <3>1, ConcatProperties
  <2> QED BY <2>1, <1>6
<1> HIDE DEF wdg
<1> DEFINE s == wdg \o z
<1>8. /\ s \in Seq(Letters) /\ Len(s) = W + 1 + P + Z
      /\ \A i \in 1 .. W + 1 + P + Z : s[i] = IF i =< W + 1 + P THEN wdg[i] ELSE z[i - (W + 1 + P)]
  <2>1. /\ wdg \o z \in Seq(Letters) /\ Len(wdg \o z) = Len(wdg) + Len(z)
        /\ \A i \in 1 .. Len(wdg) + Len(z) :
             (wdg \o z)[i] = IF i =< Len(wdg) THEN wdg[i] ELSE z[i - Len(wdg)]
    <3>1. wdg \in Seq(Letters) /\ z \in Seq(Letters) BY <1>3, <1>7
    <3> QED BY <3>1, ConcatProperties
  <2> QED BY <2>1, <1>7
<1>9. TextOf(w, g, z) = s BY DEF TextOf, wdg, wd, dot
<1> HIDE DEF s, W, P, Z
<1>10. \A j \in 1 .. W : s[j] = w[j]
  <2> TAKE j \in 1 .. W
  <2>1. j \in 1 .. W + 1 + P + Z /\ j \in 1 .. W + 1 + P /\ j \in 1 .. W + 1
        /\ j =< W /\ j =< W + 1 /\ j =< W + 1 + P
    BY <1>5
  <2> QED BY <2>1, <1>6, <1>7, <1>8
<1>11. s[W + 1] = "."
  <2>1. /\ W + 1 \in 1 .. W + 1 + P + Z /\ W + 1 \in 1 .. W + 1 + P /\ W + 1 \in 1 .. W + 1
        /\ ~ (W + 1 =< W) /\ W + 1 =< W + 1 /\ W + 1 =< W + 1 + P /\ (W + 1) - W = 1
    BY <1>5
  <2>2. s[W + 1] = wdg[W + 1] /\ wdg[W + 1] = wd[W + 1] BY <2>1, <1>7, <1>8
  <2>3. wd[W + 1] = dot[1] BY <2>1, <1>6
  <2> QED BY <2>2, <2>3, <1>4
<1>12. \A j \in 1 .. P : s[W + 1 + j] = g[j]
  <2> TAKE j \in 1 .. P
  <2>1. /\ W + 1 + j \in 1 .. W + 1 + P + Z /\ W + 1 + j \in 1 .. W + 1 + P
        /\ ~ (W + 1 + j =< W + 1) /\ W + 1 + j =< W + 1 + P /\ (W + 1 + j) - (W + 1) = j
    BY <1>5
  <2>2. s[W + 1 + j] = wdg[W + 1 + j] BY <2>1, <1>8
  <2>3. wdg[W + 1 + j] = g[j] BY <2>1, <1>7
  <2> QED BY <2>2, <2>3
<1>13. \A j \in 1 .. Z : s[W + 1 + P + j] = z[j]
  <2> TAKE j \in 1 .. Z
  <2>1. /\ W + 1 + P + j \in 1 .. W + 1 + P + Z
        /\ ~ (W + 1 + P + j =< W + 1 + P) /\ (W + 1 + P + j) - (W + 1 + P) = j
    BY <1>5
  <2> QED BY <2>1, <1>8
<1> QED BY <1>3, <1>4, <1>8, <1>9, <1>10, <1>11, <1>12, <1>13 DEF W, P, Z, dot

(***************************************************************************)
(* The regular expression matches nothing but the end of the fraction: it  *)
(* drops zeros up to where the digits end, and may begin after any digit   *)
(* that only zeros follow.                                                 *)
(***************************************************************************)
LEMMA MatchesOfText ==
  ASSUME NEW w \in Wholes, NEW g \in Seq(Digits), NEW z \in Zones,
         NEW i, NEW k, NEW e
  PROVE  <<i, k, e>> \in Matches(TextOf(w, g, z)) <=>
           /\ i = Len(w) + 1 /\ e = Len(w) + 1 + Len(g)
           /\ k \in Len(w) + 1 .. Len(w) + Len(g)
           /\ \A j \in k - Len(w) .. Len(g) : g[j] = "0"
<1> DEFINE s == TextOf(w, g, z)
           W == Len(w)
           P == Len(g)
           Z == Len(z)
<1>1. /\ Len(s) = W + 1 + P + Z /\ DOMAIN s = 1 .. Len(s)
      /\ \A j \in 1 .. W : s[j] = w[j]
      /\ s[W + 1] = "."
      /\ \A j \in 1 .. P : s[W + 1 + j] = g[j]
      /\ \A j \in 1 .. Z : s[W + 1 + P + j] = z[j]
  BY TextParts, LenProperties
<1>2. W \in Nat /\ P \in Nat /\ Z \in Nat
  BY TextParts, LenProperties
<1>3. /\ \A j \in 1 .. W : w[j] # "."
      /\ \A j \in 1 .. Z : z[j] # "."
      /\ \A j \in 1 .. P : g[j] \in Digits
      /\ Z # 0 => z[1] \notin Digits
      /\ "0" \in Digits /\ "." \notin Digits
  <2>1. w \in Seq(STRING) /\ z \in Seq(STRING) BY TrimAssumption
  <2>2. DOMAIN w = 1 .. W /\ DOMAIN z = 1 .. Z BY <2>1, LenProperties
  <2>3. w \in Wholes \cup Zones /\ z \in Wholes \cup Zones OBVIOUS
  <2>4. (\A j \in 1 .. W : w[j] # ".") /\ (\A j \in 1 .. Z : z[j] # ".")
    BY <2>2, <2>3, TrimAssumption
  <2>5. \A j \in 1 .. P : g[j] \in Digits BY ElementOfSeq
  <2>6. Z # 0 => z[1] \notin Digits
    <3>1. Z # 0 => z # << >> BY <2>1
    <3>2. z # << >> => Head(z) = z[1] BY <2>1
    <3> QED BY <3>1, <3>2, TrimAssumption
  <2> QED BY <2>4, <2>5, <2>6, TrimAssumption
<1>4. \A t : <<i, k, e>> \in Matches(t) <=>
        /\ i \in DOMAIN t /\ k \in DOMAIN t /\ e \in DOMAIN t
        /\ i =< k /\ k < e /\ t[i] = "."
        /\ \A j \in i + 1 .. k : t[j] \in Digits
        /\ \A j \in k + 1 .. e : t[j] = "0"
        /\ (e = Len(t) \/ t[e + 1] \notin Digits)
  BY DEF Matches, IsMatch
<1>5. <<i, k, e>> \in Matches(s) <=>
        /\ i \in 1 .. Len(s) /\ k \in 1 .. Len(s) /\ e \in 1 .. Len(s)
        /\ i =< k /\ k < e /\ s[i] = "."
        /\ \A j \in i + 1 .. k : s[j] \in Digits
        /\ \A j \in k + 1 .. e : s[j] = "0"
        /\ (e = Len(s) \/ s[e + 1] \notin Digits)
  BY <1>1, <1>4
<1> HIDE DEF s, W, P, Z
<1>6. \A j \in 1 .. Len(s) : s[j] = "." => j = W + 1
  <2> SUFFICES ASSUME NEW j \in 1 .. Len(s), j # W + 1 PROVE s[j] # "."
    OBVIOUS
  <2>1. CASE j =< W
    BY <2>1, <1>1, <1>2, <1>3
  <2>2. CASE j > W + 1 /\ j =< W + 1 + P
    <3>1. j - (W + 1) \in 1 .. P /\ W + 1 + (j - (W + 1)) = j BY <2>2, <1>2
    <3> QED BY <3>1, <1>1, <1>3
  <2>3. CASE j > W + 1 + P
    <3>1. j - (W + 1 + P) \in 1 .. Z /\ W + 1 + P + (j - (W + 1 + P)) = j BY <2>3, <1>1, <1>2
    <3> QED BY <3>1, <1>1, <1>3
  <2> QED BY <2>1, <2>2, <2>3, <1>2
<1>7. \A j \in W + 2 .. W + 1 + P : s[j] = g[j - (W + 1)] /\ j - (W + 1) \in 1 .. P
  <2> TAKE j \in W + 2 .. W + 1 + P
  <2>1. j - (W + 1) \in 1 .. P /\ W + 1 + (j - (W + 1)) = j BY <1>2
  <2> QED BY <2>1, <1>1
<1>8. Len(s) > W + 1 + P => s[W + 2 + P] \notin Digits
  <2> SUFFICES ASSUME Len(s) > W + 1 + P PROVE s[W + 2 + P] \notin Digits
    OBVIOUS
  <2>1. Z # 0 /\ 1 \in 1 .. Z /\ W + 1 + P + 1 = W + 2 + P BY <1>1, <1>2
  <2> QED BY <2>1, <1>1, <1>3
<1>9. ASSUME <<i, k, e>> \in Matches(s)
      PROVE  /\ i = W + 1 /\ e = W + 1 + P /\ k \in W + 1 .. W + P
             /\ \A j \in k - W .. P : g[j] = "0"
  <2>1. i = W + 1 /\ k \in W + 1 .. Len(s) /\ e \in k + 1 .. Len(s) /\ Len(s) \in Nat
    BY <1>1, <1>2, <1>5, <1>6, <1>9
  <2>2. k =< W + 1 + P
    <3> SUFFICES ASSUME k > W + 1 + P PROVE FALSE
      BY <1>2, <2>1
    <3>1. W + 2 + P \in i + 1 .. k /\ Len(s) > W + 1 + P BY <1>2, <2>1
    <3> QED BY <3>1, <1>5, <1>8, <1>9
  <2>3. e =< W + 1 + P
    <3> SUFFICES ASSUME e > W + 1 + P PROVE FALSE
      BY <1>2, <2>1
    <3>1. W + 2 + P \in k + 1 .. e /\ Len(s) > W + 1 + P BY <1>2, <2>1, <2>2
    <3> QED BY <3>1, <1>3, <1>5, <1>8, <1>9
  <2>4. e = W + 1 + P
    <3> SUFFICES ASSUME e < W + 1 + P PROVE FALSE
      BY <1>2, <2>1, <2>3
    <3>1. e + 1 \in W + 2 .. W + 1 + P /\ e # Len(s) BY <1>1, <1>2, <2>1
    <3> QED BY <3>1, <1>3, <1>5, <1>7, <1>9
  <2>5. k \in W + 1 .. W + P BY <1>2, <2>1, <2>4
  <2>6. ASSUME NEW j \in k - W .. P PROVE g[j] = "0"
    <3>1. j + (W + 1) \in k + 1 .. e /\ j + (W + 1) \in W + 2 .. W + 1 + P /\ (j + (W + 1)) - (W + 1) = j
      BY <1>2, <2>4, <2>5
    <3> QED BY <3>1, <1>5, <1>7, <1>9
  <2> QED BY <2>1, <2>4, <2>5, <2>6
<1>10. ASSUME i = W + 1, e = W + 1 + P, k \in W + 1 .. W + P, \A j \in k - W .. P : g[j] = "0"
       PROVE  <<i, k, e>> \in Matches(s)
  <2>1. /\ i \in 1 .. Len(s) /\ k \in 1 .. Len(s) /\ e \in 1 .. Len(s) /\ i =< k /\ k < e
        /\ Len(s) \in Nat
    BY <1>1, <1>2, <1>10
  <2>2. \A j \in i + 1 .. k : s[j] \in Digits
    <3> TAKE j \in i + 1 .. k
    <3>1. j \in W + 2 .. W + 1 + P BY <1>2, <1>10
    <3> QED BY <3>1, <1>3, <1>7
  <2>3. \A j \in k + 1 .. e : s[j] = "0"
    <3> TAKE j \in k + 1 .. e
    <3>1. j \in W + 2 .. W + 1 + P /\ j - (W + 1) \in k - W .. P BY <1>2, <1>10
    <3> QED BY <3>1, <1>7, <1>10
  <2>4. e = Len(s) \/ s[e + 1] \notin Digits
    <3>1. e # Len(s) => Len(s) > W + 1 + P /\ e + 1 = W + 2 + P BY <1>1, <1>2, <1>10
    <3> QED BY <3>1, <1>8
  <2>5. s[i] = "." BY <1>1, <1>10
  <2> QED BY <2>1, <2>2, <2>3, <2>4, <2>5, <1>5
<1> QED BY <1>9, <1>10 DEF s, W, P

-----------------------------------------------------------------------------
(* A text without a dot is left as it is. *)
LEMMA TrimWithoutMatch ==
  ASSUME NEW s, Matches(s) = {}
  PROVE  TrimFraction(s) = s
BY DEF TrimFraction

(* Of the matches of a text the one that begins earliest is taken. *)
LEMMA TrimAtMatch ==
  ASSUME NEW w \in Wholes, NEW g \in Seq(Digits), NEW z \in Zones,
         NEW n \in 0 .. Len(g) - 1, \A j \in n + 1 .. Len(g) : g[j] = "0",
         n # 0 => g[n] # "0"
  PROVE  LET s == TextOf(w, g, z)
         IN  TrimFraction(s) =
               SubSeq(s, 1, Len(w))
                 \o (IF n # 0 THEN SubSeq(s, Len(w) + 1, Len(w) + 1 + n) ELSE << >>)
                 \o SubSeq(s, Len(w) + 2 + Len(g), Len(s))
<1> DEFINE s == TextOf(w, g, z)
           W == Len(w)
           P == Len(g)
           m == <<W + 1, W + 1 + n, W + 1 + P>>
           c == CHOOSE x \in Matches(s) : \A y \in Matches(s) : Preferred(x, y)
<1>1. W \in Nat /\ P \in Nat /\ n \in Nat
  BY TextParts, LenProperties
<1>2. \A i, k, e : <<i, k, e>> \in Matches(s) <=>
        /\ i = W + 1 /\ e = W + 1 + P
        /\ k \in W + 1 .. W + P
        /\ \A j \in k - W .. P : g[j] = "0"
  BY MatchesOfText
<1>3. \A x \in Matches(s) : x = <<x[1], x[2], x[3]>>
  BY DEF Matches
<1> HIDE DEF s, W, P
<1>4. m \in Matches(s)
  <2>1. W + 1 + n \in W + 1 .. W + P /\ (W + 1 + n) - W = n + 1 BY <1>1 DEF P
  <2>2. \A j \in n + 1 .. P : g[j] = "0" BY DEF P
  <2> QED BY <1>2, <2>1, <2>2
<1>5. ASSUME NEW x \in Matches(s)
      PROVE  /\ x[1] = W + 1 /\ x[3] = W + 1 + P /\ x[2] \in W + 1 .. W + P
             /\ x[2] >= W + 1 + n
  <2>1. /\ x[1] = W + 1 /\ x[3] = W + 1 + P /\ x[2] \in W + 1 .. W + P
        /\ \A j \in x[2] - W .. P : g[j] = "0"
    <3> DEFINE a == x[1]
               b == x[2]
               d == x[3]
    <3>1. <<a, b, d>> \in Matches(s) BY <1>3, <1>5
    <3> HIDE DEF a, b, d
    <3>2. /\ a = W + 1 /\ d = W + 1 + P /\ b \in W + 1 .. W + P
          /\ \A j \in b - W .. P : g[j] = "0"
      BY <1>2, <3>1
    <3> QED BY <3>2 DEF a, b, d
  <2>2. x[2] >= W + 1 + n
    <3> SUFFICES ASSUME x[2] < W + 1 + n PROVE FALSE
      BY <1>1, <2>1
    <3>1. n # 0 /\ n \in x[2] - W .. P BY <1>1, <2>1 DEF P
    <3> QED BY <2>1, <3>1
  <2> QED BY <2>1, <2>2
<1>6. \A y \in Matches(s) : Preferred(m, y)
  <2> TAKE y \in Matches(s)
  <2>1. m[1] = W + 1 /\ m[2] = W + 1 + n /\ m[3] = W + 1 + P OBVIOUS
  <2>2. /\ y[1] = W + 1 /\ y[3] = W + 1 + P /\ y[2] \in W + 1 .. W + P /\ y[2] >= W + 1 + n
    BY <1>5
  <2> HIDE DEF m
  <2> QED BY <1>1, <2>1, <2>2 DEF Preferred
<1>7. c \in Matches(s) /\ \A y \in Matches(s) : Preferred(c, y)
  BY <1>4, <1>6
<1> HIDE DEF c
<1>8. c[1] = W + 1 /\ c[2] = W + 1 + n /\ c[3] = W + 1 + P
  <2>1. c[1] = W + 1 /\ c[3] = W + 1 + P /\ c[2] \in W + 1 .. W + P /\ c[2] >= W + 1 + n
    BY <1>5, <1>7
  <2>2. m[1] = W + 1 /\ m[2] = W + 1 + n /\ m[3] = W + 1 + P OBVIOUS
  <2>3. Preferred(c, m) BY <1>4, <1>7
  <2> HIDE DEF m
  <2> QED BY <1>1, <2>1, <2>2, <2>3 DEF Preferred
<1>9. TrimFraction(s) = SubSeq(s, 1, c[1] - 1)
                          \o (IF c[2] > c[1] THEN SubSeq(s, c[1], c[2]) ELSE << >>)
                          \o SubSeq(s, c[3] + 1, Len(s))
  BY <1>4 DEF TrimFraction, c
<1>10. c[1] - 1 = W /\ (c[2] > c[1] <=> n # 0) /\ c[3] + 1 = W + 2 + P
  BY <1>1, <1>8
<1>11. TrimFraction(s) = SubSeq(s, 1, W)
                           \o (IF n # 0 THEN SubSeq(s, W + 1, W + 1 + n) ELSE << >>)
                           \o SubSeq(s, W + 2 + P, Len(s))
  BY <1>8, <1>9, <1>10
<1> QED BY <1>11 DEF s, W, P

(* Up to its last digit that is not a zero, the fraction stays; a fraction *)
(* of zeros goes, and its dot with it.                                     *)
LEMMA TrimOfText ==
  ASSUME NEW w \in Wholes, NEW g \in Seq(Digits), NEW z \in Zones, Len(g) # 0,
         NEW n \in 0 .. Len(g), \A j \in n + 1 .. Len(g) : g[j] = "0",
         n # 0 => g[n] # "0"
  PROVE  TrimFraction(TextOf(w, g, z)) =
           IF n = 0 THEN w \o z ELSE TextOf(w, SubSeq(g, 1, n), z)
<1> DEFINE s == TextOf(w, g, z)
           W == Len(w)
           P == Len(g)
           Z == Len(z)
<1>1. /\ w \in Seq(Letters) /\ g \in Seq(Letters) /\ z \in Seq(Letters) /\ <<".">> \in Seq(Letters)
      /\ s \in Seq(Letters) /\ Len(s) = W + 1 + P + Z
      /\ \A j \in 1 .. W : s[j] = w[j]
      /\ s[W + 1] = "."
      /\ \A j \in 1 .. P : s[W + 1 + j] = g[j]
      /\ \A j \in 1 .. Z : s[W + 1 + P + j] = z[j]
  BY TextParts
<1>2. W \in Nat /\ P \in Nat \ {0} /\ Z \in Nat
  BY <1>1, LenProperties
<1>3. CASE n = P
  <2>1. Matches(s) = {}
    <3> SUFFICES ASSUME NEW m \in Matches(s) PROVE FALSE
      OBVIOUS
    <3>1. m = <<m[1], m[2], m[3]>> BY DEF Matches
    <3> DEFINE i == m[1]
               k == m[2]
               e == m[3]
    <3>2. <<i, k, e>> \in Matches(s) BY <3>1
    <3> HIDE DEF i, k, e, s
    <3>3. k \in W + 1 .. W + P /\ \A j \in k - W .. P : g[j] = "0"
      BY <3>2, MatchesOfText DEF s
    <3>4. P \in k - W .. P BY <3>3, <1>2
    <3> QED BY <3>3, <3>4, <1>2, <1>3
  <2>2. TrimFraction(s) = s BY <2>1, TrimWithoutMatch
  <2>3. SubSeq(g, 1, n) = g BY <1>3, SubSeqFull
  <2> QED BY <1>2, <1>3, <2>2, <2>3
<1>4. CASE n # P
  <2>1. n \in 0 .. P - 1 BY <1>2, <1>4
  <2>2. TrimFraction(s) = SubSeq(s, 1, W)
                            \o (IF n # 0 THEN SubSeq(s, W + 1, W + 1 + n) ELSE << >>)
                            \o SubSeq(s, W + 2 + P, Len(s))
    BY <2>1, TrimAtMatch
  <2> HIDE DEF s, W, P, Z
  <2>3. SubSeq(s, 1, W) = w
    <3>1. \A j \in 1 .. W : s[j] \in Letters
      BY <1>1, <1>2, ElementOfSeq
    <3>2. /\ SubSeq(s, 1, W) \in Seq(Letters)
          /\ Len(SubSeq(s, 1, W)) = IF 1 <= W THEN W - 1 + 1 ELSE 0
          /\ \A j \in 1 .. W - 1 + 1 : SubSeq(s, 1, W)[j] = s[1 + j - 1]
      BY <1>2, <3>1, SubSeqProperties
    <3>3. Len(SubSeq(s, 1, W)) = W /\ \A j \in 1 .. W : SubSeq(s, 1, W)[j] = w[j]
      BY <1>1, <1>2, <3>2
    <3>4. Len(w) = W BY DEF W
    <3> QED BY <1>1, <3>2, <3>3, <3>4, SeqEqual
  <2>4. SubSeq(s, W + 2 + P, Len(s)) = z
    <3> DEFINE a == W + 2 + P
               b == Len(s)
               t == SubSeq(s, a, b)
    <3>1. /\ a \in Int /\ b \in Int /\ b = W + 1 + P + Z
          /\ \A j \in a .. b : j \in 1 .. Len(s)
      BY <1>1, <1>2
    <3>2. \A j \in a .. b : s[j] \in Letters
      BY <1>1, <3>1, ElementOfSeq
    <3> HIDE DEF a, b
    <3>3. /\ t \in Seq(Letters)
          /\ Len(t) = IF a <= b THEN b - a + 1 ELSE 0
          /\ \A j \in 1 .. b - a + 1 : t[j] = s[a + j - 1]
      BY <3>1, <3>2, SubSeqProperties
    <3> HIDE DEF t
    <3>4. Len(t) = Z BY <1>2, <3>1, <3>3 DEF a
    <3>5. \A j \in 1 .. Z : t[j] = z[j]
      <4> TAKE j \in 1 .. Z
      <4>1. j \in 1 .. b - a + 1 /\ a + j - 1 = W + 1 + P + j BY <1>2, <3>1 DEF a
      <4> QED BY <1>1, <3>3, <4>1
    <3>6. Len(z) = Z BY DEF Z
    <3>7. t = z BY <1>1, <3>3, <3>4, <3>5, <3>6, SeqEqual
    <3> QED BY <3>7 DEF t, a, b
  <2>5. CASE n = 0
    <3>1. w \o << >> = w BY <1>1, ConcatEmptySeq
    <3> QED BY <2>2, <2>3, <2>4, <2>5, <3>1 DEF s
  <2>6. CASE n # 0
    <3> DEFINE h == SubSeq(g, 1, n)
               t == SubSeq(s, W + 1, W + 1 + n)
    <3>1. n \in Nat \ {0} /\ n < P BY <2>1, <2>6, <1>2
    <3>2. /\ h \in Seq(Letters) /\ Len(h) = n /\ \A j \in 1 .. n : h[j] = g[j]
      <4>1. \A j \in 1 .. n : g[j] \in Letters BY <1>1, <1>2, <3>1, ElementOfSeq DEF P
      <4>2. /\ h \in Seq(Letters)
            /\ Len(h) = IF 1 <= n THEN n - 1 + 1 ELSE 0
            /\ \A j \in 1 .. n - 1 + 1 : h[j] = g[1 + j - 1]
        BY <3>1, <4>1, SubSeqProperties
      <4> HIDE DEF h
      <4> QED BY <3>1, <4>2
    <3>3. /\ t \in Seq(Letters) /\ Len(t) = n + 1
          /\ \A j \in 1 .. n + 1 : t[j] = s[W + j]
      <4> DEFINE a == W + 1
                 b == W + 1 + n
      <4>1. a \in Int /\ b \in Int /\ \A j \in a .. b : j \in 1 .. Len(s) BY <1>1, <1>2, <3>1
      <4>2. \A j \in a .. b : s[j] \in Letters BY <1>1, <4>1, ElementOfSeq
      <4> HIDE DEF a, b
      <4>3. /\ SubSeq(s, a, b) \in Seq(Letters)
            /\ Len(SubSeq(s, a, b)) = IF a <= b THEN b - a + 1 ELSE 0
            /\ \A j \in 1 .. b - a + 1 : SubSeq(s, a, b)[j] = s[a + j - 1]
        BY <4>1, <4>2, SubSeqProperties
      <4>4. t = SubSeq(s, a, b) BY DEF a, b
      <4> HIDE DEF t
      <4>5. a <= b /\ b - a + 1 = n + 1 BY <1>2, <3>1 DEF a, b
      <4>6. \A j \in 1 .. n + 1 : a + j - 1 = W + j BY <1>2, <3>1 DEF a
      <4> QED BY <4>3, <4>4, <4>5, <4>6
    <3> HIDE DEF h, t
    <3> DEFINE dot == <<".">>
    <3>4. dot \in Seq(Letters) /\ Len(dot) = 1 /\ dot[1] = "." BY <1>1
    <3> HIDE DEF dot
    <3>5. /\ dot \o h \in Seq(Letters) /\ Len(dot \o h) = Len(dot) + Len(h)
          /\ \A i \in 1 .. Len(dot) + Len(h) :
               (dot \o h)[i] = IF i <= Len(dot) THEN dot[i] ELSE h[i - Len(dot)]
      <4>1. dot \in Seq(Letters) /\ h \in Seq(Letters) BY <3>2, <3>4
      <4> QED BY <4>1, ConcatProperties
    <3>6. Len(dot \o h) = n + 1 /\ \A i \in 1 .. n + 1 : (dot \o h)[i] = t[i]
      <4>1. Len(dot \o h) = n + 1 BY <3>1, <3>2, <3>4, <3>5
      <4>2. ASSUME NEW i \in 1 .. n + 1 PROVE (dot \o h)[i] = t[i]
        <5>1. CASE i = 1
          <6>1. (dot \o h)[1] = "." BY <3>1, <3>2, <3>4, <3>5
          <6>2. t[1] = s[W + 1] BY <3>1, <3>3
          <6> QED BY <5>1, <6>1, <6>2, <1>1
        <5>2. CASE i # 1
          <6>1. i - 1 \in 1 .. n /\ ~ (i <= 1) /\ i \in 1 .. Len(dot) + Len(h)
                /\ i - 1 \in 1 .. P /\ W + 1 + (i - 1) = W + i
            BY <5>2, <1>2, <3>1, <3>2, <3>4
          <6>2. (dot \o h)[i] = h[i - 1] BY <6>1, <3>4, <3>5
          <6>3. t[i] = s[W + 1 + (i - 1)] BY <6>1, <3>3
          <6>4. s[W + 1 + (i - 1)] = g[i - 1] BY <6>1, <1>1
          <6> QED BY <6>1, <6>2, <6>3, <6>4, <3>2
        <5> QED BY <5>1, <5>2
      <4> QED BY <4>1, <4>2
    <3>7. t = dot \o h
      <4> DEFINE x == dot \o h
      <4>1. x \in Seq(Letters) /\ Len(x) = n + 1 /\ \A i \in 1 .. n + 1 : x[i] = t[i]
        BY <3>5, <3>6
      <4> HIDE DEF x
      <4>2. t = x BY <3>3, <4>1, SeqEqual
      <4> QED BY <4>2 DEF x
    <3>8. w \o (dot \o h) = (w \o dot) \o h
      <4>1. w \in Seq(Letters) /\ dot \in Seq(Letters) /\ h \in Seq(Letters)
        BY <1>1, <3>2, <3>4
      <4> QED BY <4>1, ConcatAssociative
    <3>9. TrimFraction(s) = (w \o t) \o z BY <2>2, <2>3, <2>4, <2>6 DEF t
    <3>10. TrimFraction(s) = ((w \o dot) \o h) \o z BY <3>7, <3>8, <3>9
    <3> QED BY <2>6, <3>10 DEF TextOf, s, h, dot
  <2> QED BY <2>5, <2>6
<1> QED BY <1>3, <1>4

(* The digits that matter: the fraction ends with a zero or with none.     *)
LEMMA SignificantDigits ==
  ASSUME NEW g \in [1 .. Places -> Digits]
  PROVE  LET n == CHOOSE m \in Significant(g) : \A k \in Significant(g) : m =< k
         IN  /\ n \in 0 .. Places
             /\ \A j \in n + 1 .. Places : g[j] = "0"
             /\ n # 0 => g[n] # "0"
<1> DEFINE S == Significant(g)
           n == CHOOSE m \in S : \A k \in S : m =< k
<1>1. \A m : m \in S <=> m \in 0 .. Places /\ \A i \in m + 1 .. Places : g[i] = "0"
  BY DEF Significant
<1>2. Places \in Nat \ {0} /\ S \in SUBSET Nat /\ Places \in S
  BY <1>1, TrimAssumption
<1> HIDE DEF S
<1>3. PICK x \in S : \A y \in S : <<y, x>> \notin OpToRel(<, Nat)
  BY <1>2, WFMin, NatLessThanWellFounded
<1>4. x \in Nat /\ \A y \in S : y \in Nat /\ ~ (y < x)
  BY <1>2, <1>3 DEF OpToRel
<1>5. \A y \in S : x =< y BY <1>4
<1>6. n \in S /\ \A k \in S : n =< k BY <1>5
<1> HIDE DEF n
<1>7. n \in 0 .. Places /\ \A j \in n + 1 .. Places : g[j] = "0" BY <1>1, <1>6
<1>8. n # 0 => g[n] # "0"
  <2> SUFFICES ASSUME n # 0, g[n] = "0" PROVE FALSE
    OBVIOUS
  <2>1. n - 1 \in 0 .. Places /\ ~ (n =< n - 1) BY <1>2, <1>7
  <2>2. \A i \in (n - 1) + 1 .. Places : g[i] = "0"
    <3> TAKE i \in (n - 1) + 1 .. Places
    <3>1. i = n \/ i \in n + 1 .. Places BY <1>2, <1>7
    <3> QED BY <3>1, <1>7
  <2>3. n - 1 \in S BY <1>1, <2>1, <2>2
  <2> QED BY <1>6, <2>1, <2>3
<1> QED BY <1>7, <1>8 DEF n, S

(***************************************************************************)
(* Trimming PostGraphile 5's text of a time gives PostgreSQL's, which      *)
(* trimming does not change.                                               *)
(***************************************************************************)
LEMMA TrimIsExact ==
  ASSUME NEW t \in Times
  PROVE  TrimFraction(V5Text(t)) = V4Text(t) /\ TrimFraction(V4Text(t)) = V4Text(t)
<1> DEFINE w == t.whole
           g == t.fraction
           z == t.zone
           n == CHOOSE m \in Significant(g) : \A k \in Significant(g) : m =< k
           h == SubSeq(g, 1, n)
<1>1. w \in Wholes /\ g \in [1 .. Places -> Digits] /\ z \in Zones
  BY DEF Times
<1>2. Places \in Nat \ {0} BY TrimAssumption
<1>3. g \in Seq(Digits) /\ Len(g) = Places BY <1>1, <1>2
<1>4. n \in 0 .. Places /\ (\A j \in n + 1 .. Places : g[j] = "0") /\ (n # 0 => g[n] # "0")
  BY <1>1, SignificantDigits
<1>5. V5Text(t) = TextOf(w, g, z) BY DEF V5Text, TextOf
<1>6. V4Text(t) = IF n = 0 THEN w \o z ELSE TextOf(w, h, z)
  BY DEF V4Text, TextOf
<1> HIDE DEF n, w, g, z
<1>7. TrimFraction(TextOf(w, g, z)) = IF n = 0 THEN w \o z ELSE TextOf(w, h, z)
  <2>1. n \in 0 .. Len(g) /\ Len(g) # 0 /\ \A j \in n + 1 .. Len(g) : g[j] = "0"
    BY <1>2, <1>3, <1>4
  <2> QED BY <1>1, <1>3, <1>4, <2>1, TrimOfText
<1>8. CASE n = 0
  <2>1. w \in Seq(STRING) /\ z \in Seq(STRING) /\ w \in Wholes \cup Zones /\ z \in Wholes \cup Zones
    BY <1>1, TrimAssumption
  <2> DEFINE s == w \o z
  <2>2. /\ s \in Seq(STRING) /\ Len(s) = Len(w) + Len(z)
        /\ \A i \in 1 .. Len(w) + Len(z) : s[i] = IF i =< Len(w) THEN w[i] ELSE z[i - Len(w)]
    BY <2>1, ConcatProperties
  <2>3. /\ Len(w) \in Nat /\ Len(z) \in Nat /\ DOMAIN s = 1 .. Len(s)
        /\ DOMAIN w = 1 .. Len(w) /\ DOMAIN z = 1 .. Len(z)
    BY <2>1, <2>2, LenProperties
  <2>4. (\A i \in 1 .. Len(w) : w[i] # ".") /\ (\A i \in 1 .. Len(z) : z[i] # ".")
    BY <2>1, <2>3, TrimAssumption
  <2> HIDE DEF s
  <2>5. \A i \in DOMAIN s : s[i] # "."
    <3> TAKE i \in DOMAIN s
    <3>1. CASE i =< Len(w)
      BY <3>1, <2>2, <2>3, <2>4
    <3>2. CASE ~ (i =< Len(w))
      <4>1. i - Len(w) \in 1 .. Len(z) BY <3>2, <2>2, <2>3
      <4> QED BY <3>2, <4>1, <2>2, <2>3, <2>4
    <3> QED BY <3>1, <3>2
  <2>6. Matches(s) = {} BY <2>5 DEF Matches, IsMatch
  <2>7. TrimFraction(s) = s BY <2>6, TrimWithoutMatch
  <2> QED BY <1>5, <1>6, <1>7, <1>8, <2>7 DEF s
<1>9. CASE n # 0
  <2>1. n \in Nat \ {0} /\ n =< Places BY <1>2, <1>4, <1>9
  <2>2. h \in Seq(Digits) /\ Len(h) = n /\ \A j \in 1 .. n : h[j] = g[j]
    <3>1. \A j \in 1 .. n : g[j] \in Digits BY <1>1, <1>2, <2>1
    <3>2. /\ h \in Seq(Digits)
          /\ Len(h) = IF 1 <= n THEN n - 1 + 1 ELSE 0
          /\ \A j \in 1 .. n - 1 + 1 : h[j] = g[1 + j - 1]
      BY <2>1, <3>1, SubSeqProperties
    <3> HIDE DEF h
    <3> QED BY <2>1, <3>2
  <2>3. SubSeq(h, 1, n) = h BY <2>2, SubSeqFull
  <2> HIDE DEF h
  <2>4. /\ Len(h) # 0 /\ n \in 0 .. Len(h) /\ (\A j \in n + 1 .. Len(h) : h[j] = "0")
        /\ (n # 0 => h[n] # "0")
    BY <1>4, <2>1, <2>2
  <2>5. TrimFraction(TextOf(w, h, z)) = IF n = 0 THEN w \o z ELSE TextOf(w, SubSeq(h, 1, n), z)
    BY <1>1, <2>2, <2>4, TrimOfText
  <2> QED BY <1>5, <1>6, <1>7, <1>9, <2>3, <2>5 DEF h
<1> QED BY <1>8, <1>9

TrimInv ==
  /\ time \in Times
  /\ text = IF trimmed THEN TrimFraction(V5Text(time)) ELSE V5Text(time)

(* The invariant survives every step. *)
LEMMA TrimInvNext == TrimInv /\ [TrimNext]_trimVars => TrimInv'
<1> SUFFICES ASSUME TrimInv, [TrimNext]_trimVars PROVE TrimInv'
  OBVIOUS
<1>1. CASE Serialize
  BY <1>1 DEF TrimInv, Serialize
<1>2. CASE Serialized \/ UNCHANGED trimVars
  BY <1>2 DEF TrimInv, Serialized, trimVars
<1> QED BY <1>1, <1>2 DEF TrimNext

(***************************************************************************)
(* v4-datetime-format.ts:3-8: for timestamps of any digits, and texts and  *)
(* zones without a dot, the serializer gives exactly PostgreSQL's text.    *)
(***************************************************************************)
THEOREM ExactV4ShapeAlways == TrimSpec => []ExactV4Shape
<1>1. TrimInit => TrimInv
  BY DEF TrimInit, TrimInv
<1>2. TrimInv => ExactV4Shape
  BY TrimIsExact DEF TrimInv, ExactV4Shape
<1> QED BY <1>1, <1>2, TrimInvNext, PTL DEF TrimSpec

-----------------------------------------------------------------------------
(***************************************************************************)
(* The ancestors of an entity.  Ancestor and Chain are defined by          *)
(* recursion on the depth; here they are reduced to one step upwards.      *)
(***************************************************************************)
Above(t, id, g, k) ==
  IF k = 0 THEN id ELSE IF g[k - 1] = None THEN None ELSE Parent(t, g[k - 1])

Ascends(t, id, m, g) == g = [k \in 0 .. m |-> Above(t, id, g, k)]

Levels(t, id) == CHOOSE g : Ascends(t, id, MaxDepth, g)

(* Both, unfolded to the recursive functions that compute them. *)
LEMMA AncestorIter ==
  ASSUME NEW t, NEW id, NEW d
  PROVE  Ancestor(t, id, d) = (CHOOSE g : Ascends(t, id, d, g))[d]
BY DEF Ancestor, Ascends, Above

LEMMA ChainIter ==
  ASSUME NEW t, NEW id
  PROVE  Chain(t, id) =
           [i \in 1 .. Cardinality({d \in 0 .. MaxDepth : Levels(t, id)[d] # None}) |->
              Levels(t, id)[i - 1]]
BY DEF Chain, Levels, Ascends, Above

(* One step of such a function. *)
LEMMA AscendsAt ==
  ASSUME NEW t, NEW id, NEW m \in Nat, NEW g, Ascends(t, id, m, g), NEW k \in 0 .. m
  PROVE  g[k] = Above(t, id, g, k)
<1> DEFINE G == [j \in 0 .. m |-> Above(t, id, g, j)]
<1>1. g = G BY DEF Ascends
<1>2. G[k] = Above(t, id, g, k) OBVIOUS
<1> HIDE DEF G
<1> QED BY <1>1, <1>2

(* It exists for every depth. *)
LEMMA AscendsExists ==
  ASSUME NEW t, NEW id, NEW m \in Nat
  PROVE  \E g : Ascends(t, id, m, g)
<1> DEFINE N == {n \in Nat : \E g : Ascends(t, id, n, g)}
<1>1. 0 \in N
  <2> DEFINE g == [k \in 0 .. 0 |-> id]
  <2>1. \A k \in 0 .. 0 : id = Above(t, id, g, k) BY DEF Above
  <2>2. g = [k \in 0 .. 0 |-> Above(t, id, g, k)]
    <3> HIDE DEF g
    <3>1. g = [k \in 0 .. 0 |-> id] BY DEF g
    <3> QED BY <2>1, <3>1
  <2> HIDE DEF g
  <2>3. Ascends(t, id, 0, g) BY <2>2 DEF Ascends
  <2> QED BY <2>3
<1>2. ASSUME NEW n \in Nat, n \in N PROVE n + 1 \in N
  <2>1. PICK g : Ascends(t, id, n, g) BY <1>2
  <2> DEFINE h == [k \in 0 .. n + 1 |-> Above(t, id, g, k)]
  <2>2. ASSUME NEW k \in 0 .. n PROVE g[k] = h[k]
    <3>1. k \in 0 .. n + 1 OBVIOUS
    <3>2. g[k] = Above(t, id, g, k) BY <2>1, AscendsAt
    <3> QED BY <3>1, <3>2
  <2>3. \A k \in 0 .. n + 1 : k # 0 => k - 1 \in 0 .. n OBVIOUS
  <2>4. \A k \in 0 .. n + 1 : k # 0 => g[k - 1] = h[k - 1] BY <2>2, <2>3
  <2>5. \A k \in 0 .. n + 1 : Above(t, id, g, k) = Above(t, id, h, k)
    <3> HIDE DEF h
    <3> QED BY <2>4 DEF Above
  <2>6. h = [k \in 0 .. n + 1 |-> Above(t, id, h, k)]
    <3>1. h = [k \in 0 .. n + 1 |-> Above(t, id, g, k)] OBVIOUS
    <3> HIDE DEF h
    <3> QED BY <2>5, <3>1
  <2> HIDE DEF h
  <2>7. Ascends(t, id, n + 1, h) BY <2>6 DEF Ascends
  <2>8. n + 1 \in Nat OBVIOUS
  <2> QED BY <2>7, <2>8
<1>3. Nat \subseteq N
  <2> HIDE DEF N
  <2> QED BY <1>1, <1>2, NatInductionOnSet
<1> QED BY <1>3

(* Its values do not depend on how far it goes. *)
LEMMA AscendsAgree ==
  ASSUME NEW t, NEW id, NEW m \in Nat, NEW n \in Nat, m =< n,
         NEW g, Ascends(t, id, m, g), NEW h, Ascends(t, id, n, h)
  PROVE  \A k \in 0 .. m : g[k] = h[k]
<1> DEFINE N == {k \in Nat : k \in 0 .. m => g[k] = h[k]}
<1>1. ASSUME NEW k \in 0 .. m PROVE g[k] = Above(t, id, g, k) /\ h[k] = Above(t, id, h, k)
  <2>1. k \in 0 .. n OBVIOUS
  <2>2. g[k] = Above(t, id, g, k) BY AscendsAt
  <2>3. h[k] = Above(t, id, h, k) BY <2>1, AscendsAt
  <2> QED BY <2>2, <2>3
<1>2. 0 \in N
  <2>1. 0 \in 0 .. m OBVIOUS
  <2> QED BY <1>1, <2>1 DEF Above
<1>3. ASSUME NEW k \in Nat, k \in N PROVE k + 1 \in N
  <2> SUFFICES ASSUME k + 1 \in 0 .. m PROVE g[k + 1] = h[k + 1]
    OBVIOUS
  <2>1. k \in 0 .. m /\ k + 1 # 0 /\ (k + 1) - 1 = k OBVIOUS
  <2>2. g[k] = h[k] BY <1>3, <2>1
  <2>3. Above(t, id, g, k + 1) = Above(t, id, h, k + 1) BY <2>1, <2>2 DEF Above
  <2> QED BY <1>1, <2>3
<1>4. Nat \subseteq N
  <2> HIDE DEF N
  <2> QED BY <1>2, <1>3, NatInductionOnSet
<1> QED BY <1>4

(* The ancestor of each depth, by the one below. *)
LEMMA AncestorProperties ==
  ASSUME NEW t, NEW id
  PROVE  /\ Ancestor(t, id, 0) = id
         /\ \A d \in Nat : Ancestor(t, id, d + 1) =
              IF Ancestor(t, id, d) = None THEN None ELSE Parent(t, Ancestor(t, id, d))
         /\ \A d \in 0 .. MaxDepth : Ancestor(t, id, d) = Levels(t, id)[d]
<1> DEFINE up(d) == CHOOSE g : Ascends(t, id, d, g)
<1>1. \A d \in Nat : Ascends(t, id, d, up(d)) BY AscendsExists
<1>2. \A d : Ancestor(t, id, d) = up(d)[d] BY AncestorIter
<1>3. Levels(t, id) = up(MaxDepth) /\ MaxDepth \in Nat
  BY ResolverAssumption DEF Levels
<1> HIDE DEF up
<1>4. ASSUME NEW d \in Nat, NEW n \in Nat, d =< n PROVE up(n)[d] = up(d)[d]
  <2>1. d \in 0 .. d OBVIOUS
  <2> QED BY <1>1, <1>4, <2>1, AscendsAgree
<1>5. up(0)[0] = id
  <2>1. 0 \in Nat /\ 0 \in 0 .. 0 OBVIOUS
  <2>2. up(0)[0] = Above(t, id, up(0), 0) BY <1>1, <2>1, AscendsAt
  <2> QED BY <2>2 DEF Above
<1>6. ASSUME NEW d \in Nat
      PROVE  up(d + 1)[d + 1] = IF up(d)[d] = None THEN None ELSE Parent(t, up(d)[d])
  <2>1. d + 1 \in Nat /\ d + 1 \in 0 .. d + 1 /\ d + 1 # 0 /\ (d + 1) - 1 = d /\ d =< d + 1
    OBVIOUS
  <2>2. up(d + 1)[d + 1] = Above(t, id, up(d + 1), d + 1)
    BY <1>1, <2>1, AscendsAt
  <2>3. up(d + 1)[d] = up(d)[d] BY <1>4, <2>1
  <2>4. up(d + 1)[(d + 1) - 1] = up(d)[d] BY <2>1, <2>3
  <2> QED BY <2>1, <2>2, <2>4 DEF Above
<1>7. \A d \in 0 .. MaxDepth : up(MaxDepth)[d] = up(d)[d]
  BY <1>3, <1>4
<1> QED BY <1>2, <1>3, <1>5, <1>6, <1>7

(* The chain of an entity is its ancestors, as far as there are any. *)
LEMMA ChainProperties ==
  ASSUME NEW t, NEW id \in Present(t)
  PROVE  \E k \in Nat :
           /\ k \in 1 .. MaxDepth + 1
           /\ Chain(t, id) \in [1 .. k -> Present(t)]
           /\ \A d \in 0 .. MaxDepth :
                Ancestor(t, id, d) = IF d < k THEN Chain(t, id)[d + 1] ELSE None
<1> DEFINE A(d) == Ancestor(t, id, d)
           D == {d \in 0 .. MaxDepth : A(d) # None}
           P == Present(t)
<1>1. /\ A(0) = id
      /\ \A d \in Nat : A(d + 1) = IF A(d) = None THEN None ELSE Parent(t, A(d))
      /\ \A d \in 0 .. MaxDepth : A(d) = Levels(t, id)[d]
  BY AncestorProperties
<1>2. /\ None \notin P /\ id \in P /\ MaxDepth \in Nat
      /\ \A n : Parent(t, n) \in P \cup {None}
  BY ResolverAssumption DEF Present, Parent
<1>3. Chain(t, id) = [i \in 1 .. Cardinality(D) |-> A(i - 1)]
  <2>1. D = {d \in 0 .. MaxDepth : Levels(t, id)[d] # None} BY <1>1
  <2> DEFINE c == Cardinality(D)
  <2>2. c \in Nat /\ c =< MaxDepth + 1
    <3>1. IsFiniteSet(0 .. MaxDepth) /\ Cardinality(0 .. MaxDepth) = MaxDepth + 1
      BY <1>2, FS_Interval
    <3>2. D \in SUBSET (0 .. MaxDepth) OBVIOUS
    <3> HIDE DEF D
    <3> QED BY <3>1, <3>2, FS_Subset, FS_CardinalityType
  <2>3. Chain(t, id) = [i \in 1 .. c |-> Levels(t, id)[i - 1]] BY <2>1, ChainIter
  <2> HIDE DEF c, A
  <2>4. \A i \in 1 .. c : i - 1 \in 0 .. MaxDepth BY <1>2, <2>2
  <2>5. \A i \in 1 .. c : Levels(t, id)[i - 1] = A(i - 1) BY <1>1, <2>4
  <2> QED BY <2>3, <2>5 DEF c
<1> HIDE DEF A, P
<1>4. \A d \in Nat : A(d) \in P \cup {None}
  <2> DEFINE N == {d \in Nat : A(d) \in P \cup {None}}
  <2>1. 0 \in N BY <1>1, <1>2
  <2>2. \A d \in Nat : d \in N => d + 1 \in N BY <1>1, <1>2
  <2>3. Nat \subseteq N
    <3> HIDE DEF N
    <3> QED BY <2>1, <2>2, NatInductionOnSet
  <2> QED BY <2>3
<1>5. \A n \in Nat : A(n) # None => \A d \in 0 .. n : A(d) # None
  <2> DEFINE N == {n \in Nat : A(n) # None => \A d \in 0 .. n : A(d) # None}
  <2>1. 0 \in N
    <3>1. 0 .. 0 = {0} OBVIOUS
    <3> QED BY <3>1
  <2>2. ASSUME NEW n \in Nat, n \in N PROVE n + 1 \in N
    <3>1. A(n + 1) # None => A(n) # None BY <1>1
    <3>2. 0 .. n + 1 = 0 .. n \cup {n + 1} OBVIOUS
    <3> QED BY <2>2, <3>1, <3>2
  <2>3. Nat \subseteq N
    <3> HIDE DEF N
    <3> QED BY <2>1, <2>2, NatInductionOnSet
  <2> QED BY <2>3
<1>6. 0 \in D BY <1>1, <1>2
<1>7. IsFiniteSet(D) /\ D \subseteq Int /\ D # {}
  <2>1. IsFiniteSet(0 .. MaxDepth) BY <1>2, FS_Interval
  <2>2. D \in SUBSET (0 .. MaxDepth) OBVIOUS
  <2> HIDE DEF D
  <2>3. IsFiniteSet(D) BY <2>1, <2>2, FS_Subset
  <2>4. D \subseteq Int BY <1>2, <2>2
  <2> QED BY <1>6, <2>3, <2>4
<1> DEFINE M == Max(D)
<1>8. M \in D /\ \A d \in D : M >= d
  <2> HIDE DEF D
  <2> QED BY <1>7, MaxMember
<1> HIDE DEF M
<1>9. M \in 0 .. MaxDepth /\ A(M) # None BY <1>8
<1>10. D = 0 .. M
  <2>1. ASSUME NEW d \in D PROVE d \in 0 .. M BY <1>8, <1>9
  <2>2. ASSUME NEW d \in 0 .. M PROVE d \in D
    <3>1. A(d) # None BY <1>5, <1>9
    <3>2. d \in 0 .. MaxDepth BY <1>2, <1>9
    <3> QED BY <3>1, <3>2
  <2> QED BY <2>1, <2>2
<1>11. Cardinality(D) = M + 1
  <2>1. Cardinality(0 .. M) = M + 1 BY <1>9, FS_Interval
  <2> QED BY <1>10, <2>1
<1>12. Chain(t, id) = [i \in 1 .. M + 1 |-> A(i - 1)] BY <1>3, <1>11
<1>13. \A i \in 1 .. M + 1 : i - 1 \in 0 .. M /\ A(i - 1) \in P
  <2>1. \A i \in 1 .. M + 1 : i - 1 \in 0 .. M BY <1>9
  <2>2. \A d \in 0 .. M : d \in Nat /\ A(d) # None BY <1>10
  <2> QED BY <1>4, <2>1, <2>2
<1>14. Chain(t, id) \in [1 .. M + 1 -> P] BY <1>12, <1>13
<1>15. ASSUME NEW d \in 0 .. MaxDepth
       PROVE  A(d) = IF d < M + 1 THEN Chain(t, id)[d + 1] ELSE None
  <2>1. CASE d < M + 1
    <3>1. d + 1 \in 1 .. M + 1 /\ (d + 1) - 1 = d BY <1>9, <2>1
    <3> QED BY <1>12, <2>1, <3>1
  <2>2. CASE ~ d < M + 1
    <3>1. d \notin 0 .. M BY <1>9, <2>2
    <3>2. d \notin D BY <1>10, <3>1
    <3> QED BY <2>2, <3>2
  <2> QED BY <2>1, <2>2
<1>16. M + 1 \in Nat /\ M + 1 \in 1 .. MaxDepth + 1 BY <1>2, <1>9
<1> QED BY <1>14, <1>15, <1>16 DEF A, P

-----------------------------------------------------------------------------
(***************************************************************************)
(* The merged entries.  FoldLeft is defined by recursion over the sets of  *)
(* positions; here it is reduced to one round of the loop after others.    *)
(***************************************************************************)
TakenOn(s, D, g) ==
  g = [T \in D |-> IF T = {} THEN << >> ELSE TakeOver(g[T \ {Max(T)}], s[Max(T)])]

(* FoldLeft, unfolded to the recursive function that computes it. *)
LEMMA TakenIter ==
  ASSUME NEW s
  PROVE  FoldLeft(TakeOver, << >>, s) =
           (CHOOSE g : TakenOn(s, SUBSET DOMAIN s, g))[DOMAIN s]
BY DEF FoldLeft, MapThenFoldSet, TakenOn

(* That function exists. *)
LEMMA TakenExists ==
  ASSUME NEW s, NEW S, IsFiniteSet(S), S \subseteq Int
  PROVE  \E g : TakenOn(s, SUBSET S, g)
<1> DEFINE D(n) == {T \in SUBSET S : Cardinality(T) =< n}
           N == {n \in Nat : \E g : TakenOn(s, D(n), g)}
<1>1. 0 \in N
  <2>1. D(0) = {{}}
    BY FS_Subset, FS_EmptySet, FS_CardinalityType
  <2>2. TakenOn(s, {{}}, [T \in {{}} |-> << >>])
    BY DEF TakenOn
  <2> QED BY <2>1, <2>2
<1>2. ASSUME NEW n \in Nat, n \in N PROVE n + 1 \in N
  <2>1. PICK g : TakenOn(s, D(n), g)
    BY <1>2
  <2> DEFINE h == [T \in D(n + 1) |-> IF T = {} THEN << >>
                                      ELSE TakeOver(g[T \ {Max(T)}], s[Max(T)])]
  <2>2. ASSUME NEW T \in D(n + 1), T # {} PROVE T \ {Max(T)} \in D(n) /\ T \ {Max(T)} \in D(n + 1)
    <3>1. IsFiniteSet(T) /\ Cardinality(T) \in Nat /\ T \subseteq Int
      BY FS_Subset, FS_CardinalityType
    <3>2. Max(T) \in T BY <2>2, <3>1, MaxMember
    <3>3. Cardinality(T \ {Max(T)}) = Cardinality(T) - 1 BY <3>1, <3>2, FS_RemoveElement
    <3>4. Cardinality(T) =< n + 1 /\ T \ {Max(T)} \in SUBSET S OBVIOUS
    <3>5. Cardinality(T \ {Max(T)}) =< n /\ Cardinality(T \ {Max(T)}) =< n + 1
      BY <3>1, <3>3, <3>4
    <3> QED BY <3>4, <3>5
  <2>3. ASSUME NEW T \in D(n) PROVE g[T] = h[T]
    <3>1. IsFiniteSet(T) /\ Cardinality(T) \in Nat BY FS_Subset, FS_CardinalityType
    <3>2. T \in D(n + 1) BY <3>1
    <3>3. g[T] = IF T = {} THEN << >> ELSE TakeOver(g[T \ {Max(T)}], s[Max(T)])
      <4> HIDE DEF D
      <4> QED BY <2>1 DEF TakenOn
    <3> QED BY <3>2, <3>3
  <2>4. h = [T \in D(n + 1) |-> IF T = {} THEN << >>
                                ELSE TakeOver(h[T \ {Max(T)}], s[Max(T)])]
    <3> HIDE DEF D
    <3> QED BY <2>2, <2>3
  <2> HIDE DEF D, h
  <2>5. TakenOn(s, D(n + 1), h) BY <2>4 DEF TakenOn
  <2>6. n + 1 \in Nat OBVIOUS
  <2> QED BY <2>5, <2>6
<1>3. Cardinality(S) \in N
  <2> HIDE DEF N
  <2> QED BY <1>1, <1>2, NatInductionOnSet, FS_CardinalityType
<1>4. D(Cardinality(S)) = SUBSET S
  BY FS_Subset
<1> HIDE DEF D
<1> QED BY <1>3, <1>4

(* What is taken over of each entry, by what was of those before. *)
LEMMA TakenAfterEach ==
  ASSUME NEW X, NEW s \in Seq(X)
  PROVE  \E g : /\ g[{}] = << >>
                /\ \A n \in Nat : n + 1 =< Len(s) =>
                     g[1 .. n + 1] = TakeOver(g[1 .. n], s[n + 1])
                /\ FoldLeft(TakeOver, << >>, s) = g[1 .. Len(s)]
<1> DEFINE S == 1 .. Len(s)
<1>1. Len(s) \in Nat /\ DOMAIN s = S OBVIOUS
<1>2. IsFiniteSet(S) /\ S \subseteq Int BY <1>1, FS_Interval
<1>3. PICK g : g = (CHOOSE h : TakenOn(s, SUBSET S, h)) OBVIOUS
<1>4. TakenOn(s, SUBSET S, g)
  <2> HIDE DEF S
  <2>1. \E h : TakenOn(s, SUBSET S, h) BY <1>2, TakenExists
  <2> QED BY <1>3, <2>1
<1>5. FoldLeft(TakeOver, << >>, s) = g[S]
  <2> HIDE DEF S
  <2> QED BY <1>1, <1>3, TakenIter
<1>6. \A T \in SUBSET S :
        g[T] = IF T = {} THEN << >> ELSE TakeOver(g[T \ {Max(T)}], s[Max(T)])
  <2> HIDE DEF S
  <2> DEFINE F == [T \in SUBSET S |-> IF T = {} THEN << >>
                                      ELSE TakeOver(g[T \ {Max(T)}], s[Max(T)])]
  <2>1. g = F BY <1>4 DEF TakenOn
  <2>2. \A T \in SUBSET S :
          F[T] = IF T = {} THEN << >> ELSE TakeOver(g[T \ {Max(T)}], s[Max(T)])
    OBVIOUS
  <2> HIDE DEF F
  <2> QED BY <2>1, <2>2
<1>7. g[{}] = << >> BY <1>6
<1>8. ASSUME NEW n \in Nat, n + 1 =< Len(s)
      PROVE  g[1 .. n + 1] = TakeOver(g[1 .. n], s[n + 1])
  <2>1. 1 .. n + 1 \in SUBSET S /\ 1 .. n + 1 # {}
    <3>1. \A m \in Nat : n + 1 =< m => 1 .. n + 1 \subseteq 1 .. m /\ n + 1 \in 1 .. n + 1
      OBVIOUS
    <3> QED BY <1>1, <1>8, <3>1
  <2>2. Max(1 .. n + 1) = n + 1 /\ (1 .. n + 1) \ {n + 1} = 1 .. n BY MaxOfInterval
  <2> DEFINE T == 1 .. n + 1
  <2>3. g[T] = TakeOver(g[T \ {Max(T)}], s[Max(T)])
    <3> HIDE DEF S, T
    <3> QED BY <1>6, <2>1 DEF T
  <2> QED BY <2>2, <2>3
<1> QED BY <1>5, <1>7, <1>8

(* The positions, among the first n, of entries with an id of their own *)
FirstsOf(s, n) == {p \in 1 .. n : \A q \in 1 .. p - 1 : s[q].id # s[p].id}

(* Every id has a first entry. *)
LEMMA FirstExists ==
  ASSUME NEW s, NEW n \in Nat, NEW p \in 1 .. n
  PROVE  \E q \in FirstsOf(s, n) : q =< p /\ s[q].id = s[p].id
<1> DEFINE Has1(m) == \A r \in 1 .. m : \E q \in FirstsOf(s, m) : q =< r /\ s[q].id = s[r].id
           N == {m \in Nat : Has1(m)}
<1>1. 0 \in N OBVIOUS
<1>2. ASSUME NEW m \in Nat, m \in N PROVE m + 1 \in N
  <2> SUFFICES ASSUME NEW r \in 1 .. m + 1
               PROVE  \E q \in FirstsOf(s, m + 1) : q =< r /\ s[q].id = s[r].id
    OBVIOUS
  <2>1. FirstsOf(s, m) \subseteq FirstsOf(s, m + 1) BY DEF FirstsOf
  <2>2. CASE r \in 1 .. m BY <1>2, <2>1, <2>2
  <2>3. CASE r = m + 1 /\ r \in FirstsOf(s, m + 1) BY <2>3
  <2>4. CASE r = m + 1 /\ r \notin FirstsOf(s, m + 1)
    <3>1. PICK x \in 1 .. r - 1 : s[x].id = s[r].id BY <2>4 DEF FirstsOf
    <3>2. x \in 1 .. m /\ x =< r BY <2>4, <3>1
    <3>3. PICK q \in FirstsOf(s, m) : q =< x /\ s[q].id = s[x].id BY <1>2, <3>2
    <3>4. q \in Int BY DEF FirstsOf
    <3>5. q =< r BY <3>2, <3>3, <3>4
    <3> QED BY <2>1, <3>1, <3>3, <3>5
  <2>5. r \in 1 .. m \/ r = m + 1 OBVIOUS
  <2> QED BY <2>2, <2>3, <2>4, <2>5
<1>3. Nat \subseteq N
  <2> HIDE DEF N
  <2> QED BY <1>1, <1>2, NatInductionOnSet
<1>4. Has1(n) BY <1>3
<1> QED BY <1>4

(* What was taken over of the first n entries *)
IsMerged(s, n, entries) ==
  \E e, l : Enumerates(e, l, FirstsOf(s, n)) /\ entries = ReadAt(s, e, l)

LEMMA MergedNone ==
  ASSUME NEW s PROVE IsMerged(s, 0, << >>)
<1> DEFINE e == [j \in 1 .. 0 |-> 0]
<1>1. FirstsOf(s, 0) = {} BY DEF FirstsOf
<1>2. Enumerates(e, 0, {})
  <2>1. 1 .. 0 = {} /\ 0 \in Nat OBVIOUS
  <2>2. e \in [1 .. 0 -> {}] BY <2>1
  <2> HIDE DEF e
  <2> QED BY <2>1, <2>2 DEF Enumerates
<1>3. << >> = ReadAt(s, e, 0)
  <2>1. 1 .. 0 = {} OBVIOUS
  <2>2. ReadAt(s, e, 0) = [j \in {} |-> s[e[j]]] BY <2>1 DEF ReadAt
  <2> HIDE DEF e
  <2>3. << >> = [j \in {} |-> s[e[j]]] OBVIOUS
  <2> QED BY <2>2, <2>3
<1> HIDE DEF e
<1> QED BY <1>1, <1>2, <1>3 DEF IsMerged

(* One round of the loop. *)
LEMMA TakeOverMerges ==
  ASSUME NEW X, NEW s \in Seq(X), NEW n \in Nat, n + 1 =< Len(s),
         NEW entries, IsMerged(s, n, entries)
  PROVE  IsMerged(s, n + 1, TakeOver(entries, s[n + 1]))
<1> DEFINE F == FirstsOf(s, n)
           F1 == FirstsOf(s, n + 1)
           x == s[n + 1]
<1>1. PICK e, l : Enumerates(e, l, F) /\ entries = ReadAt(s, e, l) BY DEF IsMerged
<1>2. /\ l \in Nat /\ e \in [1 .. l -> F]
      /\ \A p \in F : \E j \in 1 .. l : e[j] = p
      /\ \A i, j \in 1 .. l : i < j <=> e[i] < e[j]
  BY <1>1 DEF Enumerates
<1>3. DOMAIN entries = 1 .. l /\ \A j \in 1 .. l : entries[j] = s[e[j]]
  BY <1>1 DEF ReadAt
<1>4. F \subseteq 1 .. n BY DEF FirstsOf
<1>5. (\E j \in DOMAIN entries : entries[j].id = x.id) <=> \E q \in 1 .. n : s[q].id = x.id
  <2>1. ASSUME NEW j \in DOMAIN entries, entries[j].id = x.id PROVE \E q \in 1 .. n : s[q].id = x.id
    <3>1. j \in 1 .. l /\ e[j] \in 1 .. n /\ entries[j] = s[e[j]]
      <4> HIDE DEF F, x
      <4> QED BY <1>2, <1>3, <1>4
    <3> HIDE DEF x
    <3> QED BY <2>1, <3>1
  <2>2. ASSUME NEW q \in 1 .. n, s[q].id = x.id
        PROVE  \E j \in DOMAIN entries : entries[j].id = x.id
    <3>1. PICK p \in F : s[p].id = s[q].id BY FirstExists
    <3>2. PICK j \in 1 .. l : e[j] = p
      <4> HIDE DEF F
      <4> QED BY <1>2, <3>1
    <3> HIDE DEF x, F
    <3> QED BY <1>3, <2>2, <3>1, <3>2
  <2> HIDE DEF x
  <2> QED BY <2>1, <2>2
<1>6. F1 = IF \E q \in 1 .. n : s[q].id = x.id THEN F ELSE F \cup {n + 1}
  <2>1. \A p : p \in 1 .. n + 1 <=> p \in 1 .. n \/ p = n + 1 OBVIOUS
  <2>2. (n + 1) - 1 = n /\ n + 1 \notin 1 .. n OBVIOUS
  <2>3. n + 1 \in F1 <=> ~ \E q \in 1 .. n : s[q].id = x.id
    BY <2>1, <2>2 DEF FirstsOf
  <2>4. \A p : p \in 1 .. n => (p \in F1 <=> p \in F) BY <2>1 DEF FirstsOf
  <2>5. F1 \subseteq 1 .. n + 1 BY DEF FirstsOf
  <2> DEFINE has == \E q \in 1 .. n : s[q].id = x.id
  <2> HIDE DEF F1, F, x, has
  <2>6. n + 1 \in F1 <=> ~ has BY <2>3 DEF has
  <2>7. \A p : p \in F1 => p \in 1 .. n \/ p = n + 1 BY <2>1, <2>5
  <2>8. CASE has
    <3>1. F1 = F BY <1>4, <2>4, <2>6, <2>7, <2>8
    <3> QED BY <2>8, <3>1 DEF has
  <2>9. CASE ~ has
    <3>1. F1 = F \cup {n + 1} BY <1>4, <2>4, <2>6, <2>7, <2>9
    <3> QED BY <2>9, <3>1 DEF has
  <2> QED BY <2>8, <2>9
<1> HIDE DEF F, F1, x
<1>7. CASE \E q \in 1 .. n : s[q].id = x.id
  <2>1. TakeOver(entries, x) = entries BY <1>5, <1>7 DEF TakeOver
  <2>2. F1 = F BY <1>6, <1>7
  <2> QED BY <1>1, <2>1, <2>2 DEF IsMerged, F1, x
<1>8. CASE ~ \E q \in 1 .. n : s[q].id = x.id
  <2>1. TakeOver(entries, x) = Append(entries, x) BY <1>5, <1>8 DEF TakeOver
  <2>2. F1 = F \cup {n + 1} BY <1>6, <1>8
  <2> DEFINE f == [j \in 1 .. l + 1 |-> IF j \in 1 .. l THEN e[j] ELSE n + 1]
  <2>3. \A j : j \in 1 .. l + 1 <=> j \in 1 .. l \/ j = l + 1 BY <1>2
  <2>4. l + 1 \notin 1 .. l /\ l + 1 \in Nat BY <1>2
  <2>5. /\ f \in [1 .. l + 1 -> F1] /\ f[l + 1] = n + 1
        /\ \A j \in 1 .. l : f[j] = e[j]
    BY <1>2, <2>2, <2>3, <2>4
  <2> HIDE DEF f
  <2>6. \A p \in F1 : \E j \in 1 .. l + 1 : f[j] = p
    BY <1>2, <2>2, <2>3, <2>5
  <2>7. ASSUME NEW i \in 1 .. l + 1, NEW j \in 1 .. l + 1 PROVE i < j <=> f[i] < f[j]
    <3>1. \A k \in 1 .. l : f[k] = e[k] /\ f[k] \in 1 .. n BY <1>2, <1>4, <2>5
    <3>2. CASE i \in 1 .. l /\ j \in 1 .. l BY <1>2, <3>1, <3>2
    <3>3. CASE i \in 1 .. l /\ j \notin 1 .. l
      <4>1. j = l + 1 /\ f[j] = n + 1 BY <2>3, <2>5, <3>3
      <4>2. f[i] \in 1 .. n BY <3>1, <3>3
      <4> QED BY <1>2, <3>3, <4>1, <4>2
    <3>4. CASE i \notin 1 .. l /\ j \in 1 .. l
      <4>1. i = l + 1 /\ f[i] = n + 1 BY <2>3, <2>5, <3>4
      <4>2. f[j] \in 1 .. n BY <3>1, <3>4
      <4> QED BY <1>2, <3>4, <4>1, <4>2
    <3>5. CASE i \notin 1 .. l /\ j \notin 1 .. l
      <4>1. i = l + 1 /\ j = l + 1 /\ f[i] = n + 1 /\ f[j] = n + 1 BY <2>3, <2>5, <3>5
      <4> QED BY <1>2, <4>1
    <3> QED BY <3>2, <3>3, <3>4, <3>5
  <2>8. Enumerates(f, l + 1, F1) BY <2>4, <2>5, <2>6, <2>7 DEF Enumerates
  <2>9. Append(entries, x) = ReadAt(s, f, l + 1)
    <3>1. \A j \in 1 .. l : s[e[j]] \in X /\ x \in X
      <4>1. \A k \in 1 .. n : k \in 1 .. Len(s) OBVIOUS
      <4>2. \A k \in 1 .. Len(s) : s[k] \in X OBVIOUS
      <4>3. n + 1 \in 1 .. Len(s) OBVIOUS
      <4> QED BY <1>2, <1>4, <4>1, <4>2, <4>3 DEF x
    <3>2. entries \in Seq(X) /\ Len(entries) = l
      <4>1. entries \in [1 .. l -> X] BY <1>1, <1>3, <3>1 DEF ReadAt
      <4>2. entries \in Seq(X) BY <1>2, <4>1, SeqDef
      <4> QED BY <1>2, <1>3, <4>2
    <3>3. x \in X
      <4>1. n + 1 \in 1 .. Len(s) OBVIOUS
      <4> QED BY <4>1 DEF x
    <3>4. /\ Append(entries, x) \in Seq(X) /\ Len(Append(entries, x)) = l + 1
          /\ \A j \in 1 .. l : Append(entries, x)[j] = entries[j]
          /\ Append(entries, x)[l + 1] = x
      BY <3>2, <3>3, AppendProperties
    <3> DEFINE a == Append(entries, x)
    <3>5. \A j \in 1 .. l + 1 : a[j] = s[f[j]]
      BY <1>3, <2>3, <2>5, <3>4 DEF x
    <3>6. a = [j \in 1 .. l + 1 |-> a[j]]
      <4>1. a \in Seq(X) /\ Len(a) = l + 1 BY <3>4
      <4> HIDE DEF a
      <4> QED BY <4>1
    <3> HIDE DEF a
    <3>7. a = [j \in 1 .. l + 1 |-> s[f[j]]] BY <3>5, <3>6
    <3> QED BY <3>7 DEF ReadAt, a
  <2> QED BY <2>1, <2>8, <2>9 DEF IsMerged, F1, x
<1> QED BY <1>7, <1>8 DEF x

(* All rounds of it. *)
LEMMA FoldMerges ==
  ASSUME NEW X, NEW s \in Seq(X)
  PROVE  IsMerged(s, Len(s), FoldLeft(TakeOver, << >>, s))
<1>1. PICK g : /\ g[{}] = << >>
               /\ \A n \in Nat : n + 1 =< Len(s) =>
                    g[1 .. n + 1] = TakeOver(g[1 .. n], s[n + 1])
               /\ FoldLeft(TakeOver, << >>, s) = g[1 .. Len(s)]
  BY TakenAfterEach
<1> DEFINE N == {n \in Nat : n =< Len(s) => IsMerged(s, n, g[1 .. n])}
<1>2. Len(s) \in Nat OBVIOUS
<1>3. 0 \in N
  <2>1. 1 .. 0 = {} OBVIOUS
  <2>2. IsMerged(s, 0, g[1 .. 0]) BY <1>1, <2>1, MergedNone
  <2> QED BY <2>2
<1>4. ASSUME NEW n \in Nat, n \in N PROVE n + 1 \in N
  <2> SUFFICES ASSUME n + 1 =< Len(s) PROVE IsMerged(s, n + 1, g[1 .. n + 1])
    OBVIOUS
  <2>1. n =< Len(s) BY <1>2
  <2>2. IsMerged(s, n, g[1 .. n]) BY <1>4, <2>1
  <2>3. IsMerged(s, n + 1, TakeOver(g[1 .. n], s[n + 1])) BY <2>2, TakeOverMerges
  <2> QED BY <1>1, <2>3
<1>5. Nat \subseteq N
  <2> HIDE DEF N
  <2> QED BY <1>3, <1>4, NatInductionOnSet
<1>6. IsMerged(s, Len(s), g[1 .. Len(s)]) BY <1>2, <1>5
<1> QED BY <1>1, <1>6

-----------------------------------------------------------------------------
(* A set of places in documents, listed from the nearest on *)
Placed(X) == [depth : Nat, at : Nat, entry : X]

Lists(v, l, V) ==
  /\ l \in Nat /\ v \in [1 .. l -> V]
  /\ \A x \in V : \E i \in 1 .. l : v[i] = x
  /\ \A i, j \in 1 .. l : i < j <=> Nearer(v[i], v[j])

(* What a list of places has in its entries *)
EntriesOf(v, l) == [i \in 1 .. l |-> v[i].entry]

IsListOf(V, X, entries) ==
  \E v, l : Lists(v, l, V) /\ v \in [1 .. l -> Placed(X)] /\ entries = EntriesOf(v, l)

PlainPlaces(V) == {x \in V : x.entry.description = None}

MappedPlaces(V) == {[x EXCEPT !.entry = Mapped(x.entry)] : x \in V}

(* Of the places of V that have a description, settings has the nearest. *)
HasNearest(settings, V) ==
  /\ DOMAIN settings = {x.entry.description : x \in V}
  /\ \A d \in DOMAIN settings :
       \E x \in V : /\ x.entry = settings[d]
                    /\ ~ \E y \in V : y.entry.description = d /\ Nearer(y, x)

(* The place of position p of the documents of a chain, one after the other *)
PlaceOf(flat, block, at, p) == [depth |-> block[p] - 1, at |-> at[p], entry |-> flat[p]]

DocumentsOf(chain, documents) == [i \in DOMAIN chain |-> documents[chain[i]]]

AllOf(t, id, documents) == UNION {EntriesAt(t, id, d, documents) : d \in 0 .. MaxDepth}

(* The positions of the documents of a chain are the entries of the ancestors. *)
LEMMA PlacesOfChain ==
  ASSUME NEW t, NEW id \in Present(t), NEW X, NEW documents \in [Nodes -> Seq(X)]
  PROVE  LET ds == DocumentsOf(Chain(t, id), documents)
             flat == FlattenSeq(ds)
         IN  /\ flat \in Seq(X)
             /\ \E block, at :
                  /\ \A p \in 1 .. Len(flat) :
                       /\ PlaceOf(flat, block, at, p) \in Placed(X)
                       /\ PlaceOf(flat, block, at, p) \in AllOf(t, id, documents)
                  /\ \A x \in AllOf(t, id, documents) :
                       \E p \in 1 .. Len(flat) : x = PlaceOf(flat, block, at, p)
                  /\ \A p, q \in 1 .. Len(flat) :
                       p < q <=> Nearer(PlaceOf(flat, block, at, p), PlaceOf(flat, block, at, q))
<1> DEFINE chain == Chain(t, id)
           ds == DocumentsOf(chain, documents)
           flat == FlattenSeq(ds)
           n == Len(flat)
<1>1. PICK k \in Nat :
        /\ k \in 1 .. MaxDepth + 1
        /\ chain \in [1 .. k -> Present(t)]
        /\ \A d \in 0 .. MaxDepth :
             Ancestor(t, id, d) = IF d < k THEN chain[d + 1] ELSE None
  BY ChainProperties
<1> HIDE DEF chain
<1>2. /\ ds \in [1 .. k -> Seq(X)]
      /\ \A i \in 1 .. k : ds[i] = documents[chain[i]]
      /\ \A i \in 1 .. k : chain[i] # None
  BY <1>1, ResolverAssumption DEF DocumentsOf, Present
<1> HIDE DEF ds
<1>3. flat \in Seq(X) /\ \E block, at : IsFlat(ds, k, flat, block, at) BY <1>2, FlattenPlaces
<1>4. PICK block, at : IsFlat(ds, k, flat, block, at) BY <1>3
<1>5. n \in Nat /\ \A p \in 1 .. n : flat[p] \in X BY <1>3
<1> HIDE DEF n
<1>6. /\ block \in [1 .. n -> 1 .. k] /\ at \in [1 .. n -> Nat]
      /\ \A p \in 1 .. n : at[p] \in DOMAIN ds[block[p]] /\ flat[p] = ds[block[p]][at[p]]
      /\ \A i \in 1 .. k : \A j \in DOMAIN ds[i] :
           \E p \in 1 .. n : block[p] = i /\ at[p] = j
      /\ \A p, q \in 1 .. n :
           p < q => block[p] < block[q] \/ (block[p] = block[q] /\ at[p] < at[q])
  BY <1>4 DEF IsFlat, n
<1> HIDE DEF flat
<1> DEFINE place(p) == PlaceOf(flat, block, at, p)
<1>7. \A d \in 0 .. MaxDepth :
        EntriesAt(t, id, d, documents) =
          IF d < k THEN {[depth |-> d, at |-> i, entry |-> ds[d + 1][i]] : i \in DOMAIN ds[d + 1]}
          ELSE {}
  <2> SUFFICES ASSUME NEW d \in 0 .. MaxDepth
               PROVE  EntriesAt(t, id, d, documents) =
                        IF d < k THEN {[depth |-> d, at |-> i, entry |-> ds[d + 1][i]] :
                                         i \in DOMAIN ds[d + 1]}
                        ELSE {}
    OBVIOUS
  <2>1. CASE d < k
    <3>1. d + 1 \in 1 .. k BY <1>1, <2>1
    <3>2. Ancestor(t, id, d) = chain[d + 1] BY <1>1, <2>1
    <3>3. Ancestor(t, id, d) # None /\ documents[Ancestor(t, id, d)] = ds[d + 1]
      BY <1>2, <3>1, <3>2
    <3> QED BY <2>1, <3>3 DEF EntriesAt
  <2>2. CASE ~ d < k
    <3>1. Ancestor(t, id, d) = None BY <1>1, <2>2
    <3> QED BY <2>2, <3>1 DEF EntriesAt
  <2> QED BY <2>1, <2>2
<1>8. ASSUME NEW p \in 1 .. n
      PROVE  place(p) \in Placed(X) /\ place(p) \in AllOf(t, id, documents)
  <2>1. /\ block[p] \in 1 .. k /\ at[p] \in DOMAIN ds[block[p]] /\ at[p] \in Nat
        /\ flat[p] = ds[block[p]][at[p]] /\ flat[p] \in X
    BY <1>5, <1>6
  <2>2. block[p] - 1 \in 0 .. MaxDepth /\ block[p] - 1 < k /\ (block[p] - 1) + 1 = block[p]
        /\ block[p] - 1 \in Nat
    BY <1>1, <2>1, ResolverAssumption
  <2>3. place(p) \in EntriesAt(t, id, block[p] - 1, documents)
    <3> DEFINE d == block[p] - 1
    <3>1. place(p) = [depth |-> d, at |-> at[p], entry |-> ds[d + 1][at[p]]]
      BY <2>1, <2>2 DEF PlaceOf
    <3>2. at[p] \in DOMAIN ds[d + 1] /\ d \in 0 .. MaxDepth /\ d < k BY <2>1, <2>2
    <3> HIDE DEF d, place
    <3>3. place(p) \in EntriesAt(t, id, d, documents) BY <1>7, <3>1, <3>2
    <3> QED BY <3>3 DEF d
  <2>4. place(p) \in AllOf(t, id, documents)
    <3> HIDE DEF place
    <3> QED BY <2>2, <2>3 DEF AllOf
  <2> QED BY <2>1, <2>2, <2>4 DEF PlaceOf, Placed
<1>9. ASSUME NEW x \in AllOf(t, id, documents) PROVE \E p \in 1 .. n : x = place(p)
  <2>1. PICK d \in 0 .. MaxDepth : x \in EntriesAt(t, id, d, documents) BY DEF AllOf
  <2>2. d < k BY <1>7, <2>1
  <2>3. PICK j \in DOMAIN ds[d + 1] : x = [depth |-> d, at |-> j, entry |-> ds[d + 1][j]]
    BY <1>7, <2>1, <2>2
  <2>4. d + 1 \in 1 .. k BY <1>1, <2>2
  <2>5. PICK p \in 1 .. n : block[p] = d + 1 /\ at[p] = j BY <1>6, <2>4
  <2>6. flat[p] = ds[d + 1][j] /\ block[p] - 1 = d BY <1>6, <2>5
  <2>7. x = place(p) BY <2>3, <2>5, <2>6 DEF PlaceOf
  <2> QED BY <2>7
<1>10. ASSUME NEW p \in 1 .. n, NEW q \in 1 .. n PROVE p < q <=> Nearer(place(p), place(q))
  <2>1. Nearer(place(p), place(q)) <=>
          block[p] < block[q] \/ (block[p] = block[q] /\ at[p] < at[q])
    <3>1. block[p] \in Int /\ block[q] \in Int BY <1>6
    <3>2. Nearer(place(p), place(q)) <=>
            block[p] - 1 < block[q] - 1 \/ (block[p] - 1 = block[q] - 1 /\ at[p] < at[q])
      BY DEF Nearer, PlaceOf
    <3> QED BY <3>1, <3>2
  <2>2. block[p] \in Int /\ block[q] \in Int /\ at[p] \in Int /\ at[q] \in Int BY <1>6
  <2>3. p < q => block[p] < block[q] \/ (block[p] = block[q] /\ at[p] < at[q]) BY <1>6
  <2>4. q < p => block[q] < block[p] \/ (block[q] = block[p] /\ at[q] < at[p]) BY <1>6
  <2>5. p < q \/ q < p \/ p = q BY <1>5
  <2> QED BY <2>1, <2>2, <2>3, <2>4, <2>5
<1> HIDE DEF place
<1>11. /\ \A p \in 1 .. n : place(p) \in Placed(X) /\ place(p) \in AllOf(t, id, documents)
       /\ \A x \in AllOf(t, id, documents) : \E p \in 1 .. n : x = place(p)
       /\ \A p, q \in 1 .. n : p < q <=> Nearer(place(p), place(q))
  BY <1>8, <1>9, <1>10
<1> QED BY <1>3, <1>11 DEF n, place, flat, ds, chain

(* The loop takes over the visible entries, from the nearest to the farthest. *)
LEMMA MergedIsVisible ==
  ASSUME NEW t, NEW id \in Present(t), NEW X, NEW documents \in [Nodes -> Seq(X)]
  PROVE  IsListOf(Visible(t, id, documents), X, Merged(Chain(t, id), documents))
<1> DEFINE ds == DocumentsOf(Chain(t, id), documents)
           flat == FlattenSeq(ds)
           n == Len(flat)
           all == AllOf(t, id, documents)
           F == FirstsOf(flat, n)
           V == Visible(t, id, documents)
<1>1. /\ flat \in Seq(X)
      /\ \E block, at :
           /\ \A p \in 1 .. n : /\ PlaceOf(flat, block, at, p) \in Placed(X)
                                /\ PlaceOf(flat, block, at, p) \in all
           /\ \A x \in all : \E p \in 1 .. n : x = PlaceOf(flat, block, at, p)
           /\ \A p, q \in 1 .. n :
                p < q <=> Nearer(PlaceOf(flat, block, at, p), PlaceOf(flat, block, at, q))
  BY PlacesOfChain
<1>2. PICK block, at :
        /\ \A p \in 1 .. n : /\ PlaceOf(flat, block, at, p) \in Placed(X)
                             /\ PlaceOf(flat, block, at, p) \in all
        /\ \A x \in all : \E p \in 1 .. n : x = PlaceOf(flat, block, at, p)
        /\ \A p, q \in 1 .. n :
             p < q <=> Nearer(PlaceOf(flat, block, at, p), PlaceOf(flat, block, at, q))
  BY <1>1
<1> DEFINE place(p) == PlaceOf(flat, block, at, p)
<1>3. n \in Nat BY <1>1
<1>4. V = {a \in all : ~ \E b \in all : b.entry.id = a.entry.id /\ Nearer(b, a)}
  BY DEF Visible, AllOf
<1>5. Merged(Chain(t, id), documents) = FoldLeft(TakeOver, << >>, flat)
  BY DEF Merged, DocumentsOf
<1>6. IsMerged(flat, n, FoldLeft(TakeOver, << >>, flat)) BY <1>1, FoldMerges
<1>7. PICK e, l : Enumerates(e, l, F) /\ FoldLeft(TakeOver, << >>, flat) = ReadAt(flat, e, l)
  BY <1>6 DEF IsMerged
<1> HIDE DEF flat, n, all, V
<1>8. \A p : place(p).entry = flat[p] BY DEF PlaceOf
<1>9. F \subseteq 1 .. n /\
      \A p \in 1 .. n : p \in F <=> ~ \E q \in 1 .. n : q < p /\ flat[q].id = flat[p].id
  BY <1>3 DEF FirstsOf
<1> HIDE DEF F, place
<1>10. \A p \in 1 .. n : place(p) \in Placed(X) /\ place(p) \in all BY <1>2 DEF place
<1>11. \A x \in all : \E p \in 1 .. n : x = place(p) BY <1>2 DEF place
<1>12. \A p, q \in 1 .. n : p < q <=> Nearer(place(p), place(q)) BY <1>2 DEF place
<1>13. ASSUME NEW p \in 1 .. n PROVE p \in F <=> place(p) \in V
  <2>1. (\E b \in all : b.entry.id = place(p).entry.id /\ Nearer(b, place(p)))
          <=> \E q \in 1 .. n : q < p /\ flat[q].id = flat[p].id
    BY <1>8, <1>10, <1>11, <1>12
  <2> QED BY <1>4, <1>9, <1>10, <2>1
<1>14. \A x \in V : \E p \in F : x = place(p) BY <1>4, <1>11, <1>13
<1> DEFINE v == [i \in 1 .. l |-> place(e[i])]
<1>15. /\ l \in Nat /\ e \in [1 .. l -> F]
       /\ \A p \in F : \E j \in 1 .. l : e[j] = p
       /\ \A i, j \in 1 .. l : i < j <=> e[i] < e[j]
  BY <1>7 DEF Enumerates
<1>16. v \in [1 .. l -> V] /\ v \in [1 .. l -> Placed(X)] BY <1>9, <1>10, <1>13, <1>15
<1>17. \A i \in 1 .. l : v[i] = place(e[i]) /\ e[i] \in 1 .. n BY <1>9, <1>15
<1>18. Merged(Chain(t, id), documents) = EntriesOf(v, l)
  BY <1>5, <1>7, <1>8 DEF ReadAt, EntriesOf
<1> HIDE DEF v
<1>19. Lists(v, l, V)
  <2>1. \A x \in V : \E i \in 1 .. l : v[i] = x BY <1>14, <1>15, <1>17
  <2>2. \A i, j \in 1 .. l : i < j <=> Nearer(v[i], v[j]) BY <1>12, <1>15, <1>17
  <2> QED BY <1>15, <1>16, <2>1, <2>2 DEF Lists
<1> QED BY <1>16, <1>18, <1>19 DEF V, IsListOf

-----------------------------------------------------------------------------
(* As many elements as a function without repetitions gives *)
LEMMA CountListed ==
  ASSUME NEW l \in Nat, NEW S, NEW v \in [1 .. l -> S],
         \A x \in S : \E i \in 1 .. l : v[i] = x,
         \A i, j \in 1 .. l : v[i] = v[j] => i = j
  PROVE  Cardinality(S) = l
<1>1. v \in Bijection(1 .. l, S) BY DEF Bijection, Injection, Surjection, IsInjective
<1>2. ExistsBijection(1 .. l, S) BY <1>1 DEF ExistsBijection
<1> QED BY <1>2, FS_CountingElements

(* A list from the nearest on has no repetitions. *)
LEMMA ListedOnce ==
  ASSUME NEW V, NEW v, NEW l, Lists(v, l, V)
  PROVE  \A i, j \in 1 .. l : v[i] = v[j] => i = j
<1>1. l \in Nat /\ \A i, j \in 1 .. l : i < j <=> Nearer(v[i], v[j]) BY DEF Lists
<1> SUFFICES ASSUME NEW i \in 1 .. l, NEW j \in 1 .. l, v[i] = v[j] PROVE i = j
  OBVIOUS
<1>2. ~ Nearer(v[i], v[i]) BY <1>1
<1>3. ~ i < j BY <1>1, <1>2
<1>4. ~ j < i BY <1>1, <1>2
<1> QED BY <1>1, <1>3, <1>4

(* Entries that are listed from the nearest on are visible, each in its place. *)
LEMMA ListedIsVisible ==
  ASSUME NEW V, NEW v, NEW l, Lists(v, l, V)
  PROVE  IsVisibleIn(EntriesOf(v, l), V)
<1> DEFINE entries == [i \in 1 .. l |-> v[i].entry]
<1>1. /\ l \in Nat /\ v \in [1 .. l -> V]
      /\ \A x \in V : \E i \in 1 .. l : v[i] = x
      /\ \A i, j \in 1 .. l : i < j <=> Nearer(v[i], v[j])
  BY DEF Lists
<1>2. \A i, j \in 1 .. l : v[i] = v[j] => i = j BY ListedOnce
<1>3. Cardinality(V) = l BY <1>1, <1>2, CountListed
<1>4. DOMAIN entries = 1 .. l /\ \A i \in 1 .. l : entries[i] = v[i].entry OBVIOUS
<1>5. Len(entries) = l
  <2>1. entries \in Seq({v[i].entry : i \in 1 .. l}) BY <1>1
  <2> HIDE DEF entries
  <2> QED BY <1>1, <1>4, <2>1
<1>6. ASSUME NEW i \in 1 .. l
      PROVE  Cardinality({b \in V : Nearer(b, v[i])}) = i - 1
  <2> DEFINE B == {b \in V : Nearer(b, v[i])}
             w == [j \in 1 .. i - 1 |-> v[j]]
  <2>1. i - 1 \in Nat /\ \A j \in 1 .. l : j \in 1 .. i - 1 <=> j < i BY <1>1
  <2>2. \A j \in 1 .. i - 1 : j \in 1 .. l BY <1>1
  <2>3. \A j \in 1 .. l : j \in 1 .. i - 1 <=> v[j] \in B BY <1>1, <2>1
  <2>4. w \in [1 .. i - 1 -> B] BY <2>2, <2>3
  <2>5. \A x \in B : \E j \in 1 .. i - 1 : w[j] = x BY <1>1, <2>3
  <2>6. \A j, k \in 1 .. i - 1 : w[j] = w[k] => j = k BY <1>2, <2>2
  <2> HIDE DEF w, B
  <2>7. Cardinality(B) = i - 1 BY <2>1, <2>4, <2>5, <2>6, CountListed
  <2> QED BY <2>7 DEF B
<1> HIDE DEF entries
<1>7. \A i \in DOMAIN entries :
        \E a \in V : a.entry = entries[i] /\ Cardinality({b \in V : Nearer(b, a)}) = i - 1
  BY <1>1, <1>4, <1>6
<1>8. IsVisibleIn(entries, V) BY <1>3, <1>5, <1>7 DEF IsVisibleIn
<1> QED BY <1>8 DEF entries, EntriesOf

(* Those of one kind, listed in the same order *)
LEMMA PlainIsVisible ==
  ASSUME NEW V, NEW v, NEW l, Lists(v, l, V), NEW linked,
         linked = EntriesOf(v, l)
  PROVE  IsVisibleIn(PlainOf(linked), PlainPlaces(V))
<1> DEFINE P == {i \in DOMAIN linked : linked[i].description = None}
           plain == PlainPlaces(V)
<1>1. /\ l \in Nat /\ v \in [1 .. l -> V]
      /\ \A x \in V : \E i \in 1 .. l : v[i] = x
      /\ \A i, j \in 1 .. l : i < j <=> Nearer(v[i], v[j])
  BY DEF Lists
<1>2. DOMAIN linked = 1 .. l /\ \A i \in 1 .. l : linked[i] = v[i].entry BY DEF EntriesOf
<1>3. P \in SUBSET (1 .. l) BY <1>2
<1>4. \A i \in 1 .. l : i \in P <=> v[i] \in plain BY <1>1, <1>2 DEF PlainPlaces
<1> HIDE DEF P
<1>5. PICK e, m : Enumerates(e, m, P) /\ Selection(linked, P) = ReadAt(linked, e, m)
  BY <1>1, <1>3, SelectionProperties
<1>6. /\ m \in Nat /\ e \in [1 .. m -> P]
      /\ \A p \in P : \E j \in 1 .. m : e[j] = p
      /\ \A i, j \in 1 .. m : i < j <=> e[i] < e[j]
  BY <1>5 DEF Enumerates
<1> DEFINE w == [j \in 1 .. m |-> v[e[j]]]
<1>7. \A j \in 1 .. m : w[j] = v[e[j]] /\ e[j] \in 1 .. l /\ e[j] \in P
  BY <1>3, <1>6
<1>8. \A x \in plain : \E j \in 1 .. m : w[j] = x
  <2> SUFFICES ASSUME NEW x \in plain PROVE \E j \in 1 .. m : w[j] = x
    OBVIOUS
  <2>1. PICK i \in 1 .. l : v[i] = x BY <1>1 DEF PlainPlaces
  <2>2. i \in P BY <1>4, <2>1
  <2>3. PICK j \in 1 .. m : e[j] = i BY <1>6, <2>2
  <2> QED BY <1>7, <2>1, <2>3
<1>9. w \in [1 .. m -> plain] BY <1>4, <1>7
<1>10. \A i, j \in 1 .. m : i < j <=> Nearer(w[i], w[j]) BY <1>1, <1>6, <1>7
<1>11. EntriesOf(w, m) = ReadAt(linked, e, m) BY <1>2, <1>7 DEF ReadAt, EntriesOf
<1> HIDE DEF w, plain
<1>12. Lists(w, m, plain) BY <1>6, <1>8, <1>9, <1>10 DEF Lists
<1>13. IsVisibleIn(EntriesOf(w, m), plain) BY <1>12, ListedIsVisible
<1>14. PlainOf(linked) = ReadAt(linked, e, m) BY <1>5 DEF PlainOf, P
<1> QED BY <1>11, <1>13, <1>14 DEF plain

(* Mapping an entry does not move it. *)
LEMMA MappedIsVisible ==
  ASSUME NEW X, NEW V, NEW v, NEW l, Lists(v, l, V), v \in [1 .. l -> Placed(X)],
         NEW service, service = EntriesOf(v, l)
  PROVE  IsVisibleIn([i \in DOMAIN service |-> Mapped(service[i])], MappedPlaces(V))
<1> DEFINE To(x) == [x EXCEPT !.entry = Mapped(x.entry)]
           M == {To(x) : x \in V}
           w == [i \in 1 .. l |-> To(v[i])]
<1>1. /\ l \in Nat /\ v \in [1 .. l -> V]
      /\ \A x \in V : \E i \in 1 .. l : v[i] = x
      /\ \A i, j \in 1 .. l : i < j <=> Nearer(v[i], v[j])
  BY DEF Lists
<1>2. \A x \in Placed(X) : To(x).depth = x.depth /\ To(x).at = x.at /\ To(x).entry = Mapped(x.entry)
  BY DEF Placed
<1>3. \A i \in 1 .. l : v[i] \in V /\ v[i] \in Placed(X) BY <1>1
<1> HIDE DEF To
<1>4. \A i \in 1 .. l : w[i] = To(v[i]) OBVIOUS
<1>5. w \in [1 .. l -> M] BY <1>3
<1>6. \A x \in M : \E i \in 1 .. l : w[i] = x BY <1>1, <1>4
<1>7. \A i, j \in 1 .. l : i < j <=> Nearer(w[i], w[j]) BY <1>1, <1>2, <1>3, <1>4 DEF Nearer
<1>8. [i \in DOMAIN service |-> Mapped(service[i])] = EntriesOf(w, l)
  <2>1. DOMAIN service = 1 .. l /\ \A i \in 1 .. l : service[i] = v[i].entry BY DEF EntriesOf
  <2>2. \A i \in 1 .. l : w[i].entry = Mapped(v[i].entry) BY <1>2, <1>3, <1>4
  <2> HIDE DEF w
  <2> QED BY <2>1, <2>2 DEF EntriesOf
<1> HIDE DEF w, M
<1>9. Lists(w, l, M) BY <1>1, <1>5, <1>6, <1>7 DEF Lists
<1>10. IsVisibleIn(EntriesOf(w, l), M) BY <1>9, ListedIsVisible
<1> QED BY <1>8, <1>10 DEF M, To, MappedPlaces

(* What holds somewhere in a list holds at a first place. *)
LEMMA FirstPlace ==
  ASSUME NEW l \in Nat, NEW T \in SUBSET (1 .. l), T # {}
  PROVE  \E i \in T : \A j \in 1 .. i - 1 : j \notin T
<1> DEFINE None1(m) == \A j \in 1 .. m : j \notin T
           N == {m \in Nat : None1(m)}
<1> SUFFICES ASSUME \A i \in T : \E j \in 1 .. i - 1 : j \in T PROVE FALSE
  OBVIOUS
<1>1. 0 \in N OBVIOUS
<1>2. ASSUME NEW m \in Nat, m \in N PROVE m + 1 \in N
  <2>1. \A j \in 1 .. m + 1 : j \in 1 .. m \/ j = m + 1 OBVIOUS
  <2>2. (m + 1) - 1 = m OBVIOUS
  <2>3. m + 1 \notin T BY <1>2, <2>2
  <2> QED BY <1>2, <2>1, <2>3
<1>3. Nat \subseteq N
  <2> HIDE DEF N
  <2> QED BY <1>1, <1>2, NatInductionOnSet
<1>4. None1(l) BY <1>3
<1> QED BY <1>4

(* The settings are the nearest of their description. *)
LEMMA SettingsAreNearest ==
  ASSUME NEW V, NEW v, NEW l, Lists(v, l, V), NEW linked,
         linked = EntriesOf(v, l)
  PROVE  HasNearest(SettingsOf(linked), V \ PlainPlaces(V))
<1> DEFINE settings == V \ {x \in V : x.entry.description = None}
           named == {x.entry.description : x \in settings}
           described == {e.description : e \in ToSet(linked)} \ {None}
           IsFirst(d, i) == /\ linked[i].description = d
                            /\ \A j \in 1 .. i - 1 : linked[j].description # d
<1>1. /\ l \in Nat /\ v \in [1 .. l -> V]
      /\ \A x \in V : \E i \in 1 .. l : v[i] = x
      /\ \A i, j \in 1 .. l : i < j <=> Nearer(v[i], v[j])
  BY DEF Lists
<1>2. DOMAIN linked = 1 .. l /\ \A i \in 1 .. l : linked[i] = v[i].entry BY DEF EntriesOf
<1>3. SettingsOf(linked) = [d \in described |-> linked[CHOOSE i \in DOMAIN linked : IsFirst(d, i)]]
  BY DEF SettingsOf
<1>4. described = named
  <2>1. \A d : d \in described <=> d # None /\ \E i \in 1 .. l : v[i].entry.description = d
    <3>1. ToSet(linked) = {linked[i] : i \in DOMAIN linked} BY DEF ToSet
    <3> HIDE DEF described
    <3>2. \A d : d \in described <=> d # None /\ \E i \in DOMAIN linked : linked[i].description = d
      BY <3>1 DEF described
    <3> QED BY <1>2, <3>2
  <2>2. \A d : d \in named <=> d # None /\ \E i \in 1 .. l : v[i].entry.description = d
    BY <1>1
  <2> HIDE DEF described, named
  <2> QED BY <2>1, <2>2
<1> HIDE DEF described
<1>5. ASSUME NEW d \in named
      PROVE  \E x \in settings :
               /\ x.entry = SettingsOf(linked)[d]
               /\ ~ \E y \in settings : y.entry.description = d /\ Nearer(y, x)
  <2> DEFINE T == {i \in 1 .. l : linked[i].description = d}
             i == CHOOSE k \in DOMAIN linked : IsFirst(d, k)
  <2>1. T # {} /\ T \in SUBSET (1 .. l) /\ d # None BY <1>1, <1>2
  <2>2. PICK f \in T : \A j \in 1 .. f - 1 : j \notin T BY <1>1, <2>1, FirstPlace
  <2>3. f \in DOMAIN linked /\ IsFirst(d, f)
    <3>1. f \in 1 .. l /\ linked[f].description = d OBVIOUS
    <3>2. \A j \in 1 .. f - 1 : j \in 1 .. l BY <1>1, <3>1
    <3>3. \A j \in 1 .. f - 1 : linked[j].description # d BY <2>2, <3>2
    <3> QED BY <1>2, <3>1, <3>3
  <2>4. i \in 1 .. l /\ IsFirst(d, i) BY <1>2, <2>3
  <2>5. SettingsOf(linked)[d] = linked[i] BY <1>3, <1>4
  <2> HIDE DEF i, T
  <2>6. v[i] \in settings /\ v[i].entry = SettingsOf(linked)[d]
    BY <1>1, <1>2, <2>1, <2>4, <2>5
  <2>7. ASSUME NEW y \in settings, y.entry.description = d, Nearer(y, v[i]) PROVE FALSE
    <3>1. PICK j \in 1 .. l : v[j] = y BY <1>1
    <3>2. j < i BY <1>1, <2>4, <2>7, <3>1
    <3>3. j \in 1 .. i - 1 BY <1>1, <2>4, <3>2
    <3> QED BY <1>2, <2>4, <2>7, <3>1, <3>3
  <2> QED BY <2>6, <2>7
<1>6. DOMAIN SettingsOf(linked) = named BY <1>3, <1>4
<1>7. settings = V \ PlainPlaces(V) BY DEF PlainPlaces
<1> QED BY <1>5, <1>6, <1>7 DEF HasNearest

(* Documents are sequences. *)
LEMMA DocumentsTyped ==
  ASSUME NEW t \in [Nodes -> Rows \cup {None}]
  PROVE  \E X : Services(t) \in [Nodes -> Seq(X)] /\ Linked(t) \in [Nodes -> Seq(X)]
<1> DEFINE X == UNION {ToSet(r.service) \cup ToSet(r.linked) : r \in Rows}
<1>1. ASSUME NEW A, A \subseteq X, NEW s \in Seq(A) PROVE s \in Seq(X)
  <2>1. Len(s) \in Nat /\ s \in [1 .. Len(s) -> A] OBVIOUS
  <2> HIDE DEF X
  <2>2. s \in [1 .. Len(s) -> X] BY <1>1, <2>1
  <2> QED BY <2>1, <2>2, SeqDef
<1>2. \A r \in Rows : ToSet(r.service) \subseteq X /\ ToSet(r.linked) \subseteq X OBVIOUS
<1> HIDE DEF X
<1>3. \A r \in Rows : r.service \in Seq(X) /\ r.linked \in Seq(X)
  <2> SUFFICES ASSUME NEW r \in Rows PROVE r.service \in Seq(X) /\ r.linked \in Seq(X)
    OBVIOUS
  <2>1. r.service \in Seq(ToSet(r.service)) /\ r.linked \in Seq(ToSet(r.linked))
    BY ResolverAssumption
  <2> QED BY <1>1, <1>2, <2>1
<1>4. << >> \in Seq(X) OBVIOUS
<1>5. \A n \in Nodes : t[n] = None \/ t[n] \in Rows OBVIOUS
<1>6. Services(t) \in [Nodes -> Seq(X)] BY <1>3, <1>4, <1>5 DEF Services
<1>7. Linked(t) \in [Nodes -> Seq(X)] BY <1>3, <1>4, <1>5 DEF Linked
<1> QED BY <1>6, <1>7

(* entity.ts:160-219: what the loop assembles for an entity, from its chain
   in one snapshot and the documents of another, is what it inherits. *)
LEMMA AssembledIsInherited ==
  ASSUME NEW tc, NEW td \in [Nodes -> Rows \cup {None}], NEW id \in Present(tc)
  PROVE  IsInherited(Assembled(Chain(tc, id), td), tc, td, id)
<1> DEFINE ch == Chain(tc, id)
           a == Assembled(ch, td)
           seen == Visible(tc, id, Linked(td))
           offered == Visible(tc, id, Services(td))
<1>1. PICK X : Services(td) \in [Nodes -> Seq(X)] /\ Linked(td) \in [Nodes -> Seq(X)]
  BY DocumentsTyped
<1>2. ASSUME WantService PROVE IsVisibleIn(a.service, MappedPlaces(offered))
  <2> DEFINE service == Merged(ch, Services(td))
  <2>1. a.service = [i \in DOMAIN service |-> Mapped(service[i])] BY <1>2 DEF Assembled
  <2>2. IsListOf(offered, X, service) BY <1>1, MergedIsVisible
  <2> HIDE DEF service, a, offered
  <2>3. PICK v, l : /\ Lists(v, l, offered)
                    /\ v \in [1 .. l -> Placed(X)]
                    /\ service = EntriesOf(v, l)
    BY <2>2 DEF IsListOf
  <2>4. IsVisibleIn([i \in DOMAIN service |-> Mapped(service[i])], MappedPlaces(offered))
    BY <2>3, MappedIsVisible
  <2> QED BY <2>1, <2>4
<1>3. ASSUME WantLinked
      PROVE  /\ IsVisibleIn(a.linkedResource, PlainPlaces(seen))
             /\ HasNearest(a.settings, seen \ PlainPlaces(seen))
  <2> DEFINE linked == Merged(ch, Linked(td))
  <2>1. a.linkedResource = PlainOf(linked) /\ a.settings = SettingsOf(linked)
    BY <1>3 DEF Assembled
  <2>2. IsListOf(seen, X, linked) BY <1>1, MergedIsVisible
  <2> HIDE DEF linked, a, seen
  <2>3. PICK v, l : Lists(v, l, seen) /\ linked = EntriesOf(v, l) BY <2>2 DEF IsListOf
  <2>4. IsVisibleIn(PlainOf(linked), PlainPlaces(seen)) BY <2>3, PlainIsVisible
  <2>5. HasNearest(SettingsOf(linked), seen \ PlainPlaces(seen)) BY <2>3, SettingsAreNearest
  <2> QED BY <2>1, <2>4, <2>5
<1>4. (Wants("linkedResource") => WantLinked) /\ (Wants("settings") => WantLinked)
  BY DEF WantLinked
<1> HIDE DEF a
<1>5. IsInherited(a, tc, td, id)
  BY <1>2, <1>3, <1>4 DEF IsInherited, MappedPlaces, PlainPlaces, HasNearest
<1> QED BY <1>5 DEF a

(* An entity without a row inherits nothing. *)
LEMMA NoEntityIsInherited ==
  ASSUME NEW tc, NEW td, NEW id, id \notin Present(tc)
  PROVE  IsInherited(NoEntity, tc, td, id)
<1>1. IsVisibleIn(<< >>, {})
  <2>1. Cardinality({}) = 0 BY FS_EmptySet
  <2>2. Len(<< >>) = 0 /\ DOMAIN << >> = {} OBVIOUS
  <2> QED BY <2>1, <2>2 DEF IsVisibleIn
<1>2. /\ NoEntity.service = << >> /\ NoEntity.linkedResource = << >>
      /\ NoEntity.settings = << >>
  BY DEF NoEntity
<1>3. DOMAIN NoEntity.settings = {} BY <1>2
<1> QED BY <1>1, <1>2, <1>3 DEF IsInherited

(* The chains are those of the first snapshot, the answer is assembled from
   the documents of the second. *)
AnswerOf(batch) ==
  [id \in batch |-> IF id \in DOMAIN chains THEN Assembled(chains[id], fetched) ELSE NoEntity]

ResolverInv ==
  /\ iid \in [Nodes -> Rows \cup {None}]
  /\ fetched \in [Nodes -> Rows \cup {None}]
  /\ ids \in SUBSET Nodes
  /\ phase \in {"start", "walked", "answered"}
  /\ phase # "start" => chains = ChainsOf(walked, ids)
  /\ phase = "answered" => answer = AnswerOf(ids)

LEMMA ResolverInvInit == Init => ResolverInv
BY DEF Init, ResolverInv

LEMMA ResolverInvNext == ResolverInv /\ [Next]_vars => ResolverInv'
<1> SUFFICES ASSUME ResolverInv, [Next]_vars PROVE ResolverInv'
  OBVIOUS
<1>1. ASSUME NEW n \in Nodes, NEW row \in Rows, Commit(n, row) PROVE ResolverInv'
  BY <1>1 DEF Commit, ResolverInv, AnswerOf, Assembled, WantService, WantLinked, Wants
<1>2. CASE WalkChains
  BY <1>2 DEF WalkChains, ResolverInv
<1>3. CASE FetchDocuments
  <2>1. answer' = AnswerOf(ids)'
    BY <1>3 DEF FetchDocuments, AnswerOf, Assembled, WantService, WantLinked, Wants
  <2> QED BY <1>3, <2>1 DEF FetchDocuments, ResolverInv
<1>4. CASE UNCHANGED vars
  BY <1>4 DEF vars, ResolverInv, AnswerOf, Assembled, WantService, WantLinked, Wants
<1> QED BY <1>1, <1>2, <1>3, <1>4 DEF Next, Answered

(* What the invariant says of an answer *)
LEMMA ResolverInvInherits == ResolverInv => InheritsFromTwoSnapshots
<1> SUFFICES ASSUME ResolverInv, phase = "answered", NEW id \in ids
             PROVE  IsInherited(answer[id], walked, fetched, id)
  BY DEF InheritsFromTwoSnapshots
<1>1. chains = ChainsOf(walked, ids) /\ answer = AnswerOf(ids)
      /\ fetched \in [Nodes -> Rows \cup {None}]
  BY DEF ResolverInv
<1>2. /\ DOMAIN chains = ids \cap Present(walked)
      /\ \A n \in ids \cap Present(walked) : chains[n] = Chain(walked, n)
  BY <1>1 DEF ChainsOf
<1>3. answer[id] = IF id \in DOMAIN chains THEN Assembled(chains[id], fetched) ELSE NoEntity
  BY <1>1 DEF AnswerOf
<1>4. CASE id \in Present(walked)
  <2>1. answer[id] = Assembled(Chain(walked, id), fetched) BY <1>2, <1>3, <1>4
  <2> QED BY <1>1, <1>4, <2>1, AssembledIsInherited
<1>5. CASE id \notin Present(walked)
  <2>1. answer[id] = NoEntity BY <1>2, <1>3, <1>5
  <2> QED BY <1>5, <2>1, NoEntityIsInherited
<1> QED BY <1>4, <1>5

(* entity.ts:116-121 and :137-140: whatever chains, cycles, missing classes
   and documents there are, and whatever the indexer commits between the two
   queries, every entity of the batch gets, of each entry id, the entry of its
   nearest ancestor that has one, by the classes of the first snapshot and the
   documents of the second. *)
THEOREM InheritsFromTwoSnapshotsAlways == Spec => []InheritsFromTwoSnapshots
<1>1. Init => ResolverInv BY ResolverInvInit
<1>2. ResolverInv /\ [Next]_vars => ResolverInv' BY ResolverInvNext
<1>3. ResolverInv => InheritsFromTwoSnapshots BY ResolverInvInherits
<1> QED BY <1>1, <1>2, <1>3, PTL DEF Spec

=============================================================================
