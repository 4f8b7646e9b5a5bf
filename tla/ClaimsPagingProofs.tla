--------------------------- MODULE ClaimsPagingProofs ---------------------------
(***************************************************************************)
(* Paging through the claims of a collection, for any number of claims,    *)
(* evaluations and types, and whatever page size.                          *)
(*                                                                         *)
(* A page is described once, by PageHandsOver: it appends to what has been *)
(* received the first of the rows that are left after the cursor.  The     *)
(* invariant, PagingInv, says where the cursor stands, that what has been  *)
(* received is in order up to it, and that every claim that is owed and    *)
(* not received yet is ahead of it.                                        *)
(***************************************************************************)
EXTENDS ClaimsPaging, DataLemmas, SequenceTheorems

-----------------------------------------------------------------------------
(* Claims are finitely many, and Earlier orders them strictly and totally. *)

LEMMA ClaimsFinite == IsFiniteSet(Claims)
<1> DEFINE f == [c \in Claims |-> <<c.date, c.id>>]
<1>1. f \in [Claims -> Dates \X Ids] BY DEF Claims
<1>2. \A c, d \in Claims : f[c] = f[d] => c = d BY DEF Claims
<1>3. IsFiniteSet(Dates \X Ids) BY PagingAssumption, FS_Product
<1> HIDE DEF f
<1>4. f \in Injection(Claims, Dates \X Ids) BY <1>1, <1>2, Fun_IsInj
<1> QED BY <1>3, <1>4, FS_Injection

(* The order of the claims table is a strict total one. *)
LEMMA EarlierIsOrder ==
  /\ \A c, d \in Claims : Earlier(c, d) => ~ Earlier(d, c)
  /\ \A c, d, e \in Claims : Earlier(c, d) /\ Earlier(d, e) => Earlier(c, e)
  /\ \A c, d \in Claims : c = d \/ Earlier(c, d) \/ Earlier(d, c)
  /\ NoCursor \notin Claims
<1>1. \A c \in Claims : c.date \in Nat /\ c.id \in Nat /\ c.id # 0
  BY PagingAssumption DEF Claims
<1>2. \A c, d \in Claims : c.date = d.date /\ c.id = d.id => c = d
  BY DEF Claims
<1>3. NoCursor \notin Claims BY <1>1 DEF NoCursor
<1> QED BY <1>1, <1>2, <1>3 DEF Earlier

-----------------------------------------------------------------------------
EvaluationSet == UNION {{c} \X DOMAIN history[c] : c \in claims}

PagingType ==
  /\ claims \in SUBSET Claims
  /\ type \in [Claims -> Types \cup {Null}]
  /\ history \in [Claims -> Seq(Statuses)]
  /\ \A c \in Claims \ claims : history[c] = << >>
  /\ IsFiniteSet(EvaluationSet) /\ Cardinality(EvaluationSet) =< MaxEvaluations
  /\ pc \in {"start", "probe", "page", "more", "retry", "done", "failed"}
  /\ query \in Queries
  /\ cursor \in Claims \cup {NoCursor}
  /\ received \in Seq(Claims)
  /\ owed \in SUBSET claims

(* The invariant's types are those of TypeOK. *)
LEMMA PagingTypeImplies == PagingType => TypeOK
<1> SUFFICES ASSUME PagingType PROVE TypeOK
  OBVIOUS
<1>1. \A c \in Claims : ToSet(history[c]) \subseteq Statuses
  <2> SUFFICES ASSUME NEW c \in Claims PROVE ToSet(history[c]) \subseteq Statuses
    OBVIOUS
  <2>1. history[c] \in Seq(Statuses) BY DEF PagingType
  <2> QED BY <2>1 DEF ToSet
<1>2. ToSet(received) \subseteq Claims
  <2>1. received \in Seq(Claims) BY DEF PagingType
  <2> QED BY <2>1 DEF ToSet
<1> QED BY <1>1, <1>2 DEF PagingType, TypeOK, Evaluations, EvaluationSet

(* It holds at the start. *)
LEMMA PagingTypeInit == Init => PagingType
<1> SUFFICES ASSUME Init PROVE PagingType
  OBVIOUS
<1>1. \A c \in Claims : history[c] = << >> BY DEF Init
<1>2. claims \in SUBSET Claims BY DEF Init
<1>3. EvaluationSet = {}
  <2>1. \A c \in claims : DOMAIN history[c] = {} BY <1>1, <1>2
  <2> QED BY <2>1 DEF EvaluationSet
<1>4. IsFiniteSet(EvaluationSet) /\ Cardinality(EvaluationSet) = 0 BY <1>3, FS_EmptySet
<1>5. history \in [Claims -> Seq(Statuses)] BY DEF Init
<1>6. 0 =< MaxEvaluations BY PagingAssumption
<1> QED BY <1>1, <1>2, <1>4, <1>5, <1>6 DEF Init, PagingType

-----------------------------------------------------------------------------
(* The rows of a claim: one of each status that matches. *)

LEMMA JoinedProperties ==
  ASSUME history \in [Claims -> Seq(Statuses)], NEW c \in Claims
  PROVE  /\ JoinedStatuses(c) \in Seq(Statuses \cup {Null})
         /\ Len(JoinedStatuses(c)) \in Nat \ {0}
         /\ DOMAIN JoinedStatuses(c) = 1 .. Len(JoinedStatuses(c))
         /\ Len(JoinedStatuses(c)) = IF history[c] = << >> THEN 1 ELSE Len(history[c])
<1>1. history[c] \in Seq(Statuses) OBVIOUS
<1>2. CASE history[c] = << >>
  <2>1. JoinedStatuses(c) = <<Null>> BY <1>2 DEF JoinedStatuses
  <2> QED BY <2>1, <1>2
<1>3. CASE history[c] # << >>
  <2>1. JoinedStatuses(c) = history[c] BY <1>3 DEF JoinedStatuses
  <2>2. history[c] \in Seq(Statuses \cup {Null}) BY <1>1, SeqMonotonic
  <2>3. Len(history[c]) \in Nat \ {0} BY <1>1, <1>3, EmptySeq
  <2>4. DOMAIN history[c] = 1 .. Len(history[c]) BY <1>1
  <2> QED BY <2>1, <2>2, <2>3, <2>4, <1>3
<1> QED BY <1>2, <1>3

(* A claim has finitely many rows in the join. *)
LEMMA MatchingRowsFinite ==
  ASSUME history \in [Claims -> Seq(Statuses)], NEW c \in Claims, NEW f
  PROVE  IsFiniteSet(MatchingRows(c, f))
<1> DEFINE D == {m \in DOMAIN JoinedStatuses(c) : StatusMatches(JoinedStatuses(c)[m], f)}
           M == {[claim |-> c, n |-> n] : n \in D}
           g == [r \in M |-> r.n]
<1>1. IsFiniteSet(D)
  <2>1. IsFiniteSet(DOMAIN JoinedStatuses(c)) BY JoinedProperties, FS_Interval
  <2> QED BY <2>1, FS_Subset
<1>2. M = MatchingRows(c, f) BY DEF MatchingRows
<1> HIDE DEF D
<1>3. g \in [M -> D] OBVIOUS
<1>4. \A a, b \in M : g[a] = g[b] => a = b OBVIOUS
<1> HIDE DEF g, M
<1>5. g \in Injection(M, D) BY <1>3, <1>4, Fun_IsInj
<1> QED BY <1>1, <1>2, <1>5, FS_Injection

(* The claims a query asks for *)
HasStatus(c, sf) == \E m \in DOMAIN JoinedStatuses(c) : StatusMatches(JoinedStatuses(c)[m], sf)

Wanted(c, tf, sf, order, cur) ==
  TypeMatches(c, tf) /\ AfterCursor(c, order, cur) /\ HasStatus(c, sf)

(* What the query finds: a row of each matching claim and status. *)
LEMMA FoundRows ==
  ASSUME PagingType, NEW tf, NEW sf, NEW order, NEW cur
  PROVE  /\ IsFiniteSet(RowsFrom(tf, sf, order, cur))
         /\ \A r \in RowsFrom(tf, sf, order, cur) :
              /\ r.claim \in claims /\ TypeMatches(r.claim, tf) /\ AfterCursor(r.claim, order, cur)
              /\ r.n \in 1 .. Len(JoinedStatuses(r.claim))
              /\ StatusMatches(JoinedStatuses(r.claim)[r.n], sf)
              /\ r = [claim |-> r.claim, n |-> r.n]
<1> DEFINE C == {d \in claims : TypeMatches(d, tf) /\ AfterCursor(d, order, cur)}
<1>1. claims \in SUBSET Claims /\ history \in [Claims -> Seq(Statuses)] BY DEF PagingType
<1>2. IsFiniteSet(C)
  <2>1. IsFiniteSet(claims) BY <1>1, ClaimsFinite, FS_Subset
  <2> QED BY <2>1, FS_Subset
<1>3. \A c \in C : IsFiniteSet(MatchingRows(c, sf)) BY <1>1, MatchingRowsFinite
<1>4. RowsFrom(tf, sf, order, cur) = UNION {MatchingRows(c, sf) : c \in C}
  BY DEF RowsFrom
<1>5. IsFiniteSet(UNION {MatchingRows(c, sf) : c \in C})
  <2> DEFINE f == [c \in C |-> MatchingRows(c, sf)]
             I == {f[c] : c \in C}
  <2>1. IsFiniteSet(I)
    <3> HIDE DEF f, C
    <3> QED BY <1>2, ImageFinite
  <2>2. \A T \in I : IsFiniteSet(T) BY <1>3
  <2>3. {MatchingRows(c, sf) : c \in C} = I OBVIOUS
  <2> HIDE DEF I, f, C
  <2> QED BY <2>1, <2>2, <2>3, FS_UNION
<1>6. ASSUME NEW c \in C, NEW r \in MatchingRows(c, sf)
      PROVE  /\ r.claim = c /\ r.n \in 1 .. Len(JoinedStatuses(c))
             /\ StatusMatches(JoinedStatuses(c)[r.n], sf)
             /\ r = [claim |-> c, n |-> r.n]
  <2>1. DOMAIN JoinedStatuses(c) = 1 .. Len(JoinedStatuses(c)) BY <1>1, JoinedProperties
  <2> QED BY <2>1 DEF MatchingRows
<1>8. \A r \in UNION {MatchingRows(c, sf) : c \in C} : \E c \in C : r \in MatchingRows(c, sf)
  OBVIOUS
<1> QED BY <1>4, <1>5, <1>6, <1>8

(* A claim that is wanted after the cursor has a row there. *)
LEMMA WantedFound ==
  ASSUME PagingType, NEW tf, NEW sf, NEW order, NEW cur,
         NEW c \in claims, Wanted(c, tf, sf, order, cur)
  PROVE  \E r \in RowsFrom(tf, sf, order, cur) : r.claim = c
<1> DEFINE C == {d \in claims : TypeMatches(d, tf) /\ AfterCursor(d, order, cur)}
<1>1. PICK m \in DOMAIN JoinedStatuses(c) : StatusMatches(JoinedStatuses(c)[m], sf)
  BY DEF Wanted, HasStatus
<1>2. [claim |-> c, n |-> m] \in MatchingRows(c, sf) BY <1>1 DEF MatchingRows
<1>3. [claim |-> c, n |-> m].claim = c OBVIOUS
<1>4. c \in C BY DEF Wanted
<1>5. RowsFrom(tf, sf, order, cur) = UNION {MatchingRows(d, sf) : d \in C}
  BY DEF RowsFrom
<1> HIDE DEF C
<1> QED BY <1>2, <1>3, <1>4, <1>5

(* The order of two claims that the query asks for *)
Precedes(order, a, b) == IF order \in {"desc", "DESC"} THEN Earlier(b, a) ELSE Earlier(a, b)

(* The order of a query is a strict total one, whichever of the two it is. *)
LEMMA OrderByIsOrder ==
  ASSUME PagingType, NEW tf, NEW sf, NEW order, NEW cur
  PROVE  LET S == RowsFrom(tf, sf, order, cur) IN IsStrictTotalOrder(OrderBy(order, S), S)
<1> DEFINE S == RowsFrom(tf, sf, order, cur)
           R == OrderBy(order, S)
<1>1. \A r \in S : /\ r.claim \in Claims /\ r.n \in Nat
                   /\ r = [claim |-> r.claim, n |-> r.n]
  <2>1. \A c \in Claims : Len(JoinedStatuses(c)) \in Nat BY JoinedProperties DEF PagingType
  <2>2. claims \in SUBSET Claims BY DEF PagingType
  <2>3. \A r \in S : r.claim \in claims /\ r.n \in 1 .. Len(JoinedStatuses(r.claim))
                     /\ r = [claim |-> r.claim, n |-> r.n]
    BY FoundRows
  <2> HIDE DEF S
  <2> QED BY <2>1, <2>2, <2>3
<1>2. \A a, b \in S : <<a, b>> \in R <=> \/ Precedes(order, a.claim, b.claim)
                                         \/ a.claim = b.claim /\ a.n < b.n
  BY DEF OrderBy, RowBefore, Precedes
<1>3. /\ \A c, d \in Claims : Precedes(order, c, d) => ~ Precedes(order, d, c)
      /\ \A c, d, e \in Claims : Precedes(order, c, d) /\ Precedes(order, d, e) => Precedes(order, c, e)
      /\ \A c, d \in Claims : c = d \/ Precedes(order, c, d) \/ Precedes(order, d, c)
  BY EarlierIsOrder DEF Precedes
<1> HIDE DEF S, R
<1>4. \A a, b \in S : a.claim = b.claim /\ a.n = b.n => a = b
  BY <1>1
<1>5. \A x, y \in S : <<x, y>> \in R => <<y, x>> \notin R BY <1>1, <1>2, <1>3
<1>6. \A x, y, z \in S : <<x, y>> \in R /\ <<y, z>> \in R => <<x, z>> \in R 
  <2> SUFFICES ASSUME NEW x \in S, NEW y \in S, NEW z \in S, <<x, y>> \in R, <<y, z>> \in R
               PROVE <<x, z>> \in R
    OBVIOUS
  <2>1. /\ Precedes(order, x.claim, y.claim) \/ (x.claim = y.claim /\ x.n < y.n)
        /\ Precedes(order, y.claim, z.claim) \/ (y.claim = z.claim /\ y.n < z.n)
    BY <1>2
  <2>2. x.n \in Nat /\ y.n \in Nat /\ z.n \in Nat BY <1>1
  <2>3. Precedes(order, x.claim, z.claim) \/ (x.claim = z.claim /\ x.n < z.n)
    BY <2>1, <2>2, <1>1, <1>3
  <2> QED BY <2>3, <1>2
<1>7. \A x, y \in S : x = y \/ <<x, y>> \in R \/ <<y, x>> \in R
  <2> SUFFICES ASSUME NEW x \in S, NEW y \in S, x # y PROVE <<x, y>> \in R \/ <<y, x>> \in R
    OBVIOUS
  <2>1. x.n \in Nat /\ y.n \in Nat /\ (x.claim # y.claim \/ x.n # y.n) BY <1>1, <1>4
  <2> QED BY <2>1, <1>1, <1>2, <1>3
<1>8. IsStrictTotalOrder(R, S) BY <1>5, <1>6, <1>7 DEF IsStrictTotalOrder
<1> QED BY <1>8 DEF R, S

(***************************************************************************)
(* What a query lists: the claims that match, each in its place, and the   *)
(* rows of one claim next to each other, fewer than its evaluations apart. *)
(***************************************************************************)
LEMMA RowsListed ==
  ASSUME PagingType, NEW tf, NEW sf, NEW order, NEW cur
  PROVE  LET rows == Rows(tf, sf, order, cur)
         IN  /\ rows \in Seq(claims)
             /\ \A i \in 1 .. Len(rows) : Wanted(rows[i], tf, sf, order, cur)
             /\ \A c \in claims : Wanted(c, tf, sf, order, cur) =>
                                   \E i \in 1 .. Len(rows) : rows[i] = c
             /\ \A i, j \in 1 .. Len(rows) :
                  i < j => \/ Precedes(order, rows[i], rows[j])
                           \/ rows[i] = rows[j] /\ j - i < Len(history[rows[i]])
<1> DEFINE S == RowsFrom(tf, sf, order, cur)
           R == OrderBy(order, S)
           L == InOrder(S, R)
           N == Cardinality(S)
           rows == Rows(tf, sf, order, cur)
<1>0. \A c \in Claims : /\ Len(JoinedStatuses(c)) \in Nat \ {0}
                        /\ DOMAIN JoinedStatuses(c) = 1 .. Len(JoinedStatuses(c))
                        /\ Len(JoinedStatuses(c)) = IF history[c] = << >> THEN 1 ELSE Len(history[c])
  BY JoinedProperties DEF PagingType
<1>00. claims \in SUBSET Claims BY DEF PagingType
<1>1. IsFiniteSet(S) /\ IsStrictTotalOrder(R, S) BY FoundRows, OrderByIsOrder
<1>2. /\ N \in Nat /\ L \in [1 .. N -> S]
      /\ \A x \in S : \E i \in 1 .. N : L[i] = x
      /\ \A i, j \in 1 .. N : i < j <=> <<L[i], L[j]>> \in R
  <2> HIDE DEF S, R
  <2> QED BY <1>1, InOrderProperties
<1>3. rows = [i \in 1 .. N |-> L[i].claim]
  <2>1. DOMAIN L = 1 .. N BY <1>2
  <2> QED BY <2>1 DEF Rows
<1>4. \A r \in S : /\ r.claim \in claims /\ TypeMatches(r.claim, tf) /\ AfterCursor(r.claim, order, cur)
                   /\ r.n \in 1 .. Len(JoinedStatuses(r.claim))
                   /\ StatusMatches(JoinedStatuses(r.claim)[r.n], sf)
  BY FoundRows
<1>5. \A a, b \in S : <<a, b>> \in R <=> \/ Precedes(order, a.claim, b.claim)
                                         \/ a.claim = b.claim /\ a.n < b.n
  BY DEF OrderBy, RowBefore, Precedes
<1>6. \A c \in claims : Wanted(c, tf, sf, order, cur) => \E r \in S : r.claim = c
  BY WantedFound
<1> HIDE DEF S, R, L, N, rows
<1>7. rows \in Seq(claims) /\ Len(rows) = N /\ \A i \in 1 .. N : rows[i] = L[i].claim
  <2>1. \A i \in 1 .. N : L[i] \in S BY <1>2
  <2>2. rows \in [1 .. N -> claims] BY <2>1, <1>3, <1>4
  <2> QED BY <2>2, <1>2, <1>3, SeqDef
<1>8. \A i \in 1 .. N : L[i] \in S BY <1>2
<1>9. ASSUME NEW i \in 1 .. N PROVE Wanted(rows[i], tf, sf, order, cur)
  <2>1. rows[i] = L[i].claim /\ L[i] \in S BY <1>7, <1>8
  <2>2. L[i].n \in DOMAIN JoinedStatuses(L[i].claim) BY <2>1, <1>0, <1>00, <1>4
  <2> QED BY <2>1, <2>2, <1>4 DEF Wanted, HasStatus
<1>10. ASSUME NEW c \in claims, Wanted(c, tf, sf, order, cur)
       PROVE  \E i \in 1 .. N : rows[i] = c
  <2>1. PICK r \in S : r.claim = c BY <1>6, <1>10
  <2>2. PICK i \in 1 .. N : L[i] = r BY <1>2
  <2> QED BY <2>1, <2>2, <1>7
<1>11. ASSUME NEW i \in 1 .. N, NEW j \in 1 .. N, i < j,
              ~ Precedes(order, L[i].claim, L[j].claim)
       PROVE  L[i].claim = L[j].claim /\ j - i < Len(history[L[i].claim])
  <2> DEFINE c == L[i].claim
  <2>1. \A x, y \in 1 .. N : x < y => Precedes(order, L[x].claim, L[y].claim)
                                       \/ (L[x].claim = L[y].claim /\ L[x].n < L[y].n)
    BY <1>2, <1>5, <1>8
  <2>2. L[j].claim = c BY <2>1, <1>11
  <2>3. \A k \in 1 .. N : L[k].claim \in Claims /\ L[k].n \in 1 .. Len(JoinedStatuses(L[k].claim))
    BY <1>8, <1>4, <1>00
  <2>4. \A k \in i .. j : L[k].claim = c
    <3> SUFFICES ASSUME NEW k \in i .. j, k # i, k # j PROVE L[k].claim = c
      BY <2>2
    <3>1. k \in 1 .. N /\ i < k /\ k < j BY <1>2
    <3>2. \/ Precedes(order, c, L[k].claim) /\ Precedes(order, L[k].claim, c)
          \/ L[k].claim = c
      BY <3>1, <2>1, <2>2
    <3>3. c \in Claims /\ L[k].claim \in Claims BY <3>1, <2>3
    <3> QED BY <3>2, <3>3, EarlierIsOrder DEF Precedes
  <2> HIDE DEF c
  <2>5. \A k \in i .. j : L[k].n \in 1 .. Len(JoinedStatuses(c)) /\ k \in 1 .. N
    <3> SUFFICES ASSUME NEW k \in i .. j
                 PROVE  L[k].n \in 1 .. Len(JoinedStatuses(c)) /\ k \in 1 .. N
      OBVIOUS
    <3>1. k \in 1 .. N BY <1>2
    <3> QED BY <3>1, <2>3, <2>4
  <2>6. \A x, y \in i .. j : x < y => L[x].n < L[y].n
    <3> SUFFICES ASSUME NEW x \in i .. j, NEW y \in i .. j, x < y PROVE L[x].n < L[y].n
      OBVIOUS
    <3>1. Precedes(order, c, c) \/ L[x].n < L[y].n BY <2>1, <2>4, <2>5
    <3>2. c \in Claims BY <2>3 DEF c
    <3> QED BY <3>1, <3>2, EarlierIsOrder DEF Precedes
  <2> DEFINE P == {d \in Nat : i + d =< j => L[i].n + d =< L[i + d].n}
  <2>7. Nat \subseteq P
    <3>0. i \in Int /\ j \in Int /\ c \in Claims BY <1>2, <2>3 DEF c
    <3>00. Len(JoinedStatuses(c)) \in Nat BY <3>0, <1>0
    <3>1. 0 \in P
      <4>1. L[i].n \in Int /\ i + 0 = i BY <3>0, <3>00, <2>5, <1>11
      <4> QED BY <4>1
    <3>2. ASSUME NEW d \in Nat, d \in P PROVE d + 1 \in P
      <4> SUFFICES ASSUME i + (d + 1) =< j PROVE L[i].n + (d + 1) =< L[i + (d + 1)].n
        OBVIOUS
      <4>1. /\ i \in i .. j /\ i + d \in i .. j /\ i + (d + 1) \in i .. j 
            /\ i + d =< j /\ i + d < i + (d + 1)
        BY <3>0, <1>11
      <4>2. L[i].n \in Int /\ L[i + d].n \in Int /\ L[i + (d + 1)].n \in Int
        BY <4>1, <3>00, <2>5
      <4>3. L[i].n + d =< L[i + d].n BY <3>2, <4>1
      <4>4. L[i + d].n < L[i + (d + 1)].n BY <4>1, <2>6
      <4> QED BY <4>2, <4>3, <4>4
    <3> HIDE DEF P
    <3> QED BY <3>1, <3>2, NatInductionOnSet
  <2>8. c \in Claims BY <2>3 DEF c
  <2>9. L[i].n + (j - i) =< L[j].n
    <3>1. j - i \in Nat /\ i + (j - i) = j BY <1>2, <1>11
    <3> QED BY <3>1, <2>7
  <2>10. j - i < Len(JoinedStatuses(c)) /\ Len(JoinedStatuses(c)) # 1
    <3>1. i \in i .. j /\ j \in i .. j /\ j - i \in Nat /\ j - i > 0 BY <1>2, <1>11
    <3>2. L[i].n \in 1 .. Len(JoinedStatuses(c)) /\ L[j].n \in 1 .. Len(JoinedStatuses(c))
      BY <3>1, <2>5
    <3>3. Len(JoinedStatuses(c)) \in Nat BY <2>8, <1>0
    <3> DEFINE a == L[i].n
               b == L[j].n
               n == Len(JoinedStatuses(c))
    <3>4. a \in 1 .. n /\ b \in 1 .. n /\ n \in Nat /\ a + (j - i) =< b BY <3>2, <3>3, <2>9
    <3> HIDE DEF a, b, n
    <3>5. j - i < n /\ n # 1 BY <3>1, <3>4
    <3> QED BY <3>5 DEF n
  <2>11. Len(JoinedStatuses(c)) = Len(history[c]) BY <2>8, <2>10, <1>0
  <2> QED BY <2>2, <2>10, <2>11 DEF c
<1>12. ASSUME NEW i \in 1 .. N, NEW j \in 1 .. N, i < j
       PROVE  \/ Precedes(order, rows[i], rows[j])
              \/ rows[i] = rows[j] /\ j - i < Len(history[rows[i]])
  <2>1. rows[i] = L[i].claim /\ rows[j] = L[j].claim BY <1>7
  <2> QED BY <2>1, <1>11, <1>12
<1> QED BY <1>7, <1>9, <1>10, <1>12 DEF rows

-----------------------------------------------------------------------------
(***************************************************************************)
(* What a page does: it ends the paging when nothing is left, fails, or    *)
(* hands over the first k of the rows that are left, with a next page when *)
(* these are not all of them.                                              *)
(***************************************************************************)
(* A page ends the listing, fails, or appends the first rows that are left
   and puts the cursor on the last of them. *)
LEMMA PageHandsOver ==
  ASSUME PagingType, Page
  PROVE  \/ Left = << >> /\ pc' = "done" /\ cursor' = cursor /\ received' = received
         \/ Left # << >> /\ pc' = "failed" /\ cursor' = cursor /\ received' = received
         \/ \E k \in 1 .. Len(Left) :
              /\ pc' \in {"more", "done"}
              /\ query.take # NotANumber => (pc' = "more" <=> k < Len(Left))
              /\ cursor' = Left[k]
              /\ received' = received \o SubSeq(Left, 1, k)
<1> DEFINE rows == Limited(Left, Limit)
           n == IF Limit < Len(Left) THEN Limit ELSE Len(Left)
           data == IF HasNextPage(rows) THEN Front(rows) ELSE rows
<1>1. Left \in Seq(claims) /\ Len(Left) \in Nat /\ DOMAIN Left = 1 .. Len(Left)
  <2>1. Left \in Seq(claims) BY RowsListed DEF Left
  <2> QED BY <2>1, LenProperties
<1>2. query.take \in Nat \cup {-1, NotANumber} BY PagingAssumption DEF PagingType, Queries
<1>3. /\ Limit \in Nat \ {0}
      /\ query.take \notin {NotANumber, -1} => Limit = query.take + 1
  BY <1>2, PagingAssumption DEF Limit
<1>4. n \in 0 .. Len(Left) /\ (n = 0 <=> Len(Left) = 0) BY <1>1, <1>3
<1>5. rows = SubSeq(Left, 1, n) BY DEF Limited
<1>6. Left = << >> <=> Len(Left) = 0 BY <1>1, EmptySeq
<1> HIDE DEF rows, n
<1>7. ASSUME NEW m \in 0 .. Len(Left)
      PROVE  /\ SubSeq(Left, 1, m) \in Seq(claims) /\ Len(SubSeq(Left, 1, m)) = m
             /\ \A i \in 1 .. m : SubSeq(Left, 1, m)[i] = Left[i]
  <2>1. \A i \in 1 .. m : Left[i] \in claims BY <1>1
  <2>2. 1 \in Int /\ m \in Int BY <1>1
  <2>3. /\ SubSeq(Left, 1, m) \in Seq(claims)
        /\ Len(SubSeq(Left, 1, m)) = IF 1 <= m THEN m - 1 + 1 ELSE 0
        /\ \A i \in 1 .. m - 1 + 1 : SubSeq(Left, 1, m)[i] = Left[1 + i - 1]
    BY <2>1, <2>2, SubSeqProperties
  <2> QED BY <2>3, <1>1
<1>8. Len(rows) = n /\ rows \in Seq(claims) /\ (rows = << >> <=> n = 0)
  <2>1. Len(rows) = n /\ rows \in Seq(claims) BY <1>4, <1>5, <1>7
  <2> QED BY <2>1, EmptySeq
<1>9. IF rows # << >> /\ data # << >>
      THEN /\ pc' = IF HasNextPage(rows) THEN "more" ELSE "done"
           /\ cursor' = Last(data)
           /\ received' = received \o data
      ELSE /\ pc' = IF rows = << >> THEN "done" ELSE "failed"
           /\ cursor' = cursor /\ received' = received
  BY DEF Page, rows
<1>10. HasNextPage(rows) <=> query.take # NotANumber /\ n > query.take
  BY <1>8 DEF HasNextPage
<1>11. CASE rows = << >>
  BY <1>11, <1>9, <1>8, <1>4, <1>6
<1>12. CASE rows # << >> /\ data = << >>
  BY <1>12, <1>9, <1>8, <1>4, <1>6
<1>13. CASE rows # << >> /\ data # << >>
  <2> DEFINE k == IF HasNextPage(rows) THEN n - 1 ELSE n
  <2>1. n \in 1 .. Len(Left) /\ k \in 0 .. Len(Left) BY <1>13, <1>8, <1>4, <1>1
  <2>2. data = SubSeq(Left, 1, k)
    <3>1. CASE ~ HasNextPage(rows) BY <3>1, <1>5
    <3>2. CASE HasNextPage(rows)
      <4>1. data = SubSeq(rows, 1, n - 1) BY <3>2, <1>8 DEF Front
      <4>2. n - 1 \in 0 .. Len(Left) BY <2>1
      <4>3. \A i \in 1 .. n - 1 : rows[i] = Left[i]
        <5>1. \A i \in 1 .. n : rows[i] = Left[i] BY <1>4, <1>5, <1>7
        <5> QED BY <5>1, <2>1
      <4>4. \A i \in 1 .. n - 1 : rows[i] \in claims BY <4>3, <2>1, <1>1
      <4>5. /\ SubSeq(rows, 1, n - 1) \in Seq(claims)
            /\ Len(SubSeq(rows, 1, n - 1)) = IF 1 <= n - 1 THEN n - 1 - 1 + 1 ELSE 0
            /\ \A i \in 1 .. n - 1 - 1 + 1 : SubSeq(rows, 1, n - 1)[i] = rows[1 + i - 1]
        <5>1. 1 \in Int /\ n - 1 \in Int BY <2>1
        <5> QED BY <4>4, <5>1, SubSeqProperties
      <4>6. /\ SubSeq(Left, 1, n - 1) \in Seq(claims) /\ Len(SubSeq(Left, 1, n - 1)) = n - 1
            /\ \A i \in 1 .. n - 1 : SubSeq(Left, 1, n - 1)[i] = Left[i]
        BY <4>2, <1>7
      <4>7. SubSeq(rows, 1, n - 1) = SubSeq(Left, 1, n - 1)
        <5> DEFINE s == SubSeq(rows, 1, n - 1)
                   t == SubSeq(Left, 1, n - 1)
        <5>1. s \in Seq(claims) /\ t \in Seq(claims) /\ Len(s) = Len(t) /\ Len(t) = n - 1
          BY <4>5, <4>6, <2>1
        <5>2. \A i \in 1 .. n - 1 : s[i] = t[i] BY <4>3, <4>5, <4>6, <2>1
        <5> HIDE DEF s, t
        <5>3. s = t BY <5>1, <5>2, SeqEqual
        <5> QED BY <5>3 DEF s, t
      <4> QED BY <4>1, <4>7, <3>2
    <3> QED BY <3>1, <3>2
  <2>3. data \in Seq(claims) /\ Len(data) = k /\ \A i \in 1 .. k : data[i] = Left[i]
    BY <2>1, <2>2, <1>7
  <2>4. k \in 1 .. Len(Left) BY <2>1, <2>3, <1>13, EmptySeq
  <2>5. query.take # NotANumber => (HasNextPage(rows) <=> k < Len(Left))
    <3> SUFFICES ASSUME query.take # NotANumber PROVE HasNextPage(rows) <=> k < Len(Left)
      OBVIOUS
    <3>1. CASE query.take = -1
      BY <3>1, <1>10, <2>1, <1>1
    <3>2. CASE query.take # -1
      <4>1. query.take \in Nat /\ Limit = query.take + 1 BY <3>2, <1>2, <1>3
      <4>2. n = IF Limit < Len(Left) THEN Limit ELSE Len(Left) BY DEF n
      <4>3. CASE HasNextPage(rows)
        <5>1. k = n - 1 BY <4>3
        <5> QED BY <4>3, <5>1, <2>1, <1>1
      <4>4. CASE ~ HasNextPage(rows)
        <5>1. k = n BY <4>4
        <5>2. n =< query.take BY <4>4, <4>1, <1>10, <2>1, <1>1
        <5>3. Limit # n
          <6> DEFINE t == query.take
          <6>1. t \in Nat /\ Limit = t + 1 /\ n =< t BY <4>1, <5>2
          <6>2. n \in Nat BY <2>1, <1>1
          <6> HIDE DEF t
          <6> QED BY <6>1, <6>2
        <5>4. n = Len(Left) BY <4>2, <5>3
        <5>5. ~ (k < Len(Left)) BY <5>1, <5>4, <1>1
        <5> QED BY <4>4, <5>5
      <4> QED BY <4>3, <4>4
    <3> QED BY <3>1, <3>2
  <2>6. Last(data) = Left[k] BY <2>3, <2>4 DEF Last
  <2>7. /\ pc' = IF HasNextPage(rows) THEN "more" ELSE "done"
        /\ cursor' = Last(data) /\ received' = received \o data
    BY <1>9, <1>13
  <2> HIDE DEF k, data
  <2> QED BY <2>2, <2>4, <2>5, <2>6, <2>7
<1> QED BY <1>11, <1>12, <1>13

-----------------------------------------------------------------------------
(* Every step keeps the types. *)

LEMMA SubmitClaimsType == PagingType /\ SubmitClaims => PagingType'
<1> SUFFICES ASSUME PagingType, SubmitClaims PROVE PagingType'
  OBVIOUS
<1>1. PICK d \in Dates, ids \in SUBSET Ids :
        /\ \A c \in claims : c.date < d
        /\ claims' = claims \cup {[date |-> d, id |-> i] : i \in ids}
  BY DEF SubmitClaims
<1>2. UNCHANGED <<type, history, pc, query, cursor, received, owed>>
  BY DEF SubmitClaims, clientVars
<1>3. claims' \in SUBSET Claims /\ claims \subseteq claims'
  BY <1>1 DEF Claims, PagingType
<1>4. EvaluationSet' = EvaluationSet
  <2>1. \A c \in claims' \ claims : DOMAIN history[c] = {}
    BY <1>3 DEF PagingType
  <2>2. EvaluationSet' = UNION {{c} \X DOMAIN history[c] : c \in claims'}
    BY <1>2 DEF EvaluationSet
  <2> QED BY <2>1, <2>2, <1>3 DEF EvaluationSet
<1>5. owed' \in SUBSET claims' BY <1>2, <1>3 DEF PagingType
<1> QED BY <1>2, <1>3, <1>4, <1>5 DEF PagingType

(* The types survive an evaluation. *)
LEMMA EvaluateType ==
  ASSUME NEW c \in Claims, NEW s \in Statuses, PagingType, Evaluate(c, s)
  PROVE  PagingType'
<1> DEFINE n == Len(history[c])
<1>1. /\ c \in claims /\ Evaluations < MaxEvaluations
      /\ history' = [history EXCEPT ![c] = Append(history[c], s)]
      /\ UNCHANGED <<claims, type, pc, query, cursor, received>>
      /\ owed' \subseteq owed
  BY DEF Evaluate
<1>2. history[c] \in Seq(Statuses) BY DEF PagingType
<1>3. history' \in [Claims -> Seq(Statuses)] BY <1>1, <1>2 DEF PagingType
<1>4. \A d \in Claims \ claims' : history'[d] = << >> BY <1>1 DEF PagingType
<1>5. EvaluationSet' = EvaluationSet \cup {<<c, n + 1>>}
  <2>1. DOMAIN history'[c] = DOMAIN history[c] \cup {n + 1} BY <1>1, <1>2 DEF PagingType
  <2>2. \A d \in claims \ {c} : history'[d] = history[d] BY <1>1 DEF PagingType
  <2>3. EvaluationSet' = UNION {{d} \X DOMAIN history'[d] : d \in claims}
    BY <1>1 DEF EvaluationSet
  <2> HIDE DEF n
  <2> QED BY <2>1, <2>2, <2>3, <1>1 DEF EvaluationSet
<1>6. IsFiniteSet(EvaluationSet') /\ Cardinality(EvaluationSet') =< MaxEvaluations
  <2>1. IsFiniteSet(EvaluationSet) /\ Cardinality(EvaluationSet) < MaxEvaluations
    BY <1>1 DEF PagingType, Evaluations, EvaluationSet
  <2>2. <<c, n + 1>> \notin EvaluationSet BY <1>2 DEF EvaluationSet
  <2>3. Cardinality(EvaluationSet) \in Nat BY <2>1, FS_CardinalityType
  <2>4. /\ IsFiniteSet(EvaluationSet \cup {<<c, n + 1>>})
        /\ Cardinality(EvaluationSet \cup {<<c, n + 1>>}) = Cardinality(EvaluationSet) + 1
    BY <2>1, <2>2, FS_AddElement
  <2> QED BY <2>1, <2>3, <2>4, <1>5, PagingAssumption
<1> QED BY <1>1, <1>3, <1>4, <1>6 DEF PagingType

(* They survive the steps that touch no page. *)
LEMMA OthersType ==
  ASSUME PagingType, (\E c \in Claims, t \in Types : LoadType(c, t)) \/ Request \/ Probe \/ UNCHANGED vars
  PROVE  PagingType'
<1>1. CASE \E c \in Claims, t \in Types : LoadType(c, t)
  <2>1. PICK c \in Claims, t \in Types : LoadType(c, t) BY <1>1
  <2>2. /\ type' \in [Claims -> Types \cup {Null}] /\ owed' \in SUBSET claims
        /\ UNCHANGED <<claims, history, pc, query, cursor, received>>
    BY <2>1 DEF LoadType, PagingType
  <2> QED BY <2>2 DEF PagingType, EvaluationSet
<1>2. CASE Request
  BY <1>2 DEF Request, PagingType, EvaluationSet, indexerVars
<1>3. CASE Probe
  BY <1>3 DEF Probe, PagingType, EvaluationSet, indexerVars
<1>4. CASE UNCHANGED vars
  BY <1>4 DEF PagingType, EvaluationSet, vars, indexerVars, clientVars
<1> QED BY <1>1, <1>2, <1>3, <1>4

(* They survive a page. *)
LEMMA PageType == PagingType /\ Page => PagingType'
<1> SUFFICES ASSUME PagingType, Page PROVE PagingType'
  OBVIOUS
<1>1. UNCHANGED <<claims, type, history, query, owed>> BY DEF Page, indexerVars
<1>2. pc' \in {"more", "done", "failed"} /\ cursor' \in Claims \cup {NoCursor} /\ received' \in Seq(Claims)
  <2>1. Left \in Seq(Claims)
    <3>1. Left \in Seq(claims) BY RowsListed DEF Left
    <3> QED BY <3>1, SeqMonotonic DEF PagingType
  <2>2. received \in Seq(Claims) /\ cursor \in Claims \cup {NoCursor} BY DEF PagingType
  <2>3. ASSUME NEW k \in 1 .. Len(Left)
        PROVE  Left[k] \in Claims /\ received \o SubSeq(Left, 1, k) \in Seq(Claims)
    <3>1. SubSeq(Left, 1, k) \in Seq(Claims) BY <2>1
    <3> QED BY <2>1, <2>2, <3>1, ConcatProperties
  <2> HIDE DEF Left
  <2> QED BY <2>2, <2>3, PageHandsOver
<1> QED BY <1>1, <1>2 DEF PagingType, EvaluationSet

(* They survive every step. *)
LEMMA PagingTypeStep == PagingType /\ [Next]_vars => PagingType'
BY SubmitClaimsType, EvaluateType, OthersType, PageType DEF Next, Client, Finished

(***************************************************************************)
(* TypeOK holds for any claims, filters, page sizes and bounds: the pages  *)
(* hold claims, the cursor is one or none, and evaluations stay below the  *)
(* bound.                                                                  *)
(***************************************************************************)
THEOREM PagingTypeCorrect == Spec => []TypeOK
<1>1. Spec => []PagingType
  BY PagingTypeInit, PagingTypeStep, PTL DEF Spec
<1> QED BY <1>1, PagingTypeImplies, PTL

-----------------------------------------------------------------------------
(***************************************************************************)
(* The inductive invariant, for the two orders of the signature: the pages *)
(* so far are in order; the cursor is their last claim; and a claim the    *)
(* client is owed still matches, and is in the pages or after the cursor.  *)
(* Between the probe and the page its type is loaded, because the probe    *)
(* found no claim without a type and no type is ever taken back.           *)
(***************************************************************************)
Ordered(s, order, h) ==
  \A i, j \in 1 .. Len(s) :
    i < j => Precedes(order, s[i], s[j]) \/ (s[i] = s[j] /\ j - i < Len(h[s[i]]))

CursorIsLast ==
  /\ received = << >> <=> cursor = NoCursor
  /\ received # << >> => cursor = received[Len(received)]

OwedAhead ==
  \A c \in owed : MayMatch(c) /\ (c \in ToSet(received) \/ AfterCursor(c, query.order, cursor))

OwedLoaded ==
  pc = "page" /\ query.type # NoFilter => \A c \in owed : type[c] = query.type

PagingInv ==
  OrderInSignature =>
    /\ Ordered(received, query.order, history)
    /\ CursorIsLast
    /\ pc = "start" => received = << >> /\ owed = {}
    /\ OwedAhead
    /\ OwedLoaded
    /\ pc = "done" /\ query.take # NotANumber => owed \subseteq ToSet(received)

(* The invariant says that pages are in order and that nothing is skipped. *)
LEMMA PagingInvImplies == PagingType /\ PagingInv => PagesInOrder /\ NothingSkipped
<1> SUFFICES ASSUME PagingType, PagingInv PROVE PagesInOrder /\ NothingSkipped
  OBVIOUS
<1>1. DOMAIN received = 1 .. Len(received) BY DEF PagingType
<1>2. OrderInSignature => \A a, b \in Claims :
        Precedes(query.order, a, b) => IF query.order = "desc" THEN Earlier(b, a) ELSE Earlier(a, b)
  BY DEF OrderInSignature, Precedes
<1>3. \A i \in 1 .. Len(received) : received[i] \in Claims BY DEF PagingType
<1>4. PagesInOrder BY <1>1, <1>2, <1>3 DEF PagesInOrder, PagingInv, Ordered
<1> QED BY <1>4 DEF PagingInv, NothingSkipped

(* It holds at the start, when no page has been handed over. *)
LEMMA PagingInvInit == Init => PagingInv
BY DEF Init, PagingInv, Ordered, CursorIsLast, OwedAhead, OwedLoaded

(* Precedes orders claims strictly, and coming after the cursor is coming
   after its claim. *)
LEMMA PrecedesIsOrder ==
  ASSUME NEW order
  PROVE  /\ \A c, d \in Claims : Precedes(order, c, d) => ~ Precedes(order, d, c)
         /\ \A c, d, e \in Claims : Precedes(order, c, d) /\ Precedes(order, d, e) => Precedes(order, c, e)
         /\ order \in {"asc", "desc"} =>
              \A c \in Claims : \A d \in Claims \cup {NoCursor} :
                AfterCursor(c, order, d) <=> d = NoCursor \/ Precedes(order, d, c)
<1>1. NoCursor \notin Claims BY EarlierIsOrder
<1> QED BY <1>1, EarlierIsOrder DEF Precedes, AfterCursor

(* New claims come after those there are. *)
LEMMA SubmitClaimsInv == PagingType /\ PagingInv /\ SubmitClaims => PagingInv'
BY DEF SubmitClaims, clientVars, PagingInv, Ordered, CursorIsLast, OwedAhead, OwedLoaded,
       OrderInSignature, MayMatch, JoinedStatuses

(* A stutter keeps the invariant. *)
LEMMA IdleInv == PagingInv /\ UNCHANGED vars => PagingInv'
BY DEF vars, indexerVars, clientVars, PagingInv, Ordered, CursorIsLast, OwedAhead, OwedLoaded,
       OrderInSignature, MayMatch, JoinedStatuses

(* An evaluation moves no claim: where the claim stands is not up to its
   evaluations once the order is in the signature. *)
LEMMA EvaluateInv ==
  ASSUME NEW c \in Claims, NEW s \in Statuses, PagingType, PagingInv, Evaluate(c, s)
  PROVE  PagingInv'
<1> SUFFICES ASSUME OrderInSignature' PROVE PagingInv' BY DEF PagingInv
<1>1. /\ history' = [history EXCEPT ![c] = Append(history[c], s)]
      /\ UNCHANGED <<claims, type, pc, query, cursor, received>>
      /\ owed' = {d \in owed : MayMatch(d)'}
  BY DEF Evaluate
<1>2. OrderInSignature BY <1>1 DEF OrderInSignature
<1>3. \A d \in Claims : /\ Len(history[d]) \in Nat /\ Len(history'[d]) \in Nat
                        /\ Len(history[d]) =< Len(history'[d])
  <2> SUFFICES ASSUME NEW d \in Claims
               PROVE  /\ Len(history[d]) \in Nat /\ Len(history'[d]) \in Nat
                      /\ Len(history[d]) =< Len(history'[d])
    OBVIOUS
  <2>1. history[d] \in Seq(Statuses) /\ history[c] \in Seq(Statuses) BY DEF PagingType
  <2>2. history'[d] = IF d = c THEN Append(history[c], s) ELSE history[d]
    BY <1>1 DEF PagingType
  <2> QED BY <2>1, <2>2
<1>4. Ordered(received, query.order, history')
  <2>1. \A i \in 1 .. Len(received) : received[i] \in Claims BY DEF PagingType
  <2>2. Len(received) \in Nat BY DEF PagingType
  <2>3. Ordered(received, query.order, history) BY <1>2 DEF PagingInv
  <2> SUFFICES ASSUME NEW i \in 1 .. Len(received), NEW j \in 1 .. Len(received), i < j,
                      received[i] = received[j], j - i < Len(history[received[i]])
               PROVE  j - i < Len(history'[received[i]])
    BY <2>3 DEF Ordered
  <2> QED BY <2>1, <2>2, <1>3
<1>5. Ordered(received, query.order, history)' BY <1>1, <1>4
<1>6. OwedAhead' BY <1>1, <1>2 DEF OwedAhead, PagingInv
<1>7. CursorIsLast' BY <1>1, <1>2 DEF CursorIsLast, PagingInv
<1>8. OwedLoaded' BY <1>1, <1>2 DEF OwedLoaded, PagingInv
<1>9. owed' \subseteq owed BY <1>1
<1> QED BY <1>1, <1>2, <1>5, <1>6, <1>7, <1>8, <1>9 DEF PagingInv

(* The loaded types do not change where the listing stands. *)
LEMMA LoadTypeInv ==
  ASSUME NEW c \in Claims, NEW t \in Types, PagingType, PagingInv, LoadType(c, t)
  PROVE  PagingInv'
<1> SUFFICES ASSUME OrderInSignature' PROVE PagingInv' BY DEF PagingInv
<1>1. /\ type[c] = Null /\ type' = [type EXCEPT ![c] = t]
      /\ UNCHANGED <<claims, history, pc, query, cursor, received>>
      /\ owed' = {d \in owed : MayMatch(d)'}
  BY DEF LoadType
<1>2. OrderInSignature BY <1>1 DEF OrderInSignature
<1>3. Ordered(received, query.order, history)' BY <1>1, <1>2 DEF PagingInv, Ordered
<1>4. OwedAhead' BY <1>1, <1>2 DEF OwedAhead, PagingInv
<1>5. CursorIsLast' BY <1>1, <1>2 DEF CursorIsLast, PagingInv
<1>6. OwedLoaded'
  <2> SUFFICES ASSUME pc = "page", query.type # NoFilter, NEW d \in owed PROVE type'[d] = query.type
    BY <1>1 DEF OwedLoaded
  <2>1. type[d] = query.type /\ d \in Claims
    BY <1>2 DEF OwedLoaded, PagingInv, PagingType
  <2>2. query.type # Null BY PagingAssumption DEF PagingType, Queries
  <2> QED BY <2>1, <2>2, <1>1 DEF PagingType
<1>7. owed' \subseteq owed BY <1>1
<1> QED BY <1>1, <1>2, <1>3, <1>4, <1>5, <1>6, <1>7 DEF PagingInv

(* A new listing starts with nothing handed over. *)
LEMMA RequestInv == PagingType /\ PagingInv /\ Request => PagingInv'
<1> SUFFICES ASSUME PagingType, PagingInv, Request, OrderInSignature' PROVE PagingInv'
  BY DEF PagingInv
<1>1. /\ UNCHANGED <<claims, type, history, query, cursor, received>> /\ pc' = "probe"
      /\ owed' = IF pc = "start" THEN {c \in claims : MayMatch(c)} ELSE owed
  BY DEF Request, indexerVars
<1>2. OrderInSignature BY <1>1 DEF OrderInSignature
<1>3. OwedAhead'
  <2>1. CASE pc = "start"
    <3>1. cursor = NoCursor BY <2>1, <1>2 DEF PagingInv, CursorIsLast
    <3> QED BY <3>1, <2>1, <1>1 DEF OwedAhead, AfterCursor, MayMatch, JoinedStatuses
  <2>2. CASE pc # "start"
    BY <2>2, <1>1, <1>2 DEF PagingInv, OwedAhead, MayMatch, JoinedStatuses
  <2> QED BY <2>1, <2>2
<1> QED BY <1>1, <1>2, <1>3 DEF PagingInv, Ordered, CursorIsLast, OwedLoaded

(* A probe for a further page leaves the listing where it is. *)
LEMMA ProbeInv == PagingType /\ PagingInv /\ Probe => PagingInv'
<1> SUFFICES ASSUME PagingType, PagingInv, Probe, OrderInSignature' PROVE PagingInv'
  BY DEF PagingInv
<1>1. /\ UNCHANGED <<claims, type, history, query, cursor, received, owed>>
      /\ pc' = IF ProbeRows # {} /\ query.type # NoFilter THEN "retry" ELSE "page"
  BY DEF Probe, indexerVars
<1>2. OrderInSignature BY <1>1 DEF OrderInSignature
<1>3. OwedLoaded'
  <2> SUFFICES ASSUME pc' = "page", query.type # NoFilter, NEW c \in owed PROVE type[c] = query.type
    BY <1>1 DEF OwedLoaded
  <2>1. MayMatch(c) /\ c \in claims BY <1>2 DEF PagingInv, OwedAhead, PagingType
  <2>2. ProbeRows = {} BY <1>1
  <2> QED BY <2>1, <2>2 DEF MayMatch, ProbeRows
<1>4. OwedAhead' BY <1>1, <1>2 DEF PagingInv, OwedAhead, MayMatch, JoinedStatuses
<1> QED BY <1>1, <1>2, <1>3, <1>4 DEF PagingInv, Ordered, CursorIsLast

(* A claim the client is owed, and has not been given, is among the rows left. *)
LEMMA OwedIsLeft ==
  ASSUME PagingType, PagingInv, OrderInSignature, pc = "page",
         NEW c \in owed, c \notin ToSet(received)
  PROVE  \E i \in 1 .. Len(Left) : Left[i] = c
<1>1. MayMatch(c) /\ AfterCursor(c, query.order, cursor) /\ c \in claims
  BY DEF PagingInv, OwedAhead, PagingType
<1>2. TypeMatches(c, query.type) BY DEF PagingInv, OwedLoaded, TypeMatches
<1>3. HasStatus(c, query.status) BY <1>1 DEF MayMatch, HasStatus
<1>4. Wanted(c, query.type, query.status, query.order, cursor)
  BY <1>1, <1>2, <1>3 DEF Wanted
<1> QED BY <1>1, <1>4, RowsListed DEF Left

(* A page appends the rows after the cursor and moves the cursor to the
   last of them. *)
LEMMA PageInv == PagingType /\ PagingInv /\ Page => PagingInv'
<1> SUFFICES ASSUME PagingType, PagingInv, Page, OrderInSignature' PROVE PagingInv'
  BY DEF PagingInv
<1>1. UNCHANGED <<claims, type, history, query, owed>> /\ pc = "page" BY DEF Page, indexerVars
<1>2. OrderInSignature /\ query.order \in {"asc", "desc"} BY <1>1 DEF OrderInSignature
<1>3. pc' \notin {"start", "page"} BY PageHandsOver
<1>4. \A c \in owed : c \notin ToSet(received) => \E i \in 1 .. Len(Left) : Left[i] = c
  BY <1>1, <1>2, OwedIsLeft
<1>5. /\ Left \in Seq(claims) /\ Len(Left) \in Nat
      /\ \A i \in 1 .. Len(Left) : Left[i] \in Claims /\ AfterCursor(Left[i], query.order, cursor)
      /\ Ordered(Left, query.order, history)
  <2>1. /\ Left \in Seq(claims)
        /\ \A i \in 1 .. Len(Left) : Wanted(Left[i], query.type, query.status, query.order, cursor)
        /\ \A i, j \in 1 .. Len(Left) :
             i < j => \/ Precedes(query.order, Left[i], Left[j])
                      \/ Left[i] = Left[j] /\ j - i < Len(history[Left[i]])
    BY RowsListed DEF Left
  <2>2. Len(Left) \in Nat /\ \A i \in 1 .. Len(Left) : Left[i] \in claims BY <2>1
  <2>3. claims \in SUBSET Claims BY DEF PagingType
  <2> HIDE DEF Left
  <2> QED BY <2>1, <2>2, <2>3 DEF Ordered, Wanted
<1>6. received \in Seq(Claims) /\ Len(received) \in Nat /\ \A i \in 1 .. Len(received) : received[i] \in Claims
  BY DEF PagingType
<1>7. /\ CursorIsLast /\ Ordered(received, query.order, history)
      /\ cursor \in Claims \cup {NoCursor}
  BY <1>2 DEF PagingInv, PagingType
<1>8. CASE cursor' = cursor /\ received' = received
  <2>1. pc' = "done" => Left = << >> 
    <3> SUFFICES ASSUME NEW k \in 1 .. Len(Left), cursor' = Left[k]
                 PROVE  FALSE
      BY <1>8, PageHandsOver
    <3>1. AfterCursor(cursor, query.order, cursor) /\ cursor \in Claims BY <1>5, <1>8
    <3> QED BY <3>1, <1>2, EarlierIsOrder, PrecedesIsOrder
  <2>2. pc' = "done" => owed \subseteq ToSet(received)
    <3> SUFFICES ASSUME Left = << >>, NEW c \in owed PROVE c \in ToSet(received)
      BY <2>1
    <3>1. ~ \E i \in 1 .. Len(Left) : Left[i] = c OBVIOUS
    <3> QED BY <3>1, <1>4
  <2>3. OwedAhead' BY <1>1, <1>2, <1>8 DEF PagingInv, OwedAhead, MayMatch, JoinedStatuses
  <2> QED BY <1>1, <1>2, <1>3, <1>7, <1>8, <2>2, <2>3 DEF PagingInv, CursorIsLast, OwedLoaded
<1>9. CASE ~ (cursor' = cursor /\ received' = received)
  <2>1. PICK k \in 1 .. Len(Left) :
          /\ pc' \in {"more", "done"}
          /\ query.take # NotANumber => (pc' = "more" <=> k < Len(Left))
          /\ cursor' = Left[k]
          /\ received' = received \o SubSeq(Left, 1, k)
    BY <1>9, PageHandsOver
  <2> DEFINE data == SubSeq(Left, 1, k)
             m == Len(received)
  <2>2. /\ data \in Seq(Claims) /\ Len(data) = k
        /\ \A i \in 1 .. k : data[i] = Left[i]
    <3>1. \A i \in 1 .. k : Left[i] \in Claims BY <1>5
    <3>2. k \in Int /\ 1 \in Int BY <1>5
    <3>3. /\ SubSeq(Left, 1, k) \in Seq(Claims)
          /\ Len(SubSeq(Left, 1, k)) = IF 1 <= k THEN k - 1 + 1 ELSE 0
          /\ \A i \in 1 .. k - 1 + 1 : SubSeq(Left, 1, k)[i] = Left[1 + i - 1]
      BY <3>1, <3>2, SubSeqProperties
    <3> QED BY <3>3, <1>5
  <2>3. /\ received' \in Seq(Claims) /\ Len(received') = m + k /\ m \in Nat
        /\ \A i \in 1 .. m : received'[i] = received[i]
        /\ \A i \in 1 .. k : received'[m + i] = Left[i]
    <3> HIDE DEF data
    <3>1. /\ received \o data \in Seq(Claims) /\ Len(received \o data) = m + k
          /\ \A i \in 1 .. m + k : (received \o data)[i] = IF i <= m THEN received[i] ELSE data[i - m]
      BY <1>6, <2>2, ConcatProperties
    <3>2. received' = received \o data BY <2>1 DEF data
    <3>3. m \in Nat /\ k \in Nat BY <1>5, <1>6
    <3>4. ASSUME NEW i \in 1 .. k PROVE received'[m + i] = Left[i]
      <4>1. m + i \in 1 .. m + k /\ ~(m + i <= m) /\ (m + i) - m = i BY <3>3
      <4>2. (received \o data)[m + i] = data[(m + i) - m] BY <3>1, <4>1
      <4> QED BY <4>1, <4>2, <3>2, <2>2
    <3>5. ASSUME NEW i \in 1 .. m PROVE received'[i] = received[i]
      <4>1. i \in 1 .. m + k /\ i <= m BY <3>3
      <4> QED BY <4>1, <3>1, <3>2
    <3> QED BY <3>1, <3>2, <3>3, <3>4, <3>5
  <2>4. ASSUME NEW i \in 1 .. m, NEW j \in 1 .. k
        PROVE  Precedes(query.order, received[i], Left[j])
    <3>1. m \in 1 .. m /\ cursor = received[m] /\ cursor \in Claims /\ i =< m
      BY <1>6, <1>7, EmptySeq DEF CursorIsLast
    <3>2. Precedes(query.order, cursor, Left[j])
      <4>1. Left[j] \in Claims /\ AfterCursor(Left[j], query.order, cursor) BY <1>5
      <4>2. cursor # NoCursor BY <3>1, EarlierIsOrder
      <4> QED BY <4>1, <4>2, <3>1, <1>2, PrecedesIsOrder
    <3>3. received[i] = cursor \/ Precedes(query.order, received[i], cursor)
      <4>1. CASE i = m BY <4>1, <3>1
      <4>2. CASE i < m BY <4>2, <3>1, <1>7 DEF Ordered
      <4> QED BY <4>1, <4>2, <3>1, <1>6
    <3>4. received[i] \in Claims /\ Left[j] \in Claims BY <1>5, <1>6
    <3> QED BY <3>1, <3>2, <3>3, <3>4, PrecedesIsOrder
  <2>5. Ordered(received', query.order, history)
    <3> SUFFICES ASSUME NEW i \in 1 .. m + k, NEW j \in 1 .. m + k, i < j
                 PROVE  \/ Precedes(query.order, received'[i], received'[j])
                        \/ received'[i] = received'[j] /\ j - i < Len(history[received'[i]])
      BY <2>3 DEF Ordered
    <3>0. m \in Nat /\ k \in Nat /\ i \in Int /\ j \in Int BY <2>3, <1>5
    <3>1. CASE j =< m
      <4>1. i \in 1 .. m /\ j \in 1 .. m BY <3>0, <3>1
      <4> QED BY <4>1, <2>3, <1>7 DEF Ordered
    <3>2. CASE i =< m /\ m < j
      <4>1. i \in 1 .. m /\ j - m \in 1 .. k /\ m + (j - m) = j BY <3>0, <3>2
      <4>2. received'[j] = Left[j - m] /\ received'[i] = received[i] BY <4>1, <2>3
      <4> QED BY <4>1, <4>2, <2>4
    <3>3. CASE m < i
      <4> DEFINE a == i - m
                 b == j - m
      <4>1. a \in 1 .. k /\ b \in 1 .. k /\ m + a = i /\ m + b = j /\ a < b /\ j - i = b - a
        BY <3>0, <3>3
      <4>2. a \in 1 .. Len(Left) /\ b \in 1 .. Len(Left) BY <4>1, <1>5
      <4> HIDE DEF a, b
      <4>3. received'[i] = Left[a] /\ received'[j] = Left[b] BY <4>1, <2>3
      <4> QED BY <4>1, <4>2, <4>3, <1>5 DEF Ordered
    <3> QED BY <3>0, <3>1, <3>2, <3>3
  <2>6. CursorIsLast'
    <3>1. received' # << >> BY <2>3, <1>5, EmptySeq
    <3>2. cursor' # NoCursor BY <2>1, <1>5, EarlierIsOrder
    <3>3. received'[Len(received')] = Left[k] BY <2>3
    <3> QED BY <3>1, <3>2, <3>3, <2>1 DEF CursorIsLast
  <2>7. ASSUME NEW c \in owed, c \notin ToSet(received')
        PROVE  \E i \in 1 .. Len(Left) : k < i /\ Left[i] = c
    <3>1. DOMAIN received = 1 .. m /\ DOMAIN received' = 1 .. m + k BY <1>6, <2>3
    <3>2. c \notin ToSet(received)
      <4>1. \A i \in 1 .. m : received[i] = received'[i] /\ i \in 1 .. m + k BY <2>3, <1>5
      <4> QED BY <4>1, <3>1, <2>7 DEF ToSet
    <3>3. PICK i \in 1 .. Len(Left) : Left[i] = c BY <3>2, <1>4
    <3>4. ~ (i =< k)
      <4> SUFFICES ASSUME i =< k PROVE FALSE OBVIOUS
      <4>1. i \in 1 .. k /\ m + i \in 1 .. m + k BY <1>5, <2>3
      <4>2. received'[m + i] = c BY <4>1, <2>3, <3>3
      <4> QED BY <4>1, <4>2, <3>1, <2>7 DEF ToSet
    <3> QED BY <3>3, <3>4, <1>5
  <2>8. OwedAhead'
    <3> SUFFICES ASSUME NEW c \in owed, c \notin ToSet(received')
                 PROVE  AfterCursor(c, query.order, Left[k])
      BY <1>1, <1>2, <2>1 DEF PagingInv, OwedAhead, MayMatch, JoinedStatuses
    <3>1. PICK i \in 1 .. Len(Left) : k < i /\ Left[i] = c BY <2>7
    <3>2. Precedes(query.order, Left[k], c) \/ Left[k] = c BY <3>1, <1>5 DEF Ordered
    <3>3. Left[k] # c
      <4>1. k \in 1 .. k /\ m + k \in DOMAIN received' BY <2>3, <1>5
      <4> QED BY <4>1, <2>3 DEF ToSet
    <3>4. Left[k] \in Claims /\ c \in Claims BY <1>5, <3>1
    <3> QED BY <3>2, <3>3, <3>4, <1>2, PrecedesIsOrder
  <2>9. pc' = "done" /\ query.take # NotANumber => owed \subseteq ToSet(received')
    <3> SUFFICES ASSUME pc' = "done", query.take # NotANumber, NEW c \in owed, c \notin ToSet(received')
                 PROVE  FALSE
      OBVIOUS
    <3>1. ~ (k < Len(Left)) BY <2>1
    <3> QED BY <3>1, <2>7, <1>5
  <2> QED BY <1>1, <1>2, <1>3, <2>5, <2>6, <2>8, <2>9 DEF PagingInv, OwedLoaded
<1> QED BY <1>8, <1>9

(* The invariant survives every step. *)
LEMMA PagingInvStep == PagingType /\ PagingInv /\ [Next]_vars => PagingInv'
BY SubmitClaimsInv, IdleInv, EvaluateInv, LoadTypeInv, RequestInv, ProbeInv, PageInv
   DEF Next, Client, Finished

(* It holds in every state of the specification. *)
LEMMA PagingInvariant == Spec => [](PagingType /\ PagingInv)
BY PagingTypeInit, PagingTypeStep, PagingInvInit, PagingInvStep, PTL DEF Spec

(***************************************************************************)
(* claims.ts:149-166, for any claims, filters, page sizes and evaluations: *)
(* a client that was told there is no next page was given every claim it   *)
(* was owed.                                                               *)
(***************************************************************************)
THEOREM NothingSkippedAlways == Spec => []NothingSkipped
BY PagingInvariant, PagingInvImplies, PTL

(***************************************************************************)
(* claims.ts:86-97: the pages put together are in the order asked for, and *)
(* a claim is in them once, unless it has a history.                       *)
(***************************************************************************)
THEOREM PagesInOrderAlways == Spec => []PagesInOrder
BY PagingInvariant, PagingInvImplies, PTL

-----------------------------------------------------------------------------
(* The rows left after a page: Left, with the new cursor. *)
LEMMA LeftAfterPage ==
  ASSUME Page
  PROVE  Left' = Rows(query.type, query.status, query.order, cursor')
<1>1. UNCHANGED <<claims, type, history, query>> BY DEF Page, indexerVars
<1> QED BY <1>1 DEF Left, Rows, RowsFrom, MatchingRows, JoinedStatuses, TypeMatches, OrderBy

(* A step keeps the relation between hasNextPage and what is left. *)
LEMMA HasNextPageStep ==
  ASSUME PagingType, PagingInv, Page, pc' # "failed", query.take # NotANumber, OrderInSignature,
         \A c \in claims : Len(history[c]) < 2
  PROVE  pc' = "more" <=> Rows(query.type, query.status, query.order, cursor)' # << >>
<1> DEFINE After == Rows(query.type, query.status, query.order, cursor')
<1>1. Rows(query.type, query.status, query.order, cursor)' = After
  BY LeftAfterPage DEF Left
<1>2. /\ Left \in Seq(claims) /\ Len(Left) \in Nat
      /\ \A i \in 1 .. Len(Left) : Left[i] \in claims /\ Wanted(Left[i], query.type, query.status, query.order, cursor)
      /\ \A c \in claims : Wanted(c, query.type, query.status, query.order, cursor) =>
           \E i \in 1 .. Len(Left) : Left[i] = c
      /\ \A i, j \in 1 .. Len(Left) :
           i < j => \/ Precedes(query.order, Left[i], Left[j])
                    \/ Left[i] = Left[j] /\ j - i < Len(history[Left[i]])
  <2>1. /\ Left \in Seq(claims)
        /\ \A i \in 1 .. Len(Left) : Wanted(Left[i], query.type, query.status, query.order, cursor)
        /\ \A c \in claims : Wanted(c, query.type, query.status, query.order, cursor) =>
             \E i \in 1 .. Len(Left) : Left[i] = c
        /\ \A i, j \in 1 .. Len(Left) :
             i < j => \/ Precedes(query.order, Left[i], Left[j])
                      \/ Left[i] = Left[j] /\ j - i < Len(history[Left[i]])
    BY RowsListed DEF Left
  <2>2. Len(Left) \in Nat /\ \A i \in 1 .. Len(Left) : Left[i] \in claims BY <2>1
  <2> HIDE DEF Left
  <2> QED BY <2>1, <2>2
<1>3. /\ After \in Seq(claims)
      /\ \A i \in 1 .. Len(After) : Wanted(After[i], query.type, query.status, query.order, cursor')
      /\ \A c \in claims : Wanted(c, query.type, query.status, query.order, cursor') =>
           \E i \in 1 .. Len(After) : After[i] = c
  BY RowsListed
<1>4. claims \in SUBSET Claims /\ cursor \in Claims \cup {NoCursor} /\ query.order \in {"asc", "desc"}
  BY DEF PagingType, OrderInSignature
<1> HIDE DEF After, Left
<1>5. \A i, j \in 1 .. Len(Left) : i < j => Precedes(query.order, Left[i], Left[j])
  <2> SUFFICES ASSUME NEW i \in 1 .. Len(Left), NEW j \in 1 .. Len(Left), i < j,
                      j - i < Len(history[Left[i]])
               PROVE  FALSE
    BY <1>2
  <2>1. history[Left[i]] \in Seq(Statuses) BY <1>2, <1>4 DEF PagingType
  <2>2. Len(history[Left[i]]) \in Nat /\ Len(history[Left[i]]) < 2 BY <2>1, <1>2
  <2> QED BY <2>2, <1>2
<1>6. CASE Left = << >> /\ pc' = "done" /\ cursor' = cursor
  <2>1. After = Left BY <1>6 DEF After, Left
  <2> QED BY <2>1, <1>1, <1>6
<1>7. ASSUME NEW k \in 1 .. Len(Left), pc' = "more" <=> k < Len(Left), cursor' = Left[k]
      PROVE  pc' = "more" <=> After # << >>
  <2>1. Left[k] \in Claims /\ k \in Nat BY <1>2, <1>4
  <2>2. \A d \in Claims : AfterCursor(d, query.order, cursor') <=> Precedes(query.order, Left[k], d)
    BY <2>1, <1>4, <1>7, EarlierIsOrder, PrecedesIsOrder
  <2>3. ASSUME k < Len(Left) PROVE After # << >>
    <3>1. k + 1 \in 1 .. Len(Left) /\ k < k + 1 BY <2>1, <2>3, <1>2
    <3>2. Left[k + 1] \in claims /\ Precedes(query.order, Left[k], Left[k + 1])
      BY <3>1, <1>2, <1>5
    <3>3. Wanted(Left[k + 1], query.type, query.status, query.order, cursor')
      <4>1. Wanted(Left[k + 1], query.type, query.status, query.order, cursor) BY <3>1, <1>2
      <4> QED BY <4>1, <3>2, <2>2, <1>4 DEF Wanted
    <3>4. PICK i \in 1 .. Len(After) : After[i] = Left[k + 1] BY <3>2, <3>3, <1>3
    <3> QED BY <3>4
  <2>4. ASSUME After # << >> PROVE k < Len(Left)
    <3> DEFINE d == After[1]
    <3>1. 1 \in 1 .. Len(After) /\ d \in claims
      <4>1. Len(After) \in Nat \ {0} BY <2>4, <1>3, EmptySeq
      <4> QED BY <4>1, <1>3
    <3>2. Wanted(d, query.type, query.status, query.order, cursor') BY <3>1, <1>3
    <3> HIDE DEF d
    <3>3. Precedes(query.order, Left[k], d) /\ d \in Claims BY <3>1, <3>2, <2>2, <1>4 DEF Wanted
    <3>4. AfterCursor(Left[k], query.order, cursor) BY <1>2 DEF Wanted
    <3>5. AfterCursor(d, query.order, cursor)
      <4>1. cursor = NoCursor \/ Precedes(query.order, cursor, Left[k]) BY <3>4, <2>1, <1>4, PrecedesIsOrder
      <4>2. cursor = NoCursor \/ Precedes(query.order, cursor, d)
        BY <4>1, <3>3, <2>1, <1>4, PrecedesIsOrder
      <4> QED BY <4>2, <3>3, <1>4, PrecedesIsOrder
    <3>6. Wanted(d, query.type, query.status, query.order, cursor)
      BY <3>2, <3>5 DEF Wanted
    <3>7. PICK i \in 1 .. Len(Left) : Left[i] = d BY <3>1, <3>6, <1>2
    <3>8. ~ (i < k) /\ i # k
      <4>1. i < k => Precedes(query.order, d, Left[k]) BY <3>7, <1>5
      <4>2. i = k => Precedes(query.order, d, d) BY <3>7, <3>3
      <4> QED BY <4>1, <4>2, <3>3, <2>1, PrecedesIsOrder
    <3> QED BY <3>7, <3>8, <2>1, <1>2
  <2> QED BY <2>3, <2>4, <1>7
<1>8. \/ Left = << >> /\ pc' = "done" /\ cursor' = cursor
      \/ \E k \in 1 .. Len(Left) : (pc' = "more" <=> k < Len(Left)) /\ cursor' = Left[k]
  BY PageHandsOver
<1> QED BY <1>1, <1>6, <1>7, <1>8

(***************************************************************************)
(* claims.ts:165, for any claims, filters and page sizes: where no claim   *)
(* has a history, the flag says there is a next page exactly when the      *)
(* cursor leads to one.                                                    *)
(***************************************************************************)
THEOREM HasNextPageAlways == Spec => HasNextPageUnlessHistory
<1> DEFINE Told ==
      /\ Page /\ pc' # "failed" /\ query.take # NotANumber /\ OrderInSignature
      /\ \A c \in claims : Len(history[c]) < 2
      => (pc' = "more" <=> Rows(query.type, query.status, query.order, cursor)' # << >>)
<1>1. PagingType /\ PagingInv /\ [Next]_vars => [Told]_vars
  BY HasNextPageStep
<1>2. Spec => [][Told]_vars
  BY <1>1, PagingInvariant, PTL DEF Spec
<1> QED BY <1>2 DEF HasNextPageUnlessHistory

=============================================================================
