-------------------------------- MODULE DataLemmas --------------------------------
(***************************************************************************)
(* Lemmas about the operators that the models are built from, cited by     *)
(* their proofs: sums over finite sets, finite sets listed in an order,    *)
(* insertion-ordered maps and LRU caches.                                  *)
(*                                                                         *)
(* What needs induction over the data is proved from two principles that   *)
(* take a set in place of a predicate, NatInductionOnSet and               *)
(* FiniteSetInductionOnSet; both rest on the order of the naturals being   *)
(* well-founded.                                                           *)
(***************************************************************************)
EXTENDS Listing, InsertionMap, SequencesExt, Functions, SequenceTheorems, FiniteSetTheorems,
        FunctionTheorems, TLAPS

(* Induction over the naturals, for a set instead of a predicate: a set
   with 0 and with the successor of each number in it has all of them. *)
LEMMA NatInductionOnSet ==
  ASSUME NEW P, 0 \in P, \A n \in Nat : n \in P => n + 1 \in P
  PROVE  Nat \subseteq P
<1> DEFINE T == Nat \ P
<1> SUFFICES ASSUME T # {} PROVE FALSE
  OBVIOUS
<1>1. PICK x \in T : \A y \in T : <<y, x>> \notin OpToRel(<, Nat)
  <2> T \subseteq Nat
    OBVIOUS
  <2> HIDE DEF T
  <2> QED BY WFMin, NatLessThanWellFounded
<1>2. x \in Nat /\ x \notin P /\ x # 0
  OBVIOUS
<1>3. x - 1 \in Nat /\ x - 1 \notin P
  BY <1>2
<1>4. <<x - 1, x>> \in OpToRel(<, Nat)
  BY <1>2, <1>3 DEF OpToRel
<1> QED BY <1>1, <1>3, <1>4

(* Induction over the subsets of a finite set: a set of subsets with the
   empty one, and with each that stays in it when any one element is taken
   away, has the whole. *)
LEMMA FiniteSetInductionOnSet ==
  ASSUME NEW S, IsFiniteSet(S), NEW P, {} \in P,
         \A T \in SUBSET S : T # {} /\ (\A x \in T : T \ {x} \in P) => T \in P
  PROVE  S \in P
<1> DEFINE N == {n \in Nat : \A T \in SUBSET S : Cardinality(T) = n => T \in P}
<1>1. 0 \in N
  BY FS_Subset, FS_EmptySet
<1>2. ASSUME NEW n \in Nat, n \in N PROVE n + 1 \in N
  <2> SUFFICES ASSUME NEW T \in SUBSET S, Cardinality(T) = n + 1 PROVE T \in P
    OBVIOUS
  <2>1. IsFiniteSet(T) BY FS_Subset
  <2>2. T # {} BY <2>1, FS_EmptySet
  <2>3. ASSUME NEW x \in T PROVE T \ {x} \in P
    <3>1. Cardinality(T \ {x}) = Cardinality(T) - 1
      BY <2>1, FS_RemoveElement
    <3>2. T \ {x} \in SUBSET S /\ Cardinality(T \ {x}) = n
      BY <3>1
    <3> QED BY <3>2, <1>2
  <2> HIDE DEF N
  <2> QED BY <2>2, <2>3
<1>3. Nat \subseteq N
  <2> HIDE DEF N
  <2> QED BY <1>1, <1>2, NatInductionOnSet
<1> QED BY <1>3, FS_CardinalityType

(* The values a function takes on a finite set are finitely many. *)
LEMMA ImageFinite ==
  ASSUME NEW S, IsFiniteSet(S), NEW f
  PROVE  IsFiniteSet({f[x] : x \in S})
<1> DEFINE I == {f[x] : x \in S}
           g == [x \in S |-> f[x]]
<1>1. g \in [S -> I] /\ \A y \in I : \E x \in S : g[x] = y OBVIOUS
<1> HIDE DEF g, I
<1>2. g \in Surjection(S, I) BY <1>1, Fun_IsSurj
<1>3. IsFiniteSet(I) BY <1>2, FS_Surjection
<1> QED BY <1>3 DEF I

Pick(S) == CHOOSE x \in S : TRUE

SumsOn(f, D, g) == g = [s \in D |-> IF s = {} THEN 0 ELSE f[Pick(s)] + g[s \ {Pick(s)}]]

IsSum(f, S, g) == SumsOn(f, SUBSET S, g)

(* SumFunctionOnSet, unfolded to the recursive function that computes it. *)
LEMMA SumIter ==
  ASSUME NEW f, NEW S
  PROVE  SumFunctionOnSet(f, S) = (CHOOSE g : IsSum(f, S, g))[S]
BY DEF SumFunctionOnSet, FoldFunctionOnSet, MapThenFoldSet, IsSum, SumsOn, Pick

(* On a finite set that recursive function exists. *)
LEMMA IsSumExists ==
  ASSUME NEW f, NEW S, IsFiniteSet(S)
  PROVE  \E g : IsSum(f, S, g)
<1> DEFINE D(n) == {s \in SUBSET S : Cardinality(s) =< n}
           N == {n \in Nat : \E g : SumsOn(f, D(n), g)}
<1>1. 0 \in N
  <2>1. D(0) = {{}}
    BY FS_Subset, FS_EmptySet, FS_CardinalityType
  <2>2. SumsOn(f, {{}}, [s \in {{}} |-> 0])
    BY DEF SumsOn
  <2> QED BY <2>1, <2>2
<1>2. ASSUME NEW n \in Nat, n \in N PROVE n + 1 \in N
  <2>1. PICK g : SumsOn(f, D(n), g)
    BY <1>2
  <2> DEFINE h == [s \in D(n + 1) |-> IF s = {} THEN 0 ELSE f[Pick(s)] + g[s \ {Pick(s)}]]
  <2>2. ASSUME NEW s \in D(n + 1), s # {} PROVE s \ {Pick(s)} \in D(n) /\ s \ {Pick(s)} \in D(n + 1)
    <3>1. IsFiniteSet(s) /\ Cardinality(s) \in Nat BY FS_Subset, FS_CardinalityType
    <3>2. Pick(s) \in s BY <2>2 DEF Pick
    <3>3. Cardinality(s \ {Pick(s)}) = Cardinality(s) - 1 BY <3>1, <3>2, FS_RemoveElement
    <3> QED BY <3>1, <3>3
  <2>3. ASSUME NEW s \in D(n) PROVE g[s] = h[s]
    <3>1. IsFiniteSet(s) /\ Cardinality(s) \in Nat BY FS_Subset, FS_CardinalityType
    <3>2. s \in D(n + 1) BY <3>1
    <3>3. g[s] = IF s = {} THEN 0 ELSE f[Pick(s)] + g[s \ {Pick(s)}]
      <4> HIDE DEF D
      <4> QED BY <2>1 DEF SumsOn
    <3> QED BY <3>2, <3>3
  <2>4. h = [s \in D(n + 1) |-> IF s = {} THEN 0 ELSE f[Pick(s)] + h[s \ {Pick(s)}]]
    <3> HIDE DEF D
    <3> QED BY <2>2, <2>3
  <2> HIDE DEF D, h
  <2> QED BY <2>4 DEF SumsOn
<1>3. Cardinality(S) \in N
  <2> HIDE DEF N
  <2> QED BY <1>1, <1>2, NatInductionOnSet, FS_CardinalityType
<1>4. D(Cardinality(S)) = SUBSET S
  BY FS_Subset
<1> HIDE DEF D
<1> QED BY <1>3, <1>4 DEF IsSum

(* Its value does not depend on the set it is defined over. *)
LEMMA SumIsUnique ==
  ASSUME NEW f, NEW S, IsFiniteSet(S), NEW T \in SUBSET S,
         NEW g, IsSum(f, S, g), NEW h, IsSum(f, T, h)
  PROVE  g[T] = h[T]
<1> DEFINE P == {A \in SUBSET T : g[A] = h[A]}
<1>1. \A A \in SUBSET T : /\ g[A] = IF A = {} THEN 0 ELSE f[Pick(A)] + g[A \ {Pick(A)}]
                          /\ h[A] = IF A = {} THEN 0 ELSE f[Pick(A)] + h[A \ {Pick(A)}]
  BY DEF IsSum, SumsOn
<1>2. {} \in P
  BY <1>1
<1>3. ASSUME NEW A \in SUBSET T, A # {}, \A x \in A : A \ {x} \in P PROVE A \in P
  <2>1. Pick(A) \in A BY <1>3 DEF Pick
  <2>2. g[A \ {Pick(A)}] = h[A \ {Pick(A)}] BY <2>1, <1>3
  <2> QED BY <2>2, <1>1
<1>4. IsFiniteSet(T) BY FS_Subset
<1>5. T \in P
  <2> HIDE DEF P
  <2> QED BY <1>2, <1>3, <1>4, FiniteSetInductionOnSet
<1> QED BY <1>5

(* A sum is the value at the element picked first and the sum of the rest. *)
LEMMA SumPick ==
  ASSUME NEW f, NEW S, IsFiniteSet(S)
  PROVE  SumFunctionOnSet(f, S) =
           IF S = {} THEN 0 ELSE f[Pick(S)] + SumFunctionOnSet(f, S \ {Pick(S)})
<1> DEFINE T == S \ {Pick(S)}
           g == CHOOSE h : IsSum(f, S, h)
           k == CHOOSE h : IsSum(f, T, h)
<1>1. IsFiniteSet(T) /\ T \in SUBSET S BY FS_Subset
<1>2. IsSum(f, S, g) BY IsSumExists
<1>3. IsSum(f, T, k)
  <2> HIDE DEF T
  <2> QED BY <1>1, IsSumExists
<1>4. SumFunctionOnSet(f, S) = g[S] BY SumIter
<1>5. SumFunctionOnSet(f, T) = k[T] BY SumIter
<1>6. g[T] = k[T]
  <2> HIDE DEF T, g, k
  <2>1. \A U \in SUBSET S : \A a, b : IsSum(f, S, a) /\ IsSum(f, U, b) => a[U] = b[U]
    BY SumIsUnique
  <2> QED BY <1>1, <1>2, <1>3, <2>1
<1>7. g[S] = IF S = {} THEN 0 ELSE f[Pick(S)] + g[T]
  <2> HIDE DEF g
  <2> QED BY <1>2 DEF IsSum, SumsOn
<1> QED BY <1>4, <1>5, <1>6, <1>7

(* A sum over nothing is 0. *)
LEMMA SumEmpty ==
  ASSUME NEW f PROVE SumFunctionOnSet(f, {}) = 0
BY SumPick, FS_EmptySet

(* A sum of integers is an integer. *)
LEMMA SumInt ==
  ASSUME NEW f, NEW S, IsFiniteSet(S), \A x \in S : f[x] \in Int
  PROVE  SumFunctionOnSet(f, S) \in Int
<1> DEFINE P == {A \in SUBSET S : SumFunctionOnSet(f, A) \in Int}
<1>1. {} \in P BY SumEmpty
<1>2. ASSUME NEW A \in SUBSET S, A # {}, \A x \in A : A \ {x} \in P PROVE A \in P
  <2>1. Pick(A) \in A BY <1>2 DEF Pick
  <2>2. SumFunctionOnSet(f, A \ {Pick(A)}) \in Int BY <2>1, <1>2
  <2>3. SumFunctionOnSet(f, A) = f[Pick(A)] + SumFunctionOnSet(f, A \ {Pick(A)})
    BY <1>2, SumPick, FS_Subset
  <2> QED BY <2>1, <2>2, <2>3
<1>3. S \in P
  <2> HIDE DEF P
  <2> QED BY <1>1, <1>2, FiniteSetInductionOnSet
<1> QED BY <1>3

(* Any element may be the first: a sum does not depend on the order. *)
LEMMA SumRemove ==
  ASSUME NEW f, NEW S, IsFiniteSet(S), \A x \in S : f[x] \in Int, NEW y \in S
  PROVE  SumFunctionOnSet(f, S) = f[y] + SumFunctionOnSet(f, S \ {y})
<1> DEFINE P == {A \in SUBSET S : \A x \in A :
                   SumFunctionOnSet(f, A) = f[x] + SumFunctionOnSet(f, A \ {x})}
<1>1. {} \in P OBVIOUS
<1>2. ASSUME NEW A \in SUBSET S, A # {}, \A x \in A : A \ {x} \in P PROVE A \in P
  <2> SUFFICES ASSUME NEW x \in A
               PROVE  SumFunctionOnSet(f, A) = f[x] + SumFunctionOnSet(f, A \ {x})
    OBVIOUS
  <2>1. Pick(A) \in A BY <1>2 DEF Pick
  <2>2. IsFiniteSet(A) BY FS_Subset
  <2>3. SumFunctionOnSet(f, A) = f[Pick(A)] + SumFunctionOnSet(f, A \ {Pick(A)})
    BY <1>2, <2>2, SumPick
  <2>4. CASE x = Pick(A) BY <2>3, <2>4
  <2>5. CASE x # Pick(A)
    <3> DEFINE p == Pick(A)
               B == (A \ {x}) \ {p}
    <3> p \in A BY <2>1
    <3> HIDE DEF p
    <3>1. x \in A \ {p} /\ p \in A \ {x} BY <2>5 DEF p
    <3>2. B = (A \ {p}) \ {x} OBVIOUS
    <3>3. SumFunctionOnSet(f, A \ {p}) = f[x] + SumFunctionOnSet(f, B)
      BY <3>1, <3>2, <1>2
    <3>4. SumFunctionOnSet(f, A \ {x}) = f[p] + SumFunctionOnSet(f, B)
      BY <3>1, <1>2
    <3>5. f[x] \in Int /\ f[p] \in Int OBVIOUS
    <3>6. SumFunctionOnSet(f, B) \in Int
      <4>1. IsFiniteSet(B) /\ \A z \in B : f[z] \in Int BY <2>2, FS_Subset
      <4> HIDE DEF B
      <4> QED BY <4>1, SumInt
    <3>7. SumFunctionOnSet(f, A) = f[p] + SumFunctionOnSet(f, A \ {p}) BY <2>3 DEF p
    <3> QED BY <3>3, <3>4, <3>5, <3>6, <3>7
  <2> QED BY <2>4, <2>5
<1>3. S \in P
  <2> HIDE DEF P
  <2> QED BY <1>1, <1>2, FiniteSetInductionOnSet
<1> QED BY <1>3

(* Functions that agree on a set have the same sum over it. *)
LEMMA SumEqual ==
  ASSUME NEW f, NEW g, NEW S, IsFiniteSet(S), \A x \in S : f[x] = g[x]
  PROVE  SumFunctionOnSet(f, S) = SumFunctionOnSet(g, S)
<1> DEFINE P == {A \in SUBSET S : SumFunctionOnSet(f, A) = SumFunctionOnSet(g, A)}
<1>1. {} \in P BY SumEmpty
<1>2. ASSUME NEW A \in SUBSET S, A # {}, \A x \in A : A \ {x} \in P PROVE A \in P
  <2>1. Pick(A) \in A BY <1>2 DEF Pick
  <2>2. SumFunctionOnSet(f, A \ {Pick(A)}) = SumFunctionOnSet(g, A \ {Pick(A)}) BY <2>1, <1>2
  <2>3. IsFiniteSet(A) BY FS_Subset
  <2>4. /\ SumFunctionOnSet(f, A) = f[Pick(A)] + SumFunctionOnSet(f, A \ {Pick(A)})
        /\ SumFunctionOnSet(g, A) = g[Pick(A)] + SumFunctionOnSet(g, A \ {Pick(A)})
    BY <1>2, <2>3, SumPick
  <2> QED BY <2>1, <2>2, <2>4
<1>3. S \in P
  <2> HIDE DEF P
  <2> QED BY <1>1, <1>2, FiniteSetInductionOnSet
<1> QED BY <1>3

(* What a new element adds to a sum. *)
LEMMA SumAdd ==
  ASSUME NEW f, NEW S, IsFiniteSet(S), NEW y, y \notin S, \A x \in S \cup {y} : f[x] \in Int
  PROVE  SumFunctionOnSet(f, S \cup {y}) = f[y] + SumFunctionOnSet(f, S)
<1> DEFINE T == S \cup {y}
<1>1. IsFiniteSet(T) /\ y \in T /\ T \ {y} = S /\ \A x \in T : f[x] \in Int
  BY FS_AddElement
<1> HIDE DEF T
<1>2. SumFunctionOnSet(f, T) = f[y] + SumFunctionOnSet(f, T \ {y})
  BY <1>1, SumRemove
<1> QED BY <1>1, <1>2 DEF T

(* A sum of naturals is a natural. *)
LEMMA SumNat ==
  ASSUME NEW f, NEW S, IsFiniteSet(S), \A x \in S : f[x] \in Nat
  PROVE  SumFunctionOnSet(f, S) \in Nat
<1> DEFINE P == {A \in SUBSET S : SumFunctionOnSet(f, A) \in Nat}
<1>1. {} \in P BY SumEmpty
<1>2. ASSUME NEW A \in SUBSET S, A # {}, \A x \in A : A \ {x} \in P PROVE A \in P
  <2>1. Pick(A) \in A BY <1>2 DEF Pick
  <2>2. SumFunctionOnSet(f, A \ {Pick(A)}) \in Nat BY <2>1, <1>2
  <2>3. SumFunctionOnSet(f, A) = f[Pick(A)] + SumFunctionOnSet(f, A \ {Pick(A)})
    BY <1>2, SumPick, FS_Subset
  <2> QED BY <2>1, <2>2, <2>3
<1>3. S \in P
  <2> HIDE DEF P
  <2> QED BY <1>1, <1>2, FiniteSetInductionOnSet
<1> QED BY <1>3

(* A sum of naturals is at least each of them. *)
LEMMA SumAtLeast ==
  ASSUME NEW f, NEW S, IsFiniteSet(S), \A x \in S : f[x] \in Nat, NEW y \in S
  PROVE  f[y] =< SumFunctionOnSet(f, S)
<1>1. IsFiniteSet(S \ {y}) /\ \A x \in S \ {y} : f[x] \in Nat BY FS_RemoveElement
<1>2. SumFunctionOnSet(f, S \ {y}) \in Nat
  <2> DEFINE T == S \ {y}
  <2> HIDE DEF T
  <2>1. IsFiniteSet(T) /\ \A x \in T : f[x] \in Nat BY <1>1 DEF T
  <2>2. SumFunctionOnSet(f, T) \in Nat BY <2>1, SumNat
  <2> QED BY <2>2 DEF T
<1>3. SumFunctionOnSet(f, S) = f[y] + SumFunctionOnSet(f, S \ {y}) BY SumRemove
<1>4. f[y] \in Nat OBVIOUS
<1> QED BY <1>2, <1>3, <1>4

(* The sum over two sets that do not meet. *)
LEMMA SumUnion ==
  ASSUME NEW f, NEW S, NEW T, IsFiniteSet(S), IsFiniteSet(T), S \cap T = {},
         \A x \in S \cup T : f[x] \in Int
  PROVE  SumFunctionOnSet(f, S \cup T) = SumFunctionOnSet(f, S) + SumFunctionOnSet(f, T)
<1> DEFINE P == {A \in SUBSET T :
                   SumFunctionOnSet(f, S \cup A) = SumFunctionOnSet(f, S) + SumFunctionOnSet(f, A)}
<1>0. SumFunctionOnSet(f, S) \in Int BY SumInt
<1>1. {} \in P
  <2>1. S \cup {} = S OBVIOUS
  <2> QED BY <1>0, <2>1, SumEmpty
<1>2. ASSUME NEW A \in SUBSET T, A # {}, \A x \in A : A \ {x} \in P PROVE A \in P
  <2>1. PICK y : y \in A BY <1>2
  <2> DEFINE B == A \ {y}
  <2>2. SumFunctionOnSet(f, S \cup B) = SumFunctionOnSet(f, S) + SumFunctionOnSet(f, B)
    BY <2>1, <1>2
  <2>3. IsFiniteSet(A) /\ IsFiniteSet(B) BY FS_Subset
  <2>4. /\ A = B \cup {y} /\ y \notin B /\ y \notin S /\ S \cup A = (S \cup B) \cup {y}
        /\ \A x \in B \cup {y} : f[x] \in Int
        /\ \A x \in (S \cup B) \cup {y} : f[x] \in Int
        /\ y \notin S \cup B
    BY <2>1
  <2> HIDE DEF B
  <2>5. IsFiniteSet(S \cup B) BY <2>3, FS_Union
  <2>6. SumFunctionOnSet(f, A) = f[y] + SumFunctionOnSet(f, B)
    BY <2>3, <2>4, SumAdd
  <2>7. SumFunctionOnSet(f, S \cup A) = f[y] + SumFunctionOnSet(f, S \cup B)
    <3> DEFINE C == S \cup B
    <3> HIDE DEF C
    <3>1. SumFunctionOnSet(f, C \cup {y}) = f[y] + SumFunctionOnSet(f, C)
      BY <2>4, <2>5, SumAdd DEF C
    <3> QED BY <3>1, <2>4 DEF C
  <2>8. SumFunctionOnSet(f, B) \in Int BY <2>3, <2>4, SumInt
  <2>9. f[y] \in Int BY <2>4
  <2> QED BY <1>0, <2>2, <2>6, <2>7, <2>8, <2>9
<1>3. T \in P
  <2> HIDE DEF P
  <2> QED BY <1>1, <1>2, FiniteSetInductionOnSet
<1> QED BY <1>3

(* A sum of zeros is 0. *)
LEMMA SumZero ==
  ASSUME NEW f, NEW S, IsFiniteSet(S), \A x \in S : f[x] = 0
  PROVE  SumFunctionOnSet(f, S) = 0
<1> DEFINE P == {A \in SUBSET S : SumFunctionOnSet(f, A) = 0}
<1>1. {} \in P BY SumEmpty
<1>2. ASSUME NEW A \in SUBSET S, A # {}, \A x \in A : A \ {x} \in P PROVE A \in P
  <2>1. Pick(A) \in A BY <1>2 DEF Pick
  <2>2. SumFunctionOnSet(f, A \ {Pick(A)}) = 0 BY <2>1, <1>2
  <2>3. SumFunctionOnSet(f, A) = f[Pick(A)] + SumFunctionOnSet(f, A \ {Pick(A)})
    BY <1>2, SumPick, FS_Subset
  <2> QED BY <2>1, <2>2, <2>3
<1>3. S \in P
  <2> HIDE DEF P
  <2> QED BY <1>1, <1>2, FiniteSetInductionOnSet
<1> QED BY <1>3

(* Elements with value 0 may be left out. *)
LEMMA SumOfSubset ==
  ASSUME NEW f, NEW S, IsFiniteSet(S), \A x \in S : f[x] \in Int,
         NEW T \in SUBSET S, \A x \in S \ T : f[x] = 0
  PROVE  SumFunctionOnSet(f, S) = SumFunctionOnSet(f, T)
<1> DEFINE U == S \ T
<1>1. /\ IsFiniteSet(T) /\ IsFiniteSet(U) /\ T \cap U = {} /\ S = T \cup U
      /\ \A x \in T : f[x] \in Int
      /\ \A x \in T \cup U : f[x] \in Int
      /\ \A x \in U : f[x] = 0
  BY FS_Subset
<1> HIDE DEF U
<1>2. SumFunctionOnSet(f, S) = SumFunctionOnSet(f, T) + SumFunctionOnSet(f, U)
  BY <1>1, SumUnion
<1>3. SumFunctionOnSet(f, U) = 0 BY <1>1, SumZero
<1>4. SumFunctionOnSet(f, T) \in Int BY <1>1, SumInt
<1> QED BY <1>2, <1>3, <1>4

(* A sum over an injective image is the sum over what it is the image of. *)
LEMMA SumOfImage ==
  ASSUME NEW f, NEW g, NEW b, NEW S, IsFiniteSet(S), \A x \in S : f[x] \in Int,
         \A x \in S : g[b[x]] = f[x],
         \A x, y \in S : b[x] = b[y] => x = y
  PROVE  /\ IsFiniteSet({b[x] : x \in S})
         /\ SumFunctionOnSet(g, {b[x] : x \in S}) = SumFunctionOnSet(f, S)
<1> DEFINE I(A) == {b[x] : x \in A}
           P == {A \in SUBSET S : /\ IsFiniteSet(I(A))
                                  /\ SumFunctionOnSet(g, I(A)) = SumFunctionOnSet(f, A)}
<1>1. {} \in P
  <2>1. I({}) = {} OBVIOUS
  <2> HIDE DEF I
  <2> QED BY <2>1, SumEmpty, FS_EmptySet
<1>2. ASSUME NEW A \in SUBSET S, A # {}, \A x \in A : A \ {x} \in P PROVE A \in P
  <2>1. PICK y : y \in A BY <1>2
  <2> DEFINE B == A \ {y}
  <2>2. /\ IsFiniteSet(I(B)) /\ SumFunctionOnSet(g, I(B)) = SumFunctionOnSet(f, B)
    BY <2>1, <1>2
  <2>3. /\ I(A) = I(B) \cup {b[y]} /\ b[y] \notin I(B)
        /\ \A x \in I(B) \cup {b[y]} : g[x] \in Int
    BY <2>1
  <2>4. IsFiniteSet(B) /\ A = B \cup {y} /\ y \notin B /\ \A x \in B \cup {y} : f[x] \in Int
    BY <2>1, FS_Subset
  <2> HIDE DEF B, I
  <2>5. SumFunctionOnSet(g, I(B) \cup {b[y]}) = g[b[y]] + SumFunctionOnSet(g, I(B))
    BY <2>2, <2>3, SumAdd
  <2>6. SumFunctionOnSet(f, B \cup {y}) = f[y] + SumFunctionOnSet(f, B)
    BY <2>4, SumAdd
  <2>7. IsFiniteSet(I(A)) BY <2>2, <2>3, FS_AddElement
  <2> QED BY <2>1, <2>2, <2>3, <2>4, <2>5, <2>6, <2>7
<1>3. S \in P
  <2> HIDE DEF P
  <2> QED BY <1>1, <1>2, FiniteSetInductionOnSet
<1> QED BY <1>3

(* Of two functions, the one that is nowhere smaller has the sum that is
   not smaller. *)
LEMMA SumMonotone ==
  ASSUME NEW f, NEW g, NEW S, IsFiniteSet(S),
         \A x \in S : f[x] \in Int /\ g[x] \in Int /\ f[x] =< g[x]
  PROVE  SumFunctionOnSet(f, S) =< SumFunctionOnSet(g, S)
<1> DEFINE P == {A \in SUBSET S : SumFunctionOnSet(f, A) =< SumFunctionOnSet(g, A)}
<1>1. {} \in P BY SumEmpty
<1>2. ASSUME NEW A \in SUBSET S, A # {}, \A x \in A : A \ {x} \in P PROVE A \in P
  <2>1. Pick(A) \in A BY <1>2 DEF Pick
  <2> DEFINE B == A \ {Pick(A)}
  <2>2. SumFunctionOnSet(f, B) =< SumFunctionOnSet(g, B) BY <2>1, <1>2
  <2>3. IsFiniteSet(A) /\ IsFiniteSet(B) BY FS_Subset
  <2>4. /\ SumFunctionOnSet(f, A) = f[Pick(A)] + SumFunctionOnSet(f, B)
        /\ SumFunctionOnSet(g, A) = g[Pick(A)] + SumFunctionOnSet(g, B)
    BY <1>2, <2>3, SumPick
  <2>5. \A x \in B : f[x] \in Int /\ g[x] \in Int OBVIOUS
  <2> HIDE DEF B
  <2>6. SumFunctionOnSet(f, B) \in Int /\ SumFunctionOnSet(g, B) \in Int
    BY <2>3, <2>5, SumInt
  <2>7. f[Pick(A)] \in Int /\ g[Pick(A)] \in Int /\ f[Pick(A)] =< g[Pick(A)] BY <2>1
  <2> QED BY <2>2, <2>4, <2>6, <2>7
<1>3. S \in P
  <2> HIDE DEF P
  <2> QED BY <1>1, <1>2, FiniteSetInductionOnSet
<1> QED BY <1>3

(* Functions that differ at one place have sums that differ by as much. *)
LEMMA SumChangedAt ==
  ASSUME NEW f, NEW g, NEW S, IsFiniteSet(S), \A x \in S : f[x] \in Int /\ g[x] \in Int,
         NEW y, \A x \in S : x # y => g[x] = f[x]
  PROVE  /\ SumFunctionOnSet(f, S) \in Int /\ SumFunctionOnSet(g, S) \in Int
         /\ y \in S => SumFunctionOnSet(g, S) = SumFunctionOnSet(f, S) + (g[y] - f[y])
         /\ y \notin S => SumFunctionOnSet(g, S) = SumFunctionOnSet(f, S)
<1>1. SumFunctionOnSet(f, S) \in Int /\ SumFunctionOnSet(g, S) \in Int
  BY SumInt
<1>2. ASSUME y \notin S PROVE SumFunctionOnSet(g, S) = SumFunctionOnSet(f, S)
  BY <1>2, SumEqual
<1>3. ASSUME y \in S
      PROVE  SumFunctionOnSet(g, S) = SumFunctionOnSet(f, S) + (g[y] - f[y])
  <2> DEFINE T == S \ {y}
  <2>1. IsFiniteSet(T) /\ \A x \in T : g[x] = f[x] /\ f[x] \in Int BY FS_Subset
  <2>2. /\ SumFunctionOnSet(f, S) = f[y] + SumFunctionOnSet(f, T)
        /\ SumFunctionOnSet(g, S) = g[y] + SumFunctionOnSet(g, T)
    BY <1>3, SumRemove
  <2> HIDE DEF T
  <2>3. SumFunctionOnSet(g, T) = SumFunctionOnSet(f, T) BY <2>1, SumEqual
  <2>4. SumFunctionOnSet(f, T) \in Int BY <2>1, SumInt
  <2> QED BY <1>3, <2>2, <2>3, <2>4
<1> QED BY <1>1, <1>2, <1>3

(* A sum, taken part by part, is the sum of the sums of the parts. *)
LEMMA SumByParts ==
  ASSUME NEW f, NEW S, IsFiniteSet(S), \A x \in S : f[x] \in Int,
         NEW part, NEW K, IsFiniteSet(K), \A x \in S : part[x] \in K,
         NEW of, \A k \in K : \A x : x \in of[k] <=> x \in S /\ part[x] = k,
         NEW g, \A k \in K : g[k] = SumFunctionOnSet(f, of[k])
  PROVE  SumFunctionOnSet(g, K) = SumFunctionOnSet(f, S)
<1> DEFINE In(A) == {x \in S : part[x] \in A}
           P == {A \in SUBSET K : SumFunctionOnSet(g, A) = SumFunctionOnSet(f, In(A))}
<1>0. \A k \in K : g[k] = SumFunctionOnSet(f, {x \in S : part[x] = k})
  <2> SUFFICES ASSUME NEW k \in K PROVE of[k] = {x \in S : part[x] = k}
    OBVIOUS
  <2> QED OBVIOUS
<1>1. {} \in P
  <2>1. In({}) = {} OBVIOUS
  <2> HIDE DEF In
  <2> QED BY <2>1, SumEmpty
<1>2. ASSUME NEW A \in SUBSET K, A # {}, \A x \in A : A \ {x} \in P PROVE A \in P
  <2>1. PICK y : y \in A BY <1>2
  <2> DEFINE B == A \ {y}
             C == {x \in S : part[x] = y}
  <2>2. SumFunctionOnSet(g, B) = SumFunctionOnSet(f, In(B)) BY <2>1, <1>2
  <2>3. IsFiniteSet(B) /\ A = B \cup {y} /\ y \notin B BY <2>1, FS_Subset
  <2>4. /\ IsFiniteSet(In(B)) /\ IsFiniteSet(C)
    BY FS_Subset
  <2>5. /\ In(B) \cap C = {} /\ In(A) = In(B) \cup C
        /\ \A x \in In(B) : f[x] \in Int
        /\ \A x \in C : f[x] \in Int
        /\ \A x \in In(B) \cup C : f[x] \in Int
    BY <2>1
  <2>6. g[y] = SumFunctionOnSet(f, C) BY <1>0, <2>1
  <2>7. \A k \in B \cup {y} : g[k] \in Int
    <3> SUFFICES ASSUME NEW k \in K PROVE g[k] \in Int BY <2>1
    <3> DEFINE D == {x \in S : part[x] = k}
    <3>1. IsFiniteSet(D) /\ \A x \in D : f[x] \in Int BY FS_Subset
    <3>2. g[k] = SumFunctionOnSet(f, D) BY <1>0
    <3> HIDE DEF D
    <3> QED BY <3>1, <3>2, SumInt
  <2> HIDE DEF B, C, In
  <2>8. SumFunctionOnSet(f, In(A)) = SumFunctionOnSet(f, In(B)) + SumFunctionOnSet(f, C)
    BY <2>4, <2>5, SumUnion
  <2>9. SumFunctionOnSet(g, A) = g[y] + SumFunctionOnSet(g, B)
    BY <2>3, <2>7, SumAdd
  <2>10. SumFunctionOnSet(f, In(B)) \in Int /\ SumFunctionOnSet(f, C) \in Int
    BY <2>4, <2>5, SumInt
  <2> QED BY <2>2, <2>6, <2>8, <2>9, <2>10
<1>3. K \in P
  <2> HIDE DEF P
  <2> QED BY <1>1, <1>2, FiniteSetInductionOnSet
<1>4. In(K) = S OBVIOUS
<1> QED BY <1>3, <1>4

(* A sum whose nonzero terms are those of C, over the image of C under an  *)
(* injective renaming b.                                                   *)
LEMMA SumReindexed ==
  ASSUME NEW f, NEW H, IsFiniteSet(H), DOMAIN f = H, \A x \in H : f[x] \in Nat,
         NEW C \in SUBSET H, \A x \in H \ C : f[x] = 0,
         NEW b, \A x, y \in C : b[x] = b[y] => x = y,
         NEW g, \A x \in C : b[x] \in DOMAIN g /\ g[b[x]] = f[x],
         \A y \in DOMAIN g : \E x \in C : y = b[x]
  PROVE  /\ SumFunction(g) = SumFunction(f)
         /\ SumFunction(f) \in Nat
         /\ \A x \in H : f[x] =< SumFunction(f)
         /\ C = {} => SumFunction(f) = 0
<1>1. SumFunction(f) = SumFunctionOnSet(f, H) BY DEF SumFunction
<1>2. SumFunction(g) = SumFunctionOnSet(g, {b[x] : x \in C})
  <2> DEFINE I == {b[x] : x \in C}
  <2>1. \A y \in DOMAIN g : y \in I OBVIOUS
  <2>2. \A y \in I : y \in DOMAIN g OBVIOUS
  <2>3. DOMAIN g = I
    <3> HIDE DEF I
    <3> QED BY <2>1, <2>2
  <2> QED BY <2>3 DEF SumFunction
<1>3. IsFiniteSet(C) /\ (\A x \in C : f[x] \in Int) /\ (\A x \in H : f[x] \in Int)
  BY FS_Subset
<1>4. SumFunctionOnSet(g, {b[x] : x \in C}) = SumFunctionOnSet(f, C)
  BY <1>3, SumOfImage
<1>5. SumFunctionOnSet(f, H) = SumFunctionOnSet(f, C) BY <1>3, SumOfSubset
<1>6. SumFunctionOnSet(f, H) \in Nat BY SumNat
<1>7. \A x \in H : f[x] =< SumFunctionOnSet(f, H) BY SumAtLeast
<1>8. C = {} => SumFunctionOnSet(f, C) = 0 BY SumEmpty
<1> QED BY <1>1, <1>2, <1>4, <1>5, <1>6, <1>7, <1>8

Reindexes(f, H, C, b, g) ==
  /\ IsFiniteSet(H) /\ DOMAIN f = H /\ C \in SUBSET H
  /\ \A x \in H : f[x] \in Nat
  /\ \A x \in H \ C : f[x] = 0
  /\ \A x, y \in C : b[x] = b[y] => x = y
  /\ \A x \in C : b[x] \in DOMAIN g /\ g[b[x]] = f[x]
  /\ \A y \in DOMAIN g : \E x \in C : y = b[x]

(* A function that is the other one reindexed, zeros left out, has its sum. *)
LEMMA SumReindexes ==
  ASSUME NEW f, NEW H, NEW C, NEW b, NEW g, Reindexes(f, H, C, b, g)
  PROVE  SumFunction(g) = SumFunction(f)
<1>1. /\ IsFiniteSet(H) /\ DOMAIN f = H /\ C \in SUBSET H
      /\ \A x \in H : f[x] \in Nat
      /\ \A x \in H \ C : f[x] = 0
      /\ \A x, y \in C : b[x] = b[y] => x = y
      /\ \A x \in C : b[x] \in DOMAIN g /\ g[b[x]] = f[x]
      /\ \A y \in DOMAIN g : \E x \in C : y = b[x]
  BY DEF Reindexes
<1> QED BY <1>1, SumReindexed

-----------------------------------------------------------------------------
(* The pairs of R order S strictly and totally. *)
IsStrictTotalOrder(R, S) ==
  /\ \A x, y \in S : <<x, y>> \in R => <<y, x>> \notin R
  /\ \A x, y, z \in S : <<x, y>> \in R /\ <<y, z>> \in R => <<x, z>> \in R
  /\ \A x, y \in S : x = y \/ <<x, y>> \in R \/ <<y, x>> \in R

(* In a finite strict total order an element has a smaller rank than those
   it precedes, and ranks stay below the number of elements. *)
LEMMA RankMonotone ==
  ASSUME NEW S, IsFiniteSet(S), NEW R, IsStrictTotalOrder(R, S)
  PROVE  /\ \A x \in S : Rank(x, S, R) \in 0 .. Cardinality(S) - 1
         /\ \A x, y \in S : <<x, y>> \in R => Rank(x, S, R) < Rank(y, S, R)
<1> DEFINE P(x) == {y \in S : <<y, x>> \in R}
<1>1. \A x \in S : IsFiniteSet(P(x)) /\ Cardinality(P(x)) \in Nat
  BY FS_Subset, FS_CardinalityType
<1>2. ASSUME NEW x \in S
      PROVE  Cardinality(P(x)) \in 0 .. Cardinality(S) - 1
  <2>1. P(x) \in SUBSET (S \ {x}) BY DEF IsStrictTotalOrder
  <2>2. IsFiniteSet(S \ {x}) /\ Cardinality(S \ {x}) = Cardinality(S) - 1
    BY FS_RemoveElement
  <2>3. Cardinality(P(x)) =< Cardinality(S \ {x})
    <3> HIDE DEF P
    <3> QED BY <2>1, <2>2, FS_Subset
  <2>4. Cardinality(S) \in Nat BY FS_CardinalityType
  <2> HIDE DEF P
  <2> QED BY <1>1, <2>2, <2>3, <2>4
<1>3. ASSUME NEW x \in S, NEW y \in S, <<x, y>> \in R
      PROVE  Cardinality(P(x)) < Cardinality(P(y))
  <2>1. P(x) \cup {x} \in SUBSET P(y) /\ x \notin P(x)
    BY <1>3 DEF IsStrictTotalOrder
  <2> HIDE DEF P
  <2>2. Cardinality(P(x) \cup {x}) = Cardinality(P(x)) + 1
    BY <1>1, <2>1, FS_AddElement
  <2>3. Cardinality(P(x) \cup {x}) =< Cardinality(P(y))
    BY <1>1, <2>1, FS_Subset
  <2> QED BY <1>1, <2>2, <2>3
<1> QED BY <1>2, <1>3 DEF Rank

(* Every rank is some element's. *)
LEMMA RankOnto ==
  ASSUME NEW S, IsFiniteSet(S), NEW R, IsStrictTotalOrder(R, S),
         NEW i \in 1 .. Cardinality(S)
  PROVE  \E x \in S : Rank(x, S, R) = i - 1
<1> DEFINE n == Cardinality(S)
           T == 0 .. n - 1
           rank == [x \in S |-> Rank(x, S, R)]
<1>1. n \in Nat BY FS_CardinalityType
<1>2. IsFiniteSet(T) /\ Cardinality(T) = n
  <2> HIDE DEF n
  <2> QED BY <1>1, FS_Interval
<1>3. rank \in [S -> T] BY RankMonotone
<1>4. \A x, y \in S : rank[x] = rank[y] => x = y
  <2> SUFFICES ASSUME NEW x \in S, NEW y \in S, x # y PROVE rank[x] # rank[y]
    OBVIOUS
  <2>1. <<x, y>> \in R \/ <<y, x>> \in R BY DEF IsStrictTotalOrder
  <2>2. /\ <<x, y>> \in R => Rank(x, S, R) < Rank(y, S, R)
        /\ <<y, x>> \in R => Rank(y, S, R) < Rank(x, S, R)
        /\ Rank(x, S, R) \in Int /\ Rank(y, S, R) \in Int
    BY RankMonotone
  <2> QED BY <2>1, <2>2
<1> HIDE DEF T, rank
<1>5. rank \in Injection(S, T) BY <1>3, <1>4, Fun_IsInj
<1>6. rank \in Surjection(S, T) BY <1>2, <1>5, FS_Injection
<1>7. i - 1 \in T BY <1>1 DEF T
<1>8. \E x \in S : rank[x] = i - 1 BY <1>6, <1>7, Fun_SurjectionProperties
<1> QED BY <1>8 DEF rank

(* InOrder lists every element once, each before those it precedes. *)
LEMMA InOrderProperties ==
  ASSUME NEW S, IsFiniteSet(S), NEW R, IsStrictTotalOrder(R, S)
  PROVE  /\ Cardinality(S) \in Nat
         /\ InOrder(S, R) \in [1 .. Cardinality(S) -> S]
         /\ \A i \in 1 .. Cardinality(S) : Rank(InOrder(S, R)[i], S, R) = i - 1
         /\ \A x \in S : \E i \in 1 .. Cardinality(S) : InOrder(S, R)[i] = x
         /\ \A i, j \in 1 .. Cardinality(S) : i < j <=> <<InOrder(S, R)[i], InOrder(S, R)[j]>> \in R
<1> DEFINE n == Cardinality(S)
           L == InOrder(S, R)
<1>1. n \in Nat BY FS_CardinalityType
<1>2. ASSUME NEW i \in 1 .. n PROVE L[i] \in S /\ Rank(L[i], S, R) = i - 1
  BY RankOnto DEF InOrder
<1>3. L \in [1 .. n -> S]
  <2>1. L = [i \in 1 .. n |-> L[i]] BY DEF InOrder
  <2> HIDE DEF L, n
  <2> QED BY <1>2, <2>1
<1>4. ASSUME NEW i \in 1 .. n, NEW j \in 1 .. n, <<L[i], L[j]>> \in R PROVE i < j
  <2>1. L[i] \in S /\ L[j] \in S BY <1>2
  <2>2. Rank(L[i], S, R) < Rank(L[j], S, R)
    <3> HIDE DEF L
    <3> QED BY <2>1, <1>4, RankMonotone
  <2> HIDE DEF L, n
  <2> QED BY <1>1, <1>2, <2>2
<1>5. ASSUME NEW i \in 1 .. n, NEW j \in 1 .. n, i < j PROVE <<L[i], L[j]>> \in R
  <2>1. L[i] \in S /\ L[j] \in S BY <1>2
  <2>2. L[i] # L[j]
    <3> HIDE DEF L, n
    <3> QED BY <1>1, <1>2, <1>5
  <2>3. <<L[j], L[i]>> \notin R
    <3> HIDE DEF L
    <3>1. <<L[j], L[i]>> \in R => j < i BY <1>4
    <3> QED BY <1>1, <1>5, <3>1
  <2> HIDE DEF L
  <2> QED BY <2>1, <2>2, <2>3 DEF IsStrictTotalOrder
<1>6. ASSUME NEW x \in S PROVE \E i \in 1 .. n : L[i] = x
  <2>1. Rank(x, S, R) \in 0 .. n - 1 BY RankMonotone
  <2>2. PICK i \in 1 .. n : i - 1 = Rank(x, S, R)
    <3> DEFINE r == Rank(x, S, R)
    <3> HIDE DEF r, n
    <3>1. r \in 0 .. n - 1 BY <2>1 DEF r
    <3>2. r + 1 \in 1 .. n /\ (r + 1) - 1 = r BY <1>1, <3>1
    <3> QED BY <3>2 DEF r
  <2>3. L[i] \in S /\ Rank(L[i], S, R) = Rank(x, S, R) BY <1>2, <2>2
  <2>4. L[i] = x
    <3> HIDE DEF L
    <3>1. /\ <<L[i], x>> \in R => Rank(L[i], S, R) < Rank(x, S, R)
          /\ <<x, L[i]>> \in R => Rank(x, S, R) < Rank(L[i], S, R)
          /\ Rank(x, S, R) \in Int /\ Rank(L[i], S, R) \in Int
      BY <2>3, RankMonotone
    <3> QED BY <2>3, <3>1 DEF IsStrictTotalOrder
  <2> QED BY <2>4
<1> QED BY <1>1, <1>2, <1>3, <1>4, <1>5, <1>6

(* Numbers are in their order strictly and totally. *)
LEMMA AscendingOrders ==
  ASSUME NEW S \in SUBSET Int
  PROVE  /\ IsStrictTotalOrder(Ascending(S), S)
         /\ \A x, y \in S : <<x, y>> \in Ascending(S) <=> x < y
<1>1. \A x, y \in S : <<x, y>> \in Ascending(S) <=> x < y
  BY DEF Ascending
<1> QED BY <1>1 DEF IsStrictTotalOrder

(* e lists the numbers of P in their order. *)
Enumerates(e, m, P) ==
  /\ m \in Nat /\ e \in [1 .. m -> P]
  /\ \A x \in P : \E j \in 1 .. m : e[j] = x
  /\ \A i, j \in 1 .. m : i < j <=> e[i] < e[j]

ReadAt(s, e, m) == [j \in 1 .. m |-> s[e[j]]]

(* A selection has the elements at the selected positions, in their order. *)
LEMMA SelectionProperties ==
  ASSUME NEW s, NEW n \in Nat, NEW P \in SUBSET (1 .. n)
  PROVE  \E e, m : Enumerates(e, m, P) /\ Selection(s, P) = ReadAt(s, e, m)
<1> DEFINE e == InOrder(P, Ascending(P))
           m == Cardinality(P)
<1>1. P \in SUBSET Int /\ IsFiniteSet(P)
  <2>1. IsFiniteSet(1 .. n) BY FS_Interval
  <2>2. IsFiniteSet(P) BY <2>1, FS_Subset
  <2> QED BY <2>2
<1>2. /\ IsStrictTotalOrder(Ascending(P), P)
      /\ \A x, y \in P : <<x, y>> \in Ascending(P) <=> x < y
  BY <1>1, AscendingOrders
<1>3. /\ m \in Nat /\ e \in [1 .. m -> P]
      /\ \A x \in P : \E j \in 1 .. m : e[j] = x
      /\ \A i, j \in 1 .. m : i < j <=> <<e[i], e[j]>> \in Ascending(P)
  BY <1>1, <1>2, InOrderProperties
<1>4. Selection(s, P) = [j \in DOMAIN e |-> s[e[j]]] BY DEF Selection
<1> HIDE DEF e, m
<1>5. \A i, j \in 1 .. m : i < j <=> e[i] < e[j] BY <1>2, <1>3
<1>6. Selection(s, P) = ReadAt(s, e, m) BY <1>3, <1>4 DEF ReadAt
<1>7. Enumerates(e, m, P) BY <1>3, <1>5 DEF Enumerates
<1> QED BY <1>6, <1>7

-----------------------------------------------------------------------------
(* What the operators of InsertionMap return, for every map, key and value. *)

(* Splicing a position out shifts what follows it down by one. *)
LEMMA WithoutProperties ==
  ASSUME NEW S, NEW m \in Seq(S), NEW i \in 1 .. Len(m)
  PROVE  /\ Without(m, i) \in Seq(S)
         /\ Len(Without(m, i)) = Len(m) - 1
         /\ \A j \in 1 .. Len(m) - 1 :
              Without(m, i)[j] = IF j < i THEN m[j] ELSE m[j + 1]
<1> DEFINE front == SubSeq(m, 1, i - 1)
           back  == SubSeq(m, i + 1, Len(m))
<1>1. /\ front \in Seq(S) /\ Len(front) = i - 1
      /\ \A j \in 1 .. i - 1 : front[j] = m[j]
  OBVIOUS
<1>2. /\ back \in Seq(S) /\ Len(back) = Len(m) - i
      /\ \A j \in 1 .. Len(m) - i : back[j] = m[i + j]
  OBVIOUS
<1>3. /\ front \o back \in Seq(S) /\ Len(front \o back) = Len(m) - 1
      /\ \A j \in 1 .. Len(m) - 1 :
           (front \o back)[j] = IF j =< i - 1 THEN front[j] ELSE back[j - (i - 1)]
  <2> HIDE DEF front, back
  <2> QED BY <1>1, <1>2, ConcatProperties
<1>4. \A j \in 1 .. Len(m) - 1 : (front \o back)[j] = IF j < i THEN m[j] ELSE m[j + 1]
  <2> HIDE DEF front, back
  <2> TAKE j \in 1 .. Len(m) - 1
  <2>1. CASE j < i
    BY <2>1, <1>1, <1>3
  <2>2. CASE ~ (j < i)
    <3>1. j - (i - 1) \in 1 .. Len(m) - i /\ i + (j - (i - 1)) = j + 1
      BY <2>2
    <3> QED BY <2>2, <3>1, <1>2, <1>3
  <2> QED BY <2>1, <2>2
<1> QED BY <1>3, <1>4 DEF Without

(* The position of a key that a map has is one of its positions. *)
LEMMA PositionOfKey ==
  ASSUME NEW m, NEW k, Has(m, k)
  PROVE  Position(m, k) \in DOMAIN m /\ m[Position(m, k)].key = k
BY DEF Has, Position

(* In a map a key has no other position. *)
LEMMA LookupOfKey ==
  ASSUME NEW K, NEW V, NEW m \in InsertionMaps(K, V), NEW i \in DOMAIN m
  PROVE  Position(m, m[i].key) = i /\ Lookup(m, m[i].key) = m[i].val
<1>1. Has(m, m[i].key)
  BY DEF Has
<1>2. Position(m, m[i].key) = i
  BY <1>1, PositionOfKey DEF InsertionMaps, KeysOnce
<1> QED BY <1>2 DEF Lookup

(***************************************************************************)
(* Map.delete: the result is a map without the key, one entry shorter when *)
(* the key was there, and all its entries are entries of the old map.      *)
(***************************************************************************)
LEMMA DeleteProperties ==
  ASSUME NEW K, NEW V, NEW m \in InsertionMaps(K, V), NEW k
  PROVE  /\ Delete(m, k) \in InsertionMaps(K, V)
         /\ ~ Has(Delete(m, k), k)
         /\ Len(Delete(m, k)) = IF Has(m, k) THEN Len(m) - 1 ELSE Len(m)
         /\ \A j \in DOMAIN Delete(m, k) : \E i \in DOMAIN m : Delete(m, k)[j] = m[i]
<1>1. m \in Seq(Entries(K, V)) /\ KeysOnce(m)
  BY DEF InsertionMaps
<1>2. CASE ~ Has(m, k)
  BY <1>1, <1>2 DEF Delete
<1>3. CASE Has(m, k)
  <2> DEFINE i == Position(m, k)
             d == Without(m, i)
  <2>1. i \in 1 .. Len(m) /\ m[i].key = k
    BY <1>1, <1>3, PositionOfKey
  <2>2. /\ d \in Seq(Entries(K, V)) /\ Len(d) = Len(m) - 1
        /\ \A j \in 1 .. Len(m) - 1 : d[j] = IF j < i THEN m[j] ELSE m[j + 1]
    <3> HIDE DEF i
    <3> QED BY <1>1, <2>1, WithoutProperties
  <2>3. Delete(m, k) = d
    BY <1>3 DEF Delete
  <2>4. DOMAIN d = 1 .. Len(m) - 1 /\ DOMAIN m = 1 .. Len(m) /\ Len(m) \in Nat
    <3> HIDE DEF d
    <3> QED BY <1>1, <2>2
  <2> DEFINE from(j) == IF j < i THEN j ELSE j + 1
  <2>5. \A j \in 1 .. Len(m) - 1 :
          from(j) \in 1 .. Len(m) /\ from(j) # i /\ d[j] = m[from(j)]
    <3> HIDE DEF d, i
    <3> QED BY <2>1, <2>2, <2>4
  <2>6. KeysOnce(d)
    <3> SUFFICES ASSUME NEW a \in 1 .. Len(m) - 1, NEW b \in 1 .. Len(m) - 1,
                        d[a].key = d[b].key
                 PROVE  a = b
      BY <2>4 DEF KeysOnce
    <3>1. from(a) = from(b)
      <4> HIDE DEF d, i, from
      <4> QED BY <1>1, <2>4, <2>5 DEF KeysOnce
    <3> HIDE DEF d, i
    <3> QED BY <2>1, <3>1
  <2>7. ~ Has(d, k)
    <3> SUFFICES ASSUME NEW a \in 1 .. Len(m) - 1, d[a].key = k
                 PROVE  FALSE
      BY <2>4 DEF Has
    <3> HIDE DEF d, i, from
    <3> QED BY <1>1, <2>1, <2>4, <2>5 DEF KeysOnce
  <2>8. \A j \in DOMAIN d : \E l \in DOMAIN m : d[j] = m[l]
    <3> HIDE DEF d, i, from
    <3> QED BY <2>4, <2>5
  <2> HIDE DEF d
  <2> QED BY <1>3, <2>2, <2>3, <2>6, <2>7, <2>8 DEF InsertionMaps
<1> QED BY <1>2, <1>3

(***************************************************************************)
(* Map.set: the result is a map, one entry longer when the key was absent, *)
(* and each of its entries is the new one or one of the old map.           *)
(***************************************************************************)
LEMMA PutProperties ==
  ASSUME NEW K, NEW V, NEW m \in InsertionMaps(K, V), NEW k \in K, NEW v \in V
  PROVE  /\ Put(m, k, v) \in InsertionMaps(K, V)
         /\ Len(Put(m, k, v)) = IF Has(m, k) THEN Len(m) ELSE Len(m) + 1
         /\ \A j \in DOMAIN Put(m, k, v) :
              \/ Put(m, k, v)[j] = [key |-> k, val |-> v]
              \/ \E i \in DOMAIN m : Put(m, k, v)[j] = m[i]
<1> DEFINE e == [key |-> k, val |-> v]
           p == Put(m, k, v)
<1>1. m \in Seq(Entries(K, V)) /\ KeysOnce(m) /\ e \in Entries(K, V)
  BY DEF InsertionMaps, Entries
<1>2. CASE Has(m, k)
  <2> DEFINE i == Position(m, k)
  <2>1. i \in 1 .. Len(m) /\ m[i].key = k
    BY <1>1, <1>2, PositionOfKey
  <2>2. p = [m EXCEPT ![i] = e]
    BY <1>2 DEF Put
  <2>3. /\ p \in Seq(Entries(K, V)) /\ Len(p) = Len(m)
        /\ \A j \in 1 .. Len(m) : p[j] = IF j = i THEN e ELSE m[j]
    <3> HIDE DEF e, i, p
    <3> QED BY <1>1, <2>1, <2>2, ExceptSeq
  <2>4. \A j \in 1 .. Len(m) : p[j].key = m[j].key
    <3>1. e.key = k
      OBVIOUS
    <3> HIDE DEF e, i, p
    <3> QED BY <2>1, <2>3, <3>1
  <2>5. DOMAIN p = 1 .. Len(m) /\ DOMAIN m = 1 .. Len(m)
    <3> HIDE DEF e, i, p
    <3> QED BY <1>1, <2>3
  <2>6. KeysOnce(p)
    <3> HIDE DEF e, i, p
    <3> QED BY <1>1, <2>4, <2>5 DEF KeysOnce
  <2> HIDE DEF i, p, e
  <2>7. p \in InsertionMaps(K, V) /\ Len(p) = Len(m)
        /\ \A j \in DOMAIN p : p[j] = e \/ \E l \in DOMAIN m : p[j] = m[l]
    BY <2>3, <2>5, <2>6 DEF InsertionMaps
  <2> USE DEF p, e
  <2> QED BY <1>2, <2>7
<1>3. CASE ~ Has(m, k)
  <2>1. p = Append(m, e)
    BY <1>3 DEF Put
  <2>2. /\ p \in Seq(Entries(K, V)) /\ Len(p) = Len(m) + 1
        /\ DOMAIN p = 1 .. Len(m) + 1 /\ DOMAIN m = 1 .. Len(m) /\ Len(m) \in Nat
        /\ \A j \in 1 .. Len(m) : p[j] = m[j]
        /\ p[Len(m) + 1] = e
    <3> HIDE DEF e, p
    <3> QED BY <1>1, <2>1
  <2>3. e.key = k /\ \A j \in 1 .. Len(m) : m[j].key # k
    BY <1>3, <2>2 DEF Has
  <2>4. KeysOnce(p)
    <3> HIDE DEF e, p
    <3> QED BY <1>1, <2>2, <2>3 DEF KeysOnce
  <2> HIDE DEF p, e
  <2>5. p \in InsertionMaps(K, V) /\ Len(p) = Len(m) + 1
        /\ \A j \in DOMAIN p : p[j] = e \/ \E l \in DOMAIN m : p[j] = m[l]
    BY <2>2, <2>4 DEF InsertionMaps
  <2> USE DEF p, e
  <2> QED BY <1>3, <2>5
<1> QED BY <1>2, <1>3

(***************************************************************************)
(* Deleting the oldest key: one entry fewer, unless the map was empty.     *)
(***************************************************************************)
LEMMA DropOldestProperties ==
  ASSUME NEW K, NEW V, NEW m \in InsertionMaps(K, V)
  PROVE  /\ DropOldest(m) \in InsertionMaps(K, V)
         /\ Len(DropOldest(m)) = IF m = << >> THEN 0 ELSE Len(m) - 1
         /\ \A j \in DOMAIN DropOldest(m) : \E i \in DOMAIN m : DropOldest(m)[j] = m[i]
<1>1. m \in Seq(Entries(K, V)) /\ KeysOnce(m)
  BY DEF InsertionMaps
<1>2. CASE m = << >>
  BY <1>1, <1>2 DEF DropOldest, InsertionMaps
<1>3. CASE m # << >>
  <2> DEFINE t == Tail(m)
  <2>1. /\ t \in Seq(Entries(K, V)) /\ Len(t) = Len(m) - 1 /\ Len(m) \in Nat \ {0}
        /\ DOMAIN t = 1 .. Len(m) - 1 /\ DOMAIN m = 1 .. Len(m)
        /\ \A j \in 1 .. Len(m) - 1 : t[j] = m[j + 1]
    BY <1>1, <1>3
  <2> HIDE DEF t
  <2>2. KeysOnce(t)
    <3> SUFFICES ASSUME NEW a \in 1 .. Len(m) - 1, NEW b \in 1 .. Len(m) - 1,
                        t[a].key = t[b].key
                 PROVE  a = b
      BY <2>1 DEF KeysOnce
    <3>1. a + 1 \in 1 .. Len(m) /\ b + 1 \in 1 .. Len(m) /\ m[a + 1].key = m[b + 1].key
      BY <2>1
    <3>2. a + 1 = b + 1
      BY <1>1, <2>1, <3>1 DEF KeysOnce
    <3> QED BY <2>1, <3>2
  <2>3. \A j \in DOMAIN t : \E i \in DOMAIN m : t[j] = m[i]
    <3> SUFFICES ASSUME NEW j \in 1 .. Len(m) - 1
                 PROVE  \E i \in 1 .. Len(m) : t[j] = m[i]
      BY <2>1
    <3> WITNESS j + 1 \in 1 .. Len(m)
    <3> QED BY <2>1
  <2>4. DropOldest(m) = t
    BY <1>3 DEF DropOldest, t
  <2> QED BY <1>3, <2>1, <2>2, <2>3, <2>4 DEF InsertionMaps
<1> QED BY <1>2, <1>3

-----------------------------------------------------------------------------
(***************************************************************************)
(* FlattenSeq is defined by recursion; here it is reduced to what it does  *)
(* with one more element.                                                  *)
(***************************************************************************)
FlattensTo(f, s, n) == f = [i \in 1 .. n |-> IF i = 1 THEN s[i] ELSE f[i - 1] \o s[i]]

(* FlattenSeq, unfolded to the recursive function that computes it. *)
LEMMA FlattenIter ==
  ASSUME NEW s, Len(s) # 0
  PROVE  FlattenSeq(s) = (CHOOSE f : FlattensTo(f, s, Len(s)))[Len(s)]
BY DEF FlattenSeq, FlattensTo

(* That function exists for every length. *)
LEMMA FlattensExists ==
  ASSUME NEW s, NEW n \in Nat
  PROVE  \E f : FlattensTo(f, s, n)
<1> DEFINE N == {k \in Nat : \E f : FlattensTo(f, s, k)}
<1>1. 0 \in N
  <2>1. FlattensTo([i \in 1 .. 0 |-> 0], s, 0) BY DEF FlattensTo
  <2> QED BY <2>1
<1>2. ASSUME NEW k \in Nat, k \in N PROVE k + 1 \in N
  <2>1. PICK f : FlattensTo(f, s, k) BY <1>2
  <2> DEFINE h == [i \in 1 .. k + 1 |-> IF i = 1 THEN s[i] ELSE f[i - 1] \o s[i]]
  <2>2. ASSUME NEW i \in 1 .. k PROVE f[i] = h[i]
    <3>1. i \in 1 .. k + 1 OBVIOUS
    <3>2. f[i] = IF i = 1 THEN s[i] ELSE f[i - 1] \o s[i] BY <2>1 DEF FlattensTo
    <3> QED BY <3>1, <3>2
  <2>3. \A i \in 1 .. k + 1 : i # 1 => i - 1 \in 1 .. k OBVIOUS
  <2>4. \A i \in 1 .. k + 1 : i # 1 => f[i - 1] = h[i - 1] BY <2>2, <2>3
  <2>5. h = [i \in 1 .. k + 1 |-> IF i = 1 THEN s[i] ELSE h[i - 1] \o s[i]]
    BY <2>4
  <2> HIDE DEF h
  <2>6. FlattensTo(h, s, k + 1) BY <2>5 DEF FlattensTo
  <2>7. k + 1 \in Nat OBVIOUS
  <2> QED BY <2>6, <2>7
<1>3. Nat \subseteq N
  <2> HIDE DEF N
  <2> QED BY <1>1, <1>2, NatInductionOnSet
<1> QED BY <1>3

(* Its value at each place. *)
LEMMA FlattensAt ==
  ASSUME NEW f, NEW s, NEW n \in Nat, FlattensTo(f, s, n)
  PROVE  \A i \in 1 .. n : f[i] = IF i = 1 THEN s[i] ELSE f[i - 1] \o s[i]
<1> TAKE i \in 1 .. n
<1> DEFINE F == [j \in 1 .. n |-> IF j = 1 THEN s[j] ELSE f[j - 1] \o s[j]]
<1>1. f = F BY DEF FlattensTo
<1>2. F[i] = IF i = 1 THEN s[i] ELSE f[i - 1] \o s[i] OBVIOUS
<1> HIDE DEF F
<1> QED BY <1>1, <1>2

(* Its last value. *)
LEMMA FlattensLast ==
  ASSUME NEW f, NEW s, NEW k \in Nat, FlattensTo(f, s, k + 1)
  PROVE  f[k + 1] = IF k + 1 = 1 THEN s[k + 1] ELSE f[k + 1 - 1] \o s[k + 1]
<1>1. k + 1 \in Nat /\ k + 1 \in 1 .. k + 1 OBVIOUS
<1>2. \A i \in 1 .. k + 1 : f[i] = IF i = 1 THEN s[i] ELSE f[i - 1] \o s[i]
  BY <1>1, FlattensAt
<1> QED BY <1>1, <1>2

(* Its values are sequences and depend on what comes before them only. *)
LEMMA FlattensAgree ==
  ASSUME NEW X, NEW s \in Seq(Seq(X)), NEW t, NEW n \in Nat, NEW m \in Nat,
         n =< Len(s), n =< m, \A i \in 1 .. n : s[i] = t[i],
         NEW f, FlattensTo(f, s, n), NEW g, FlattensTo(g, t, m)
  PROVE  \A i \in 1 .. n : f[i] = g[i] /\ f[i] \in Seq(X)
<1> DEFINE N == {k \in Nat : k \in 1 .. n => f[k] = g[k] /\ f[k] \in Seq(X)}
<1>1. 0 \in N OBVIOUS
<1>2. ASSUME NEW k \in Nat, k \in N PROVE k + 1 \in N
  <2> SUFFICES ASSUME k + 1 \in 1 .. n
               PROVE  f[k + 1] = g[k + 1] /\ f[k + 1] \in Seq(X)
    OBVIOUS
  <2>1. k + 1 \in 1 .. Len(s) /\ k + 1 \in 1 .. m /\ k + 1 - 1 = k OBVIOUS
  <2>2. s[k + 1] \in Seq(X) /\ s[k + 1] = t[k + 1] BY <2>1
  <2>3. /\ f[k + 1] = IF k + 1 = 1 THEN s[k + 1] ELSE f[k] \o s[k + 1]
        /\ g[k + 1] = IF k + 1 = 1 THEN t[k + 1] ELSE g[k] \o t[k + 1]
    <3>1. /\ \A i \in 1 .. n : f[i] = IF i = 1 THEN s[i] ELSE f[i - 1] \o s[i]
          /\ \A i \in 1 .. m : g[i] = IF i = 1 THEN t[i] ELSE g[i - 1] \o t[i]
      <4>1. FlattensTo(f, s, n) /\ FlattensTo(g, t, m) OBVIOUS
      <4> HIDE DEF N
      <4> QED BY <4>1, FlattensAt
    <3>2. /\ f[k + 1] = IF k + 1 = 1 THEN s[k + 1] ELSE f[k + 1 - 1] \o s[k + 1]
          /\ g[k + 1] = IF k + 1 = 1 THEN t[k + 1] ELSE g[k + 1 - 1] \o t[k + 1]
      BY <2>1, <3>1
    <3> QED BY <2>1, <3>2
  <2>4. CASE k + 1 = 1 BY <2>2, <2>3, <2>4
  <2>5. CASE k + 1 # 1
    <3>1. k \in 1 .. n BY <2>5
    <3>2. f[k] = g[k] /\ f[k] \in Seq(X) BY <1>2, <3>1
    <3>3. f[k] \o s[k + 1] \in Seq(X) BY <2>2, <3>2, ConcatProperties
    <3> QED BY <2>2, <2>3, <2>5, <3>2, <3>3
  <2> QED BY <2>4, <2>5
<1>3. Nat \subseteq N
  <2> HIDE DEF N
  <2> QED BY <1>1, <1>2, NatInductionOnSet
<1> QED BY <1>3

(* What FlattenSeq returns, for none, and for one more. *)
LEMMA FlattenProperties ==
  ASSUME NEW X, NEW s \in Seq(Seq(X)), NEW b \in Seq(X)
  PROVE  /\ s = << >> => FlattenSeq(s) = << >>
         /\ FlattenSeq(s) \in Seq(X)
         /\ FlattenSeq(Append(s, b)) = FlattenSeq(s) \o b
<1> DEFINE n == Len(s)
           t == Append(s, b)
<1>1. /\ n \in Nat /\ t \in Seq(Seq(X)) /\ Len(t) = n + 1 /\ t[n + 1] = b
      /\ \A i \in 1 .. n : s[i] = t[i]
  BY AppendProperties
<1>2. s = << >> => FlattenSeq(s) = << >>
  BY DEF FlattenSeq
<1> HIDE DEF t
<1>3. PICK g : g = (CHOOSE f : FlattensTo(f, t, Len(t))) OBVIOUS
<1>4. FlattensTo(g, t, n + 1)
  <2>1. \E f : FlattensTo(f, t, Len(t))
    <3>1. Len(t) \in Nat BY <1>1
    <3> QED BY <3>1, FlattensExists
  <2> QED BY <1>1, <1>3, <2>1
<1>5. FlattenSeq(t) = g[n + 1]
  <2>1. Len(t) # 0 BY <1>1
  <2>2. FlattenSeq(t) = (CHOOSE f : FlattensTo(f, t, Len(t)))[Len(t)] BY <2>1, FlattenIter
  <2> QED BY <1>1, <1>3, <2>2
<1>6. g[n + 1] = IF n + 1 = 1 THEN t[n + 1] ELSE g[n + 1 - 1] \o t[n + 1]
  <2>1. n \in Nat BY <1>1
  <2> HIDE DEF n
  <2> QED BY <1>4, <2>1, FlattensLast
<1>7. CASE n = 0
  <2>1. s = << >> BY <1>7
  <2>2. FlattenSeq(s) = << >> BY <1>2, <2>1
  <2>3. FlattenSeq(t) = b BY <1>1, <1>5, <1>6, <1>7
  <2>4. << >> \o b = b BY ConcatEmptySeq
  <2> QED BY <2>2, <2>3, <2>4 DEF t
<1>8. CASE n # 0
  <2>1. PICK f : f = (CHOOSE h : FlattensTo(h, s, Len(s))) OBVIOUS
  <2>2. FlattensTo(f, s, n)
    <3>1. \E h : FlattensTo(h, s, Len(s)) BY <1>1, FlattensExists
    <3> QED BY <2>1, <3>1
  <2>3. FlattenSeq(s) = f[n] BY <1>8, <2>1, FlattenIter
  <2>4. n \in Nat /\ n + 1 \in Nat /\ n =< Len(s) /\ n =< n + 1 /\ n \in 1 .. n
    BY <1>1, <1>8
  <2>5. \A i \in 1 .. n : f[i] = g[i] /\ f[i] \in Seq(X)
    <3> HIDE DEF n
    <3> QED BY <1>1, <1>4, <2>2, <2>4, FlattensAgree
  <2>6. f[n] = g[n] /\ f[n] \in Seq(X) BY <2>4, <2>5
  <2>7. n + 1 # 1 /\ n + 1 - 1 = n BY <1>1, <1>8
  <2>8. FlattenSeq(t) = g[n] \o b
    <3> HIDE DEF n
    <3> QED BY <1>1, <1>5, <1>6, <2>7
  <2> QED BY <1>2, <2>3, <2>6, <2>8 DEF t
<1> QED BY <1>2, <1>7, <1>8

(* The elements of flat are those of the sequences of ds, in their order:
   p is at position at[p] of sequence block[p]. *)
IsFlat(ds, n, flat, block, at) ==
  /\ block \in [1 .. Len(flat) -> 1 .. n] /\ at \in [1 .. Len(flat) -> Nat]
  /\ \A p \in 1 .. Len(flat) : at[p] \in DOMAIN ds[block[p]] /\ flat[p] = ds[block[p]][at[p]]
  /\ \A i \in 1 .. n : \A j \in DOMAIN ds[i] :
       \E p \in 1 .. Len(flat) : block[p] = i /\ at[p] = j
  /\ \A p, q \in 1 .. Len(flat) :
       p < q => block[p] < block[q] \/ (block[p] = block[q] /\ at[p] < at[q])

(* One more sequence goes behind the others. *)
LEMMA FlatAppend ==
  ASSUME NEW X, NEW n \in Nat, NEW ds \in [1 .. n + 1 -> Seq(X)], NEW front,
         front = [i \in 1 .. n |-> ds[i]], NEW flat \in Seq(X), NEW block, NEW at,
         IsFlat(front, n, flat, block, at)
  PROVE  \E b, a : IsFlat(ds, n + 1, flat \o ds[n + 1], b, a)
<1> DEFINE last == ds[n + 1]
           L == Len(flat)
           l == Len(last)
           whole == flat \o last
           b == [p \in 1 .. L + l |-> IF p \in 1 .. L THEN block[p] ELSE n + 1]
           a == [p \in 1 .. L + l |-> IF p \in 1 .. L THEN at[p] ELSE p - L]
<1>1. /\ last \in Seq(X) /\ L \in Nat /\ l \in Nat /\ DOMAIN last = 1 .. l
      /\ \A i \in 1 .. n : front[i] = ds[i] /\ i \in 1 .. n + 1
      /\ n + 1 \in 1 .. n + 1 /\ n + 1 \notin 1 .. n
  OBVIOUS
<1>2. /\ Len(whole) = L + l
      /\ \A p \in 1 .. L : whole[p] = flat[p]
      /\ \A p \in L + 1 .. L + l : whole[p] = last[p - L]
  BY <1>1, ConcatProperties
<1>3. /\ block \in [1 .. L -> 1 .. n] /\ at \in [1 .. L -> Nat]
      /\ \A p \in 1 .. L : at[p] \in DOMAIN front[block[p]] /\ flat[p] = front[block[p]][at[p]]
      /\ \A i \in 1 .. n : \A j \in DOMAIN front[i] :
           \E p \in 1 .. L : block[p] = i /\ at[p] = j
      /\ \A p, q \in 1 .. L :
           p < q => block[p] < block[q] \/ (block[p] = block[q] /\ at[p] < at[q])
  BY DEF IsFlat
<1> HIDE DEF last, L, l, whole
<1>4. \A p \in 1 .. L + l :
        p \in 1 .. L \/ (p \notin 1 .. L /\ p \in L + 1 .. L + l /\ p - L \in 1 .. l)
  BY <1>1
<1>5. /\ \A p \in 1 .. L : p \in 1 .. L + l /\ b[p] = block[p] /\ a[p] = at[p]
      /\ \A p \in L + 1 .. L + l : p \in 1 .. L + l /\ b[p] = n + 1 /\ a[p] = p - L
  BY <1>1
<1>6. b \in [1 .. L + l -> 1 .. n + 1] /\ a \in [1 .. L + l -> Nat]
  BY <1>1, <1>3, <1>4
<1> HIDE DEF b, a
<1>7. ASSUME NEW p \in 1 .. L + l
      PROVE  a[p] \in DOMAIN ds[b[p]] /\ whole[p] = ds[b[p]][a[p]]
  <2>1. CASE p \in 1 .. L
    <3>1. block[p] \in 1 .. n /\ b[p] = block[p] /\ a[p] = at[p] /\ whole[p] = flat[p]
      BY <1>2, <1>3, <1>5, <2>1
    <3>2. front[block[p]] = ds[block[p]] BY <1>1, <3>1
    <3> QED BY <1>3, <2>1, <3>1, <3>2
  <2>2. CASE p \notin 1 .. L
    <3>1. p \in L + 1 .. L + l /\ p - L \in 1 .. l BY <1>4, <2>2
    <3>2. b[p] = n + 1 /\ a[p] = p - L /\ whole[p] = last[p - L] BY <1>2, <1>5, <3>1
    <3> QED BY <1>1, <3>1, <3>2 DEF last
  <2> QED BY <2>1, <2>2
<1>8. ASSUME NEW i \in 1 .. n + 1, NEW j \in DOMAIN ds[i]
      PROVE  \E p \in 1 .. L + l : b[p] = i /\ a[p] = j
  <2>1. CASE i \in 1 .. n
    <3>1. j \in DOMAIN front[i] BY <1>1, <2>1
    <3>2. PICK p \in 1 .. L : block[p] = i /\ at[p] = j BY <1>3, <2>1, <3>1
    <3> QED BY <1>5, <3>2
  <2>2. CASE i \notin 1 .. n
    <3>1. i = n + 1 BY <2>2
    <3>2. j \in 1 .. l BY <1>1, <3>1 DEF last
    <3>3. L + j \in L + 1 .. L + l /\ (L + j) - L = j BY <1>1, <3>2
    <3>4. L + j \in 1 .. L + l /\ b[L + j] = n + 1 /\ a[L + j] = j BY <1>5, <3>3
    <3> QED BY <3>1, <3>4
  <2> QED BY <2>1, <2>2
<1>9. ASSUME NEW p \in 1 .. L + l, NEW q \in 1 .. L + l, p < q
      PROVE  b[p] < b[q] \/ (b[p] = b[q] /\ a[p] < a[q])
  <2>1. CASE p \in 1 .. L /\ q \in 1 .. L
    BY <1>3, <1>5, <1>9, <2>1
  <2>2. CASE p \in 1 .. L /\ q \notin 1 .. L
    <3>1. b[p] \in 1 .. n BY <1>3, <1>5, <2>2
    <3>2. b[q] = n + 1 BY <1>4, <1>5, <2>2
    <3> QED BY <3>1, <3>2
  <2>3. CASE p \notin 1 .. L
    <3>1. q \notin 1 .. L BY <1>1, <1>9, <2>3
    <3>2. b[p] = n + 1 /\ b[q] = n + 1 /\ a[p] = p - L /\ a[q] = q - L
      BY <1>4, <1>5, <2>3, <3>1
    <3> QED BY <1>1, <1>9, <3>2
  <2> QED BY <2>1, <2>2, <2>3
<1>10. IsFlat(ds, n + 1, whole, b, a)
  BY <1>2, <1>6, <1>7, <1>8, <1>9 DEF IsFlat
<1> QED BY <1>10 DEF whole, last

(* Where the elements of a flattened sequence come from *)
LEMMA FlattenPlaces ==
  ASSUME NEW X, NEW k \in Nat, NEW ds \in [1 .. k -> Seq(X)]
  PROVE  /\ FlattenSeq(ds) \in Seq(X)
         /\ \E block, at : IsFlat(ds, k, FlattenSeq(ds), block, at)
<1> DEFINE Flat(n, s) == /\ FlattenSeq(s) \in Seq(X)
                         /\ \E block, at : IsFlat(s, n, FlattenSeq(s), block, at)
           N == {n \in Nat : \A s \in [1 .. n -> Seq(X)] : Flat(n, s)}
<1>1. 0 \in N
  <2> SUFFICES ASSUME NEW s \in [1 .. 0 -> Seq(X)] PROVE Flat(0, s)
    OBVIOUS
  <2>1. s = << >> /\ s \in Seq(Seq(X)) /\ << >> \in Seq(X) /\ Len(<< >>) = 0
    <3>1. s = [i \in 1 .. 0 |-> s[i]] /\ 1 .. 0 = {} OBVIOUS
    <3>2. << >> \in Seq(Seq(X)) /\ << >> \in Seq(X) /\ Len(<< >>) = 0 BY EmptySeq
    <3>3. s \in Seq(Seq(X)) BY SeqDef
    <3>4. Len(s) = 0 BY <3>3
    <3> QED BY <3>2, <3>3, <3>4, EmptySeq
  <2>2. FlattenSeq(s) = << >> BY <2>1, FlattenProperties
  <2> DEFINE none == [p \in {} |-> 0]
  <2>3. IsFlat(s, 0, << >>, none, none)
    <3>1. 1 .. Len(<< >>) = {} /\ 1 .. 0 = {} BY <2>1
    <3>2. none \in [{} -> {}] /\ none \in [{} -> Nat] OBVIOUS
    <3> HIDE DEF none
    <3> QED BY <3>1, <3>2 DEF IsFlat
  <2> HIDE DEF none
  <2> QED BY <2>1, <2>2, <2>3
<1>2. ASSUME NEW n \in Nat, n \in N PROVE n + 1 \in N
  <2> SUFFICES ASSUME NEW s \in [1 .. n + 1 -> Seq(X)] PROVE Flat(n + 1, s)
    OBVIOUS
  <2> DEFINE front == [i \in 1 .. n |-> s[i]]
  <2>1. front \in [1 .. n -> Seq(X)] /\ s[n + 1] \in Seq(X) OBVIOUS
  <2>2. front \in Seq(Seq(X)) BY <2>1, SeqDef
  <2>3. s = Append(front, s[n + 1])
    <3>1. Len(front) = n BY <2>1, <2>2
    <3>2. s = [i \in 1 .. n + 1 |-> s[i]] OBVIOUS
    <3>3. s \in Seq(Seq(X)) /\ Len(s) = n + 1
      <4>1. s \in Seq(Seq(X)) BY SeqDef
      <4> QED BY <4>1
    <3>4. /\ Append(front, s[n + 1]) \in Seq(Seq(X)) /\ Len(Append(front, s[n + 1])) = n + 1
          /\ \A i \in 1 .. n : Append(front, s[n + 1])[i] = front[i]
          /\ Append(front, s[n + 1])[n + 1] = s[n + 1]
      <4> DEFINE b == s[n + 1]
      <4>1. b \in Seq(X) BY <2>1
      <4> HIDE DEF front, b
      <4>2. /\ Append(front, b) \in Seq(Seq(X)) /\ Len(Append(front, b)) = Len(front) + 1
            /\ \A i \in 1 .. Len(front) : Append(front, b)[i] = front[i]
            /\ Append(front, b)[Len(front) + 1] = b
        BY <2>2, <4>1, AppendProperties
      <4> QED BY <3>1, <4>2 DEF b
    <3>5. \A i \in 1 .. n + 1 : Append(front, s[n + 1])[i] = s[i]
      BY <3>4
    <3> HIDE DEF front
    <3> QED BY <3>3, <3>4, <3>5, SeqEqual
  <2>4. Flat(n, front) BY <1>2, <2>1
  <2>5. PICK block, at : IsFlat(front, n, FlattenSeq(front), block, at) BY <2>4
  <2>6. FlattenSeq(s) = FlattenSeq(front) \o s[n + 1]
    <3> HIDE DEF front
    <3> QED BY <2>1, <2>2, <2>3, FlattenProperties
  <2>7. FlattenSeq(s) \in Seq(X)
    <3> DEFINE f == FlattenSeq(front)
    <3>1. f \in Seq(X) BY <2>4
    <3>2. FlattenSeq(s) = f \o s[n + 1] BY <2>6
    <3> HIDE DEF f, front, Flat
    <3> QED BY <2>1, <3>1, <3>2, ConcatProperties
  <2>8. \E b, a : IsFlat(s, n + 1, FlattenSeq(front) \o s[n + 1], b, a)
    <3>1. FlattenSeq(front) \in Seq(X) BY <2>4
    <3>2. \E g : g = front /\ g = [i \in 1 .. n |-> s[i]] OBVIOUS
    <3> HIDE DEF N
    <3> QED BY <2>5, <3>1, FlatAppend
  <2> HIDE DEF front
  <2> QED BY <2>6, <2>7, <2>8
<1>3. Nat \subseteq N
  <2> HIDE DEF N
  <2> QED BY <1>1, <1>2, NatInductionOnSet
<1>4. \A s \in [1 .. k -> Seq(X)] : Flat(k, s) BY <1>3
<1> QED BY <1>4

(* A sequence is one of its own values. *)
LEMMA SeqOfItsValues ==
  ASSUME NEW X, NEW s \in Seq(X)
  PROVE  s \in Seq(ToSet(s))
<1> DEFINE n == Len(s)
<1>1. n \in Nat /\ DOMAIN s = 1 .. n /\ s = [i \in 1 .. n |-> s[i]] OBVIOUS
<1>2. \A i \in 1 .. n : s[i] \in ToSet(s) BY <1>1 DEF ToSet
<1> HIDE DEF n
<1>3. s \in [1 .. n -> ToSet(s)] BY <1>1, <1>2
<1> QED BY <1>1, <1>3, SeqDef

(* What a section of a sequence is. *)
LEMMA SectionProperties ==
  ASSUME NEW X, NEW s \in Seq(X), NEW m \in 1 .. Len(s) + 1, NEW n \in 0 .. Len(s), m =< n + 1
  PROVE  /\ SubSeq(s, m, n) \in Seq(X)
         /\ Len(SubSeq(s, m, n)) = n - m + 1
         /\ \A i \in 1 .. n - m + 1 : SubSeq(s, m, n)[i] = s[m + i - 1]
<1>1. Len(s) \in Nat /\ m \in Int /\ n \in Int /\ 1 =< m /\ n =< Len(s)
  OBVIOUS
<1>2. \A i \in m .. n : s[i] \in X
  BY <1>1
<1>3. (IF m =< n THEN n - m + 1 ELSE 0) = n - m + 1
  BY <1>1
<1>4. /\ SubSeq(s, m, n) \in Seq(X)
      /\ Len(SubSeq(s, m, n)) = (IF m =< n THEN n - m + 1 ELSE 0)
      /\ \A i \in 1 .. n - m + 1 : SubSeq(s, m, n)[i] = s[m + i - 1]
  BY <1>1, <1>2, SubSeqProperties
<1> QED BY <1>3, <1>4

(* What is appended does not change the beginning. *)
LEMMA SubSeqOfConcat ==
  ASSUME NEW X, NEW s \in Seq(X), NEW t \in Seq(X), NEW l \in 0 .. Len(s)
  PROVE  SubSeq(s \o t, 1, l) = SubSeq(s, 1, l)
<1>1. s \o t \in Seq(X) /\ Len(s \o t) = Len(s) + Len(t) /\ Len(s) \in Nat /\ Len(t) \in Nat
      /\ \A i \in 1 .. Len(s) : (s \o t)[i] = s[i]
  BY ConcatProperties
<1>2. 1 \in 1 .. Len(s) + 1 /\ l \in 0 .. Len(s) /\ 1 \in 1 .. Len(s \o t) + 1 /\ l \in 0 .. Len(s \o t)
      /\ l - 1 + 1 = l
  BY <1>1
<1>3. SubSeq(s, 1, l) = [i \in 1 .. l |-> s[i]] BY <1>2
<1>4. SubSeq(s \o t, 1, l) = [i \in 1 .. l |-> (s \o t)[i]] BY <1>1, <1>2
<1>5. \A i \in 1 .. l : (s \o t)[i] = s[i] BY <1>1
<1> QED BY <1>3, <1>4, <1>5

(* A beginning of a sequence is a prefix of it. *)
LEMMA SubSeqIsPrefix ==
  ASSUME NEW X, NEW s \in Seq(X), NEW l \in 0 .. Len(s)
  PROVE  Len(SubSeq(s, 1, l)) = l /\ IsPrefix(SubSeq(s, 1, l), s)
<1> DEFINE p == SubSeq(s, 1, l)
<1>1. Len(s) \in Nat /\ p \in Seq(X) /\ Len(p) = l /\ p = [i \in 1 .. l |-> s[i]] /\ l =< Len(s)
  OBVIOUS
<1>2. SubSeq(p, 1, l) = [i \in 1 .. l |-> p[i]] BY <1>1
<1>3. \A i \in 1 .. l : p[i] = s[i] BY <1>1
<1>4. SubSeq(p, 1, Len(p)) = SubSeq(s, 1, Len(p)) BY <1>1, <1>2, <1>3
<1> HIDE DEF p
<1> QED BY <1>1, <1>4 DEF IsPrefix, p

(* Of finitely many numbers one is the greatest. *)
LEMMA MaxMember ==
  ASSUME NEW S, IsFiniteSet(S), S \subseteq Int, S # {}
  PROVE  Max(S) \in S /\ \A y \in S : Max(S) >= y
<1> DEFINE P == {T \in SUBSET S : T # {} => \E x \in T : \A y \in T : x >= y}
<1>1. {} \in P OBVIOUS
<1>2. ASSUME NEW T \in SUBSET S, T # {}, \A x \in T : T \ {x} \in P PROVE T \in P
  <2>1. PICK x \in T : TRUE BY <1>2
  <2>2. T \ {x} \in P BY <1>2, <2>1
  <2>3. CASE T \ {x} = {}
    <3>1. T = {x} BY <2>3
    <3> QED BY <3>1
  <2>4. CASE T \ {x} # {}
    <3>1. PICK m \in T \ {x} : \A y \in T \ {x} : m >= y BY <2>2, <2>4
    <3>2. x \in Int /\ T \subseteq Int OBVIOUS
    <3>3. CASE x >= m
      <4>1. \A y \in T : x >= y BY <3>1, <3>2, <3>3
      <4> QED BY <4>1
    <3>4. CASE ~ x >= m
      <4>1. \A y \in T : m >= y BY <3>1, <3>2, <3>4
      <4> QED BY <4>1
    <3> QED BY <3>3, <3>4
  <2> QED BY <2>3, <2>4
<1>3. S \in P
  <2> HIDE DEF P
  <2> QED BY <1>1, <1>2, FiniteSetInductionOnSet
<1>4. \E x \in S : \A y \in S : x >= y BY <1>3
<1> QED BY <1>4 DEF Max

(* The greatest of the first n + 1 numbers. *)
LEMMA MaxOfInterval ==
  ASSUME NEW n \in Nat
  PROVE  Max(1 .. n + 1) = n + 1 /\ (1 .. n + 1) \ {n + 1} = 1 .. n
<1>1. n + 1 \in 1 .. n + 1 /\ \A y \in 1 .. n + 1 : n + 1 >= y OBVIOUS
<1>2. IsFiniteSet(1 .. n + 1) BY FS_Interval
<1>3. 1 .. n + 1 \subseteq Int /\ 1 .. n + 1 # {} BY <1>1
<1>4. Max(1 .. n + 1) \in 1 .. n + 1 /\ \A y \in 1 .. n + 1 : Max(1 .. n + 1) >= y
  BY <1>2, <1>3, MaxMember
<1>5. Max(1 .. n + 1) = n + 1 BY <1>1, <1>4
<1> QED BY <1>5

=============================================================================
