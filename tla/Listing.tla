--------------------------------- MODULE Listing ---------------------------------
(***************************************************************************)
(* A finite set listed in an order: what ORDER BY, sort() and the iterator *)
(* of a key-value store do with the elements they find.  An order is the   *)
(* set of the pairs that are in it, which must be strict and total.        *)
(***************************************************************************)
EXTENDS Integers, FiniteSets

(* How many elements of S come before x *)
Rank(x, S, R) == Cardinality({y \in S : <<y, x>> \in R})

InOrder(S, R) == [i \in 1 .. Cardinality(S) |-> CHOOSE x \in S : Rank(x, S, R) = i - 1]

Ascending(S) == {p \in S \X S : p[1] < p[2]}

(* The elements of a sequence at some of its positions *)
Selection(s, positions) ==
  LET order == InOrder(positions, Ascending(positions))
  IN  [j \in DOMAIN order |-> s[order[j]]]

=============================================================================
