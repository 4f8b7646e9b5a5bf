------------------------------ MODULE InsertionMap ------------------------------
(***************************************************************************)
(* The JavaScript Map, as the API uses it: an association of keys with     *)
(* values that remembers the order in which its keys were inserted.  It is *)
(* not code of the repository; it is modelled from how cache/block-cache   *)
(* and request-log use it (get, delete, set, size, clear and               *)
(* keys().next().value).                                                   *)
(*                                                                         *)
(* A map is a sequence of [key, val] records, oldest insertion first, no   *)
(* two of them with the same key.                                          *)
(***************************************************************************)
EXTENDS Naturals, Sequences

Entries(K, V) == [key : K, val : V]

EmptyMap == << >>

Has(m, k) == \E i \in DOMAIN m : m[i].key = k

Position(m, k) == CHOOSE i \in DOMAIN m : m[i].key = k

Lookup(m, k) == m[Position(m, k)].val

Without(m, i) == SubSeq(m, 1, i - 1) \o SubSeq(m, i + 1, Len(m))

(* Map.delete *)
Delete(m, k) == IF Has(m, k) THEN Without(m, Position(m, k)) ELSE m

(* Map.set: a key that is present keeps its place in the order. *)
Put(m, k, v) ==
  IF Has(m, k) THEN [m EXCEPT ![Position(m, k)] = [key |-> k, val |-> v]]
               ELSE Append(m, [key |-> k, val |-> v])

(* delete(keys().next().value), which on an empty map deletes nothing *)
DropOldest(m) == IF m = << >> THEN m ELSE Tail(m)

KeyOrder(m) == [i \in DOMAIN m |-> m[i].key]

KeysOnce(m) == \A i, j \in DOMAIN m : m[i].key = m[j].key => i = j

InsertionMaps(K, V) == {m \in Seq(Entries(K, V)) : KeysOnce(m)}

=============================================================================
