------------------------------- MODULE LoaderKeys -------------------------------
(***************************************************************************)
(* The string keys of the DataLoaders of loaders/token.ts.  A batch of     *)
(* requests travels through a DataLoader as one string per request, built  *)
(* from an address, an optional name and a flag, and is taken apart again. *)
(*                                                                         *)
(* A string is the sequence of its characters; the empty string stands for *)
(* a name that is null, undefined or empty, which the code treats alike.   *)
(***************************************************************************)
EXTENDS Naturals, Sequences

Dash == "-"

NullName == <<"N", "U", "L", "L">>

(* name || "NULL" *)
NamePart(name) == IF name = << >> THEN NullName ELSE name

(* rawName === "NULL" ? null : rawName *)
NameOf(part) == IF part = NullName THEN << >> ELSE part

Dashes(s) == {i \in DOMAIN s : s[i] = Dash}

FirstDash(s) == CHOOSE i \in Dashes(s) : \A j \in Dashes(s) : i =< j

LastDash(s) == CHOOSE i \in Dashes(s) : \A j \in Dashes(s) : j =< i

BalancesKey(address, name) == address \o (<<Dash>> \o NamePart(name))

ParseBalancesKey(key) ==
  LET sep == FirstDash(key)
  IN  [address |-> SubSeq(key, 1, sep - 1),
       name    |-> NameOf(SubSeq(key, sep + 1, Len(key)))]

FlagPart(flag) == IF flag THEN <<"1">> ELSE <<"0">>

TotalsKey(address, name, allEntityRetired) ==
  BalancesKey(address, name) \o (<<Dash>> \o FlagPart(allEntityRetired))

ParseTotalsKey(key) ==
  LET first == FirstDash(key)
      last  == LastDash(key)
  IN  [address |-> SubSeq(key, 1, first - 1),
       name    |-> NameOf(SubSeq(key, first + 1, last - 1)),
       retired |-> SubSeq(key, last + 1, Len(key)) = <<"1">>]

=============================================================================
