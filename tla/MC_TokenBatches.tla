----------------------------- MODULE MC_TokenBatches -----------------------------
(* Instances of TokenBatches for TLC. *)
EXTENDS TokenBatches

NineCharacters == {"-", "N", "U", "L", "0", "1", "a", "b", "n"}

TwoAddresses == {<<"a">>, <<"b">>}

(* Names with and without dashes, one of them the other's prefix *)
N1 == <<"n">>
N2 == <<"n", "-", "1">>

Token(name, no) == [name |-> name, collection |-> "c", no |-> no]

ThreeTokens == {Token(N1, 1), Token(N1, 2), Token(N2, 3)}

(* No holdings, or a token minted at one address and sent to the other in  *)
(* part, and one minted at both, with a retirement *)
Hold(amount, minted, retired) == [amount |-> amount, minted |-> minted, retired |-> retired]

NoHoldings == [a \in TwoAddresses |-> [k \in ThreeTokens |-> Hold(0, 0, 0)]]

Traded == [NoHoldings EXCEPT ![<<"a">>][Token(N1, 1)] = Hold(1, 2, 0),
                             ![<<"b">>][Token(N1, 1)] = Hold(1, 0, 0),
                             ![<<"a">>][Token(N2, 3)] = Hold(0, 1, 1),
                             ![<<"b">>][Token(N2, 3)] = Hold(1, 1, 0)]

TwoHoldings == {NoHoldings, Traded}

Filters == {<< >>, N1, N2}

(* Every two requests that share the address or the filter; others have    *)
(* nothing in common. *)
Pairs == {{q, r} : <<q, r>> \in {p \in Requests \X Requests :
                                  p[1].address = p[2].address \/ p[1].name = p[2].name}}

(* Two entities that share an account, one of another, one without *)
Entity(id, class, admin) == [id |-> id, class |-> class, admin |-> admin]

FourEntities == {Entity(1, "s", <<"a">>), Entity(2, "t", <<"a">>),
                 Entity(3, "t", <<"b">>), Entity(4, "s", NoAccount)}

(* An owner or class with two names or modes, or two of them *)
Fans ==
  LET fan(s, n, all) == [address |-> s, name |-> n, allRetired |-> all]
  IN  {{fan("t", << >>, TRUE), fan("s", << >>, TRUE)},
       {fan("t", << >>, FALSE), fan("t", N1, FALSE)}}

=============================================================================
