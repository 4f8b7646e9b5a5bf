------------------------------- MODULE TokenProofs -------------------------------
(***************************************************************************)
(* The token loader, for any accounts, tokens, names, requests and tables. *)
(* Taking a DataLoader key apart gives back what it was built from; what a *)
(* batch answers is what its snapshots show; the totals of an account are  *)
(* the fold of its tokens, those of its entities add up to them, and       *)
(* retirements are counted once.                                           *)
(*                                                                         *)
(* AccountsInv and TotalsInv say what has been gathered while the answers  *)
(* to some of a batch's queries are still out; the rest is about sums.     *)
(***************************************************************************)
EXTENDS TokenBatches, DataLemmas, SequenceTheorems

(* Encoding and decoding a name gives the name. *)
LEMMA NamePartInverse ==
  ASSUME NEW Chars, NEW name \in Seq(Chars), name # NullName
  PROVE  NameOf(NamePart(name)) = name
BY DEF NameOf, NamePart, NullName

Dashed(a, rest) == a \o (<<Dash>> \o rest)

(* Dashed(a, rest) is a, a dash, and rest. *)
LEMMA DashedShape ==
  ASSUME NEW Chars, Dash \in Chars, NEW a \in Seq(Chars), NEW rest \in Seq(Chars)
  PROVE  /\ Dashed(a, rest) \in Seq(Chars)
         /\ Len(Dashed(a, rest)) = Len(a) + 1 + Len(rest)
         /\ \A i \in 1 .. Len(a) : Dashed(a, rest)[i] = a[i]
         /\ Dashed(a, rest)[Len(a) + 1] = Dash
         /\ \A j \in Len(a) + 2 .. Len(a) + 1 + Len(rest) :
              Dashed(a, rest)[j] = rest[j - (Len(a) + 1)]
<1>0. PICK tail : tail = <<Dash>> \o rest
  OBVIOUS
<1> DEFINE key == Dashed(a, rest)
<1>k. key = a \o tail
  BY <1>0 DEF Dashed
<1> HIDE DEF key
<1>1. /\ tail \in Seq(Chars) /\ Len(tail) = 1 + Len(rest) /\ tail[1] = Dash
      /\ \A i \in 1 .. Len(rest) : tail[1 + i] = rest[i]
  BY <1>0, ConcatProperties
<1>2. Len(a) \in Nat /\ Len(rest) \in Nat
  OBVIOUS
<1>3. /\ key \in Seq(Chars) /\ Len(key) = Len(a) + Len(tail)
      /\ \A i \in 1 .. Len(a) + Len(tail) :
           key[i] = IF i <= Len(a) THEN a[i] ELSE tail[i - Len(a)]
  <2>0. tail \in Seq(Chars)
    BY <1>1
  <2>1. /\ a \o tail \in Seq(Chars) /\ Len(a \o tail) = Len(a) + Len(tail)
        /\ \A i \in 1 .. Len(a) + Len(tail) :
             (a \o tail)[i] = IF i <= Len(a) THEN a[i] ELSE tail[i - Len(a)]
    BY <2>0, ConcatProperties
  <2> QED BY <1>k, <2>1
<1>4. ASSUME NEW i \in 1 .. 1 + Len(rest) PROVE key[Len(a) + i] = tail[i]
  <2>1. /\ Len(a) + i \in 1 .. Len(a) + Len(tail)
        /\ ~ (Len(a) + i <= Len(a)) /\ (Len(a) + i) - Len(a) = i
    BY <1>1, <1>2
  <2> QED BY <1>3, <2>1
<1>5. ASSUME NEW i \in 1 .. Len(a) PROVE key[i] = a[i]
  BY <1>1, <1>2, <1>3
<1>6. key[Len(a) + 1] = Dash
  BY <1>1, <1>2, <1>4
<1>7. ASSUME NEW j \in Len(a) + 2 .. Len(a) + 1 + Len(rest)
      PROVE  key[j] = rest[j - (Len(a) + 1)]
  <2>1. /\ j \in 1 .. Len(a) + Len(tail) /\ ~ (j <= Len(a))
        /\ j - (Len(a) + 1) \in 1 .. Len(rest) /\ 1 + (j - (Len(a) + 1)) = j - Len(a)
    BY <1>1, <1>2
  <2> QED BY <1>1, <1>3, <2>1
<1>8. Len(key) = Len(a) + 1 + Len(rest)
  BY <1>1, <1>2, <1>3
<1> QED BY <1>3, <1>5, <1>6, <1>7, <1>8 DEF key

(* What is before and after the separator is a and rest. *)
LEMMA DashedParts ==
  ASSUME NEW Chars, Dash \in Chars, NEW a \in Seq(Chars), NEW rest \in Seq(Chars)
  PROVE  /\ SubSeq(Dashed(a, rest), 1, Len(a)) = a
         /\ SubSeq(Dashed(a, rest), Len(a) + 2, Len(Dashed(a, rest))) = rest
<1> DEFINE key == Dashed(a, rest)
<1>1. /\ key \in Seq(Chars) /\ Len(key) = Len(a) + 1 + Len(rest)
      /\ \A i \in 1 .. Len(a) : key[i] = a[i]
      /\ \A j \in Len(a) + 2 .. Len(a) + 1 + Len(rest) : key[j] = rest[j - (Len(a) + 1)]
  BY DashedShape
<1> HIDE DEF key
<1>2. Len(a) \in Nat /\ Len(rest) \in Nat
  OBVIOUS
<1>3. SubSeq(key, 1, Len(a)) = a
  <2>1. /\ SubSeq(key, 1, Len(a)) \in Seq(Chars) /\ Len(SubSeq(key, 1, Len(a))) = Len(a)
        /\ \A i \in 1 .. Len(a) : SubSeq(key, 1, Len(a))[i] = key[i]
    BY <1>1, <1>2
  <2> QED BY <1>1, <2>1, SeqEqual
<1>4. SubSeq(key, Len(a) + 2, Len(key)) = rest
  <2> DEFINE back == SubSeq(key, Len(a) + 2, Len(key))
  <2>1. /\ back \in Seq(Chars) /\ Len(back) = Len(rest)
        /\ \A i \in 1 .. Len(rest) : back[i] = key[(Len(a) + 2) + i - 1]
    <3>1. /\ Len(a) + 2 \in 1 .. Len(key) + 1 /\ Len(key) \in 0 .. Len(key)
          /\ Len(a) + 2 =< Len(key) + 1 /\ Len(key) - (Len(a) + 2) + 1 = Len(rest)
      BY <1>1, <1>2
    <3>2. /\ back \in Seq(Chars) /\ Len(back) = Len(key) - (Len(a) + 2) + 1
          /\ \A i \in 1 .. Len(key) - (Len(a) + 2) + 1 : back[i] = key[(Len(a) + 2) + i - 1]
      BY <1>1, <3>1, SectionProperties
    <3> QED BY <3>1, <3>2
  <2>2. ASSUME NEW i \in 1 .. Len(rest) PROVE back[i] = rest[i]
    <3> HIDE DEF back
    <3>1. PICK j \in Len(a) + 2 .. Len(a) + 1 + Len(rest) :
            j = (Len(a) + 2) + i - 1 /\ j - (Len(a) + 1) = i
      BY <1>2
    <3> QED BY <1>1, <2>1, <3>1
  <2> HIDE DEF back
  <2>3. back = rest
    BY <2>1, <2>2, SeqEqual
  <2> QED BY <2>3 DEF back
<1> QED BY <1>3, <1>4 DEF key

(* The first dash of address-rest, when the address has none *)
LEMMA FirstDashAfterAddress ==
  ASSUME NEW Chars, Dash \in Chars,
         NEW a \in Seq(Chars), Dashes(a) = {}, NEW rest \in Seq(Chars)
  PROVE  /\ Len(a) + 1 \in Dashes(Dashed(a, rest))
         /\ \A j \in Dashes(Dashed(a, rest)) : Len(a) + 1 =< j
<1> DEFINE key == Dashed(a, rest)
<1>1. /\ key \in Seq(Chars) /\ Len(key) = Len(a) + 1 + Len(rest)
      /\ \A i \in 1 .. Len(a) : key[i] = a[i]
      /\ key[Len(a) + 1] = Dash
  BY DashedShape
<1> HIDE DEF key
<1>2. Len(a) \in Nat /\ Len(rest) \in Nat
  OBVIOUS
<1>3. DOMAIN key = 1 .. Len(a) + 1 + Len(rest) /\ DOMAIN a = 1 .. Len(a)
  BY <1>1
<1>4. \A j \in 1 .. Len(a) : key[j] # Dash
  BY <1>1, <1>3 DEF Dashes
<1>5. Len(a) + 1 \in Dashes(key) /\ \A j \in Dashes(key) : Len(a) + 1 =< j
  BY <1>1, <1>2, <1>3, <1>4 DEF Dashes
<1> QED BY <1>5 DEF key

(* The last dash of rest-flag, when the flag has none *)
LEMMA LastDashBeforeFlag ==
  ASSUME NEW Chars, Dash \in Chars,
         NEW a \in Seq(Chars), NEW flag \in Seq(Chars), Dashes(flag) = {}
  PROVE  /\ Len(a) + 1 \in Dashes(Dashed(a, flag))
         /\ \A j \in Dashes(Dashed(a, flag)) : j =< Len(a) + 1
<1> DEFINE key == Dashed(a, flag)
<1>1. /\ key \in Seq(Chars) /\ Len(key) = Len(a) + 1 + Len(flag)
      /\ key[Len(a) + 1] = Dash
      /\ \A j \in Len(a) + 2 .. Len(a) + 1 + Len(flag) : key[j] = flag[j - (Len(a) + 1)]
  BY DashedShape
<1> HIDE DEF key
<1>2. Len(a) \in Nat /\ Len(flag) \in Nat
  OBVIOUS
<1>3. DOMAIN key = 1 .. Len(a) + 1 + Len(flag) /\ DOMAIN flag = 1 .. Len(flag)
  BY <1>1
<1>4. ASSUME NEW j \in Dashes(key), j > Len(a) + 1 PROVE FALSE
  <2>1. /\ j \in Len(a) + 2 .. Len(a) + 1 + Len(flag)
        /\ j - (Len(a) + 1) \in 1 .. Len(flag)
    BY <1>2, <1>3, <1>4 DEF Dashes
  <2>2. flag[j - (Len(a) + 1)] = Dash
    BY <1>1, <1>4, <2>1 DEF Dashes
  <2> QED BY <1>3, <2>1, <2>2 DEF Dashes
<1>5. Len(a) + 1 \in Dashes(key)
  BY <1>1, <1>2, <1>3 DEF Dashes
<1>6. \A j \in Dashes(key) : j =< Len(a) + 1
  <2> TAKE j \in Dashes(key)
  <2>1. j \in Nat
    BY <1>2, <1>3 DEF Dashes
  <2> QED BY <1>2, <1>4, <2>1
<1> QED BY <1>5, <1>6 DEF key

(* The first and the last dash are what they are called. *)
LEMMA DashIs ==
  ASSUME NEW Chars, NEW s \in Seq(Chars), NEW i \in Dashes(s)
  PROVE  /\ (\A j \in Dashes(s) : i =< j) => FirstDash(s) = i
         /\ (\A j \in Dashes(s) : j =< i) => LastDash(s) = i
<1>1. \A j \in Dashes(s) : j \in Nat
  BY DEF Dashes
<1>2. ASSUME \A j \in Dashes(s) : i =< j PROVE FirstDash(s) = i
  <2>1. FirstDash(s) \in Dashes(s) /\ \A j \in Dashes(s) : FirstDash(s) =< j
    BY <1>2 DEF FirstDash
  <2>2. FirstDash(s) =< i /\ i =< FirstDash(s)
    BY <1>2, <2>1
  <2> QED BY <1>1, <2>1, <2>2
<1>3. ASSUME \A j \in Dashes(s) : j =< i PROVE LastDash(s) = i
  <2>1. LastDash(s) \in Dashes(s) /\ \A j \in Dashes(s) : j =< LastDash(s)
    BY <1>3 DEF LastDash
  <2>2. LastDash(s) =< i /\ i =< LastDash(s)
    BY <1>3, <2>1
  <2> QED BY <1>1, <2>1, <2>2
<1> QED BY <1>2, <1>3

(***************************************************************************)
(* token.ts:214: "Addresses never contain "-", so split on the first one": *)
(* the key of a balances request tells its address and its name.           *)
(***************************************************************************)
THEOREM BalancesKeyRoundTrip ==
  ASSUME NEW Chars, Dash \in Chars, NullName \in Seq(Chars),
         NEW address \in Seq(Chars), Dashes(address) = {},
         NEW name \in Seq(Chars), name # NullName
  PROVE  ParseBalancesKey(BalancesKey(address, name)) = [address |-> address, name |-> name]
<1> DEFINE part == NamePart(name)
           key  == Dashed(address, part)
<1>1. part \in Seq(Chars)
  BY DEF NamePart
<1> HIDE DEF part, key
<1>2. /\ FirstDash(key) = Len(address) + 1
      /\ SubSeq(key, 1, Len(address)) = address
      /\ SubSeq(key, Len(address) + 2, Len(key)) = part
  <2>1. key \in Seq(Chars)
    BY <1>1, DashedShape DEF key
  <2>2. FirstDash(key) = Len(address) + 1
    BY <1>1, <2>1, FirstDashAfterAddress, DashIs DEF key
  <2> QED BY <1>1, <2>2, DashedParts DEF key
<1>3. (Len(address) + 1) - 1 = Len(address) /\ (Len(address) + 1) + 1 = Len(address) + 2
  OBVIOUS
<1>4. NameOf(part) = name
  BY NamePartInverse DEF part
<1>5. ParseBalancesKey(key) = [address |-> address, name |-> name]
  BY <1>2, <1>3, <1>4 DEF ParseBalancesKey
<1> QED BY <1>5 DEF key, part, Dashed, BalancesKey

(***************************************************************************)
(* token.ts:161-162: with the flag behind the last dash, the key of a      *)
(* totals request tells address, name and retired mode, whatever dashes    *)
(* the name has.                                                           *)
(***************************************************************************)
THEOREM TotalsKeyRoundTrip ==
  ASSUME NEW Chars, Dash \in Chars, NullName \in Seq(Chars), {"0", "1"} \subseteq Chars,
         NEW address \in Seq(Chars), Dashes(address) = {},
         NEW name \in Seq(Chars), name # NullName, NEW allRetired \in BOOLEAN
  PROVE  ParseTotalsKey(TotalsKey(address, name, allRetired))
           = [address |-> address, name |-> name, retired |-> allRetired]
<1> DEFINE part == NamePart(name)
           flag == FlagPart(allRetired)
           bkey == Dashed(address, part)
           key  == Dashed(bkey, flag)
<1>1. part \in Seq(Chars)
  BY DEF NamePart
<1>2. /\ flag \in Seq(Chars) /\ Dashes(flag) = {}
      /\ (flag = <<"1">>) = allRetired
  BY DEF FlagPart, Dashes, Dash
<1> HIDE DEF part, flag
<1>3. /\ bkey \in Seq(Chars) /\ Len(bkey) = Len(address) + 1 + Len(part)
      /\ bkey[Len(address) + 1] = Dash
      /\ Len(address) + 1 \in Dashes(bkey)
      /\ \A j \in Dashes(bkey) : Len(address) + 1 =< j
      /\ SubSeq(bkey, 1, Len(address)) = address
      /\ SubSeq(bkey, Len(address) + 2, Len(bkey)) = part
  BY <1>1, DashedShape, DashedParts, FirstDashAfterAddress
<1> HIDE DEF bkey
<1>4. /\ key \in Seq(Chars) /\ Len(key) = Len(bkey) + 1 + Len(flag)
      /\ \A i \in 1 .. Len(bkey) : key[i] = bkey[i]
      /\ Len(bkey) + 1 \in Dashes(key)
      /\ \A j \in Dashes(key) : j =< Len(bkey) + 1
      /\ SubSeq(key, 1, Len(bkey)) = bkey
      /\ SubSeq(key, Len(bkey) + 2, Len(key)) = flag
  <2>1. /\ key \in Seq(Chars) /\ Len(key) = Len(bkey) + 1 + Len(flag)
        /\ \A i \in 1 .. Len(bkey) : key[i] = bkey[i]
    <3>1. bkey \in Seq(Chars) /\ flag \in Seq(Chars)
      BY <1>2, <1>3
    <3> QED BY <3>1, DashedShape
  <2>2. /\ Len(bkey) + 1 \in Dashes(key)
        /\ \A j \in Dashes(key) : j =< Len(bkey) + 1
    BY <1>2, <1>3, LastDashBeforeFlag
  <2>3. /\ SubSeq(key, 1, Len(bkey)) = bkey
        /\ SubSeq(key, Len(bkey) + 2, Len(key)) = flag
    BY <1>2, <1>3, DashedParts
  <2> QED BY <2>1, <2>2, <2>3
<1> HIDE DEF key
<1>5. /\ Len(address) \in Nat /\ Len(part) \in Nat /\ Len(flag) \in Nat /\ Len(bkey) \in Nat
      /\ DOMAIN key = 1 .. Len(key) /\ DOMAIN bkey = 1 .. Len(bkey)
  BY <1>1, <1>2, <1>3, <1>4
<1>6. LastDash(key) = Len(bkey) + 1
  BY <1>4, DashIs
<1>7. FirstDash(key) = Len(address) + 1
  <2>1. Len(address) + 1 \in Dashes(key)
    <3>1. Len(address) + 1 \in 1 .. Len(bkey) /\ Len(address) + 1 \in 1 .. Len(key)
      BY <1>3, <1>4, <1>5
    <3> QED BY <1>3, <1>4, <1>5, <3>1 DEF Dashes
  <2>2. ASSUME NEW j \in Dashes(key) PROVE Len(address) + 1 =< j
    <3>1. j \in 1 .. Len(key) /\ key[j] = Dash
      BY <1>5 DEF Dashes
    <3>2. CASE j \in 1 .. Len(bkey)
      BY <1>3, <1>4, <1>5, <3>1, <3>2 DEF Dashes
    <3>3. CASE j \notin 1 .. Len(bkey)
      BY <1>3, <1>4, <1>5, <3>1, <3>3
    <3> QED BY <3>2, <3>3
  <2> QED BY <1>4, <2>1, <2>2, DashIs
<1>8. SubSeq(key, 1, Len(address)) = address
  <2>1. \A i \in 1 .. Len(address) : i \in 1 .. Len(bkey)
    BY <1>3, <1>5
  <2>2. /\ SubSeq(key, 1, Len(address)) \in Seq(Chars)
        /\ Len(SubSeq(key, 1, Len(address))) = Len(address)
        /\ \A i \in 1 .. Len(address) : SubSeq(key, 1, Len(address))[i] = key[i]
    BY <1>3, <1>4, <1>5
  <2>3. \A i \in 1 .. Len(address) : SubSeq(bkey, 1, Len(address))[i] = bkey[i]
    BY <1>3, <1>5
  <2>4. \A i \in 1 .. Len(address) : SubSeq(key, 1, Len(address))[i] = address[i]
    BY <1>3, <1>4, <2>1, <2>2, <2>3
  <2> QED BY <2>2, <2>4, SeqEqual
<1>9. SubSeq(key, Len(address) + 2, Len(bkey)) = part
  <2> DEFINE middle == SubSeq(key, Len(address) + 2, Len(bkey))
             same   == SubSeq(bkey, Len(address) + 2, Len(bkey))
  <2>1. /\ middle \in Seq(Chars) /\ Len(middle) = Len(part)
        /\ \A i \in 1 .. Len(part) : middle[i] = key[(Len(address) + 2) + i - 1]
    <3>1. /\ Len(address) + 2 \in 1 .. Len(key) + 1 /\ Len(bkey) \in 0 .. Len(key)
          /\ Len(address) + 2 =< Len(bkey) + 1
          /\ Len(bkey) - (Len(address) + 2) + 1 = Len(part)
      BY <1>2, <1>3, <1>4, <1>5
    <3>2. /\ middle \in Seq(Chars)
          /\ Len(middle) = Len(bkey) - (Len(address) + 2) + 1
          /\ \A i \in 1 .. Len(bkey) - (Len(address) + 2) + 1 :
               middle[i] = key[(Len(address) + 2) + i - 1]
      BY <1>4, <3>1, SectionProperties
    <3> QED BY <3>1, <3>2
  <2>2. \A i \in 1 .. Len(part) : same[i] = bkey[(Len(address) + 2) + i - 1]
    <3>1. /\ Len(address) + 2 \in 1 .. Len(bkey) + 1 /\ Len(bkey) \in 0 .. Len(bkey)
          /\ Len(address) + 2 =< Len(bkey) + 1
          /\ Len(bkey) - (Len(address) + 2) + 1 = Len(part)
      BY <1>3, <1>5
    <3>2. \A i \in 1 .. Len(bkey) - (Len(address) + 2) + 1 :
            same[i] = bkey[(Len(address) + 2) + i - 1]
      BY <1>3, <3>1, SectionProperties
    <3> QED BY <3>1, <3>2
  <2>3. \A i \in 1 .. Len(part) : (Len(address) + 2) + i - 1 \in 1 .. Len(bkey)
    BY <1>3, <1>5
  <2>4. same = part
    BY <1>3
  <2> HIDE DEF middle, same
  <2>5. \A i \in 1 .. Len(part) : middle[i] = part[i]
    BY <1>4, <2>1, <2>2, <2>3, <2>4
  <2>6. middle = part
    BY <1>1, <2>1, <2>5, SeqEqual
  <2> QED BY <2>6 DEF middle
<1>10. /\ (Len(address) + 1) - 1 = Len(address) /\ (Len(address) + 1) + 1 = Len(address) + 2
       /\ (Len(bkey) + 1) - 1 = Len(bkey) /\ (Len(bkey) + 1) + 1 = Len(bkey) + 2
  BY <1>5
<1>11. NameOf(part) = name
  BY NamePartInverse DEF part
<1>12. ParseTotalsKey(key) = [address |-> address, name |-> name, retired |-> flag = <<"1">>]
  BY <1>4, <1>6, <1>7, <1>8, <1>9, <1>10, <1>11 DEF ParseTotalsKey
<1>13. key = TotalsKey(address, name, allRetired)
  BY DEF key, bkey, part, flag, Dashed, TotalsKey, BalancesKey
<1> QED BY <1>2, <1>12, <1>13

-----------------------------------------------------------------------------

(* Both keys give back what they were built from. *)
LEMMA KeysRoundTrip ==
  ASSUME NEW a \in Addresses, NEW n \in Names, NEW all \in BOOLEAN
  PROVE  /\ ParseBalancesKey(BalancesKey(a, n)) = [address |-> a, name |-> n]
         /\ ParseTotalsKey(TotalsKey(a, n, all)) = [address |-> a, name |-> n, retired |-> all]
<1>1. a \in Seq(Characters) /\ Dashes(a) = {} /\ n \in Seq(Characters) /\ n # NullName
  BY TokenAssumption
<1>2. Dash \in Characters /\ NullName \in Seq(Characters) /\ {"0", "1"} \subseteq Characters
  BY TokenAssumption DEF Dash, NullName
<1> QED BY <1>1, <1>2, BalancesKeyRoundTrip, TotalsKeyRoundTrip

(* Two requests that differ in address or name have different keys. *)
LEMMA KeysDiffer ==
  ASSUME NEW a \in Addresses, NEW b \in Addresses, NEW n \in Names, NEW m \in Names,
         BalancesKey(a, n) = BalancesKey(b, m)
  PROVE  a = b /\ n = m
<1>1. /\ ParseBalancesKey(BalancesKey(a, n)) = [address |-> a, name |-> n]
      /\ ParseBalancesKey(BalancesKey(b, m)) = [address |-> b, name |-> m]
  BY KeysRoundTrip
<1> QED BY <1>1

-----------------------------------------------------------------------------
(* Sums of what is held *)

LEMMA SumFunctionIs ==
  ASSUME NEW S, NEW f, DOMAIN f = S
  PROVE  SumFunction(f) = SumFunctionOnSet(f, S)
BY DEF SumFunction

(* All retirements of a token are no fewer than those of one address. *)
LEMMA RetiredEverCovers ==
  ASSUME NEW t \in Tables, NEW k \in Tokens
  PROVE  /\ RetiredEver(t, k) \in Nat
         /\ \A a \in Addresses : t[a][k].retired =< RetiredEver(t, k)
<1> DEFINE f == [a \in Addresses |-> t[a][k].retired]
<1>1. \A a \in Addresses : f[a] \in Nat /\ f[a] = t[a][k].retired BY DEF Tables
<1>2. IsFiniteSet(Addresses) /\ DOMAIN f = Addresses BY TokenAssumption
<1>3. RetiredEver(t, k) = SumFunctionOnSet(f, Addresses)
  BY DEF RetiredEver, SumFunction
<1> HIDE DEF f
<1>4. SumFunctionOnSet(f, Addresses) \in Nat BY <1>1, <1>2, SumNat
<1>5. \A a \in Addresses : f[a] =< SumFunctionOnSet(f, Addresses) BY <1>1, <1>2, SumAtLeast
<1> QED BY <1>1, <1>3, <1>4, <1>5

-----------------------------------------------------------------------------
(* The tables stay well typed, and retirements are never taken back. *)

LEMMA IndexStep ==
  ASSUME balance \in Tables, Index
  PROVE  /\ balance' \in Tables
         /\ \A a \in Addresses, k \in Tokens : balance[a][k].retired =< balance'[a][k].retired
<1> DEFINE R == [amount : Nat, minted : Nat, retired : Nat]
<1>1. balance \in [Addresses -> [Tokens -> R]] BY DEF Tables
<1>2. ASSUME NEW a \in Addresses, NEW k \in Tokens, Mint(a, k)
      PROVE  balance' \in Tables /\ \A b \in Addresses, l \in Tokens : balance[b][l].retired =< balance'[b][l].retired
  <2>1. balance' = [balance EXCEPT ![a] = [balance[a] EXCEPT ![k] =
                      [balance[a][k] EXCEPT !.amount = balance[a][k].amount + 1,
                                            !.minted = balance[a][k].minted + 1]]]
    BY <1>1, <1>2 DEF Mint
  <2>2. [balance[a][k] EXCEPT !.amount = balance[a][k].amount + 1,
                              !.minted = balance[a][k].minted + 1] \in R
    <3>1. balance[a][k] \in R /\ balance[a][k].amount + 1 \in Nat /\ balance[a][k].minted + 1 \in Nat
      BY <1>1
    <3>2. \A r \in R, m, n \in Nat : [r EXCEPT !.amount = m, !.minted = n] \in R OBVIOUS
    <3> QED BY <3>1, <3>2
  <2>3. [balance[a][k] EXCEPT !.amount = balance[a][k].amount + 1,
                              !.minted = balance[a][k].minted + 1].retired = balance[a][k].retired
    BY <1>1
  <2> QED BY <1>1, <2>1, <2>2, <2>3 DEF Tables
<1>3. ASSUME NEW a \in Addresses, NEW k \in Tokens, Retire(a, k)
      PROVE  balance' \in Tables /\ \A b \in Addresses, l \in Tokens : balance[b][l].retired =< balance'[b][l].retired
  <2> DEFINE h == [balance[a][k] EXCEPT !.amount = balance[a][k].amount - 1,
                                        !.retired = balance[a][k].retired + 1]
  <2>1. balance' = [balance EXCEPT ![a] = [balance[a] EXCEPT ![k] = h]]
    BY <1>1, <1>3 DEF Retire
  <2>2. balance[a][k] \in R /\ balance[a][k].amount > 0 BY <1>1, <1>3 DEF Retire
  <2>3. h \in R /\ h.retired = balance[a][k].retired + 1
    <3>1. balance[a][k].amount - 1 \in Nat /\ balance[a][k].retired + 1 \in Nat BY <2>2
    <3>2. \A r \in R, m, n \in Nat : /\ [r EXCEPT !.amount = m, !.retired = n] \in R
                                     /\ [r EXCEPT !.amount = m, !.retired = n].retired = n
      OBVIOUS
    <3> QED BY <2>2, <3>1, <3>2
  <2> HIDE DEF h
  <2>4. balance' \in Tables BY <1>1, <2>1, <2>3 DEF Tables
  <2>5. ASSUME NEW b \in Addresses, NEW l \in Tokens PROVE balance[b][l].retired =< balance'[b][l].retired
    <3>1. balance'[b][l] = IF b = a /\ l = k THEN h ELSE balance[b][l] BY <1>1, <2>1
    <3>2. balance[b][l].retired \in Nat BY <1>1
    <3> QED BY <3>1, <3>2, <2>3
  <2> QED BY <2>4, <2>5
<1>4. ASSUME NEW a \in Addresses, NEW b \in Addresses, NEW k \in Tokens, Transfer(a, b, k)
      PROVE  balance' \in Tables /\ \A c \in Addresses, l \in Tokens : balance[c][l].retired =< balance'[c][l].retired
  <2> DEFINE g == [balance[a][k] EXCEPT !.amount = balance[a][k].amount - 1]
             h == [balance[b][k] EXCEPT !.amount = balance[b][k].amount + 1]
  <2>1. a # b /\ balance[a][k].amount > 0
        /\ balance' = [balance EXCEPT ![a] = [balance[a] EXCEPT ![k] = g], ![b] = [balance[b] EXCEPT ![k] = h]]
    BY <1>1, <1>4 DEF Transfer
  <2>2. balance[a][k] \in R /\ balance[b][k] \in R BY <1>1
  <2>3. g \in R /\ h \in R /\ g.retired = balance[a][k].retired /\ h.retired = balance[b][k].retired
    <3>1. balance[a][k].amount - 1 \in Nat /\ balance[b][k].amount + 1 \in Nat BY <2>1, <2>2
    <3>2. \A r \in R, m \in Nat : /\ [r EXCEPT !.amount = m] \in R
                                  /\ [r EXCEPT !.amount = m].retired = r.retired
      OBVIOUS
    <3> QED BY <2>2, <3>1, <3>2
  <2> HIDE DEF g, h
  <2>4. balance' \in Tables BY <1>1, <2>1, <2>3 DEF Tables
  <2>5. ASSUME NEW c \in Addresses, NEW l \in Tokens PROVE balance[c][l].retired =< balance'[c][l].retired
    <3>1. balance'[c][l] = IF c = b /\ l = k THEN h ELSE IF c = a /\ l = k THEN g ELSE balance[c][l]
      BY <1>1, <2>1
    <3>2. balance[c][l].retired \in Nat BY <1>1
    <3> QED BY <3>1, <3>2, <2>3
  <2> QED BY <2>4, <2>5
<1> QED BY <1>2, <1>3, <1>4 DEF Index

-----------------------------------------------------------------------------
(* The two instances have the keys, sums and tables of TokenTables. *)
LEMMA AccountsOperators ==
  /\ \A a, n : Accounts!BalancesKey(a, n) = BalancesKey(a, n)
  /\ \A k : Accounts!ParseBalancesKey(k) = ParseBalancesKey(k)
  /\ \A t, k : Accounts!RetiredEver(t, k) = RetiredEver(t, k)
  /\ \A t, u, r : Accounts!ShownTokens(t, u, r) = ShownTokens(t, u, r)
  /\ \A t, a, k : Accounts!Held(t, a, k) <=> Held(t, a, k)
  /\ Accounts!Nothing = Nothing
  /\ Accounts!Index <=> Index
<1>1. \A a, n : Accounts!BalancesKey(a, n) = BalancesKey(a, n)
  BY DEF Accounts!BalancesKey, Accounts!NamePart, Accounts!Dash, Accounts!NullName,
         BalancesKey, NamePart, Dash, NullName
<1>2. \A k : Accounts!ParseBalancesKey(k) = ParseBalancesKey(k)
  BY DEF Accounts!ParseBalancesKey, Accounts!NameOf, Accounts!FirstDash, Accounts!Dashes,
         Accounts!Dash, Accounts!NullName, ParseBalancesKey, NameOf, FirstDash, Dashes, Dash, NullName
<1>3. \A f : Accounts!SumFunction(f) = SumFunction(f)
  BY DEF Accounts!SumFunction, Accounts!SumFunctionOnSet, Accounts!FoldFunctionOnSet,
         Accounts!MapThenFoldSet, SumFunction, SumFunctionOnSet, FoldFunctionOnSet, MapThenFoldSet
<1>4. \A t, k : Accounts!RetiredEver(t, k) = RetiredEver(t, k)
  BY <1>3 DEF Accounts!RetiredEver, RetiredEver
<1>5. Accounts!Nothing = Nothing BY DEF Accounts!Nothing, Nothing
<1>6. ASSUME NEW t, NEW u, NEW r PROVE Accounts!ShownTokens(t, u, r) = ShownTokens(t, u, r)
  BY <1>4, <1>5 DEF Accounts!ShownTokens, ShownTokens
<1>7. \A t, a, k : Accounts!Held(t, a, k) <=> Held(t, a, k)
  BY <1>5 DEF Accounts!Held, Held
<1>8. Accounts!Index <=> Index
  BY DEF Accounts!Index, Accounts!Mint, Accounts!Transfer, Accounts!Retire, Accounts!Commit,
         Index, Mint, Transfer, Retire, Commit
<1> QED BY <1>1, <1>2, <1>4, <1>5, <1>6, <1>7, <1>8

(* The operators that TokenTotals takes in are those of the module itself. *)
LEMMA TotalsOperators ==
  /\ \A a, n, f : Totals!TotalsKey(a, n, f) = TotalsKey(a, n, f)
  /\ \A k : Totals!ParseTotalsKey(k) = ParseTotalsKey(k)
  /\ \A f : Totals!SumFunction(f) = SumFunction(f)
  /\ \A t, k : Totals!RetiredEver(t, k) = RetiredEver(t, k)
  /\ \A t, u, r : Totals!ShownTokens(t, u, r) = ShownTokens(t, u, r)
  /\ \A s : Totals!FoldedTotals(s) = FoldedTotals(s)
  /\ \A t, a, k : Totals!Held(t, a, k) <=> Held(t, a, k)
  /\ \A t, a, k, all : Totals!RetiredShown(t, a, k, all) = RetiredShown(t, a, k, all)
  /\ Totals!Nothing = Nothing
  /\ Totals!Index <=> Index
<1>1. \A a, n, f : Totals!TotalsKey(a, n, f) = TotalsKey(a, n, f)
  BY DEF Totals!TotalsKey, Totals!BalancesKey, Totals!NamePart, Totals!FlagPart, Totals!Dash,
         Totals!NullName, TotalsKey, BalancesKey, NamePart, FlagPart, Dash, NullName
<1>2. \A k : Totals!ParseTotalsKey(k) = ParseTotalsKey(k)
  BY DEF Totals!ParseTotalsKey, Totals!NameOf, Totals!FirstDash, Totals!LastDash, Totals!Dashes,
         Totals!Dash, Totals!NullName, ParseTotalsKey, NameOf, FirstDash, LastDash, Dashes, Dash, NullName
<1>3. \A f : Totals!SumFunction(f) = SumFunction(f)
  BY DEF Totals!SumFunction, Totals!SumFunctionOnSet, Totals!FoldFunctionOnSet,
         Totals!MapThenFoldSet, SumFunction, SumFunctionOnSet, FoldFunctionOnSet, MapThenFoldSet
<1>4. \A t, k : Totals!RetiredEver(t, k) = RetiredEver(t, k)
  BY <1>3 DEF Totals!RetiredEver, RetiredEver
<1>5. Totals!Nothing = Nothing BY DEF Totals!Nothing, Nothing
<1>6. ASSUME NEW t, NEW u, NEW r PROVE Totals!ShownTokens(t, u, r) = ShownTokens(t, u, r)
  BY <1>4, <1>5 DEF Totals!ShownTokens, ShownTokens
<1>7. \A t, a, k : Totals!Held(t, a, k) <=> Held(t, a, k)
  BY <1>5 DEF Totals!Held, Held
<1>8. Totals!Index <=> Index
  BY DEF Totals!Index, Totals!Mint, Totals!Transfer, Totals!Retire, Totals!Commit,
         Index, Mint, Transfer, Retire, Commit
<1>9. \A s : Totals!FoldedTotals(s) = FoldedTotals(s)
  BY <1>3 DEF Totals!FoldedTotals, FoldedTotals
<1>10. \A t, a, k, all : Totals!RetiredShown(t, a, k, all) = RetiredShown(t, a, k, all)
  BY <1>4 DEF Totals!RetiredShown, RetiredShown
<1> QED BY <1>1, <1>2, <1>3, <1>4, <1>5, <1>6, <1>7, <1>8, <1>9, <1>10

-----------------------------------------------------------------------------
(***************************************************************************)
(* getAccountTokens.  The tokens of a request, while its retirements are   *)
(* being read: those of the names read so far come from the later          *)
(* snapshots.                                                              *)
(***************************************************************************)
Chosen(t, r) == {k \in Tokens : Held(t, r.address, k) /\ (r.name = << >> \/ k.name = r.name)}

Gathered(r, k) ==
  IF r.allRetired /\ k.name \notin todo[r]
  THEN [seen[r.name][r.address][k] EXCEPT
          !.retired = IF seen[r.name][r.address][k].minted # 0
                      THEN RetiredEver(seenRetired[r][k.name], k) ELSE 0]
  ELSE seen[r.name][r.address][k]

Got(r) == {[token |-> k, shown |-> Gathered(r, k)] : k \in Chosen(seen[r.name], r)}

AccountsType ==
  /\ balance \in Tables
  /\ batch \in Batches
  /\ rows = [g \in Accounts!Groups |-> rows[g]]
  /\ tokens = [r \in batch |-> tokens[r]]
  /\ todo \in [batch -> SUBSET Accounts!ClassNames]
  /\ seen \in [Accounts!Groups -> Tables]
  /\ seenRetired \in [batch -> [Accounts!ClassNames -> Tables]]

AccountsInv ==
  /\ AccountsType
  /\ \A g \in Accounts!Groups :
       \/ rows[g] = Accounts!Pending
       \/ rows[g] = Accounts!BalanceRows(seen[g], Accounts!AddressesOf(g), g)
  /\ \A r \in batch : ~ r.allRetired => todo[r] = {}
  /\ \A g \in Accounts!Groups, a \in Addresses, k \in Tokens :
       seen[g][a][k].retired =< balance[a][k].retired
  /\ outcome \in {"gathered", "answered"} =>
       \A r \in batch, k \in Tokens, a \in Addresses :
         k \in Chosen(seen[r.name], r) /\ r.allRetired /\ k.name \notin todo[r] =>
           seen[r.name][a][k].retired =< seenRetired[r][k.name][a][k].retired
  /\ outcome = "gathered" => \A r \in batch : tokens[r] = Got(r)
  /\ outcome = "answered" => \A r \in batch : todo[r] = {} /\ tokens[r] = Accounts!NotAllZero(Got(r))

(* The groups of a batch are its names, each with its addresses. *)
LEMMA BatchGroups ==
  ASSUME batch \in Batches
  PROVE  /\ \A r \in batch : r.address \in Addresses /\ r.name \in Names /\ r.allRetired \in BOOLEAN
         /\ Accounts!Groups = {r.name : r \in batch}
         /\ \A g : Accounts!AddressesOf(g) = {r.address : r \in {q \in batch : q.name = g}}
<1>1. \A r \in batch : r.address \in Addresses /\ r.name \in Names /\ r.allRetired \in BOOLEAN
  BY TokenAssumption DEF Requests
<1>2. \A r \in batch : ParseBalancesKey(Accounts!KeyOf(r)) = [address |-> r.address, name |-> r.name]
  BY <1>1, KeysRoundTrip, AccountsOperators DEF Accounts!KeyOf
<1>3. Accounts!Parsed = {[address |-> r.address, name |-> r.name] : r \in batch}
  BY <1>2, AccountsOperators DEF Accounts!Parsed
<1>a. \A p \in Accounts!Parsed : \E r \in batch : p.address = r.address /\ p.name = r.name
  BY <1>3
<1>b. \A r \in batch : \E p \in Accounts!Parsed : p.address = r.address /\ p.name = r.name
  <2> SUFFICES ASSUME NEW r \in batch
               PROVE  \E p \in Accounts!Parsed : p.address = r.address /\ p.name = r.name
    OBVIOUS
  <2>1. [address |-> r.address, name |-> r.name] \in Accounts!Parsed BY <1>3
  <2> QED BY <2>1
<1>4. Accounts!Groups = {r.name : r \in batch}
  BY <1>a, <1>b DEF Accounts!Groups
<1>5. \A g : Accounts!AddressesOf(g) = {r.address : r \in {q \in batch : q.name = g}}
  BY <1>a, <1>b DEF Accounts!AddressesOf
<1> QED BY <1>1, <1>4, <1>5

(* The invariant of the accounts' batch holds at the start. *)
LEMMA AccountsInitInv == AccountsInit => AccountsInv
<1> SUFFICES ASSUME AccountsInit PROVE AccountsInv
  OBVIOUS
<1>1. balance \in Tables BY TokenAssumption DEF AccountsInit, Accounts!Init, Accounts!TablesInit
<1> USE DEF AccountsInit, Accounts!Init
<1>2. AccountsType BY <1>1 DEF AccountsType
<1>3. \A a \in Addresses, k \in Tokens : balance[a][k].retired =< balance[a][k].retired
  BY <1>1 DEF Tables
<1> QED BY <1>2, <1>3 DEF AccountsInv

(* What is derived from the batch stays while the batch does. *)
LEMMA SameBatch ==
  ASSUME batch' = batch
  PROVE  Accounts!Groups' = Accounts!Groups /\ \A g : Accounts!AddressesOf(g)' = Accounts!AddressesOf(g)
BY DEF Accounts!Groups, Accounts!AddressesOf, Accounts!Parsed, Accounts!KeyOf

(* The indexer's writes keep the invariant: what was read stays read. *)
LEMMA AccountsIndex ==
  ASSUME AccountsInv, UNCHANGED Accounts!loaderVars, Index \/ UNCHANGED tableVars
  PROVE  AccountsInv'
<1>1. UNCHANGED <<batch, rows, tokens, todo, outcome, seen, seenRetired>>
  BY DEF Accounts!loaderVars
<1>2. balance \in Tables BY DEF AccountsInv, AccountsType
<1>3. /\ balance' \in Tables
      /\ \A a \in Addresses, k \in Tokens : balance[a][k].retired =< balance'[a][k].retired
  <2>1. CASE Index BY <2>1, <1>2, IndexStep
  <2>2. CASE UNCHANGED tableVars BY <2>2, <1>2 DEF tableVars, Tables
  <2> QED BY <2>1, <2>2
<1>4. \A r, k : Gathered(r, k)' = Gathered(r, k) BY <1>1 DEF Gathered
<1>5. \A r : Got(r)' = Got(r) BY <1>1, <1>4 DEF Got
<1>6. Accounts!Groups' = Accounts!Groups /\ \A g : Accounts!AddressesOf(g)' = Accounts!AddressesOf(g)
  BY <1>1, SameBatch
<1>7. AccountsType' BY <1>1, <1>3, <1>6 DEF AccountsInv, AccountsType, Accounts!ClassNames
<1>8. \A g \in Accounts!Groups', a \in Addresses, k \in Tokens :
        seen'[g][a][k].retired =< balance'[a][k].retired
  <2> SUFFICES ASSUME NEW g \in Accounts!Groups, NEW a \in Addresses, NEW k \in Tokens
               PROVE  seen[g][a][k].retired =< balance'[a][k].retired
    BY <1>1, <1>6
  <2>1. seen[g] \in Tables BY DEF AccountsInv, AccountsType
  <2>2. seen[g][a][k].retired \in Nat /\ balance[a][k].retired \in Nat /\ balance'[a][k].retired \in Nat
    BY <2>1, <1>2, <1>3 DEF Tables
  <2>3. seen[g][a][k].retired =< balance[a][k].retired BY DEF AccountsInv
  <2> QED BY <2>2, <2>3, <1>3
<1> QED BY <1>1, <1>5, <1>6, <1>7, <1>8 DEF AccountsInv, Accounts!BalanceRows, Accounts!Pending,
                                            Accounts!NotAllZero, Chosen

(* The answer to the balances query of a group fixes its snapshot. *)
LEMMA AccountsQuery ==
  ASSUME AccountsInv, NEW g \in Accounts!Groups, Accounts!BalancesReturn(g)
  PROVE  AccountsInv'
<1>1. /\ outcome = "reading"
      /\ UNCHANGED <<balance, batch, tokens, todo, outcome, seenRetired>>
      /\ rows' = [rows EXCEPT ![g] = Accounts!BalanceRows(balance, Accounts!AddressesOf(g), g)]
      /\ seen' = [seen EXCEPT ![g] = balance]
  BY DEF Accounts!BalancesReturn, Accounts!tableVars
<1>2. Accounts!Groups' = Accounts!Groups /\ \A h : Accounts!AddressesOf(h)' = Accounts!AddressesOf(h)
  BY <1>1, SameBatch
<1>3. /\ DOMAIN rows = Accounts!Groups /\ balance \in Tables
      /\ rows = [h \in Accounts!Groups |-> rows[h]]
      /\ seen \in [Accounts!Groups -> Tables]
  BY DEF AccountsInv, AccountsType
<1>4. /\ DOMAIN rows' = Accounts!Groups
      /\ rows' = [h \in Accounts!Groups |-> rows'[h]] 
      /\ rows'[g] = Accounts!BalanceRows(balance, Accounts!AddressesOf(g), g)
      /\ seen'[g] = balance
      /\ \A h \in Accounts!Groups : h # g => rows'[h] = rows[h] /\ seen'[h] = seen[h]
      /\ seen' \in [Accounts!Groups -> Tables]
  BY <1>1, <1>3
<1>5. AccountsType' BY <1>1, <1>2, <1>4 DEF AccountsInv, AccountsType, Accounts!ClassNames
<1>6. \A h \in Accounts!Groups :
        \/ rows'[h] = Accounts!Pending
        \/ rows'[h] = Accounts!BalanceRows(seen'[h], Accounts!AddressesOf(h), h)
  BY <1>4 DEF AccountsInv
<1>7. \A h \in Accounts!Groups, a \in Addresses, k \in Tokens : seen'[h][a][k].retired =< balance[a][k].retired
  <2>1. \A h \in Accounts!Groups, a \in Addresses, k \in Tokens : seen[h][a][k].retired =< balance[a][k].retired
    BY DEF AccountsInv
  <2>2. \A a \in Addresses, k \in Tokens : balance[a][k].retired =< balance[a][k].retired
    BY <1>3 DEF Tables
  <2> QED BY <2>1, <2>2, <1>4
<1>8. (\A h \in Accounts!Groups :
        \/ rows[h] = Accounts!Pending
        \/ rows[h] = Accounts!BalanceRows(seen[h], Accounts!AddressesOf(h), h))'
  BY <1>2, <1>6 DEF Accounts!BalanceRows, Accounts!Pending, Accounts!Held
<1> QED BY <1>1, <1>2, <1>5, <1>7, <1>8 DEF AccountsInv

(* The rows a request is handed are of its address and name, from the      *)
(* snapshot of its group.                                                  *)
LEMMA AccountsRows ==
  ASSUME AccountsInv, \A g \in Accounts!Groups : rows[g] # Accounts!Pending, NEW r \in batch
  PROVE  {[token |-> x.token, shown |-> x.shown] : x \in Accounts!RowsOf(r)} =
           {[token |-> k, shown |-> seen[r.name][r.address][k]] : k \in Chosen(seen[r.name], r)}
<1>1. batch \in Batches BY DEF AccountsInv, AccountsType
<1>2. /\ \A q \in batch : q.address \in Addresses /\ q.name \in Names
      /\ r.name \in Accounts!Groups
      /\ \A g \in Accounts!Groups : g \in Names /\ Accounts!AddressesOf(g) \subseteq Addresses
      /\ r.address \in Accounts!AddressesOf(r.name)
  BY <1>1, BatchGroups
<1>3. \A g \in Accounts!Groups : rows[g] = Accounts!BalanceRows(seen[g], Accounts!AddressesOf(g), g)
  BY DEF AccountsInv
<1>4. \A g \in Accounts!Groups : \A x : x \in rows[g] <=>
        \E a \in Accounts!AddressesOf(g), k \in Tokens :
          /\ Held(seen[g], a, k) /\ (g = << >> \/ k.name = g)
          /\ x = [address |-> a, token |-> k, shown |-> seen[g][a][k]]
  BY <1>3, AccountsOperators DEF Accounts!BalanceRows
<1>5. ASSUME NEW x \in Accounts!RowsOf(r)
      PROVE  \E k \in Chosen(seen[r.name], r) : x.token = k /\ x.shown = seen[r.name][r.address][k]
  <2>1. PICK g \in Accounts!Groups : x \in rows[g] /\ BalancesKey(x.address, g) = BalancesKey(r.address, r.name)
    BY <1>5, AccountsOperators DEF Accounts!RowsOf, Accounts!KeyOf
  <2>2. PICK a \in Accounts!AddressesOf(g), k \in Tokens :
          /\ Held(seen[g], a, k) /\ (g = << >> \/ k.name = g)
          /\ x = [address |-> a, token |-> k, shown |-> seen[g][a][k]]
    BY <1>4, <2>1
  <2>3. a = r.address /\ g = r.name
    BY <1>2, <2>1, <2>2, KeysDiffer
  <2> QED BY <2>2, <2>3 DEF Chosen
<1>6. ASSUME NEW k \in Chosen(seen[r.name], r)
      PROVE  \E x \in Accounts!RowsOf(r) : x.token = k /\ x.shown = seen[r.name][r.address][k]
  <2> DEFINE x == [address |-> r.address, token |-> k, shown |-> seen[r.name][r.address][k]]
  <2>1. x \in rows[r.name] BY <1>2, <1>4 DEF Chosen
  <2>2. x.address = r.address /\ x.token = k /\ x.shown = seen[r.name][r.address][k] OBVIOUS
  <2> HIDE DEF x
  <2>3. x \in Accounts!RowsOf(r)
    BY <1>2, <2>1, <2>2 DEF Accounts!RowsOf, Accounts!KeyOf
  <2> QED BY <2>2, <2>3
<1> QED BY <1>5, <1>6

(* Gathering asks for the retirements of the classes that are needed. *)
LEMMA AccountsGather ==
  ASSUME AccountsInv, Accounts!Gather
  PROVE  AccountsInv'
<1>1. /\ \A g \in Accounts!Groups : rows[g] # Accounts!Pending
      /\ outcome' = "gathered"
      /\ tokens' = [r \in batch |->
                      {[token |-> x.token, shown |-> x.shown] : x \in Accounts!RowsOf(r)}]
      /\ todo' = [r \in batch |-> IF r.allRetired THEN Accounts!NamesIn(tokens'[r]) ELSE {}]
      /\ UNCHANGED <<balance, batch, rows, seen, seenRetired>>
  BY DEF Accounts!Gather, Accounts!tableVars
<1>2. \A r \in batch : tokens'[r] =
        {[token |-> k, shown |-> seen[r.name][r.address][k]] : k \in Chosen(seen[r.name], r)}
  BY <1>1, AccountsRows
<1>3. Accounts!Groups' = Accounts!Groups /\ \A h : Accounts!AddressesOf(h)' = Accounts!AddressesOf(h)
  BY <1>1, SameBatch
<1>4. ASSUME NEW r \in batch
      PROVE  /\ r.allRetired => \A k \in Chosen(seen[r.name], r) : k.name \in todo'[r]
             /\ todo'[r] \subseteq Accounts!ClassNames
  <2>1. \A k \in Chosen(seen[r.name], r) : \E x \in tokens'[r] : x.token = k
    <3> SUFFICES ASSUME NEW k \in Chosen(seen[r.name], r) PROVE \E x \in tokens'[r] : x.token = k
      OBVIOUS
    <3>1. [token |-> k, shown |-> seen[r.name][r.address][k]] \in tokens'[r] BY <1>2
    <3> QED BY <3>1
  <2>2. \A x \in tokens'[r] : x.token \in Tokens BY <1>2 DEF Chosen
  <2> QED BY <2>1, <2>2, <1>1 DEF Accounts!NamesIn, Accounts!ClassNames
<1>5. AccountsType'
  <2>1. todo' \in [batch -> SUBSET Accounts!ClassNames] BY <1>1, <1>4
  <2>2. tokens' = [r \in batch |-> tokens'[r]] BY <1>1
  <2> QED BY <1>1, <1>3, <2>1, <2>2 DEF AccountsInv, AccountsType, Accounts!ClassNames
<1>6. \A r \in batch : tokens'[r] = Got(r)'
  <2> SUFFICES ASSUME NEW r \in batch PROVE tokens'[r] = Got(r)'
    OBVIOUS
  <2>1. Got(r)' = {[token |-> k, shown |-> Gathered(r, k)'] : k \in Chosen(seen[r.name], r)}
    BY <1>1 DEF Got, Chosen
  <2>2. \A k \in Chosen(seen[r.name], r) : Gathered(r, k)' = seen[r.name][r.address][k]
    BY <1>1, <1>4 DEF Gathered
  <2> QED BY <2>1, <2>2, <1>2
<1>7. \A r \in batch, k \in Tokens : ~ (k \in Chosen(seen[r.name], r) /\ r.allRetired /\ k.name \notin todo'[r])
  BY <1>4
<1>8. \A r \in batch : ~ r.allRetired => todo'[r] = {} BY <1>1
<1>9. (\A h \in Accounts!Groups :
        \/ rows[h] = Accounts!Pending
        \/ rows[h] = Accounts!BalanceRows(seen[h], Accounts!AddressesOf(h), h))'
  BY <1>1, <1>3 DEF AccountsInv, Accounts!BalanceRows, Accounts!Pending
<1>10. \A g \in Accounts!Groups, a \in Addresses, k \in Tokens : seen[g][a][k].retired =< balance[a][k].retired
  BY DEF AccountsInv
<1> QED BY <1>1, <1>3, <1>5, <1>6, <1>7, <1>8, <1>9, <1>10 DEF AccountsInv, Chosen

(* The answer to one retirements query fixes the second snapshot of one
   request and class. *)
LEMMA AccountsRetirements ==
  ASSUME AccountsInv, NEW r \in batch, NEW n \in Accounts!ClassNames, Accounts!RetirementsReturn(r, n)
  PROVE  AccountsInv'
<1>1. /\ outcome = "gathered" /\ n \in todo[r] /\ outcome' = "gathered"
      /\ tokens' = [tokens EXCEPT ![r] = Accounts!WithRetired(tokens[r], n, balance)]
      /\ todo' = [todo EXCEPT ![r] = todo[r] \ {n}]
      /\ seenRetired' = [seenRetired EXCEPT ![r][n] = balance]
      /\ UNCHANGED <<balance, batch, rows, seen>>
  BY DEF Accounts!RetirementsReturn, Accounts!tableVars
<1>2. /\ balance \in Tables
      /\ tokens = [q \in batch |-> tokens[q]]
      /\ todo \in [batch -> SUBSET Accounts!ClassNames]
      /\ seenRetired \in [batch -> [Accounts!ClassNames -> Tables]]
  BY DEF AccountsInv, AccountsType
<1>3. /\ tokens' = [q \in batch |-> tokens'[q]]
      /\ todo' \in [batch -> SUBSET Accounts!ClassNames]
      /\ seenRetired' \in [batch -> [Accounts!ClassNames -> Tables]]
      /\ tokens'[r] = Accounts!WithRetired(tokens[r], n, balance)
      /\ todo'[r] = todo[r] \ {n} /\ seenRetired'[r][n] = balance
      /\ \A m \in Accounts!ClassNames : m # n => seenRetired'[r][m] = seenRetired[r][m]
      /\ \A q \in batch : q # r => tokens'[q] = tokens[q] /\ todo'[q] = todo[q] /\ seenRetired'[q] = seenRetired[q]
  BY <1>1, <1>2
<1>4. r.allRetired BY <1>1 DEF AccountsInv
<1>5. Accounts!Groups' = Accounts!Groups /\ \A h : Accounts!AddressesOf(h)' = Accounts!AddressesOf(h)
  BY <1>1, SameBatch
<1>6. AccountsType' BY <1>1, <1>3, <1>5 DEF AccountsInv, AccountsType, Accounts!ClassNames
<1>7. \A k \in Tokens : k.name \in Accounts!ClassNames BY DEF Accounts!ClassNames
<1>8. ASSUME NEW q \in batch PROVE tokens'[q] = Got(q)'
  <2>0. tokens[q] = Got(q) BY <1>1 DEF AccountsInv
  <2>1. Got(q)' = {[token |-> k, shown |-> Gathered(q, k)'] : k \in Chosen(seen[q.name], q)}
    BY <1>1 DEF Got, Chosen
  <2>2. CASE q # r
    <3>1. \A k : Gathered(q, k)' = Gathered(q, k) BY <2>2, <1>1, <1>3 DEF Gathered
    <3> QED BY <3>1, <2>0, <2>1, <2>2, <1>3 DEF Got
  <2>3. CASE q = r
    <3> DEFINE read(x) == IF x.token.name # n THEN x
                          ELSE [x EXCEPT !.shown.retired =
                                  IF x.shown.minted # 0 THEN RetiredEver(balance, x.token) ELSE 0]
    <3>1. tokens'[q] = {read(x) : x \in Got(q)}
      BY <1>3, <2>0, <2>3, AccountsOperators DEF Accounts!WithRetired
    <3>2. ASSUME NEW k \in Chosen(seen[q.name], q)
          PROVE  read([token |-> k, shown |-> Gathered(q, k)]) = [token |-> k, shown |-> Gathered(q, k)']
      <4>1. k \in Tokens /\ k.name \in Accounts!ClassNames BY <1>7 DEF Chosen
      <4>2. CASE k.name # n
        <5>1. Gathered(q, k)' = Gathered(q, k) BY <4>1, <4>2, <2>3, <1>1, <1>3 DEF Gathered
        <5> QED BY <5>1, <4>2
      <4>3. CASE k.name = n
        <5> DEFINE h == seen[q.name][q.address][k]
        <5>1. Gathered(q, k) = h BY <4>3, <2>3, <1>1 DEF Gathered
        <5>2. Gathered(q, k)' = [h EXCEPT !.retired = IF h.minted # 0 THEN RetiredEver(balance, k) ELSE 0]
          BY <4>3, <2>3, <1>1, <1>3, <1>4 DEF Gathered
        <5> HIDE DEF h
        <5>3. read([token |-> k, shown |-> h]) =
                [token |-> k, shown |-> [h EXCEPT !.retired = IF h.minted # 0 THEN RetiredEver(balance, k) ELSE 0]]
          BY <4>3
        <5> QED BY <5>1, <5>2, <5>3
      <4> QED BY <4>2, <4>3
    <3>3. {read(x) : x \in Got(q)} =
            {read([token |-> k, shown |-> Gathered(q, k)]) : k \in Chosen(seen[q.name], q)}
      <4> HIDE DEF read
      <4> QED BY DEF Got
    <3>4. {read([token |-> k, shown |-> Gathered(q, k)]) : k \in Chosen(seen[q.name], q)} =
            {[token |-> k, shown |-> Gathered(q, k)'] : k \in Chosen(seen[q.name], q)}
      <4> HIDE DEF read
      <4> QED BY <3>2
    <3> HIDE DEF read
    <3> QED BY <3>1, <3>3, <3>4, <2>1
  <2> QED BY <2>2, <2>3
<1>9. ASSUME NEW q \in batch, NEW k \in Tokens, NEW a \in Addresses,
             k \in Chosen(seen[q.name], q), q.allRetired, k.name \notin todo'[q]
      PROVE  seen[q.name][a][k].retired =< seenRetired'[q][k.name][a][k].retired
  <2>1. CASE q = r /\ k.name = n
    <3>1. q.name \in Accounts!Groups
      <4>1. batch \in Batches BY DEF AccountsInv, AccountsType
      <4> QED BY <4>1, BatchGroups
    <3>2. seen[q.name][a][k].retired =< balance[a][k].retired BY <3>1 DEF AccountsInv
    <3> QED BY <3>2, <2>1, <1>3
  <2>2. CASE q # r \/ k.name # n
    <3>1. k.name \notin todo[q] BY <2>2, <1>9, <1>3
    <3>2. seen[q.name][a][k].retired =< seenRetired[q][k.name][a][k].retired
      BY <3>1, <1>9, <1>1 DEF AccountsInv
    <3>3. seenRetired'[q][k.name] = seenRetired[q][k.name] BY <2>2, <1>3, <1>7
    <3> QED BY <3>2, <3>3
  <2> QED BY <2>1, <2>2
<1>10. \A q \in batch : ~ q.allRetired => todo'[q] = {} BY <1>3, <1>4 DEF AccountsInv
<1>11. (\A h \in Accounts!Groups :
        \/ rows[h] = Accounts!Pending
        \/ rows[h] = Accounts!BalanceRows(seen[h], Accounts!AddressesOf(h), h))'
  BY <1>1, <1>5 DEF AccountsInv, Accounts!BalanceRows, Accounts!Pending
<1>12. \A g \in Accounts!Groups, a \in Addresses, k \in Tokens : seen[g][a][k].retired =< balance[a][k].retired
  BY DEF AccountsInv
<1> QED BY <1>1, <1>5, <1>6, <1>8, <1>9, <1>10, <1>11, <1>12 DEF AccountsInv, Chosen

(* Answering, or failing, keeps it. *)
LEMMA AccountsAnswer ==
  ASSUME AccountsInv, Accounts!Answer \/ Accounts!QueryFails
  PROVE  AccountsInv'
<1>1. UNCHANGED <<balance, batch, rows, todo, seen, seenRetired>>
  BY DEF Accounts!Answer, Accounts!QueryFails, Accounts!tableVars
<1>2. Accounts!Groups' = Accounts!Groups /\ \A h : Accounts!AddressesOf(h)' = Accounts!AddressesOf(h)
  BY <1>1, SameBatch
<1>3. (\A h \in Accounts!Groups :
        \/ rows[h] = Accounts!Pending
        \/ rows[h] = Accounts!BalanceRows(seen[h], Accounts!AddressesOf(h), h))'
  BY <1>1, <1>2 DEF AccountsInv, Accounts!BalanceRows, Accounts!Pending
<1>4. \A r, k : Gathered(r, k)' = Gathered(r, k) BY <1>1 DEF Gathered
<1>5. \A r : Got(r)' = Got(r) BY <1>1, <1>4 DEF Got
<1>6. CASE Accounts!Answer
  <2>1. /\ outcome = "gathered" /\ outcome' = "answered"
        /\ \A r \in batch : todo[r] = {}
        /\ tokens' = [r \in batch |-> Accounts!NotAllZero(tokens[r])]
    BY <1>6 DEF Accounts!Answer
  <2>2. AccountsType' BY <1>1, <1>2, <2>1 DEF AccountsInv, AccountsType, Accounts!ClassNames
  <2>3. \A r \in batch : tokens'[r] = Accounts!NotAllZero(Got(r)')
    BY <2>1, <1>5 DEF AccountsInv
  <2>4. \A r \in batch : tokens'[r] = Accounts!NotAllZero(Got(r))'
    BY <2>3 DEF Accounts!NotAllZero
  <2> QED BY <1>1, <1>2, <1>3, <2>1, <2>2, <2>4 DEF AccountsInv, Chosen
<1>7. CASE Accounts!QueryFails
  <2>1. outcome' = "rejected" /\ tokens' = tokens BY <1>7 DEF Accounts!QueryFails
  <2>2. AccountsType' BY <1>1, <1>2, <2>1 DEF AccountsInv, AccountsType, Accounts!ClassNames
  <2> QED BY <1>1, <1>2, <1>3, <2>1, <2>2 DEF AccountsInv
<1> QED BY <1>6, <1>7

(* The invariant of getAccountTokens is preserved by every step. *)
LEMMA AccountsStep ==
  ASSUME detail, AccountsInv, [Next]_batchVars
  PROVE  AccountsInv'
<1>1. CASE UNCHANGED batchVars
  <2>1. UNCHANGED Accounts!loaderVars /\ UNCHANGED tableVars
    BY <1>1 DEF batchVars, accountsOnly, Accounts!loaderVars
  <2> QED BY <2>1, AccountsIndex
<1>2. CASE Accounts!Next
  <2>1. CASE Accounts!Index /\ UNCHANGED Accounts!loaderVars
    BY <2>1, AccountsOperators, AccountsIndex
  <2>2. CASE \E g \in Accounts!Groups : Accounts!BalancesReturn(g)
    BY <2>2, AccountsQuery
  <2>3. CASE Accounts!Gather BY <2>3, AccountsGather
  <2>4. CASE \E r \in batch, n \in Accounts!ClassNames : Accounts!RetirementsReturn(r, n)
    BY <2>4, AccountsRetirements
  <2>5. CASE Accounts!Answer BY <2>5, AccountsAnswer
  <2>6. CASE Accounts!QueryFails BY <2>6, AccountsAnswer
  <2>7. CASE Accounts!Settled
    <3>1. UNCHANGED Accounts!loaderVars /\ UNCHANGED tableVars
      BY <2>7 DEF Accounts!Settled, Accounts!vars, Accounts!tableVars, tableVars
    <3> QED BY <3>1, AccountsIndex
  <2> QED BY <1>2, <2>1, <2>2, <2>3, <2>4, <2>5, <2>6, <2>7 DEF Accounts!Next
<1> QED BY <1>1, <1>2 DEF Next

(* What a request has gathered when it is through is what the reference    *)
(* shows, with the retirements of the snapshot read for the token's name.  *)
ShownOf(t, u, r, k) ==
  [t[r.address][k] EXCEPT
     !.retired = IF r.allRetired /\ t[r.address][k].minted # 0
                 THEN RetiredEver(u, k) ELSE IF r.allRetired THEN 0 ELSE @]

(* What has been gathered for a request is what its two snapshots show. *)
LEMMA GatheredIsShown ==
  ASSUME NEW r, NEW k \in Tokens, todo[r] = {}, r.address \in Addresses, r.allRetired \in BOOLEAN,
         seen[r.name] \in Tables
  PROVE  Gathered(r, k) = ShownOf(seen[r.name], seenRetired[r][k.name], r, k)
<1> DEFINE h == seen[r.name][r.address][k]
<1>1. h \in [amount : Nat, minted : Nat, retired : Nat] BY DEF Tables
<1>2. Gathered(r, k) = IF r.allRetired
                       THEN [h EXCEPT !.retired = IF h.minted # 0 THEN RetiredEver(seenRetired[r][k.name], k) ELSE 0]
                       ELSE h
  BY DEF Gathered
<1>3. ShownOf(seen[r.name], seenRetired[r][k.name], r, k) =
        [h EXCEPT !.retired = IF r.allRetired /\ h.minted # 0
                              THEN RetiredEver(seenRetired[r][k.name], k)
                              ELSE IF r.allRetired THEN 0 ELSE h.retired]
  BY DEF ShownOf
<1> HIDE DEF h
<1> QED BY <1>1, <1>2, <1>3

(* A token that the account does not hold is not shown. *)
LEMMA NothingShown ==
  ASSUME NEW t \in Tables, NEW u, NEW r, r.address \in Addresses, NEW k \in Tokens,
         ~ Held(t, r.address, k)
  PROVE  ShownOf(t, u, r, k) = Nothing
<1>1. t[r.address][k] = Nothing BY DEF Held
<1> QED BY <1>1 DEF ShownOf, Nothing

(* ShownTokens, as the tokens with something to show. *)
LEMMA ShownTokensAre ==
  ASSUME NEW t, NEW u, NEW r
  PROVE  ShownTokens(t, u, r) =
           {[token |-> k, shown |-> ShownOf(t, u, r, k)] :
              k \in {l \in Tokens : (r.name = << >> \/ l.name = r.name) /\ ShownOf(t, u, r, l) # Nothing}}
BY DEF ShownTokens, ShownOf

(* In an answered batch each request got the tokens of its two snapshots. *)
LEMMA AccountsTokens ==
  ASSUME AccountsInv
  PROVE  Accounts!TokensOfTwoSnapshots
<1> SUFFICES ASSUME outcome = "answered", NEW r \in batch
             PROVE  tokens[r] =
               UNION {{x \in ShownTokens(seen[r.name], seenRetired[r][n], r) : x.token.name = n} :
                        n \in Accounts!ClassNames}
  BY AccountsOperators DEF Accounts!TokensOfTwoSnapshots
<1> DEFINE t == seen[r.name]
           u(n) == seenRetired[r][n]
<1>1. tokens[r] = Accounts!NotAllZero(Got(r)) /\ todo[r] = {} BY DEF AccountsInv
<1>2. batch \in Batches /\ seen \in [Accounts!Groups -> Tables] BY DEF AccountsInv, AccountsType
<1>3. r.address \in Addresses /\ r.allRetired \in BOOLEAN /\ t \in Tables BY <1>2, BatchGroups
<1>4. \A k \in Tokens : Gathered(r, k) = ShownOf(t, u(k.name), r, k)
  BY <1>1, <1>3, GatheredIsShown
<1>5. \A k \in Tokens : ~ Held(t, r.address, k) => ShownOf(t, u(k.name), r, k) = Nothing
  BY <1>3, NothingShown
<1>6. \A k \in Tokens : k.name \in Accounts!ClassNames BY DEF Accounts!ClassNames
<1>7. \A n : ShownTokens(t, u(n), r) =
        {[token |-> k, shown |-> ShownOf(t, u(n), r, k)] :
           k \in {l \in Tokens : (r.name = << >> \/ l.name = r.name) /\ ShownOf(t, u(n), r, l) # Nothing}}
  BY ShownTokensAre
<1>8. ASSUME NEW y \in tokens[r]
      PROVE  \E n \in Accounts!ClassNames : y \in ShownTokens(t, u(n), r) /\ y.token.name = n
  <2>1. PICK k \in Chosen(t, r) : y = [token |-> k, shown |-> Gathered(r, k)]
    BY <1>1, <1>8 DEF Accounts!NotAllZero, Got
  <2>2. y.shown # Nothing BY <1>1, <1>8, AccountsOperators DEF Accounts!NotAllZero
  <2>3. k \in Tokens /\ (r.name = << >> \/ k.name = r.name) BY DEF Chosen
  <2>4. y \in ShownTokens(t, u(k.name), r)
    <3> HIDE DEF t, u
    <3> QED BY <2>1, <2>2, <2>3, <1>4, <1>7
  <2> QED BY <2>1, <2>3, <2>4, <1>6
<1>9. ASSUME NEW n \in Accounts!ClassNames, NEW y \in ShownTokens(t, u(n), r), y.token.name = n
      PROVE  y \in tokens[r]
  <2>1. PICK k \in Tokens : /\ r.name = << >> \/ k.name = r.name
                            /\ ShownOf(t, u(n), r, k) # Nothing
                            /\ y = [token |-> k, shown |-> ShownOf(t, u(n), r, k)]
    <3> HIDE DEF t, u
    <3> QED BY <1>7
  <2>2. k.name = n BY <2>1, <1>9
  <2>3. k \in Chosen(t, r) /\ Gathered(r, k) = ShownOf(t, u(n), r, k)
    <3> HIDE DEF t, u
    <3> QED BY <2>1, <2>2, <1>4, <1>5 DEF Chosen
  <2>4. y \in Got(r) /\ y.shown # Nothing
    <3> HIDE DEF u
    <3> QED BY <2>1, <2>3 DEF Got
  <2> QED BY <2>4, <1>1, AccountsOperators DEF Accounts!NotAllZero
<1> DEFINE F(n) == {x \in ShownTokens(t, u(n), r) : x.token.name = n}
<1>10. \A y \in tokens[r] : \E n \in Accounts!ClassNames : y \in F(n) BY <1>8
<1>11. \A n \in Accounts!ClassNames : \A y \in F(n) : y \in tokens[r] BY <1>9
<1>12. tokens[r] = UNION {F(n) : n \in Accounts!ClassNames}
  <2> HIDE DEF F
  <2> QED BY <1>10, <1>11
<1> QED BY <1>12

(* In an answered batch the retirements of all cover the account's own. *)
LEMMA AccountsCover ==
  ASSUME AccountsInv
  PROVE  Accounts!AllRetiredCoversOwn
<1> SUFFICES ASSUME outcome = "answered", NEW q \in batch, NEW r \in batch,
                    q.address = r.address, q.name = r.name, ~ q.allRetired, r.allRetired,
                    NEW x \in tokens[q], x.shown.minted # 0
             PROVE  \E y \in tokens[r] : y.token = x.token /\ y.shown.retired >= x.shown.retired
  BY DEF Accounts!AllRetiredCoversOwn
<1>1. /\ tokens[q] = Accounts!NotAllZero(Got(q)) /\ todo[q] = {}
      /\ tokens[r] = Accounts!NotAllZero(Got(r)) /\ todo[r] = {}
  BY DEF AccountsInv
<1>2. /\ batch \in Batches /\ seen \in [Accounts!Groups -> Tables]
      /\ seenRetired \in [batch -> [Accounts!ClassNames -> Tables]]
  BY DEF AccountsInv, AccountsType
<1>3. r.address \in Addresses /\ seen[r.name] \in Tables BY <1>2, BatchGroups
<1>4. PICK k \in Chosen(seen[q.name], q) : x = [token |-> k, shown |-> Gathered(q, k)]
  BY <1>1 DEF Accounts!NotAllZero, Got
<1> DEFINE h == seen[r.name][r.address][k]
           u == seenRetired[r][k.name]
           g == [h EXCEPT !.retired = RetiredEver(u, k)]
<1>5. x.shown = h /\ x.token = k BY <1>4 DEF Gathered
<1>6. k \in Chosen(seen[r.name], r) /\ k \in Tokens BY <1>4 DEF Chosen
<1>7. k.name \in Accounts!ClassNames /\ u \in Tables BY <1>2, <1>6 DEF Accounts!ClassNames
<1>8. h \in [amount : Nat, minted : Nat, retired : Nat] BY <1>3, <1>6 DEF Tables
<1>9. h.minted # 0 BY <1>5
<1>10. Gathered(r, k) = g BY <1>1, <1>9 DEF Gathered
<1>11. h.retired =< u[r.address][k].retired BY <1>1, <1>3, <1>6 DEF AccountsInv
<1>12. u[r.address][k].retired =< RetiredEver(u, k) /\ RetiredEver(u, k) \in Nat
  BY <1>3, <1>6, <1>7, RetiredEverCovers
<1>13. u[r.address][k].retired \in Nat BY <1>3, <1>6, <1>7 DEF Tables
<1>14. g.minted # 0 /\ g.retired = RetiredEver(u, k) /\ h.retired \in Nat
  <2> HIDE DEF h, u
  <2> QED BY <1>8, <1>9
<1>15. [token |-> k, shown |-> g] \in Got(r)
  <2> HIDE DEF g
  <2> QED BY <1>6, <1>10 DEF Got
<1>16. g # Nothing
  <2> HIDE DEF g
  <2> QED BY <1>14 DEF Nothing
<1>17. [token |-> k, shown |-> g] \in tokens[r]
  <2> HIDE DEF g
  <2> QED BY <1>1, <1>15, <1>16, AccountsOperators DEF Accounts!NotAllZero
<1>18. g.retired >= h.retired
  <2> HIDE DEF g, h, u
  <2> QED BY <1>11, <1>12, <1>13, <1>14
<1> HIDE DEF g, h
<1> QED BY <1>5, <1>17, <1>18

(* The invariant holds in every state of a batch of accounts. *)
LEMMA AccountsInvAlways == Spec => [](detail => AccountsInv)
<1>1. Init => (detail => AccountsInv) BY AccountsInitInv DEF Init, TotalsInit
<1>2. (detail => AccountsInv) /\ [Next]_batchVars => (detail => AccountsInv)'
  <2> SUFFICES ASSUME detail => AccountsInv, [Next]_batchVars, detail' PROVE AccountsInv'
    OBVIOUS
  <2>1. detail BY DEF Next, batchVars
  <2> QED BY <2>1, AccountsStep
<1> QED BY <1>1, <1>2, PTL DEF Spec

(***************************************************************************)
(* token.ts:214-215, :274-275: for every batch, interleaving and sequence  *)
(* of commits, a request of getAccountTokens gets its tokens with the      *)
(* amounts of its group's snapshot and the retirements of the name's.      *)
(***************************************************************************)
THEOREM TokensOfTwoSnapshotsAlways == Spec => []TokensOfTwoSnapshots
<1>1. (detail => AccountsInv) => TokensOfTwoSnapshots
  BY AccountsTokens DEF TokensOfTwoSnapshots
<1> QED BY <1>1, AccountsInvAlways, PTL

(***************************************************************************)
(* token.ts:274-275: allEntityRetired never shows fewer retirements of a   *)
(* minted token than the request without it, for any number of addresses,  *)
(* tokens and commits.                                                     *)
(***************************************************************************)
THEOREM AllRetiredCoversOwnAlways == Spec => []AllRetiredCoversOwn
<1>1. (detail => AccountsInv) => AllRetiredCoversOwn
  BY AccountsCover DEF AllRetiredCoversOwn
<1> QED BY <1>1, AccountsInvAlways, PTL

-----------------------------------------------------------------------------
(***************************************************************************)
(* getTokensTotal*.  Every dispatch asks for keys of requests of the       *)
(* batch, what is there is what its query saw, and whatever a request      *)
(* needs has been dispatched.                                              *)
(***************************************************************************)
AnswerOf(r) ==
  CASE field = "address" -> Totals!TotalsOf(r, r.address)
    [] field \in {"entities", "collection"} -> Totals!ByEntity(r)
    [] field = "amounts" -> Totals!Amounts(r)

TotalsType ==
  /\ balance \in Tables
  /\ batch \in IF field = "address" THEN Batches ELSE FanOuts
  /\ field \in Totals!Fields
  /\ found = [r \in batch |-> found[r]]

Dispatched ==
  \A d \in DOMAIN rows :
    /\ \A key \in d : \E r \in batch, a \in Addresses : key = Totals!KeyFor(r, a)
    /\ \A g \in Totals!GroupsOf(d) :
         \/ rows[d][g] = Totals!Pending
         \/ /\ <<d, g>> \in DOMAIN seen /\ seen[<<d, g>>] \in Tables
            /\ rows[d][g] =
                 Totals!GroupedRows(seen[<<d, g>>], Totals!AddressesOf(d, g), g.name, g.retired)

Needed ==
  /\ field = "address" =>
       \A r \in batch : \E d \in DOMAIN rows : Totals!KeyFor(r, r.address) \in d
  /\ \A r \in batch :
       found[r] # Totals!Pending =>
         /\ found[r] \subseteq Entities
         /\ \A e \in found[r] :
              e.admin # NoAccount => \E d \in DOMAIN rows : Totals!KeyFor(r, e.admin) \in d

Answered ==
  outcome = "answered" =>
    /\ \A r \in batch : found[r] # Totals!Pending /\ answers[r] = AnswerOf(r)
    /\ \A d \in DOMAIN rows : \A g \in Totals!GroupsOf(d) : rows[d][g] # Totals!Pending

RowsShape == rows = [d \in DOMAIN rows |-> [g \in Totals!GroupsOf(d) |-> rows[d][g]]]

TotalsInv == TotalsType /\ RowsShape /\ Dispatched /\ Needed /\ Answered

(* The invariant of the totals' batch holds at the start. *)
LEMMA TotalsInitInv == TotalsInit => TotalsInv
<1> SUFFICES ASSUME TotalsInit PROVE TotalsInv
  OBVIOUS
<1>1. balance \in Tables BY TokenAssumption DEF TotalsInit, Totals!Init, Totals!TablesInit
<1> DEFINE keys == {Totals!KeyFor(r, r.address) : r \in batch}
           loaded == IF field = "address" THEN {keys} ELSE {}
<1>2. /\ field \in Totals!Fields
      /\ batch \in IF field = "address" THEN Batches ELSE FanOuts
      /\ found = [r \in batch |-> IF field = "address" THEN {} ELSE Totals!Pending]
      /\ rows = [d \in loaded |-> Totals!Unread(d)]
      /\ outcome = "waiting"
  BY DEF TotalsInit, Totals!Init
<1>3. TotalsType BY <1>1, <1>2 DEF TotalsType
<1>4. DOMAIN rows = loaded /\ \A d \in loaded : rows[d] = Totals!Unread(d) BY <1>2
<1>5. RowsShape
  <2>1. rows = [d \in DOMAIN rows |-> rows[d]] BY <1>2
  <2>2. \A d \in DOMAIN rows : rows[d] = [g \in Totals!GroupsOf(d) |-> rows[d][g]]
    BY <1>4 DEF Totals!Unread
  <2> QED BY <2>1, <2>2 DEF RowsShape
<1>6. Dispatched
  <2>1. \A d \in DOMAIN rows : \A key \in d : \E r \in batch, a \in Addresses : key = Totals!KeyFor(r, a)
    <3> SUFFICES ASSUME NEW r \in batch, field = "address" PROVE r.address \in Addresses
      BY <1>4
    <3> QED BY <1>2, TokenAssumption DEF Requests
  <2>2. \A d \in DOMAIN rows : \A g \in Totals!GroupsOf(d) : rows[d][g] = Totals!Pending
    BY <1>4 DEF Totals!Unread
  <2> QED BY <2>1, <2>2 DEF Dispatched
<1>7. Needed
  <2>1. field = "address" => \A r \in batch : \E d \in DOMAIN rows : Totals!KeyFor(r, r.address) \in d
    BY <1>4
  <2>2. \A r \in batch : found[r] = {} \/ found[r] = Totals!Pending BY <1>2
  <2> QED BY <2>1, <2>2 DEF Needed
<1> QED BY <1>2, <1>3, <1>5, <1>6, <1>7 DEF TotalsInv, Answered

(* What an operation of the indexer, the failure of a query, or nothing    *)
(* changes.                                                                *)
LEMMA TotalsElsewhere ==
  ASSUME TotalsInv, UNCHANGED <<field, batch, found, rows, answers, seen>>, balance' \in Tables,
         outcome' = outcome \/ outcome' = "rejected"
  PROVE  TotalsInv'
<1>1. TotalsType' BY DEF TotalsInv, TotalsType, Totals!Fields
<1>2. RowsShape' BY DEF TotalsInv, RowsShape, Totals!GroupsOf, Totals!GroupOf
<1>3. Dispatched' BY DEF TotalsInv, Dispatched
<1>4. Needed' BY DEF TotalsInv, Needed
<1>5. \A r : AnswerOf(r)' = AnswerOf(r)
  BY DEF AnswerOf, Totals!TotalsOf, Totals!ByEntity, Totals!Amounts, Totals!RowsOf
<1>6. Answered' BY <1>5 DEF TotalsInv, Answered
<1> QED BY <1>1, <1>2, <1>3, <1>4, <1>6 DEF TotalsInv

(* The entities of a request arrive, with the accounts they have. *)
LEMMA TotalsEntities ==
  ASSUME TotalsInv, NEW r \in batch, Totals!EntitiesReturn(r)
  PROVE  TotalsInv'
<1> DEFINE keys == {Totals!KeyFor(r, e.admin) : e \in {f \in Totals!Related(r) : f.admin # NoAccount}}
           new  == keys \ UNION DOMAIN rows
<1>1. /\ outcome = "waiting"
      /\ found' = [found EXCEPT ![r] = Totals!Related(r)]
      /\ rows' = IF new = {} THEN rows
                 ELSE [d \in DOMAIN rows \cup {new} |-> IF d = new THEN Totals!Unread(new) ELSE rows[d]]
      /\ UNCHANGED <<balance, field, batch, outcome, answers, seen>>
  BY DEF Totals!EntitiesReturn, Totals!tableVars
<1>2. Totals!Related(r) \subseteq Entities BY DEF Totals!Related
<1>3. \A key \in keys : \E q \in batch, a \in Addresses : key = Totals!KeyFor(q, a)
  BY <1>2, EntityAssumption
<1>4. \A e \in Totals!Related(r) : e.admin # NoAccount => Totals!KeyFor(r, e.admin) \in keys
  OBVIOUS
<1>5. new \subseteq keys /\ \A k \in keys : k \in new \/ \E d \in DOMAIN rows : k \in d
  OBVIOUS
<1> HIDE DEF keys, new
<1>6. /\ \A d \in DOMAIN rows' : d \in DOMAIN rows \/ d = new
      /\ \A d \in DOMAIN rows : d \in DOMAIN rows'
      /\ new # {} => new \in DOMAIN rows'
  BY <1>1
<1>7. /\ \A d \in DOMAIN rows' : d # new => rows'[d] = rows[d]
      /\ new # {} => rows'[new] = Totals!Unread(new)
      /\ new = {} => rows' = rows
  BY <1>1
<1>8. TotalsType' BY <1>1 DEF TotalsInv, TotalsType, Totals!Fields
<1>9. RowsShape'
  <2>1. rows' = [d \in DOMAIN rows' |-> rows'[d]] BY <1>1 DEF TotalsInv, RowsShape
  <2>2. \A d \in DOMAIN rows' : rows'[d] = [g \in Totals!GroupsOf(d) |-> rows'[d][g]]
    <3> SUFFICES ASSUME NEW d \in DOMAIN rows' PROVE rows'[d] = [g \in Totals!GroupsOf(d) |-> rows'[d][g]]
      OBVIOUS
    <3>1. CASE d \in DOMAIN rows /\ rows'[d] = rows[d]
      <4>1. rows[d] = [g \in Totals!GroupsOf(d) |-> rows[d][g]]
        BY <3>1 DEF TotalsInv, RowsShape
      <4> QED BY <3>1, <4>1
    <3>2. CASE d = new /\ rows'[d] = Totals!Unread(new) BY <3>2 DEF Totals!Unread
    <3> QED BY <3>1, <3>2, <1>6, <1>7
  <2> QED BY <2>1, <2>2 DEF RowsShape, Totals!GroupsOf, Totals!GroupOf
<1>10. Dispatched'
  <2> SUFFICES ASSUME NEW d \in DOMAIN rows'
               PROVE  /\ \A key \in d : \E q \in batch, a \in Addresses : key = Totals!KeyFor(q, a)
                      /\ \A g \in Totals!GroupsOf(d) :
                           \/ rows'[d][g] = Totals!Pending
                           \/ /\ <<d, g>> \in DOMAIN seen /\ seen[<<d, g>>] \in Tables
                              /\ rows'[d][g] =
                                   Totals!GroupedRows(seen[<<d, g>>], Totals!AddressesOf(d, g), g.name, g.retired)
    BY <1>1 DEF Dispatched
  <2>1. CASE d \in DOMAIN rows /\ rows'[d] = rows[d]
    BY <2>1 DEF TotalsInv, Dispatched
  <2>2. CASE d = new /\ rows'[d] = Totals!Unread(new)
    BY <2>2, <1>3, <1>5 DEF Totals!Unread
  <2> QED BY <2>1, <2>2, <1>6, <1>7
<1>11. Needed'
  <2>1. found' = [q \in batch |-> IF q = r THEN Totals!Related(r) ELSE found[q]]
    BY <1>1 DEF TotalsInv, TotalsType
  <2>2. \A k : (\E d \in DOMAIN rows : k \in d) => \E d \in DOMAIN rows' : k \in d BY <1>6
  <2>3. \A k \in keys : \E d \in DOMAIN rows' : k \in d BY <2>2, <1>5, <1>6
  <2>4. ASSUME NEW q \in batch, found'[q] # Totals!Pending
        PROVE  /\ found'[q] \subseteq Entities
               /\ \A e \in found'[q] :
                    e.admin # NoAccount => \E d \in DOMAIN rows' : Totals!KeyFor(q, e.admin) \in d
    <3>1. CASE q = r BY <3>1, <2>1, <2>3, <1>2, <1>4
    <3>2. CASE q # r BY <3>2, <2>1, <2>2, <2>4 DEF TotalsInv, Needed
    <3> QED BY <3>1, <3>2
  <2>5. field = "address" => \A q \in batch : \E d \in DOMAIN rows' : Totals!KeyFor(q, q.address) \in d
    BY <2>2 DEF TotalsInv, Needed
  <2> QED BY <2>4, <2>5, <1>1 DEF Needed
<1>12. Answered' BY <1>1 DEF Answered
<1> QED BY <1>8, <1>9, <1>10, <1>11, <1>12 DEF TotalsInv

(* The answer to the query of one group adds the rows of its accounts. *)
LEMMA TotalsQuery ==
  ASSUME TotalsInv, NEW d \in DOMAIN rows, NEW g \in Totals!GroupsOf(d), Totals!QueryReturns(d, g)
  PROVE  TotalsInv'
<1> DEFINE new == Totals!GroupedRows(balance, Totals!AddressesOf(d, g), g.name, g.retired)
<1>1. /\ outcome = "waiting"
      /\ rows' = [rows EXCEPT ![d][g] = new]
      /\ seen' = [x \in DOMAIN seen \cup {<<d, g>>} |-> IF x = <<d, g>> THEN balance ELSE seen[x]]
      /\ UNCHANGED <<balance, field, batch, found, outcome, answers>>
  BY DEF Totals!QueryReturns, Totals!tableVars
<1> HIDE DEF new
<1>2. /\ rows = [e \in DOMAIN rows |-> [h \in Totals!GroupsOf(e) |-> rows[e][h]]]
      /\ balance \in Tables
  BY DEF TotalsInv, RowsShape, TotalsType
<1>3. /\ DOMAIN rows' = DOMAIN rows
      /\ rows' = [e \in DOMAIN rows |-> rows'[e]]
      /\ rows'[d] = [rows[d] EXCEPT ![g] = new]
      /\ \A e \in DOMAIN rows : e # d => rows'[e] = rows[e]
  BY <1>1, <1>2
<1>4. rows[d] = [h \in Totals!GroupsOf(d) |-> rows[d][h]] BY <1>2
<1>5. /\ rows'[d] = [h \in Totals!GroupsOf(d) |-> rows'[d][h]]
      /\ rows'[d][g] = new
      /\ \A h \in Totals!GroupsOf(d) : h # g => rows'[d][h] = rows[d][h]
  BY <1>3, <1>4
<1>6. /\ <<d, g>> \in DOMAIN seen' /\ seen'[<<d, g>>] = balance
      /\ \A x \in DOMAIN seen : x \in DOMAIN seen' /\ (x # <<d, g>> => seen'[x] = seen[x])
  BY <1>1
<1>7. RowsShape'
  <2>1. \A e \in DOMAIN rows : rows'[e] = [h \in Totals!GroupsOf(e) |-> rows'[e][h]]
    <3> SUFFICES ASSUME NEW e \in DOMAIN rows, e # d PROVE rows'[e] = [h \in Totals!GroupsOf(e) |-> rows'[e][h]]
      BY <1>5
    <3>1. rows[e] = [h \in Totals!GroupsOf(e) |-> rows[e][h]] BY <1>2
    <3> QED BY <3>1, <1>3
  <2> QED BY <2>1, <1>3 DEF RowsShape, Totals!GroupsOf, Totals!GroupOf
<1>8. Dispatched'
  <2> SUFFICES ASSUME NEW e \in DOMAIN rows
               PROVE  /\ \A key \in e : \E q \in batch, a \in Addresses : key = Totals!KeyFor(q, a)
                      /\ \A h \in Totals!GroupsOf(e) :
                           \/ rows'[e][h] = Totals!Pending
                           \/ /\ <<e, h>> \in DOMAIN seen' /\ seen'[<<e, h>>] \in Tables
                              /\ rows'[e][h] =
                                   Totals!GroupedRows(seen'[<<e, h>>], Totals!AddressesOf(e, h), h.name, h.retired)
    BY <1>1, <1>3 DEF Dispatched
  <2>1. \A key \in e : \E q \in batch, a \in Addresses : key = Totals!KeyFor(q, a)
    BY DEF TotalsInv, Dispatched
  <2>2. ASSUME NEW h \in Totals!GroupsOf(e), e # d \/ h # g
        PROVE  \/ rows'[e][h] = Totals!Pending
               \/ /\ <<e, h>> \in DOMAIN seen' /\ seen'[<<e, h>>] \in Tables
                  /\ rows'[e][h] =
                       Totals!GroupedRows(seen'[<<e, h>>], Totals!AddressesOf(e, h), h.name, h.retired)
    <3>1. rows'[e][h] = rows[e][h] BY <2>2, <1>3, <1>5
    <3>2. <<e, h>> # <<d, g>> BY <2>2
    <3>3. CASE rows[e][h] = Totals!Pending BY <3>1, <3>3
    <3>4. CASE rows[e][h] # Totals!Pending
      <4>1. /\ <<e, h>> \in DOMAIN seen /\ seen[<<e, h>>] \in Tables
            /\ rows[e][h] =
                 Totals!GroupedRows(seen[<<e, h>>], Totals!AddressesOf(e, h), h.name, h.retired)
        BY <3>4 DEF TotalsInv, Dispatched
      <4>2. <<e, h>> \in DOMAIN seen' /\ seen'[<<e, h>>] = seen[<<e, h>>] BY <4>1, <3>2, <1>6
      <4> QED BY <3>1, <4>1, <4>2
    <3> QED BY <3>3, <3>4
  <2>3. e = d /\ g \in Totals!GroupsOf(e) =>
          /\ <<d, g>> \in DOMAIN seen' /\ seen'[<<d, g>>] \in Tables
          /\ rows'[d][g] = Totals!GroupedRows(seen'[<<d, g>>], Totals!AddressesOf(d, g), g.name, g.retired)
    BY <1>2, <1>5, <1>6 DEF new
  <2> QED BY <2>1, <2>2, <2>3
<1>9. TotalsType' BY <1>1 DEF TotalsInv, TotalsType, Totals!Fields
<1>10. Needed' BY <1>1, <1>3 DEF TotalsInv, Needed
<1>11. Answered' BY <1>1 DEF Answered
<1> QED BY <1>7, <1>8, <1>9, <1>10, <1>11 DEF TotalsInv

(* Answering keeps it. *)
LEMMA TotalsAnswer ==
  ASSUME TotalsInv, Totals!Answer
  PROVE  TotalsInv'
<1>1. /\ \A r \in batch : found[r] # Totals!Pending
      /\ \A d \in DOMAIN rows : \A g \in Totals!GroupsOf(d) : rows[d][g] # Totals!Pending
      /\ answers' = [r \in batch |-> AnswerOf(r)]
      /\ UNCHANGED <<balance, field, batch, found, rows, seen>>
  BY DEF Totals!Answer, Totals!tableVars, AnswerOf
<1>2. TotalsType' BY <1>1 DEF TotalsInv, TotalsType, Totals!Fields
<1>3. RowsShape' BY <1>1 DEF TotalsInv, RowsShape, Totals!GroupsOf, Totals!GroupOf
<1>4. Dispatched' BY <1>1 DEF TotalsInv, Dispatched
<1>5. Needed' BY <1>1 DEF TotalsInv, Needed
<1>6. \A r : AnswerOf(r)' = AnswerOf(r)
  BY <1>1 DEF AnswerOf, Totals!TotalsOf, Totals!ByEntity, Totals!Amounts, Totals!RowsOf
<1>7. Answered' BY <1>1, <1>6 DEF Answered
<1> QED BY <1>2, <1>3, <1>4, <1>5, <1>7 DEF TotalsInv

(* The invariant of getTokensTotal* is preserved by every step. *)
LEMMA TotalsStep ==
  ASSUME ~ detail, TotalsInv, [Next]_batchVars
  PROVE  TotalsInv'
<1>1. balance \in Tables BY DEF TotalsInv, TotalsType
<1>2. CASE UNCHANGED batchVars
  BY <1>1, <1>2, TotalsElsewhere DEF batchVars, tableVars, totalsOnly
<1>3. CASE Totals!Next
  <2>1. CASE Totals!Index /\ UNCHANGED <<owner, Totals!loaderVars>>
    <3>1. balance' \in Tables BY <2>1, <1>1, TotalsOperators, IndexStep
    <3> QED BY <2>1, <3>1, TotalsElsewhere DEF Totals!loaderVars
  <2>2. CASE Totals!HandOver
    BY <2>2, <1>1, TotalsElsewhere DEF Totals!HandOver, Totals!loaderVars
  <2>3. CASE \E r \in batch : Totals!EntitiesReturn(r) BY <2>3, TotalsEntities
  <2>4. CASE \E d \in DOMAIN rows : \E g \in Totals!GroupsOf(d) : Totals!QueryReturns(d, g)
    BY <2>4, TotalsQuery
  <2>5. CASE Totals!QueryFails
    BY <2>5, <1>1, TotalsElsewhere DEF Totals!QueryFails, Totals!tableVars
  <2>6. CASE Totals!Answer BY <2>6, TotalsAnswer
  <2>7. CASE Totals!Settled
    BY <2>7, <1>1, TotalsElsewhere
    DEF Totals!Settled, Totals!vars, Totals!tableVars, Totals!loaderVars
  <2> QED BY <1>3, <2>1, <2>2, <2>3, <2>4, <2>5, <2>6, <2>7 DEF Totals!Next
<1> QED BY <1>2, <1>3 DEF Next

(* The invariant holds in every state of a batch of totals. *)
LEMMA TotalsInvAlways == Spec => [](~ detail => TotalsInv)
<1>1. Init => (~ detail => TotalsInv) BY TotalsInitInv DEF Init, AccountsInit
<1>2. (~ detail => TotalsInv) /\ [Next]_batchVars => (~ detail => TotalsInv)'
  <2> SUFFICES ASSUME ~ detail => TotalsInv, [Next]_batchVars, ~ detail' PROVE TotalsInv'
    OBVIOUS
  <2>1. ~ detail BY DEF Next, batchVars
  <2> QED BY <2>1, TotalsStep
<1> QED BY <1>1, <1>2, PTL DEF Spec

-----------------------------------------------------------------------------
(***************************************************************************)
(* The row of SUMs of a class and collection is what folding the tokens    *)
(* that are shown gives.                                                   *)
(***************************************************************************)
Wanted(r, k) == r.name = << >> \/ k.name = r.name

InCollection(S, n, c) == {y \in S : y.token.name = n /\ y.token.collection = c}

FoldOf(S, n, c) ==
  [name |-> n, collection |-> c,
   amount  |-> SumFunction([y \in InCollection(S, n, c) |-> y.shown.amount]),
   minted  |-> SumFunction([y \in InCollection(S, n, c) |-> y.shown.minted]),
   retired |-> SumFunction([y \in InCollection(S, n, c) |-> y.shown.retired])]

(* FoldedTotals, as one fold for each name and collection that occurs. *)
LEMMA FoldedTotalsAre ==
  ASSUME NEW S
  PROVE  FoldedTotals(S) = {FoldOf(S, x.token.name, x.token.collection) : x \in S}
BY DEF FoldedTotals, FoldOf, InCollection

(* What is shown of a token are its amounts, with the retirements asked
   for. *)
LEMMA ShownType ==
  ASSUME NEW t \in Tables, NEW u \in Tables, NEW r, r.address \in Addresses, NEW k \in Tokens
  PROVE  /\ ShownOf(t, u, r, k) \in [amount : Nat, minted : Nat, retired : Nat]
         /\ ShownOf(t, u, r, k).amount = t[r.address][k].amount
         /\ ShownOf(t, u, r, k).minted = t[r.address][k].minted
         /\ r.allRetired \in BOOLEAN =>
              ShownOf(t, u, r, k).retired =
                IF ~ r.allRetired THEN t[r.address][k].retired
                ELSE IF t[r.address][k].minted # 0 THEN RetiredEver(u, k) ELSE 0
<1> DEFINE h == t[r.address][k]
           n == IF r.allRetired /\ h.minted # 0
                THEN RetiredEver(u, k) ELSE IF r.allRetired THEN 0 ELSE h.retired
<1>1. h \in [amount : Nat, minted : Nat, retired : Nat] BY DEF Tables
<1>2. RetiredEver(u, k) \in Nat BY RetiredEverCovers
<1>3. n \in Nat
  <2> HIDE DEF h
  <2> QED BY <1>1, <1>2
<1>4. ShownOf(t, u, r, k) = [h EXCEPT !.retired = n] BY DEF ShownOf
<1>5. r.allRetired \in BOOLEAN =>
        n = IF ~ r.allRetired THEN h.retired ELSE IF h.minted # 0 THEN RetiredEver(u, k) ELSE 0
  OBVIOUS
<1> HIDE DEF h, n
<1>6. /\ [h EXCEPT !.retired = n] \in [amount : Nat, minted : Nat, retired : Nat]
      /\ [h EXCEPT !.retired = n].amount = h.amount
      /\ [h EXCEPT !.retired = n].minted = h.minted
      /\ [h EXCEPT !.retired = n].retired = n
  BY <1>1, <1>3
<1> QED BY <1>4, <1>5, <1>6 DEF h

(* The row that SQL sums up for a name and collection is the fold of the
   tokens shown, and it is there exactly if one of them is. *)
LEMMA RowIsFold ==
  ASSUME NEW t \in Tables, NEW r, r.address \in Addresses, r.allRetired \in BOOLEAN,
         NEW k \in Tokens, Wanted(r, k)
  PROVE  LET row == Totals!SumRow(t, r.address, k.name, k.collection, r.allRetired)
         IN  /\ row.address = r.address
             /\ FoldOf(ShownTokens(t, t, r), k.name, k.collection) =
                  [name |-> row.name, collection |-> row.collection,
                   amount |-> row.amount, minted |-> row.minted, retired |-> row.retired]
             /\ row.amount # 0 \/ row.minted # 0 \/ row.retired # 0 <=>
                  \E l \in Tokens : /\ l.name = k.name /\ l.collection = k.collection
                                    /\ ShownOf(t, t, r, l) # Nothing
<1> DEFINE a == r.address
           n == k.name
           c == k.collection
           S == ShownTokens(t, t, r)
           row == Totals!SumRow(t, a, n, c, r.allRetired)
           H == {l \in Tokens : l.name = n /\ l.collection = c /\ Held(t, a, l)}
           C == {l \in H : ShownOf(t, t, r, l) # Nothing}
           b == [l \in Tokens |-> [token |-> l, shown |-> ShownOf(t, t, r, l)]]
           fa == [l \in H |-> t[a][l].amount]
           fm == [l \in H |-> t[a][l].minted]
           fr == [l \in H |-> RetiredShown(t, a, l, r.allRetired)]
           ga == [y \in InCollection(S, n, c) |-> y.shown.amount]
           gm == [y \in InCollection(S, n, c) |-> y.shown.minted]
           gr == [y \in InCollection(S, n, c) |-> y.shown.retired]
<1>1. row = [address |-> a, name |-> n, collection |-> c, amount |-> SumFunction(fa),
             minted |-> SumFunction(fm), retired |-> SumFunction(fr)]
  BY TotalsOperators DEF Totals!SumRow
<1>2. \A l \in Tokens : /\ ShownOf(t, t, r, l) \in [amount : Nat, minted : Nat, retired : Nat]
                        /\ ShownOf(t, t, r, l).amount = t[a][l].amount
                        /\ ShownOf(t, t, r, l).minted = t[a][l].minted
                        /\ ShownOf(t, t, r, l).retired = RetiredShown(t, a, l, r.allRetired)
  BY ShownType DEF RetiredShown
<1>3. \A l \in Tokens : ~ Held(t, a, l) => ShownOf(t, t, r, l) = Nothing BY NothingShown
<1>4. IsFiniteSet(H) BY TokenAssumption, FS_Subset
<1>5. S = {b[l] : l \in {m \in Tokens : Wanted(r, m) /\ ShownOf(t, t, r, m) # Nothing}}
  BY ShownTokensAre DEF Wanted
<1>6. InCollection(S, n, c) = {b[l] : l \in C}
  <2>1. \A l \in Tokens : l.name = n => Wanted(r, l) BY DEF Wanted
  <2>2. \A l \in Tokens : b[l].token = l /\ b[l].shown = ShownOf(t, t, r, l) OBVIOUS
  <2>3. C = {l \in Tokens : l.name = n /\ l.collection = c /\ ShownOf(t, t, r, l) # Nothing}
    BY <1>3
  <2> HIDE DEF b, S, C
  <2> QED BY <1>5, <2>1, <2>2, <2>3 DEF InCollection
<1>7. \A l \in C : l \in Tokens /\ b[l].token = l /\ b[l].shown = ShownOf(t, t, r, l) OBVIOUS
<1>8. \A x, y \in C : b[x] = b[y] => x = y BY <1>7
<1>9. C \in SUBSET H OBVIOUS
<1>10. /\ DOMAIN fa = H /\ \A l \in H : fa[l] = ShownOf(t, t, r, l).amount
       /\ DOMAIN fm = H /\ \A l \in H : fm[l] = ShownOf(t, t, r, l).minted
       /\ DOMAIN fr = H /\ \A l \in H : fr[l] = ShownOf(t, t, r, l).retired
  BY <1>2
<1>11. \A l \in H : l \in Tokens OBVIOUS
<1>12. \A l \in H \ C : ShownOf(t, t, r, l) = Nothing OBVIOUS
<1>13. /\ DOMAIN ga = InCollection(S, n, c) /\ \A y \in InCollection(S, n, c) : ga[y] = y.shown.amount
       /\ DOMAIN gm = InCollection(S, n, c) /\ \A y \in InCollection(S, n, c) : gm[y] = y.shown.minted
       /\ DOMAIN gr = InCollection(S, n, c) /\ \A y \in InCollection(S, n, c) : gr[y] = y.shown.retired
  OBVIOUS
<1>14. FoldOf(S, n, c) = [name |-> n, collection |-> c, amount |-> SumFunction(ga),
                          minted |-> SumFunction(gm), retired |-> SumFunction(gr)]
  BY DEF FoldOf
<1>15. \A l \in Tokens : l \in C <=> l.name = n /\ l.collection = c /\ ShownOf(t, t, r, l) # Nothing
  BY <1>3
<1> HIDE DEF H, C, b, fa, fm, fr, ga, gm, gr, S
<1>16. \A l \in H : /\ ShownOf(t, t, r, l) \in [amount : Nat, minted : Nat, retired : Nat]
                    /\ fa[l] \in Nat /\ fm[l] \in Nat /\ fr[l] \in Nat
  BY <1>2, <1>10, <1>11
<1>17. \A l \in C : b[l] \in InCollection(S, n, c) BY <1>6
<1>18. /\ \A l \in H \ C : fa[l] = 0 /\ fm[l] = 0 /\ fr[l] = 0
       /\ \A l \in C : ga[b[l]] = fa[l] /\ gm[b[l]] = fm[l] /\ gr[b[l]] = fr[l]
  <2>1. \A l \in H \ C : fa[l] = 0 /\ fm[l] = 0 /\ fr[l] = 0
    BY <1>10, <1>12 DEF Nothing
  <2>2. \A l \in C : ga[b[l]] = fa[l] /\ gm[b[l]] = fm[l] /\ gr[b[l]] = fr[l]
    BY <1>7, <1>9, <1>10, <1>13, <1>17
  <2> QED BY <2>1, <2>2
<1>19. SumFunction(ga) = SumFunction(fa) /\ SumFunction(fa) \in Nat
       /\ (\A l \in H : fa[l] =< SumFunction(fa)) /\ (C = {} => SumFunction(fa) = 0)
  <2>1. DOMAIN fa = H /\ (\A l \in H : fa[l] \in Nat) /\ (\A l \in H \ C : fa[l] = 0)
    BY <1>10, <1>16, <1>18
  <2>2. \A l \in C : b[l] \in DOMAIN ga /\ ga[b[l]] = fa[l]
    BY <1>13, <1>17, <1>18
  <2>3. \A y \in DOMAIN ga : \E l \in C : y = b[l]
    BY <1>6, <1>13
  <2> QED BY <2>1, <2>2, <2>3, <1>4, <1>8, <1>9, SumReindexed
<1>20. SumFunction(gm) = SumFunction(fm) /\ SumFunction(fm) \in Nat
       /\ (\A l \in H : fm[l] =< SumFunction(fm)) /\ (C = {} => SumFunction(fm) = 0)
  <2>1. DOMAIN fm = H /\ (\A l \in H : fm[l] \in Nat) /\ (\A l \in H \ C : fm[l] = 0)
    BY <1>10, <1>16, <1>18
  <2>2. \A l \in C : b[l] \in DOMAIN gm /\ gm[b[l]] = fm[l]
    BY <1>13, <1>17, <1>18
  <2>3. \A y \in DOMAIN gm : \E l \in C : y = b[l]
    BY <1>6, <1>13
  <2> QED BY <2>1, <2>2, <2>3, <1>4, <1>8, <1>9, SumReindexed
<1>21. SumFunction(gr) = SumFunction(fr) /\ SumFunction(fr) \in Nat
       /\ (\A l \in H : fr[l] =< SumFunction(fr)) /\ (C = {} => SumFunction(fr) = 0)
  <2>1. DOMAIN fr = H /\ (\A l \in H : fr[l] \in Nat) /\ (\A l \in H \ C : fr[l] = 0)
    BY <1>10, <1>16, <1>18
  <2>2. \A l \in C : b[l] \in DOMAIN gr /\ gr[b[l]] = fr[l]
    BY <1>13, <1>17, <1>18
  <2>3. \A y \in DOMAIN gr : \E l \in C : y = b[l]
    BY <1>6, <1>13
  <2> QED BY <2>1, <2>2, <2>3, <1>4, <1>8, <1>9, SumReindexed
<1>22. ASSUME NEW l \in C
       PROVE  SumFunction(fa) # 0 \/ SumFunction(fm) # 0 \/ SumFunction(fr) # 0
  <2>1. l \in H /\ ShownOf(t, t, r, l) # Nothing BY <1>9, <1>11, <1>15
  <2>2. fa[l] # 0 \/ fm[l] # 0 \/ fr[l] # 0 BY <2>1, <1>10, <1>16 DEF Nothing
  <2>3. fa[l] \in Nat /\ fm[l] \in Nat /\ fr[l] \in Nat BY <2>1, <1>16
  <2>4. fa[l] =< SumFunction(fa) /\ fm[l] =< SumFunction(fm) /\ fr[l] =< SumFunction(fr)
    BY <2>1, <1>19, <1>20, <1>21
  <2> QED BY <2>2, <2>3, <2>4, <1>19, <1>20, <1>21
<1>23. C \subseteq Tokens BY <1>7
<1>24. SumFunction(fa) # 0 \/ SumFunction(fm) # 0 \/ SumFunction(fr) # 0 <=>
         \E l \in Tokens : l.name = n /\ l.collection = c /\ ShownOf(t, t, r, l) # Nothing
  BY <1>15, <1>19, <1>20, <1>21, <1>22, <1>23
<1>25. FoldOf(S, n, c) = [name |-> row.name, collection |-> row.collection,
                          amount |-> row.amount, minted |-> row.minted, retired |-> row.retired]
  BY <1>1, <1>14, <1>19, <1>20, <1>21
<1>26. row.address = a /\ (row.amount # 0 \/ row.minted # 0 \/ row.retired # 0 <=>
         \E l \in Tokens : l.name = n /\ l.collection = c /\ ShownOf(t, t, r, l) # Nothing)
  BY <1>1, <1>24
<1> QED BY <1>25, <1>26 DEF S

(* A request for another address is for the same name and retirements. *)
LEMMA BatchRequest ==
  ASSUME TotalsType, NEW r \in batch, NEW a
  PROVE  /\ r.name \in Names /\ r.allRetired \in BOOLEAN
         /\ [r EXCEPT !.address = a].address = a
         /\ [r EXCEPT !.address = a].name = r.name
         /\ [r EXCEPT !.address = a].allRetired = r.allRetired
<1>1. CASE field = "address"
  <2>1. r \in [address : Addresses, name : Names, allRetired : BOOLEAN]
    BY <1>1, TokenAssumption DEF TotalsType, Requests
  <2> QED BY <2>1
<1>2. CASE field # "address"
  <2>1. r \in [address : STRING, name : Names, allRetired : BOOLEAN]
    BY <1>2, TokenAssumption DEF TotalsType, FanOutRequests
  <2> QED BY <2>1
<1> QED BY <1>1, <1>2

(* What the loader hands out for a key are the rows of its account, from   *)
(* the snapshot that the query for it saw.                                 *)
LEMMA TotalsRows ==
  ASSUME TotalsInv, outcome = "answered", NEW r \in batch, NEW a \in Addresses,
         \E d \in DOMAIN rows : Totals!KeyFor(r, a) \in d
  PROVE  /\ Totals!SeenBy(r, a) \in Tables
         /\ \A y \in Totals!RowsOf(Totals!KeyFor(r, a)) :
              \E k \in Tokens : /\ Held(Totals!SeenBy(r, a), a, k) /\ Wanted(r, k)
                                /\ y = Totals!SumRow(Totals!SeenBy(r, a), a, k.name, k.collection, r.allRetired)
         /\ \A k \in Tokens :
              Held(Totals!SeenBy(r, a), a, k) /\ Wanted(r, k) =>
                Totals!SumRow(Totals!SeenBy(r, a), a, k.name, k.collection, r.allRetired)
                  \in Totals!RowsOf(Totals!KeyFor(r, a))
<1> DEFINE key == Totals!KeyFor(r, a)
           d == CHOOSE e \in DOMAIN rows : key \in e
           g == [name |-> r.name, retired |-> r.allRetired]
           t == Totals!SeenBy(r, a)
<1>1. r.name \in Names /\ r.allRetired \in BOOLEAN BY BatchRequest DEF TotalsInv
<1>2. Totals!ParseTotalsKey(key) = [address |-> a, name |-> r.name, retired |-> r.allRetired]
  BY <1>1, TotalsOperators, KeysRoundTrip DEF Totals!KeyFor
<1>3. Totals!GroupOf(key) = g BY <1>2 DEF Totals!GroupOf
<1>4. d \in DOMAIN rows /\ key \in d OBVIOUS
<1>5. t = seen[<<d, g>>] BY DEF Totals!SeenBy
<1>6. Totals!RowsOf(key) = {row \in rows[d][g] : row.address = a}
  BY <1>2, <1>3 DEF Totals!RowsOf
<1> HIDE DEF key, d, t
<1>7. g \in Totals!GroupsOf(d) BY <1>3, <1>4 DEF Totals!GroupsOf
<1>8. a \in Totals!AddressesOf(d, g)
  <2>1. Totals!ParseTotalsKey(key).address = a BY <1>2
  <2> QED BY <2>1, <1>3, <1>4 DEF Totals!AddressesOf
<1>9. t \in Tables /\ rows[d][g] = Totals!GroupedRows(t, Totals!AddressesOf(d, g), r.name, r.allRetired)
  <2>1. rows[d][g] # Totals!Pending BY <1>4, <1>7 DEF TotalsInv, Answered
  <2>2. seen[<<d, g>>] \in Tables /\ rows[d][g] =
          Totals!GroupedRows(seen[<<d, g>>], Totals!AddressesOf(d, g), g.name, g.retired)
    BY <2>1, <1>4, <1>7 DEF TotalsInv, Dispatched
  <2> QED BY <2>2, <1>5
<1>10. \A b, n, c, f : Totals!SumRow(t, b, n, c, f).address = b BY DEF Totals!SumRow
<1>11. \A y \in rows[d][g] : \E b \in Totals!AddressesOf(d, g), k \in Tokens :
         /\ Held(t, b, k) /\ Wanted(r, k)
         /\ y = Totals!SumRow(t, b, k.name, k.collection, r.allRetired)
  BY <1>9, TotalsOperators DEF Totals!GroupedRows, Wanted
<1>12. \A k \in Tokens : Held(t, a, k) /\ Wanted(r, k) =>
         Totals!SumRow(t, a, k.name, k.collection, r.allRetired) \in rows[d][g]
  BY <1>8, <1>9, TotalsOperators DEF Totals!GroupedRows, Wanted
<1>13. \A y \in Totals!RowsOf(key) :
         \E k \in Tokens : /\ Held(t, a, k) /\ Wanted(r, k)
                           /\ y = Totals!SumRow(t, a, k.name, k.collection, r.allRetired)
  BY <1>6, <1>10, <1>11
<1>14. \A k \in Tokens : Held(t, a, k) /\ Wanted(r, k) =>
         Totals!SumRow(t, a, k.name, k.collection, r.allRetired) \in Totals!RowsOf(key)
  BY <1>6, <1>10, <1>12
<1> QED BY <1>9, <1>13, <1>14 DEF key, t

(* An account is known to the loader when a request needs it. *)
Known(r, a) ==
  a # NoAccount => a \in Addresses /\ \E d \in DOMAIN rows : Totals!KeyFor(r, a) \in d

(* The totals of one account are the fold of what it shows. *)
LEMMA TotalsOfAccount ==
  ASSUME TotalsInv, outcome = "answered", NEW r \in batch, NEW a, Known(r, a)
  PROVE  Totals!TotalsOf(r, a) = FoldedTotals(Totals!Shown(r, a))
<1>1. CASE a = NoAccount
  <2>1. Totals!TotalsOf(r, a) = {} /\ Totals!Shown(r, a) = {}
    BY <1>1 DEF Totals!TotalsOf, Totals!Shown
  <2>2. FoldedTotals({}) = {} BY FoldedTotalsAre
  <2> QED BY <2>1, <2>2
<1>2. CASE a # NoAccount
  <2> DEFINE q == [r EXCEPT !.address = a]
             t == Totals!SeenBy(r, a)
             S == ShownTokens(t, t, q)
             rs == Totals!RowsOf(Totals!KeyFor(r, a))
  <2>1. a \in Addresses /\ \E d \in DOMAIN rows : Totals!KeyFor(r, a) \in d BY <1>2 DEF Known
  <2>2. /\ r.name \in Names /\ r.allRetired \in BOOLEAN
        /\ q.address = a /\ q.name = r.name /\ q.allRetired = r.allRetired
    BY BatchRequest DEF TotalsInv
  <2>3. /\ t \in Tables
        /\ \A y \in rs :
             \E k \in Tokens : /\ Held(t, a, k) /\ Wanted(r, k)
                               /\ y = Totals!SumRow(t, a, k.name, k.collection, r.allRetired)
        /\ \A k \in Tokens :
             Held(t, a, k) /\ Wanted(r, k) =>
               Totals!SumRow(t, a, k.name, k.collection, r.allRetired) \in rs
    BY <2>1, TotalsRows
  <2>4. Totals!TotalsOf(r, a) = Totals!TotalsFrom(rs) BY <1>2 DEF Totals!TotalsOf
  <2>5. Totals!Shown(r, a) = S BY <1>2, TotalsOperators DEF Totals!Shown
  <2>6. \A k \in Tokens : Wanted(q, k) <=> Wanted(r, k) BY <2>2 DEF Wanted
  <2>7. \A k \in Tokens : ~ Held(t, a, k) => ShownOf(t, t, q, k) = Nothing
    <3> HIDE DEF q, t
    <3> QED BY <2>1, <2>2, <2>3, NothingShown
  <2>8. ASSUME NEW k \in Tokens, Wanted(r, k)
        PROVE  LET row == Totals!SumRow(t, a, k.name, k.collection, r.allRetired)
               IN  /\ FoldOf(S, k.name, k.collection) =
                        [name |-> row.name, collection |-> row.collection,
                         amount |-> row.amount, minted |-> row.minted, retired |-> row.retired]
                   /\ row.amount # 0 \/ row.minted # 0 \/ row.retired # 0 <=>
                        \E l \in Tokens : /\ l.name = k.name /\ l.collection = k.collection
                                          /\ ShownOf(t, t, q, l) # Nothing
    <3> HIDE DEF q, t
    <3> QED BY <2>1, <2>2, <2>3, <2>6, <2>8, RowIsFold DEF S
  <2>9. \A x \in S : \E k \in Tokens : /\ Wanted(r, k) /\ ShownOf(t, t, q, k) # Nothing
                                       /\ x.token = k /\ x.shown = ShownOf(t, t, q, k)
    <3> HIDE DEF q, t
    <3> QED BY <2>6, ShownTokensAre DEF Wanted, S
  <2>10. \A k \in Tokens : Wanted(r, k) /\ ShownOf(t, t, q, k) # Nothing =>
           \E x \in S : x.token = k
    <3> SUFFICES ASSUME NEW k \in Tokens, Wanted(r, k), ShownOf(t, t, q, k) # Nothing
                 PROVE  [token |-> k, shown |-> ShownOf(t, t, q, k)] \in S
      <4> HIDE DEF q, t, S
      <4> QED OBVIOUS
    <3> HIDE DEF q, t
    <3> QED BY <2>6, ShownTokensAre DEF Wanted, S
  <2>11. FoldedTotals(S) = {FoldOf(S, x.token.name, x.token.collection) : x \in S}
    BY FoldedTotalsAre
  <2> HIDE DEF q, t, S, rs
  <2>12. ASSUME NEW y \in Totals!TotalsFrom(rs) PROVE y \in FoldedTotals(S)
    <3>1. PICK z \in rs : /\ z.amount # 0 \/ z.minted # 0 \/ z.retired # 0
                          /\ y = [name |-> z.name, collection |-> z.collection,
                                  amount |-> z.amount, minted |-> z.minted, retired |-> z.retired]
      BY <2>12 DEF Totals!TotalsFrom
    <3>2. PICK k \in Tokens : /\ Held(t, a, k) /\ Wanted(r, k)
                              /\ z = Totals!SumRow(t, a, k.name, k.collection, r.allRetired)
      BY <2>3
    <3>3. /\ y = FoldOf(S, k.name, k.collection)
          /\ \E l \in Tokens : /\ l.name = k.name /\ l.collection = k.collection
                               /\ ShownOf(t, t, q, l) # Nothing
      BY <3>1, <3>2, <2>8
    <3>4. PICK l \in Tokens : /\ l.name = k.name /\ l.collection = k.collection
                              /\ ShownOf(t, t, q, l) # Nothing
      BY <3>3
    <3>5. Wanted(r, l) BY <3>2, <3>4 DEF Wanted
    <3>6. PICK x \in S : x.token = l BY <3>4, <3>5, <2>10
    <3> QED BY <3>3, <3>4, <3>6, <2>11
  <2>13. ASSUME NEW y \in FoldedTotals(S) PROVE y \in Totals!TotalsFrom(rs)
    <3>1. PICK x \in S : y = FoldOf(S, x.token.name, x.token.collection) BY <2>11, <2>13
    <3>2. PICK k \in Tokens : Wanted(r, k) /\ ShownOf(t, t, q, k) # Nothing /\ x.token = k BY <2>9
    <3> DEFINE row == Totals!SumRow(t, a, k.name, k.collection, r.allRetired)
    <3>3. Held(t, a, k) BY <3>2, <2>7
    <3>4. row \in rs BY <3>2, <3>3, <2>3
    <3>5. /\ y = [name |-> row.name, collection |-> row.collection,
                  amount |-> row.amount, minted |-> row.minted, retired |-> row.retired]
          /\ row.amount # 0 \/ row.minted # 0 \/ row.retired # 0
      BY <3>1, <3>2, <2>8
    <3> HIDE DEF row
    <3> QED BY <3>4, <3>5 DEF Totals!TotalsFrom
  <2>14. Totals!TotalsFrom(rs) = FoldedTotals(S) BY <2>12, <2>13
  <2> QED BY <2>4, <2>5, <2>14
<1> QED BY <1>1, <1>2

(* There is nothing to fold exactly if there are no totals. *)
LEMMA FoldedEmpty ==
  ASSUME NEW S
  PROVE  FoldedTotals(S) = {} <=> S = {}
<1>1. FoldedTotals(S) = {FoldOf(S, x.token.name, x.token.collection) : x \in S} BY FoldedTotalsAre
<1> QED BY <1>1

(* Every account that an answered batch needs has been loaded. *)
LEMMA AccountsKnown ==
  ASSUME TotalsInv, outcome = "answered", NEW r \in batch
  PROVE  /\ field = "address" => Known(r, r.address)
         /\ found[r] \subseteq Entities /\ \A e \in found[r] : Known(r, e.admin)
<1>1. found[r] # Totals!Pending BY DEF TotalsInv, Answered
<1>2. field = "address" => r.address \in Addresses
  BY TokenAssumption DEF TotalsInv, TotalsType, Requests
<1> QED BY <1>1, <1>2, EntityAssumption DEF TotalsInv, Needed, Known

(* In an answered batch totals are the fold. *)
LEMMA FoldHolds ==
  ASSUME TotalsInv
  PROVE  Totals!TotalsAreTheFold
<1> SUFFICES ASSUME outcome = "answered", NEW r \in batch
             PROVE  /\ field = "address" => answers[r] = FoldedTotals(Totals!Shown(r, r.address))
                    /\ field \in {"entities", "collection"} =>
                         answers[r] = {[entity |-> e.id, tokens |-> FoldedTotals(Totals!Shown(r, e.admin))] :
                                         e \in {f \in found[r] : Totals!Shown(r, f.admin) # {}}}
  BY TotalsOperators DEF Totals!TotalsAreTheFold
<1>1. answers[r] = AnswerOf(r) BY DEF TotalsInv, Answered
<1>2. CASE field = "address"
  <2>1. Known(r, r.address) BY <1>2, AccountsKnown
  <2>2. Totals!TotalsOf(r, r.address) = FoldedTotals(Totals!Shown(r, r.address))
    BY <2>1, TotalsOfAccount
  <2> QED BY <1>1, <1>2, <2>2 DEF AnswerOf
<1>3. CASE field \in {"entities", "collection"}
  <2>1. \A e \in found[r] : Totals!TotalsOf(r, e.admin) = FoldedTotals(Totals!Shown(r, e.admin))
    BY AccountsKnown, TotalsOfAccount
  <2>2. \A e \in found[r] : FoldedTotals(Totals!Shown(r, e.admin)) = {} <=> Totals!Shown(r, e.admin) = {}
    BY FoldedEmpty
  <2>3. answers[r] = Totals!ByEntity(r) BY <1>1, <1>3 DEF AnswerOf
  <2>4. Totals!ByEntity(r) = {[entity |-> e.id, tokens |-> FoldedTotals(Totals!Shown(r, e.admin))] :
                                e \in {f \in found[r] : Totals!Shown(r, f.admin) # {}}}
    BY <2>1, <2>2 DEF Totals!ByEntity
  <2> QED BY <1>3, <2>3, <2>4
<1> QED BY <1>2, <1>3

(***************************************************************************)
(* token.ts:77-80, :157-159: for any addresses, tokens, batches, entities  *)
(* and commits, every total equals the fold of the tokens shown in the     *)
(* snapshot that the query for the account saw.                            *)
(***************************************************************************)
THEOREM TotalsAreTheFoldAlways == Spec => []TotalsAreTheFold
<1>1. (~ detail => TotalsInv) => TotalsAreTheFold
  BY FoldHolds DEF TotalsAreTheFold
<1> QED BY <1>1, TotalsInvAlways, PTL

-----------------------------------------------------------------------------
(***************************************************************************)
(* getTokensTotalForCollectionAmounts.  The tokens that the entities of E  *)
(* show, Sh, and the totals of their collections; what is summed in two    *)
(* steps is the sum of all.                                                *)
(***************************************************************************)
AllOf(E, Sh) == UNION {{[entity |-> e.id, is |-> x] : x \in Sh[e]} : e \in E}

PartsOf(E, Sh) == UNION {{[entity |-> e.id, total |-> t] : t \in FoldedTotals(Sh[e])} : e \in E}

(* PartsOf, as one part for each entity, name and collection that occurs. *)
LEMMA PartsOfAre ==
  ASSUME NEW E, NEW Sh
  PROVE  /\ \A p \in PartsOf(E, Sh) : \E e \in E : \E x \in Sh[e] :
              p = [entity |-> e.id, total |-> FoldOf(Sh[e], x.token.name, x.token.collection)]
         /\ \A e \in E : \A x \in Sh[e] :
              [entity |-> e.id, total |-> FoldOf(Sh[e], x.token.name, x.token.collection)] \in PartsOf(E, Sh)
<1>1. \A S : FoldedTotals(S) = {FoldOf(S, x.token.name, x.token.collection) : x \in S}
  BY FoldedTotalsAre
<1>2. ASSUME NEW p \in PartsOf(E, Sh)
      PROVE  \E e \in E : \E x \in Sh[e] :
               p = [entity |-> e.id, total |-> FoldOf(Sh[e], x.token.name, x.token.collection)]
  <2>1. PICK e \in E : \E t \in FoldedTotals(Sh[e]) : p = [entity |-> e.id, total |-> t]
    BY <1>2 DEF PartsOf
  <2>2. PICK t \in FoldedTotals(Sh[e]) : p = [entity |-> e.id, total |-> t] BY <2>1
  <2>3. PICK x \in Sh[e] : t = FoldOf(Sh[e], x.token.name, x.token.collection) BY <1>1
  <2> QED BY <2>2, <2>3
<1>3. ASSUME NEW e \in E, NEW x \in Sh[e]
      PROVE  [entity |-> e.id, total |-> FoldOf(Sh[e], x.token.name, x.token.collection)] \in PartsOf(E, Sh)
  <2> DEFINE t == FoldOf(Sh[e], x.token.name, x.token.collection)
  <2>1. t \in FoldedTotals(Sh[e]) BY <1>1
  <2> HIDE DEF t
  <2>2. [entity |-> e.id, total |-> t] \in PartsOf(E, Sh) BY <2>1 DEF PartsOf
  <2> QED BY <2>2 DEF t
<1> QED BY <1>2, <1>3

(* Finitely many entities show finitely many tokens. *)
LEMMA AllOfFinite ==
  ASSUME NEW E, IsFiniteSet(E), NEW Sh, \A e \in E : IsFiniteSet(Sh[e])
  PROVE  IsFiniteSet(AllOf(E, Sh))
<1> DEFINE of == [e \in E |-> {[entity |-> e.id, is |-> x] : x \in Sh[e]}]
           F == {of[e] : e \in E}
<1>1. ASSUME NEW e \in E PROVE IsFiniteSet(of[e])
  <2> DEFINE b == [x \in Sh[e] |-> [entity |-> e.id, is |-> x]]
  <2>1. IsFiniteSet({b[x] : x \in Sh[e]})
    <3> HIDE DEF b
    <3> QED BY ImageFinite
  <2>2. {b[x] : x \in Sh[e]} = of[e] OBVIOUS
  <2> QED BY <2>1, <2>2
<1>2. UNION F = AllOf(E, Sh) BY DEF AllOf
<1> HIDE DEF of
<1>3. IsFiniteSet(F) BY ImageFinite
<1>4. \A T \in F : IsFiniteSet(T) BY <1>1
<1> HIDE DEF F
<1> QED BY <1>2, <1>3, <1>4, FS_UNION

NamedAll(E, Sh, n) == {z \in AllOf(E, Sh) : z.is.token.name = n}

NamedParts(E, Sh, n) == {q \in PartsOf(E, Sh) : q.total.name = n}

PartOf(e, Sh, n, c) == [entity |-> e.id, total |-> FoldOf(Sh[e], n, c)]

(* One column: adding up the parts by name is adding up all that is shown
   of that name. *)
LEMMA PartsAddUp ==
  ASSUME NEW E, IsFiniteSet(E), \A d, e \in E : d.id = e.id => d = e,
         NEW Sh, \A e \in E : IsFiniteSet(Sh[e]),
         NEW n, NEW val, \A e \in E : \A x \in Sh[e] : val[x] \in Int,
         NEW f, DOMAIN f = NamedAll(E, Sh, n), \A y \in NamedAll(E, Sh, n) : f[y] = val[y.is],
         NEW g, DOMAIN g = NamedParts(E, Sh, n),
         \A e \in E : \A c : PartOf(e, Sh, n, c) \in NamedParts(E, Sh, n) =>
           g[PartOf(e, Sh, n, c)] = SumFunctionOnSet(val, InCollection(Sh[e], n, c))
  PROVE  SumFunction(g) = SumFunction(f)
<1> DEFINE A == DOMAIN f
           K == DOMAIN g
           owning(y) == CHOOSE e \in E : e.id = y.entity
           part == [y \in A |-> [entity |-> y.entity,
                                 total |-> FoldOf(Sh[owning(y)], n, y.is.token.collection)]]
<1>a. /\ \A y : y \in A <=> y \in AllOf(E, Sh) /\ y.is.token.name = n
      /\ \A y \in A : f[y] = val[y.is]
  BY DEF NamedAll
<1>b. \A p : p \in K <=> p \in PartsOf(E, Sh) /\ p.total.name = n
  BY DEF NamedParts
<1>c. \A e \in E : \A c : [entity |-> e.id, total |-> FoldOf(Sh[e], n, c)] \in K =>
        g[[entity |-> e.id, total |-> FoldOf(Sh[e], n, c)]] =
          SumFunctionOnSet(val, InCollection(Sh[e], n, c))
  BY DEF PartOf
<1>1. \A S, c : FoldOf(S, n, c).name = n /\ FoldOf(S, n, c).collection = c BY DEF FoldOf
<1>2. \A m, S, c : FoldOf(S, m, c).name = m BY DEF FoldOf
<1>3. ASSUME NEW e \in E, NEW x \in Sh[e], x.token.name = n
      PROVE  /\ [entity |-> e.id, is |-> x] \in A
             /\ part[[entity |-> e.id, is |-> x]] =
                  [entity |-> e.id, total |-> FoldOf(Sh[e], n, x.token.collection)]
  <2> DEFINE y == [entity |-> e.id, is |-> x]
  <2>1. y \in AllOf(E, Sh) BY DEF AllOf
  <2>2. y.entity = e.id /\ y.is = x OBVIOUS
  <2>3. owning(y) = e BY <2>2
  <2>4. y \in A BY <2>1, <2>2, <1>3, <1>a
  <2> HIDE DEF y
  <2>5. part[y] = [entity |-> e.id, total |-> FoldOf(Sh[e], n, x.token.collection)]
    <3> HIDE DEF owning
    <3> QED BY <2>2, <2>3, <2>4
  <2> QED BY <2>4, <2>5 DEF y
<1>4. \A y \in A : \E e \in E : \E x \in Sh[e] : y = [entity |-> e.id, is |-> x] /\ x.token.name = n
  BY <1>a DEF AllOf
<1> HIDE DEF part
<1>5. ASSUME NEW y \in A PROVE part[y] \in K
  <2>1. PICK e \in E : \E x \in Sh[e] : y = [entity |-> e.id, is |-> x] /\ x.token.name = n
    BY <1>4, <1>5
  <2>2. PICK x \in Sh[e] : y = [entity |-> e.id, is |-> x] /\ x.token.name = n BY <2>1
  <2>3. part[y] = [entity |-> e.id, total |-> FoldOf(Sh[e], n, x.token.collection)]
    BY <2>2, <1>3
  <2>4. part[y] \in PartsOf(E, Sh)
    <3>1. [entity |-> e.id, total |-> FoldOf(Sh[e], x.token.name, x.token.collection)] \in PartsOf(E, Sh)
      BY PartsOfAre
    <3> QED BY <3>1, <2>2, <2>3
  <2>5. part[y].total.name = n BY <2>3, <1>1
  <2> QED BY <2>4, <2>5, <1>b
<1>6. ASSUME NEW p \in K
      PROVE  \E e \in E : \E x \in Sh[e] :
               x.token.name = n /\ p = [entity |-> e.id, total |-> FoldOf(Sh[e], n, x.token.collection)]
  <2>1. p \in PartsOf(E, Sh) /\ p.total.name = n BY <1>6, <1>b
  <2>2. PICK e \in E : \E x \in Sh[e] :
          p = [entity |-> e.id, total |-> FoldOf(Sh[e], x.token.name, x.token.collection)]
    BY <2>1, PartsOfAre
  <2>3. PICK x \in Sh[e] : p = [entity |-> e.id, total |-> FoldOf(Sh[e], x.token.name, x.token.collection)]
    BY <2>2
  <2>4. x.token.name = n BY <2>1, <2>3, <1>2
  <2> QED BY <2>3, <2>4
<1>7. IsFiniteSet(A)
  <2>1. A \in SUBSET AllOf(E, Sh) BY <1>a
  <2> HIDE DEF A
  <2> QED BY <2>1, AllOfFinite, FS_Subset
<1>8. IsFiniteSet(K)
  <2> DEFINE I == {part[y] : y \in A}
  <2>1. K \in SUBSET I
    <3> SUFFICES ASSUME NEW p \in K PROVE p \in I
      OBVIOUS
    <3>1. PICK e \in E : \E x \in Sh[e] :
            x.token.name = n /\ p = [entity |-> e.id, total |-> FoldOf(Sh[e], n, x.token.collection)]
      BY <1>6
    <3>2. PICK x \in Sh[e] :
            x.token.name = n /\ p = [entity |-> e.id, total |-> FoldOf(Sh[e], n, x.token.collection)]
      BY <3>1
    <3> QED BY <3>2, <1>3
  <2>2. IsFiniteSet(I)
    <3> HIDE DEF A
    <3> QED BY <1>7, ImageFinite
  <2> HIDE DEF I, K
  <2> QED BY <2>1, <2>2, FS_Subset
<1>9. \A y \in A : f[y] \in Int
  <2> SUFFICES ASSUME NEW y \in A PROVE f[y] \in Int
    OBVIOUS
  <2>1. PICK e \in E : \E x \in Sh[e] : y = [entity |-> e.id, is |-> x] BY <1>4
  <2>2. y.is \in Sh[e] BY <2>1
  <2> QED BY <2>2, <1>a
<1>10. ASSUME NEW p \in K
       PROVE  g[p] = SumFunctionOnSet(f, {y \in A : part[y] = p})
  <2>1. PICK e \in E : \E x \in Sh[e] :
          x.token.name = n /\ p = [entity |-> e.id, total |-> FoldOf(Sh[e], n, x.token.collection)]
    BY <1>6, <1>10
  <2>2. PICK c : p = [entity |-> e.id, total |-> FoldOf(Sh[e], n, c)] BY <2>1
  <2> DEFINE I == InCollection(Sh[e], n, c)
             b == [x \in I |-> [entity |-> e.id, is |-> x]]
             Y == {y \in A : part[y] = p}
  <2>3. g[p] = SumFunctionOnSet(val, I) BY <2>2, <1>10, <1>c
  <2>4. \A x \in I : /\ x \in Sh[e] /\ x.token.name = n /\ x.token.collection = c
                     /\ b[x] = [entity |-> e.id, is |-> x]
    BY DEF InCollection
  <2>5. \A x \in I : b[x] \in Y
    <3> SUFFICES ASSUME NEW x \in I PROVE b[x] \in Y
      OBVIOUS
    <3>1. x \in Sh[e] /\ x.token.name = n /\ x.token.collection = c /\ b[x] = [entity |-> e.id, is |-> x]
      BY <2>4
    <3>2. b[x] \in A /\ part[b[x]] = [entity |-> e.id, total |-> FoldOf(Sh[e], n, x.token.collection)]
      <4> HIDE DEF b, I, A
      <4> QED BY <3>1, <1>3
    <3>3. part[b[x]] = p
      <4> HIDE DEF b, I, A
      <4> QED BY <2>2, <3>1, <3>2
    <3> HIDE DEF b, I, A
    <3> QED BY <3>2, <3>3
  <2>6. ASSUME NEW y \in Y PROVE \E x \in I : y = b[x]
    <3>1. y \in A /\ part[y] = p BY <2>6
    <3>2. PICK d \in E : \E x \in Sh[d] : y = [entity |-> d.id, is |-> x] /\ x.token.name = n
      BY <1>4, <3>1
    <3>3. PICK x \in Sh[d] : y = [entity |-> d.id, is |-> x] /\ x.token.name = n BY <3>2
    <3>4. p = [entity |-> d.id, total |-> FoldOf(Sh[d], n, x.token.collection)]
      BY <3>1, <3>3, <1>3
    <3>5. d.id = e.id /\ FoldOf(Sh[d], n, x.token.collection) = FoldOf(Sh[e], n, c)
      BY <3>4, <2>2
    <3>6. d = e BY <3>5
    <3>7. x.token.collection = c BY <3>5, <1>1
    <3>8. x \in I BY <3>3, <3>6, <3>7 DEF InCollection
    <3> HIDE DEF I
    <3> QED BY <3>3, <3>6, <3>8
  <2>7. /\ IsFiniteSet(I) /\ \A x \in I : val[x] \in Int
        /\ \A x \in I : b[x] \in A /\ b[x].is = x
    <3>1. I \in SUBSET Sh[e] BY DEF InCollection
    <3>2. IsFiniteSet(I)
      <4> HIDE DEF I
      <4> QED BY <3>1, FS_Subset
    <3>3. \A x \in I : b[x] \in A BY <2>5
    <3> QED BY <2>4, <3>1, <3>2, <3>3
  <2>8. Y = {b[x] : x \in I}
    <3> HIDE DEF b, I, Y
    <3> QED BY <2>5, <2>6
  <2> HIDE DEF b, I, Y
  <2>9. /\ \A x \in I : f[b[x]] = val[x]
        /\ \A x, y \in I : b[x] = b[y] => x = y
    BY <2>7, <1>a
  <2>10. SumFunctionOnSet(f, {b[x] : x \in I}) = SumFunctionOnSet(val, I)
    BY <2>7, <2>9, SumOfImage
  <2> QED BY <2>3, <2>8, <2>10 DEF Y
<1>11. SumFunctionOnSet(g, K) = SumFunctionOnSet(f, A)
  <2>1. \A y \in A : part[y] \in K BY <1>5
  <2> DEFINE of == [p \in K |-> {y \in A : part[y] = p}]
  <2>2. \A p \in K : g[p] = SumFunctionOnSet(f, of[p]) BY <1>10
  <2>3. \A p \in K : \A y : y \in of[p] <=> y \in A /\ part[y] = p OBVIOUS
  <2> HIDE DEF A, K, of
  <2> QED BY <2>1, <2>2, <2>3, <1>7, <1>8, <1>9, SumByParts
<1> QED BY <1>11 DEF SumFunction

(* An account shows finitely many tokens, with amounts. *)
LEMMA ShownFinite ==
  ASSUME TotalsInv, outcome = "answered", NEW r \in batch, NEW a, Known(r, a)
  PROVE  /\ IsFiniteSet(Totals!Shown(r, a))
         /\ \A x \in Totals!Shown(r, a) :
              x.token \in Tokens /\ x.shown \in [amount : Nat, minted : Nat, retired : Nat]
<1>1. CASE a = NoAccount
  <2>1. Totals!Shown(r, a) = {} BY <1>1 DEF Totals!Shown
  <2> QED BY <2>1, FS_EmptySet
<1>2. CASE a # NoAccount
  <2> DEFINE q == [r EXCEPT !.address = a]
             t == Totals!SeenBy(r, a)
             C == {k \in Tokens : Wanted(q, k) /\ ShownOf(t, t, q, k) # Nothing}
             b == [k \in C |-> [token |-> k, shown |-> ShownOf(t, t, q, k)]]
  <2>1. a \in Addresses /\ t \in Tables BY <1>2, TotalsRows DEF Known
  <2>2. q.address = a BY BatchRequest DEF TotalsInv
  <2>3. Totals!Shown(r, a) = ShownTokens(t, t, q) BY <1>2, TotalsOperators DEF Totals!Shown
  <2>4. \A k \in Tokens : ShownOf(t, t, q, k) \in [amount : Nat, minted : Nat, retired : Nat]
    <3> HIDE DEF q, t
    <3> QED BY <2>1, <2>2, ShownType
  <2>5. ShownTokens(t, t, q) = {b[k] : k \in C}
    <3> HIDE DEF q, t
    <3> QED BY ShownTokensAre DEF Wanted
  <2>6. \A k \in C : b[k].token = k /\ b[k].shown = ShownOf(t, t, q, k) /\ k \in Tokens
    <3> HIDE DEF q, t
    <3> QED OBVIOUS
  <2>7. IsFiniteSet(C) BY TokenAssumption, FS_Subset
  <2> HIDE DEF b, C, q, t
  <2>8. IsFiniteSet({b[k] : k \in C}) BY <2>7, ImageFinite
  <2> QED BY <2>3, <2>4, <2>5, <2>6, <2>8
<1> QED BY <1>1, <1>2

(* The amounts of a name, from the totals and from all tokens *)
FromParts(P, n) ==
  [name    |-> n,
   amount  |-> SumFunction([p \in {q \in P : q.total.name = n} |-> p.total.amount]),
   minted  |-> SumFunction([p \in {q \in P : q.total.name = n} |-> p.total.minted]),
   retired |-> SumFunction([p \in {q \in P : q.total.name = n} |-> p.total.retired])]

FromAll(A, n) ==
  [name    |-> n,
   amount  |-> SumFunction([y \in {z \in A : z.is.token.name = n} |-> y.is.shown.amount]),
   minted  |-> SumFunction([y \in {z \in A : z.is.token.name = n} |-> y.is.shown.minted]),
   retired |-> SumFunction([y \in {z \in A : z.is.token.name = n} |-> y.is.shown.retired])]

(* All columns of a name, from the parts or from everything shown. *)
LEMMA FromPartsIsFromAll ==
  ASSUME NEW E, IsFiniteSet(E), \A d, e \in E : d.id = e.id => d = e,
         NEW Sh, \A e \in E : IsFiniteSet(Sh[e]),
         \A e \in E : \A x \in Sh[e] : x.shown \in [amount : Nat, minted : Nat, retired : Nat],
         NEW n
  PROVE  FromParts(PartsOf(E, Sh), n) = FromAll(AllOf(E, Sh), n)
<1> DEFINE P == NamedParts(E, Sh, n)
           A == NamedAll(E, Sh, n)
           X == UNION {Sh[e] : e \in E}
<1>1. \A e \in E : \A x \in Sh[e] : x \in X OBVIOUS
<1>2. \A y \in A : y.is \in X BY DEF AllOf, NamedAll
<1>3. \A x \in X : x.shown.amount \in Int /\ x.shown.minted \in Int /\ x.shown.retired \in Int
  <2> SUFFICES ASSUME NEW x \in X
               PROVE  x.shown.amount \in Int /\ x.shown.minted \in Int /\ x.shown.retired \in Int
    OBVIOUS
  <2>1. x.shown \in [amount : Nat, minted : Nat, retired : Nat] OBVIOUS
  <2> QED BY <2>1
<1>4. \A e \in E : \A c : IsFiniteSet(InCollection(Sh[e], n, c)) /\ InCollection(Sh[e], n, c) \subseteq X
  <2> SUFFICES ASSUME NEW e \in E, NEW c
               PROVE  IsFiniteSet(InCollection(Sh[e], n, c)) /\ InCollection(Sh[e], n, c) \subseteq X
    OBVIOUS
  <2>1. InCollection(Sh[e], n, c) \in SUBSET Sh[e] BY DEF InCollection
  <2>2. IsFiniteSet(InCollection(Sh[e], n, c)) BY <2>1, FS_Subset
  <2> QED BY <1>1, <2>1, <2>2
<1> HIDE DEF X
<1>5. SumFunction([p \in P |-> p.total.amount]) = SumFunction([y \in A |-> y.is.shown.amount])
  <2> DEFINE val == [x \in X |-> x.shown.amount]
             g == [p \in P |-> p.total.amount]
             f == [y \in A |-> y.is.shown.amount]
  <2>1. DOMAIN f = A /\ DOMAIN g = P OBVIOUS
  <2>2. \A x \in X : val[x] \in Int BY <1>3
  <2>3. \A y \in A : f[y] = val[y.is] BY <1>2
  <2>4. ASSUME NEW e \in E, NEW c, PartOf(e, Sh, n, c) \in P
        PROVE  g[PartOf(e, Sh, n, c)] = SumFunctionOnSet(val, InCollection(Sh[e], n, c))
    <3> DEFINE I == InCollection(Sh[e], n, c)
               h == [x \in I |-> x.shown.amount]
    <3>1. FoldOf(Sh[e], n, c).amount = SumFunction(h) BY DEF FoldOf
    <3>2. g[PartOf(e, Sh, n, c)] = FoldOf(Sh[e], n, c).amount BY <2>4 DEF PartOf
    <3>3. DOMAIN h = I /\ \A x \in I : h[x] = val[x] BY <1>4
    <3>4. IsFiniteSet(I) BY <1>4
    <3> HIDE DEF I, h, val, g
    <3>5. SumFunction(h) = SumFunctionOnSet(h, I) BY <3>3, SumFunctionIs
    <3>6. SumFunctionOnSet(h, I) = SumFunctionOnSet(val, I) BY <3>3, <3>4, SumEqual
    <3> QED BY <3>1, <3>2, <3>5, <3>6 DEF I
  <2> HIDE DEF val, f, g
  <2>5. \A e \in E : \A x \in Sh[e] : val[x] \in Int BY <1>1, <2>2
  <2>6. \A e \in E : \A c : PartOf(e, Sh, n, c) \in P =>
          g[PartOf(e, Sh, n, c)] = SumFunctionOnSet(val, InCollection(Sh[e], n, c))
    BY <2>4
  <2>7. SumFunction(g) = SumFunction(f) BY <2>1, <2>3, <2>5, <2>6, PartsAddUp
  <2> QED BY <2>7 DEF f, g
<1>6. SumFunction([p \in P |-> p.total.minted]) = SumFunction([y \in A |-> y.is.shown.minted])
  <2> DEFINE val == [x \in X |-> x.shown.minted]
             g == [p \in P |-> p.total.minted]
             f == [y \in A |-> y.is.shown.minted]
  <2>1. DOMAIN f = A /\ DOMAIN g = P OBVIOUS
  <2>2. \A x \in X : val[x] \in Int BY <1>3
  <2>3. \A y \in A : f[y] = val[y.is] BY <1>2
  <2>4. ASSUME NEW e \in E, NEW c, PartOf(e, Sh, n, c) \in P
        PROVE  g[PartOf(e, Sh, n, c)] = SumFunctionOnSet(val, InCollection(Sh[e], n, c))
    <3> DEFINE I == InCollection(Sh[e], n, c)
               h == [x \in I |-> x.shown.minted]
    <3>1. FoldOf(Sh[e], n, c).minted = SumFunction(h) BY DEF FoldOf
    <3>2. g[PartOf(e, Sh, n, c)] = FoldOf(Sh[e], n, c).minted BY <2>4 DEF PartOf
    <3>3. DOMAIN h = I /\ \A x \in I : h[x] = val[x] BY <1>4
    <3>4. IsFiniteSet(I) BY <1>4
    <3> HIDE DEF I, h, val, g
    <3>5. SumFunction(h) = SumFunctionOnSet(h, I) BY <3>3, SumFunctionIs
    <3>6. SumFunctionOnSet(h, I) = SumFunctionOnSet(val, I) BY <3>3, <3>4, SumEqual
    <3> QED BY <3>1, <3>2, <3>5, <3>6 DEF I
  <2> HIDE DEF val, f, g
  <2>5. \A e \in E : \A x \in Sh[e] : val[x] \in Int BY <1>1, <2>2
  <2>6. \A e \in E : \A c : PartOf(e, Sh, n, c) \in P =>
          g[PartOf(e, Sh, n, c)] = SumFunctionOnSet(val, InCollection(Sh[e], n, c))
    BY <2>4
  <2>7. SumFunction(g) = SumFunction(f) BY <2>1, <2>3, <2>5, <2>6, PartsAddUp
  <2> QED BY <2>7 DEF f, g
<1>7. SumFunction([p \in P |-> p.total.retired]) = SumFunction([y \in A |-> y.is.shown.retired])
  <2> DEFINE val == [x \in X |-> x.shown.retired]
             g == [p \in P |-> p.total.retired]
             f == [y \in A |-> y.is.shown.retired]
  <2>1. DOMAIN f = A /\ DOMAIN g = P OBVIOUS
  <2>2. \A x \in X : val[x] \in Int BY <1>3
  <2>3. \A y \in A : f[y] = val[y.is] BY <1>2
  <2>4. ASSUME NEW e \in E, NEW c, PartOf(e, Sh, n, c) \in P
        PROVE  g[PartOf(e, Sh, n, c)] = SumFunctionOnSet(val, InCollection(Sh[e], n, c))
    <3> DEFINE I == InCollection(Sh[e], n, c)
               h == [x \in I |-> x.shown.retired]
    <3>1. FoldOf(Sh[e], n, c).retired = SumFunction(h) BY DEF FoldOf
    <3>2. g[PartOf(e, Sh, n, c)] = FoldOf(Sh[e], n, c).retired BY <2>4 DEF PartOf
    <3>3. DOMAIN h = I /\ \A x \in I : h[x] = val[x] BY <1>4
    <3>4. IsFiniteSet(I) BY <1>4
    <3> HIDE DEF I, h, val, g
    <3>5. SumFunction(h) = SumFunctionOnSet(h, I) BY <3>3, SumFunctionIs
    <3>6. SumFunctionOnSet(h, I) = SumFunctionOnSet(val, I) BY <3>3, <3>4, SumEqual
    <3> QED BY <3>1, <3>2, <3>5, <3>6 DEF I
  <2> HIDE DEF val, f, g
  <2>5. \A e \in E : \A x \in Sh[e] : val[x] \in Int BY <1>1, <2>2
  <2>6. \A e \in E : \A c : PartOf(e, Sh, n, c) \in P =>
          g[PartOf(e, Sh, n, c)] = SumFunctionOnSet(val, InCollection(Sh[e], n, c))
    BY <2>4
  <2>7. SumFunction(g) = SumFunction(f) BY <2>1, <2>3, <2>5, <2>6, PartsAddUp
  <2> QED BY <2>7 DEF f, g
<1> QED BY <1>5, <1>6, <1>7 DEF FromParts, FromAll, NamedParts, NamedAll

(* What an answered request has found, and the tokens its entities show *)
ShownBy(r) == [e \in found[r] |-> Totals!Shown(r, e.admin)]

(* What the found entities show, as the lemmas above need it. *)
LEMMA FoundShown ==
  ASSUME TotalsInv, outcome = "answered", NEW r \in batch
  PROVE  /\ IsFiniteSet(found[r]) /\ \A d, e \in found[r] : d.id = e.id => d = e
         /\ \A e \in found[r] :
              /\ IsFiniteSet(ShownBy(r)[e])
              /\ \A x \in ShownBy(r)[e] :
                   x.token \in Tokens /\ x.shown \in [amount : Nat, minted : Nat, retired : Nat]
<1>1. found[r] \subseteq Entities /\ \A e \in found[r] : Known(r, e.admin) BY AccountsKnown
<1>2. IsFiniteSet(found[r]) BY <1>1, EntityAssumption, FS_Subset
<1>3. \A e \in found[r] :
        /\ IsFiniteSet(Totals!Shown(r, e.admin))
        /\ \A x \in Totals!Shown(r, e.admin) :
             x.token \in Tokens /\ x.shown \in [amount : Nat, minted : Nat, retired : Nat]
  BY <1>1, ShownFinite
<1>4. \A e \in found[r] : ShownBy(r)[e] = Totals!Shown(r, e.admin) BY DEF ShownBy
<1>5. \A d, e \in found[r] : d.id = e.id => d = e BY <1>1, EntityAssumption
<1> QED BY <1>2, <1>3, <1>4, <1>5

(* The amounts of an answered request are sums over all tokens. *)
LEMMA AmountsAnswered ==
  ASSUME TotalsInv, outcome = "answered", field = "amounts", NEW r \in batch
  PROVE  answers[r] = {FromAll(AllOf(found[r], ShownBy(r)), n) :
                         n \in {y.is.token.name : y \in AllOf(found[r], ShownBy(r))}}
<1> DEFINE E == found[r]
           Sh == ShownBy(r)
           parts == UNION {{[entity |-> x.entity, total |-> t] : t \in x.tokens} : x \in Totals!ByEntity(r)}
<1>1. answers[r] = Totals!Amounts(r) BY DEF TotalsInv, Answered, AnswerOf
<1>2. \A e \in E : Totals!TotalsOf(r, e.admin) = FoldedTotals(Sh[e])
  BY AccountsKnown, TotalsOfAccount DEF ShownBy
<1>3. parts = PartsOf(E, Sh)
  <2>1. ASSUME NEW p \in parts PROVE p \in PartsOf(E, Sh)
    <3>1. PICK x \in Totals!ByEntity(r) : \E t \in x.tokens : p = [entity |-> x.entity, total |-> t]
      BY <2>1
    <3>2. PICK t \in x.tokens : p = [entity |-> x.entity, total |-> t] BY <3>1
    <3>3. PICK e \in E : x = [entity |-> e.id, tokens |-> Totals!TotalsOf(r, e.admin)]
      BY DEF Totals!ByEntity
    <3>4. t \in FoldedTotals(Sh[e]) /\ p = [entity |-> e.id, total |-> t] BY <1>2, <3>2, <3>3
    <3> HIDE DEF E, Sh
    <3> QED BY <3>4 DEF PartsOf
  <2>2. ASSUME NEW p \in PartsOf(E, Sh) PROVE p \in parts
    <3>1. PICK e \in E : \E t \in FoldedTotals(Sh[e]) : p = [entity |-> e.id, total |-> t]
      BY <2>2 DEF PartsOf
    <3>2. PICK t \in FoldedTotals(Sh[e]) : p = [entity |-> e.id, total |-> t] BY <3>1
    <3> DEFINE x == [entity |-> e.id, tokens |-> Totals!TotalsOf(r, e.admin)]
    <3>3. t \in x.tokens /\ p = [entity |-> x.entity, total |-> t] BY <1>2, <3>2
    <3>4. x \in Totals!ByEntity(r) BY <3>3 DEF Totals!ByEntity
    <3> HIDE DEF x
    <3> QED BY <3>3, <3>4
  <2> HIDE DEF parts, E, Sh
  <2> QED BY <2>1, <2>2
<1>4. Totals!Amounts(r) = {FromParts(parts, n) : n \in {p.total.name : p \in parts}}
  BY TotalsOperators DEF Totals!Amounts, FromParts
<1>5. \A n : FromParts(PartsOf(E, Sh), n) = FromAll(AllOf(E, Sh), n)
  BY FoundShown, FromPartsIsFromAll
<1> HIDE DEF E, Sh, parts
<1>6. {p.total.name : p \in PartsOf(E, Sh)} = {y.is.token.name : y \in AllOf(E, Sh)}
  <2>1. ASSUME NEW p \in PartsOf(E, Sh) PROVE \E y \in AllOf(E, Sh) : y.is.token.name = p.total.name
    <3>1. PICK e \in E : \E x \in Sh[e] :
            p = [entity |-> e.id, total |-> FoldOf(Sh[e], x.token.name, x.token.collection)]
      BY PartsOfAre
    <3>2. PICK x \in Sh[e] :
            p = [entity |-> e.id, total |-> FoldOf(Sh[e], x.token.name, x.token.collection)]
      BY <3>1
    <3>3. p.total.name = x.token.name BY <3>2 DEF FoldOf
    <3>4. [entity |-> e.id, is |-> x] \in AllOf(E, Sh) BY DEF AllOf
    <3> QED BY <3>3, <3>4
  <2>2. ASSUME NEW y \in AllOf(E, Sh) PROVE \E p \in PartsOf(E, Sh) : p.total.name = y.is.token.name
    <3>1. PICK e \in E : \E x \in Sh[e] : y = [entity |-> e.id, is |-> x] BY DEF AllOf
    <3>2. PICK x \in Sh[e] : y = [entity |-> e.id, is |-> x] BY <3>1
    <3> DEFINE p == [entity |-> e.id, total |-> FoldOf(Sh[e], x.token.name, x.token.collection)]
    <3>3. p \in PartsOf(E, Sh) BY PartsOfAre
    <3>4. p.total.name = y.is.token.name BY <3>2 DEF FoldOf
    <3> QED BY <3>3, <3>4
  <2> QED BY <2>1, <2>2
<1> DEFINE N == {y.is.token.name : y \in AllOf(E, Sh)}
<1>7. answers[r] = {FromParts(PartsOf(E, Sh), n) : n \in N} BY <1>1, <1>3, <1>4, <1>6
<1> HIDE DEF N
<1>8. answers[r] = {FromAll(AllOf(E, Sh), n) : n \in N} BY <1>5, <1>7
<1> QED BY <1>8 DEF E, Sh, N

(* In an answered batch amounts add up. *)
LEMMA AmountsHold ==
  ASSUME TotalsInv
  PROVE  Totals!AmountsAddUp
<1> SUFFICES ASSUME outcome = "answered", field = "amounts"
             PROVE  Totals!AmountsAddUp
  BY DEF Totals!AmountsAddUp
<1> DEFINE all(r) == UNION {{[entity |-> e.id, is |-> x] : x \in Totals!Shown(r, e.admin)} : e \in found[r]}
           of(r, n) == {y \in all(r) : y.is.token.name = n}
           row(r, n) == [name    |-> n,
                         amount  |-> Totals!SumFunction([y \in of(r, n) |-> y.is.shown.amount]),
                         minted  |-> Totals!SumFunction([y \in of(r, n) |-> y.is.shown.minted]),
                         retired |-> Totals!SumFunction([y \in of(r, n) |-> y.is.shown.retired])]
<1>1. Totals!AmountsAddUp <=>
        \A r \in batch : answers[r] = {row(r, n) : n \in {y.is.token.name : y \in all(r)}}
  BY DEF Totals!AmountsAddUp
<1>2. ASSUME NEW r \in batch PROVE AllOf(found[r], ShownBy(r)) = all(r)
  <2>1. \A e \in found[r] : ShownBy(r)[e] = Totals!Shown(r, e.admin)
    BY DEF ShownBy
  <2>2. \A e \in found[r] : {[entity |-> e.id, is |-> x] : x \in ShownBy(r)[e]} =
                             {[entity |-> e.id, is |-> x] : x \in Totals!Shown(r, e.admin)}
    BY <2>1
  <2> QED BY <2>2 DEF AllOf
<1>3. \A r, n : row(r, n) = FromAll(all(r), n)
  BY TotalsOperators DEF FromAll
<1>4. \A r \in batch : answers[r] = {FromAll(AllOf(found[r], ShownBy(r)), n) :
                                       n \in {y.is.token.name : y \in AllOf(found[r], ShownBy(r))}}
  BY AmountsAnswered
<1> HIDE DEF all, row
<1>5. ASSUME NEW r \in batch
      PROVE  answers[r] = {row(r, n) : n \in {y.is.token.name : y \in all(r)}}
  <2> DEFINE N == {y.is.token.name : y \in all(r)}
  <2>1. answers[r] = {FromAll(all(r), n) : n \in N} BY <1>2, <1>4
  <2> HIDE DEF N
  <2>2. answers[r] = {row(r, n) : n \in N} BY <1>3, <2>1
  <2> QED BY <2>2 DEF N
<1> QED BY <1>1, <1>5

(***************************************************************************)
(* token.ts:396-417: for any entities, tokens, batches and commits, the    *)
(* amounts of a collection are the sums over all tokens of all its         *)
(* entities, although the code adds up per entity what the database added  *)
(* up per class and collection.                                            *)
(***************************************************************************)
THEOREM AmountsAddUpAlways == Spec => []AmountsAddUp
<1>1. (~ detail => TotalsInv) => AmountsAddUp
  BY AmountsHold DEF AmountsAddUp
<1> QED BY <1>1, TotalsInvAlways, PTL

-----------------------------------------------------------------------------
(***************************************************************************)
(* Retirements are counted once.  What is shown of an account, with all    *)
(* retirements of the tokens it minted                                     *)
(***************************************************************************)
LEMMA ShownOfAccount ==
  ASSUME TotalsInv, outcome = "answered", NEW r \in batch, r.allRetired,
         NEW a \in Addresses, Known(r, a), Totals!SeenBy(r, a) = balance
  PROVE  /\ \A x \in Totals!Shown(r, a) :
              /\ x.token \in Tokens /\ Wanted(r, x.token)
              /\ x.shown.minted = balance[a][x.token].minted
              /\ x.shown.retired = IF x.shown.minted # 0 THEN RetiredEver(balance, x.token) ELSE 0
         /\ \A x, y \in Totals!Shown(r, a) : x.token = y.token => x = y
         /\ \A k \in Tokens : Wanted(r, k) /\ balance[a][k].minted # 0 =>
              \E x \in Totals!Shown(r, a) : x.token = k
<1> DEFINE q == [r EXCEPT !.address = a]
<1>1. a # NoAccount /\ balance \in Tables BY EntityAssumption DEF TotalsInv, TotalsType
<1>2. q.address = a /\ q.name = r.name /\ q.allRetired = r.allRetired /\ r.allRetired \in BOOLEAN
  BY BatchRequest DEF TotalsInv
<1>3. Totals!Shown(r, a) = ShownTokens(balance, balance, q) BY <1>1, TotalsOperators DEF Totals!Shown
<1> HIDE DEF q
<1>4. ShownTokens(balance, balance, q) =
        {[token |-> k, shown |-> ShownOf(balance, balance, q, k)] :
           k \in {l \in Tokens : Wanted(q, l) /\ ShownOf(balance, balance, q, l) # Nothing}}
  BY ShownTokensAre DEF Wanted
<1>5. \A k : Wanted(q, k) <=> Wanted(r, k) BY <1>2 DEF Wanted
<1>6. \A k \in Tokens :
        /\ ShownOf(balance, balance, q, k).minted = balance[a][k].minted
        /\ ShownOf(balance, balance, q, k).retired =
             IF balance[a][k].minted # 0 THEN RetiredEver(balance, k) ELSE 0
  <2>1. q.address \in Addresses /\ q.allRetired \in BOOLEAN BY <1>2
  <2>2. ASSUME NEW k \in Tokens
        PROVE  /\ ShownOf(balance, balance, q, k).minted = balance[q.address][k].minted
               /\ q.allRetired \in BOOLEAN =>
                    ShownOf(balance, balance, q, k).retired =
                      IF ~ q.allRetired THEN balance[q.address][k].retired
                      ELSE IF balance[q.address][k].minted # 0 THEN RetiredEver(balance, k) ELSE 0
    BY <1>1, <2>1, ShownType
  <2> QED BY <2>1, <2>2, <1>2
<1>7. \A k \in Tokens : balance[a][k].minted # 0 => ShownOf(balance, balance, q, k) # Nothing
  BY <1>6 DEF Nothing
<1>8. ASSUME NEW x \in Totals!Shown(r, a)
      PROVE  /\ x.token \in Tokens /\ Wanted(r, x.token)
             /\ x = [token |-> x.token, shown |-> ShownOf(balance, balance, q, x.token)]
             /\ x.shown = ShownOf(balance, balance, q, x.token)
  BY <1>3, <1>4, <1>5
<1>9. ASSUME NEW k \in Tokens, Wanted(r, k), balance[a][k].minted # 0
      PROVE  \E x \in Totals!Shown(r, a) : x.token = k
  <2>1. [token |-> k, shown |-> ShownOf(balance, balance, q, k)] \in Totals!Shown(r, a)
    BY <1>3, <1>4, <1>5, <1>7, <1>9
  <2> QED BY <2>1
<1>10. \A x \in Totals!Shown(r, a) :
         /\ x.token \in Tokens /\ Wanted(r, x.token)
         /\ x.shown.minted = balance[a][x.token].minted
         /\ x.shown.retired = IF x.shown.minted # 0 THEN RetiredEver(balance, x.token) ELSE 0
  BY <1>6, <1>8
<1>11. \A x, y \in Totals!Shown(r, a) : x.token = y.token => x = y BY <1>8
<1> QED BY <1>9, <1>10, <1>11

(* A set of at most one element has no two. *)
LEMMA AtMostOne ==
  ASSUME NEW S, IsFiniteSet(S), Cardinality(S) =< 1, NEW x \in S, NEW y \in S
  PROVE  x = y
<1> SUFFICES ASSUME x # y PROVE FALSE
  OBVIOUS
<1>1. Cardinality(S \ {x}) = Cardinality(S) - 1 /\ IsFiniteSet(S \ {x}) BY FS_RemoveElement
<1>2. Cardinality(S \ {x}) = 0
  <2>1. Cardinality(S) \in Nat /\ Cardinality(S \ {x}) \in Nat BY <1>1, FS_CardinalityType
  <2> QED BY <1>1, <2>1
<1>3. S \ {x} = {}
  <2> DEFINE T == S \ {x}
  <2>1. IsFiniteSet(T) /\ Cardinality(T) = 0 BY <1>1, <1>2
  <2> HIDE DEF T
  <2>2. T = {} BY <2>1, FS_EmptySet
  <2> QED BY <2>2 DEF T
<1> QED BY <1>3

(* A function whose image is as large as its domain is injective. *)
LEMMA InjectiveOnto ==
  ASSUME NEW S, IsFiniteSet(S), NEW f,
         Cardinality({f[x] : x \in S}) = Cardinality(S), NEW x \in S, NEW y \in S, f[x] = f[y]
  PROVE  x = y
<1> DEFINE I == {f[z] : z \in S}
           g == [z \in S |-> f[z]]
<1>1. g \in [S -> I] /\ (\A w \in I : \E z \in S : g[z] = w) /\ g[x] = f[x] /\ g[y] = f[y] OBVIOUS
<1>2. Cardinality(I) = Cardinality(S) OBVIOUS
<1> HIDE DEF g, I
<1>3. g \in Surjection(S, I) BY <1>1, Fun_IsSurj
<1>4. g \in Injection(S, I) BY <1>2, <1>3, FS_Surjection
<1> QED BY <1>1, <1>4 DEF Injection, IsInjective

(* The entities of a request that have an account, their accounts, and     *)
(* those that minted a token                                               *)
WithAccount(r) == {e \in found[r] : e.admin # NoAccount}

AccountsOf(r) == {e.admin : e \in WithAccount(r)}

MintersOf(r, k) == {a \in AccountsOf(r) : balance[a][k].minted # 0}

(* With each account found once and each token minted by one of them, the
   retirements of all are counted once for each token. *)
LEMMA CountedOnce ==
  ASSUME TotalsInv, outcome = "answered", field = "amounts", NEW r \in batch, r.allRetired,
         \A a \in AccountsOf(r) : Totals!SeenBy(r, a) = balance,
         Cardinality(AccountsOf(r)) = Cardinality(WithAccount(r)),
         NEW n, NEW x \in answers[r], x.name = n,
         \A k \in Tokens : k.name = n => Cardinality(MintersOf(r, k)) =< 1
  PROVE  x.retired = SumFunction([k \in {l \in Tokens : l.name = n /\ MintersOf(r, l) # {}} |->
                                    RetiredEver(balance, k)])
<1> DEFINE E == found[r]
           Sh == ShownBy(r)
           A == AllOf(E, Sh)
           H == {z \in A : z.is.token.name = n}
           C == {y \in H : y.is.shown.minted # 0}
           M == {l \in Tokens : l.name = n /\ MintersOf(r, l) # {}}
           f == [y \in H |-> y.is.shown.retired]
           g == [k \in M |-> RetiredEver(balance, k)]
           b == [y \in H |-> y.is.token]
           with == WithAccount(r)
           accounts == AccountsOf(r)
<1>a. with = {e \in found[r] : e.admin # NoAccount} /\ accounts = {e.admin : e \in with}
  BY DEF WithAccount, AccountsOf
<1>b. \A k : MintersOf(r, k) = {a \in accounts : balance[a][k].minted # 0} BY DEF MintersOf
<1> HIDE DEF with, accounts
<1>1. /\ IsFiniteSet(E) /\ \A d, e \in E : d.id = e.id => d = e
      /\ \A e \in E : /\ IsFiniteSet(Sh[e])
                      /\ \A z \in Sh[e] : z.shown \in [amount : Nat, minted : Nat, retired : Nat]
  BY FoundShown
<1>2. E \subseteq Entities /\ \A e \in E : Known(r, e.admin) BY AccountsKnown
<1>3. balance \in Tables BY DEF TotalsInv, TotalsType
<1>4. \A e \in E : e.admin = NoAccount => Sh[e] = {} BY DEF ShownBy, Totals!Shown
<1>5. ASSUME NEW e \in with
      PROVE  /\ e \in E /\ e.admin \in accounts /\ e.admin \in Addresses
             /\ \A z \in Sh[e] :
                  /\ z.token \in Tokens /\ Wanted(r, z.token)
                  /\ z.shown.minted = balance[e.admin][z.token].minted
                  /\ z.shown.retired = IF z.shown.minted # 0 THEN RetiredEver(balance, z.token) ELSE 0
             /\ \A y, z \in Sh[e] : y.token = z.token => y = z
             /\ \A k \in Tokens : Wanted(r, k) /\ balance[e.admin][k].minted # 0 =>
                  \E z \in Sh[e] : z.token = k
  <2>1. e \in E /\ e.admin # NoAccount /\ e.admin \in accounts BY <1>a
  <2>2. e.admin \in Addresses /\ Known(r, e.admin) BY <2>1, <1>2 DEF Known
  <2>3. Totals!SeenBy(r, e.admin) = balance BY <2>1 DEF accounts
  <2>4. Sh[e] = Totals!Shown(r, e.admin) BY <2>1 DEF ShownBy
  <2> HIDE DEF E, Sh
  <2> QED BY <2>1, <2>2, <2>3, <2>4, ShownOfAccount
<1>6. \A y \in A : \E e \in with : \E z \in Sh[e] : y = [entity |-> e.id, is |-> z]
  BY <1>4, <1>a DEF AllOf
<1>7. \A e \in with : \A z \in Sh[e] : [entity |-> e.id, is |-> z] \in A
  BY <1>a DEF AllOf
<1>8. answers[r] = {FromAll(A, m) : m \in {y.is.token.name : y \in A}} BY AmountsAnswered
<1>9. x.retired = SumFunction(f) /\ \E y \in A : y.is.token.name = n
  <2>1. PICK m \in {y.is.token.name : y \in A} : x = FromAll(A, m)
    <3> HIDE DEF A
    <3> QED BY <1>8
  <2>2. m = n BY <2>1 DEF FromAll
  <2>3. x.retired = SumFunction(f)
    <3> HIDE DEF A
    <3> QED BY <2>1, <2>2 DEF FromAll
  <2> QED BY <2>1, <2>2, <2>3
<1>10. IsFiniteSet(H)
  <2>1. IsFiniteSet(A) BY <1>1, AllOfFinite
  <2> HIDE DEF A
  <2> QED BY <2>1, FS_Subset
<1>11. \A k \in Tokens : k.name = n => Wanted(r, k)
  <2>1. PICK y \in A : y.is.token.name = n BY <1>9
  <2>2. PICK e \in with : \E z \in Sh[e] : y = [entity |-> e.id, is |-> z] BY <1>6
  <2>3. PICK z \in Sh[e] : y = [entity |-> e.id, is |-> z] BY <2>2
  <2>4. Wanted(r, z.token) /\ z.token.name = n BY <2>1, <2>3, <1>5
  <2> QED BY <2>4 DEF Wanted
<1>12. with \in SUBSET E BY <1>a
<1> HIDE DEF E, Sh
<1>13. \A d, e \in with : d.admin = e.admin => d = e
  <2> DEFINE h == [e \in with |-> e.admin]
  <2>1. IsFiniteSet(with) BY <1>1, <1>12, FS_Subset
  <2>2. Cardinality({h[e] : e \in with}) = Cardinality(with)
    <3>1. {h[e] : e \in with} = accounts BY <1>a
    <3> QED BY <3>1 DEF with, accounts
  <2>3. \A e \in with : h[e] = e.admin OBVIOUS
  <2> HIDE DEF h
  <2>4. \A d, e \in with : h[d] = h[e] => d = e BY <2>1, <2>2, InjectiveOnto
  <2> QED BY <2>3, <2>4
<1>14. IsFiniteSet(accounts)
  <2> DEFINE h == [e \in with |-> e.admin]
  <2>1. IsFiniteSet(with) BY <1>1, <1>12, FS_Subset
  <2>2. {h[e] : e \in with} = accounts BY <1>a
  <2> HIDE DEF h
  <2>3. IsFiniteSet({h[e] : e \in with}) BY <2>1, ImageFinite
  <2> QED BY <2>2, <2>3
<1> HIDE DEF A
<1>15. ASSUME NEW y \in H
       PROVE  /\ f[y] = y.is.shown.retired /\ f[y] \in Nat /\ b[y] = y.is.token
              /\ y \notin C => f[y] = 0
              /\ y \in C => b[y] \in M /\ g[b[y]] = f[y]
  <2>1. PICK e \in with : \E z \in Sh[e] : y = [entity |-> e.id, is |-> z] BY <1>6
  <2>2. PICK z \in Sh[e] : y = [entity |-> e.id, is |-> z] BY <2>1
  <2>3. /\ z.token \in Tokens /\ z.token.name = n /\ y.is = z
        /\ z.shown.minted = balance[e.admin][z.token].minted
        /\ z.shown.retired = IF z.shown.minted # 0 THEN RetiredEver(balance, z.token) ELSE 0
        /\ e.admin \in accounts
    BY <2>2, <1>5
  <2>4. z.shown.minted # 0 => MintersOf(r, z.token) # {} BY <2>3, <1>b
  <2>5. RetiredEver(balance, z.token) \in Nat BY <2>3, <1>3, RetiredEverCovers
  <2> QED BY <2>3, <2>4, <2>5
<1>16. ASSUME NEW y \in C, NEW z \in C, b[y] = b[z] PROVE y = z
  <2>1. PICK d \in with : \E v \in Sh[d] : y = [entity |-> d.id, is |-> v] BY <1>6
  <2>2. PICK v \in Sh[d] : y = [entity |-> d.id, is |-> v] BY <2>1
  <2>3. PICK e \in with : \E w \in Sh[e] : z = [entity |-> e.id, is |-> w] BY <1>6
  <2>4. PICK w \in Sh[e] : z = [entity |-> e.id, is |-> w] BY <2>3
  <2>5. v.token = w.token /\ v.token \in Tokens /\ v.token.name = n
        /\ v.shown.minted # 0 /\ w.shown.minted # 0
    BY <2>2, <2>4, <1>5, <1>16
  <2>6. d.admin \in MintersOf(r, v.token) /\ e.admin \in MintersOf(r, v.token) BY <2>5, <1>5, <1>b
  <2>7. IsFiniteSet(MintersOf(r, v.token)) BY <1>14, <1>b, FS_Subset
  <2>8. d.admin = e.admin BY <2>5, <2>6, <2>7, AtMostOne
  <2>9. d = e BY <2>8, <1>13
  <2>10. v = w BY <2>5, <2>9, <1>5
  <2> QED BY <2>2, <2>4, <2>9, <2>10
<1>17. ASSUME NEW k \in M PROVE \E y \in C : k = b[y]
  <2>1. PICK a \in accounts : balance[a][k].minted # 0 BY <1>b
  <2>2. PICK e \in with : e.admin = a BY <1>a
  <2>3. PICK z \in Sh[e] : z.token = k BY <2>1, <2>2, <1>5, <1>11
  <2> DEFINE y == [entity |-> e.id, is |-> z]
  <2>4. y \in A /\ y.is = z BY <1>7
  <2>5. z.shown.minted = balance[a][k].minted /\ k.name = n BY <2>2, <2>3, <1>5
  <2> HIDE DEF y
  <2>6. y \in C /\ b[y] = k BY <2>1, <2>3, <2>4, <2>5
  <2> QED BY <2>6
<1>18. C \in SUBSET H /\ DOMAIN f = H /\ DOMAIN g = M OBVIOUS
<1> HIDE DEF f, g, b, H, C, M
<1>19. SumFunction(g) = SumFunction(f)
  <2>1. (\A y \in H : f[y] \in Nat) /\ (\A y \in H \ C : f[y] = 0) BY <1>15
  <2>2. \A y \in C : b[y] \in DOMAIN g /\ g[b[y]] = f[y] BY <1>15, <1>18
  <2>3. \A k \in DOMAIN g : \E y \in C : k = b[y] BY <1>17, <1>18
  <2>4. \A y, z \in C : b[y] = b[z] => y = z BY <1>16
  <2>5. C \in SUBSET H /\ DOMAIN f = H BY <1>18
  <2>6. Reindexes(f, H, C, b, g) BY <1>10, <2>1, <2>2, <2>3, <2>4, <2>5 DEF Reindexes
  <2> QED BY <2>6, SumReindexes
<1> QED BY <1>9, <1>19 DEF g, M

(* Cardinality, as TokenTotals takes it in, is Cardinality. *)
LEMMA TotalsCardinality == \A S : Totals!Cardinality(S) = Cardinality(S)
BY DEF Totals!Cardinality, Cardinality

(* In an answered batch retirements are counted once. *)
LEMMA RetirementsHold ==
  ASSUME TotalsInv
  PROVE  Totals!RetirementsCountedOnce
<1> DEFINE named(n) == {k \in Tokens : k.name = n}
           all(r, x) == Totals!SumFunction([k \in {l \in named(x.name) : MintersOf(r, l) # {}} |->
                                              Totals!RetiredEver(balance, k)])
<1>1. (outcome = "answered" /\ field = "amounts" =>
         \A r \in batch :
           /\ r.allRetired /\ \A a \in AccountsOf(r) : Totals!SeenBy(r, a) = balance
           /\ Cardinality(AccountsOf(r)) = Cardinality(WithAccount(r))
           => \A x \in answers[r] :
                (\A k \in named(x.name) : Cardinality(MintersOf(r, k)) =< 1) => x.retired = all(r, x))
      => Totals!RetirementsCountedOnce
  BY TotalsCardinality DEF Totals!RetirementsCountedOnce, WithAccount, AccountsOf, MintersOf
<1> SUFFICES ASSUME outcome = "answered", field = "amounts", NEW r \in batch,
                    r.allRetired, \A a \in AccountsOf(r) : Totals!SeenBy(r, a) = balance,
                    Cardinality(AccountsOf(r)) = Cardinality(WithAccount(r)),
                    NEW x \in answers[r],
                    \A k \in named(x.name) : Cardinality(MintersOf(r, k)) =< 1
             PROVE  x.retired = all(r, x)
  <2> HIDE DEF named, all
  <2> QED BY <1>1
<1>2. \A k \in Tokens : k.name = x.name => Cardinality(MintersOf(r, k)) =< 1 OBVIOUS
<1>3. {l \in named(x.name) : MintersOf(r, l) # {}} = {l \in Tokens : l.name = x.name /\ MintersOf(r, l) # {}}
  OBVIOUS
<1>4. x.retired = SumFunction([k \in {l \in Tokens : l.name = x.name /\ MintersOf(r, l) # {}} |->
                                 RetiredEver(balance, k)])
  BY <1>2, CountedOnce
<1> QED BY <1>3, <1>4, TotalsOperators

(***************************************************************************)
(* token.ts:113-118, :411-413: with allEntityRetired, every retirement of  *)
(* the tokens of a name is in the amounts of a collection exactly once,    *)
(* however many entities, accounts, holders and tokens there are, as long  *)
(* as no two entities share an account and no token has two minters.       *)
(***************************************************************************)
THEOREM RetirementsCountedOnceAlways == Spec => []RetirementsCountedOnce
<1>1. (~ detail => TotalsInv) => RetirementsCountedOnce
  BY RetirementsHold DEF RetirementsCountedOnce
<1> QED BY <1>1, TotalsInvAlways, PTL

=============================================================================
