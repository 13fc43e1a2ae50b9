------------------------- MODULE RequestFormatProofs --------------------------
(***************************************************************************)
(* What RequestFormat's run checks for some thousands of texts, proved for *)
(* every text that the child has room for: at most 15 tokens, with any     *)
(* number of blanks between them.  Of what the child does with more tokens *)
(* nothing is said; no such text comes to be parsed in the model.          *)
(*                                                                         *)
(* Only counting is needed.  The token counts of the prefixes of a text    *)
(* rise by at most one at each field, so strtok finds the tokens 1, 2, ... *)
(* in their order; and where the field at position n is token n, the n     *)
(* fields up to there hold n tokens, so none of them is blank.             *)
(***************************************************************************)
EXTENDS RequestFormat, TLAPS, FiniteSetTheorems, NaturalsInduction,
        WellFoundedInduction

(* How many tokens are among the first n fields of s.                      *)
Count(s, n) == Cardinality({j \in 1 .. n : s[j] # Blank})

-----------------------------------------------------------------------------
(* Counting tokens.                                                        *)

LEMMA Smallest ==
  ASSUME NEW T \in SUBSET Nat, T # {}
  PROVE  \E n \in T : \A m \in T : n <= m
<1>1. PICK n \in T : \A m \in T : ~(<<m, n>> \in OpToRel(<, Nat))
  BY WFMin, NatLessThanWellFounded
<1>2. \A m \in T : ~(m < n)
  BY <1>1 DEF OpToRel
<1> QED
  BY <1>2

LEMMA CountType ==
  ASSUME NEW s, NEW n \in Nat
  PROVE  /\ IsFiniteSet({j \in 1 .. n : s[j] # Blank})
         /\ Count(s, n) \in Nat /\ Count(s, n) <= n
<1> DEFINE P == {j \in 1 .. n : s[j] # Blank}
<1>1. IsFiniteSet(1 .. n) /\ Cardinality(1 .. n) = n
  BY FS_Interval
<1>2. P \in SUBSET (1 .. n)
  OBVIOUS
<1> HIDE DEF P
<1>3. IsFiniteSet(P) /\ Cardinality(P) <= n
  BY <1>1, <1>2, FS_Subset
<1>4. Cardinality(P) \in Nat
  BY <1>3, FS_CardinalityType
<1> QED
  BY <1>3, <1>4 DEF P, Count

LEMMA CountStep ==
  ASSUME NEW s, NEW n \in Nat
  PROVE  /\ Count(s, 0) = 0
         /\ Count(s, n + 1)
              = IF s[n + 1] # Blank THEN Count(s, n) + 1 ELSE Count(s, n)
<1> DEFINE P == {j \in 1 .. n : s[j] # Blank}
           Q == {j \in 1 .. n + 1 : s[j] # Blank}
<1>1. Count(s, 0) = 0
  <2>1. {j \in 1 .. 0 : s[j] # Blank} = {}
    OBVIOUS
  <2> QED
    BY <2>1, FS_EmptySet DEF Count
<1>2. CASE s[n + 1] # Blank
  <2>1. Q = P \union {n + 1} /\ n + 1 \notin P
    BY <1>2
  <2>2. IsFiniteSet(P)
    BY CountType
  <2> HIDE DEF P, Q
  <2>3. Cardinality(Q) = Cardinality(P) + 1
    BY <2>1, <2>2, FS_AddElement
  <2> QED
    BY <1>1, <1>2, <2>3 DEF P, Q, Count
<1>3. CASE s[n + 1] = Blank
  <2>1. Q = P
    BY <1>3
  <2> QED
    BY <1>1, <1>3, <2>1 DEF Count
<1> QED
  BY <1>2, <1>3

(* If there are at least k > 0 tokens among the first n fields, one of     *)
(* these fields is where the count reaches k.                              *)
LEMMA CountReaches ==
  ASSUME NEW s, NEW n \in Nat, NEW k \in Nat, k > 0, k <= Count(s, n)
  PROVE  \E i \in 1 .. n : s[i] # Blank /\ Count(s, i) = k
<1> DEFINE T == {m \in Nat : m <= n /\ k <= Count(s, m)}
<1>1. T \in SUBSET Nat /\ T # {}
  OBVIOUS
<1> HIDE DEF T
<1>2. PICK i \in T : \A m \in T : i <= m
  BY <1>1, Smallest
<1>3. i \in Nat /\ i <= n /\ k <= Count(s, i)
  BY <1>2 DEF T
<1>4. i # 0
  BY <1>3, CountStep
<1>5. PICK m \in Nat : i = m + 1
  <2>1. i - 1 \in Nat /\ i = (i - 1) + 1
    BY <1>3, <1>4
  <2> QED
    BY <2>1
<1>6. m \notin T
  BY <1>2, <1>5
<1>7. ~(k <= Count(s, m))
  BY <1>3, <1>5, <1>6 DEF T
<1>8. Count(s, m) \in Nat
  BY CountType
<1>9. s[i] # Blank /\ Count(s, i) = k
  BY <1>3, <1>5, <1>7, <1>8, CountStep
<1> QED
  BY <1>3, <1>4, <1>9

(* If there are n tokens among the first n fields, each field is one.      *)
LEMMA CountFull ==
  ASSUME NEW s, NEW n \in Nat, Count(s, n) = n
  PROVE  \A i \in 1 .. n : s[i] # Blank /\ Count(s, i) = i
<1>1. \A i \in 1 .. n : s[i] # Blank
  <2> DEFINE P == {j \in 1 .. n : s[j] # Blank}
  <2>1. IsFiniteSet(1 .. n) /\ Cardinality(1 .. n) = n
    BY FS_Interval
  <2>2. P \in SUBSET (1 .. n) /\ Cardinality(P) = n
    BY DEF Count
  <2> HIDE DEF P
  <2>3. 1 .. n = P
    BY <2>1, <2>2, FS_Subset
  <2> QED
    BY <2>3 DEF P
<1>2. ASSUME NEW i \in 1 .. n
      PROVE  Count(s, i) = i
  <2>1. {j \in 1 .. i : s[j] # Blank} = 1 .. i
    BY <1>1
  <2>2. Cardinality(1 .. i) = i
    BY FS_Interval
  <2> QED
    BY <2>1, <2>2 DEF Count
<1> QED
  BY <1>1, <1>2

-----------------------------------------------------------------------------
(* Texts.                                                                  *)

LEMMA TokensCount ==
  ASSUME NEW s \in Seq(Nat)
  PROVE  /\ Len(s) \in Nat /\ DOMAIN s = 1 .. Len(s)
         /\ IsFiniteSet(Tokens(s))
         /\ Cardinality(Tokens(s)) = Count(s, Len(s))
         /\ Cardinality(Tokens(s)) \in Nat
         /\ \A i \in DOMAIN s :
              Cardinality({j \in Tokens(s) : j <= i}) = Count(s, i)
<1>1. Len(s) \in Nat /\ DOMAIN s = 1 .. Len(s)
  OBVIOUS
<1>2. Tokens(s) = {j \in 1 .. Len(s) : s[j] # Blank}
  BY <1>1 DEF Tokens
<1>3. \A i \in DOMAIN s :
        {j \in Tokens(s) : j <= i} = {j \in 1 .. i : s[j] # Blank}
  BY <1>1, <1>2
<1> QED
  BY <1>1, <1>2, <1>3, CountType DEF Count

(* strtok finds the tokens in their order.                                 *)
LEMMA StrtokInOrder ==
  ASSUME NEW s \in Seq(Nat), Numbered(s)
  PROVE  strtok(s) = [k \in 1 .. Cardinality(Tokens(s)) |-> k]
<1> DEFINE keep == Tokens(s)
           c == Cardinality(keep)
           nth == [k \in 1 .. c |->
                     CHOOSE i \in keep :
                       Cardinality({j \in keep : j <= i}) = k]
<1>1. strtok(s) = [k \in DOMAIN nth |-> s[nth[k]]]
  BY DEF strtok, Kept
<1>2. ASSUME NEW k \in 1 .. c
      PROVE  s[nth[k]] = k
  <2>1. k \in Nat /\ k > 0 /\ k <= Count(s, Len(s)) /\ Len(s) \in Nat
    BY TokensCount
  <2>2. PICK i \in 1 .. Len(s) : s[i] # Blank /\ Count(s, i) = k
    BY <2>1, CountReaches
  <2>3. i \in keep /\ Cardinality({j \in keep : j <= i}) = k
    BY <2>2, TokensCount DEF Tokens
  <2>4. /\ nth[k] \in keep
        /\ Cardinality({j \in keep : j <= nth[k]}) = k
    BY <2>3
  <2> HIDE DEF nth
  <2>5. Count(s, nth[k]) = k /\ s[nth[k]] # Blank /\ nth[k] \in DOMAIN s
    BY <2>4, TokensCount DEF Tokens
  <2> QED
    BY <2>5 DEF Numbered, Count
<1> QED
  BY <1>1, <1>2

(* The field at position n is token n exactly if nothing but the tokens up *)
(* to n is there before it.                                                *)
LEMMA PlainBefore ==
  ASSUME NEW s \in Seq(Nat), Numbered(s), NEW n \in Nat, n > 0
  PROVE  /\ PlainUpTo(s, n) <=> n \in DOMAIN s /\ s[n] = n
         /\ PlainUpTo(s, n) => \A i \in 1 .. n : i \in DOMAIN s /\ s[i] = i
<1>1. Len(s) \in Nat /\ DOMAIN s = 1 .. Len(s)
  OBVIOUS
<1>2. ASSUME PlainUpTo(s, n), NEW i \in 1 .. n
      PROVE  i \in DOMAIN s /\ s[i] = i
  <2>1. n <= Len(s) /\ SubSeq(s, 1, n) = [k \in 1 .. n |-> k]
    BY <1>1, <1>2 DEF PlainUpTo, Request
  <2>2. SubSeq(s, 1, n)[i] = s[i]
    BY <1>1, <2>1
  <2> QED
    BY <1>1, <2>1, <2>2
<1>3. ASSUME n \in DOMAIN s, s[n] = n
      PROVE  PlainUpTo(s, n)
  <2>1. s[n] # Blank
    BY <1>3 DEF Blank
  <2>2. Count(s, n) = n
    BY <1>3, <2>1 DEF Numbered, Count
  <2>3. \A i \in 1 .. n : s[i] # Blank /\ Count(s, i) = i
    BY <2>2, CountFull
  <2>4. ASSUME NEW i \in 1 .. n PROVE s[i] = i
    <3>1. i \in DOMAIN s
      BY <1>1, <1>3
    <3>2. s[i] # Blank /\ Count(s, i) = i
      BY <2>3
    <3> QED
      BY <3>1, <3>2 DEF Numbered, Count
  <2>5. SubSeq(s, 1, n) = [k \in 1 .. n |-> k]
    BY <1>1, <1>3, <2>4
  <2> QED
    BY <1>1, <1>3, <2>5 DEF PlainUpTo, Request
<1>4. n \in 1 .. n
  OBVIOUS
<1> QED
  BY <1>2, <1>3, <1>4

(* What a setup looks like when it is put together again.                  *)
LEMMA RejoinedFields ==
  ASSUME NEW s \in Seq(Nat), Numbered(s), Cardinality(Tokens(s)) >= 10
  PROVE  \A k \in (1 .. 10) \ {7, 10} :
           k \in DOMAIN Rejoined(s) /\ Rejoined(s)[k] = k
<1> DEFINE c == Cardinality(Tokens(s))
           q == [k \in 1 .. c |-> IF k \in DOMAIN Learned THEN Learned[k] ELSE k]
<1>1. c \in Nat
  BY TokensCount
<1>2. Rejoined(s) = Append(q, Blank)
  BY StrtokInOrder DEF Rejoined
<1> HIDE DEF c
<1>3. Append(q, Blank) = [k \in 1 .. c + 1 |-> IF k = c + 1 THEN Blank ELSE q[k]]
  BY <1>1
<1>4. ASSUME NEW k \in (1 .. 10) \ {7, 10}
      PROVE  k \in DOMAIN Rejoined(s) /\ Rejoined(s)[k] = k
  <2>1. k \in 1 .. c /\ k \in 1 .. c + 1 /\ k # c + 1
    BY <1>1 DEF c
  <2>2. q[k] = k
    BY <2>1, FormatAssumption
  <2> HIDE DEF q
  <2> QED
    BY <1>2, <1>3, <2>1, <2>2
<1> QED
  BY <1>4

(* The keys of a setup, whatever ports were learned.                       *)
LEMMA KeysAre ==
  ASSUME NEW s, \A k \in {3, 6, 8, 9} : k \in DOMAIN s /\ s[k] = k
  PROVE  Keys(s) = [key_s1 |-> <<6, 8>>, key_s2 |-> <<3, 9>>]
BY DEF Keys, Field

LEMMA RequestIs ==
  ASSUME NEW n \in Nat, n >= 10
  PROVE  /\ Request(n) \in Seq(Nat) /\ Numbered(Request(n))
         /\ Cardinality(Tokens(Request(n))) = n
         /\ Keys(Request(n)) = [key_s1 |-> <<6, 8>>, key_s2 |-> <<3, 9>>]
<1>1. /\ Request(n) \in Seq(Nat) /\ DOMAIN Request(n) = 1 .. n
      /\ \A k \in 1 .. n : Request(n)[k] = k
  BY DEF Request
<1>2. \A i \in Nat : Cardinality(1 .. i) = i
  BY FS_Interval
<1>3. ASSUME NEW i \in 1 .. n
      PROVE  Cardinality({j \in 1 .. i : Request(n)[j] # Blank}) = i
  <2>1. {j \in 1 .. i : Request(n)[j] # Blank} = 1 .. i
    BY <1>1 DEF Blank
  <2>2. Cardinality(1 .. i) = i
    BY <1>2
  <2> QED
    BY <2>1, <2>2, Zenon
<1>4. Tokens(Request(n)) = 1 .. n
  BY <1>1 DEF Tokens, Blank
<1>5. Keys(Request(n)) = [key_s1 |-> <<6, 8>>, key_s2 |-> <<3, 9>>]
  BY <1>1, KeysAre
<1>6. Numbered(Request(n))
  BY <1>1, <1>3 DEF Numbered
<1> QED
  BY <1>1, <1>2, <1>4, <1>5, <1>6

LEMMA RequestTwelve ==
  /\ Request(12) \in Seq(Nat) /\ Numbered(Request(12))
  /\ Cardinality(Tokens(Request(12))) >= 10
  /\ Keys(Request(12)) = [key_s1 |-> <<6, 8>>, key_s2 |-> <<3, 9>>]
<1> DEFINE n == 12
<1>1. n \in Nat /\ n >= 10
  OBVIOUS
<1> HIDE DEF n
<1>2. /\ Request(n) \in Seq(Nat) /\ Numbered(Request(n))
      /\ Cardinality(Tokens(Request(n))) = n
      /\ Keys(Request(n)) = [key_s1 |-> <<6, 8>>, key_s2 |-> <<3, 9>>]
  BY <1>1, RequestIs
<1>3. Cardinality(Tokens(Request(n))) >= 10
  BY <1>1, <1>2
<1> QED
  BY <1>2, <1>3 DEF n

LEMMA SetupKeysAre == SetupKeys = [key_s1 |-> <<6, 8>>, key_s2 |-> <<3, 9>>]
<1>1. \A k \in {3, 6, 8, 9} :
        /\ k \in DOMAIN Rejoined(Request(12))
        /\ Rejoined(Request(12))[k] = k
  BY RequestTwelve, RejoinedFields
<1> QED
  BY <1>1, KeysAre DEF SetupKeys, strsep

-----------------------------------------------------------------------------
(* What has become of a request at each stage.                             *)

FormatInv ==
  /\ original \in Text /\ command \in Command
  /\ stage \in {"datagram", "queued", "rejected", "raised", "relayed"} =>
       text = original
  /\ stage \in {"kernel", "parsed"} =>
       /\ Cardinality(Tokens(original)) <= 15
       /\ command = "D" => text = original
       /\ command = "S" => /\ Cardinality(Tokens(original)) >= 10
                           /\ text = Rejoined(original)
  /\ stage = "parsed" =>
       parsed = [teardown |-> Field(text, 1) = 2 /\ command = "D",
                 key_s1 |-> Keys(text).key_s1, key_s2 |-> Keys(text).key_s2]

LEMMA FormatInvariant == Spec => []FormatInv
<1>1. Init => FormatInv
  BY DEF Init, FormatInv
<1>2. FormatInv /\ [Next]_vars => FormatInv'
  <2> SUFFICES ASSUME FormatInv, [Next]_vars PROVE FormatInv'
    OBVIOUS
  <2>1. CASE Receive
    BY <2>1 DEF Receive, FormatInv
  <2>2. CASE SendOn
    BY <2>2 DEF SendOn, FormatInv
  <2>3. CASE Relay
    BY <2>3 DEF Relay, Readable, FormatInv, Command
  <2>4. CASE Parse
    BY <2>4 DEF Parse, FormatInv, strsep
  <2>5. CASE UNCHANGED vars
    BY <2>5 DEF vars, FormatInv
  <2> QED
    BY <2>1, <2>2, <2>3, <2>4, <2>5 DEF Next
<1> QED
  BY <1>1, <1>2, PTL DEF Spec

-----------------------------------------------------------------------------
(* The theorems.                                                           *)

(* Whatever blanks the server lets pass between the tokens of a setup, and *)
(* whatever ports its child learns, the kernel module reads it as meant,   *)
(* if it has no more tokens than the child has room for.                   *)
THEOREM SetupsReadAsMeant == Spec => []SetupAsMeant
<1>1. FormatInv => SetupAsMeant
  <2> SUFFICES ASSUME FormatInv, stage = "parsed", command = "S"
               PROVE  /\ ~parsed.teardown
                      /\ parsed.key_s1 = Keys(Request(12)).key_s1
                      /\ parsed.key_s2 = Keys(Request(12)).key_s2
    BY DEF SetupAsMeant
  <2>1. /\ original \in Seq(Nat) /\ Numbered(original)
        /\ Cardinality(Tokens(original)) >= 10
        /\ text = Rejoined(original)
    BY FormatAssumption DEF FormatInv
  <2>2. \A k \in {3, 6, 8, 9} : k \in DOMAIN text /\ text[k] = k
    BY <2>1, RejoinedFields
  <2>3. Keys(text) = Keys(Request(12))
    BY <2>2, KeysAre, RequestTwelve
  <2>4. parsed = [teardown |-> Field(text, 1) = 2 /\ command = "D",
                  key_s1 |-> Keys(text).key_s1, key_s2 |-> Keys(text).key_s2]
    BY DEF FormatInv
  <2> QED
    BY <2>3, <2>4
<1> QED
  BY <1>1, FormatInvariant, PTL

(* A teardown finds its setup exactly if no blank is doubled before the    *)
(* last token of its keys, for every text that the child has room for.     *)
THEOREM TeardownsFindSetups == Spec => []TeardownFindsSetup
<1>1. FormatInv => TeardownFindsSetup
  <2> SUFFICES ASSUME FormatInv, stage = "parsed", command = "D"
               PROVE  /\ parsed.teardown <=> PlainUpTo(original, 2)
                      /\ (/\ parsed.teardown
                          /\ parsed.key_s1 = SetupKeys.key_s1
                          /\ parsed.key_s2 = SetupKeys.key_s2)
                         <=> PlainUpTo(original, 9)
    BY DEF TeardownFindsSetup
  <2>1. original \in Seq(Nat) /\ Numbered(original) /\ text = original
    BY FormatAssumption DEF FormatInv
  <2>2. /\ parsed.teardown <=> Field(original, 1) = 2
        /\ parsed.key_s1 = <<Field(original, 5), Field(original, 7)>>
        /\ parsed.key_s2 = <<Field(original, 2), Field(original, 8)>>
    <3>1. parsed = [teardown |-> Field(text, 1) = 2 /\ command = "D",
                    key_s1 |-> Keys(text).key_s1, key_s2 |-> Keys(text).key_s2]
      BY DEF FormatInv
    <3> QED
      BY <2>1, <3>1 DEF Keys
  <2>3. \A n \in Nat : Field(original, n) = n + 1
                         <=> n + 1 \in DOMAIN original /\ original[n + 1] = n + 1
    BY DEF Field, Blank
  <2>4. \A n \in Nat \ {0} :
          /\ PlainUpTo(original, n) <=> n \in DOMAIN original /\ original[n] = n
          /\ PlainUpTo(original, n) =>
               \A i \in 1 .. n : i \in DOMAIN original /\ original[i] = i
    BY <2>1, PlainBefore
  <2>5. parsed.teardown <=> PlainUpTo(original, 2)
    <3>1. Field(original, 1) = 2 <=> 2 \in DOMAIN original /\ original[2] = 2
      BY <2>3
    <3> QED
      BY <2>2, <2>4, <3>1
  <2>6. ASSUME PlainUpTo(original, 9)
        PROVE  /\ parsed.teardown
               /\ parsed.key_s1 = <<6, 8>> /\ parsed.key_s2 = <<3, 9>>
    <3>1. \A i \in 1 .. 9 : i \in DOMAIN original /\ original[i] = i
      BY <2>4, <2>6
    <3>2. /\ Field(original, 1) = 2 /\ Field(original, 5) = 6
          /\ Field(original, 7) = 8 /\ Field(original, 2) = 3
          /\ Field(original, 8) = 9
      BY <3>1 DEF Field
    <3> QED
      BY <2>2, <3>2
  <2>7. ASSUME parsed.key_s2 = <<3, 9>>
        PROVE  PlainUpTo(original, 9)
    <3>1. Field(original, 8) = 9
      BY <2>2, <2>7
    <3>2. 9 \in DOMAIN original /\ original[9] = 9
      BY <2>3, <3>1
    <3> QED
      BY <2>4, <3>2
  <2> QED
    BY <2>5, <2>6, <2>7, SetupKeysAre
<1> QED
  BY <1>1, FormatInvariant, PTL
=============================================================================
