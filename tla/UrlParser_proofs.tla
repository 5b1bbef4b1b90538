-------------------------- MODULE UrlParser_proofs --------------------------
(***************************************************************************)
(* Proofs about UrlParser: types, ParamsFollowSeparators, FormRoundTrip,   *)
(* for texts and forms of any length.                                      *)
(*                                                                         *)
(* ParamsFollowSeparators speaks of a parser that has returned.  LoopInv   *)
(* says what it has done before: between two fields it stands on the end   *)
(* of one, and the parameters are those of the separators behind it; in a  *)
(* field it has the name in front of the separator; in percent_decode it   *)
(* has written the bytes of the places it has passed, and at most one      *)
(* escape is open (Taken).                                                 *)
(*                                                                         *)
(* FormRoundTrip follows from it and from what the text of a form looks    *)
(* like (FormInv, which AddField keeps): its separators are the '=' behind *)
(* the names, since names and escaped values have none; each value behind  *)
(* one has complete escapes, and only the value that was escaped has the   *)
(* bytes of their places (EscapedValueIs).                                 *)
(***************************************************************************)
EXTENDS UrlParser, TLAPS, FiniteSetTheorems, SequenceTheorems, WellFoundedInduction

(* A set of natural numbers has a least member.                             *)
LEMMA LeastExists ==
  ASSUME NEW S \in SUBSET Nat, S # {}
  PROVE  \E x \in S : \A y \in S : x <= y
<1>1. PICK x \in S : \A y \in S : ~(<<y, x>> \in OpToRel(<, Nat))
  BY WFMin, NatLessThanWellFounded
<1>2. ASSUME NEW y \in S, y < x
      PROVE  FALSE
  <2>1. <<y, x>> \in Nat \X Nat /\ <<y, x>>[1] < <<y, x>>[2]
    BY <1>2
  <2> QED
    BY <1>1, <2>1 DEF OpToRel
<1>3. \A y \in S : x \in Nat /\ y \in Nat /\ (x <= y \/ y < x)
  OBVIOUS
<1> QED
  BY <1>2, <1>3

(* find_first_of. *)
LEMMA FindIs ==
  ASSUME NEW c, NEW p \in Nat, Len(url_) \in Nat
  PROVE  /\ Find(c, p) = 0 <=> \A i \in p + 1 .. Len(url_) : url_[i] # c
         /\ Find(c, p) # 0 =>
              /\ Find(c, p) \in p + 1 .. Len(url_) /\ url_[Find(c, p)] = c
              /\ \A i \in p + 1 .. Find(c, p) - 1 : url_[i] # c
<1> DEFINE I == {i \in p + 1 .. Len(url_) : url_[i] = c}
<1>1. Find(c, p) = IF I # {} THEN Min(I) ELSE 0
  BY DEF Find, SelectInSubSeq
<1>2. CASE I = {}
  BY <1>1, <1>2
<1>3. CASE I # {}
  <2>1. I \in SUBSET Nat
    OBVIOUS
  <2>2. PICK x \in I : \A y \in I : x <= y
    <3> HIDE DEF I
    <3> QED
      BY <1>3, <2>1, LeastExists
  <2>3. Min(I) \in I /\ \A y \in I : Min(I) <= y
    <3> HIDE DEF I
    <3> QED
      BY <2>2 DEF Min
  <2>4. Find(c, p) \in I /\ \A y \in I : Find(c, p) <= y
    BY <1>1, <1>3, <2>3
  <2> QED
    BY <2>4
<1> QED
  BY <1>2, <1>3

(* A flattened sequence is the last of its beginnings, which grow by one    *)
(* member each.                                                             *)
LEMMA FlattenSteps ==
  ASSUME NEW T, NEW s \in Seq(Seq(T))
  PROVE  \E f \in [0 .. Len(s) -> Seq(T)] :
           /\ f[0] = <<>> /\ f[Len(s)] = FlattenSeq(s)
           /\ \A i \in 1 .. Len(s) : f[i] = f[i - 1] \o s[i]
<1> DEFINE n == Len(s)
           Steps(k, f) == f = [i \in 1 .. k |-> IF i = 1 THEN s[i] ELSE f[i - 1] \o s[i]]
<1>1. n \in Nat /\ \A i \in 1 .. n : s[i] \in Seq(T)
  OBVIOUS
<1>2. \A k \in 0 .. n : \E f : Steps(k, f) /\ f \in [1 .. k -> Seq(T)]
  <2> DEFINE Has(k) == \E f : Steps(k, f) /\ f \in [1 .. k -> Seq(T)]
             S == {k \in 0 .. n : ~Has(k)}
  <2> SUFFICES ASSUME S # {} PROVE FALSE
    <3> HIDE DEF Steps
    <3> QED
      OBVIOUS
  <2>1. S \in SUBSET Nat
    <3> HIDE DEF Has, n
    <3> QED
      BY <1>1
  <2>2. PICK k \in S : \A j \in S : k <= j
    <3> HIDE DEF S
    <3> QED
      BY <2>1, LeastExists
  <2>3. k # 0
    <3>1. Steps(0, <<>>) /\ <<>> \in [1 .. 0 -> Seq(T)]
      OBVIOUS
    <3>2. Has(0)
      <4> HIDE DEF Steps
      <4> QED
        BY <3>1
    <3> HIDE DEF Has
    <3> QED
      BY <3>2, <2>2
  <2>4. k \in 1 .. n /\ k \in Nat /\ k - 1 \in 0 .. n
    BY <1>1, <2>2, <2>3
  <2>5. Has(k - 1)
    <3>1. ~(k <= k - 1)
      BY <2>4
    <3> HIDE DEF Has
    <3> QED
      BY <2>2, <2>4, <3>1
  <2>6. PICK f : Steps(k - 1, f) /\ f \in [1 .. k - 1 -> Seq(T)]
    <3> HIDE DEF Steps
    <3> QED
      BY <2>5
  <2> DEFINE g == [i \in 1 .. k |->
                     IF i = k THEN IF k = 1 THEN s[k] ELSE f[k - 1] \o s[k] ELSE f[i]]
  <2>7. \A i \in 1 .. k : /\ g[i] = IF i = 1 THEN s[i] ELSE g[i - 1] \o s[i]
                          /\ g[i] \in Seq(T)
    <3> TAKE i \in 1 .. k
    <3>1. CASE i = k
      <4>1. k # 1 => k - 1 \in 1 .. k - 1 /\ k - 1 \in 1 .. k /\ k - 1 # k
        BY <2>4
      <4>2. g[k] = IF k = 1 THEN s[k] ELSE f[k - 1] \o s[k]
        BY <2>4
      <4>3. k # 1 => g[k - 1] = f[k - 1] /\ f[k - 1] \in Seq(T)
        BY <2>6, <4>1
      <4>4. s[k] \in Seq(T)
        BY <1>1, <2>4
      <4> HIDE DEF g, n
      <4>5. k # 1 => f[k - 1] \o s[k] \in Seq(T)
        BY <4>3, <4>4
      <4> QED
        BY <3>1, <4>2, <4>3, <4>4, <4>5
    <3>2. CASE i # k
      <4>1. i \in 1 .. k - 1 /\ (i # 1 => i - 1 \in 1 .. k /\ i - 1 # k)
        BY <2>4, <3>2
      <4>2. f[i] = (IF i = 1 THEN s[i] ELSE f[i - 1] \o s[i]) /\ f[i] \in Seq(T)
        BY <2>6, <4>1
      <4> QED
        BY <3>2, <4>1, <4>2
    <3> QED
      BY <3>1, <3>2
  <2>8. Steps(k, g) /\ g \in [1 .. k -> Seq(T)]
    BY <2>7
  <2>9. Has(k)
    <3> HIDE DEF Steps, g
    <3> QED
      BY <2>8
  <2> HIDE DEF Has
  <2> QED
    BY <2>9, <2>2
<1>3. PICK g : Steps(n, g) /\ g \in [1 .. n -> Seq(T)]
        /\ (n # 0 => g[n] = FlattenSeq(s))
  <2>1. n # 0 => FlattenSeq(s) = (CHOOSE f : Steps(n, f))[n]
    BY DEF FlattenSeq
  <2>2. \E f : Steps(n, f) /\ f \in [1 .. n -> Seq(T)]
    <3> HIDE DEF Steps
    <3> QED
      BY <1>1, <1>2
  <2> DEFINE g == CHOOSE f : Steps(n, f)
  <2>3. Steps(n, g)
    <3> HIDE DEF Steps, n
    <3> QED
      BY <2>2
  <2>4. DOMAIN g = 1 .. n
    BY <2>3
  <2>5. \A f : Steps(n, f) /\ f \in [1 .. n -> Seq(T)] => g = f
    <3> SUFFICES ASSUME NEW f, Steps(n, f), f \in [1 .. n -> Seq(T)], g # f
                 PROVE  FALSE
      OBVIOUS
    <3> DEFINE D == {i \in 1 .. n : g[i] # f[i]}
    <3>1. D # {}
      <4>1. DOMAIN f = 1 .. n /\ f = [i \in 1 .. n |-> f[i]]
        OBVIOUS
      <4>2. g = [i \in 1 .. n |-> g[i]]
        BY <2>3, <2>4
      <4> HIDE DEF g, Steps, n
      <4> QED
        BY <4>1, <4>2
    <3>2. PICK i \in D : \A j \in D : i <= j
      <4>1. D \in SUBSET Nat
        <5> HIDE DEF g, Steps, n
        <5> QED
          OBVIOUS
      <4> HIDE DEF D
      <4> QED
        BY <3>1, <4>1, LeastExists
    <3> HIDE DEF g
    <3>3. i # 1 => g[i - 1] = f[i - 1]
      <4>1. i # 1 => i - 1 \in 1 .. n /\ ~(i <= i - 1)
        BY <3>2
      <4> QED
        BY <3>2, <4>1
    <3>4. g[i] = f[i]
      <4>1. g[i] = IF i = 1 THEN s[i] ELSE g[i - 1] \o s[i]
        BY <2>3, <3>2
      <4>2. f[i] = IF i = 1 THEN s[i] ELSE f[i - 1] \o s[i]
        BY <3>2
      <4> QED
        BY <3>3, <4>1, <4>2
    <3> QED
      BY <3>2, <3>4
  <2> HIDE DEF g, Steps
  <2> QED
    BY <2>1, <2>2, <2>3, <2>5 DEF g
<1> DEFINE h == [i \in 0 .. n |-> IF i = 0 THEN <<>> ELSE g[i]]
<1>4. g \in [1 .. n -> Seq(T)]
       /\ \A i \in 1 .. n : g[i] = IF i = 1 THEN s[i] ELSE g[i - 1] \o s[i]
  BY <1>3
<1> HIDE DEF Steps, n
<1>5. h \in [0 .. n -> Seq(T)]
  <2>1. \A i \in 0 .. n : h[i] \in Seq(T)
    <3> TAKE i \in 0 .. n
    <3>1. i # 0 => i \in 1 .. n
      BY <1>1
    <3>2. <<>> \in Seq(T)
      OBVIOUS
    <3> QED
      BY <1>4, <3>1, <3>2
  <2> QED
    BY <2>1
<1>6. \A i \in 1 .. n : h[i] = h[i - 1] \o s[i]
  <2> TAKE i \in 1 .. n
  <2>1. h[i] = g[i] /\ g[i] = (IF i = 1 THEN s[i] ELSE g[i - 1] \o s[i])
          /\ s[i] \in Seq(T)
    <3>1. i \in 0 .. n /\ i # 0
      BY <1>1
    <3> QED
      BY <1>1, <1>4, <3>1
  <2>2. CASE i = 1
    <3>1. h[i - 1] = <<>>
      BY <1>1, <2>2
    <3>2. <<>> \o s[1] = s[1]
      BY <2>1, <2>2, ConcatEmptySeq
    <3> QED
      BY <2>1, <2>2, <3>1, <3>2
  <2>3. CASE i # 1
    <3>1. i - 1 \in 0 .. n /\ i - 1 # 0
      BY <1>1, <2>3
    <3>2. h[i - 1] = g[i - 1]
      BY <3>1
    <3> QED
      BY <2>1, <2>3, <3>2
  <2> QED
    BY <2>2, <2>3
<1>7. h[0] = <<>> /\ h[n] = FlattenSeq(s)
  <2>1. n = 0 => FlattenSeq(s) = <<>>
    BY DEF FlattenSeq, n
  <2>2. h[0] = <<>> /\ h[n] = IF n = 0 THEN <<>> ELSE g[n]
    BY <1>1
  <2> QED
    BY <1>3, <2>1, <2>2
<1> HIDE DEF h
<1> QED
  BY <1>5, <1>6, <1>7 DEF n

-----------------------------------------------------------------------------
(* Types.                                                                   *)
DecoderType ==
  [state : {"General", "FirstDigit", "SecondDigit"}, first : Byte, result : Seq(Byte)]

ParserInv == UrlParserTypeOK /\ fields \in Seq(Fields)

(* Digits have no meaning to parse.                                         *)
LEMMA DigitsTyped ==
  /\ \A c : hex_digit_to_int(c) \in 0 .. 15
  /\ \A c \in HexDigits : c \in Byte /\ c \notin Reserved
BY DEF hex_digit_to_int, HexDigits, Byte, Reserved, Percent, Ampersand, Equals,
   Question, Plus

(* percent_decode yields bytes, escapes of any kind included.               *)
LEMMA DecoderTyped ==
  ASSUME NEW d \in DecoderType, NEW c \in Byte
  PROVE  DecodeChar(d, c) \in DecoderType
<1>1. 16 * hex_digit_to_int(d.first) + hex_digit_to_int(c) \in Byte
  <2>1. \A i, j \in 0 .. 15 : 16 * i + j \in 0 .. 255
    OBVIOUS
  <2> QED
    BY <2>1, DigitsTyped DEF Byte
<1>2. d.first \in Byte /\ d.result \in Seq(Byte) /\ Percent \in Byte /\ 0 \in Byte
  BY DEF DecoderType, Byte, Percent
<1> DEFINE r == 16 * hex_digit_to_int(d.first) + hex_digit_to_int(c)
<1> HIDE DEF r
<1>3. /\ Append(d.result, c) \in Seq(Byte) /\ Append(d.result, r) \in Seq(Byte)
      /\ d.result \o <<Percent, c>> \in Seq(Byte)
      /\ d.result \o <<Percent, d.first, c>> \in Seq(Byte)
  BY <1>1, <1>2 DEF r
<1> QED
  BY <1>2, <1>3 DEF DecodeChar, DecoderType, r

(* Fields are sent as bytes.                                                *)
LEMMA FieldTyped ==
  ASSUME NEW f \in Fields
  PROVE  EncodedField(f) \in Seq(Byte)
<1>1. /\ f.name \in Seq(Byte) /\ f.value \in Seq(Byte) /\ Equals \in Byte
  BY UrlParserAssumption DEF Byte, Equals
<1> DEFINE e == [i \in 1 .. Len(f.value) |-> Escaped(f.value[i], f.style)]
<1>2. \A b \in Byte : b \div 16 \in 0 .. 15 /\ b % 16 \in 0 .. 15
  BY DEF Byte
<1>3. \A n \in 0 .. 15 : LowerDigit(n) \in Byte /\ UpperDigit(n) \in Byte
  BY DEF LowerDigit, UpperDigit, Byte
<1>4. \A b \in Byte : \A style : Escaped(b, style) \in Seq(Byte)
  <2> TAKE b \in Byte
  <2> TAKE style
  <2>1. Percent \in Byte
    BY DEF Byte, Percent
  <2>2. /\ LowerDigit(b \div 16) \in Byte /\ LowerDigit(b % 16) \in Byte
        /\ UpperDigit(b \div 16) \in Byte /\ UpperDigit(b % 16) \in Byte
    BY <1>2, <1>3
  <2> QED
    BY <2>1, <2>2 DEF Escaped
<1>5. e \in Seq(Seq(Byte))
  BY <1>1, <1>4
<1> HIDE DEF e
<1>6. FlattenSeq(e) \in Seq(Byte)
  <2>1. PICK g \in [0 .. Len(e) -> Seq(Byte)] : g[Len(e)] = FlattenSeq(e)
    BY <1>5, FlattenSteps
  <2>2. Len(e) \in 0 .. Len(e)
    BY <1>5
  <2> QED
    BY <2>1, <2>2
<1> QED
  BY <1>1, <1>6 DEF EncodedField, e

(* The parser begins with its types right.                                  *)
LEMMA ParserInit == UrlParserInit => ParserInv
BY DEF UrlParserInit, ParserInv, UrlParserTypeOK, NewDecoder, Byte

(* Every step keeps the types.                                              *)
LEMMA ParserTypeStep == ParserInv /\ [UrlParserNext]_parserVars => ParserInv'
<1> SUFFICES ASSUME ParserInv, [UrlParserNext]_parserVars PROVE ParserInv'
  OBVIOUS
<1>1. /\ url_ \in Seq(Byte) /\ Len(url_) \in Nat /\ fields \in Seq(Fields)
      /\ DOMAIN params_ \subseteq Seq(Byte)
      /\ \A n \in DOMAIN params_ : params_[n] \in Seq(Byte)
      /\ pos \in 0 .. Len(url_) + 1 /\ pos \in Nat
      /\ param_name \in Seq(Byte) /\ param_value \in Seq(Byte)
      /\ decoder \in DecoderType
      /\ where \in {"new", "name", "value", "decode", "done"}
  BY DEF ParserInv, UrlParserTypeOK, DecoderType
<1>2. \A c : Find(c, pos) \in 0 .. Len(url_) /\ Find(c, 0) \in 0 .. Len(url_)
  <2>1. \A p \in Nat : \A c : Find(c, p) \in 0 .. Len(url_)
    <3> TAKE p \in Nat
    <3> TAKE c
    <3>1. Find(c, p) = 0 \/ Find(c, p) \in p + 1 .. Len(url_)
      BY <1>1, FindIs
    <3> QED
      BY <1>1, <3>1
  <2> QED
    BY <1>1, <2>1
<1>3. \A m \in Nat, n \in 0 .. Len(url_) : SubSeq(url_, m + 1, n) \in Seq(Byte)
  <2> TAKE m \in Nat, n \in 0 .. Len(url_)
  <2>1. \A i \in m + 1 .. n : i \in 1 .. Len(url_)
    BY <1>1
  <2>2. \A i \in m + 1 .. n : url_[i] \in Byte
    BY <1>1, <2>1
  <2> QED
    BY <2>2, SubSeqProperties
<1> HIDE DEF ParserInv
<1>4. ASSUME NEW b \in Alphabet, AddByte(b) PROVE ParserInv'
  <2>1. url_' = Append(url_, b) /\ b \in Byte
    BY <1>4, UrlParserAssumption DEF AddByte
  <2>2. url_' \in Seq(Byte) /\ Len(url_') = Len(url_) + 1
    BY <1>1, <2>1
  <2> QED
    BY <1>1, <1>4, <2>2 DEF AddByte, loopVars, decodeVars, ParserInv, UrlParserTypeOK,
       DecoderType
<1>5. ASSUME NEW f \in Fields, AddField(f) PROVE ParserInv'
  <2>1. EncodedField(f) \in Seq(Byte) /\ Ampersand \in Byte
    BY FieldTyped DEF Ampersand, Byte
  <2> DEFINE e == EncodedField(f)
  <2>2. url_' = IF fields = <<>> THEN e ELSE url_ \o <<Ampersand>> \o e
    BY <1>5 DEF AddField
  <2>3. fields = <<>> => url_ = <<>>
    BY <1>5 DEF AddField
  <2>4. Len(e) \in Nat /\ e \in Seq(Byte)
    BY <2>1
  <2> HIDE DEF e
  <2>5. url_' \in Seq(Byte) /\ Len(url_') >= Len(url_) /\ Len(url_') \in Nat
    <3>1. CASE fields = <<>>
      BY <2>2, <2>3, <2>4, <3>1
    <3>2. CASE fields # <<>>
      BY <1>1, <2>1, <2>2, <2>4, <3>2
    <3> QED
      BY <3>1, <3>2
  <2>6. fields' \in Seq(Fields)
    BY <1>1, <1>5 DEF AddField
  <2>7. pos \in 0 .. Len(url_') + 1
    BY <1>1, <2>5
  <2> QED
    BY <1>1, <1>5, <2>5, <2>6, <2>7 DEF AddField, loopVars, decodeVars, ParserInv,
       UrlParserTypeOK, DecoderType
<1>6. ASSUME Construct PROVE ParserInv'
  <2>1. pos' \in 0 .. Len(url_) + 1
    BY <1>1, <1>2, <1>6 DEF Construct
  <2> QED
    BY <1>1, <1>6, <2>1 DEF Construct, decodeVars, ParserInv, UrlParserTypeOK,
       DecoderType
<1>7. ASSUME ReadName PROVE ParserInv'
  <2> DEFINE e == Find(Equals, pos)
  <2>1. e \in 0 .. Len(url_) /\ e # 0
    BY <1>2, <1>7 DEF ReadName
  <2> HIDE DEF e
  <2>2. e - 1 \in 0 .. Len(url_) /\ e \in 0 .. Len(url_) + 1
    BY <1>1, <2>1
  <2>3. param_name' \in Seq(Byte) /\ pos' = e
    BY <1>1, <1>3, <1>7, <2>2 DEF ReadName, e
  <2> QED
    BY <1>1, <1>7, <2>2, <2>3 DEF ReadName, decodeVars, ParserInv, UrlParserTypeOK,
       DecoderType
<1>8. ASSUME ReadValue PROVE ParserInv'
  <2> DEFINE found == Find(Ampersand, pos)
             end == IF found = 0 THEN Len(url_) + 1 ELSE found
  <2>1. end - 1 \in 0 .. Len(url_) /\ end \in 0 .. Len(url_) + 1
    <3>1. found \in 0 .. Len(url_)
      BY <1>2
    <3> HIDE DEF found
    <3> QED
      BY <1>1, <3>1
  <2>2. param_value' = SubSeq(url_, pos + 1, end - 1) /\ pos' = end
          /\ decoder' = NewDecoder
    BY <1>8 DEF ReadValue
  <2> HIDE DEF end
  <2>3. param_value' \in Seq(Byte)
    BY <1>1, <1>3, <2>1, <2>2
  <2>4. NewDecoder \in DecoderType
    BY DEF NewDecoder, DecoderType, Byte
  <2> QED
    BY <1>1, <1>8, <2>1, <2>2, <2>3, <2>4 DEF ReadValue, ParserInv, UrlParserTypeOK,
       DecoderType
<1>9. ASSUME Decode PROVE ParserInv'
  <2>1. Head(param_value) \in Byte /\ Tail(param_value) \in Seq(Byte)
    BY <1>1, <1>9 DEF Decode
  <2>2. decoder' \in DecoderType /\ param_value' \in Seq(Byte)
    BY <1>1, <1>9, <2>1, DecoderTyped DEF Decode
  <2> QED
    BY <1>1, <1>9, <2>2 DEF Decode, loopVars, ParserInv, UrlParserTypeOK, DecoderType
<1>10. ASSUME StoreValue PROVE ParserInv'
  <2>1. params_' = Put(params_, param_name, decoder.result)
    BY <1>10 DEF StoreValue
  <2>2. decoder.result \in Seq(Byte)
    BY <1>1 DEF DecoderType
  <2>3. /\ DOMAIN params_' = DOMAIN params_ \cup {param_name}
        /\ \A n \in DOMAIN params_' :
             params_'[n] = IF n = param_name THEN decoder.result ELSE params_[n]
    BY <2>1 DEF Put
  <2>4. /\ DOMAIN params_' \subseteq Seq(Byte)
        /\ \A n \in DOMAIN params_' : params_'[n] \in Seq(Byte)
    BY <1>1, <2>2, <2>3
  <2> QED
    BY <1>1, <1>10, <2>4 DEF StoreValue, decodeVars, ParserInv, UrlParserTypeOK,
       DecoderType
<1>11. ASSUME Return \/ UNCHANGED parserVars PROVE ParserInv'
  BY <1>1, <1>11 DEF Return, parserVars, loopVars, decodeVars, ParserInv,
     UrlParserTypeOK, DecoderType
<1> QED
  BY <1>4, <1>5, <1>6, <1>7, <1>8, <1>9, <1>10, <1>11 DEF UrlParserNext, Sender, Parse

(* The types hold throughout.                                               *)
LEMMA ParserInvariant == UrlParserSpec => []ParserInv
BY ParserInit, ParserTypeStep, PTL DEF UrlParserSpec

-----------------------------------------------------------------------------
(* The loop.  Of a separator: the name in front of it and the value behind. *)
Name(e) == FieldNames(Separators)[e]
Value(e) == SubSeq(url_, e + 1, FieldEnd(e) - 1)

Before(p) == {e \in Separators : e < p}

(* The parameters are those of the separators S. *)
Stored(S) ==
  /\ DOMAIN params_ = {Name(e) : e \in S}
  /\ \A e \in S :
       CompleteEscapes(Value(e)) /\ (\A d \in S : d > e => Name(d) # Name(e))
         => Unescaped(Value(e), params_[Name(e)])

(* A field begins behind p. *)
Boundary(p) == p = Start \/ \E e \in Separators : p = FieldEnd(e)

(* The decoder has taken the first k bytes of str, and finished the first m *)
(* of them: the next is not part of an escape.                              *)
PlacesUpto(str, m) == {i \in Places(str) : i <= m}

Clear(str, m) ==
  \A k \in {1, 2} : m + 1 - k \in 1 .. Len(str) => str[m + 1 - k] # Percent

Finished(str, m, d) ==
  /\ Clear(str, m)
  /\ Len(d.result) = Cardinality(PlacesUpto(str, m))
  /\ \A i \in PlacesUpto(str, m) :
       d.result[Cardinality(PlacesUpto(str, i))] = ByteAt(str, i)

Taken(str, k, d) ==
  CASE d.state = "General" -> Finished(str, k, d)
    [] d.state = "FirstDigit" ->
         k > 0 /\ Finished(str, k - 1, d) /\ str[k] = Percent
    [] d.state = "SecondDigit" ->
         /\ k > 1 /\ Finished(str, k - 2, d)
         /\ str[k - 1] = Percent /\ d.first = str[k]

Decoding(str) ==
  \E k \in 0 .. Len(str) :
    /\ param_value = SubSeq(str, k + 1, Len(str))
    /\ CompleteEscapes(str) => Taken(str, k, decoder)

LoopInv ==
  /\ where = "new" => DOMAIN params_ = {} /\ pos = 0
  /\ where = "name" => Boundary(pos) /\ Stored(Before(pos))
  /\ where = "value" =>
       pos \in Separators /\ param_name = Name(pos) /\ Stored(Before(pos))
  /\ where = "decode" => \E e \in Separators :
       /\ pos = FieldEnd(e) /\ param_name = Name(e)
       /\ Stored(Before(e)) /\ Decoding(Value(e))
  /\ where = "done" => Stored(Separators)

(* The scan stays within the text. *)
LEMMA SeparatorsKnown ==
  ASSUME ParserInv
  PROVE  /\ Len(url_) \in Nat /\ Start \in 0 .. Len(url_)
         /\ Start # 0 => url_[Start] = Question
         /\ \A e \in Separators : e \in Start + 1 .. Len(url_) /\ e \in 1 .. Len(url_)
                                  /\ e \in Nat /\ url_[e] = Equals
<1>1. Len(url_) \in Nat
  BY DEF ParserInv, UrlParserTypeOK
<1>2. Start \in 0 .. Len(url_) /\ (Start # 0 => url_[Start] = Question)
  BY <1>1, FindIs DEF Start
<1>3. \A e \in Separators : e \in Start + 1 .. Len(url_) /\ url_[e] = Equals
  BY DEF Separators
<1> QED
  BY <1>1, <1>2, <1>3

(* A field ends at the next '&', or with the text.                          *)
LEMMA FieldEndIs ==
  ASSUME ParserInv, NEW e \in 1 .. Len(url_)
  PROVE  LET found == Find(Ampersand, e)
             end == FieldEnd(e)
         IN  /\ end \in e + 1 .. Len(url_) + 1
             /\ end = Len(url_) + 1 \/ url_[end] = Ampersand
             /\ \A i \in e + 1 .. end - 1 : url_[i] # Ampersand
             /\ end = IF found = 0 THEN Len(url_) + 1 ELSE found
<1> DEFINE found == Find(Ampersand, e)
           a == IF found = 0 THEN Len(url_) + 1 ELSE found
           Ends(x) == /\ x = Len(url_) + 1 \/ url_[x] = Ampersand
                      /\ \A i \in e + 1 .. x - 1 : url_[i] # Ampersand
<1>1. Len(url_) \in Nat /\ e \in Nat
  BY SeparatorsKnown
<1>2. /\ found = 0 <=> \A i \in e + 1 .. Len(url_) : url_[i] # Ampersand
      /\ found # 0 => /\ found \in e + 1 .. Len(url_) /\ url_[found] = Ampersand
                      /\ \A i \in e + 1 .. found - 1 : url_[i] # Ampersand
  BY <1>1, FindIs
<1> HIDE DEF found
<1>3. a \in e + 1 .. Len(url_) + 1 /\ Ends(a)
  BY <1>1, <1>2
<1>4. ASSUME NEW b \in e + 1 .. Len(url_) + 1, Ends(b)
      PROVE  b = a
  <2>1. ~(a < b)
    <3> SUFFICES ASSUME a < b PROVE FALSE
      OBVIOUS
    <3>1. a \in e + 1 .. b - 1 /\ a # Len(url_) + 1
      BY <1>1, <1>3
    <3> QED
      BY <1>3, <1>4, <3>1
  <2>2. ~(b < a)
    <3> SUFFICES ASSUME b < a PROVE FALSE
      OBVIOUS
    <3>1. b \in e + 1 .. a - 1 /\ b # Len(url_) + 1
      BY <1>1, <1>3
    <3> QED
      BY <1>3, <1>4, <3>1
  <2> HIDE DEF a
  <2> QED
    BY <1>1, <1>3, <2>1, <2>2
<1>5. FieldEnd(e) = CHOOSE x \in e + 1 .. Len(url_) + 1 : Ends(x)
  BY DEF FieldEnd
<1> HIDE DEF Ends, a
<1>6. FieldEnd(e) = a
  BY <1>3, <1>4, <1>5
<1> QED
  BY <1>3, <1>6 DEF Ends, a, found

(* Fields do not overlap. *)
LEMMA FieldsApart ==
  ASSUME ParserInv, NEW d \in Separators, NEW e \in Separators, d < e
  PROVE  FieldEnd(d) < e
<1>1. /\ d \in Start + 1 .. Len(url_) /\ d \in 1 .. Len(url_) /\ d \in Nat
      /\ e \in 1 .. Len(url_) /\ e \in Nat /\ url_[d] = Equals /\ Start \in Nat
      /\ Len(url_) \in Nat
  BY SeparatorsKnown
<1>2. d \in Start + 1 .. e - 1
  BY <1>1
<1>3. PICK a \in d + 1 .. e - 1 : url_[a] = Ampersand
  BY <1>1, <1>2 DEF Separators
<1> DEFINE end == FieldEnd(d)
<1>4. end \in d + 1 .. Len(url_) + 1 /\ \A i \in d + 1 .. end - 1 : url_[i] # Ampersand
  BY <1>1, FieldEndIs
<1> HIDE DEF end
<1>5. ~(a < end)
  <2>1. a < end => a \in d + 1 .. end - 1
    BY <1>1, <1>4
  <2> QED
    BY <1>3, <1>4, <2>1
<1>6. end <= a /\ a < e
  BY <1>1, <1>3, <1>4, <1>5
<1>7. end < e
  BY <1>1, <1>3, <1>4, <1>6
<1> QED
  BY <1>7 DEF end

(* The fields before the one that begins behind p have ended there. *)
LEMMA BoundaryIs ==
  ASSUME ParserInv, NEW p, Boundary(p)
  PROVE  /\ p \in Start .. Len(url_) + 1
         /\ p = Start => Before(p) = {}
         /\ p # Start => \E e \in Before(p) : p = FieldEnd(e)
         /\ \A d \in Before(p) : FieldEnd(d) <= p
         /\ p \in 1 .. Len(url_) => url_[p] # Equals
         /\ p \in Start + 1 .. Len(url_) => url_[p] = Ampersand
<1>1. /\ Len(url_) \in Nat /\ Start \in 0 .. Len(url_)
      /\ Start # 0 => url_[Start] = Question
      /\ \A e \in Separators : e \in Start + 1 .. Len(url_) /\ e \in 1 .. Len(url_)
                               /\ e \in Nat
  BY SeparatorsKnown
<1>2. Ampersand # Equals /\ Question # Equals
  BY DEF Ampersand, Equals, Question
<1>3. CASE p = Start
  <2>1. Before(p) = {}
    BY <1>1, <1>3 DEF Before
  <2> QED
    BY <1>1, <1>2, <1>3, <2>1
<1>4. CASE p # Start
  <2>1. PICK e \in Separators : p = FieldEnd(e)
    BY <1>4 DEF Boundary
  <2>2. /\ p \in e + 1 .. Len(url_) + 1 /\ e \in Start + 1 .. Len(url_) /\ e \in Nat
        /\ p = Len(url_) + 1 \/ url_[p] = Ampersand
    BY <1>1, <2>1, FieldEndIs
  <2>3. e < p /\ p \in Start .. Len(url_) + 1 /\ p \in Nat
    BY <1>1, <2>2
  <2>4. ASSUME NEW d \in Before(p) PROVE FieldEnd(d) <= p
    <3>1. d \in Separators /\ d < p /\ d \in Nat /\ d \in 1 .. Len(url_)
      BY <1>1 DEF Before
    <3>2. CASE d < e
      <4>1. FieldEnd(d) < e
        BY <3>1, <3>2, FieldsApart
      <4>2. FieldEnd(d) \in Nat
        <5>1. FieldEnd(d) \in d + 1 .. Len(url_) + 1
          BY <3>1, FieldEndIs
        <5> QED
          BY <1>1, <3>1, <5>1
      <4> QED
        BY <2>2, <2>3, <4>1, <4>2
    <3>3. CASE d = e
      BY <2>1, <2>3, <3>3
    <3>4. CASE e < d
      <4>1. FieldEnd(e) < d
        BY <3>1, <3>4, FieldsApart
      <4> QED
        BY <2>1, <2>3, <3>1, <4>1
    <3> QED
      BY <2>2, <3>1, <3>2, <3>3, <3>4
  <2>5. e \in Before(p)
    BY <2>3 DEF Before
  <2>6. p \in 1 .. Len(url_) => url_[p] = Ampersand
    BY <1>1, <2>2
  <2>7. p \in Start + 1 .. Len(url_) => p \in 1 .. Len(url_)
    BY <1>1
  <2> QED
    BY <1>2, <1>4, <2>1, <2>3, <2>4, <2>5, <2>6, <2>7
<1> QED
  BY <1>3, <1>4

(* The next '=' is a separator, and the name in front of it begins behind p. *)
LEMMA NextSeparator ==
  ASSUME ParserInv, NEW p, Boundary(p), p <= Len(url_),
         NEW f, f = Find(Equals, p)
  PROVE  /\ f = 0 => Before(p) = Separators
         /\ f # 0 => /\ f \in Separators /\ Before(f) = Before(p)
                     /\ Name(f) = SubSeq(url_, p + 1, f - 1)
<1>1. /\ p \in Start .. Len(url_) + 1
      /\ p = Start => Before(p) = {}
      /\ p # Start => \E e \in Before(p) : p = FieldEnd(e)
      /\ \A d \in Before(p) : FieldEnd(d) <= p
      /\ p \in 1 .. Len(url_) => url_[p] # Equals
      /\ p \in Start + 1 .. Len(url_) => url_[p] = Ampersand
  BY BoundaryIs
<1>2. /\ Len(url_) \in Nat /\ Start \in 0 .. Len(url_)
      /\ \A e \in Separators : e \in Start + 1 .. Len(url_) /\ e \in 1 .. Len(url_)
                               /\ e \in Nat /\ url_[e] = Equals
  BY SeparatorsKnown
<1>3. p \in Nat /\ p \in Start .. Len(url_)
  BY <1>1, <1>2
<1>4. /\ f = 0 <=> \A i \in p + 1 .. Len(url_) : url_[i] # Equals
      /\ f # 0 => /\ f \in p + 1 .. Len(url_) /\ url_[f] = Equals
                  /\ \A i \in p + 1 .. f - 1 : url_[i] # Equals
  BY <1>2, <1>3, FindIs
<1>5. ASSUME f = 0 PROVE Before(p) = Separators
  <2> SUFFICES ASSUME NEW e \in Separators PROVE e < p
    BY DEF Before
  <2>1. e \notin p + 1 .. Len(url_) /\ e # p
    BY <1>1, <1>2, <1>4, <1>5
  <2> QED
    BY <1>2, <1>3, <2>1
<1>6. ASSUME f # 0 PROVE f \in Separators
  <2>1. f \in Start + 1 .. Len(url_) /\ url_[f] = Equals /\ f \in p + 1 .. Len(url_)
    BY <1>2, <1>3, <1>4, <1>6
  <2>2. ASSUME NEW i \in Start + 1 .. f - 1, url_[i] = Equals
        PROVE  \E a \in i + 1 .. f - 1 : url_[a] = Ampersand
    <3>1. i \notin p + 1 .. f - 1
      BY <1>4, <1>6, <2>2
    <3>2. i \in 1 .. Len(url_) /\ i <= p
      BY <1>2, <1>3, <2>1, <3>1
    <3>3. i # p
      BY <1>1, <2>2, <3>2
    <3>4. p \in i + 1 .. f - 1 /\ p \in Start + 1 .. Len(url_)
      BY <1>2, <1>3, <2>1, <3>2, <3>3
    <3> QED
      BY <1>1, <3>4
  <2> QED
    BY <2>1, <2>2 DEF Separators
<1>7. ASSUME f # 0 PROVE Before(f) = Before(p)
  <2>1. f \in p + 1 .. Len(url_) /\ \A i \in p + 1 .. f - 1 : url_[i] # Equals
    BY <1>4, <1>7
  <2>2. ASSUME NEW e \in Separators PROVE e < f <=> e < p
    <3>1. e \in 1 .. Len(url_) /\ e \in Nat /\ url_[e] = Equals
      BY <1>2
    <3>2. e \notin p + 1 .. f - 1 /\ e # p
      BY <1>1, <2>1, <3>1
    <3> QED
      BY <1>2, <1>3, <2>1, <3>1, <3>2
  <2> QED
    BY <2>2 DEF Before
<1>8. ASSUME f # 0 PROVE Name(f) = SubSeq(url_, p + 1, f - 1)
  <2>1. FieldStart(f, Separators) = p + 1
    <3> DEFINE earlier == {FieldEnd(d) : d \in {s \in Separators : s < f}}
    <3>1. earlier = {FieldEnd(d) : d \in Before(p)}
      BY <1>7, <1>8 DEF Before
    <3>2. FieldStart(f, Separators) =
            IF earlier = {} THEN Start + 1
            ELSE 1 + CHOOSE a \in earlier : \A b \in earlier : b <= a
      BY DEF FieldStart
    <3> HIDE DEF earlier
    <3>3. CASE p = Start
      <4>1. Before(p) = {}
        BY <1>1, <3>3
      <4>2. earlier = {}
        BY <3>1, <4>1
      <4> QED
        BY <3>2, <3>3, <4>2
    <3>4. CASE p # Start
      <4>1. p \in earlier /\ \A b \in earlier : b <= p
        BY <1>1, <3>1, <3>4
      <4>2. \A b \in earlier : b \in Nat
        <5> SUFFICES ASSUME NEW d \in Before(p) PROVE FieldEnd(d) \in Nat
          BY <3>1
        <5>1. d \in 1 .. Len(url_) /\ d \in Nat
          BY <1>2 DEF Before
        <5>2. FieldEnd(d) \in d + 1 .. Len(url_) + 1
          BY <5>1, FieldEndIs
        <5> QED
          BY <1>2, <5>1, <5>2
      <4>3. \A a \in earlier : (\A b \in earlier : b <= a) => a = p
        BY <1>3, <4>1, <4>2
      <4>4. (CHOOSE a \in earlier : \A b \in earlier : b <= a) = p
        BY <4>1, <4>3
      <4> QED
        <5>1. earlier # {} /\ 1 + p = p + 1
          BY <1>3, <4>1
        <5> QED
          BY <3>2, <4>4, <5>1
    <3> QED
      BY <3>3, <3>4
  <2> QED
    BY <1>6, <1>8, <2>1 DEF Name, FieldNames
<1> QED
  BY <1>5, <1>6, <1>7, <1>8

(* What the text alone determines.                                          *)
LEMMA SameText ==
  ASSUME url_' = url_
  PROVE  /\ Start' = Start /\ Separators' = Separators
         /\ \A e : FieldEnd(e)' = FieldEnd(e)
         /\ \A e : Name(e)' = Name(e) /\ Value(e)' = Value(e)
         /\ \A p : Before(p)' = Before(p) /\ (Boundary(p)' <=> Boundary(p))
<1>1. Start' = Start
  BY DEF Start, Find, SelectInSubSeq
<1>2. Separators' = Separators
  BY <1>1 DEF Separators
<1>3. \A e : FieldEnd(e)' = FieldEnd(e)
  BY DEF FieldEnd
<1>4. \A e : Value(e)' = Value(e)
  BY <1>3 DEF Value
<1>5. \A e : Name(e)' = Name(e)
  <2>1. \A e : FieldStart(e, Separators)' = FieldStart(e, Separators)
    <3> TAKE e
    <3> DEFINE earlier == {FieldEnd(d) : d \in {s \in Separators : s < e}}
    <3>1. earlier' = earlier
      BY <1>2, <1>3
    <3>2. FieldStart(e, Separators) =
            IF earlier = {} THEN Start + 1
            ELSE 1 + CHOOSE a \in earlier : \A b \in earlier : b =< a
      BY DEF FieldStart
    <3>3. FieldStart(e, Separators)' =
            IF earlier' = {} THEN Start' + 1
            ELSE 1 + CHOOSE a \in earlier' : \A b \in earlier' : b =< a
      BY DEF FieldStart
    <3> HIDE DEF earlier
    <3> QED
      BY <1>1, <3>1, <3>2, <3>3
  <2> QED
    BY <1>2, <2>1 DEF Name, FieldNames
<1>6. \A p : Before(p)' = Before(p) /\ (Boundary(p)' <=> Boundary(p))
  BY <1>1, <1>2, <1>3 DEF Before, Boundary
<1> QED
  BY <1>1, <1>2, <1>3, <1>4, <1>5, <1>6

-----------------------------------------------------------------------------
(* The decoder.  Ranks of places: the next place comes next.                *)
LEMMA PlacesFinite ==
  ASSUME NEW str \in Seq(Byte), NEW m \in Nat
  PROVE  /\ IsFiniteSet(PlacesUpto(str, m)) /\ Cardinality(PlacesUpto(str, m)) \in Nat
         /\ \A i \in PlacesUpto(str, m) :
              /\ i \in 1 .. Len(str)
              /\ Cardinality(PlacesUpto(str, i)) \in 1 .. Cardinality(PlacesUpto(str, m))
<1>1. Len(str) \in Nat /\ IsFiniteSet(1 .. Len(str))
  BY FS_Interval
<1>2. \A i \in Nat : /\ IsFiniteSet(PlacesUpto(str, i))
                     /\ PlacesUpto(str, i) \subseteq 1 .. Len(str)
                     /\ Cardinality(PlacesUpto(str, i)) \in Nat
  <2> TAKE i \in Nat
  <2>1. PlacesUpto(str, i) \subseteq 1 .. Len(str)
    BY DEF PlacesUpto, Places
  <2> QED
    BY <1>1, <2>1, FS_Subset, FS_CardinalityType
<1>3. ASSUME NEW i \in PlacesUpto(str, m)
      PROVE  Cardinality(PlacesUpto(str, i)) \in 1 .. Cardinality(PlacesUpto(str, m))
  <2>1. i \in 1 .. Len(str) /\ i \in Nat
    BY <1>1, <1>2
  <2>2. i \in PlacesUpto(str, i) /\ PlacesUpto(str, i) \subseteq PlacesUpto(str, m)
    BY <2>1 DEF PlacesUpto, Places
  <2>3. Cardinality(PlacesUpto(str, i)) <= Cardinality(PlacesUpto(str, m))
    BY <1>2, <2>2, FS_Subset
  <2>4. Cardinality(PlacesUpto(str, i)) # 0
    BY <1>2, <2>1, <2>2, FS_EmptySet
  <2> QED
    BY <1>2, <2>1, <2>3, <2>4
<1> QED
  BY <1>2, <1>3

(* The byte behind what is finished is a place.                             *)
LEMMA NextPlace ==
  ASSUME NEW str \in Seq(Byte), NEW m \in Nat, m < Len(str), Clear(str, m)
  PROVE  /\ m + 1 \in Places(str)
         /\ PlacesUpto(str, m + 1) = PlacesUpto(str, m) \cup {m + 1}
         /\ Cardinality(PlacesUpto(str, m + 1)) = Cardinality(PlacesUpto(str, m)) + 1
<1>1. m + 1 \in 1 .. Len(str) /\ Len(str) \in Nat
  OBVIOUS
<1>2. m + 1 \in Places(str)
  BY <1>1 DEF Places, Clear
<1>3. PlacesUpto(str, m + 1) = PlacesUpto(str, m) \cup {m + 1}
        /\ m + 1 \notin PlacesUpto(str, m)
  <2>1. \A i \in 1 .. Len(str) : (i <= m + 1 <=> i <= m \/ i = m + 1)
    BY <1>1
  <2>2. Places(str) \subseteq 1 .. Len(str)
    BY DEF Places
  <2> QED
    BY <1>1, <1>2, <2>1, <2>2 DEF PlacesUpto
<1> QED
  BY <1>2, <1>3, PlacesFinite, FS_AddElement

(* The digits of an escape are no places. *)
LEMMA EscapeHasOnePlace ==
  ASSUME NEW str \in Seq(Byte), NEW m \in Nat, m + 3 <= Len(str), str[m + 1] = Percent
  PROVE  PlacesUpto(str, m + 3) = PlacesUpto(str, m + 1)
<1>1. Len(str) \in Nat
  OBVIOUS
<1>2. m + 2 \notin Places(str)
  <2>1. (m + 2) - 1 \in 1 .. Len(str) /\ (m + 2) - 1 = m + 1
    BY <1>1
  <2> QED
    BY <2>1 DEF Places
<1>3. m + 3 \notin Places(str)
  <2>1. (m + 3) - 2 \in 1 .. Len(str) /\ (m + 3) - 2 = m + 1
    BY <1>1
  <2> QED
    BY <2>1 DEF Places
<1>4. \A i \in 1 .. Len(str) : i <= m + 3 <=> i <= m + 1 \/ i = m + 2 \/ i = m + 3
  BY <1>1
<1>5. Places(str) \subseteq 1 .. Len(str)
  BY DEF Places
<1> QED
  BY <1>2, <1>3, <1>4, <1>5 DEF PlacesUpto

(* The byte of the next place is written behind those of the others.        *)
LEMMA AppendFinished ==
  ASSUME NEW str \in Seq(Byte), NEW m \in Nat, m < Len(str), NEW n \in Nat, Clear(str, n),
         PlacesUpto(str, n) = PlacesUpto(str, m + 1),
         NEW d \in DecoderType, Finished(str, m, d),
         NEW r, r.result = Append(d.result, ByteAt(str, m + 1))
  PROVE  Finished(str, n, r)
<1> DEFINE Rank(i) == Cardinality(PlacesUpto(str, i))
<1>1. /\ d.result \in Seq(Byte) /\ Len(d.result) = Rank(m)
      /\ \A i \in PlacesUpto(str, m) : d.result[Rank(i)] = ByteAt(str, i)
  BY DEF DecoderType, Finished
<1>2. /\ PlacesUpto(str, n) = PlacesUpto(str, m) \cup {m + 1}
      /\ Rank(m + 1) = Rank(m) + 1 /\ Rank(n) = Rank(m + 1)
  BY NextPlace DEF Finished
<1>3. \A i \in PlacesUpto(str, m) : Rank(i) \in 1 .. Rank(m)
  BY PlacesFinite
<1>4. Rank(m) \in Nat
  BY PlacesFinite
<1> HIDE DEF Rank
<1>5. Len(r.result) = Rank(n)
  BY <1>1, <1>2, <1>4
<1>6. r.result[Rank(m + 1)] = ByteAt(str, m + 1)
  BY <1>1, <1>2, <1>4
<1>7. \A i \in PlacesUpto(str, m) : r.result[Rank(i)] = ByteAt(str, i)
  <2> TAKE i \in PlacesUpto(str, m)
  <2>1. r.result[Rank(i)] = d.result[Rank(i)]
    BY <1>1, <1>3, <1>4
  <2> QED
    BY <1>1, <2>1
<1> QED
  BY <1>2, <1>5, <1>6, <1>7 DEF Finished, Rank

(* One turn of percent_decode on a string whose escapes are complete. *)
LEMMA DecodeStep ==
  ASSUME NEW str \in Seq(Byte), CompleteEscapes(str), NEW d \in DecoderType,
         NEW k \in Nat, k < Len(str), Taken(str, k, d)
  PROVE  Taken(str, k + 1, DecodeChar(d, str[k + 1]))
<1> DEFINE c == str[k + 1]
           r == DecodeChar(d, c)
<1>1. /\ k + 1 \in 1 .. Len(str) /\ Len(str) \in Nat /\ c \in Byte
      /\ d.state \in {"General", "FirstDigit", "SecondDigit"}
      /\ d.result \in Seq(Byte)
  BY DEF DecoderType
<1>2. \A i \in HexDigits : i # Percent
  BY DigitsTyped DEF Reserved
<1>3. \A x : \A m : x.result = d.result =>
        (Finished(str, m, d) => Finished(str, m, x))
  BY DEF Finished
<1>4. CASE d.state = "General"
  <2>1. Finished(str, k, d)
    BY <1>4 DEF Taken
  <2>2. CASE c # Percent
    <3>1. r.state = "General" /\ r.result = Append(d.result, c)
      BY <1>4, <2>2 DEF DecodeChar, DecoderType
    <3>2. ByteAt(str, k + 1) = c
      BY <2>2 DEF ByteAt
    <3>3. Clear(str, k + 1)
      <4> SUFFICES ASSUME NEW j \in {1, 2}, k + 1 + 1 - j \in 1 .. Len(str)
                   PROVE  str[k + 1 + 1 - j] # Percent
        BY DEF Clear
      <4>1. CASE j = 1
        <5>1. k + 1 + 1 - j = k + 1
          BY <4>1
        <5> QED
          BY <2>2, <5>1
      <4>2. CASE j = 2
        <5>1. k + 1 + 1 - j = k + 1 - 1
          BY <4>2
        <5> QED
          BY <2>1, <5>1 DEF Finished, Clear
      <4> QED
        BY <4>1, <4>2
    <3>4. Finished(str, k + 1, r)
      <4>1. k + 1 \in Nat
        OBVIOUS
      <4> HIDE DEF r, c
      <4> QED
        BY <2>1, <3>1, <3>2, <3>3, <4>1, AppendFinished
    <3> QED
      BY <3>1, <3>4 DEF Taken
  <2>3. CASE c = Percent
    <3>1. r.state = "FirstDigit" /\ r.result = d.result
      BY <1>4, <2>3 DEF DecodeChar, DecoderType
    <3>2. k + 1 - 1 = k /\ k + 1 > 0
      OBVIOUS
    <3>3. Finished(str, k + 1 - 1, r)
      <4> HIDE DEF r
      <4> QED
        BY <1>3, <2>1, <3>1, <3>2
    <3> QED
      BY <2>3, <3>1, <3>2, <3>3 DEF Taken
  <2> QED
    BY <2>2, <2>3
<1>5. CASE d.state = "FirstDigit"
  <2>1. k > 0 /\ Finished(str, k - 1, d) /\ str[k] = Percent
    BY <1>5 DEF Taken
  <2>2. k \in 1 .. Len(str)
    BY <1>1, <2>1
  <2>3. c \in HexDigits
    BY <2>1, <2>2 DEF CompleteEscapes
  <2>4. r.state = "SecondDigit" /\ r.result = d.result /\ r.first = c
    BY <1>5, <2>3 DEF DecodeChar, DecoderType, is_hex_digit
  <2>5. k + 1 > 1 /\ k + 1 - 2 = k - 1 /\ k + 1 - 1 = k
    BY <2>2
  <2>6. Finished(str, k + 1 - 2, r)
    <3> HIDE DEF r
    <3> QED
      BY <1>3, <2>1, <2>4, <2>5
  <2> QED
    BY <2>1, <2>4, <2>5, <2>6 DEF Taken
<1>6. CASE d.state = "SecondDigit"
  <2>1. k > 1 /\ Finished(str, k - 2, d) /\ str[k - 1] = Percent /\ d.first = str[k]
    BY <1>6 DEF Taken
  <2> DEFINE m == k - 2
  <2>2. /\ m \in Nat /\ m < Len(str) /\ m + 3 <= Len(str) /\ m + 1 = k - 1
        /\ m + 3 = k + 1 /\ m + 1 \in 1 .. Len(str)
        /\ k - 1 + 1 = k /\ k - 1 + 2 = k + 1
    BY <1>1, <2>1
  <2>3. {str[k], c} \subseteq HexDigits
    <3>1. {str[k - 1 + 1], str[k - 1 + 2]} \subseteq HexDigits
      BY <2>1, <2>2 DEF CompleteEscapes
    <3> QED
      BY <2>2, <3>1
  <2>4. r.state = "General" /\ r.result = Append(d.result, ByteAt(str, k - 1))
    <3>1. ByteAt(str, k - 1) = 16 * hex_digit_to_int(d.first) + hex_digit_to_int(c)
      BY <2>1, <2>2 DEF ByteAt
    <3>2. /\ r.state = "General"
          /\ r.result = Append(d.result, 16 * hex_digit_to_int(d.first) + hex_digit_to_int(c))
      BY <1>6, <2>3 DEF DecodeChar, DecoderType, is_hex_digit
    <3> QED
      BY <3>1, <3>2
  <2>5. Clear(str, k + 1)
    <3> SUFFICES ASSUME NEW j \in {1, 2} PROVE str[k + 1 + 1 - j] # Percent
      BY DEF Clear
    <3>1. k + 1 + 1 - 1 = k + 1 /\ k + 1 + 1 - 2 = k
      OBVIOUS
    <3> QED
      BY <1>2, <2>3, <3>1
  <2>6. PlacesUpto(str, k + 1) = PlacesUpto(str, m + 1)
    BY <2>1, <2>2, EscapeHasOnePlace
  <2>7. Finished(str, k + 1, r)
    <3>1. k + 1 \in Nat /\ Finished(str, m, d)
            /\ r.result = Append(d.result, ByteAt(str, m + 1))
      BY <2>1, <2>2, <2>4
    <3> HIDE DEF r, c, m
    <3> QED
      BY <2>2, <2>5, <2>6, <3>1, AppendFinished
  <2> QED
    BY <2>4, <2>7 DEF Taken
<1> QED
  BY <1>1, <1>4, <1>5, <1>6

(* percent_decode begins with nothing taken.                                *)
LEMMA DecodeBegins ==
  ASSUME NEW str \in Seq(Byte)
  PROVE  Taken(str, 0, NewDecoder)
<1>1. PlacesUpto(str, 0) = {}
  BY DEF PlacesUpto, Places
<1>2. Clear(str, 0)
  BY DEF Clear
<1> QED
  BY <1>1, <1>2, FS_EmptySet DEF Taken, Finished, NewDecoder

(* At its end no escape is open, and the string is unescaped.               *)
LEMMA DecodeEnds ==
  ASSUME NEW str \in Seq(Byte), CompleteEscapes(str), NEW d \in DecoderType,
         Taken(str, Len(str), d)
  PROVE  Unescaped(str, d.result)
<1>1. Len(str) \in Nat /\ d.state \in {"General", "FirstDigit", "SecondDigit"}
  BY DEF DecoderType
<1>2. d.state # "FirstDigit"
  <2> SUFFICES ASSUME d.state = "FirstDigit" PROVE FALSE
    OBVIOUS
  <2>1. Len(str) > 0 /\ str[Len(str)] = Percent
    BY DEF Taken
  <2>2. Len(str) \in 1 .. Len(str) /\ ~(Len(str) + 2 <= Len(str))
    BY <1>1, <2>1
  <2> QED
    BY <2>1, <2>2 DEF CompleteEscapes
<1>3. d.state # "SecondDigit"
  <2> SUFFICES ASSUME d.state = "SecondDigit" PROVE FALSE
    OBVIOUS
  <2>1. Len(str) > 1 /\ str[Len(str) - 1] = Percent
    BY DEF Taken
  <2>2. Len(str) - 1 \in 1 .. Len(str) /\ ~(Len(str) - 1 + 2 <= Len(str))
    BY <1>1, <2>1
  <2> QED
    BY <2>1, <2>2 DEF CompleteEscapes
<1>4. Finished(str, Len(str), d)
  BY <1>1, <1>2, <1>3 DEF Taken
<1>5. PlacesUpto(str, Len(str)) = Places(str)
  BY <1>1 DEF PlacesUpto, Places
<1> QED
  BY <1>4, <1>5 DEF Finished, Unescaped, PlacesUpto

-----------------------------------------------------------------------------
(* The loop keeps LoopInv, one lemma for each of its steps.                 *)
LEMMA ValueTyped ==
  ASSUME ParserInv, NEW e \in Separators
  PROVE  Value(e) \in Seq(Byte)
<1>1. /\ e \in 1 .. Len(url_) /\ e \in Nat /\ Len(url_) \in Nat
      /\ FieldEnd(e) \in e + 1 .. Len(url_) + 1
  BY SeparatorsKnown, FieldEndIs
<1>2. \A i \in e + 1 .. FieldEnd(e) - 1 : url_[i] \in Byte
  <2> TAKE i \in e + 1 .. FieldEnd(e) - 1
  <2>1. i \in 1 .. Len(url_)
    BY <1>1
  <2> QED
    BY <2>1 DEF ParserInv, UrlParserTypeOK
<1>3. /\ e + 1 \in Nat /\ FieldEnd(e) - 1 \in Nat
      /\ \A i \in e + 1 .. FieldEnd(e) - 1 : i \in 1 .. Len(url_)
      /\ url_ \in Seq(Byte)
  BY <1>1 DEF ParserInv, UrlParserTypeOK
<1> DEFINE end == FieldEnd(e) - 1
<1>4. Value(e) = SubSeq(url_, e + 1, end)
  BY DEF Value
<1> HIDE DEF end
<1>5. end \in Nat /\ \A i \in e + 1 .. end : url_[i] \in Byte
  BY <1>2, <1>3 DEF end
<1> QED
  BY <1>3, <1>4, <1>5, SubSeqProperties

(* The parameters stay those of the same separators.                        *)
LEMMA StoredSame ==
  ASSUME url_' = url_, params_' = params_, NEW S, Stored(S)
  PROVE  Stored(S)'
BY SameText DEF Stored

(* Nothing is read yet.                                                     *)
LEMMA LoopInit == UrlParserInit => LoopInv
BY DEF UrlParserInit, LoopInv

(* The text comes into being.                                               *)
LEMMA LoopSender ==
  ASSUME LoopInv, Sender
  PROVE  LoopInv'
<1>1. where = "new" /\ where' = where /\ params_' = params_ /\ pos' = pos
  BY DEF Sender, AddByte, AddField, loopVars
<1> QED
  BY <1>1 DEF LoopInv

(* The parser begins behind the '?', in front of the first field.           *)
LEMMA LoopConstruct ==
  ASSUME ParserInv, LoopInv, Construct
  PROVE  LoopInv'
<1>1. /\ url_' = url_ /\ params_' = params_ /\ pos' = Start /\ where' = "name"
      /\ DOMAIN params_ = {}
  BY DEF Construct, LoopInv, Start
<1>2. Boundary(pos)'
  BY <1>1, SameText DEF Boundary
<1>3. Before(Start) = {}
  <2>1. Boundary(Start)
    BY DEF Boundary
  <2> QED
    BY <2>1, BoundaryIs
<1>4. Before(pos)' = {}
  <2>1. Separators' = Separators
    BY <1>1, SameText
  <2> QED
    BY <1>1, <1>3, <2>1 DEF Before
<1>5. Stored(Before(pos))'
  BY <1>1, <1>4 DEF Stored
<1> QED
  BY <1>1, <1>2, <1>5 DEF LoopInv

(* The name of the field, up to its separator.                              *)
LEMMA LoopReadName ==
  ASSUME ParserInv, LoopInv, ReadName
  PROVE  LoopInv'
<1> DEFINE f == Find(Equals, pos)
<1>1. /\ pos <= Len(url_) /\ f # 0 /\ param_name' = SubSeq(url_, pos + 1, f - 1)
      /\ pos' = f /\ where' = "value" /\ url_' = url_ /\ params_' = params_
      /\ Boundary(pos) /\ Stored(Before(pos))
  BY DEF ReadName, LoopInv
<1>2. f \in Separators /\ Before(f) = Before(pos)
        /\ Name(f) = SubSeq(url_, pos + 1, f - 1)
  BY <1>1, NextSeparator
<1> HIDE DEF f
<1>3. PICK g : g = f
  OBVIOUS
<1>4. Separators' = Separators /\ Name(g)' = Name(g) /\ Before(g)' = Before(g)
  BY <1>1, SameText
<1>5. PICK S : S = Before(g)
  OBVIOUS
<1>6. Stored(S)'
  <2>1. Stored(S)
    BY <1>1, <1>2, <1>3, <1>5
  <2> QED
    BY <1>1, <2>1, StoredSame
<1>7. pos' = g /\ param_name' = Name(g)' /\ g \in Separators' /\ S = Before(g)'
  BY <1>1, <1>2, <1>3, <1>4, <1>5
<1>8. Stored(Before(pos))'
  <2>1. Before(pos)' = S
    BY <1>7 DEF Before
  <2> QED
    BY <1>6, <2>1 DEF Stored
<1>9. Name(pos)' = Name(g)'
  BY <1>7 DEF Name
<1> QED
  BY <1>1, <1>7, <1>8, <1>9 DEF LoopInv

(* The value of the field, up to its end.                                   *)
LEMMA LoopReadValue ==
  ASSUME ParserInv, LoopInv, ReadValue
  PROVE  LoopInv'
<1>1. PICK e : e = pos
  OBVIOUS
<1>2. /\ e \in Separators /\ param_name = Name(e) /\ Stored(Before(e))
  BY <1>1 DEF ReadValue, LoopInv
<1>3. /\ pos' = FieldEnd(e) /\ param_value' = Value(e) /\ decoder' = NewDecoder
      /\ where' = "decode" /\ url_' = url_ /\ params_' = params_
           /\ param_name' = param_name
  <2>1. e \in 1 .. Len(url_)
    BY <1>2, SeparatorsKnown
  <2> DEFINE found == Find(Ampersand, pos)
             end == IF found = 0 THEN Len(url_) + 1 ELSE found
  <2>2. FieldEnd(e) = end
    BY <1>1, <2>1, FieldEndIs
  <2>3. /\ pos' = end /\ param_value' = SubSeq(url_, e + 1, end - 1)
             /\ decoder' = NewDecoder
        /\ where' = "decode" /\ url_' = url_ /\ params_' = params_
             /\ param_name' = param_name
    BY <1>1 DEF ReadValue
  <2> HIDE DEF end
  <2> QED
    BY <2>2, <2>3 DEF Value
<1>4. /\ Separators' = Separators /\ Name(e)' = Name(e) /\ Before(e)' = Before(e)
      /\ Value(e)' = Value(e) /\ FieldEnd(e)' = FieldEnd(e)
  BY <1>3, SameText
<1>5. PICK S : S = Before(e)
  OBVIOUS
<1>6. Stored(Before(e))'
  <2>1. Stored(S)'
    BY <1>2, <1>3, <1>5, StoredSame
  <2>2. Before(e)' = S
    BY <1>4, <1>5
  <2> QED
    BY <2>1, <2>2 DEF Stored
<1>7. PICK str : str = Value(e)
  OBVIOUS
<1>8. str \in Seq(Byte) /\ Len(str) \in Nat
  BY <1>2, <1>7, ValueTyped
<1>9. SubSeq(str, 0 + 1, Len(str)) = str
  BY <1>8
<1>10. Taken(str, 0, NewDecoder)
  BY <1>8, DecodeBegins
<1>11. Decoding(Value(e))'
  <2>1. Value(e)' = str /\ param_value' = str /\ decoder' = NewDecoder
    BY <1>3, <1>4, <1>7
  <2>2. 0 \in 0 .. Len(str)
    BY <1>8
  <2> QED
    BY <1>9, <1>10, <2>1, <2>2 DEF Decoding
<1> QED
  BY <1>2, <1>3, <1>4, <1>6, <1>11 DEF LoopInv

(* percent_decode takes one more byte.                                      *)
LEMMA LoopDecode ==
  ASSUME ParserInv, LoopInv, Decode
  PROVE  LoopInv'
<1>1. /\ where = "decode" /\ where' = where /\ url_' = url_ /\ params_' = params_
      /\ pos' = pos /\ param_name' = param_name /\ param_value # <<>>
      /\ decoder' = DecodeChar(decoder, Head(param_value))
      /\ param_value' = Tail(param_value)
  BY DEF Decode, loopVars
<1>2. PICK e \in Separators : /\ pos = FieldEnd(e) /\ param_name = Name(e)
                              /\ Stored(Before(e)) /\ Decoding(Value(e))
  BY <1>1 DEF LoopInv
<1>3. /\ Separators' = Separators /\ Name(e)' = Name(e) /\ Before(e)' = Before(e)
      /\ Value(e)' = Value(e) /\ FieldEnd(e)' = FieldEnd(e)
  BY <1>1, SameText
<1>4. PICK S : S = Before(e)
  OBVIOUS
<1>5. Stored(Before(e))'
  <2>1. Stored(S)'
    BY <1>1, <1>2, <1>4, StoredSame
  <2>2. Before(e)' = S
    BY <1>3, <1>4
  <2> QED
    BY <2>1, <2>2 DEF Stored
<1>6. PICK str : str = Value(e)
  OBVIOUS
<1>7. str \in Seq(Byte) /\ Len(str) \in Nat
  BY <1>2, <1>6, ValueTyped
<1>8. PICK k \in 0 .. Len(str) : /\ param_value = SubSeq(str, k + 1, Len(str))
                                 /\ CompleteEscapes(str) => Taken(str, k, decoder)
  BY <1>2, <1>6 DEF Decoding
<1>9. k \in Nat /\ k < Len(str) /\ k + 1 \in 0 .. Len(str)
  <2>1. k # Len(str)
    BY <1>1, <1>7, <1>8
  <2> QED
    BY <1>7, <1>8, <2>1
<1>10. Head(param_value) = str[k + 1] /\ Tail(param_value) = SubSeq(str, k + 1 + 1, Len(str))
  BY <1>7, <1>8, <1>9
<1>11. decoder \in DecoderType
  BY DEF ParserInv, UrlParserTypeOK, DecoderType
<1>12. CompleteEscapes(str) => Taken(str, k + 1, DecodeChar(decoder, str[k + 1]))
  BY <1>7, <1>8, <1>9, <1>11, DecodeStep
<1>13. Decoding(Value(e))'
  <2>1. /\ Value(e)' = str /\ param_value' = SubSeq(str, k + 1 + 1, Len(str))
        /\ decoder' = DecodeChar(decoder, str[k + 1])
    BY <1>1, <1>3, <1>6, <1>10
  <2>2. CompleteEscapes(str) => Taken(str, k + 1, decoder')
    BY <1>12, <2>1
  <2> QED
    BY <1>9, <2>1, <2>2 DEF Decoding
<1> QED
  BY <1>1, <1>2, <1>3, <1>5, <1>13 DEF LoopInv

(* Of two separators of the same name, the later one's value is kept.       *)
LEMMA StoredOneMore ==
  ASSUME ParserInv, NEW S \in SUBSET Separators, Stored(S), url_' = url_,
         NEW e \in Separators, \A d \in S : d < e, NEW value,
         params_' = Put(params_, Name(e), value),
         CompleteEscapes(Value(e)) => Unescaped(Value(e), value)
  PROVE  Stored(S \cup {e})'
<1>1. \A d : Name(d)' = Name(d) /\ Value(d)' = Value(d)
  BY SameText
<1>2. \A d \in Separators : d \in Nat
  BY SeparatorsKnown
<1>3. /\ DOMAIN params_' = DOMAIN params_ \cup {Name(e)}
      /\ \A n \in DOMAIN params_' : params_'[n] = IF n = Name(e) THEN value ELSE params_[n]
  BY DEF Put
<1>4. DOMAIN params_' = {Name(d) : d \in S \cup {e}}
  BY <1>3 DEF Stored
<1>5. ASSUME NEW d \in S \cup {e}, CompleteEscapes(Value(d)),
             \A c \in S \cup {e} : c > d => Name(c) # Name(d)
      PROVE  Unescaped(Value(d), params_'[Name(d)])
  <2>1. Name(d) \in DOMAIN params_'
    BY <1>4
  <2>2. CASE d = e
    BY <1>3, <1>5, <2>1, <2>2
  <2>3. CASE d # e
    <3>1. d \in S /\ d < e /\ d \in Nat /\ e \in Nat
      BY <1>2, <2>3
    <3>2. Name(e) # Name(d)
      BY <1>5, <3>1
    <3>3. params_'[Name(d)] = params_[Name(d)]
      BY <1>3, <2>1, <3>2
    <3>4. Unescaped(Value(d), params_[Name(d)])
      BY <1>5, <3>1 DEF Stored
    <3> QED
      BY <3>3, <3>4
  <2> QED
    BY <2>2, <2>3
<1>6. DOMAIN params_' = {Name(d)' : d \in S \cup {e}}
  BY <1>1, <1>4
<1>7. ASSUME NEW d \in S \cup {e}, CompleteEscapes(Value(d)'),
             \A c \in S \cup {e} : c > d => Name(c)' # Name(d)'
      PROVE  Unescaped(Value(d)', params_'[Name(d)'])
  BY <1>1, <1>5, <1>7
<1> QED
  BY <1>6, <1>7 DEF Stored

(* The value goes to the parameters, and the next field begins.             *)
LEMMA LoopStoreValue ==
  ASSUME ParserInv, LoopInv, StoreValue
  PROVE  LoopInv'
<1>1. /\ where = "decode" /\ where' = "name" /\ url_' = url_ /\ pos' = pos
      /\ param_value = <<>> /\ params_' = Put(params_, param_name, decoder.result)
  BY DEF StoreValue
<1>2. PICK e \in Separators : /\ pos = FieldEnd(e) /\ param_name = Name(e)
                              /\ Stored(Before(e)) /\ Decoding(Value(e))
  BY <1>1 DEF LoopInv
<1>3. PICK str : str = Value(e)
  OBVIOUS
<1>4. str \in Seq(Byte) /\ Len(str) \in Nat
  BY <1>2, <1>3, ValueTyped
<1>5. PICK k \in 0 .. Len(str) : /\ param_value = SubSeq(str, k + 1, Len(str))
                                 /\ CompleteEscapes(str) => Taken(str, k, decoder)
  BY <1>2, <1>3 DEF Decoding
<1>6. k = Len(str)
  <2>1. Len(SubSeq(str, k + 1, Len(str))) = Len(str) - k
    BY <1>4
  <2>2. Len(SubSeq(str, k + 1, Len(str))) = 0
    BY <1>1, <1>5
  <2>3. k \in 0 .. Len(str)
    OBVIOUS
  <2> QED
    BY <1>4, <2>1, <2>2, <2>3
<1>7. CompleteEscapes(Value(e)) => Unescaped(Value(e), decoder.result)
  <2>1. decoder \in DecoderType
    BY DEF ParserInv, UrlParserTypeOK, DecoderType
  <2> QED
    BY <1>3, <1>4, <1>5, <1>6, <2>1, DecodeEnds
<1>8. /\ e \in Nat /\ e < pos /\ pos \in Nat
      /\ \A d \in Separators : d \in Nat
  <2>1. /\ e \in 1 .. Len(url_) /\ Len(url_) \in Nat
             /\ \A d \in Separators : d \in Nat
    BY SeparatorsKnown
  <2>2. FieldEnd(e) \in e + 1 .. Len(url_) + 1
    BY <2>1, FieldEndIs
  <2> QED
    BY <1>2, <2>1, <2>2
<1>9. Before(pos) = Before(e) \cup {e}
  <2>1. ASSUME NEW d \in Separators PROVE d < pos <=> d < e \/ d = e
    <3>1. e < d => pos < d
      BY <1>2, FieldsApart
    <3> QED
      BY <1>8, <3>1
  <2> QED
    BY <2>1 DEF Before
<1>10. PICK S : S = Before(e)
  OBVIOUS
<1>11. S \in SUBSET Separators /\ \A d \in S : d < e
  BY <1>10 DEF Before
<1>12. PICK value : value = decoder.result
  OBVIOUS
<1>13. Stored(S \cup {e})'
  BY <1>1, <1>2, <1>7, <1>10, <1>11, <1>12, StoredOneMore
<1>14. Before(pos)' = S \cup {e}
  <2>1. Separators' = Separators
    BY <1>1, SameText
  <2>2. Before(pos)' = Before(pos)
    BY <1>1, <2>1 DEF Before
  <2> QED
    BY <1>9, <1>10, <2>2
<1>15. Stored(Before(pos))'
  BY <1>13, <1>14 DEF Stored
<1>16. Boundary(pos)'
  <2>1. Separators' = Separators /\ FieldEnd(e)' = FieldEnd(e)
    BY <1>1, SameText
  <2> QED
    BY <1>1, <1>2, <2>1 DEF Boundary
<1> QED
  BY <1>1, <1>15, <1>16 DEF LoopInv

(* Nothing is left: no separator, or no text.                               *)
LEMMA LoopReturn ==
  ASSUME ParserInv, LoopInv, Return
  PROVE  LoopInv'
<1>1. /\ where = "name" /\ where' = "done" /\ url_' = url_ /\ params_' = params_
      /\ Boundary(pos) /\ Stored(Before(pos))
      /\ pos > Len(url_) \/ Find(Equals, pos) = 0
  BY DEF Return, loopVars, LoopInv
<1>2. /\ pos \in Nat /\ Len(url_) \in Nat
      /\ \A d \in Separators : d \in Nat /\ d \in 1 .. Len(url_)
  BY SeparatorsKnown DEF ParserInv, UrlParserTypeOK
<1>3. Before(pos) = Separators
  <2>1. CASE pos > Len(url_)
    <3>1. \A d \in Separators : d < pos
      BY <1>2, <2>1
    <3> QED
      BY <3>1 DEF Before
  <2>2. CASE pos <= Len(url_)
    <3>1. Find(Equals, pos) = 0
      BY <1>1, <1>2, <2>2
    <3> QED
      BY <1>1, <2>2, <3>1, NextSeparator
  <2> QED
    BY <1>2, <2>1, <2>2
<1>4. PICK S : S = Separators
  OBVIOUS
<1>5. Stored(S)'
  BY <1>1, <1>3, <1>4, StoredSame
<1>6. Separators' = S
  BY <1>1, <1>4, SameText
<1>7. Stored(Separators)'
  BY <1>5, <1>6 DEF Stored
<1> QED
  BY <1>1, <1>7 DEF LoopInv

(* Where nothing happens, nothing changes.                                  *)
LEMMA LoopStutter ==
  ASSUME LoopInv, UNCHANGED parserVars
  PROVE  LoopInv'
<1>1. /\ url_' = url_ /\ params_' = params_ /\ pos' = pos /\ param_name' = param_name
      /\ param_value' = param_value /\ decoder' = decoder /\ where' = where
  BY DEF parserVars, loopVars, decodeVars
<1>2. \A S : Stored(S)' <=> Stored(S)
  BY <1>1, SameText DEF Stored
<1>3. /\ Start' = Start /\ Separators' = Separators
      /\ \A e : /\ FieldEnd(e)' = FieldEnd(e) /\ Name(e)' = Name(e)
                /\ Value(e)' = Value(e) /\ Before(e)' = Before(e)
                /\ Boundary(e)' <=> Boundary(e)
  BY <1>1, SameText
<1>4. \A s : Decoding(s)' <=> Decoding(s)
  BY <1>1 DEF Decoding
<1> QED
  BY <1>1, <1>2, <1>3, <1>4 DEF LoopInv

(* Every step keeps LoopInv.                                                *)
LEMMA LoopStep == ParserInv /\ LoopInv /\ [UrlParserNext]_parserVars => LoopInv'
BY LoopSender, LoopConstruct, LoopReadName, LoopReadValue, LoopDecode, LoopStoreValue,
   LoopReturn, LoopStutter DEF UrlParserNext, Parse

(* LoopInv holds throughout.                                                *)
LEMMA LoopInvariant == UrlParserSpec => []LoopInv
<1>1. UrlParserInit => LoopInv
  BY LoopInit
<1>2. ParserInv /\ LoopInv /\ [UrlParserNext]_parserVars => LoopInv'
  BY LoopStep
<1> QED
  BY <1>1, <1>2, ParserInvariant, PTL DEF UrlParserSpec

-----------------------------------------------------------------------------
(* Types: every byte of a name or a value is a byte, no position lies       *)
(* beyond the text.                                                         *)
THEOREM UrlParserTyped == UrlParserSpec => []UrlParserTypeOK
<1>1. ParserInv => UrlParserTypeOK
  BY DEF ParserInv
<1> QED
  BY <1>1, ParserInvariant, PTL

(* With all separators read, the parameters are theirs.                     *)
LEMMA LoopFollows == LoopInv => ParamsFollowSeparators
<1> SUFFICES ASSUME LoopInv, where = "done" PROVE ParamsFollowSeparators
  BY DEF ParamsFollowSeparators
<1> DEFINE names == FieldNames(Separators)
<1>1. DOMAIN names = Separators /\ \A e : names[e] = Name(e)
  BY DEF FieldNames, Name
<1>2. Stored(Separators)
  BY DEF LoopInv
<1>3. DOMAIN params_ = {names[e] : e \in DOMAIN names}
  <2> HIDE DEF names
  <2> QED
    BY <1>1, <1>2 DEF Stored
<1>4. ASSUME NEW e \in Separators, CompleteEscapes(Value(e)),
             \A d \in Separators : d > e => names[d] # names[e]
      PROVE  Unescaped(Value(e), param(names[e]))
  <2> HIDE DEF names
  <2>1. param(names[e]) = params_[Name(e)]
    BY <1>1, <1>3 DEF param
  <2> QED
    BY <1>1, <1>2, <1>4, <2>1 DEF Stored
<1> QED
  BY <1>1, <1>3, <1>4 DEF ParamsFollowSeparators, Value

(* Whatever the text is: once parse has returned, the names found are those *)
(* in front of the separators of the text, and each has the unescaped value *)
(* of its last separator.                                                   *)
THEOREM ParamsFollow == UrlParserSpec => []ParamsFollowSeparators
BY LoopInvariant, LoopFollows, PTL

-----------------------------------------------------------------------------
(* Texts that are forms.  In a sequence of positions that grow, each        *)
(* position beyond the first lies in one stretch.                           *)
LEMMA StretchOf ==
  ASSUME NEW n \in Nat, NEW o \in [0 .. n -> Nat], NEW q \in Nat, o[0] < q, q <= o[n]
  PROVE  \E i \in 1 .. n : o[i - 1] < q /\ q <= o[i]
<1> DEFINE S == {i \in 0 .. n : q <= o[i]}
<1>1. PICK i \in S : \A j \in S : i <= j
  <2>1. n \in S /\ S \in SUBSET Nat
    OBVIOUS
  <2> HIDE DEF S
  <2> QED
    BY <2>1, LeastExists
<1>2. i # 0 /\ i \in 1 .. n /\ i - 1 \in 0 .. n /\ ~(i <= i - 1)
  <2>1. o[0] \in Nat /\ ~(q <= o[0])
    OBVIOUS
  <2> QED
    BY <1>1, <2>1
<1>3. i - 1 \notin S
  <2> HIDE DEF S
  <2> QED
    BY <1>1, <1>2
<1>4. ~(q <= o[i - 1]) /\ o[i - 1] \in Nat
  BY <1>2, <1>3
<1> QED
  BY <1>1, <1>2, <1>4

(* F holds the members of s one after the other: member i begins behind     *)
(* o[i - 1].                                                                *)
Joins(F, s, o) ==
  /\ o \in [0 .. Len(s) -> Nat] /\ o[0] = 0 /\ o[Len(s)] = Len(F)
  /\ \A i \in 1 .. Len(s) :
       /\ o[i] = o[i - 1] + Len(s[i]) /\ o[i] <= Len(F)
       /\ \A t \in 1 .. Len(s[i]) : F[o[i - 1] + t] = s[i][t]

LEMMA FlattenIs ==
  ASSUME NEW T, NEW s \in Seq(Seq(T))
  PROVE  FlattenSeq(s) \in Seq(T) /\ \E o : Joins(FlattenSeq(s), s, o)
<1> DEFINE n == Len(s)
<1>1. n \in Nat /\ \A i \in 1 .. n : s[i] \in Seq(T)
  OBVIOUS
<1>2. PICK f \in [0 .. n -> Seq(T)] :
        /\ f[0] = <<>> /\ f[n] = FlattenSeq(s)
        /\ \A i \in 1 .. n : f[i] = f[i - 1] \o s[i]
  BY FlattenSteps
<1> HIDE DEF n
<1>3. \A i \in 0 .. n : f[i] \in Seq(T) /\ Len(f[i]) \in Nat
  BY <1>1, <1>2
<1>4. ASSUME NEW i \in 1 .. n
      PROVE  /\ i - 1 \in 0 .. n /\ i \in 0 .. n /\ Len(s[i]) \in Nat
             /\ Len(f[i]) = Len(f[i - 1]) + Len(s[i])
             /\ \A t \in 1 .. Len(f[i - 1]) : f[i][t] = f[i - 1][t]
             /\ \A t \in 1 .. Len(s[i]) : f[i][Len(f[i - 1]) + t] = s[i][t]
  <2>1. i - 1 \in 0 .. n /\ i \in 0 .. n
    BY <1>1
  <2>2. PICK a \in Seq(T) : a = f[i - 1]
    BY <1>3, <2>1
  <2>3. PICK b \in Seq(T) : b = s[i]
    BY <1>1
  <2>4. f[i] = a \o b
    BY <1>2, <2>2, <2>3
  <2>5. /\ Len(a \o b) = Len(a) + Len(b) /\ Len(b) \in Nat
        /\ \A t \in 1 .. Len(a) : (a \o b)[t] = a[t]
        /\ \A t \in 1 .. Len(b) : (a \o b)[Len(a) + t] = b[t]
    OBVIOUS
  <2> QED
    BY <2>1, <2>2, <2>3, <2>4, <2>5
(* What is there stays. *)
<1>5. \A i, j \in 0 .. n : i <= j =>
        Len(f[i]) <= Len(f[j]) /\ \A t \in 1 .. Len(f[i]) : f[j][t] = f[i][t]
  <2> SUFFICES ASSUME NEW i \in 0 .. n
               PROVE  \A j \in 0 .. n : i <= j =>
                        Len(f[i]) <= Len(f[j])
                          /\ \A t \in 1 .. Len(f[i]) : f[j][t] = f[i][t]
    OBVIOUS
  <2> DEFINE Holds(j) == Len(f[i]) <= Len(f[j])
               /\ \A t \in 1 .. Len(f[i]) : f[j][t] = f[i][t]
             S == {j \in 0 .. n : i <= j /\ ~Holds(j)}
  <2> SUFFICES \A j \in 0 .. n : i <= j => Holds(j)
    OBVIOUS
  <2> SUFFICES ASSUME S # {} PROVE FALSE
    <3> HIDE DEF Holds
    <3> QED
      OBVIOUS
  <2>1. PICK j \in S : \A k \in S : j <= k
    <3>1. S \in SUBSET Nat
      <4> HIDE DEF Holds
      <4> QED
        BY <1>1
    <3> HIDE DEF S
    <3> QED
      BY <3>1, LeastExists
  <2>2. Holds(i)
    BY <1>3
  <2>3. j \in 0 .. n /\ i <= j /\ ~Holds(j) /\ j # i
    <3> HIDE DEF Holds
    <3> QED
      BY <2>1, <2>2
  <2>4. j \in 1 .. n /\ j - 1 \in 0 .. n /\ i <= j - 1 /\ ~(j <= j - 1)
    BY <1>1, <2>3
  <2>5. Holds(j - 1)
    <3> HIDE DEF Holds
    <3> QED
      BY <2>1, <2>4
  <2>6. Len(f[i]) <= Len(f[j])
    <3>1. /\ Len(f[i]) \in Nat /\ Len(f[j - 1]) \in Nat /\ Len(s[j]) \in Nat
          /\ Len(f[j]) = Len(f[j - 1]) + Len(s[j]) /\ Len(f[i]) <= Len(f[j - 1])
      BY <1>3, <1>4, <2>4, <2>5
    <3>2. \A a, b, c \in Nat : a <= b => a <= b + c
      OBVIOUS
    <3> QED
      BY <3>1, <3>2
  <2>7. \A t \in 1 .. Len(f[i]) : f[j][t] = f[i][t]
    <3> TAKE t \in 1 .. Len(f[i])
    <3>1. t \in 1 .. Len(f[j - 1])
      BY <1>3, <2>4, <2>5
    <3>2. f[j][t] = f[j - 1][t]
      BY <1>4, <2>4, <3>1
    <3>3. f[j - 1][t] = f[i][t]
      BY <2>5
    <3> QED
      BY <3>2, <3>3
  <2> QED
    BY <2>3, <2>6, <2>7
<1> DEFINE o == [i \in 0 .. n |-> Len(f[i])]
<1>6. o \in [0 .. n -> Nat] /\ \A i \in 0 .. n : o[i] = Len(f[i])
  BY <1>3
<1>7. n \in 0 .. n /\ 0 \in 0 .. n
  BY <1>1
<1> HIDE DEF o
<1>8. FlattenSeq(s) \in Seq(T) /\ o[0] = 0 /\ o[n] = Len(FlattenSeq(s))
  BY <1>2, <1>3, <1>6, <1>7
<1>9. ASSUME NEW i \in 1 .. n
      PROVE  /\ o[i] = o[i - 1] + Len(s[i]) /\ o[i] <= Len(FlattenSeq(s))
             /\ \A t \in 1 .. Len(s[i]) : FlattenSeq(s)[o[i - 1] + t] = s[i][t]
  <2>1. o[i] = o[i - 1] + Len(s[i])
    BY <1>4, <1>6
  <2>2. i <= n /\ i \in 0 .. n
    BY <1>1
  <2>3. /\ Len(f[i]) <= Len(FlattenSeq(s))
        /\ \A t \in 1 .. Len(f[i]) : FlattenSeq(s)[t] = f[i][t]
    BY <1>2, <1>5, <1>7, <2>2
  <2>4. ASSUME NEW t \in 1 .. Len(s[i])
        PROVE  FlattenSeq(s)[o[i - 1] + t] = s[i][t]
    <3>1. /\ o[i - 1] = Len(f[i - 1]) /\ Len(f[i - 1]) \in Nat /\ Len(s[i]) \in Nat
          /\ Len(f[i]) = Len(f[i - 1]) + Len(s[i])
          /\ f[i][Len(f[i - 1]) + t] = s[i][t]
      BY <1>3, <1>4, <1>6
    <3>2. Len(f[i - 1]) + t \in 1 .. Len(f[i])
      <4>1. \A a, b \in Nat : \A x \in 1 .. b : a + x \in 1 .. a + b
        OBVIOUS
      <4> QED
        BY <3>1, <4>1
    <3> QED
      BY <2>3, <3>1, <3>2
  <2> QED
    BY <1>6, <2>1, <2>2, <2>3, <2>4
<1>10. Joins(FlattenSeq(s), s, o)
  BY <1>6, <1>8, <1>9 DEF n, Joins
<1> QED
  BY <1>8, <1>10

(* What a value is sent as, and how the decoder's specification reads it.   *)
EscapedValue(value, style) ==
  FlattenSeq([i \in 1 .. Len(value) |-> Escaped(value[i], style)])

(* An escape is three bytes that stand for one.                             *)
LEMMA EscapedIs ==
  ASSUME NEW b \in Byte, NEW style, NEW s, s = Escaped(b, style)
  PROVE  /\ s \in Seq(Byte)
         /\ b \notin Reserved => Len(s) = 1 /\ s[1] = b /\ b # Percent
         /\ b \in Reserved =>
              /\ Len(s) = 3 /\ s[1] = Percent /\ {s[2], s[3]} \subseteq HexDigits
              /\ 16 * hex_digit_to_int(s[2]) + hex_digit_to_int(s[3]) = b
<1>1. b \div 16 \in 0 .. 15 /\ b % 16 \in 0 .. 15 /\ 16 * (b \div 16) + (b % 16) = b
  BY DEF Byte
<1>2. ASSUME NEW n \in 0 .. 15
      PROVE  /\ LowerDigit(n) \in HexDigits /\ hex_digit_to_int(LowerDigit(n)) = n
             /\ UpperDigit(n) \in HexDigits /\ hex_digit_to_int(UpperDigit(n)) = n
  BY DEF LowerDigit, UpperDigit, HexDigits, hex_digit_to_int
<1>3. Percent \in Byte /\ Percent \in Reserved /\ HexDigits \subseteq Byte
  BY DigitsTyped DEF Percent, Byte, Reserved
<1>4. CASE b \notin Reserved
  BY <1>3, <1>4 DEF Escaped
<1>5. CASE b \in Reserved
  <2>1. PICK x, y : /\ s = <<Percent, x, y>> /\ x \in HexDigits /\ y \in HexDigits
                    /\ hex_digit_to_int(x) = b \div 16 /\ hex_digit_to_int(y) = b % 16
    BY <1>1, <1>2, <1>5 DEF Escaped
  <2> QED
    BY <1>1, <1>3, <1>5, <2>1
<1> QED
  BY <1>4, <1>5

(* An escaped value has nothing that parse would stop at, its escapes are   *)
(* complete, and it is read as that value only.                             *)
LEMMA EscapedValueIs ==
  ASSUME NEW value \in Seq(Byte), NEW style, NEW F, F = EscapedValue(value, style)
  PROVE  /\ F \in Seq(Byte)
         /\ \A q \in 1 .. Len(F) : F[q] \notin {Ampersand, Equals, Question}
         /\ CompleteEscapes(F)
         /\ \A v \in Seq(Byte) : Unescaped(F, v) => v = value
<1> DEFINE e == [i \in 1 .. Len(value) |-> Escaped(value[i], style)]
           n == Len(value)
<1>1. n \in Nat /\ \A i \in 1 .. n : value[i] \in Byte
  OBVIOUS
<1>2. e \in Seq(Seq(Byte)) /\ Len(e) = n
  BY <1>1, EscapedIs
<1>3. ASSUME NEW i \in 1 .. n
      PROVE  /\ e[i] \in Seq(Byte)
             /\ value[i] \notin Reserved =>
                  Len(e[i]) = 1 /\ e[i][1] = value[i] /\ value[i] # Percent
             /\ value[i] \in Reserved =>
                  /\ Len(e[i]) = 3 /\ e[i][1] = Percent
                  /\ {e[i][2], e[i][3]} \subseteq HexDigits
                  /\ 16 * hex_digit_to_int(e[i][2]) + hex_digit_to_int(e[i][3]) = value[i]
  <2>1. e[i] = Escaped(value[i], style)
    OBVIOUS
  <2> HIDE DEF e
  <2> QED
    BY <1>1, <2>1, EscapedIs
<1>4. F = FlattenSeq(e)
  BY DEF EscapedValue
<1> HIDE DEF e, n
<1>5. PICK o \in [0 .. n -> Nat] :
        /\ F \in Seq(Byte) /\ o[0] = 0 /\ o[n] = Len(F)
        /\ \A i \in 1 .. n : /\ o[i] = o[i - 1] + Len(e[i]) /\ o[i] <= Len(F)
                             /\ \A t \in 1 .. Len(e[i]) : F[o[i - 1] + t] = e[i][t]
  <2>1. FlattenSeq(e) \in Seq(Byte) /\ \E o : Joins(FlattenSeq(e), e, o)
    BY <1>2, FlattenIs
  <2>2. F \in Seq(Byte) /\ \E o : Joins(F, e, o)
    BY <1>4, <2>1
  <2> QED
    BY <1>2, <2>2 DEF Joins
<1>6. Len(F) \in Nat /\ \A i \in 0 .. n : o[i] \in Nat
  <2>1. F \in Seq(Byte)
    BY <1>5
  <2>2. \A i \in 0 .. n : o[i] \in Nat
    OBVIOUS
  <2> QED
    BY <2>1, <2>2
(* The bytes of each member. *)
<1>7. ASSUME NEW i \in 1 .. n
      PROVE  /\ o[i - 1] \in Nat /\ i - 1 \in 0 .. n /\ o[i - 1] + 1 <= o[i]
             /\ o[i] <= Len(F)
             /\ value[i] \notin Reserved =>
                  /\ o[i] = o[i - 1] + 1
                  /\ F[o[i - 1] + 1] = value[i] /\ value[i] # Percent
             /\ value[i] \in Reserved =>
                  /\ o[i] = o[i - 1] + 3 /\ F[o[i - 1] + 1] = Percent
                  /\ {F[o[i - 1] + 2], F[o[i - 1] + 3]} \subseteq HexDigits
                  /\ 16 * hex_digit_to_int(F[o[i - 1] + 2])
                       + hex_digit_to_int(F[o[i - 1] + 3]) = value[i]
  <2>1. i - 1 \in 0 .. n
    BY <1>1
  <2>2. o[i - 1] \in Nat
    BY <1>6, <2>1
  <2>3. /\ o[i] = o[i - 1] + Len(e[i]) /\ o[i] <= Len(F)
        /\ \A t \in 1 .. Len(e[i]) : F[o[i - 1] + t] = e[i][t]
    BY <1>5
  <2>4. CASE value[i] \notin Reserved
    <3>1. Len(e[i]) = 1 /\ e[i][1] = value[i] /\ value[i] # Percent
      BY <1>3, <2>4
    <3>2. F[o[i - 1] + 1] = e[i][1]
      <4>1. 1 \in 1 .. Len(e[i])
        BY <3>1
      <4> QED
        BY <2>3, <4>1
    <3> QED
      BY <2>1, <2>2, <2>3, <2>4, <3>1, <3>2
  <2>5. CASE value[i] \in Reserved
    <3>1. /\ Len(e[i]) = 3 /\ e[i][1] = Percent
          /\ {e[i][2], e[i][3]} \subseteq HexDigits
          /\ 16 * hex_digit_to_int(e[i][2]) + hex_digit_to_int(e[i][3]) = value[i]
      BY <1>3, <2>5
    <3>2. /\ F[o[i - 1] + 1] = e[i][1] /\ F[o[i - 1] + 2] = e[i][2]
          /\ F[o[i - 1] + 3] = e[i][3]
      <4>1. 1 \in 1 .. Len(e[i]) /\ 2 \in 1 .. Len(e[i]) /\ 3 \in 1 .. Len(e[i])
        BY <3>1
      <4> QED
        BY <2>3, <4>1
    <3>3. o[i] = o[i - 1] + 3 /\ o[i - 1] + 1 <= o[i]
      BY <2>2, <2>3, <3>1
    <3> QED
      BY <2>1, <2>2, <2>3, <2>5, <3>1, <3>2, <3>3
  <2> QED
    BY <2>4, <2>5
<1>8. ASSUME NEW q \in 1 .. Len(F)
      PROVE  /\ F[q] \notin {Ampersand, Equals, Question}
             /\ F[q] = Percent => /\ q + 2 <= Len(F)
                                  /\ {F[q + 1], F[q + 2]} \subseteq HexDigits
  <2>1. PICK i \in 1 .. n : o[i - 1] < q /\ q <= o[i]
    <3>1. q \in Nat /\ 0 < q /\ q <= Len(F)
      BY <1>6
    <3>2. o[0] < q /\ q <= o[n]
      BY <1>5, <3>1
    <3> QED
      BY <1>1, <3>1, <3>2, StretchOf
  <2>2. {Ampersand, Equals, Question, Percent} \subseteq Reserved
    BY DEF Reserved
  <2>3. CASE value[i] \notin Reserved
    <3>1. q = o[i - 1] + 1
      BY <1>7, <2>1, <2>3
    <3> QED
      BY <1>7, <2>2, <2>3, <3>1
  <2>4. CASE value[i] \in Reserved
    <3> DEFINE m == o[i - 1]
    <3>1. /\ m \in Nat /\ o[i] = m + 3 /\ o[i] <= Len(F) /\ F[m + 1] = Percent
          /\ F[m + 2] \in HexDigits /\ F[m + 3] \in HexDigits
      BY <1>7, <2>4
    <3>2. m < q /\ q <= o[i]
      BY <2>1
    <3> HIDE DEF m
    <3>3. q = m + 1 \/ q = m + 2 \/ q = m + 3
      BY <3>1, <3>2
    <3>4. CASE q = m + 1
      <4>1. q + 1 = m + 2 /\ q + 2 = m + 3 /\ q + 2 <= Len(F)
        BY <1>6, <3>1, <3>4
      <4>2. Percent \notin {Ampersand, Equals, Question}
        BY DEF Percent, Ampersand, Equals, Question
      <4> QED
        BY <3>1, <3>4, <4>1, <4>2
    <3>5. CASE q # m + 1
      <4>1. F[q] \in HexDigits
        BY <3>1, <3>3, <3>5
      <4> QED
        BY <2>2, <4>1, DigitsTyped
    <3> QED
      BY <3>4, <3>5
  <2> QED
    BY <2>3, <2>4
<1>9. CompleteEscapes(F)
  BY <1>8 DEF CompleteEscapes
(* The i-th place is where member i begins. *)
<1> DEFINE Rank(m) == Cardinality(PlacesUpto(F, m))
           Holds(i) == Clear(F, o[i]) /\ Rank(o[i]) = i
<1>10. ASSUME NEW i \in 1 .. n, Holds(i - 1)
       PROVE  /\ Holds(i) /\ o[i - 1] + 1 \in Places(F) /\ Rank(o[i - 1] + 1) = i
              /\ ByteAt(F, o[i - 1] + 1) = value[i]
  <2> DEFINE m == o[i - 1]
  <2>1. m \in Nat /\ m < Len(F) /\ m + 1 <= o[i] /\ o[i] <= Len(F)
    BY <1>6, <1>7
  <2>2. Clear(F, m) /\ Rank(m) = i - 1
    BY <1>10
  <2>3. m + 1 \in Places(F) /\ Rank(m + 1) = i
    <3>1. m + 1 \in Places(F) /\ Rank(m + 1) = Rank(m) + 1
      BY <1>5, <2>1, <2>2, NextPlace
    <3> HIDE DEF Rank, m
    <3> QED
      BY <1>1, <2>2, <3>1
  <2>4. CASE value[i] \notin Reserved
    <3>1. o[i] = m + 1 /\ F[m + 1] = value[i] /\ value[i] # Percent
      BY <1>7, <2>4
    <3>2. Clear(F, m + 1)
      <4> SUFFICES ASSUME NEW j \in {1, 2}, m + 1 + 1 - j \in 1 .. Len(F)
                   PROVE  F[m + 1 + 1 - j] # Percent
        BY DEF Clear
      <4> HIDE DEF m
      <4>1. CASE j = 1
        <5>1. m + 1 + 1 - j = m + 1
          BY <2>1, <4>1
        <5> QED
          BY <3>1, <5>1
      <4>2. CASE j = 2
        <5>1. m + 1 + 1 - j = m + 1 - 1
          BY <2>1, <4>2
        <5> QED
          BY <2>2, <5>1 DEF Clear
      <4> QED
        BY <4>1, <4>2
    <3>3. ByteAt(F, m + 1) = value[i]
      BY <3>1 DEF ByteAt
    <3> HIDE DEF Rank, m
    <3> QED
      BY <2>3, <3>1, <3>2, <3>3 DEF m
  <2>5. CASE value[i] \in Reserved
    <3>1. /\ o[i] = m + 3 /\ F[m + 1] = Percent
          /\ F[m + 2] \in HexDigits /\ F[m + 3] \in HexDigits
          /\ 16 * hex_digit_to_int(F[m + 2]) + hex_digit_to_int(F[m + 3]) = value[i]
      BY <1>7, <2>5
    <3> HIDE DEF m
    <3>2. Clear(F, m + 3)
      <4> SUFFICES ASSUME NEW j \in {1, 2} PROVE F[m + 3 + 1 - j] # Percent
        BY DEF Clear
      <4>1. m + 3 + 1 - 1 = m + 3 /\ m + 3 + 1 - 2 = m + 2
        BY <2>1
      <4>2. F[m + 3] # Percent /\ F[m + 2] # Percent
        BY <3>1, DigitsTyped DEF Reserved
      <4> QED
        BY <4>1, <4>2
    <3>3. PlacesUpto(F, m + 3) = PlacesUpto(F, m + 1)
      BY <1>5, <2>1, <3>1, EscapeHasOnePlace
    <3>4. ByteAt(F, m + 1) = value[i]
      <4>1. m + 1 + 1 = m + 2 /\ m + 1 + 2 = m + 3
        BY <2>1
      <4> QED
        BY <3>1, <4>1 DEF ByteAt
    <3> QED
      BY <2>3, <3>1, <3>2, <3>3, <3>4 DEF m
  <2> QED
    BY <2>4, <2>5
<1>11. Holds(0)
  <2>1. PlacesUpto(F, 0) = {} /\ Clear(F, 0)
    BY DEF PlacesUpto, Places, Clear
  <2> QED
    BY <1>5, <2>1, FS_EmptySet
<1>12. \A i \in 0 .. n : Holds(i)
  <2> DEFINE S == {i \in 0 .. n : ~Holds(i)}
  <2> SUFFICES ASSUME S # {} PROVE FALSE
    <3> HIDE DEF Holds
    <3> QED
      OBVIOUS
  <2> HIDE DEF Holds
  <2>1. PICK i \in S : \A j \in S : i <= j
    <3>1. S \in SUBSET Nat
      BY <1>1
    <3> HIDE DEF S
    <3> QED
      BY <3>1, LeastExists
  <2>2. i # 0
    BY <1>11
  <2>3. i \in 1 .. n /\ i - 1 \in 0 .. n /\ ~(i <= i - 1)
    BY <1>1, <2>2
  <2>4. Holds(i - 1)
    BY <2>1, <2>3
  <2> QED
    BY <1>10, <2>3, <2>4
<1>13. ASSUME NEW v \in Seq(Byte), Unescaped(F, v)
       PROVE  v = value
  <2>1. Len(v) = n
    <3>1. PlacesUpto(F, Len(F)) = Places(F)
      BY <1>6 DEF PlacesUpto, Places
    <3>2. Rank(o[n]) = n
      <4>1. n \in 0 .. n
        BY <1>1
      <4> HIDE DEF Rank
      <4> QED
        BY <1>12, <4>1
    <3>3. Len(v) = Cardinality(Places(F))
      BY <1>13 DEF Unescaped
    <3> QED
      BY <1>5, <3>1, <3>2, <3>3
  <2>2. ASSUME NEW i \in 1 .. n PROVE v[i] = value[i]
    <3>1. /\ o[i - 1] + 1 \in Places(F) /\ Rank(o[i - 1] + 1) = i
          /\ ByteAt(F, o[i - 1] + 1) = value[i]
      <4>1. i - 1 \in 0 .. n
        BY <1>1
      <4> HIDE DEF Holds, Rank
      <4> QED
        BY <1>10, <1>12, <4>1
    <3>2. v[Rank(o[i - 1] + 1)] = ByteAt(F, o[i - 1] + 1)
      BY <1>13, <3>1 DEF Unescaped, PlacesUpto
    <3> HIDE DEF Rank
    <3> QED
      BY <3>1, <3>2
  <2>3. Len(value) = n /\ \A i \in 1 .. n : v[i] = value[i]
    BY <2>2 DEF n
  <2> QED
    BY <2>1, <2>3, SeqEqual
<1> QED
  BY <1>5, <1>8, <1>9, <1>13

(* s stands in u behind m. *)
At(s, u, m) == \A t \in 1 .. Len(s) : u[m + t] = s[t]

Cut(s, u, m) == SubSeq(u, m + 1, m + Len(s))

LEMMA CutIs ==
  ASSUME NEW T, NEW s \in Seq(T), NEW u, NEW m \in Nat, At(s, u, m)
  PROVE  Cut(s, u, m) = s
<1> DEFINE a == Len(s)
<1>1. /\ a \in Nat /\ \A t \in 1 .. a : s[t] \in T
      /\ \A t \in 1 .. a : u[m + t] = s[t]
  BY DEF At
<1> HIDE DEF a
<1>2. ASSUME NEW p \in m + 1 .. m + a PROVE u[p] \in T
  <2>1. p - m \in 1 .. a /\ p = m + (p - m)
    BY <1>1
  <2>2. u[m + (p - m)] = s[p - m]
    BY <1>1, <2>1
  <2> QED
    BY <1>1, <2>1, <2>2
<1>3. PICK c : c = SubSeq(u, m + 1, m + a)
  OBVIOUS
<1>4. m + 1 \in Int /\ m + a \in Int
  BY <1>1
<1>5. /\ c \in Seq(T) /\ Len(c) = (IF m + 1 <= m + a THEN (m + a) - (m + 1) + 1 ELSE 0)
      /\ \A t \in 1 .. (m + a) - (m + 1) + 1 : c[t] = u[(m + 1) + t - 1]
  BY <1>2, <1>3, <1>4, SubSeqProperties
<1>6. Len(c) = a
  BY <1>1, <1>5
<1>7. \A t \in 1 .. a : c[t] = s[t]
  <2> TAKE t \in 1 .. a
  <2>1. t \in 1 .. (m + a) - (m + 1) + 1 /\ (m + 1) + t - 1 = m + t
    BY <1>1
  <2> QED
    BY <1>1, <1>5, <2>1
<1>8. c = s
  BY <1>5, <1>6, <1>7, SeqEqual DEF a
<1> QED
  BY <1>3, <1>8 DEF Cut, a

(* Two sequences behind each other.                                         *)
LEMMA ConcatIs ==
  ASSUME NEW T, NEW a \in Seq(T), NEW b \in Seq(T), NEW c, c = a \o b
  PROVE  /\ c \in Seq(T) /\ Len(c) = Len(a) + Len(b)
         /\ \A t \in 1 .. Len(a) : c[t] = a[t]
         /\ \A t \in 1 .. Len(b) : c[Len(a) + t] = b[t]
<1>1. /\ Len(a \o b) = Len(a) + Len(b) /\ a \o b \in Seq(T)
      /\ \A t \in 1 .. Len(a) : (a \o b)[t] = a[t]
      /\ \A t \in 1 .. Len(b) : (a \o b)[Len(a) + t] = b[t]
  OBVIOUS
<1> QED
  BY <1>1

(* s is the field of that name whose value is sent as F.                    *)
FieldBytes(s, name, F) ==
  /\ s \in Seq(Byte) /\ Len(s) = Len(name) + 1 + Len(F)
  /\ name \in Seq(Byte) /\ F \in Seq(Byte)
  /\ \A t \in 1 .. Len(name) : s[t] = name[t] /\ s[t] \notin Reserved
  /\ s[Len(name) + 1] = Equals
  /\ \A t \in 1 .. Len(F) : s[Len(name) + 1 + t] = F[t]

LEMMA EncodedFieldIs ==
  ASSUME NEW f \in Fields
  PROVE  /\ f.name \in Seq(Byte) /\ f.value \in Seq(Byte)
         /\ FieldBytes(EncodedField(f), f.name, EscapedValue(f.value, f.style))
<1> DEFINE s == EncodedField(f)
           F == EscapedValue(f.value, f.style)
<1>1. f.name \in Seq(Byte \ Reserved) /\ f.value \in Seq(Byte)
  BY UrlParserAssumption
<1>2. F \in Seq(Byte)
  BY <1>1, EscapedValueIs
<1>3. PICK name \in Seq(Byte \ Reserved) : name = f.name
  BY <1>1
<1>4. s = name \o <<Equals>> \o F
  BY <1>3 DEF EncodedField, EscapedValue
<1> HIDE DEF s, F
<1>5. Equals \in Byte /\ name \in Seq(Byte)
  BY DEF Equals, Byte
<1>6. /\ name \o <<Equals>> \in Seq(Byte) /\ Len(name \o <<Equals>>) = Len(name) + 1
      /\ \A t \in 1 .. Len(name) : (name \o <<Equals>>)[t] = name[t]
      /\ (name \o <<Equals>>)[Len(name) + 1] = Equals
  BY <1>5
<1>7. PICK h \in Seq(Byte) :
      /\ Len(h) = Len(name) + 1 /\ s = h \o F
      /\ \A t \in 1 .. Len(name) : h[t] = name[t]
      /\ h[Len(name) + 1] = Equals
  BY <1>4, <1>6
<1>8. /\ s \in Seq(Byte) /\ Len(s) = Len(h) + Len(F)
      /\ \A t \in 1 .. Len(h) : s[t] = h[t]
      /\ \A t \in 1 .. Len(F) : s[Len(h) + t] = F[t]
  <2>1. \A a, b \in Seq(Byte) : \A c : c = a \o b =>
          /\ c \in Seq(Byte) /\ Len(c) = Len(a) + Len(b)
          /\ \A t \in 1 .. Len(a) : c[t] = a[t]
          /\ \A t \in 1 .. Len(b) : c[Len(a) + t] = b[t]
    BY ConcatIs
  <2>2. h \in Seq(Byte)
    OBVIOUS
  <2>3. F \in Seq(Byte)
    BY <1>2
  <2>4. s = h \o F
    BY <1>7
  <2> QED
    BY <2>1, <2>2, <2>3, <2>4
<1>9. \A t \in 1 .. Len(name) : t \in 1 .. Len(h) /\ name[t] \notin Reserved
  BY <1>7
<1>10. Len(name) + 1 \in 1 .. Len(h)
  BY <1>5, <1>7
<1> QED
  BY <1>1, <1>2, <1>3, <1>5, <1>7, <1>8, <1>9, <1>10 DEF FieldBytes, s, F

(* url_ encodes fields: field i ends in front of ends[i].                   *)
Form(ends) ==
  /\ ends \in [0 .. Len(fields) -> Nat]
  /\ ends[0] = 0 /\ ends[Len(fields)] = Len(url_) + 1
  /\ \A i \in 1 .. Len(fields) :
       LET s == EncodedField(fields[i]) IN
       /\ ends[i] = ends[i - 1] + Len(s) + 1
       /\ i # Len(fields) => url_[ends[i]] = Ampersand
       /\ \A t \in 1 .. Len(s) : url_[ends[i - 1] + t] = s[t]

FormInv == fields # <<>> => \E ends : Form(ends)

(* What grows at every step grows.                                          *)
LEMMA Grows ==
  ASSUME NEW n \in Nat, NEW o \in [0 .. n -> Nat], \A i \in 1 .. n : o[i - 1] <= o[i],
         NEW i \in 0 .. n
  PROVE  \A j \in 0 .. n : i <= j => o[i] <= o[j]
<1> DEFINE S == {j \in 0 .. n : i <= j /\ ~(o[i] <= o[j])}
<1> SUFFICES ASSUME S # {} PROVE FALSE
  OBVIOUS
<1>1. PICK j \in S : \A k \in S : j <= k
  <2>1. S \in SUBSET Nat
    OBVIOUS
  <2> HIDE DEF S
  <2> QED
    BY <2>1, LeastExists
<1>2. j # i /\ j \in 0 .. n /\ i <= j
  OBVIOUS
<1>3. j \in 1 .. n /\ j - 1 \in 0 .. n /\ i <= j - 1 /\ ~(j <= j - 1)
  BY <1>2
<1>4. o[i] <= o[j - 1]
  BY <1>1, <1>3
<1>5. /\ o[j - 1] <= o[j] /\ o[i] \in Nat /\ o[j] \in Nat /\ o[j - 1] \in Nat
      /\ ~(o[i] <= o[j])
  BY <1>3
<1> QED
  BY <1>4, <1>5

(* A form stays one, and a further field makes it a longer one.             *)
LEMMA FormStep == ParserInv /\ FormInv /\ [UrlParserNext]_parserVars => FormInv'
<1> SUFFICES ASSUME ParserInv, FormInv, [UrlParserNext]_parserVars PROVE FormInv'
  OBVIOUS
<1>1. ASSUME UNCHANGED <<url_, fields>> PROVE FormInv'
  BY <1>1 DEF FormInv, Form
<1>2. ASSUME NEW b \in Alphabet, AddByte(b) PROVE FormInv'
  BY <1>2 DEF AddByte, FormInv
<1>3. ASSUME NEW f \in Fields, AddField(f) PROVE FormInv'
  <2> DEFINE n == Len(fields)
  <2>1. /\ fields \in Seq(Fields) /\ n \in Nat /\ url_ \in Seq(Byte)
        /\ fields' = Append(fields, f)
        /\ url_' = IF fields = <<>> THEN EncodedField(f)
                   ELSE url_ \o <<Ampersand>> \o EncodedField(f)
    BY <1>3 DEF AddField, ParserInv, UrlParserTypeOK
  <2>2. /\ Len(fields') = n + 1 /\ fields'[n + 1] = f
        /\ \A i \in 1 .. n : fields'[i] = fields[i]
    BY <2>1
  <2>3. PICK s \in Seq(Byte) : s = EncodedField(f)
    BY FieldTyped
  <2>4. CASE fields = <<>>
    <3>1. n = 0 /\ url_' = s
      BY <2>1, <2>3, <2>4
    <3> DEFINE ends == [i \in 0 .. 1 |-> IF i = 0 THEN 0 ELSE Len(s) + 1]
    <3>2. ends \in [0 .. 1 -> Nat] /\ ends[0] = 0 /\ ends[1] = Len(s) + 1
      BY <2>3
    <3> HIDE DEF ends, n
    <3>3. Len(fields') = 1 /\ fields'[1] = f
      BY <2>2, <3>1
    <3>4. \A i \in 1 .. 1 : i = 1 /\ i - 1 = 0
      OBVIOUS
    <3>5. ends[1] = 0 + Len(s) + 1 /\ Len(url_') + 1 = Len(s) + 1
          /\ \A t \in 1 .. Len(s) : 0 + t = t
      BY <2>3, <3>1, <3>2
    <3>6. Form(ends)'
      BY <2>3, <3>1, <3>2, <3>3, <3>4, <3>5 DEF Form
    <3> QED
      BY <3>6 DEF FormInv
  <2>5. CASE fields # <<>>
    <3>1. PICK old : Form(old)
      BY <2>5 DEF FormInv
    <3>2. Ampersand \in Byte
      BY DEF Ampersand, Byte
    <3>3. PICK u \in Seq(Byte) : u = url_
      BY <2>1
    <3>4. url_' = u \o <<Ampersand>> \o s
      BY <2>1, <2>3, <2>5, <3>3
    <3>5. /\ Len(url_') = Len(u) + 1 + Len(s) /\ Len(u) \in Nat /\ Len(s) \in Nat
          /\ \A t \in 1 .. Len(u) : url_'[t] = u[t]
          /\ url_'[Len(u) + 1] = Ampersand
          /\ \A t \in 1 .. Len(s) : url_'[Len(u) + 1 + t] = s[t]
      <4>1. PICK h : h = u \o <<Ampersand>>
        OBVIOUS
      <4>2. /\ h \in Seq(Byte) /\ Len(h) = Len(u) + 1 /\ Len(u) \in Nat
            /\ \A t \in 1 .. Len(u) : h[t] = u[t] /\ t \in 1 .. Len(h)
            /\ h[Len(u) + 1] = Ampersand /\ Len(u) + 1 \in 1 .. Len(h)
        BY <3>2, <4>1
      <4>3. url_' = h \o s
        BY <3>4, <4>1
      <4>4. /\ Len(url_') = Len(h) + Len(s) /\ Len(s) \in Nat
            /\ \A t \in 1 .. Len(h) : url_'[t] = h[t]
            /\ \A t \in 1 .. Len(s) : url_'[Len(h) + t] = s[t]
        BY <4>2, <4>3, ConcatIs
      <4> QED
        BY <4>2, <4>4
    <3>6. /\ old \in [0 .. n -> Nat] /\ old[0] = 0 /\ old[n] = Len(u) + 1
          /\ \A i \in 1 .. n :
               /\ old[i] = old[i - 1] + Len(EncodedField(fields[i])) + 1
               /\ i # n => u[old[i]] = Ampersand
               /\ \A t \in 1 .. Len(EncodedField(fields[i])) :
                    u[old[i - 1] + t] = EncodedField(fields[i])[t]
      BY <3>1, <3>3 DEF Form
    <3> HIDE DEF n
    <3>7. PICK ends \in [0 .. n + 1 -> Nat] :
            /\ ends[n + 1] = Len(u) + Len(s) + 2
            /\ \A i \in 0 .. n : ends[i] = old[i]
      <4> DEFINE e == [i \in 0 .. n + 1 |->
                         IF i = n + 1 THEN Len(u) + Len(s) + 2 ELSE old[i]]
      <4>1. \A i \in 0 .. n : i \in 0 .. n + 1 /\ i # n + 1 /\ old[i] \in Nat
        BY <2>1, <3>6
      <4>2. \A i \in 0 .. n + 1 : i # n + 1 => i \in 0 .. n
        BY <2>1
      <4>3. n + 1 \in 0 .. n + 1 /\ Len(u) + Len(s) + 2 \in Nat
        BY <2>1, <3>5
      <4>4. e \in [0 .. n + 1 -> Nat]
        BY <4>1, <4>2, <4>3
      <4>5. e[n + 1] = Len(u) + Len(s) + 2 /\ \A i \in 0 .. n : e[i] = old[i]
        BY <4>1, <4>3
      <4> HIDE DEF e
      <4> QED
        BY <4>4, <4>5
    <3>8. ASSUME NEW i \in 1 .. n
          PROVE  /\ Len(EncodedField(fields[i])) \in Nat
                 /\ i - 1 \in 0 .. n /\ i \in 0 .. n /\ old[i - 1] \in Nat
                      /\ old[i] \in Nat
                 /\ old[i - 1] <= old[i]
      <4>1. i - 1 \in 0 .. n /\ i \in 0 .. n
        BY <2>1
      <4>2. old[i - 1] \in Nat /\ old[i] \in Nat
        BY <3>6, <4>1
      <4>3. fields[i] \in Fields
        BY <2>1 DEF n
      <4>4. Len(EncodedField(fields[i])) \in Nat
        <5>1. EncodedField(fields[i]) \in Seq(Byte)
          BY <4>3, FieldTyped
        <5> QED
          BY <5>1
      <4>5. old[i] = old[i - 1] + Len(EncodedField(fields[i])) + 1
        BY <3>6
      <4> QED
        BY <4>1, <4>2, <4>4, <4>5
    <3>9. \A i \in 0 .. n : old[i] <= Len(u) + 1
      <4>1. \A i \in 0 .. n : \A j \in 0 .. n : i <= j => old[i] <= old[j]
        BY <2>1, <3>6, <3>8, Grows
      <4> QED
        BY <2>1, <3>6, <4>1
    <3>10. ASSUME NEW i \in 1 .. n
           PROVE  /\ ends[i] = ends[i - 1] + Len(EncodedField(fields[i])) + 1
                  /\ url_'[ends[i]] = Ampersand
                  /\ \A t \in 1 .. Len(EncodedField(fields[i])) :
                       url_'[ends[i - 1] + t] = EncodedField(fields[i])[t]
      <4>1. ends[i] = old[i] /\ ends[i - 1] = old[i - 1]
        BY <3>7, <3>8
      <4>2. /\ Len(EncodedField(fields[i])) \in Nat /\ old[i - 1] \in Nat
                 /\ old[i] \in Nat
            /\ old[i] = old[i - 1] + Len(EncodedField(fields[i])) + 1
            /\ old[i] <= Len(u) + 1
        BY <3>6, <3>8, <3>9
      <4>3. ends[i] = ends[i - 1] + Len(EncodedField(fields[i])) + 1
        BY <4>1, <4>2
      <4>4. url_'[old[i]] = Ampersand
        <5>1. CASE old[i] = Len(u) + 1
          BY <3>5, <5>1
        <5>2. CASE old[i] # Len(u) + 1
          <6>1. i # n
            BY <3>6, <5>2
          <6>2. old[i] \in 1 .. Len(u)
            BY <3>5, <4>2, <5>2
          <6> QED
            BY <3>5, <3>6, <6>1, <6>2
        <5> QED
          BY <5>1, <5>2
      <4>5. ASSUME NEW t \in 1 .. Len(EncodedField(fields[i]))
            PROVE  url_'[old[i - 1] + t] = EncodedField(fields[i])[t]
        <5>1. old[i - 1] + t \in 1 .. Len(u)
          <6>1. \A o, l, x \in Nat : \A q \in 1 .. l : o + l + 1 <= x + 1 => o + q \in 1 .. x
            OBVIOUS
          <6> QED
            BY <3>5, <4>2, <6>1
        <5> QED
          BY <3>5, <3>6, <5>1
      <4> QED
        BY <4>1, <4>3, <4>4, <4>5
    <3>11. /\ ends[n + 1] = ends[n] + Len(s) + 1
           /\ \A t \in 1 .. Len(s) : url_'[ends[n] + t] = s[t]
      <4>1. n \in 0 .. n
        BY <2>1
      <4>2. ends[n] = Len(u) + 1
        BY <3>6, <3>7, <4>1
      <4> QED
        BY <3>5, <3>7, <4>1, <4>2
    <3>12. ends[0] = 0 /\ ends[n + 1] = Len(url_') + 1
      <4>1. 0 \in 0 .. n
        BY <2>1
      <4> QED
        BY <3>5, <3>6, <3>7, <4>1
    <3>13. \A i \in 1 .. n + 1 : i \in 1 .. n \/ i = n + 1
      BY <2>1
    <3>14. Len(fields') = n + 1 /\ fields'[n + 1] = f
             /\ \A i \in 1 .. n : fields'[i] = fields[i]
      BY <2>2
    <3>15. ASSUME NEW i \in 1 .. n + 1
           PROVE  /\ ends[i] = ends[i - 1] + Len(EncodedField(fields'[i])) + 1
                  /\ i # n + 1 => url_'[ends[i]] = Ampersand
                  /\ \A t \in 1 .. Len(EncodedField(fields'[i])) :
                       url_'[ends[i - 1] + t] = EncodedField(fields'[i])[t]
      <4>1. CASE i \in 1 .. n
        <5>1. fields'[i] = fields[i]
          BY <3>14, <4>1
        <5> QED
          BY <3>10, <4>1, <5>1
      <4>2. CASE i = n + 1
        <5>1. EncodedField(fields'[i]) = s
          BY <2>3, <3>14, <4>2
        <5>2. ends[i] = ends[n + 1] /\ ends[i - 1] = ends[n]
          BY <2>1, <4>2
        <5> QED
          BY <3>11, <4>2, <5>1, <5>2
      <4> QED
        BY <3>13, <4>1, <4>2
    <3>16. Form(ends)'
      <4>1. PICK k : k = n + 1
        OBVIOUS
      <4>2. /\ ends \in [0 .. k -> Nat] /\ ends[0] = 0 /\ ends[k] = Len(url_') + 1
            /\ Len(fields') = k
        BY <3>12, <3>14, <4>1
      <4>3. \A i \in 1 .. k :
              /\ ends[i] = ends[i - 1] + Len(EncodedField(fields'[i])) + 1
              /\ i # k => url_'[ends[i]] = Ampersand
              /\ \A t \in 1 .. Len(EncodedField(fields'[i])) :
                   url_'[ends[i - 1] + t] = EncodedField(fields'[i])[t]
        BY <3>15, <4>1
      <4> QED
        BY <4>2, <4>3 DEF Form
    <3> QED
      BY <3>16 DEF FormInv
  <2> QED
    BY <2>4, <2>5
<1>4. ASSUME Construct \/ Parse PROVE UNCHANGED <<url_, fields>>
  BY <1>4 DEF Construct, Parse, ReadName, ReadValue, Decode, StoreValue, Return
<1>5. ASSUME UNCHANGED parserVars PROVE UNCHANGED <<url_, fields>>
  BY <1>5 DEF parserVars
<1> QED
  BY <1>1, <1>2, <1>3, <1>4, <1>5 DEF UrlParserNext, Sender

(* The text is a form as long as fields is not empty.                       *)
LEMMA FormInvariant == UrlParserSpec => []FormInv
<1>1. UrlParserInit => FormInv
  BY DEF UrlParserInit, FormInv
<1> QED
  BY <1>1, FormStep, ParserInvariant, PTL DEF UrlParserSpec

(* Where the '=' of field i is. *)
Sep(ends, i) == ends[i - 1] + Len(fields[i].name) + 1

(* Field i has its name in the a bytes behind m, its value in the b bytes   *)
(* behind the separator.                                                    *)
FieldAt(ends, i, name, F, m, a, b) ==
  /\ fields[i] \in Fields /\ name \in Seq(Byte) /\ fields[i].value \in Seq(Byte)
  /\ F \in Seq(Byte) /\ m \in Nat /\ a \in Nat /\ b \in Nat
  /\ m = ends[i - 1] /\ a = Len(name) /\ b = Len(F)
  /\ Sep(ends, i) = m + a + 1 /\ ends[i] = m + a + 1 + b + 1
  /\ i # Len(fields) => url_[ends[i]] = Ampersand
  /\ \A t \in 1 .. a : url_[m + t] = name[t] /\ name[t] \notin Reserved
  /\ url_[m + a + 1] = Equals
  /\ \A t \in 1 .. b : url_[m + a + 1 + t] = F[t]
       /\ F[t] \notin {Ampersand, Equals, Question}

(* Positions in a name, its separator and its value.                        *)
LEMMA Spans ==
  ASSUME NEW m \in Nat, NEW a \in Nat, NEW b \in Nat
  PROVE  /\ \A t \in 1 .. a : t \in 1 .. a + 1 + b
         /\ a + 1 \in 1 .. a + 1 + b /\ m + (a + 1) = m + a + 1
         /\ \A t \in 1 .. b : /\ a + 1 + t \in 1 .. a + 1 + b
                              /\ m + (a + 1 + t) = m + a + 1 + t
         /\ m + (a + 1 + b) + 1 = m + a + 1 + b + 1
         /\ m + a + 1 \in Nat /\ m + a + 1 + b + 1 \in Nat
         /\ m < m + a + 1 /\ m + a + 1 < m + a + 1 + b + 1
         /\ \A p \in Nat : m < p /\ p < m + a + 1 + b + 1 /\ p # m + a + 1
              => (\E t \in 1 .. a : p = m + t) \/ (\E t \in 1 .. b : p = m + a + 1 + t)
<1>1. ASSUME NEW p \in Nat, m < p, p < m + a + 1 + b + 1, p # m + a + 1
      PROVE  (\E t \in 1 .. a : p = m + t) \/ (\E t \in 1 .. b : p = m + a + 1 + t)
  <2>1. CASE p <= m + a
    <3>1. p - m \in 1 .. a /\ p = m + (p - m)
      BY <1>1, <2>1
    <3> QED
      BY <3>1
  <2>2. CASE p > m + a
    <3>1. p - (m + a + 1) \in 1 .. b /\ p = m + a + 1 + (p - (m + a + 1))
      BY <1>1, <2>2
    <3> QED
      BY <3>1
  <2> QED
    BY <2>1, <2>2
<1>2. \A t \in 1 .. b : a + 1 + t \in 1 .. a + 1 + b
        /\ m + (a + 1 + t) = m + a + 1 + t
  OBVIOUS
<1>3. /\ \A t \in 1 .. a : t \in 1 .. a + 1 + b
      /\ a + 1 \in 1 .. a + 1 + b /\ m + (a + 1) = m + a + 1
      /\ m + (a + 1 + b) + 1 = m + a + 1 + b + 1
      /\ m + a + 1 \in Nat /\ m + a + 1 + b + 1 \in Nat
      /\ m < m + a + 1 /\ m + a + 1 < m + a + 1 + b + 1
  OBVIOUS
<1> QED
  BY <1>1, <1>2, <1>3

(* Every field of a form is laid out so.                                    *)
LEMMA FormBytes ==
  ASSUME ParserInv, NEW ends, Form(ends), NEW i \in 1 .. Len(fields)
  PROVE  \E name, F, m, a, b :
           /\ name = fields[i].name /\ F = EscapedValue(fields[i].value, fields[i].style)
           /\ FieldAt(ends, i, name, F, m, a, b)
<1>1. /\ fields \in Seq(Fields) /\ Len(fields) \in Nat
  BY DEF ParserInv
<1>2. fields[i] \in Fields /\ i - 1 \in 0 .. Len(fields)
  BY <1>1
<1>3. PICK f \in Fields : f = fields[i]
  BY <1>2
<1>4. PICK F : F = EscapedValue(f.value, f.style)
  OBVIOUS
<1>5. PICK name : name = f.name
  OBVIOUS
<1>6. PICK s : s = EncodedField(f)
  OBVIOUS
<1>7. PICK m : m = ends[i - 1]
  OBVIOUS
<1>8. PICK a : a = Len(name)
  OBVIOUS
<1>9. PICK b : b = Len(F)
  OBVIOUS
<1>10. f.value \in Seq(Byte) /\ FieldBytes(s, name, F)
  BY <1>4, <1>5, <1>6, EncodedFieldIs
<1>11. /\ Len(s) = a + 1 + b /\ name \in Seq(Byte) /\ F \in Seq(Byte)
       /\ \A t \in 1 .. a : s[t] = name[t] /\ s[t] \notin Reserved
       /\ s[a + 1] = Equals /\ \A t \in 1 .. b : s[a + 1 + t] = F[t]
  BY <1>8, <1>9, <1>10 DEF FieldBytes
<1>12. a \in Nat /\ b \in Nat
  BY <1>8, <1>9, <1>11
<1>13. m \in Nat
  BY <1>2, <1>7 DEF Form
<1>14. /\ ends[i] = m + (a + 1 + b) + 1
       /\ i # Len(fields) => url_[ends[i]] = Ampersand
       /\ \A t \in 1 .. a + 1 + b : url_[m + t] = s[t]
  <2>1. /\ ends[i] = m + Len(s) + 1
        /\ i # Len(fields) => url_[ends[i]] = Ampersand
        /\ \A t \in 1 .. Len(s) : url_[m + t] = s[t]
    BY <1>3, <1>6, <1>7 DEF Form
  <2> QED
    BY <1>11, <2>1
<1>15. \A t \in 1 .. b : F[t] \notin {Ampersand, Equals, Question}
  BY <1>4, <1>9, <1>10, EscapedValueIs
<1>16. /\ \A t \in 1 .. a : t \in 1 .. a + 1 + b
       /\ a + 1 \in 1 .. a + 1 + b /\ m + (a + 1) = m + a + 1
       /\ \A t \in 1 .. b : /\ a + 1 + t \in 1 .. a + 1 + b
                            /\ m + (a + 1 + t) = m + a + 1 + t
       /\ m + (a + 1 + b) + 1 = m + a + 1 + b + 1
  BY <1>12, <1>13, Spans
<1>17. \A t \in 1 .. a : url_[m + t] = name[t] /\ name[t] \notin Reserved
  BY <1>11, <1>14, <1>16
<1>18. url_[m + a + 1] = Equals
  <2>1. url_[m + (a + 1)] = s[a + 1]
    BY <1>14, <1>16
  <2> QED
    BY <1>11, <1>16, <2>1
<1>19. ASSUME NEW t \in 1 .. b PROVE url_[m + a + 1 + t] = F[t]
  <2>1. url_[m + (a + 1 + t)] = s[a + 1 + t]
    BY <1>14, <1>16
  <2> QED
    BY <1>11, <1>16, <2>1
<1>20. Sep(ends, i) = m + a + 1
  BY <1>3, <1>5, <1>7, <1>8 DEF Sep
<1>21. FieldAt(ends, i, name, F, m, a, b)
  BY <1>2, <1>3, <1>7, <1>8, <1>9, <1>10, <1>11, <1>12, <1>13, <1>14, <1>15, <1>16,
     <1>17, <1>18, <1>19, <1>20 DEF FieldAt
<1> QED
  BY <1>3, <1>4, <1>5, <1>21

(* Within a field, the separator is the only byte with a meaning to parse.  *)
LEMMA FormSeparator ==
  ASSUME ParserInv, NEW ends, Form(ends), NEW i \in 1 .. Len(fields)
  PROVE  /\ ends[i - 1] \in Nat /\ ends[i] \in Nat /\ Sep(ends, i) \in Nat
         /\ ends[i - 1] < Sep(ends, i) /\ Sep(ends, i) < ends[i]
         /\ i # Len(fields) => url_[ends[i]] = Ampersand
         /\ url_[Sep(ends, i)] = Equals
         /\ \A p \in Nat : ends[i - 1] < p /\ p < ends[i] /\ p # Sep(ends, i)
                             => url_[p] \notin {Ampersand, Equals, Question}
<1>3. PICK name, F, m, a, b : FieldAt(ends, i, name, F, m, a, b)
  BY FormBytes
<1>4. /\ m \in Nat /\ a \in Nat /\ b \in Nat
      /\ Sep(ends, i) = m + a + 1 /\ ends[i] = m + a + 1 + b + 1
      /\ i # Len(fields) => url_[ends[i]] = Ampersand
      /\ \A t \in 1 .. a : url_[m + t] = name[t] /\ name[t] \notin Reserved
      /\ url_[m + a + 1] = Equals
      /\ \A t \in 1 .. b : /\ url_[m + a + 1 + t] = F[t]
                           /\ F[t] \notin {Ampersand, Equals, Question}
      /\ m = ends[i - 1]
  BY <1>3 DEF FieldAt
<1>5. ASSUME NEW p \in Nat, m < p, p < ends[i], p # Sep(ends, i)
      PROVE  url_[p] \notin {Ampersand, Equals, Question}
  <2>1. p < m + a + 1 + b + 1 /\ p # m + a + 1 /\ m < p
    BY <1>4, <1>5
  <2>2. (\E t \in 1 .. a : p = m + t) \/ (\E t \in 1 .. b : p = m + a + 1 + t)
    <3>1. m \in Nat /\ a \in Nat /\ b \in Nat
      BY <1>4
    <3>2. \A q \in Nat : m < q /\ q < m + a + 1 + b + 1 /\ q # m + a + 1
            => (\E t \in 1 .. a : q = m + t) \/ (\E t \in 1 .. b : q = m + a + 1 + t)
      BY <3>1, Spans
    <3> QED
      BY <2>1, <3>2
  <2>3. ASSUME NEW t \in 1 .. a, p = m + t
        PROVE  url_[p] \notin {Ampersand, Equals, Question}
    <3>1. url_[p] \notin Reserved
      BY <1>4, <2>3
    <3> QED
      BY <3>1 DEF Reserved
  <2>4. ASSUME NEW t \in 1 .. b, p = m + a + 1 + t
        PROVE  url_[p] \notin {Ampersand, Equals, Question}
    BY <1>4, <2>4
  <2> QED
    BY <2>2, <2>3, <2>4
<1>6. /\ m + a + 1 \in Nat /\ m + a + 1 + b + 1 \in Nat
      /\ m < m + a + 1 /\ m + a + 1 < m + a + 1 + b + 1
  BY <1>4, Spans
<1> QED
  BY <1>4, <1>5, <1>6

(* The fields of a form follow one another.                                 *)
LEMMA FormOrder ==
  ASSUME ParserInv, NEW ends, Form(ends),
         NEW i \in 1 .. Len(fields), NEW j \in 1 .. Len(fields), i < j
  PROVE  ends[i] <= ends[j - 1] /\ Sep(ends, i) < Sep(ends, j)
<1>1. Len(fields) \in Nat
  BY DEF ParserInv
<1>2. ends \in [0 .. Len(fields) -> Nat]
  BY DEF Form
<1>3. \A k \in 1 .. Len(fields) : ends[k - 1] <= ends[k]
  <2> TAKE k \in 1 .. Len(fields)
  <2>1. /\ ends[k - 1] \in Nat /\ ends[k] \in Nat /\ Sep(ends, k) \in Nat
        /\ ends[k - 1] < Sep(ends, k) /\ Sep(ends, k) < ends[k]
    BY FormSeparator
  <2> QED
    BY <2>1
<1>4. i \in 0 .. Len(fields) /\ j - 1 \in 0 .. Len(fields) /\ i <= j - 1
  BY <1>1
<1>5. ends[i] <= ends[j - 1]
  BY <1>1, <1>2, <1>3, <1>4, Grows
<1>6. /\ Sep(ends, i) < ends[i] /\ ends[j - 1] < Sep(ends, j)
      /\ Sep(ends, i) \in Nat /\ Sep(ends, j) \in Nat
      /\ ends[i] \in Nat /\ ends[j - 1] \in Nat
  BY FormSeparator
<1> QED
  BY <1>5, <1>6

(* Every position of a form is in one of its fields, or at the '&' behind it. *)
LEMMA FormPosition ==
  ASSUME ParserInv, NEW ends, Form(ends), NEW p \in 1 .. Len(url_)
  PROVE  \E i \in 1 .. Len(fields) :
           \/ p = ends[i] /\ i # Len(fields)
           \/ ends[i - 1] < p /\ p < ends[i]
<1>1. /\ Len(fields) \in Nat /\ Len(url_) \in Nat /\ p \in Nat
  BY DEF ParserInv, UrlParserTypeOK
<1>2. /\ ends \in [0 .. Len(fields) -> Nat] /\ ends[0] = 0
      /\ ends[Len(fields)] = Len(url_) + 1
  BY DEF Form
<1>3. ends[0] < p /\ p <= ends[Len(fields)]
  BY <1>1, <1>2
<1>4. PICK i \in 1 .. Len(fields) : ends[i - 1] < p /\ p <= ends[i]
  BY <1>1, <1>2, <1>3, StretchOf
<1>5. ends[i] \in Nat
  BY FormSeparator
<1>6. i = Len(fields) => p # ends[i]
  BY <1>1, <1>2
<1> QED
  BY <1>1, <1>4, <1>5, <1>6

(* A form has no '?', and no '=' but its separators.                        *)
LEMMA FormMarks ==
  ASSUME ParserInv, NEW ends, Form(ends)
  PROVE  /\ Start = 0
         /\ \A p \in 1 .. Len(url_) : url_[p] = Equals =>
              \E i \in 1 .. Len(fields) : p = Sep(ends, i)
<1>1. Len(url_) \in Nat
  BY DEF ParserInv, UrlParserTypeOK
<1>2. ASSUME NEW p \in 1 .. Len(url_)
      PROVE  /\ url_[p] # Question
             /\ url_[p] = Equals => \E i \in 1 .. Len(fields) : p = Sep(ends, i)
  <2>1. PICK i \in 1 .. Len(fields) : \/ p = ends[i] /\ i # Len(fields)
                                      \/ ends[i - 1] < p /\ p < ends[i]
    BY FormPosition
  <2>2. /\ i # Len(fields) => url_[ends[i]] = Ampersand
        /\ url_[Sep(ends, i)] = Equals
        /\ p \in Nat
        /\ ends[i - 1] < p /\ p < ends[i] /\ p # Sep(ends, i)
             => url_[p] \notin {Ampersand, Equals, Question}
    BY FormSeparator
  <2>3. Ampersand # Question /\ Ampersand # Equals /\ Equals # Question
    BY DEF Ampersand, Question, Equals
  <2> QED
    BY <2>1, <2>2, <2>3
<1>3. Start = 0
  <2>1. \A p \in 0 + 1 .. Len(url_) : url_[p] # Question
    BY <1>2
  <2> QED
    BY <1>1, <2>1, FindIs DEF Start
<1> QED
  BY <1>2, <1>3

(* The separators of a form are those of its fields.                        *)
LEMMA FormSeparators ==
  ASSUME ParserInv, NEW ends, Form(ends)
  PROVE  Separators = {Sep(ends, i) : i \in 1 .. Len(fields)}
<1>1. /\ Start = 0 /\ Len(fields) \in Nat /\ Len(url_) \in Nat
      /\ \A p \in 1 .. Len(url_) : url_[p] = Equals =>
           \E i \in 1 .. Len(fields) : p = Sep(ends, i)
  BY FormMarks DEF ParserInv, UrlParserTypeOK
<1>2. ASSUME NEW e \in Separators PROVE \E i \in 1 .. Len(fields) : e = Sep(ends, i)
  <2>1. e \in 1 .. Len(url_) /\ url_[e] = Equals
    BY SeparatorsKnown
  <2> QED
    BY <1>1, <2>1
<1>3. ASSUME NEW i \in 1 .. Len(fields) PROVE Sep(ends, i) \in Separators
  <2>1. PICK e : e = Sep(ends, i)
    OBVIOUS
  <2>2. /\ ends[i - 1] \in Nat /\ ends[i] \in Nat /\ e \in Nat
        /\ ends[i - 1] < e /\ e < ends[i] /\ url_[e] = Equals
    BY <2>1, FormSeparator
  <2>3. e \in 1 .. Len(url_)
    <3>1. ends[i] <= Len(url_) + 1
      <4>1. CASE i = Len(fields)
        BY <1>1, <4>1 DEF Form
      <4>2. CASE i # Len(fields)
        <5>1. Len(fields) \in 1 .. Len(fields) /\ i < Len(fields)
          BY <1>1, <4>2
        <5>2. ends[i] <= ends[Len(fields) - 1]
          BY <5>1, FormOrder
        <5>3. /\ ends[Len(fields) - 1] < Sep(ends, Len(fields))
              /\ Sep(ends, Len(fields)) < ends[Len(fields)]
              /\ Sep(ends, Len(fields)) \in Nat /\ ends[Len(fields) - 1] \in Nat
              /\ ends[Len(fields)] = Len(url_) + 1
          BY <5>1, FormSeparator DEF Form
        <5> QED
          BY <1>1, <2>2, <5>2, <5>3
      <4> QED
        BY <4>1, <4>2
    <3> QED
      BY <1>1, <2>2, <3>1
  <2>4. ASSUME NEW p \in 1 .. e - 1, url_[p] = Equals
        PROVE  \E a \in p + 1 .. e - 1 : url_[a] = Ampersand
    <3>1. p \in 1 .. Len(url_) /\ p < e /\ p \in Nat
      BY <1>1, <2>2, <2>3
    <3>2. PICK j \in 1 .. Len(fields) : p = Sep(ends, j)
      BY <1>1, <2>4, <3>1
    <3>3. j < i
      <4>1. ~(i < j) /\ j # i
        <5>1. j # i
          BY <2>1, <2>2, <3>1, <3>2
        <5>2. i < j => e < p
          BY <2>1, <3>2, FormOrder
        <5> QED
          BY <2>2, <3>1, <5>1, <5>2
      <4> QED
        BY <1>1, <4>1
    <3>4. j # Len(fields) /\ ends[j] <= ends[i - 1]
      BY <1>1, <3>3, FormOrder
    <3>5. url_[ends[j]] = Ampersand /\ p < ends[j] /\ ends[j] \in Nat
      BY <3>2, <3>4, FormSeparator
    <3>6. ends[j] \in p + 1 .. e - 1
      BY <2>2, <3>1, <3>4, <3>5
    <3> QED
      BY <3>5, <3>6
  <2>5. e \in Start + 1 .. Len(url_)
    BY <1>1, <2>3
  <2>6. \A p \in Start + 1 .. e - 1 :
          url_[p] = Equals => \E a \in p + 1 .. e - 1 : url_[a] = Ampersand
    BY <1>1, <2>4
  <2>7. e \in Separators
    BY <2>2, <2>5, <2>6 DEF Separators
  <2> QED
    BY <2>1, <2>7
<1> QED
  BY <1>2, <1>3

(* They end where the sender ended them,                                    *)
LEMMA FormFieldEnd ==
  ASSUME ParserInv, NEW ends, Form(ends), NEW i \in 1 .. Len(fields)
  PROVE  FieldEnd(Sep(ends, i)) = ends[i]
<1>1. PICK e : e = Sep(ends, i)
  OBVIOUS
<1>2. PICK x : x = FieldEnd(e)
  OBVIOUS
<1>3. PICK y : y = ends[i]
  OBVIOUS
<1>4. e \in Separators
  BY <1>1, FormSeparators
<1>5. e \in 1 .. Len(url_) /\ Len(url_) \in Nat /\ Len(fields) \in Nat
  BY <1>4, SeparatorsKnown DEF ParserInv
<1>6. /\ x \in e + 1 .. Len(url_) + 1
      /\ x = Len(url_) + 1 \/ url_[x] = Ampersand
      /\ \A p \in e + 1 .. x - 1 : url_[p] # Ampersand
  BY <1>2, <1>5, FieldEndIs
<1>7. /\ ends[i - 1] \in Nat /\ y \in Nat /\ ends[i - 1] < e /\ e < y
      /\ i # Len(fields) => url_[y] = Ampersand
      /\ \A p \in Nat : ends[i - 1] < p /\ p < y /\ p # e => url_[p] # Ampersand
  BY <1>1, <1>3, FormSeparator
<1>8. y <= Len(url_) + 1 /\ (i = Len(fields) => y = Len(url_) + 1)
  <2>1. CASE i = Len(fields)
    BY <1>3, <1>5, <2>1 DEF Form
  <2>2. CASE i # Len(fields)
    <3>1. Len(fields) \in 1 .. Len(fields) /\ i < Len(fields)
      BY <1>5, <2>2
    <3>2. y <= ends[Len(fields) - 1]
      BY <1>3, <3>1, FormOrder
    <3>3. /\ ends[Len(fields) - 1] < Sep(ends, Len(fields))
          /\ Sep(ends, Len(fields)) < ends[Len(fields)]
          /\ Sep(ends, Len(fields)) \in Nat /\ ends[Len(fields) - 1] \in Nat
          /\ ends[Len(fields)] = Len(url_) + 1
      BY <3>1, FormSeparator DEF Form
    <3> QED
      BY <1>5, <1>7, <2>2, <3>2, <3>3
  <2> QED
    BY <2>1, <2>2
<1>9. ~(x < y)
  <2> SUFFICES ASSUME x < y PROVE FALSE
    OBVIOUS
  <2>1. x \in Nat /\ ends[i - 1] < x /\ x # e /\ x # Len(url_) + 1
    BY <1>5, <1>6, <1>7, <1>8
  <2> QED
    BY <1>6, <1>7, <2>1
<1>10. ~(y < x)
  <2> SUFFICES ASSUME y < x PROVE FALSE
    OBVIOUS
  <2>1. y \in e + 1 .. x - 1 /\ y # Len(url_) + 1
    BY <1>5, <1>6, <1>7
  <2> QED
    BY <1>6, <1>7, <1>8, <2>1
<1>11. x = y
  <2>1. x \in Nat /\ y \in Nat
    BY <1>5, <1>6, <1>7
  <2> QED
    BY <1>9, <1>10, <2>1
<1> QED
  BY <1>1, <1>2, <1>3, <1>11

(* have the names that were sent,                                           *)
LEMMA FormName ==
  ASSUME ParserInv, NEW ends, Form(ends), NEW i \in 1 .. Len(fields)
  PROVE  Name(Sep(ends, i)) = fields[i].name
<1>1. PICK name, F, m, a, b : /\ name = fields[i].name
                              /\ FieldAt(ends, i, name, F, m, a, b)
  BY FormBytes
<1>2. /\ name \in Seq(Byte) /\ m \in Nat /\ a \in Nat /\ m = ends[i - 1]
           /\ a = Len(name)
      /\ Sep(ends, i) = m + a + 1
      /\ \A t \in 1 .. a : url_[m + t] = name[t]
  BY <1>1 DEF FieldAt
<1>3. PICK e : e = Sep(ends, i)
  OBVIOUS
<1>4. /\ e \in Separators /\ e \in 1 .. Len(url_) /\ Len(url_) \in Nat /\ Start = 0
      /\ Len(fields) \in Nat
  BY <1>3, FormSeparators, SeparatorsKnown, FormMarks DEF ParserInv
<1>5. Boundary(m)
  <2>1. CASE i = 1
    <3>1. m = 0
      BY <1>2, <2>1 DEF Form
    <3> QED
      BY <1>4, <3>1 DEF Boundary
  <2>2. CASE i # 1
    <3>1. PICK j \in 1 .. Len(fields) : j = i - 1
      BY <1>4, <2>2
    <3>2. FieldEnd(Sep(ends, j)) = ends[j] /\ Sep(ends, j) \in Separators
      BY FormFieldEnd, FormSeparators
    <3> QED
      BY <1>2, <3>1, <3>2 DEF Boundary
  <2> QED
    BY <2>1, <2>2
<1>6. /\ m < e /\ e < ends[i] /\ ends[i] \in Nat /\ e \in Nat /\ url_[e] = Equals
      /\ \A p \in Nat : m < p /\ p < ends[i] /\ p # e => url_[p] # Equals
  BY <1>2, <1>3, FormSeparator
<1>7. PICK f : f = Find(Equals, m)
  OBVIOUS
<1>8. f = e
  <2>1. /\ f = 0 <=> \A p \in m + 1 .. Len(url_) : url_[p] # Equals
        /\ f # 0 => /\ f \in m + 1 .. Len(url_) /\ url_[f] = Equals
                    /\ \A p \in m + 1 .. f - 1 : url_[p] # Equals
    BY <1>2, <1>4, <1>7, FindIs
  <2>2. f # 0
    <3>1. e \in m + 1 .. Len(url_)
      BY <1>2, <1>4, <1>6
    <3> QED
      BY <1>6, <2>1, <3>1
  <2>3. ~(f < e)
    <3> SUFFICES ASSUME f < e PROVE FALSE
      OBVIOUS
    <3>1. f \in Nat /\ m < f /\ f < ends[i] /\ f # e
      <4>1. f \in m + 1 .. Len(url_) /\ m \in Nat /\ Len(url_) \in Nat
        BY <1>2, <1>4, <2>1, <2>2
      <4>2. PICK y \in Nat : y = ends[i] /\ e < y
        BY <1>6
      <4>3. f \in Nat /\ m < f /\ f # e
        BY <1>6, <4>1
      <4>4. f < y
        BY <1>6, <4>2, <4>3
      <4> QED
        BY <4>2, <4>3, <4>4
    <3> QED
      BY <1>6, <2>1, <2>2, <3>1
  <2>4. ~(e < f)
    <3> SUFFICES ASSUME e < f PROVE FALSE
      OBVIOUS
    <3>1. e \in m + 1 .. f - 1
      <4>1. f \in m + 1 .. Len(url_) /\ m \in Nat /\ Len(url_) \in Nat
        BY <1>2, <1>4, <2>1, <2>2
      <4>2. e \in Nat /\ m < e
        BY <1>6
      <4> QED
        BY <4>1, <4>2
    <3> QED
      BY <1>6, <2>1, <2>2, <3>1
  <2>5. f \in Nat
    BY <1>2, <1>4, <2>1, <2>2
  <2> QED
    BY <1>6, <2>3, <2>4, <2>5
<1>9. Name(e) = SubSeq(url_, m + 1, e - 1)
  <2>1. m <= Len(url_) /\ f # 0
    BY <1>2, <1>4, <1>6, <1>8
  <2> QED
    BY <1>5, <1>7, <1>8, <2>1, NextSeparator
<1>10. SubSeq(url_, m + 1, e - 1) = name
  <2>1. e - 1 = m + a
    BY <1>2, <1>3
  <2>2. SubSeq(url_, m + 1, m + a) = name
    <3>1. At(name, url_, m)
      BY <1>2 DEF At
    <3>2. Cut(name, url_, m) = name
      BY <1>2, <3>1, CutIs
    <3> QED
      BY <1>2, <3>2 DEF Cut
  <2> QED
    BY <2>1, <2>2
<1> QED
  BY <1>1, <1>3, <1>9, <1>10

(* and the escaped values.                                                  *)
LEMMA FormValue ==
  ASSUME ParserInv, NEW ends, Form(ends), NEW i \in 1 .. Len(fields)
  PROVE  Value(Sep(ends, i)) = EscapedValue(fields[i].value, fields[i].style)
<1>1. PICK name, F, m, a, b : /\ F = EscapedValue(fields[i].value, fields[i].style)
                              /\ FieldAt(ends, i, name, F, m, a, b)
  BY FormBytes
<1>2. /\ F \in Seq(Byte) /\ m \in Nat /\ a \in Nat /\ b \in Nat /\ b = Len(F)
      /\ Sep(ends, i) = m + a + 1 /\ ends[i] = m + a + 1 + b + 1
      /\ \A t \in 1 .. b : url_[m + a + 1 + t] = F[t]
  BY <1>1 DEF FieldAt
<1>3. PICK e \in Nat : e = m + a + 1
  BY <1>2
<1>4. Value(Sep(ends, i)) = SubSeq(url_, e + 1, ends[i] - 1)
  <2>1. FieldEnd(Sep(ends, i)) = ends[i]
    BY FormFieldEnd
  <2> QED
    BY <1>2, <1>3, <2>1 DEF Value
<1>5. ends[i] - 1 = e + b
  BY <1>2, <1>3
<1>6. \A t \in 1 .. b : url_[e + t] = F[t]
  BY <1>2, <1>3
<1>7. SubSeq(url_, e + 1, e + b) = F
  <2>1. At(F, url_, e)
    BY <1>2, <1>6 DEF At
  <2>2. Cut(F, url_, e) = F
    BY <1>2, <2>1, CutIs
  <2> QED
    BY <1>2, <2>2 DEF Cut
<1> QED
  BY <1>1, <1>4, <1>5, <1>7

(* What was sent is what is read.                                           *)
LEMMA FormRead ==
  ASSUME ParserInv, FormInv, ParamsFollowSeparators
  PROVE  FormRoundTrip
<1> SUFFICES ASSUME where = "done", fields # <<>>
             PROVE  /\ DOMAIN params_ = {fields[i].name : i \in 1 .. Len(fields)}
                    /\ \A i \in 1 .. Len(fields) :
                         (\A j \in i + 1 .. Len(fields) : fields[j].name # fields[i].name)
                           => param(fields[i].name) = fields[i].value
  BY DEF FormRoundTrip
<1>1. PICK ends : Form(ends)
  BY DEF FormInv
<1>2. Len(fields) \in Nat
  BY DEF ParserInv
<1>3. /\ Separators = {Sep(ends, i) : i \in 1 .. Len(fields)}
      /\ \A i \in 1 .. Len(fields) :
           /\ Name(Sep(ends, i)) = fields[i].name
           /\ Value(Sep(ends, i)) = EscapedValue(fields[i].value, fields[i].style)
  BY <1>1, FormSeparators, FormName, FormValue
<1>4. /\ DOMAIN params_ = {Name(e) : e \in Separators}
      /\ \A e \in Separators :
           CompleteEscapes(Value(e))
           /\ (\A d \in Separators : d > e => Name(d) # Name(e))
             => Unescaped(Value(e), param(Name(e)))
  <2> DEFINE names == FieldNames(Separators)
  <2>1. DOMAIN names = Separators /\ \A e : names[e] = Name(e)
    BY DEF FieldNames, Name
  <2>2. /\ DOMAIN params_ = {names[e] : e \in DOMAIN names}
        /\ \A e \in DOMAIN names :
             CompleteEscapes(Value(e))
             /\ (\A d \in DOMAIN names : d > e => names[d] # names[e])
               => Unescaped(Value(e), param(names[e]))
    BY DEF ParamsFollowSeparators, Value
  <2> HIDE DEF names
  <2> QED
    BY <2>1, <2>2
<1>5. DOMAIN params_ = {fields[i].name : i \in 1 .. Len(fields)}
  BY <1>3, <1>4
<1>6. ASSUME NEW i \in 1 .. Len(fields),
             \A j \in i + 1 .. Len(fields) : fields[j].name # fields[i].name
      PROVE  param(fields[i].name) = fields[i].value
  <2>1. PICK e \in Separators : e = Sep(ends, i)
    BY <1>3
  <2>2. Name(e) = fields[i].name /\ Value(e) = EscapedValue(fields[i].value, fields[i].style)
    BY <1>3, <2>1
  <2>3. ASSUME NEW d \in Separators, d > e PROVE Name(d) # Name(e)
    <3>1. PICK j \in 1 .. Len(fields) : d = Sep(ends, j)
      BY <1>3
    <3>2. e \in Nat /\ d \in Nat
      BY SeparatorsKnown
    <3>3. j # i /\ ~(j < i)
      <4>1. j < i => d < e
        BY <1>1, <2>1, <3>1, FormOrder
      <4> QED
        BY <2>1, <2>3, <3>1, <3>2, <4>1
    <3>4. j \in i + 1 .. Len(fields)
      BY <1>2, <3>3
    <3> QED
      BY <1>3, <1>6, <2>2, <3>1, <3>4
  <2>4. /\ fields[i].value \in Seq(Byte) /\ CompleteEscapes(Value(e))
        /\ \A v \in Seq(Byte) : Unescaped(Value(e), v) => v = fields[i].value
    <3>1. fields[i] \in Fields
      BY DEF ParserInv
    <3>2. fields[i].value \in Seq(Byte)
      BY <3>1, EncodedFieldIs
    <3> QED
      BY <2>2, <3>2, EscapedValueIs
  <2>5. Unescaped(Value(e), param(Name(e)))
    BY <1>4, <2>3, <2>4
  <2>6. param(Name(e)) \in Seq(Byte)
    <3>1. Name(e) \in DOMAIN params_
      BY <1>4
    <3> QED
      BY <3>1 DEF param, ParserInv, UrlParserTypeOK
  <2> QED
    BY <2>2, <2>4, <2>5, <2>6
<1> QED
  BY <1>5, <1>6

(* What a form submits is what Params reads, for every form of every        *)
(* length: the names are those of its fields, each with the value of the    *)
(* last field of that name, byte for byte.                                  *)
THEOREM FormsAreRead == UrlParserSpec => []FormRoundTrip
BY ParserInvariant, FormInvariant, ParamsFollow, FormRead, PTL
=============================================================================
