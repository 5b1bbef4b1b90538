------------------------------ MODULE UrlParser ------------------------------
(***************************************************************************)
(* The UrlParser that Params::parse builds from a POST body and from the   *)
(* query string: the loop of UrlParser::parse over one text, and           *)
(* percent_decode, which it calls on every value.                          *)
(*                                                                         *)
(* A text is a sequence of bytes.  Positions count from 1, so that the     *)
(* source's size_type(-1), which its ++pos turns into the first position,  *)
(* is 0 here.                                                              *)
(***************************************************************************)
EXTENDS Naturals, SequencesExt

CONSTANTS
  Alphabet,   \* the bytes of texts that may be anything
  MaxLength,  \* bound on the length of those
  Fields,     \* the fields of forms; style says how a sender escapes
  MaxFields   \* bound on the number of fields of a form

VARIABLES
  url_,        \* the text
  params_,     \* the parameters found so far: name -> value
  pos,         \* local of parse: the last position looked at
  param_name,  \* local of parse
  param_value, \* local of parse, without what percent_decode has read of it
  decoder,     \* locals of percent_decode: state, first_char, result
  where,       \* where the parser is: in either half of parse's loop, or in
               \* percent_decode
  fields       \* history: the fields url_ encodes, if it is a form

loopVars == <<params_, pos, param_name>>
decodeVars == <<param_value, decoder>>
parserVars == <<url_, loopVars, decodeVars, where, fields>>

Byte == 0 .. 255
Percent == 37
Ampersand == 38
Equals == 61
Question == 63
Plus == 43

(* The bytes that have a meaning in a form, and those beyond ASCII. *)
Reserved == {Percent, Ampersand, Equals, Question, Plus} \cup 128 .. 255

(* Names are the words that Params asks for: there is nothing to escape.    *)
ASSUME UrlParserAssumption ==
  /\ Alphabet \subseteq Byte
  /\ MaxLength \in Nat
  /\ Fields \subseteq [name : Seq(Byte \ Reserved), value : Seq(Byte),
                       style : {"upper", "lower"}]
  /\ MaxFields \in Nat

-----------------------------------------------------------------------------
(* '0'..'9', 'a'..'f', 'A'..'F' *)
HexDigits == 48 .. 57 \cup 97 .. 102 \cup 65 .. 70
is_hex_digit(c) == c \in HexDigits

(* Mutants are named for the slip they contain: the bug a run has to find   *)
(* when the definition that follows is exchanged for them.                  *)
MutantLettersAreCodes(c) == IF c \in 48 .. 57 THEN c - 48 ELSE c

hex_digit_to_int(c) ==
  IF c \in 48 .. 57 THEN c - 48
  ELSE IF c \in 97 .. 102 THEN c - 97 + 10
  ELSE IF c \in 65 .. 70 THEN c - 65 + 10
  ELSE 0

(* One character of percent_decode. *)
DecodeChar(d, c) ==
  IF d.state = "General" THEN
    IF c # Percent THEN [d EXCEPT !.result = Append(@, c)]
    ELSE [d EXCEPT !.state = "FirstDigit", !.first = 0]
  ELSE IF d.state = "FirstDigit" THEN
    IF is_hex_digit(c) THEN [d EXCEPT !.state = "SecondDigit", !.first = c]
    ELSE [d EXCEPT !.state = "General", !.first = c,
                   !.result = @ \o <<Percent, c>>]
  ELSE [d EXCEPT !.state = "General",
          !.result = IF is_hex_digit(c)
                     THEN Append(@, 16 * hex_digit_to_int(d.first)
                                      + hex_digit_to_int(c))
                     ELSE @ \o <<Percent, d.first, c>>]

NewDecoder == [state |-> "General", first |-> 0, result |-> <<>>]

(* find_first_of: the first position of c after p, 0 if there is none. *)
Find(c, p) == SelectInSubSeq(url_, p + 1, Len(url_), LAMBDA x : x = c)

-----------------------------------------------------------------------------
(* What the page that embeds the tracker sends: name=value&..., with the    *)
(* reserved bytes of a value escaped in capital or in small digits.  The    *)
(* '+' that HTML forms write for a space is left out: the parser does not   *)
(* undo it.                                                                 *)
UpperDigit(n) == IF n < 10 THEN 48 + n ELSE 65 + n - 10
LowerDigit(n) == IF n < 10 THEN 48 + n ELSE 97 + n - 10

Escaped(b, style) ==
  IF b \notin Reserved THEN <<b>>
  ELSE IF style = "lower"
       THEN <<Percent, LowerDigit(b \div 16), LowerDigit(b % 16)>>
       ELSE <<Percent, UpperDigit(b \div 16), UpperDigit(b % 16)>>

EncodedField(f) ==
  f.name \o <<Equals>>
    \o FlattenSeq([i \in 1 .. Len(f.value) |-> Escaped(f.value[i], f.style)])

UrlParserInit ==
  /\ url_ = <<>>
  /\ params_ = <<>>
  /\ pos = 0
  /\ param_name = <<>>
  /\ param_value = <<>>
  /\ decoder = NewDecoder
  /\ where = "new"
  /\ fields = <<>>

(* The text comes into being: any bytes, or a form. *)
AddByte(b) ==
  /\ where = "new" /\ fields = <<>>
  /\ Len(url_) < MaxLength
  /\ url_' = Append(url_, b)
  /\ UNCHANGED <<loopVars, decodeVars, where, fields>>

AddField(f) ==
  /\ where = "new" /\ (fields = <<>> => url_ = <<>>)
  /\ Len(fields) < MaxFields
  /\ fields' = Append(fields, f)
  /\ url_' = IF fields = <<>> THEN EncodedField(f)
             ELSE url_ \o <<Ampersand>> \o EncodedField(f)
  /\ UNCHANGED <<loopVars, decodeVars, where>>

(* The constructor and parse, up to the first test of the loop. *)
Construct ==
  /\ where = "new"
  /\ pos' = Find(Question, 0)
  /\ where' = "name"
  /\ UNCHANGED <<url_, params_, param_name, decodeVars, fields>>

MutantNameFromTextStart ==
  /\ where = "name" /\ pos =< Len(url_)
  /\ Find(Equals, pos) # 0
  /\ param_name' = SubSeq(url_, 1, Find(Equals, pos) - 1)
  /\ pos' = Find(Equals, pos)
  /\ where' = "value"
  /\ UNCHANGED <<url_, params_, decodeVars, fields>>

(* First half of the loop: the name, up to the next '='. *)
ReadName ==
  /\ where = "name" /\ pos =< Len(url_)
  /\ Find(Equals, pos) # 0
  /\ param_name' = SubSeq(url_, pos + 1, Find(Equals, pos) - 1)
  /\ pos' = Find(Equals, pos)
  /\ where' = "value"
  /\ UNCHANGED <<url_, params_, decodeVars, fields>>

MutantReturnsAtEndOnly ==
  /\ where = "name" /\ pos > Len(url_)
  /\ where' = "done"
  /\ UNCHANGED <<url_, loopVars, decodeVars, fields>>

(* The loop ends with the text, and in its middle when there is no '='. *)
Return ==
  /\ where = "name"
  /\ pos > Len(url_) \/ Find(Equals, pos) = 0
  /\ where' = "done"
  /\ UNCHANGED <<url_, loopVars, decodeVars, fields>>

(* Second half: the value, up to the next '&' or to the end of the text. *)
ReadValue ==
  LET found == Find(Ampersand, pos)
      end == IF found = 0 THEN Len(url_) + 1 ELSE found
  IN  /\ where = "value"
      /\ param_value' = SubSeq(url_, pos + 1, end - 1)
      /\ decoder' = NewDecoder
      /\ pos' = end
      /\ where' = "decode"
      /\ UNCHANGED <<url_, params_, param_name, fields>>

Decode ==
  /\ where = "decode" /\ param_value # <<>>
  /\ decoder' = DecodeChar(decoder, Head(param_value))
  /\ param_value' = Tail(param_value)
  /\ UNCHANGED <<url_, loopVars, where, fields>>

Put(params, name, value) ==
  [n \in DOMAIN params \cup {name} |-> IF n = name THEN value ELSE params[n]]

MutantFirstValueKept ==
  /\ where = "decode" /\ param_value = <<>>
  /\ params_' = IF param_name \in DOMAIN params_ THEN params_
                ELSE Put(params_, param_name, decoder.result)
  /\ where' = "name"
  /\ UNCHANGED <<url_, pos, param_name, decodeVars, fields>>

(* A parameter that was there already is overwritten. *)
StoreValue ==
  /\ where = "decode" /\ param_value = <<>>
  /\ params_' = Put(params_, param_name, decoder.result)
  /\ where' = "name"
  /\ UNCHANGED <<url_, pos, param_name, decodeVars, fields>>

Sender == (\E b \in Alphabet : AddByte(b)) \/ (\E f \in Fields : AddField(f))

Parse == ReadName \/ ReadValue \/ Decode \/ StoreValue \/ Return

UrlParserNext == Sender \/ Construct \/ Parse

(* Once it has its text, the parser runs on in its thread. *)
UrlParserSpec ==
  UrlParserInit /\ [][UrlParserNext]_parserVars
    /\ WF_parserVars(Parse)

param(par) == IF par \in DOMAIN params_ THEN params_[par] ELSE <<>>

-----------------------------------------------------------------------------
(* Type invariant of the parser. *)
UrlParserTypeOK ==
  /\ url_ \in Seq(Byte)
  /\ DOMAIN params_ \subseteq Seq(Byte)
  /\ \A n \in DOMAIN params_ : params_[n] \in Seq(Byte)
  /\ pos \in 0 .. Len(url_) + 1
  /\ param_name \in Seq(Byte)
  /\ param_value \in Seq(Byte)
  /\ decoder \in [state : {"General", "FirstDigit", "SecondDigit"},
                  first : Byte, result : Seq(Byte)]
  /\ where \in {"new", "name", "value", "decode", "done"}

(* What a form submits is what Params reads: once the parser has returned,  *)
(* each parameter is the last value given to its name, unescaped, and a     *)
(* name that was not submitted is empty.                                    *)
FormRoundTrip ==
  where = "done" /\ fields # <<>> =>
    /\ DOMAIN params_ = {fields[i].name : i \in 1 .. Len(fields)}
    /\ \A i \in 1 .. Len(fields) :
         (\A j \in i + 1 .. Len(fields) : fields[j].name # fields[i].name)
           => param(fields[i].name) = fields[i].value

(* The separators of a text, told without a scan: of the part after the     *)
(* first '?', or of all if there is none, the first '=' of each stretch     *)
(* between two '&'.                                                         *)
Start == Find(Question, 0)
Separators ==
  {e \in Start + 1 .. Len(url_) :
     /\ url_[e] = Equals
     /\ \A i \in Start + 1 .. e - 1 :
          url_[i] = Equals => \E a \in i + 1 .. e - 1 : url_[a] = Ampersand}

(* The first '&' after a separator, or the end of the text. *)
FieldEnd(e) ==
  CHOOSE a \in e + 1 .. Len(url_) + 1 :
    /\ a = Len(url_) + 1 \/ url_[a] = Ampersand
    /\ \A i \in e + 1 .. a - 1 : url_[i] # Ampersand

FieldStart(e, separators) ==
  LET earlier == {FieldEnd(d) : d \in {s \in separators : s < e}}
  IN  IF earlier = {} THEN Start + 1
      ELSE 1 + CHOOSE a \in earlier : \A b \in earlier : b =< a

FieldNames(separators) ==
  [e \in separators |-> SubSeq(url_, FieldStart(e, separators), e - 1)]

(* An escape is complete when two digits follow the '%'. *)
CompleteEscapes(str) ==
  \A i \in 1 .. Len(str) :
    str[i] = Percent => /\ i + 2 =< Len(str)
                        /\ {str[i + 1], str[i + 2]} \subseteq HexDigits

(* The places of str whose bytes the decoded string has: a digit that       *)
(* belongs to an escape has none of its own.                                *)
Places(str) ==
  {i \in 1 .. Len(str) :
     \A k \in {1, 2} : i - k \in 1 .. Len(str) => str[i - k] # Percent}

ByteAt(str, i) ==
  IF str[i] # Percent THEN str[i]
  ELSE 16 * hex_digit_to_int(str[i + 1]) + hex_digit_to_int(str[i + 2])

(* The value has the byte of each place, in their order.                    *)
Unescaped(str, value) ==
  LET places == Places(str) IN
  /\ Len(value) = Cardinality(places)
  /\ \A i \in places : value[Cardinality({j \in places : j =< i})] = ByteAt(str, i)

(* Whatever the text is, the parser has found one parameter for each name   *)
(* in front of a separator, and the value it keeps is what follows the last *)
(* separator of that name - unescaped byte by byte where its escapes are    *)
(* complete.  A stretch without '=' becomes part of the next name.          *)
ParamsFollowSeparators ==
  LET names == FieldNames(Separators)
  IN  where = "done" =>
        /\ DOMAIN params_ = {names[e] : e \in DOMAIN names}
        /\ \A e \in DOMAIN names :
             LET str == SubSeq(url_, e + 1, FieldEnd(e) - 1) IN
             CompleteEscapes(str)
             /\ (\A d \in DOMAIN names : d > e => names[d] # names[e])
               => Unescaped(str, param(names[e]))

(* The parser, once it has begun, returns on every text. *)
ParserReturns == where = "name" ~> where = "done"
=============================================================================
