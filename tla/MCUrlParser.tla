----------------------------- MODULE MCUrlParser -----------------------------
(* Instances of UrlParser for TLC: texts over the bytes that the parser      *)
(* tells apart, and short forms whose values hold those bytes.               *)
EXTENDS UrlParser

(* 'B', which is a digit and a letter, '4', '%', '&', '=', '?' *)
AllKinds == {66, 52, Percent, Ampersand, Equals, Question}

(* Bytes of a value: 'a', '&', '%', '?', and 191 (BF). *)
ShortFields ==
  [name : {<<97>>, <<98, 99>>},
   value : SeqOf({97, Ampersand, Percent, Question, 191}, 2),
   style : {"upper", "lower"}]
=============================================================================
