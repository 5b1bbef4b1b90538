----------------------------- MODULE MCVisitors -----------------------------
(* Instances of Visitors for TLC: browsers without cookies, with one of the *)
(* service's name that has no digits, and with cookies of other names in    *)
(* which the configured name occurs, with and without digits, some of which *)
(* expire.                                                                  *)
EXTENDS Visitors

Cookie(own, equals, digits, expires) ==
  [own |-> own, match |-> TRUE, equals |-> equals,
   value |-> [digits |-> digits, rest |-> TRUE], expires |-> expires]

MCJars == {<<>>, <<Cookie(TRUE, 1, NoId, Never)>>, <<Cookie(FALSE, 1, NoId, 1)>>,
           <<Cookie(FALSE, 1, 7, 2)>>,
           <<Cookie(FALSE, 2, 7, Never), Cookie(TRUE, 1, NoId, Never)>>,
           <<Cookie(TRUE, 1, 3, 3), Cookie(FALSE, 1, 7, Never)>>}

NoJars == {<<>>}

(* With days of 4 seconds and ints up to 63 there are 15 days in an int.    *)
MCForms == {[text |-> <<>>, length |-> NotSet], [text |-> <<3>>, length |-> 1],
            [text |-> <<1, 5>>, length |-> 3], [text |-> <<1, 6>>, length |-> 4]}

NoForms == {[text |-> <<>>, length |-> NotSet]}

MCGarbage == {<<>>, <<0>>}
=============================================================================
