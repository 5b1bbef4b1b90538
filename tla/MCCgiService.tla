---------------------------- MODULE MCCgiService ----------------------------
(* Instances of CgiService for TLC: the kinds of request that take different *)
(* ways through Params::parse and ProcessRequest, with and without a body.   *)
EXTENDS CgiService, TLC

Shape(query, status, addr, body, valid) ==
  [query |-> query, status |-> status, addr |-> addr, body |-> body,
   valid |-> valid]

noQuery    == Shape(FALSE, FALSE, TRUE, FALSE, TRUE)
statusPage == Shape(TRUE, TRUE, FALSE, FALSE, TRUE)
noAddress  == Shape(TRUE, FALSE, FALSE, TRUE, TRUE)
offer      == Shape(TRUE, FALSE, TRUE, TRUE, TRUE)
badCookie  == Shape(TRUE, FALSE, TRUE, FALSE, FALSE)

AllShapes == {noQuery, statusPage, noAddress, offer, badCookie}

Symmetry == Permutations(Workers) \cup Permutations(Conns)
=============================================================================
