----------------------------- MODULE MCTracker ------------------------------
(* Instances of Tracker for TLC: status pages, offers, and a cookie that is  *)
(* no text.                                                                  *)
EXTENDS Tracker, TLC

Shape(query, status, addr, body, valid) ==
  [query |-> query, status |-> status, addr |-> addr, body |-> body,
   valid |-> valid]

statusPage == Shape(TRUE, TRUE, FALSE, FALSE, TRUE)
offer      == Shape(TRUE, FALSE, TRUE, FALSE, TRUE)
badCookie  == Shape(TRUE, FALSE, TRUE, FALSE, FALSE)

MainShapes == {statusPage, offer, badCookie}

Symmetry == Permutations(Workers) \cup Permutations(Conns)
=============================================================================
