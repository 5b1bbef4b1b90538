-------------------------- MODULE MCVisitorHistory --------------------------
(* An instance of VisitorHistory for TLC: an offer that is added, excluded  *)
(* and removed again by one account, with costs on both sides of a range;   *)
(* an action and a type that do not exist, on behalf of another account,    *)
(* with the cost that is in no range; a page without an account.            *)
EXTENDS VisitorHistory, TLC

CONSTANTS acc1, acc2, off1, off2, off3

Id(action, type, offer) == [action |-> action, type |-> type, offer |-> offer]

Visit(account, gender, cost, ids) ==
  [account |-> account, gender |-> gender, cost |-> cost, ttl |-> 10, ids |-> ids]

MCVisits ==
  {Visit(acc1, "m", 2500, <<Id("add", "retargeting", off1), Id("add", "exclude_advertizer", off1)>>),
   Visit(acc1, "w", 2501, <<Id("remove", "retargeting", off1), Id("add", "exclude_advertizer", off2)>>),
   Visit(acc2, "", 25001, <<Id("?", "?", off1), Id("remove", "exclude_advertizer", off3)>>),
   Visit(NoAccount, "m", 1, <<Id("remove", "retargeting", off3)>>)}

MCPast ==
  [n \in Names |->
     CASE n = "retargeting" -> [g \in {<<off3, acc1>>} |-> [until |-> 20, at |-> NoTime]]
       [] n = "exclude_advertizer" -> <<<<off3, acc2>>>>
       [] OTHER -> None]

Symmetry == Permutations(Tabs)
=============================================================================
