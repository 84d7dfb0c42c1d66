-------------------------- MODULE StrategyRegister --------------------------
(***************************************************************************)
(* What the strategies table promises to the rest of the service: for each *)
(* user at most one brand strategy is ever published, and once published   *)
(* it is the strategy every later job of that user is pinned to.  Nothing  *)
(* here says how publications of concurrent tasks are arbitrated; Store    *)
(* says it, and implements this module.                                    *)
(***************************************************************************)
CONSTANTS User, Row

VARIABLE published          \* published[u]: the strategy rows of user u

Init == published = [u \in User |-> {}]

Publish(u, row) ==
  /\ published[u] = {}
  /\ published' = [published EXCEPT ![u] = {row}]

Next == \E u \in User, row \in Row : Publish(u, row)

Spec == Init /\ [][Next]_published
=============================================================================
