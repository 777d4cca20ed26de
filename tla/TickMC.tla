------------------------------- MODULE TickMC -------------------------------
(* A small instance of the tick system: two branches that two workers clean  *)
(* at once, a function that moves between them, and one linked to itself.    *)
EXTENDS TickProperties

CONSTANTS a, b, c, d, g

OneGroup == [f \in Function |-> g]
EveryOther == [f \in Function |-> IF f = b THEN 2 ELSE 0]
Branches == {<<a, b>>, <<a, c>>, <<b, d>>, <<c, d>>, <<d, d>>}
=============================================================================
