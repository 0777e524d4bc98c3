---------------------------- MODULE MCPurchasing ----------------------------
(***************************************************************************)
(* An order that has one product on two lines, handled by two requests at  *)
(* a time.                                                                 *)
(***************************************************************************)
EXTENDS Purchasing, TLC

CONSTANTS tea

MCProductOf == [l \in Line |-> tea]
MCOrdered == [l \in Line |-> IF l = 1 THEN 1 ELSE 2]
MCOpening == [p \in Product |-> 1]

\* Good units of the first line, and good and bad ones of the second.
Delivery(first, good, bad) ==
  [l \in Line |-> IF l = 1 THEN [good |-> first, bad |-> 0] ELSE [good |-> good, bad |-> bad]]
MCDeliveries == {Delivery(0, 1, 0), Delivery(0, 1, 1), Delivery(1, 2, 0)}
MCReturned == {[p \in Product |-> 1]}
MCMaxSold == [p \in Product |-> 1]

Symmetry == Permutations(Session) \cup Permutations(Note)

=============================================================================
