--------------------------- MODULE MCDistribution ---------------------------
(***************************************************************************)
(* Instances of Distribution: a headquarters and one or two shops, one or  *)
(* two products, and an approval rule that lets small transfers through.   *)
(***************************************************************************)
EXTENDS Distribution, TLC

CONSTANTS hq, shop

\* Two units of the first product at HQ and one at a shop; one unit of every
\* other product, at HQ only.
MCOpening == [b \in Branch |-> [p \in Product |->
  IF p = 1 THEN (IF b = HQ THEN 2 ELSE 1) ELSE IF b = HQ THEN 1 ELSE 0]]

MCUnitCost == [p \in Product |-> 2 * p]

\* Transfers of at most one unit, worth at most 4, need no approval.
SmallTransfers ==
  [active |-> TRUE, auto |-> TRUE, requiresHQ |-> FALSE, maxValue |-> 4, maxQuantity |-> 1]

\* Sales and purchases at the headquarters.
MCTraded == [b \in Branch |-> IF b = HQ THEN 1 ELSE 0]

Symmetry == Permutations(Doc)

=============================================================================
