------------------------- MODULE MCPurchaseApproval -------------------------
(***************************************************************************)
(* A workflow of two steps, of which the clerk may decide the first and    *)
(* the owner both.                                                         *)
(***************************************************************************)
EXTENDS PurchaseApproval, TLC

CONSTANTS clerk, owner

MCMaySign == {<<clerk, 1>>, <<owner, 1>>, <<owner, 2>>}

Symmetry == Permutations(Session)

=============================================================================
