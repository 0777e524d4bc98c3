------------------------------- MODULE MCTill -------------------------------
(***************************************************************************)
(* Two shifts, two sales, a cash slip, and as many requests at a time as   *)
(* the configuration names.                                                *)
(***************************************************************************)
EXTENDS Till, TLC

MCSaleCash == [s \in Sale |-> IF s = "s1" THEN 1 ELSE 2]
MCSlipAmount == [p \in Slip |-> IF p = "p1" THEN 1 ELSE 2]
Symmetry == Permutations(Worker)

=============================================================================
