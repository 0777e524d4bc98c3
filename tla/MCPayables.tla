----------------------------- MODULE MCPayables -----------------------------
(***************************************************************************)
(* An invoice and a purchase, a credit, and two payments which are dated   *)
(* in one year or in two; only the first has sequence rows at the start.   *)
(***************************************************************************)
EXTENDS Payables, TLC

\* Bill 2 is the invoice, 3 the purchase.
MCDue == [b \in Bill |-> IF b = 2 THEN 2 ELSE 1]
MCCreditAmount == [c \in Credit |-> 1]

Entry(form, amount, asked, year) ==
  [form |-> form, amount |-> amount, asked |-> asked, year |-> year]
Asked(b, n) == [Zero EXCEPT ![b] = n]
MCEntries ==
  {Entry("invoices", 2, Zero, 2), Entry("invoices", 1, Asked(2, 1), 1),
   Entry("purchases", 1, Asked(3, 1), 1)}

\* Payments and refunds have been numbered in the first year only.
MCStarted == {[of |-> of, year |-> 1, id |-> 1] : of \in {"payment", "refund"}}
MCUses == {[amount |-> 1, year |-> 1]}

Symmetry == Permutations(Connection)

=============================================================================
