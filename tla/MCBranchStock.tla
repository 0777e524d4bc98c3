---------------------------- MODULE MCBranchStock ----------------------------
(***************************************************************************)
(* Instances of BranchStock.  The requests are the calls that the source's *)
(* handlers make, with quantities of one or two units.                     *)
(***************************************************************************)
EXTENDS BranchStock, TLC

CONSTANTS hq, shop, tea, oil, order, slip, old

Call1(b, p, n) == [kind |-> "call", branch |-> b, product |-> p, delta |-> n]
In(b, p, n) == Call1(b, p, n)
Out(b, p, n) == Call1(b, p, -n)
Ask(kind, doc, calls) == [kind |-> kind, doc |-> doc, calls |-> calls]

MCOpening == [b \in Branch |-> [p \in Product |-> 1]]

\* Tea comes first by its id, oil by its name.
MCProductId == [p \in Product |-> IF p = tea THEN 1 ELSE 2]
MCNameRank == [p \in Product |-> IF p = tea THEN 2 ELSE 1]

\* Sales of one product and of both, at the till, from an offline till and from
\* a terminal.
Sales ==
  {Ask("sale", NoDoc, <<Out(hq, tea, 1)>>), Ask("sale", NoDoc, <<Out(hq, tea, 1), Out(hq, oil, 1)>>),
   Ask("synced", NoDoc, <<Out(hq, oil, 1)>>), Ask("device", NoDoc, <<Out(shop, oil, 1), Out(shop, tea, 1)>>)}

\* Direct transfers both ways.
Transfers ==
  {Ask("transfer", NoDoc, <<Out(hq, tea, 1), In(shop, tea, 1)>>),
   Ask("transfer", NoDoc, <<Out(shop, tea, 1), In(hq, tea, 1)>>)}

\* Two approved documents whose lines are sent in either order, and a third one
\* that has been dispatched, is received, and is resolved.
Distributions ==
  {Ask("dispatch", order, <<Out(hq, tea, 1), Out(hq, oil, 1)>>),
   Ask("dispatch", slip, <<Out(hq, oil, 1), Out(hq, tea, 1)>>),
   Ask("receipt", old, <<In(hq, oil, 2), In(hq, tea, 1)>>),
   Ask("receipt", order, <<In(shop, tea, 1)>>),
   Ask("resolution", old, <<In(shop, tea, 1)>>)}

AllRequests == Sales \cup Transfers \cup Distributions

=============================================================================
