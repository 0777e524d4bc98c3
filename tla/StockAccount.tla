---------------------------- MODULE StockAccount ----------------------------
(***************************************************************************)
(* What the branch stock engine of pos/models.py promises: one account per *)
(* (branch, product), whose quantity changes only together with movements  *)
(* appended to the append-only StockMovement ledger, each carrying the     *)
(* balance it left behind.  BranchStock implements this specification with *)
(* row locks, statements and commits.                                      *)
(***************************************************************************)
EXTENDS Integers, Sequences

CONSTANTS Branch, Product, Opening

VARIABLES
  stock,   \* BranchStock.quantity of every branch and product
  ledger   \* the StockMovement rows of every branch and product, oldest first

vars == <<stock, ledger>>

Movement == [delta : Int, balance : Int]

\* The balance an account has after the movements s, when it opened at base.
Balance(base, s) == IF s = <<>> THEN base ELSE s[Len(s)].balance

\* Every movement of s carries the balance before it plus its own delta.
Chain(base, s) ==
  \A i \in 1..Len(s) :
    s[i].balance = (IF i = 1 THEN base ELSE s[i - 1].balance) + s[i].delta

Init ==
  /\ stock = Opening
  /\ ledger = [b \in Branch |-> [p \in Product |-> <<>>]]

\* The movements that a step added to the account (b, p).
Added(b, p) ==
  SubSeq(ledger'[b][p], Len(ledger[b][p]) + 1, Len(ledger'[b][p]))

\* A step keeps every movement already written, adds a chain of new ones that
\* starts at the account's quantity, and leaves the quantity at its end.
Post(b, p) ==
  /\ Len(ledger'[b][p]) >= Len(ledger[b][p])
  /\ \A i \in 1..Len(ledger[b][p]) : ledger'[b][p][i] = ledger[b][p][i]
  /\ Chain(stock[b][p], Added(b, p))
  /\ stock'[b][p] = Balance(stock[b][p], Added(b, p))

Next == \A b \in Branch, p \in Product : Post(b, p)

Spec == Init /\ [][Next]_vars

=============================================================================
