----------------------------- MODULE MCCheckout -----------------------------
(***************************************************************************)
(* Five units of one product and two of another, one customer, and         *)
(* baskets for cash, on credit, with the promotion (two free for each one  *)
(* bought), with points redeemed (also for more than the basket is worth), *)
(* and with one product on two lines.                                      *)
(***************************************************************************)
EXTENDS Checkout, TLC

MCSupply == [p \in Product |-> IF p = "tea" THEN 5 ELSE 2]
MCLimit == [c \in Customer |-> 5]

Tea(n) == [product |-> "tea", quantity |-> n]
Rice(n) == [product |-> "rice", quantity |-> n]
Buy(lines, customer, credit, promo, redeem) ==
  [lines |-> lines, customer |-> customer, credit |-> credit, promo |-> promo, redeem |-> redeem]
MCBasket ==
  {Buy(<<Tea(1)>>, Nobody, FALSE, TRUE, 0),
   Buy(<<Rice(1)>>, "eve", TRUE, TRUE, 0),
   Buy(<<Tea(2)>>, "eve", TRUE, FALSE, 0),
   Buy(<<Tea(3)>>, "eve", FALSE, FALSE, 0),
   Buy(<<Tea(1)>>, "eve", FALSE, FALSE, 1),
   Buy(<<Tea(1)>>, "eve", TRUE, FALSE, 3),
   Buy(<<Rice(1), Rice(1)>>, Nobody, FALSE, FALSE, 0)}

Symmetry == Permutations(Handler)

=============================================================================
