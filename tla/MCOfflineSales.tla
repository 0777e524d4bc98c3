--------------------------- MODULE MCOfflineSales ---------------------------
(***************************************************************************)
(* A terminal and a front office of a branch, with a page each; sales of   *)
(* one or two lines of two products, and one that the office cannot book.  *)
(***************************************************************************)
EXTENDS OfflineSales

MCDeviceOf == [p \in Page |-> p]
MCHome == [k \in Sale |-> IF k % 2 = 1 THEN "till" ELSE "office"]
MCLines == [k \in Sale |-> IF k = 1 THEN <<"tea", "rice">> ELSE <<"tea">>]

=============================================================================
