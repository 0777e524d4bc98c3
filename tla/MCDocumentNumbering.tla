------------------------ MODULE MCDocumentNumbering ------------------------
(***************************************************************************)
(* Instances of DocumentNumbering: a branch that has issued a number, one  *)
(* that has not, and documents of no branch.                               *)
(***************************************************************************)
EXTENDS DocumentNumbering

CONSTANTS nbi, msa

NbiRow == <<nbi>>
BothRows == <<nbi, msa>>

\* One document of every existing scope was issued on an earlier day.
OneEach == [k \in DOMAIN ExistingScopes |-> 1]

=============================================================================
