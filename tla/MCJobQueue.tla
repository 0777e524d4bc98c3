----------------------------- MODULE MCJobQueue -----------------------------
(***************************************************************************)
(* Instances of JobQueue: two workers and two jobs, with one key.  All the *)
(* constants are sets of model values and numbers, given in the cfg files. *)
(***************************************************************************)
EXTENDS JobQueue

=============================================================================
