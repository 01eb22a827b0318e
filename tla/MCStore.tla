------------------------------ MODULE MCStore ------------------------------
(***************************************************************************)
(* Store for TLC.  Jobs are interchangeable.                               *)
(***************************************************************************)
EXTENDS Store, TLC

JobSymmetry == Permutations(Jobs)
=============================================================================
