------------------------------ MODULE MCAccess ------------------------------
(***************************************************************************)
(* Gate and Access for TLC.  Controllers are interchangeable.              *)
(***************************************************************************)
EXTENDS Access, TLC

ClientSymmetry == Permutations(Clients)
=============================================================================
