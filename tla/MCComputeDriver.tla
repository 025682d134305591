-------------------------- MODULE MCComputeDriver --------------------------
(***************************************************************************)
(* Instances of ComputeDriver for TLC.                                     *)
(***************************************************************************)
EXTENDS ComputeDriver, TLC

ClientSymmetry == Permutations(Clients)
=============================================================================
