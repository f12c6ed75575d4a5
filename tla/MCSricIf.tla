------------------------------ MODULE MCSricIf ------------------------------
(* SricIf on small instances. *)
EXTENDS SricIf, TLC

ClientSymmetry == Permutations(Clients)
=============================================================================
