------------------------------- MODULE MCIpc --------------------------------
(* Ipc on small instances. *)
EXTENDS Ipc, TLC

ClientSymmetry == Permutations(Clients)
=============================================================================
