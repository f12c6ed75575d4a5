------------------------------ MODULE MCNotes -------------------------------
(* Notes on a small instance: two clean programs at a time, or one rough one. *)
EXTENDS Notes

MCMaxLive == [clean |-> 2, rough |-> 1]
=============================================================================
