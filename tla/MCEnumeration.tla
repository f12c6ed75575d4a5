---------------------------- MODULE MCEnumeration ----------------------------
(* Enumeration on small buses. *)
EXTENDS Enumeration
=============================================================================
