------------------------------- MODULE MCDlist -------------------------------
(* Instances of SgcDlist for TLC. *)
EXTENDS SgcDlist, TLC

Symmetric == Permutations(Node)
=============================================================================
