----------------------------- MODULE MCAllocator -----------------------------
(* Instances of SgcAllocator for TLC. *)
EXTENDS SgcAllocator
=============================================================================
