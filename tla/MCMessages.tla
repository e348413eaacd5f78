----------------------------- MODULE MCMessages -----------------------------
(* Instances of SgcMessages for TLC. *)
EXTENDS SgcMessages
=============================================================================
