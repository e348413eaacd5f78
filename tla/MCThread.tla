------------------------------ MODULE MCThread ------------------------------
(* Instances of SgcThread for TLC. *)
EXTENDS SgcThread
=============================================================================
