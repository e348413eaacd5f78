---------------------------- MODULE MCThreadList ----------------------------
(* Instances of SgcThreadList for TLC. *)
EXTENDS SgcThreadList
=============================================================================
