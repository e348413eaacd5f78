----------------------------- MODULE MCCollector -----------------------------
(* Instances of SgcCollector for TLC. *)
EXTENDS SgcCollector, TLC

Symmetric == Permutations(Object \ Low) \cup Permutations(Low) \cup Permutations(Handle)

(* With ZeroFill nothing is read of a free block but its colour. *)
Seen == <<client, lists, frame, color,
          [o \in Object \ free |-> <<words[o], pointerless[o], type[o]>>]>>
=============================================================================
