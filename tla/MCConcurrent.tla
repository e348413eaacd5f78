---------------------------- MODULE MCConcurrent ----------------------------
(* Instances of SgcConcurrent for TLC. *)
EXTENDS SgcConcurrent, TLC

Symmetric == Permutations(Recognised) \cup Permutations(Object \ Recognised)
             \cup Permutations(Thread)

(* sgc_new_object clears the words of a free block before anyone looks,    *)
(* and the history is of one cycle.                                        *)
Seen == <<main, [o \in Object \ free |-> words[o]], color, root, mutator, queue,
          lists, pc, walk, missed \cap from>>
=============================================================================
