---------------------------- MODULE SgcContract ----------------------------
(***************************************************************************)
(* What the collector promises its client, with none of its lists and      *)
(* colours: the heap is a graph of objects, the registered roots are       *)
(* anchors in it, and a collection condemns exactly the objects that no    *)
(* chain of words leads to from an anchor.  An object the client freed     *)
(* itself (sgc_free_object) is disowned: the collector does not follow a   *)
(* pointer to it, and a pointer left to it is the client's own affair.     *)
(***************************************************************************)
CONSTANT Object     \* the blocks of the heap

VARIABLES
    usable,         \* objects the client may hold and dereference
    condemned,      \* objects found unreachable, not returned to the allocator yet
    edges,          \* edges[o]: the objects that the words of o point to
    anchors,        \* the objects that registered handles point to
    disowned        \* objects freed by the client, until their block is reused

vars == <<usable, condemned, edges, anchors, disowned>>

TypeOK == /\ usable \subseteq Object
          /\ condemned \subseteq Object
          /\ usable \cap condemned = {}
          /\ edges \in [Object -> SUBSET Object]
          /\ anchors \subseteq Object
          /\ disowned \subseteq Object
-----------------------------------------------------------------------------
(* A set that holds the anchors and whatever its members point to, the     *)
(* disowned objects apart; the reachable objects are those of every such   *)
(* set.                                                                    *)
Closed(R) == /\ anchors \ disowned \subseteq R
             /\ \A o \in R : edges[o] \ disowned \subseteq R

Reachable == {o \in Object : \A R \in SUBSET Object : Closed(R) => o \in R}
-----------------------------------------------------------------------------
Init == /\ usable = {}
        /\ condemned = {}
        /\ edges = [o \in Object |-> {}]
        /\ anchors = {}
        /\ disowned = {}

(* The client rewrites its words and handles, but only with pointers to    *)
(* objects it may use, and it may free objects.                            *)
Mutate == /\ edges' \in [Object -> SUBSET Object]
          /\ \A o \in Object : edges'[o] \subseteq edges[o] \cup usable
          /\ \A o \in Object \ usable : edges'[o] = {}
          /\ anchors' \in SUBSET (anchors \cup usable)
          /\ \E D \in SUBSET (usable \cup condemned) : disowned' = disowned \cup D
          /\ UNCHANGED <<usable, condemned>>

(* A block that is in use for nothing becomes an object; when it is the    *)
(* new place of a resized object the old one is disowned by the same call. *)
Allocate(o) == /\ o \notin usable \cup condemned
               /\ usable' = usable \cup {o}
               /\ \E E \in SUBSET (usable \cup {o} \cup disowned) :
                     edges' = [edges EXCEPT ![o] = E]
               /\ \E D \in SUBSET usable : disowned' = (disowned \ {o}) \cup D
               /\ UNCHANGED <<condemned, anchors>>

(* A collection keeps what is reachable and condemns the rest.             *)
Collect == /\ usable' = Reachable
           /\ condemned' = condemned \cup (usable \ Reachable)
           /\ edges' = [o \in Object |-> IF o \in Reachable THEN edges[o] ELSE {}]
           /\ UNCHANGED <<anchors, disowned>>

Reclaim(o) == /\ o \in condemned
              /\ condemned' = condemned \ {o}
              /\ UNCHANGED <<usable, edges, anchors, disowned>>

Next == \/ Mutate
        \/ \E o \in Object : Allocate(o)
        \/ Collect
        \/ \E o \in Object : Reclaim(o)

Spec == Init /\ [][Next]_vars
-----------------------------------------------------------------------------
(* What the client relies on: a registered handle, and a word of an object *)
(* it may use, point to an object it may use or to one it freed itself,    *)
(* never to a block the collector took away.                               *)
Sound == /\ anchors \subseteq usable \cup disowned
         /\ \A o \in usable : edges[o] \subseteq usable \cup disowned
=============================================================================
