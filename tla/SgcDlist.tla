------------------------------ MODULE SgcDlist ------------------------------
(***************************************************************************)
(* The circular doubly linked lists of sgc_dlist.c, pointer by pointer,    *)
(* and what sgc.c does with them: appending to the 'new' list, joining     *)
(* lists at the start of a cycle, moving objects to the end of the 'scan'  *)
(* list while going along it, and going along the 'from' list while its    *)
(* members are freed and their blocks used again.                          *)
(***************************************************************************)
EXTENDS Naturals, Sequences, FiniteSets

CONSTANTS
    Node,           \* the blocks, by the list cell in their header
    NULL

ASSUME DlistAssumption == NULL \notin Node /\ IsFiniteSet(Node)

VARIABLES
    next, prev,     \* node->next, node->prev
    newList, fromList, scanList,    \* the heads sgc_new_list, ...
    free,           \* the blocks that the allocator has
    scanPtr,        \* scan_ptr in sgc_mark
    node,           \* node in sgc_sweep: the next object to free
    pc              \* "client", "roots", "scan", "sweep", "crashed"

vars == <<next, prev, newList, fromList, scanList, free, scanPtr, node, pc>>
-----------------------------------------------------------------------------
(* The functions of sgc_dlist.c.  Each takes the links L = [next, prev],   *)
(* and yields the links after the call and the head it returns.            *)

Links == [next |-> next, prev |-> prev]

Result(n, p, h) == [next |-> n, prev |-> p, head |-> h]

(* sgc_dlist_append; list->prev->next is written through list->prev.       *)
DlistAppend(L, list, n) ==
    IF list = NULL
    THEN Result([L.next EXCEPT ![n] = n], [L.prev EXCEPT ![n] = n], n)
    ELSE LET p == [L.prev EXCEPT ![n] = L.prev[list]]
         IN  Result([L.next EXCEPT ![n] = list, ![p[list]] = n], [p EXCEPT ![list] = n], list)

AppendFaults(L, list) == list # NULL /\ L.prev[list] = NULL

(* sgc_dlist_remove_node of a node on a ring: the node that follows it,    *)
(* NULL when it was alone, and then its links stay.                        *)
DlistRemoveNode(L, n) ==
    IF L.next[n] = n
    THEN Result(L.next, L.prev, NULL)
    ELSE Result([L.next EXCEPT ![L.prev[n]] = L.next[n], ![n] = NULL],
                [L.prev EXCEPT ![L.next[n]] = L.prev[n], ![n] = NULL],
                L.next[n])

(* Mutant: the head keeps its prev link.                                   *)
DlistJoin_KeepsPrev(L, list1, list2) ==
    IF list2 = NULL THEN Result(L.next, L.prev, list1)
    ELSE IF list1 = NULL THEN Result(L.next, L.prev, list2)
    ELSE Result([L.next EXCEPT ![L.prev[list1]] = list2, ![L.prev[list2]] = list1],
                [L.prev EXCEPT ![list2] = L.prev[list1]],
                list1)

(* sgc_dlist_join: the second ring is put at the end of the first.         *)
DlistJoin(L, list1, list2) ==
    IF list2 = NULL THEN Result(L.next, L.prev, list1)
    ELSE IF list1 = NULL THEN Result(L.next, L.prev, list2)
    ELSE Result([L.next EXCEPT ![L.prev[list1]] = list2, ![L.prev[list2]] = list1],
                [L.prev EXCEPT ![list2] = L.prev[list1], ![list1] = L.prev[list2]],
                list1)

(* sgc_from_list_remove: of a node that is not the head of 'from' the new  *)
(* head is dropped, whichever list it is on.                               *)
FromListRemove(L, n) ==
    LET r == DlistRemoveNode(L, n)
    IN  [r EXCEPT !.head = IF n = fromList THEN r.head ELSE fromList]
-----------------------------------------------------------------------------
Init == /\ next = [n \in Node |-> NULL] /\ prev = [n \in Node |-> NULL]
        /\ newList = NULL /\ fromList = NULL /\ scanList = NULL
        /\ free = Node
        /\ scanPtr = NULL /\ node = NULL
        /\ pc = "client"

(* sgc_new_object and sgc_new_list_append, in the client or a finaliser.   *)
AppendNew(n) ==
    /\ pc \in {"client", "sweep"}
    /\ n \in free
    /\ free' = free \ {n}
    /\ LET r == DlistAppend(Links, newList, n)
       IN  next' = r.next /\ prev' = r.prev /\ newList' = r.head
    /\ UNCHANGED <<fromList, scanList, scanPtr, node, pc>>

(* The first lines of sgc_run and sgc_search_memory_leaks.                 *)
Start ==
    /\ pc = "client"
    /\ LET r == DlistJoin(Links, scanList, newList)
       IN  next' = r.next /\ prev' = r.prev /\ fromList' = r.head
    /\ newList' = NULL /\ scanList' = NULL
    /\ pc' = "roots"
    /\ UNCHANGED <<free, scanPtr, node>>

(* The nodes from a up to the one before h, in the order of next; a ring   *)
(* is what goes from its head up to its head.                              *)
Along(a) == LET nth[i \in 0..Cardinality(Node)] ==
                    IF i = 0 THEN a
                    ELSE IF nth[i-1] = NULL THEN NULL ELSE next[nth[i-1]]
            IN  nth

Walk(a, h) ==
    LET nth  == Along(a)
        Ends == {i \in 1..Cardinality(Node) : nth[i] = h}
    IN  IF a = NULL THEN <<>>
        ELSE IF Ends = {} THEN <<NULL>>
        ELSE LET n == CHOOSE i \in Ends : \A j \in Ends : i <= j
             IN  [i \in 1..n |-> nth[i-1]]

Members(s) == {s[i] : i \in DOMAIN s}
Ring(h)    == Walk(h, h)

(* The part of 'scan' that the scan pointer has not passed: WHITE objects, *)
(* which sgc_scan_mem moves, are there.                                    *)
Ahead == IF pc = "roots" THEN Members(Ring(scanList))
         ELSE IF next[scanPtr] = scanList THEN {}
         ELSE Members(Walk(next[scanPtr], scanList))

(* sgc_from_list_remove and sgc_scan_list_append, in the loop over the     *)
(* roots and in sgc_scan_mem.  The append writes through the NULL that the *)
(* removal leaves in the head of a longer 'scan' list.                     *)
Move(n) ==
    /\ pc \in {"roots", "scan"}
    /\ n \in Members(Ring(fromList)) \cup Ahead
    /\ LET r == FromListRemove(Links, n)
           a == DlistAppend(r, scanList, n)
       IN  IF AppendFaults(r, scanList)
           THEN pc' = "crashed" /\ UNCHANGED <<next, prev, fromList, scanList>>
           ELSE /\ next' = a.next /\ prev' = a.prev
                /\ fromList' = r.head /\ scanList' = a.head
                /\ UNCHANGED pc
    /\ UNCHANGED <<newList, free, scanPtr, node>>

(* The scan pointer starts at the head of 'scan'; sgc_sweep at that of     *)
(* 'from' when nothing is to be scanned.                                   *)
RootsDone ==
    /\ pc = "roots"
    /\ scanPtr' = scanList
    /\ IF scanList = NULL THEN pc' = "sweep" /\ node' = fromList
                          ELSE pc' = "scan" /\ UNCHANGED node
    /\ UNCHANGED <<next, prev, newList, fromList, scanList, free>>

(* scan_ptr = sgc_dlist_next(scan_ptr), until it is the head again.        *)
Advance ==
    /\ pc = "scan"
    /\ IF next[scanPtr] = scanList
       THEN scanPtr' = NULL /\ pc' = "sweep" /\ node' = fromList
       ELSE scanPtr' = next[scanPtr] /\ UNCHANGED <<pc, node>>
    /\ UNCHANGED <<next, prev, newList, fromList, scanList, free>>

(* The next object is read before this one is freed; the head tells the    *)
(* end of the ring.                                                        *)
NextToSweep == IF next[node] = fromList THEN NULL ELSE next[node]

(* Mutant: the block is freed first, and holds the allocator's link.       *)
Sweep_ReadsLate ==
    /\ pc = "sweep" /\ node # NULL
    /\ \E link \in free \cup {NULL} :
          /\ next' = [next EXCEPT ![node] = link]
          /\ node' = IF link = fromList THEN NULL ELSE link
    /\ free' = free \cup {node}
    /\ UNCHANGED <<prev, newList, fromList, scanList, scanPtr, pc>>

(* One round of sgc_sweep: sgc_allocator_free uses the link of the object  *)
(* for its own list of blocks, and sgc_from_list stays what it was.        *)
Sweep ==
    /\ pc = "sweep" /\ node # NULL
    /\ node' = NextToSweep
    /\ \E link \in free \cup {NULL} : next' = [next EXCEPT ![node] = link]
    /\ free' = free \cup {node}
    /\ UNCHANGED <<prev, newList, fromList, scanList, scanPtr, pc>>

(* sgc_search_memory_leaks sweeps past what is WHITE.                      *)
SweepLeaked ==
    /\ pc = "sweep" /\ node # NULL
    /\ node' = NextToSweep
    /\ UNCHANGED <<next, prev, newList, fromList, scanList, free, scanPtr, pc>>

(* Mutant: sgc_sweep returns with objects left.                            *)
SweepDone_Early ==
    /\ pc = "sweep"
    /\ pc' = "client"
    /\ UNCHANGED <<next, prev, newList, fromList, scanList, free, scanPtr, node>>

(* The loop is through.                                                    *)
SweepDone ==
    /\ pc = "sweep" /\ node = NULL
    /\ pc' = "client"
    /\ UNCHANGED <<next, prev, newList, fromList, scanList, free, scanPtr, node>>

Next == \/ \E n \in Node : AppendNew(n)
        \/ \E n \in Node : Move(n)
        \/ Start \/ RootsDone \/ Advance \/ Sweep \/ SweepLeaked \/ SweepDone

Spec == Init /\ [][Next]_vars
-----------------------------------------------------------------------------
(***************************************************************************)
(* Properties.                                                             *)
(***************************************************************************)
(* Every variable has its type, and the two loops have their pointer where *)
(* they run, and nowhere else.                                             *)
TypeOK ==
    /\ next \in [Node -> Node \cup {NULL}] /\ prev \in [Node -> Node \cup {NULL}]
    /\ {newList, fromList, scanList, scanPtr, node} \subseteq Node \cup {NULL}
    /\ free \subseteq Node
    /\ pc \in {"client", "roots", "scan", "sweep", "crashed"}
    /\ scanPtr # NULL <=> pc = "scan"
    /\ node # NULL => pc = "sweep"

(* The lists are rings in both directions: prev undoes next at every node  *)
(* of the three, also where an operation met a list of one or two nodes.   *)
(* While 'from' is swept nothing reads its prev links.                     *)
RingsAreRings ==
    \A h \in {newList, scanList} \cup IF pc \in {"roots", "scan"} THEN {fromList} ELSE {} :
        \A n \in Members(Ring(h)) : next[n] # NULL /\ prev[next[n]] = n

(* The pointers implement the sequences of SgcLists, through a whole cycle *)
(* and across cycles: no object is lost from a list, put on two, passed    *)
(* over by the scan pointer or by sgc_sweep, or swept twice; and moving an *)
(* object fails exactly where it is the head of a longer 'scan' list.      *)
New  == Ring(newList)
Scan == Ring(scanList)
From == IF pc \in {"roots", "scan", "crashed"} THEN Ring(fromList)
        ELSE IF pc = "sweep" THEN Walk(node, fromList)
        ELSE <<>>

Passed == IF pc # "scan" THEN 0
          ELSE CHOOSE i \in DOMAIN Scan : Scan[i] = scanPtr

Lists == INSTANCE SgcLists WITH
    new <- New, from <- From, scan <- Scan, passed <- Passed

KeepsLists == Lists!Spec
=============================================================================
