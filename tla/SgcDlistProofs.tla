--------------------------- MODULE SgcDlistProofs ---------------------------
(***************************************************************************)
(* Proofs about SgcDlist, for any number of blocks.  That the lists stay   *)
(* rings does not need them ring by ring: what every function of           *)
(* sgc_dlist.c keeps is that next permutes the nodes that are on lists,    *)
(* and prev undoes it.  That they implement the sequences of SgcLists      *)
(* does: the second half follows each list as a sequence of nodes.         *)
(***************************************************************************)
EXTENDS SgcDlist, SequencesExt, SequenceTheorems, SgcWalks
-----------------------------------------------------------------------------
(* Going along a list.                                                     *)

LEMMA AlongSteps ==
    ASSUME NEW a
    PROVE  /\ Cardinality(Node) \in Nat
           /\ Along(a)[0] = a
           /\ \A i \in 1..Cardinality(Node) :
                 Along(a)[i] = IF Along(a)[i-1] = NULL THEN NULL ELSE next[Along(a)[i-1]]
<1>1. Cardinality(Node) \in Nat
  BY DlistAssumption, FS_CardinalityType
<1>2. Steps(Along(a), Cardinality(Node), a, next, NULL)
  <2>1. PICK f : Steps(f, Cardinality(Node), a, next, NULL)
    BY <1>1, StepsExist
  <2> QED
    BY <2>1 DEF Steps, Along
<1> DEFINE f == Along(a)
<1> HIDE DEF f
<1>3. \A i \in 0..Cardinality(Node) :
          f[i] = IF i = 0 THEN a ELSE IF f[i-1] = NULL THEN NULL ELSE next[f[i-1]]
  BY <1>2 DEF f, Steps
<1> QED
  BY <1>1, <1>3 DEF f

(* The way does not leave a set that next does not lead out of.            *)
LEMMA AlongStays ==
    ASSUME NEW A \in SUBSET Node, \A m \in A : next[m] \in A, NEW a \in A,
           NEW k \in 0..Cardinality(Node)
    PROVE  Along(a)[k] \in A
<1> DEFINE Bad == {i \in 0..Cardinality(Node) : Along(a)[i] \notin A}
<1> SUFFICES ASSUME Bad # {}
             PROVE  FALSE
  OBVIOUS
<1>1. Cardinality(Node) \in Nat /\ NULL \notin A
  BY AlongSteps, DlistAssumption
<1>2. PICK i \in Bad : \A j \in Bad : i <= j
  <2>1. Bad \in SUBSET Nat
    BY <1>1
  <2> QED
    BY <2>1, Least
<1>3. i # 0
  BY AlongSteps
<1>4. i - 1 \in 0..Cardinality(Node) /\ i - 1 \notin Bad /\ i \in 1..Cardinality(Node)
  BY <1>1, <1>2, <1>3
<1>5. Along(a)[i-1] \in A
  BY <1>4
<1> QED
  BY <1>1, <1>4, <1>5, AlongSteps

(* Where next permutes the nodes it comes back.                            *)
LEMMA AlongReturns ==
    ASSUME NEW A \in SUBSET Node, \A m \in A : next[m] \in A,
           \A m, k \in A : next[m] = next[k] => m = k, NEW a \in A
    PROVE  \E i \in 1..Cardinality(Node) : Along(a)[i] = a
<1> DEFINE N == Cardinality(Node)
<1>1. N \in Nat /\ NULL \notin A /\ IsFiniteSet(A) /\ Cardinality(A) <= N
      /\ Cardinality(A) \in Nat
  BY DlistAssumption, FS_CardinalityType, FS_Subset
<1>2. \A i \in 0..N : Along(a)[i] \in A
  BY AlongStays
<1> DEFINE Meet(i) == \E j \in 0..N : i < j /\ Along(a)[i] = Along(a)[j]
           Early == {i \in 0..N : Meet(i)}
<1>3. Early # {}
  <2> DEFINE f == [i \in 0..N |-> Along(a)[i]]
  <2>1. f \in [0..N -> A]
    BY <1>2
  <2>2. IsFiniteSet(0..N) /\ Cardinality(0..N) = N + 1
    BY <1>1, FS_Interval
  <2>3. \E i, j \in 0..N : i # j /\ f[i] = f[j]
    <3> HIDE DEF f
    <3> QED
      BY <1>1, <2>1, <2>2, FS_PigeonHole
  <2>4. PICK i \in 0..N, j \in 0..N : i # j /\ Along(a)[i] = Along(a)[j]
    BY <2>3
  <2>5. i < j \/ j < i
    BY <1>1, <2>4
  <2> QED
    BY <2>4, <2>5
<1>4. PICK i \in Early : \A j \in Early : i <= j
  <2>1. Early \in SUBSET Nat
    BY <1>1
  <2> QED
    BY <1>3, <2>1, Least
<1>5. PICK j \in 0..N : i < j /\ Along(a)[i] = Along(a)[j]
  OBVIOUS
<1>6. CASE i = 0
  BY <1>1, <1>5, <1>6, AlongSteps
<1>7. CASE i # 0
  <2>1. /\ i - 1 \in 0..N /\ j - 1 \in 0..N /\ i - 1 < j - 1
        /\ i \in 1..N /\ j \in 1..N
    BY <1>1, <1>5, <1>7
  <2>2. next[Along(a)[i-1]] = next[Along(a)[j-1]]
    BY <1>1, <1>2, <1>5, <2>1, AlongSteps
  <2>3. Along(a)[i-1] = Along(a)[j-1]
    BY <1>2, <2>1, <2>2
  <2>4. i - 1 \in Early
    BY <2>1, <2>3
  <2> QED
    BY <1>1, <1>4, <2>1, <2>4
<1> QED
  BY <1>6, <1>7

LEMMA WalkStays ==
    ASSUME NEW A \in SUBSET Node, \A m \in A : next[m] \in A, NEW a \in A, NEW h
    PROVE  Members(Walk(a, h)) \subseteq A \cup {NULL}
<1> DEFINE Ends == {i \in 1..Cardinality(Node) : Along(a)[i] = h}
           n == CHOOSE i \in Ends : \A j \in Ends : i <= j
<1>1. Cardinality(Node) \in Nat /\ a # NULL
  BY AlongSteps, DlistAssumption
<1>2. CASE Ends = {}
  <2>1. Walk(a, h) = <<NULL>>
    BY <1>1, <1>2 DEF Walk
  <2> QED
    BY <2>1 DEF Members
<1>3. CASE Ends # {}
  <2>1. n \in 1..Cardinality(Node)
    <3>1. Ends \in SUBSET Nat
      BY <1>1
    <3>2. \E i \in Ends : \A j \in Ends : i <= j
      BY <1>3, <3>1, Least
    <3> QED
      BY <3>2
  <2>2. Walk(a, h) = [i \in 1..n |-> Along(a)[i-1]]
    BY <1>1, <1>3 DEF Walk
  <2> HIDE DEF n
  <2>3. \A i \in 1..n : Along(a)[i-1] \in A
    <3>1. \A i \in 1..n : i - 1 \in 0..Cardinality(Node)
      BY <1>1, <2>1
    <3> QED
      BY <3>1, AlongStays
  <2> QED
    BY <2>2, <2>3 DEF Members
<1> QED
  BY <1>2, <1>3

(* A walk to somewhere else does not come to where it is to end.           *)
LEMMA WalkAvoids ==
    ASSUME NEW a, NEW h, a # h, h # NULL
    PROVE  h \notin Members(Walk(a, h))
<1> DEFINE Ends == {i \in 1..Cardinality(Node) : Along(a)[i] = h}
           n == CHOOSE i \in Ends : \A j \in Ends : i <= j
<1>1. Cardinality(Node) \in Nat
  BY AlongSteps
<1>2. CASE a = NULL \/ Ends = {}
  <2>1. Walk(a, h) = <<>> \/ Walk(a, h) = <<NULL>>
    BY <1>2 DEF Walk
  <2> QED
    BY <2>1 DEF Members
<1>3. CASE a # NULL /\ Ends # {}
  <2>1. n \in 1..Cardinality(Node) /\ \A j \in Ends : n <= j
    <3>1. Ends \in SUBSET Nat
      BY <1>1
    <3>2. \E i \in Ends : \A j \in Ends : i <= j
      BY <1>3, <3>1, Least
    <3> QED
      BY <3>2
  <2>2. Walk(a, h) = [i \in 1..n |-> Along(a)[i-1]]
    BY <1>3 DEF Walk
  <2> HIDE DEF n
  <2>3. ASSUME NEW i \in 1..n
        PROVE  Along(a)[i-1] # h
    <3>1. CASE i = 1
      BY <3>1, AlongSteps
    <3>2. CASE i # 1
      <4>1. i - 1 \in 1..Cardinality(Node) /\ i - 1 < n
        BY <1>1, <2>1, <3>2
      <4> QED
        BY <1>1, <2>1, <4>1
    <3> QED
      BY <3>1, <3>2
  <2> QED
    BY <2>2, <2>3 DEF Members
<1> QED
  BY <1>2, <1>3

(* A list from its head to its head is a walk that ends.                   *)
LEMMA RingStays ==
    ASSUME NEW A \in SUBSET Node, \A m \in A : next[m] \in A,
           \A m, k \in A : next[m] = next[k] => m = k, NEW a \in A
    PROVE  Members(Ring(a)) \subseteq A
<1> DEFINE Ends == {i \in 1..Cardinality(Node) : Along(a)[i] = a}
           n == CHOOSE i \in Ends : \A j \in Ends : i <= j
<1>1. Cardinality(Node) \in Nat /\ a # NULL /\ Ends # {}
  BY AlongSteps, AlongReturns, DlistAssumption
<1>2. n \in 1..Cardinality(Node)
  <2>1. Ends \in SUBSET Nat
    BY <1>1
  <2>2. \E i \in Ends : \A j \in Ends : i <= j
    BY <1>1, <2>1, Least
  <2> QED
    BY <2>2
<1>3. Ring(a) = [i \in 1..n |-> Along(a)[i-1]]
  BY <1>1 DEF Walk, Ring
<1> HIDE DEF n
<1>4. \A i \in 1..n : Along(a)[i-1] \in A
  <2>1. \A i \in 1..n : i - 1 \in 0..Cardinality(Node)
    BY <1>1, <1>2
  <2> QED
    BY <2>1, AlongStays
<1> QED
  BY <1>3, <1>4 DEF Members
-----------------------------------------------------------------------------
(* The functions of sgc_dlist.c.                                           *)

Maybe == Node \cup {NULL}
LinksOK(L) == L.next \in [Node -> Maybe] /\ L.prev \in [Node -> Maybe]

(* next permutes the nodes of A, and prev undoes it.                       *)
Permutes(L, A) ==
    \A m \in A : /\ L.next[m] \in A /\ L.prev[m] \in A
                 /\ L.prev[L.next[m]] = m /\ L.next[L.prev[m]] = m

(* Two pairs of links agree on B.                                          *)
Same(K, L, B) == \A m \in B : K.next[m] = L.next[m] /\ K.prev[m] = L.prev[m]

LEMMA PermutesSame ==
    ASSUME NEW K, NEW L, NEW B, Same(K, L, B), Permutes(L, B)
    PROVE  Permutes(K, B)
  BY DEF Same, Permutes

(* Removing a node leaves the others permuted.                             *)
LEMMA RemovePermutes ==
    ASSUME NEW L, LinksOK(L), NEW A \in SUBSET Node, Permutes(L, A), NEW n \in A
    PROVE  LET r == DlistRemoveNode(L, n)
           IN  /\ LinksOK(r) /\ Permutes(r, A \ {n}) /\ r.head \in (A \ {n}) \cup {NULL}
               /\ Same(r, L, Node \ A)
               /\ L.next[n] = n => r.next = L.next /\ r.prev = L.prev
               /\ L.next[n] # n => r.prev[n] = NULL
<1>0. NULL \notin Node
  BY DlistAssumption
<1>1. CASE L.next[n] = n
  <2>1. L.prev[n] = n
    BY <1>1 DEF Permutes
  <2>2. \A m \in A \ {n} : L.next[m] # n /\ L.prev[m] # n
    BY <1>1, <2>1 DEF Permutes
  <2> QED
    BY <1>1, <2>1, <2>2 DEF DlistRemoveNode, Result, LinksOK, Permutes, Same, Maybe
<1>2. CASE L.next[n] # n
  <2> DEFINE r == DlistRemoveNode(L, n)
             p == L.prev[n]
             q == L.next[n]
             rn == [L.next EXCEPT ![p] = q, ![n] = NULL]
             rp == [L.prev EXCEPT ![q] = p, ![n] = NULL]
  <2>1. r.next = rn /\ r.prev = rp /\ r.head = q
    BY <1>2 DEF DlistRemoveNode, Result
  <2>2. p \in A /\ q \in A /\ p # n /\ q # n /\ L.next[p] = n /\ L.prev[q] = n
    BY <1>2 DEF Permutes
  <2>3. /\ \A m \in Node : rn[m] = IF m = n THEN NULL ELSE IF m = p THEN q ELSE L.next[m]
        /\ \A m \in Node : rp[m] = IF m = n THEN NULL ELSE IF m = q THEN p ELSE L.prev[m]
        /\ rn \in [Node -> Maybe] /\ rp \in [Node -> Maybe]
    BY <2>2 DEF LinksOK, Maybe
  <2> HIDE DEF r, p, q, rn, rp
  <2>4. \A m \in A \ {n} : L.next[m] = n => m = p
    BY <2>2 DEF Permutes, p
  <2>5. \A m \in A \ {n} : L.prev[m] = n => m = q
    BY <2>2 DEF Permutes, q
  <2>6. Permutes(r, A \ {n})
    <3> SUFFICES ASSUME NEW m \in A \ {n}
                 PROVE  /\ rn[m] \in A \ {n} /\ rp[m] \in A \ {n}
                        /\ rp[rn[m]] = m /\ rn[rp[m]] = m
      BY <2>1 DEF Permutes
    <3>1. rn[m] \in A \ {n} /\ rp[rn[m]] = m
      BY <2>2, <2>3, <2>4 DEF Permutes
    <3>2. rp[m] \in A \ {n} /\ rn[rp[m]] = m
      BY <2>2, <2>3, <2>5 DEF Permutes
    <3> QED
      BY <3>1, <3>2
  <2>7. LinksOK(r) /\ r.head \in (A \ {n}) \cup {NULL} /\ Same(r, L, Node \ A) /\ r.prev[n] = NULL
    BY <2>1, <2>2, <2>3 DEF LinksOK, Same
  <2> QED
    BY <1>2, <2>6, <2>7 DEF r
<1> QED
  BY <1>1, <1>2

(* Appending a node adds it to them.                                       *)
LEMMA AppendPermutes ==
    ASSUME NEW L, LinksOK(L), NEW A \in SUBSET Node, Permutes(L, A), NEW n \in Node \ A,
           NEW list \in A \cup {NULL}
    PROVE  LET r == DlistAppend(L, list, n)
           IN  /\ LinksOK(r) /\ Permutes(r, A \cup {n}) /\ r.head \in A \cup {n}
               /\ Same(r, L, Node \ (A \cup {n}))
               /\ ~ AppendFaults(L, list)
<1>0. NULL \notin Node
  BY DlistAssumption
<1>1. CASE list = NULL
  BY <1>0, <1>1 DEF DlistAppend, AppendFaults, Result, LinksOK, Permutes, Same, Maybe
<1>2. CASE list # NULL
  <2> DEFINE r == DlistAppend(L, list, n)
             q == L.prev[list]
             p == [L.prev EXCEPT ![n] = q]
             rn == [L.next EXCEPT ![n] = list, ![p[list]] = n]
             rp == [p EXCEPT ![list] = n]
  <2>1. r.next = rn /\ r.prev = rp /\ r.head = list
    BY <1>2 DEF DlistAppend, Result
  <2>2. list \in A /\ list # n /\ q \in A /\ q # n /\ L.next[q] = list
    BY <1>2 DEF Permutes
  <2>3. p[list] = q
    BY <2>2 DEF LinksOK
  <2>4. /\ \A m \in Node : rn[m] = IF m = q THEN n ELSE IF m = n THEN list ELSE L.next[m]
        /\ \A m \in Node : rp[m] = IF m = list THEN n ELSE IF m = n THEN q ELSE L.prev[m]
        /\ rn \in [Node -> Maybe] /\ rp \in [Node -> Maybe]
    BY <2>2, <2>3 DEF LinksOK, Maybe
  <2>5. q # NULL
    BY <1>0, <2>2
  <2> HIDE DEF r, p, q, rn, rp
  <2>6. Permutes(r, A \cup {n})
    <3> SUFFICES ASSUME NEW m \in A \cup {n}
                 PROVE  /\ rn[m] \in A \cup {n} /\ rp[m] \in A \cup {n}
                        /\ rp[rn[m]] = m /\ rn[rp[m]] = m
      BY <2>1 DEF Permutes
    <3>1. rn[m] \in A \cup {n} /\ rp[rn[m]] = m
      BY <2>2, <2>4 DEF Permutes, q
    <3>2. rp[m] \in A \cup {n} /\ rn[rp[m]] = m
      BY <2>2, <2>4 DEF Permutes, q
    <3> QED
      BY <3>1, <3>2
  <2>7. LinksOK(r) /\ r.head \in A \cup {n} /\ Same(r, L, Node \ (A \cup {n}))
    BY <2>1, <2>2, <2>4 DEF LinksOK, Same
  <2>8. ~ AppendFaults(L, list)
    BY <2>5 DEF AppendFaults, q
  <2> QED
    BY <2>6, <2>7, <2>8 DEF r
<1> QED
  BY <1>1, <1>2

(* Appending the only node of a list to its list changes nothing.          *)
LEMMA AppendSelf ==
    ASSUME NEW L, LinksOK(L), NEW n \in Node, L.next[n] = n, L.prev[n] = n
    PROVE  LET r == DlistAppend(L, n, n)
           IN  r.next = L.next /\ r.prev = L.prev /\ r.head = n /\ ~ AppendFaults(L, n)
<1>0. NULL \notin Node
  BY DlistAssumption
<1>1. [L.prev EXCEPT ![n] = L.prev[n]] = L.prev
  BY DEF LinksOK
<1> QED
  BY <1>0, <1>1 DEF DlistAppend, AppendFaults, Result, LinksOK

(* Joining two lists leaves the nodes permuted.                            *)
LEMMA JoinPermutes ==
    ASSUME NEW L, LinksOK(L), NEW A \in SUBSET Node, Permutes(L, A),
           NEW list1 \in A \cup {NULL}, NEW list2 \in A \cup {NULL}
    PROVE  LET r == DlistJoin(L, list1, list2)
           IN  LinksOK(r) /\ Permutes(r, A) /\ r.head \in A \cup {NULL}
<1>0. NULL \notin Node
  BY DlistAssumption
<1>1. CASE list1 = NULL \/ list2 = NULL
  BY <1>1 DEF DlistJoin, Result, LinksOK, Permutes
<1>2. CASE list1 # NULL /\ list2 # NULL
  <2> DEFINE r == DlistJoin(L, list1, list2)
             p1 == L.prev[list1]
             p2 == L.prev[list2]
             rn == [L.next EXCEPT ![p1] = list2, ![p2] = list1]
             rp == [L.prev EXCEPT ![list2] = p1, ![list1] = p2]
  <2>1. r.next = rn /\ r.prev = rp /\ r.head = list1
    BY <1>2 DEF DlistJoin, Result
  <2>2. /\ list1 \in A /\ list2 \in A /\ p1 \in A /\ p2 \in A
        /\ L.next[p1] = list1 /\ L.next[p2] = list2
        /\ \A m \in A : (L.next[m] = list1 <=> m = p1) /\ (L.next[m] = list2 <=> m = p2)
    BY <1>2 DEF Permutes
  <2>3. /\ \A m \in Node : rn[m] = IF m = p2 THEN list1 ELSE IF m = p1 THEN list2 ELSE L.next[m]
        /\ \A m \in Node : rp[m] = IF m = list1 THEN p2 ELSE IF m = list2 THEN p1 ELSE L.prev[m]
        /\ rn \in [Node -> Maybe] /\ rp \in [Node -> Maybe]
    BY <2>2 DEF LinksOK, Maybe
  <2> HIDE DEF r, rn, rp
  <2>4. Permutes(r, A)
    <3> SUFFICES ASSUME NEW m \in A
                 PROVE  /\ rn[m] \in A /\ rp[m] \in A
                        /\ rp[rn[m]] = m /\ rn[rp[m]] = m
      BY <2>1 DEF Permutes
    <3>1. rn[m] \in A /\ rp[rn[m]] = m
      BY <2>2, <2>3 DEF Permutes
    <3>2. rp[m] \in A /\ rn[rp[m]] = m
      BY <2>2, <2>3 DEF Permutes
    <3> QED
      BY <3>1, <3>2
  <2> QED
    BY <2>1, <2>2, <2>3, <2>4 DEF LinksOK, r
<1> QED
  BY <1>1, <1>2
-----------------------------------------------------------------------------
(* The invariant.  G are the nodes of 'new' and 'scan'; F are those of     *)
(* 'from', during the sweep those that sgc_sweep is still to come to.      *)

(* In the sweep 'from' is no ring any more: its head may be free, or be    *)
(* the block of another object.  But no link leads back to where the loop  *)
(* is, and no two to the same node.                                        *)
SweepInv(F) ==
    /\ node \in F \cup {NULL}
    /\ \A m \in F : next[m] = fromList \/ next[m] \in F \ {node}
    /\ \A m, k \in F : next[m] = next[k] => m = k

ListInv(F, G) ==
    /\ F \cap G = {} /\ (F \cup G) \cap free = {}
    /\ Permutes(Links, G)
    /\ newList \in G \cup {NULL} /\ scanList \in G \cup {NULL}
    /\ pc \in {"roots", "scan"} => Permutes(Links, F) /\ fromList \in F \cup {NULL}
    /\ pc = "scan" => scanPtr \in G
    /\ pc = "sweep" => SweepInv(F)

IInv == TypeOK /\ \E F, G \in SUBSET Node : ListInv(F, G)

(* What is known of the links, in a form that the lemmas take.             *)
LEMMA LinksTyped ==
    TypeOK => LinksOK(Links) /\ Links.next = next /\ Links.prev = prev
  BY DEF TypeOK, LinksOK, Links, Maybe

(* A permutation takes no two nodes to the same one.                       *)
LEMMA PermutesOneToOne ==
    ASSUME TypeOK, NEW A \in SUBSET Node, Permutes(Links, A)
    PROVE  /\ \A m \in A : next[m] \in A
           /\ \A m, k \in A : next[m] = next[k] => m = k
<1>1. Links.next = next /\ Links.prev = prev
  BY LinksTyped
<1>2. \A m \in A : next[m] \in A /\ prev[next[m]] = m
  BY <1>1 DEF Permutes
<1> QED
  BY <1>2

(* sgc_from_list_remove and sgc_scan_list_append.                          *)
LEMMA MoveKeeps ==
    ASSUME IInv, NEW n \in Node, Move(n)
    PROVE  IInv'
<1>0. NULL \notin Node
  BY DlistAssumption
<1>1. PICK F \in SUBSET Node, G \in SUBSET Node : ListInv(F, G)
  BY DEF IInv
<1> DEFINE r == FromListRemove(Links, n)
           d == DlistRemoveNode(Links, n)
           b == DlistAppend(r, scanList, n)
<1>2. /\ pc \in {"roots", "scan"} /\ LinksOK(Links) /\ TypeOK
      /\ Permutes(Links, F) /\ Permutes(Links, G) /\ F \cap G = {}
      /\ UNCHANGED <<newList, free, scanPtr, node>>
  BY <1>1, LinksTyped DEF Move, IInv, ListInv
<1>3. n \in F \cup G
  <2>1. n \in Members(Ring(fromList)) \cup Ahead
    BY DEF Move
  <2>2. \A m \in F : next[m] \in F
    BY <1>2, PermutesOneToOne
  <2>3. \A m \in G : next[m] \in G
    BY <1>2, PermutesOneToOne
  <2>4. \A h : Members(Walk(NULL, h)) = {}
    BY DEF Walk, Members
  <2>5. Members(Ring(fromList)) \subseteq F \cup {NULL}
    <3>1. fromList \in F \cup {NULL}
      BY <1>1, <1>2 DEF ListInv
    <3> QED
      BY <2>2, <2>4, <3>1, WalkStays DEF Ring
  <2>6. Ahead \subseteq G \cup {NULL}
    <3>1. scanList \in G \cup {NULL} /\ (pc = "scan" => scanPtr \in G)
      BY <1>1 DEF ListInv
    <3>2. Members(Ring(scanList)) \subseteq G \cup {NULL}
      BY <2>3, <2>4, <3>1, WalkStays DEF Ring
    <3>3. pc = "scan" => Members(Walk(next[scanPtr], scanList)) \subseteq G \cup {NULL}
      BY <2>3, <3>1, WalkStays
    <3> QED
      BY <1>2, <3>2, <3>3 DEF Ahead
  <2> QED
    BY <1>0, <2>1, <2>5, <2>6
<1>4. /\ r.next = d.next /\ r.prev = d.prev
      /\ r.head = IF n = fromList THEN d.head ELSE fromList
  BY DEF FromListRemove, DlistRemoveNode, Result
<1>5. /\ scanList \in G \cup {NULL} /\ fromList \in F \cup {NULL} /\ newList \in G \cup {NULL}
      /\ (F \cup G) \cap free = {} /\ (pc = "scan" => scanPtr \in G)
  BY <1>1, <1>2 DEF ListInv
<1>6. CASE AppendFaults(r, scanList)
  <2>1. pc' = "crashed" /\ UNCHANGED <<next, prev, fromList, scanList>>
    BY <1>6 DEF Move
  <2>2. n = scanList
    <3> SUFFICES ASSUME n # scanList
                 PROVE  FALSE
      OBVIOUS
    <3>1. scanList \in G /\ r.prev[scanList] = NULL
      BY <1>5, <1>6 DEF AppendFaults
    <3>2. CASE n \in F
      <4>1. d.prev[scanList] = Links.prev[scanList]
        <5>1. Same(d, Links, Node \ F)
          BY <1>2, <3>2, RemovePermutes
        <5> QED
          BY <1>2, <3>1, <5>1 DEF Same
      <4> QED
        BY <1>0, <1>2, <1>4, <3>1, <4>1 DEF Permutes
    <3>3. CASE n \in G
      <4>1. Permutes(d, G \ {n})
        BY <1>2, <3>3, RemovePermutes
      <4> QED
        BY <1>0, <1>4, <3>1, <4>1 DEF Permutes
    <3> QED
      BY <1>3, <3>2, <3>3
  <2>3. pc # "scan"
    <3> SUFFICES ASSUME pc = "scan"
                 PROVE  FALSE
      OBVIOUS
    <3>1. Ahead = IF next[scanPtr] = scanList THEN {} ELSE Members(Walk(next[scanPtr], scanList))
      BY DEF Ahead
    <3>2. scanList \notin Ahead
      BY <1>0, <2>2, <3>1, WalkAvoids
    <3>3. n \in F
      <4>1. n \in Members(Ring(fromList))
        BY <2>2, <3>2 DEF Move
      <4>2. \A m \in F : next[m] \in F
        BY <1>2, PermutesOneToOne
      <4>3. \A h : Members(Walk(NULL, h)) = {}
        BY DEF Walk, Members
      <4>4. Members(Ring(fromList)) \subseteq F \cup {NULL}
        BY <1>5, <4>2, <4>3, WalkStays DEF Ring
      <4> QED
        BY <1>0, <4>1, <4>4
    <3> QED
      BY <1>0, <1>2, <1>5, <2>2, <3>3
  <2>4. TypeOK'
    BY <1>2, <2>1, <2>3 DEF TypeOK
  <2>5. ListInv(F, G)'
    BY <1>2, <1>5, <2>1 DEF ListInv, Links, Permutes
  <2> QED
    BY <2>4, <2>5 DEF IInv
<1>7. CASE ~ AppendFaults(r, scanList)
  <2>1. /\ next' = b.next /\ prev' = b.prev /\ fromList' = r.head /\ scanList' = b.head
        /\ UNCHANGED pc
    BY <1>7 DEF Move
  <2>2. /\ LinksOK(b) /\ Permutes(b, F \ {n}) /\ Permutes(b, G \cup {n}) /\ b.head \in G \cup {n}
        /\ fromList' \in (F \ {n}) \cup {NULL}
    <3> HIDE DEF r, d, b
    <3>0. LinksOK(d) => LinksOK(r)
      BY <1>4 DEF LinksOK
    <3>a. \A A : Permutes(d, A) => Permutes(r, A)
      BY <1>4 DEF Permutes
    <3>1. CASE n \in F
      <4>1. LinksOK(d) /\ Permutes(d, F \ {n}) /\ d.head \in (F \ {n}) \cup {NULL}
            /\ Same(d, Links, Node \ F)
        BY <1>2, <3>1, RemovePermutes DEF d
      <4>2. Permutes(d, G)
        <5>1. Same(d, Links, G)
          BY <1>2, <4>1 DEF Same
        <5> QED
          BY <1>2, <5>1, PermutesSame
      <4>3. LinksOK(r) /\ Permutes(r, G) /\ Permutes(r, F \ {n}) /\ n \in Node \ G
        BY <1>2, <3>0, <3>a, <3>1, <4>1, <4>2
      <4>4. LinksOK(b) /\ Permutes(b, G \cup {n}) /\ b.head \in G \cup {n}
            /\ Same(b, r, Node \ (G \cup {n}))
        BY <1>5, <4>3, AppendPermutes DEF b
      <4>5. Permutes(b, F \ {n})
        <5>1. Same(b, r, F \ {n})
          BY <1>2, <4>4 DEF Same
        <5> QED
          BY <4>3, <5>1, PermutesSame
      <4> QED
        BY <1>4, <1>5, <2>1, <4>1, <4>4, <4>5
    <3>2. CASE n \in G
      <4>0. n \notin F /\ fromList' \in (F \ {n}) \cup {NULL} /\ G \cup {n} = G /\ F \ {n} = F
        BY <1>0, <1>2, <1>4, <1>5, <2>1, <3>2
      <4>1. LinksOK(d) /\ Permutes(d, G \ {n})
            /\ Same(d, Links, Node \ G)
            /\ (Links.next[n] = n => d.next = Links.next /\ d.prev = Links.prev)
            /\ (Links.next[n] # n => d.prev[n] = NULL)
        BY <1>2, <3>2, RemovePermutes DEF d
      <4>2. Permutes(d, F)
        <5>1. Same(d, Links, F)
          BY <1>2, <4>1 DEF Same
        <5> QED
          BY <1>2, <5>1, PermutesSame
      <4>3. LinksOK(r) /\ Permutes(r, F) /\ Permutes(r, G \ {n})
        BY <3>0, <3>a, <4>1, <4>2
      <4>4. CASE scanList # n
        <5>1. scanList \in (G \ {n}) \cup {NULL} /\ n \in Node \ (G \ {n}) /\ (G \ {n}) \cup {n} = G
          BY <1>5, <3>2, <4>4
        <5>2. LinksOK(b) /\ Permutes(b, G) /\ b.head \in G /\ Same(b, r, Node \ G)
          <6> DEFINE H == G \ {n}
          <6>1. H \in SUBSET Node /\ scanList \in H \cup {NULL} /\ n \in Node \ H /\ Permutes(r, H)
            BY <4>3, <5>1
          <6>2. H \cup {n} = G
            BY <5>1
          <6> HIDE DEF H
          <6>3. LinksOK(b) /\ Permutes(b, H \cup {n}) /\ b.head \in H \cup {n}
                /\ Same(b, r, Node \ (H \cup {n}))
            BY <4>3, <6>1, AppendPermutes DEF b
          <6> QED
            BY <6>2, <6>3
        <5>3. Same(b, r, F)
          BY <1>2, <5>2 DEF Same
        <5>4. Permutes(b, F)
          BY <4>3, <5>3, PermutesSame
        <5> QED
          BY <4>0, <5>2, <5>4
      <4>5. CASE scanList = n
        <5>1. Links.next[n] = n
          BY <1>0, <1>4, <1>7, <3>2, <4>1, <4>5 DEF AppendFaults
        <5>2. r.next = Links.next /\ r.prev = Links.prev /\ r.prev[n] = n
          BY <1>2, <1>4, <3>2, <4>1, <5>1 DEF Permutes
        <5>3. b.next = Links.next /\ b.prev = Links.prev /\ b.head = n
          BY <4>3, <4>5, <5>1, <5>2, AppendSelf DEF b
        <5> QED
          BY <1>2, <3>2, <4>0, <5>3 DEF LinksOK, Permutes
      <4> QED
        BY <4>4, <4>5
    <3> QED
      BY <1>3, <3>1, <3>2
  <2> HIDE DEF r, d, b
  <2>3. TypeOK'
    BY <1>2, <2>1, <2>2 DEF TypeOK, LinksOK, Maybe
  <2>4. ListInv(F \ {n}, G \cup {n})'
    <3>1. Permutes(Links, F \ {n})' /\ Permutes(Links, G \cup {n})'
      BY <2>1, <2>2 DEF Permutes, Links
    <3> QED
      BY <1>2, <1>3, <1>5, <2>1, <2>2, <3>1 DEF ListInv
  <2> QED
    BY <2>3, <2>4 DEF IInv
<1> QED
  BY <1>6, <1>7

(* Every call, and every step of a cycle, preserves the invariant.         *)
LEMMA IInvPreserved ==
    ASSUME IInv, [Next]_vars
    PROVE  IInv'
<1>0. NULL \notin Node
  BY DlistAssumption
<1>a. PICK F \in SUBSET Node, G \in SUBSET Node : ListInv(F, G)
  BY DEF IInv
<1>b. TypeOK /\ LinksOK(Links) /\ Links.next = next /\ Links.prev = prev
  BY LinksTyped DEF IInv
<1>c. /\ F \cap G = {} /\ (F \cup G) \cap free = {} /\ Permutes(Links, G)
      /\ newList \in G \cup {NULL} /\ scanList \in G \cup {NULL}
      /\ pc \in {"roots", "scan"} => Permutes(Links, F) /\ fromList \in F \cup {NULL}
      /\ pc = "scan" => scanPtr \in G
      /\ pc = "sweep" => SweepInv(F)
  BY <1>a DEF ListInv
<1>1. ASSUME NEW n \in Node, AppendNew(n)
      PROVE  IInv'
  <2> DEFINE r == DlistAppend(Links, newList, n)
  <2>1. /\ pc \in {"client", "sweep"} /\ n \in free /\ free' = free \ {n}
        /\ next' = r.next /\ prev' = r.prev /\ newList' = r.head
        /\ UNCHANGED <<fromList, scanList, scanPtr, node, pc>>
    BY <1>1 DEF AppendNew
  <2>2. n \in Node \ G /\ n \notin F
    BY <1>c, <2>1
  <2>3. /\ LinksOK(r) /\ Permutes(r, G \cup {n}) /\ r.head \in G \cup {n}
        /\ Same(r, Links, Node \ (G \cup {n}))
    BY <1>b, <1>c, <2>2, AppendPermutes
  <2> HIDE DEF r
  <2>4. TypeOK'
    BY <1>b, <2>1, <2>3 DEF TypeOK, LinksOK, Maybe
  <2>5. Permutes(Links, G \cup {n})'
    BY <2>1, <2>3 DEF Permutes, Links
  <2>6. ASSUME pc = "sweep"
        PROVE  SweepInv(F)'
    <3>1. \A m \in F : next'[m] = next[m]
      BY <1>b, <1>c, <2>1, <2>2, <2>3 DEF Same
    <3> QED
      BY <1>c, <2>1, <2>6, <3>1 DEF SweepInv
  <2>7. ListInv(F, G \cup {n})'
    BY <1>c, <2>1, <2>2, <2>3, <2>5, <2>6 DEF ListInv
  <2> QED
    BY <2>4, <2>7 DEF IInv
<1>2. ASSUME NEW n \in Node, Move(n)
      PROVE  IInv'
  BY <1>2, MoveKeeps
<1>3. CASE Start
  <2> DEFINE r == DlistJoin(Links, scanList, newList)
  <2>1. /\ pc = "client" /\ pc' = "roots" /\ newList' = NULL /\ scanList' = NULL
        /\ next' = r.next /\ prev' = r.prev /\ fromList' = r.head
        /\ UNCHANGED <<free, scanPtr, node>>
    BY <1>3 DEF Start
  <2>2. LinksOK(r) /\ Permutes(r, G) /\ r.head \in G \cup {NULL}
    BY <1>b, <1>c, JoinPermutes
  <2> HIDE DEF r
  <2>3. TypeOK'
    BY <1>b, <2>1, <2>2 DEF TypeOK, LinksOK, Maybe
  <2>4. Permutes(Links, G)' /\ Permutes(Links, {})'
    BY <2>1, <2>2 DEF Permutes, Links
  <2>5. ListInv(G, {})'
    BY <1>c, <2>1, <2>2, <2>4 DEF ListInv
  <2> QED
    BY <2>3, <2>5 DEF IInv
<1>d. ASSUME UNCHANGED <<next, prev, newList, fromList, scanList, free>>, Permutes(Links, F),
             fromList \in F \cup {NULL}, pc' = "sweep", node' = fromList, scanPtr' = NULL
      PROVE  IInv'
  <2>1. TypeOK'
    BY <1>b, <1>d DEF TypeOK
  <2>2. SweepInv(F)'
    <3>1. /\ \A m \in F : next[m] \in F
          /\ \A m, k \in F : next[m] = next[k] => m = k
      BY <1>b, <1>d, PermutesOneToOne
    <3> QED
      BY <1>d, <3>1 DEF SweepInv
  <2>3. Permutes(Links, G)'
    BY <1>c, <1>d DEF Permutes, Links
  <2>4. ListInv(F, G)'
    BY <1>c, <1>d, <2>2, <2>3 DEF ListInv
  <2> QED
    BY <2>1, <2>4 DEF IInv
<1>e. ASSUME UNCHANGED <<next, prev, newList, fromList, scanList, free>>, Permutes(Links, F),
             fromList \in F \cup {NULL}, pc # "sweep", pc' = "scan", scanPtr' \in G,
             UNCHANGED node
      PROVE  IInv'
  <2>1. TypeOK'
    BY <1>0, <1>b, <1>e DEF TypeOK
  <2>2. ListInv(F, G)'
    BY <1>c, <1>e DEF ListInv, Permutes, Links
  <2> QED
    BY <2>1, <2>2 DEF IInv
<1>4. CASE RootsDone
  <2>1. /\ pc = "roots" /\ scanPtr' = scanList
        /\ IF scanList = NULL THEN pc' = "sweep" /\ node' = fromList
                              ELSE pc' = "scan" /\ UNCHANGED node
        /\ UNCHANGED <<next, prev, newList, fromList, scanList, free>>
    BY <1>4 DEF RootsDone
  <2> QED
    BY <1>c, <1>d, <1>e, <2>1
<1>5. CASE Advance
  <2>1. /\ pc = "scan"
        /\ IF next[scanPtr] = scanList
           THEN scanPtr' = NULL /\ pc' = "sweep" /\ node' = fromList
           ELSE scanPtr' = next[scanPtr] /\ UNCHANGED <<pc, node>>
        /\ UNCHANGED <<next, prev, newList, fromList, scanList, free>>
    BY <1>5 DEF Advance
  <2>2. next[scanPtr] \in G
    BY <1>b, <1>c, <2>1 DEF Permutes
  <2> QED
    BY <1>c, <1>d, <1>e, <2>1, <2>2
<1>6. CASE Sweep \/ SweepLeaked
  <2>0. PICK o : o = node
    OBVIOUS
  <2>1. PICK link \in free \cup {NULL} :
             /\ pc = "sweep" /\ node # NULL /\ node' = NextToSweep
             /\ \/ next' = [next EXCEPT ![o] = link] /\ free' = free \cup {o}
                \/ UNCHANGED <<next, free>>
             /\ UNCHANGED <<prev, newList, fromList, scanList, scanPtr, pc>>
    BY <1>6, <2>0 DEF Sweep, SweepLeaked
  <2>2. /\ o = node /\ o \in F /\ o \notin G
        /\ \A m \in F : next[m] = fromList \/ next[m] \in F \ {o}
        /\ \A m, k \in F : next[m] = next[k] => m = k
    BY <1>c, <2>0, <2>1 DEF SweepInv
  <2>3. /\ \A m \in Node \ {o} : next'[m] = next[m]
        /\ next' \in [Node -> Node \cup {NULL}] /\ free' \subseteq free \cup {o}
        /\ free' \subseteq Node
    BY <1>b, <2>1, <2>2 DEF TypeOK
  <2>4. node' \in (F \ {o}) \cup {NULL} /\ (node' # NULL => node' = next[o] /\ node' # fromList)
    BY <2>1, <2>2 DEF NextToSweep
  <2>5. TypeOK'
    BY <1>b, <2>1, <2>3, <2>4 DEF TypeOK
  <2>6. SweepInv(F \ {o})'
    <3>1. ASSUME NEW m \in F \ {o}
          PROVE  next[m] = fromList \/ next[m] \in (F \ {o}) \ {node'}
      <4>1. next[m] # next[o]
        BY <2>2
      <4> QED
        BY <1>0, <2>2, <2>4, <4>1
    <3>2. \A m \in F \ {o} : next'[m] = next[m]
      BY <2>3
    <3> QED
      BY <2>1, <2>2, <2>4, <3>1, <3>2 DEF SweepInv
  <2>7. Permutes(Links, G)'
    <3>1. \A m \in G : next'[m] = next[m] /\ prev'[m] = prev[m]
      BY <2>1, <2>2, <2>3
    <3>2. Links'.next = next' /\ Links'.prev = prev'
      BY DEF Links
    <3> QED
      BY <1>b, <1>c, <3>1, <3>2 DEF Permutes
  <2>8. ListInv(F \ {o}, G)'
    <3>1. (F \ {o}) \cap G = {} /\ ((F \ {o}) \cup G) \cap free' = {}
      BY <1>c, <2>2, <2>3
    <3> QED
      BY <1>c, <2>1, <2>6, <2>7, <3>1 DEF ListInv
  <2> QED
    BY <2>5, <2>8 DEF IInv
<1>7. CASE SweepDone
  <2>1. /\ pc = "sweep" /\ node = NULL /\ pc' = "client"
        /\ UNCHANGED <<next, prev, newList, fromList, scanList, free, scanPtr, node>>
    BY <1>7 DEF SweepDone
  <2>2. TypeOK'
    BY <1>b, <2>1 DEF TypeOK
  <2>3. ListInv(F, G)'
    BY <1>c, <2>1 DEF ListInv, Permutes, Links
  <2> QED
    BY <2>2, <2>3 DEF IInv
<1>8. CASE UNCHANGED vars
  <2>1. TypeOK'
    BY <1>b, <1>8 DEF vars, TypeOK
  <2>2. ListInv(F, G)'
    BY <1>c, <1>8 DEF vars, ListInv, Permutes, Links, SweepInv
  <2> QED
    BY <2>1, <2>2 DEF IInv
<1> QED
  BY <1>1, <1>2, <1>3, <1>4, <1>5, <1>6, <1>7, <1>8 DEF Next

(* The invariant holds in every state.                                     *)
LEMMA Invariant == Spec => []IInv
<1>1. Init => IInv
  <2> SUFFICES ASSUME Init
               PROVE  IInv
    OBVIOUS
  <2>1. TypeOK
    BY DEF Init, TypeOK
  <2>2. ListInv({}, {})
    BY DEF Init, ListInv, Permutes
  <2> QED
    BY <2>1, <2>2 DEF IInv
<1>2. IInv /\ [Next]_vars => IInv'
  BY IInvPreserved
<1> QED
  BY <1>1, <1>2, PTL DEF Spec
-----------------------------------------------------------------------------
(* Every variable has its type, and the pointers of the loops over 'scan'  *)
(* and 'from' are set where the loops run.                                 *)
THEOREM TypeCorrect == Spec => []TypeOK
<1>1. IInv => TypeOK
  BY DEF IInv
<1> QED
  BY <1>1, Invariant, PTL

(* From the head of each list the links lead back to the head, and prev    *)
(* undoes next on the way, whatever sgc.c has done to the lists: also when *)
(* blocks are used again in the middle of the sweep.                       *)
THEOREM ListsAreRings == Spec => []RingsAreRings
<1>1. ASSUME IInv
      PROVE  RingsAreRings
  <2>1. PICK F \in SUBSET Node, G \in SUBSET Node : ListInv(F, G)
    BY <1>1 DEF IInv
  <2>2. TypeOK /\ Links.next = next /\ Links.prev = prev /\ NULL \notin Node
    BY <1>1, LinksTyped, DlistAssumption DEF IInv
  <2>3. ASSUME NEW A \in SUBSET Node, Permutes(Links, A), NEW h \in A \cup {NULL},
               NEW n \in Members(Ring(h))
        PROVE  next[n] # NULL /\ prev[next[n]] = n
    <3>1. h # NULL
      <4>1. Ring(NULL) = <<>>
        BY DEF Ring, Walk
      <4>2. Members(Ring(NULL)) = {}
        BY <4>1 DEF Members
      <4> QED
        BY <2>3, <4>2
    <3>2. Members(Ring(h)) \subseteq A
      BY <2>2, <2>3, <3>1, PermutesOneToOne, RingStays
    <3> QED
      BY <2>2, <2>3, <3>2 DEF Permutes
  <2>4. /\ Permutes(Links, G) /\ newList \in G \cup {NULL} /\ scanList \in G \cup {NULL}
        /\ pc \in {"roots", "scan"} => Permutes(Links, F) /\ fromList \in F \cup {NULL}
    BY <2>1 DEF ListInv
  <2> QED
    BY <2>3, <2>4 DEF RingsAreRings
<1> QED
  BY <1>1, Invariant, PTL
-----------------------------------------------------------------------------
(* Lists as sequences.                                                     *)

Once(q) == \A i, j \in 1..Len(q) : q[i] = q[j] => i = j

(* From a the links nx lead along q, and then to h.                        *)
Leads(nx, q, a, h) ==
    /\ a = IF q = <<>> THEN NULL ELSE q[1]
    /\ \A i \in 1..Len(q) : nx[q[i]] = IF i = Len(q) THEN h ELSE q[i+1]
    /\ \A i \in 2..Len(q) : q[i] # h

(* The list at h is q, in both directions.                                 *)
Ringed(L, q, h) ==
    /\ Once(q)
    /\ h = IF q = <<>> THEN NULL ELSE q[1]
    /\ \A i \in 1..Len(q) : /\ L.next[q[i]] = IF i = Len(q) THEN q[1] ELSE q[i+1]
                            /\ L.prev[q[i]] = IF i = 1 THEN q[Len(q)] ELSE q[i-1]

LEMMA MembersOf ==
    ASSUME NEW q \in Seq(Node)
    PROVE  /\ Len(q) \in Nat /\ (q = <<>> <=> Len(q) = 0) /\ \A i \in 1..Len(q) : q[i] \in Node
           /\ \A m : m \in Members(q) <=> \E i \in 1..Len(q) : q[i] = m
           /\ Members(q) \subseteq Node
  BY DEF Members

(* What a walk meets, step by step.                                        *)
LEMMA AlongLeads ==
    ASSUME NEW q \in Seq(Node), q # <<>>, Once(q), NEW h, Leads(next, q, q[1], h)
    PROVE  /\ Len(q) \in 1..Cardinality(Node)
           /\ \A i \in 0..Len(q) : Along(q[1])[i] = IF i < Len(q) THEN q[i+1] ELSE h
<1> DEFINE n == Len(q)
           a == q[1]
           Bad == {i \in 0..n : Along(a)[i] # IF i < n THEN q[i+1] ELSE h}
<1>1. n \in Nat /\ n # 0 /\ \A i \in 1..n : q[i] \in Node
  BY MembersOf
<1>2. Cardinality(Node) \in Nat /\ n <= Cardinality(Node)
  BY <1>1, DlistAssumption, ChainIsShort DEF Once
<1> SUFFICES ASSUME Bad # {}
             PROVE  FALSE
  BY <1>1, <1>2
<1>3. PICK i \in Bad : \A j \in Bad : i <= j
  <2>1. Bad \in SUBSET Nat
    BY <1>1
  <2> QED
    BY <2>1, Least
<1>4. i # 0
  BY <1>1, AlongSteps
<1>5. i - 1 \in 0..n /\ i - 1 \notin Bad /\ i \in 1..n /\ i \in 1..Cardinality(Node)
  BY <1>1, <1>2, <1>3, <1>4
<1>6. Along(a)[i-1] = q[i]
  BY <1>1, <1>5
<1>7. q[i] # NULL
  BY <1>1, <1>5, DlistAssumption
<1>8. Along(a)[i] = next[q[i]]
  BY <1>5, <1>6, <1>7, AlongSteps
<1>9. Along(a)[i] = IF i < n THEN q[i+1] ELSE h
  BY <1>1, <1>5, <1>8 DEF Leads
<1> QED
  BY <1>3, <1>9

LEMMA WalkIs ==
    ASSUME NEW q \in Seq(Node), Once(q), NEW a, NEW h, Leads(next, q, a, h)
    PROVE  Walk(a, h) = q
<1>1. CASE q = <<>>
  BY <1>1 DEF Leads, Walk
<1>2. CASE q # <<>>
  <2> DEFINE n == Len(q)
             Ends == {i \in 1..Cardinality(Node) : Along(a)[i] = h}
             k == CHOOSE i \in Ends : \A j \in Ends : i <= j
  <2>1. a = q[1] /\ a \in Node /\ a # NULL /\ n \in Nat /\ \A i \in 1..n : q[i] \in Node
    BY <1>2, MembersOf, DlistAssumption DEF Leads
  <2>2. /\ n \in 1..Cardinality(Node) /\ Cardinality(Node) \in Nat
        /\ \A i \in 0..n : Along(a)[i] = IF i < n THEN q[i+1] ELSE h
    <3>1. Leads(next, q, q[1], h)
      BY <2>1
    <3>2. Cardinality(Node) \in Nat
      BY DlistAssumption, FS_CardinalityType
    <3> QED
      BY <1>2, <2>1, <3>1, <3>2, AlongLeads
  <2>3. n \in Ends /\ \A j \in Ends : n <= j
    <3>1. ASSUME NEW j \in Ends, j < n
          PROVE  FALSE
      <4>1. j \in 0..n /\ j + 1 \in 2..n
        BY <2>2, <3>1
      <4>2. Along(a)[j] = q[j+1] /\ q[j+1] # h
        BY <2>2, <3>1, <4>1 DEF Leads
      <4> QED
        BY <4>2
    <3> QED
      BY <2>2, <3>1
  <2>4. \A i \in Ends : (\A j \in Ends : i <= j) => i = n
    BY <2>2, <2>3
  <2>5. k = n
    <3> HIDE DEF Ends
    <3> QED
      BY <2>3, <2>4
  <2>6. Walk(a, h) = [i \in 1..k |-> Along(a)[i-1]]
    BY <2>1, <2>3 DEF Walk
  <2> HIDE DEF k
  <2>7. \A i \in 1..n : Along(a)[i-1] = q[i]
    BY <2>2
  <2>8. [i \in 1..n |-> Along(a)[i-1]] = [i \in 1..n |-> q[i]]
    BY <2>7
  <2>9. q = [i \in 1..n |-> q[i]]
    BY <2>1
  <2> QED
    BY <2>5, <2>6, <2>8, <2>9
<1> QED
  BY <1>1, <1>2

LEMMA RingIs ==
    ASSUME NEW q \in Seq(Node), NEW h, Ringed(Links, q, h), Links.next = next
    PROVE  Ring(h) = q
<1>1. CASE q = <<>>
  BY <1>1 DEF Ringed, Ring, Walk
<1>2. CASE q # <<>>
  <2>1. Len(q) \in Nat /\ Len(q) # 0
    BY <1>2, MembersOf
  <2>2. Leads(next, q, h, h) /\ Once(q)
    BY <1>2, <2>1 DEF Ringed, Leads, Once
  <2> QED
    BY <2>2, WalkIs DEF Ring
<1> QED
  BY <1>1, <1>2

LEMMA RingSame ==
    ASSUME NEW K, NEW L, NEW q \in Seq(Node), NEW h, Same(K, L, Members(q)), Ringed(L, q, h)
    PROVE  Ringed(K, q, h)
  BY MembersOf DEF Same, Ringed

(* sgc_dlist_append puts a node at the end of its list.                    *)
LEMMA RingAppend ==
    ASSUME NEW L, LinksOK(L), NEW q \in Seq(Node), NEW h, Ringed(L, q, h),
           NEW n \in Node, n \notin Members(q)
    PROVE  LET r == DlistAppend(L, h, n)
           IN  /\ Ringed(r, Append(q, n), r.head) /\ LinksOK(r)
               /\ Same(r, L, Node \ (Members(q) \cup {n}))
               /\ ~ AppendFaults(L, h)
<1>0. NULL \notin Node
  BY DlistAssumption
<1>1. PICK w \in Seq(Node) : w = Append(q, n)
  BY AppendProperties, Zenon
<1>2. PICK k \in Nat : k = Len(q)
  BY MembersOf
<1>3. /\ Len(w) = k + 1 /\ w # <<>> /\ w[k+1] = n
      /\ \A i \in 1..k : w[i] = q[i] /\ q[i] \in Node /\ q[i] # n
      /\ (q = <<>> <=> k = 0)
  BY <1>1, <1>2, MembersOf, AppendProperties
<1>4. /\ \A i, j \in 1..k : q[i] = q[j] => i = j
      /\ h = IF k = 0 THEN NULL ELSE q[1]
      /\ \A i \in 1..k : /\ L.next[q[i]] = IF i = k THEN q[1] ELSE q[i+1]
                         /\ L.prev[q[i]] = IF i = 1 THEN q[k] ELSE q[i-1]
  BY <1>2, <1>3 DEF Ringed, Once
<1>5. Once(w)
  <2> SUFFICES ASSUME NEW i \in 1..k+1, NEW j \in 1..k+1, w[i] = w[j]
               PROVE  i = j
    BY <1>3 DEF Once
  <2>1. \A m \in 1..k+1 : /\ m = k + 1 \/ (m \in 1..k /\ w[m] = q[m] /\ q[m] # n)
                          /\ m = k + 1 <=> w[m] = n
    BY <1>3
  <2>2. CASE i = k + 1
    BY <2>1, <2>2
  <2>3. CASE i # k + 1
    <3>1. i \in 1..k /\ j \in 1..k /\ q[i] = q[j]
      BY <2>1, <2>3
    <3> QED
      BY <1>4, <3>1
  <2> QED
    BY <2>2, <2>3
<1>6. CASE k = 0
  <2>1. h = NULL /\ w[1] = n /\ Len(w) = 1
    BY <1>3, <1>4, <1>6
  <2> DEFINE r == DlistAppend(L, h, n)
  <2>2. /\ r.next = [L.next EXCEPT ![n] = n] /\ r.prev = [L.prev EXCEPT ![n] = n] /\ r.head = n
        /\ ~ AppendFaults(L, h)
    BY <2>1 DEF DlistAppend, Result, AppendFaults
  <2> HIDE DEF r
  <2>3. Ringed(r, w, r.head)
    BY <1>3, <1>5, <2>1, <2>2 DEF Ringed, LinksOK
  <2>4. Same(r, L, Node \ (Members(q) \cup {n})) /\ LinksOK(r)
    BY <2>2 DEF Same, LinksOK, Maybe
  <2> QED
    BY <1>1, <2>2, <2>3, <2>4 DEF r
<1>7. CASE k # 0
  <2> DEFINE r == DlistAppend(L, h, n)
             p == [L.prev EXCEPT ![n] = L.prev[h]]
             rn == [L.next EXCEPT ![n] = h, ![p[h]] = n]
             rp == [p EXCEPT ![h] = n]
  <2>1. h = q[1] /\ h \in Node /\ h # n /\ L.prev[h] = q[k] /\ q[k] # n /\ q[k] \in Node
    BY <1>3, <1>4, <1>7
  <2>2. r.next = rn /\ r.prev = rp /\ r.head = h
    BY <1>0, <2>1 DEF DlistAppend, Result
  <2>3. p[h] = q[k]
    BY <2>1 DEF LinksOK
  <2>4. /\ \A m \in Node : rn[m] = IF m = q[k] THEN n ELSE IF m = n THEN h ELSE L.next[m]
        /\ \A m \in Node : rp[m] = IF m = h THEN n ELSE IF m = n THEN q[k] ELSE L.prev[m]
        /\ rn \in [Node -> Maybe] /\ rp \in [Node -> Maybe]
    BY <2>1, <2>3 DEF LinksOK, Maybe
  <2>5. ~ AppendFaults(L, h)
    BY <1>0, <2>1 DEF AppendFaults
  <2> HIDE DEF r, p, rn, rp
  <2>6. ASSUME NEW i \in 1..k+1
        PROVE  /\ rn[w[i]] = IF i = k + 1 THEN w[1] ELSE w[i+1]
               /\ rp[w[i]] = IF i = 1 THEN w[k+1] ELSE w[i-1]
    <3>1. CASE i = k + 1
      BY <1>3, <1>4, <1>7, <2>1, <2>4, <3>1
    <3>2. CASE i # k + 1
      <4>1. i \in 1..k /\ w[i] = q[i] /\ q[i] # n /\ q[i] \in Node
        BY <1>3, <3>2
      <4>2. rn[q[i]] = IF i = k THEN n ELSE q[i+1]
        <5>1. q[i] = q[k] <=> i = k
          BY <1>4, <1>7, <4>1
        <5>2. rn[q[i]] = IF i = k THEN n ELSE L.next[q[i]]
          BY <2>4, <4>1, <5>1
        <5> QED
          BY <1>4, <4>1, <5>2
      <4>3. rp[q[i]] = IF i = 1 THEN n ELSE q[i-1]
        BY <1>4, <1>7, <2>1, <2>4, <4>1
      <4>4. w[i+1] = (IF i = k THEN n ELSE q[i+1]) /\ (i # 1 => w[i-1] = q[i-1])
        BY <1>3, <4>1
      <4> QED
        BY <1>3, <3>2, <4>1, <4>2, <4>3, <4>4
    <3> QED
      BY <3>1, <3>2
  <2>7. h = w[1]
    BY <1>3, <1>7, <2>1
  <2>8. Ringed(r, w, r.head)
    BY <1>3, <1>5, <2>2, <2>6, <2>7 DEF Ringed
  <2>9. Same(r, L, Node \ (Members(q) \cup {n})) /\ LinksOK(r)
    <3>1. q[k] \in Members(q) /\ h \in Members(q)
      BY <1>2, <1>7, <2>1, MembersOf
    <3> QED
      BY <2>2, <2>4, <3>1 DEF Same, LinksOK
  <2> QED
    BY <1>1, <2>5, <2>8, <2>9 DEF r
<1> QED
  BY <1>6, <1>7

(* sgc_dlist_join puts the second list at the end of the first.            *)
LEMMA RingJoin ==
    ASSUME NEW L, LinksOK(L), NEW p \in Seq(Node), NEW g, Ringed(L, p, g),
           NEW q \in Seq(Node), NEW h, Ringed(L, q, h), Members(p) \cap Members(q) = {}
    PROVE  LET r == DlistJoin(L, g, h)
           IN  Ringed(r, p \o q, r.head)
<1>0. NULL \notin Node
  BY DlistAssumption
<1>1. PICK w \in Seq(Node) : w = p \o q
  BY ConcatProperties, Zenon
<1>2. PICK k \in Nat, l \in Nat : k = Len(p) /\ l = Len(q)
  BY MembersOf
<1>3. /\ Len(w) = k + l
      /\ \A i \in 1..k + l : w[i] = IF i <= k THEN p[i] ELSE q[i-k]
      /\ \A i \in 1..k : p[i] \in Node
      /\ \A i \in 1..l : q[i] \in Node
      /\ \A i \in 1..k, j \in 1..l : p[i] # q[j]
      /\ (p = <<>> <=> k = 0) /\ (q = <<>> <=> l = 0)
  <2>1. /\ Len(w) = k + l
        /\ \A i \in 1..k + l : w[i] = IF i <= k THEN p[i] ELSE q[i-k]
    BY <1>1, <1>2, ConcatProperties
  <2>2. /\ \A i \in 1..k : p[i] \in Node /\ p[i] \in Members(p)
        /\ \A i \in 1..l : q[i] \in Node /\ q[i] \in Members(q)
        /\ (p = <<>> <=> k = 0) /\ (q = <<>> <=> l = 0)
    BY <1>2, MembersOf
  <2> QED
    BY <2>1, <2>2
<1>4. /\ \A i, j \in 1..k : p[i] = p[j] => i = j
      /\ g = IF k = 0 THEN NULL ELSE p[1]
      /\ \A i \in 1..k : /\ L.next[p[i]] = IF i = k THEN p[1] ELSE p[i+1]
                         /\ L.prev[p[i]] = IF i = 1 THEN p[k] ELSE p[i-1]
  BY <1>2, <1>3 DEF Ringed, Once
<1>5. /\ \A i, j \in 1..l : q[i] = q[j] => i = j
      /\ h = IF l = 0 THEN NULL ELSE q[1]
      /\ \A i \in 1..l : /\ L.next[q[i]] = IF i = l THEN q[1] ELSE q[i+1]
                         /\ L.prev[q[i]] = IF i = 1 THEN q[l] ELSE q[i-1]
  BY <1>2, <1>3 DEF Ringed, Once
<1> DEFINE r == DlistJoin(L, g, h)
<1>6. CASE l = 0
  <2>1. h = NULL /\ w = p
    BY <1>1, <1>3, <1>5, <1>6
  <2>2. r.next = L.next /\ r.prev = L.prev /\ r.head = g
    BY <2>1 DEF DlistJoin, Result
  <2> HIDE DEF r
  <2> QED
    BY <1>1, <2>1, <2>2 DEF Ringed, r
<1>7. CASE k = 0 /\ l # 0
  <2>1. g = NULL /\ w = q /\ h # NULL
    <3>1. h = q[1] /\ 1 \in 1..l
      BY <1>5, <1>7
    <3> QED
      BY <1>0, <1>1, <1>3, <1>4, <1>7, <3>1
  <2>2. r.next = L.next /\ r.prev = L.prev /\ r.head = h
    BY <2>1 DEF DlistJoin, Result
  <2> HIDE DEF r
  <2> QED
    BY <1>1, <2>1, <2>2 DEF Ringed, r
<1>8. CASE k # 0 /\ l # 0
  <2> DEFINE rn == [L.next EXCEPT ![L.prev[g]] = h, ![L.prev[h]] = g]
             rp == [L.prev EXCEPT ![h] = L.prev[g], ![g] = L.prev[h]]
  <2>1. /\ 1 \in 1..k /\ k \in 1..k /\ 1 \in 1..l /\ l \in 1..l
        /\ g = p[1] /\ h = q[1] /\ L.prev[g] = p[k] /\ L.prev[h] = q[l]
        /\ g \in Node /\ h \in Node /\ p[k] \in Node /\ q[l] \in Node
    BY <1>3, <1>4, <1>5, <1>8
  <2>2. r.next = rn /\ r.prev = rp /\ r.head = g
    BY <1>0, <2>1 DEF DlistJoin, Result
  <2>3. /\ \A m \in Node : rn[m] = IF m = q[l] THEN g ELSE IF m = p[k] THEN h ELSE L.next[m]
        /\ \A m \in Node : rp[m] = IF m = g THEN q[l] ELSE IF m = h THEN p[k] ELSE L.prev[m]
    BY <2>1 DEF LinksOK, Maybe
  <2> HIDE DEF r, rn, rp
  <2>4. \A i \in 1..k : /\ rn[p[i]] = IF i = k THEN h ELSE p[i+1]
                        /\ rp[p[i]] = IF i = 1 THEN q[l] ELSE p[i-1]
    <3> SUFFICES ASSUME NEW i \in 1..k
                 PROVE  /\ rn[p[i]] = IF i = k THEN h ELSE p[i+1]
                        /\ rp[p[i]] = IF i = 1 THEN q[l] ELSE p[i-1]
      OBVIOUS
    <3>1. /\ p[i] \in Node /\ p[i] # q[l] /\ p[i] # h
          /\ (p[i] = p[k] <=> i = k) /\ (p[i] = g <=> i = 1)
      BY <1>3, <1>4, <2>1
    <3>2. /\ rn[p[i]] = IF i = k THEN h ELSE L.next[p[i]]
          /\ rp[p[i]] = IF i = 1 THEN q[l] ELSE L.prev[p[i]]
      BY <2>3, <3>1
    <3> QED
      BY <1>4, <3>2
  <2>5. \A i \in 1..l : /\ rn[q[i]] = IF i = l THEN g ELSE q[i+1]
                        /\ rp[q[i]] = IF i = 1 THEN p[k] ELSE q[i-1]
    <3> SUFFICES ASSUME NEW i \in 1..l
                 PROVE  /\ rn[q[i]] = IF i = l THEN g ELSE q[i+1]
                        /\ rp[q[i]] = IF i = 1 THEN p[k] ELSE q[i-1]
      OBVIOUS
    <3>1. /\ q[i] \in Node /\ q[i] # p[k] /\ q[i] # g
          /\ (q[i] = q[l] <=> i = l) /\ (q[i] = h <=> i = 1)
      BY <1>3, <1>5, <2>1
    <3>2. /\ rn[q[i]] = IF i = l THEN g ELSE L.next[q[i]]
          /\ rp[q[i]] = IF i = 1 THEN p[k] ELSE L.prev[q[i]]
      BY <2>3, <3>1
    <3> QED
      BY <1>5, <3>2
  <2>6. ASSUME NEW i \in 1..k+l
        PROVE  /\ rn[w[i]] = IF i = k + l THEN w[1] ELSE w[i+1]
               /\ rp[w[i]] = IF i = 1 THEN w[k+l] ELSE w[i-1]
    <3>0. w[1] = g /\ w[k+l] = q[l] /\ w[k+1] = h /\ w[k] = p[k]
      BY <1>3, <1>8, <2>1
    <3>1. CASE i <= k
      <4>1. i \in 1..k /\ w[i] = p[i] /\ (i # k => w[i+1] = p[i+1]) /\ (i # 1 => w[i-1] = p[i-1])
        BY <1>3, <3>1
      <4> QED
        BY <1>8, <2>4, <3>0, <4>1
    <3>2. CASE ~ (i <= k)
      <4>1. PICK j \in 1..l : j = i - k
        BY <3>2
      <4>2. /\ w[i] = q[j] /\ (j # l => w[i+1] = q[j+1]) /\ (j # 1 => w[i-1] = q[j-1])
            /\ (j = 1 => w[i-1] = p[k]) /\ (j = l <=> i = k + l) /\ i # 1
        BY <1>3, <1>8, <3>0, <4>1
      <4> QED
        BY <2>5, <3>0, <4>2
    <3> QED
      BY <3>1, <3>2
  <2>7. Once(w)
    <3> SUFFICES ASSUME NEW i \in 1..k+l, NEW j \in 1..k+l, w[i] = w[j]
                 PROVE  i = j
      BY <1>3 DEF Once
    <3>1. CASE i <= k /\ j <= k
      <4>1. i \in 1..k /\ j \in 1..k /\ p[i] = p[j]
        BY <1>3, <3>1
      <4> QED
        BY <1>4, <4>1
    <3>2. CASE ~ (i <= k) /\ ~ (j <= k)
      <4>1. i - k \in 1..l /\ j - k \in 1..l /\ q[i-k] = q[j-k]
        BY <1>3, <3>2
      <4> QED
        BY <1>5, <4>1
    <3>3. CASE i <= k /\ ~ (j <= k)
      <4>1. i \in 1..k /\ j - k \in 1..l /\ p[i] = q[j-k]
        BY <1>3, <3>3
      <4> QED
        BY <1>3, <4>1
    <3>4. CASE ~ (i <= k) /\ j <= k
      <4>1. j \in 1..k /\ i - k \in 1..l /\ p[j] = q[i-k]
        BY <1>3, <3>4
      <4> QED
        BY <1>3, <4>1
    <3> QED
      BY <3>1, <3>2, <3>3, <3>4
  <2>8. w # <<>> /\ g = w[1]
    BY <1>3, <1>8, <2>1
  <2>9. Ringed(r, w, r.head)
    BY <1>3, <2>2, <2>6, <2>7, <2>8 DEF Ringed
  <2> QED
    BY <1>1, <2>9 DEF r
<1> QED
  BY <1>6, <1>7, <1>8

(* A sequence without its member number i.                                 *)
LEMMA RemoveAtIs ==
    ASSUME NEW q \in Seq(Node), NEW i \in 1..Len(q)
    PROVE  /\ RemoveAt(q, i) \in Seq(Node) /\ Len(RemoveAt(q, i)) = Len(q) - 1
           /\ \A j \in 1..Len(q) - 1 : RemoveAt(q, i)[j] = IF j < i THEN q[j] ELSE q[j+1]
<1>1. Len(q) \in Nat /\ \A j \in 1..Len(q) : q[j] \in Node
  BY MembersOf
<1>2. PICK a \in Seq(Node) : /\ a = SubSeq(q, 1, i-1) /\ Len(a) = i - 1
                             /\ \A j \in 1..i-1 : a[j] = q[j]
  <2>1. /\ SubSeq(q, 1, i-1) \in Seq(Node)
        /\ Len(SubSeq(q, 1, i-1)) = IF 1 <= i - 1 THEN i - 1 - 1 + 1 ELSE 0
        /\ \A j \in 1..i-1-1+1 : SubSeq(q, 1, i-1)[j] = q[1+j-1]
    <3>1. \A j \in 1..i-1 : q[j] \in Node
      BY <1>1
    <3>2. 1 \in Int /\ i - 1 \in Int
      BY <1>1
    <3> QED
      BY <3>1, <3>2, SubSeqProperties
  <2>2. /\ Len(SubSeq(q, 1, i-1)) = i - 1
        /\ \A j \in 1..i-1 : SubSeq(q, 1, i-1)[j] = q[j]
    BY <1>1, <2>1
  <2> QED
    BY <2>1, <2>2, Zenon
<1>3. PICK b \in Seq(Node) : /\ b = SubSeq(q, i+1, Len(q)) /\ Len(b) = Len(q) - i
                             /\ \A j \in 1..Len(q)-i : b[j] = q[j+i]
  <2>1. /\ SubSeq(q, i+1, Len(q)) \in Seq(Node)
        /\ Len(SubSeq(q, i+1, Len(q))) = IF i + 1 <= Len(q) THEN Len(q) - (i + 1) + 1 ELSE 0
        /\ \A j \in 1..Len(q)-(i+1)+1 : SubSeq(q, i+1, Len(q))[j] = q[i+1+j-1]
    <3>1. \A j \in i+1..Len(q) : q[j] \in Node
      BY <1>1
    <3>2. i + 1 \in Int /\ Len(q) \in Int
      BY <1>1
    <3> QED
      BY <3>1, <3>2, SubSeqProperties
  <2>2. /\ Len(SubSeq(q, i+1, Len(q))) = Len(q) - i
        /\ \A j \in 1..Len(q)-i : SubSeq(q, i+1, Len(q))[j] = q[j+i]
    BY <1>1, <2>1
  <2> QED
    BY <2>1, <2>2, Zenon
<1>4. PICK c \in Seq(Node) : c = a \o b
  BY ConcatProperties, Zenon
<1>5. /\ Len(c) = Len(a) + Len(b)
      /\ \A j \in 1..Len(a) + Len(b) : c[j] = IF j <= Len(a) THEN a[j] ELSE b[j - Len(a)]
  BY <1>4, ConcatProperties
<1>6. c = RemoveAt(q, i)
  BY <1>2, <1>3, <1>4 DEF RemoveAt
<1>7. Len(c) = Len(q) - 1
  BY <1>1, <1>2, <1>3, <1>5
<1>9. Len(a) = i - 1 /\ Len(b) = Len(q) - i
  BY <1>2, <1>3
<1>8. ASSUME NEW j \in 1..Len(q) - 1
      PROVE  c[j] = IF j < i THEN q[j] ELSE q[j+1]
  <2>1. CASE j < i
    <3>1. j \in 1..i-1 /\ j \in 1..Len(a) + Len(b) /\ j <= Len(a)
      BY <1>1, <1>9, <2>1
    <3> QED
      BY <1>2, <1>5, <2>1, <3>1
  <2>2. CASE ~ (j < i)
    <3>1. j - (i - 1) \in 1..Len(q) - i /\ (j - (i - 1)) + i = j + 1
      BY <1>1, <2>2
    <3>2. c[j] = b[j - (i - 1)]
      <4>1. j \in 1..Len(a) + Len(b) /\ ~ (j <= Len(a)) /\ j - Len(a) = j - (i - 1)
        BY <1>1, <1>9, <2>2
      <4> QED
        BY <1>5, <4>1
    <3> QED
      BY <1>3, <2>2, <3>1, <3>2
  <2> QED
    BY <2>1, <2>2
<1> QED
  BY <1>6, <1>7, <1>8

(* sgc_dlist_remove_node takes a node out of its list; a list that begins  *)
(* with another node keeps its head.                                       *)
LEMMA RingRemove ==
    ASSUME NEW L, LinksOK(L), NEW q \in Seq(Node), NEW h, Ringed(L, q, h), NEW i \in 1..Len(q)
    PROVE  LET r == DlistRemoveNode(L, q[i])
           IN  /\ Ringed(r, RemoveAt(q, i), IF i = 1 THEN r.head ELSE h)
               /\ LinksOK(r) /\ Same(r, L, Node \ Members(q))
               /\ Len(q) # 1 => r.prev[q[i]] = NULL
               /\ Len(q) = 1 => r.next = L.next /\ r.prev = L.prev /\ r.head = NULL
<1>0. NULL \notin Node
  BY DlistAssumption
<1>1. PICK w \in Seq(Node) : w = RemoveAt(q, i)
  BY RemoveAtIs, Zenon
<1>2. PICK k \in Nat : k = Len(q)
  BY MembersOf
<1>3. /\ Len(w) = k - 1
      /\ \A j \in 1..k-1 : w[j] = IF j < i THEN q[j] ELSE q[j+1]
      /\ \A j \in 1..k : q[j] \in Node
      /\ q # <<>> /\ k # 0 /\ i \in 1..k
      /\ (w = <<>> <=> k = 1)
  <2>1. /\ Len(w) = k - 1
        /\ \A j \in 1..k-1 : w[j] = IF j < i THEN q[j] ELSE q[j+1]
    BY <1>1, <1>2, RemoveAtIs
  <2>2. \A j \in 1..k : q[j] \in Node
    BY <1>2, MembersOf
  <2>3. w = <<>> <=> Len(w) = 0
    BY MembersOf
  <2> QED
    BY <1>2, <2>1, <2>2, <2>3
<1>4. /\ \A a, b \in 1..k : q[a] = q[b] => a = b
      /\ h = q[1]
      /\ \A j \in 1..k : /\ L.next[q[j]] = IF j = k THEN q[1] ELSE q[j+1]
                         /\ L.prev[q[j]] = IF j = 1 THEN q[k] ELSE q[j-1]
  BY <1>2, <1>3 DEF Ringed, Once
<1> DEFINE r == DlistRemoveNode(L, q[i])
<1>5. CASE k = 1
  <2>1. L.next[q[i]] = q[i] /\ i = 1
    BY <1>3, <1>4, <1>5
  <2>2. r.next = L.next /\ r.prev = L.prev /\ r.head = NULL
    BY <2>1 DEF DlistRemoveNode, Result
  <2>3. w = <<>>
    BY <1>3, <1>5
  <2> HIDE DEF r
  <2>4. Ringed(r, w, r.head)
    BY <2>2, <2>3 DEF Ringed, Once
  <2> QED
    BY <1>1, <1>2, <1>5, <2>1, <2>2, <2>4 DEF LinksOK, Same, r
<1>6. CASE k # 1
  <2> DEFINE n == q[i]
             a == L.prev[n]
             b == L.next[n]
             rn == [L.next EXCEPT ![a] = b, ![n] = NULL]
             rp == [L.prev EXCEPT ![b] = a, ![n] = NULL]
  <2>1. /\ n \in Node /\ a \in Node /\ b \in Node
        /\ a = (IF i = 1 THEN q[k] ELSE q[i-1]) /\ b = (IF i = k THEN q[1] ELSE q[i+1])
        /\ a # n /\ b # n
    <3>1. 1 \in 1..k /\ k \in 1..k /\ (i # 1 => i - 1 \in 1..k) /\ (i # k => i + 1 \in 1..k)
      BY <1>3
    <3>2. a = (IF i = 1 THEN q[k] ELSE q[i-1]) /\ b = (IF i = k THEN q[1] ELSE q[i+1])
      BY <1>3, <1>4
    <3>3. a # n /\ b # n
      BY <1>3, <1>4, <1>6, <3>1, <3>2
    <3> QED
      BY <1>3, <3>1, <3>2, <3>3
  <2>2. r.next = rn /\ r.prev = rp /\ r.head = b
    BY <2>1 DEF DlistRemoveNode, Result
  <2>3. /\ \A m \in Node : rn[m] = IF m = n THEN NULL ELSE IF m = a THEN b ELSE L.next[m]
        /\ \A m \in Node : rp[m] = IF m = n THEN NULL ELSE IF m = b THEN a ELSE L.prev[m]
        /\ rn \in [Node -> Maybe] /\ rp \in [Node -> Maybe]
    BY <2>1 DEF LinksOK, Maybe
  <2> HIDE DEF r, n, a, b, rn, rp
  <2>4. Once(w)
    <3> SUFFICES ASSUME NEW j \in 1..k-1, NEW m \in 1..k-1, w[j] = w[m]
                 PROVE  j = m
      BY <1>3 DEF Once
    <3>1. \A l \in 1..k-1 : \E e \in 1..k : w[l] = q[e] /\ e = IF l < i THEN l ELSE l + 1
      BY <1>3
    <3>2. PICK d \in 1..k, e \in 1..k : /\ w[j] = q[d] /\ d = IF j < i THEN j ELSE j + 1
                                        /\ w[m] = q[e] /\ e = IF m < i THEN m ELSE m + 1
      BY <3>1
    <3>3. d = e
      <4>1. q[d] = q[e]
        BY <3>2
      <4> QED
        BY <1>4, <4>1, Zenon
    <3> QED
      BY <1>3, <3>2, <3>3
  <2>5. w # <<>> /\ 1 \in 1..k-1 /\ w[1] = IF i = 1 THEN q[2] ELSE q[1]
    BY <1>3, <1>6
  <2>6. w[k-1] = IF i = k THEN q[k-1] ELSE q[k]
    BY <1>3, <1>6
  <2>7. ASSUME NEW j \in 1..k, j # i
        PROVE  /\ rn[q[j]] = IF j = k THEN (IF i = 1 THEN q[2] ELSE q[1])
                             ELSE IF j + 1 # i THEN q[j+1]
                             ELSE IF i = k THEN q[1] ELSE q[i+1]
               /\ rp[q[j]] = IF j = 1 THEN (IF i = k THEN q[k-1] ELSE q[k])
                             ELSE IF j - 1 # i THEN q[j-1]
                             ELSE IF i = 1 THEN q[k] ELSE q[i-1]
    <3>1. 1 \in 1..k /\ k \in 1..k /\ (i # 1 => i - 1 \in 1..k) /\ (i # k => i + 1 \in 1..k)
      BY <1>3
    <3>2. q[j] # n /\ q[j] \in Node
      BY <1>3, <1>4, <2>7 DEF n
    <3>3. q[j] = a <=> IF i = 1 THEN j = k ELSE j + 1 = i
      BY <1>3, <1>4, <2>1, <3>1
    <3>4. q[j] = b <=> IF i = k THEN j = 1 ELSE j - 1 = i
      BY <1>3, <1>4, <2>1, <3>1
    <3>5. rn[q[j]] = IF (IF i = 1 THEN j = k ELSE j + 1 = i) THEN b ELSE L.next[q[j]]
      BY <2>3, <3>2, <3>3
    <3>6. rp[q[j]] = IF (IF i = k THEN j = 1 ELSE j - 1 = i) THEN a ELSE L.prev[q[j]]
      BY <2>3, <3>2, <3>4
    <3>7. /\ L.next[q[j]] = IF j = k THEN q[1] ELSE q[j+1]
          /\ L.prev[q[j]] = IF j = 1 THEN q[k] ELSE q[j-1]
      BY <1>4
    <3> QED
      BY <1>3, <1>6, <2>1, <2>7, <3>5, <3>6, <3>7
  <2>8. ASSUME NEW j \in 1..k-1
        PROVE  /\ rn[w[j]] = IF j = k - 1 THEN w[1] ELSE w[j+1]
               /\ rp[w[j]] = IF j = 1 THEN w[k-1] ELSE w[j-1]
    <3>1. CASE j < i
      <4>1. j \in 1..k /\ j # i /\ w[j] = q[j] /\ j # k
        BY <1>3, <3>1
      <4>2. /\ rn[q[j]] = IF j + 1 # i THEN q[j+1] ELSE IF i = k THEN q[1] ELSE q[i+1]
            /\ rp[q[j]] = IF j = 1 THEN (IF i = k THEN q[k-1] ELSE q[k]) ELSE q[j-1]
        BY <1>3, <2>7, <3>1, <4>1
      <4>3. /\ j + 1 # i => j # k - 1 /\ w[j+1] = q[j+1]
            /\ j + 1 = i /\ i # k => j # k - 1 /\ w[j+1] = q[i+1]
            /\ j + 1 = i /\ i = k => j = k - 1 /\ w[1] = q[1]
            /\ j # 1 => w[j-1] = q[j-1]
        BY <1>3, <2>5, <3>1
      <4> QED
        BY <2>6, <4>1, <4>2, <4>3
    <3>2. CASE ~ (j < i)
      <4>1. j + 1 \in 1..k /\ j + 1 # i /\ w[j] = q[j+1] /\ j + 1 # 1 /\ i # k
        BY <1>3, <3>2
      <4>2. /\ rn[q[j+1]] = IF j + 1 = k THEN (IF i = 1 THEN q[2] ELSE q[1]) ELSE q[j+2]
            /\ rp[q[j+1]] = IF j # i THEN q[j] ELSE IF i = 1 THEN q[k] ELSE q[i-1]
        BY <1>3, <2>7, <3>2, <4>1
      <4>3. /\ j + 1 = k <=> j = k - 1
            /\ j # k - 1 => w[j+1] = q[j+2]
            /\ j # i => j # 1 /\ w[j-1] = q[j]
            /\ j = i /\ i # 1 => w[j-1] = q[i-1]
        BY <1>3, <3>2
      <4> QED
        BY <2>5, <2>6, <4>1, <4>2, <4>3
    <3> QED
      BY <3>1, <3>2
  <2>9. (IF i = 1 THEN r.head ELSE h) = w[1]
    BY <1>3, <1>4, <1>6, <2>1, <2>2, <2>5
  <2>10. Ringed(r, w, IF i = 1 THEN r.head ELSE h)
    BY <1>3, <2>2, <2>4, <2>5, <2>8, <2>9 DEF Ringed
  <2>11. LinksOK(r) /\ Same(r, L, Node \ Members(q))
    <3>1. n \in Members(q) /\ a \in Members(q) /\ b \in Members(q)
      <4>1. \A j \in 1..k : q[j] \in Members(q)
        BY <1>2, MembersOf
      <4>2. 1 \in 1..k /\ k \in 1..k /\ (i # 1 => i - 1 \in 1..k) /\ (i # k => i + 1 \in 1..k)
        BY <1>3
      <4> QED
        BY <1>3, <2>1, <4>1, <4>2 DEF n
    <3> QED
      BY <2>2, <2>3, <3>1 DEF Same, LinksOK
  <2>12. r.prev[n] = NULL
    BY <2>1, <2>2, <2>3
  <2> QED
    BY <1>1, <1>2, <1>6, <2>10, <2>11, <2>12 DEF r, n
<1> QED
  BY <1>5, <1>6
-----------------------------------------------------------------------------
(* The pointers and the sequences: n, f and s are what is on 'new', 'from' *)
(* and 'scan', and the scan pointer has passed k objects.                  *)
Holds(n, f, s, k) ==
    /\ Ringed(Links, n, newList) /\ Ringed(Links, s, scanList)
    /\ pc \in {"roots", "scan", "crashed"} => Ringed(Links, f, fromList)
    /\ pc = "sweep" => Leads(next, f, node, fromList) /\ Once(f)
    /\ pc = "client" => f = <<>>
    /\ Members(n) \cap Members(f) = {} /\ Members(n) \cap Members(s) = {}
    /\ Members(f) \cap Members(s) = {}
    /\ (Members(n) \cup Members(f) \cup Members(s)) \cap free = {}
    /\ IF pc = "scan" THEN k \in 1..Len(s) /\ scanPtr = s[k] ELSE k = 0

(* The walks of the refinement mapping read them off the links.            *)
Reads ==
    \A n, f, s \in Seq(Node), k \in Nat :
        TypeOK /\ Holds(n, f, s, k) => New = n /\ From = f /\ Scan = s /\ Passed = k

LEMMA ListsAreRead == Reads
<1> SUFFICES ASSUME NEW n \in Seq(Node), NEW f \in Seq(Node), NEW s \in Seq(Node), NEW k \in Nat,
                    TypeOK, Holds(n, f, s, k)
             PROVE  New = n /\ From = f /\ Scan = s /\ Passed = k
  BY DEF Reads
<1>1. Links.next = next
  BY DEF Links
<1>2. New = n /\ Scan = s
  BY <1>1, RingIs DEF Holds, New, Scan
<1>3. From = f
  <2>1. CASE pc \in {"roots", "scan", "crashed"}
    BY <1>1, <2>1, RingIs DEF Holds, From
  <2>2. CASE pc = "sweep"
    BY <2>2, WalkIs DEF Holds, From
  <2>3. CASE pc = "client"
    BY <2>3 DEF Holds, From
  <2> QED
    BY <2>1, <2>2, <2>3 DEF TypeOK
<1>4. Passed = k
  <2>1. CASE pc # "scan"
    BY <2>1 DEF Holds, Passed
  <2>2. CASE pc = "scan"
    <3>1. k \in 1..Len(s) /\ s[k] = scanPtr /\ Once(s) /\ DOMAIN s = 1..Len(s)
      BY <2>2 DEF Holds, Ringed
    <3>2. \A i \in DOMAIN s : s[i] = scanPtr => i = k
      BY <3>1 DEF Once
    <3>3. (CHOOSE i \in DOMAIN s : s[i] = scanPtr) = k
      BY <3>1, <3>2
    <3> QED
      BY <1>2, <2>2, <3>3 DEF Passed
  <2> QED
    BY <2>1, <2>2
<1> QED
  BY <1>2, <1>3, <1>4

(* What a list is after a step.                                            *)
LEMMA RingNow ==
    ASSUME NEW r, NEW q, NEW h, Ringed(r, q, h), next' = r.next, prev' = r.prev
    PROVE  Ringed(Links', q, h)
<1>1. Links'.next = r.next /\ Links'.prev = r.prev
  BY DEF Links
<1> QED
  BY <1>1 DEF Ringed

LEMMA RingStill ==
    ASSUME NEW q \in Seq(Node), NEW h, Ringed(Links, q, h),
           \A m \in Members(q) : next'[m] = next[m] /\ prev'[m] = prev[m]
    PROVE  Ringed(Links', q, h)
<1>1. Same(Links', Links, Members(q))
  BY DEF Links, Same
<1> QED
  BY <1>1, RingSame

LEMMA LeadsStill ==
    ASSUME NEW q \in Seq(Node), NEW a, NEW h, Leads(next, q, a, h),
           \A m \in Members(q) : next'[m] = next[m]
    PROVE  Leads(next', q, a, h)
  BY MembersOf DEF Leads

(* The objects that sgc_scan_mem moves.                                    *)
LEMMA AheadIs ==
    ASSUME NEW n, NEW f, NEW s \in Seq(Node), NEW k \in Nat, Holds(n, f, s, k),
           pc \in {"roots", "scan"}
    PROVE  \A m \in Ahead : \E i \in k+1..Len(s) : s[i] = m
<1>1. Links.next = next /\ Len(s) \in Nat
  BY MembersOf DEF Links
<1>2. CASE pc = "roots"
  <2>1. Ahead = Members(s) /\ k = 0
    BY <1>1, <1>2, RingIs DEF Holds, Ahead
  <2> QED
    BY <2>1, MembersOf
<1>3. CASE pc = "scan"
  <2>1. /\ k \in 1..Len(s) /\ scanPtr = s[k] /\ Once(s) /\ s # <<>> /\ scanList = s[1]
        /\ \A i \in 1..Len(s) : next[s[i]] = IF i = Len(s) THEN s[1] ELSE s[i+1]
    <3>1. k \in 1..Len(s) /\ scanPtr = s[k] /\ Ringed(Links, s, scanList)
      BY <1>3 DEF Holds
    <3> QED
      BY <1>1, <3>1 DEF Ringed
  <2>2. CASE k = Len(s)
    BY <1>3, <2>1, <2>2 DEF Ahead
  <2>3. CASE k # Len(s)
    <3>1. PICK q \in Seq(Node) : /\ Len(q) = Len(s) - k
                                 /\ \A i \in 1..Len(s)-k : q[i] = s[i+k]
      <4>1. [i \in 1..Len(s)-k |-> s[i+k]] \in Seq(Node)
        <5>1. Len(s) - k \in Nat /\ \A i \in 1..Len(s)-k : s[i+k] \in Node
          BY <1>1, <2>1, MembersOf
        <5> QED
          BY <5>1
      <4>2. PICK q \in Seq(Node) : q = [i \in 1..Len(s)-k |-> s[i+k]]
        BY <4>1, Zenon
      <4>3. Len(q) = Len(s) - k
        BY <1>1, <2>1, <4>2
      <4> QED
        BY <4>2, <4>3
    <3>2. PICK l \in Nat : l = Len(s)
      BY <1>1
    <3>3. Once(q)
      <4> SUFFICES ASSUME NEW i \in 1..l-k, NEW j \in 1..l-k, q[i] = q[j]
                   PROVE  i = j
        BY <3>1, <3>2 DEF Once
      <4>1. i + k \in 1..l /\ j + k \in 1..l /\ s[i+k] = s[j+k]
        BY <2>1, <3>1, <3>2
      <4>2. i + k = j + k
        BY <2>1, <3>2, <4>1 DEF Once
      <4> QED
        BY <4>2
    <3>4. next[scanPtr] = s[k+1] /\ s[k+1] # scanList
      <4>1. k + 1 \in 1..l /\ 1 \in 1..l /\ k + 1 # 1
        BY <2>1, <2>3, <3>2
      <4>2. s[k+1] # s[1]
        BY <2>1, <3>2, <4>1 DEF Once
      <4> QED
        BY <2>1, <2>3, <4>2
    <3>5. Leads(next, q, s[k+1], scanList)
      <4>1. q # <<>> /\ s[k+1] = q[1]
        BY <1>1, <2>1, <2>3, <3>1
      <4>2. ASSUME NEW i \in 1..l-k
            PROVE  /\ next[q[i]] = IF i = l - k THEN scanList ELSE q[i+1]
                   /\ q[i] # scanList
        <5>0. k \in 1..l
          BY <2>1, <3>2
        <5>1. /\ i + k \in 1..l /\ 1 \in 1..l /\ i + k # 1 /\ q[i] = s[i+k]
              /\ (i = l - k <=> i + k = l) /\ (i # l - k => q[i+1] = s[i+k+1])
          <6>1. /\ i + k \in 1..l /\ 1 \in 1..l /\ i + k # 1 /\ (i = l - k <=> i + k = l)
                /\ (i # l - k => i + 1 \in 1..l-k) /\ (i + 1) + k = i + k + 1
            BY <5>0
          <6>2. \A j \in 1..l-k : q[j] = s[j+k]
            BY <3>1, <3>2
          <6> QED
            BY <6>1, <6>2
        <5>2. s[i+k] # s[1]
          BY <2>1, <3>2, <5>1 DEF Once
        <5> QED
          BY <2>1, <3>2, <5>1, <5>2
      <4> QED
        BY <2>1, <3>1, <3>2, <4>1, <4>2 DEF Leads
    <3>6. Ahead = Members(q)
      <4>1. Walk(s[k+1], scanList) = q
        BY <3>3, <3>5, WalkIs
      <4> QED
        BY <1>3, <3>4, <4>1 DEF Ahead
    <3>7. \A i \in 1..l-k : i + k \in k+1..l /\ s[i+k] = q[i]
      BY <3>1, <3>2
    <3> QED
      BY <3>1, <3>2, <3>6, <3>7, MembersOf
  <2> QED
    BY <2>2, <2>3
<1> QED
  BY <1>2, <1>3
(* Who is on a list after it changed.                                      *)
LEMMA MembersAppend ==
    ASSUME NEW q \in Seq(Node), NEW m \in Node
    PROVE  Members(Append(q, m)) = Members(q) \cup {m}
<1>1. PICK w \in Seq(Node) : w = Append(q, m)
  BY AppendProperties, Zenon
<1>2. PICK l \in Nat : l = Len(q)
  BY MembersOf
<1>3. Len(w) = l + 1 /\ w[l+1] = m /\ \A i \in 1..l : w[i] = q[i]
  BY <1>1, <1>2, AppendProperties
<1>4. 1..l+1 = 1..l \cup {l+1}
  BY <1>2
<1>5. ASSUME NEW x
      PROVE  x \in Members(w) <=> x \in Members(q) \/ x = m
  <2>1. x \in Members(w) <=> \E i \in 1..l+1 : w[i] = x
    BY <1>3, MembersOf
  <2>2. x \in Members(q) <=> \E i \in 1..l : q[i] = x
    BY <1>2, MembersOf
  <2> QED
    BY <1>3, <1>4, <2>1, <2>2
<1> QED
  BY <1>1, <1>5

LEMMA MembersConcat ==
    ASSUME NEW p \in Seq(Node), NEW q \in Seq(Node)
    PROVE  p \o q \in Seq(Node) /\ Members(p \o q) \subseteq Members(p) \cup Members(q)
<1>1. PICK w \in Seq(Node) : w = p \o q
  BY ConcatProperties, Zenon
<1>2. PICK k \in Nat, l \in Nat : k = Len(p) /\ l = Len(q)
  BY MembersOf
<1>3. Len(w) = k + l /\ \A i \in 1..k + l : w[i] = IF i <= k THEN p[i] ELSE q[i-k]
  BY <1>1, <1>2, ConcatProperties
<1>4. ASSUME NEW x \in Members(w)
      PROVE  x \in Members(p) \cup Members(q)
  <2>1. PICK i \in 1..k + l : w[i] = x
    BY <1>3, MembersOf
  <2>2. CASE i <= k
    <3>1. i \in 1..k /\ p[i] = x
      BY <1>3, <2>1, <2>2
    <3> QED
      BY <1>2, <3>1, MembersOf
  <2>3. CASE ~ (i <= k)
    <3>1. i - k \in 1..l /\ q[i-k] = x
      BY <1>3, <2>1, <2>3
    <3> QED
      BY <1>2, <3>1, MembersOf
  <2> QED
    BY <2>2, <2>3
<1> QED
  BY <1>1, <1>4

LEMMA MembersRemove ==
    ASSUME NEW q \in Seq(Node), Once(q), NEW i \in 1..Len(q)
    PROVE  Members(RemoveAt(q, i)) \subseteq Members(q) \ {q[i]}
<1>1. PICK w \in Seq(Node) : w = RemoveAt(q, i)
  BY RemoveAtIs, Zenon
<1>2. PICK k \in Nat : k = Len(q)
  BY MembersOf
<1>3. Len(w) = k - 1 /\ \A j \in 1..k-1 : w[j] = IF j < i THEN q[j] ELSE q[j+1]
  BY <1>1, <1>2, RemoveAtIs
<1>4. ASSUME NEW x \in Members(w)
      PROVE  x \in Members(q) /\ x # q[i]
  <2>1. PICK j \in 1..k-1 : w[j] = x
    BY <1>3, MembersOf
  <2>2. PICK e \in 1..k : e # i /\ q[e] = x
    <3>1. j \in 1..k /\ j + 1 \in 1..k /\ (j < i => j # i) /\ (~ (j < i) => j + 1 # i)
      BY <1>2
    <3>2. x = IF j < i THEN q[j] ELSE q[j+1]
      BY <1>3, <2>1
    <3> QED
      BY <3>1, <3>2
  <2>3. q[e] # q[i]
    BY <1>2, <2>2 DEF Once
  <2> QED
    BY <1>2, <2>2, <2>3, MembersOf
<1> QED
  BY <1>1, <1>4

(* SgcLists has its own instances of the community operators.              *)
LEMMA ListsOperators ==
    \A q, i : Lists!RemoveAt(q, i) = RemoveAt(q, i) /\ Lists!ToSet(q) = Members(q)
  BY DEF Lists!RemoveAt, RemoveAt, Lists!ToSet, Members

(* A ring is a walk from its head to its head.                             *)
LEMMA RingLeads ==
    ASSUME NEW q \in Seq(Node), NEW h, Ringed(Links, q, h)
    PROVE  Leads(next, q, h, h)
<1>1. Links.next = next /\ Len(q) \in Nat /\ (q = <<>> <=> Len(q) = 0)
  BY MembersOf DEF Links
<1>2. \A i \in 2..Len(q) : q[i] # q[1]
  BY <1>1 DEF Ringed, Once
<1>3. q # <<>> => h = q[1]
  BY DEF Ringed
<1>4. \A i \in 1..Len(q) : q # <<>>
  BY <1>1
<1>5. \A i \in 2..Len(q) : q # <<>>
  BY <1>1
<1> QED
  BY <1>1, <1>2, <1>3, <1>4, <1>5 DEF Ringed, Leads
-----------------------------------------------------------------------------
(* Every step is one of SgcLists, and leaves the lists held again.         *)

Held == \E n, f, s \in Seq(Node), k \in Nat : Holds(n, f, s, k)

LEMMA AppendNewRefines ==
    ASSUME TypeOK, TypeOK', Reads, Reads', NEW n \in Seq(Node), NEW f \in Seq(Node),
           NEW s \in Seq(Node), NEW k \in Nat, Holds(n, f, s, k), NEW m \in Node, AppendNew(m)
    PROVE  Held' /\ Lists!AppendNew(m)
<1> DEFINE r == DlistAppend(Links, newList, m)
<1>1. /\ pc \in {"client", "sweep"} /\ m \in free /\ free' = free \ {m}
      /\ next' = r.next /\ prev' = r.prev /\ newList' = r.head
      /\ UNCHANGED <<fromList, scanList, scanPtr, node, pc>>
  BY DEF AppendNew
<1>2. /\ LinksOK(Links) /\ Links.next = next /\ Links.prev = prev
      /\ m \notin Members(n) /\ m \notin Members(f) /\ m \notin Members(s)
      /\ Members(n) \cap Members(f) = {} /\ Members(n) \cap Members(s) = {}
      /\ Members(f) \cap Members(s) = {}
      /\ (Members(n) \cup Members(f) \cup Members(s)) \cap free = {}
      /\ Members(n) \subseteq Node /\ Members(f) \subseteq Node /\ Members(s) \subseteq Node
      /\ Ringed(Links, n, newList) /\ Ringed(Links, s, scanList) /\ k = 0
      /\ pc = "sweep" => Leads(next, f, node, fromList) /\ Once(f)
      /\ pc = "client" => f = <<>>
  BY <1>1, LinksTyped, MembersOf DEF Holds
<1>3. PICK w \in Seq(Node) : w = Append(n, m)
  BY AppendProperties, Zenon
<1>4. Members(w) = Members(n) \cup {m}
  BY <1>3, MembersAppend
<1>5. Ringed(r, w, r.head) /\ Same(r, Links, Node \ (Members(n) \cup {m}))
  BY <1>2, <1>3, RingAppend
<1> HIDE DEF r
<1>6. \A x \in Members(f) \cup Members(s) : next'[x] = next[x] /\ prev'[x] = prev[x]
  BY <1>1, <1>2, <1>5 DEF Same
<1>7. Ringed(Links', w, newList') /\ Ringed(Links', s, scanList')
  <2>1. Ringed(Links', w, r.head)
    BY <1>1, <1>5, RingNow
  <2>2. Ringed(Links', s, scanList)
    BY <1>2, <1>6, RingStill
  <2> QED
    BY <1>1, <2>1, <2>2
<1>8. pc = "sweep" => Leads(next', f, node', fromList')
  <2>1. pc = "sweep" => Leads(next', f, node, fromList)
    BY <1>2, <1>6, LeadsStill
  <2> QED
    BY <1>1, <2>1
<1>9. Holds(w, f, s, k)'
  BY <1>1, <1>2, <1>4, <1>7, <1>8 DEF Holds
<1>10. New = n /\ From = f /\ Scan = s /\ Passed = k
  BY DEF Reads
<1>11. New' = w /\ From' = f /\ Scan' = s /\ Passed' = k
  BY <1>9 DEF Reads
<1>12. m \notin Lists!OnList
  BY <1>2, <1>10, ListsOperators DEF Lists!OnList
<1>13. Lists!AppendNew(m)
  BY <1>1, <1>3, <1>10, <1>11, <1>12 DEF Lists!AppendNew
<1> QED
  BY <1>9, <1>13 DEF Held

LEMMA StartRefines ==
    ASSUME TypeOK, TypeOK', Reads, Reads', NEW n \in Seq(Node), NEW f \in Seq(Node),
           NEW s \in Seq(Node), NEW k \in Nat, Holds(n, f, s, k), Start
    PROVE  Held' /\ Lists!Start
<1> DEFINE r == DlistJoin(Links, scanList, newList)
<1>1. /\ pc = "client" /\ pc' = "roots" /\ newList' = NULL /\ scanList' = NULL
      /\ next' = r.next /\ prev' = r.prev /\ fromList' = r.head
      /\ UNCHANGED <<free, scanPtr, node>>
  BY DEF Start
<1>2. /\ LinksOK(Links) /\ Ringed(Links, n, newList) /\ Ringed(Links, s, scanList)
      /\ Members(s) \cap Members(n) = {} /\ f = <<>> /\ k = 0
      /\ (Members(n) \cup Members(s)) \cap free = {}
  BY <1>1, LinksTyped DEF Holds
<1>3. PICK w \in Seq(Node) : w = s \o n
  BY ConcatProperties, Zenon
<1>4. Ringed(r, w, r.head) /\ Members(w) \subseteq Members(s) \cup Members(n)
  BY <1>2, <1>3, RingJoin, MembersConcat
<1> HIDE DEF r
<1>5. Ringed(Links', w, fromList')
  <2>1. Ringed(Links', w, r.head)
    BY <1>1, <1>4, RingNow
  <2> QED
    BY <1>1, <2>1
<1>6. PICK e \in Seq(Node) : e = <<>> /\ Members(e) = {} /\ \A L : Ringed(L, e, NULL)
  <2>1. <<>> \in Seq(Node) /\ Len(<<>>) = 0
    OBVIOUS
  <2>2. PICK e \in Seq(Node) : e = <<>>
    BY <2>1, Zenon
  <2>3. Members(e) = {} /\ 1..Len(e) = {}
    BY <2>1, <2>2 DEF Members
  <2>4. \A L : Ringed(L, e, NULL)
    BY <2>2, <2>3 DEF Ringed, Once
  <2> QED
    BY <2>2, <2>3, <2>4
<1>7. Holds(e, w, e, 0)'
  BY <1>1, <1>2, <1>4, <1>5, <1>6 DEF Holds
<1>8. New = n /\ From = f /\ Scan = s /\ Passed = 0
  BY <1>2 DEF Reads
<1>9. New' = e /\ From' = w /\ Scan' = e /\ Passed' = 0
  BY <1>7 DEF Reads
<1>10. Lists!Start
  BY <1>1, <1>3, <1>6, <1>8, <1>9 DEF Lists!Start
<1> QED
  BY <1>7, <1>10 DEF Held

LEMMA SweepDoneRefines ==
    ASSUME TypeOK, TypeOK', Reads, Reads', NEW n \in Seq(Node), NEW f \in Seq(Node),
           NEW s \in Seq(Node), NEW k \in Nat, Holds(n, f, s, k), SweepDone
    PROVE  Held' /\ Lists!SweepDone
<1>1. /\ pc = "sweep" /\ node = NULL /\ pc' = "client"
      /\ UNCHANGED <<next, prev, newList, fromList, scanList, free, scanPtr, node>>
  BY DEF SweepDone
<1>2. f = <<>> /\ k = 0
  <2>1. Leads(next, f, node, fromList) /\ k = 0
    BY <1>1 DEF Holds
  <2>2. f # <<>> => f[1] \in Node
    OBVIOUS
  <2> QED
    BY <1>1, <2>1, <2>2, DlistAssumption DEF Leads
<1>3. Links' = Links
  BY <1>1 DEF Links
<1>4. Holds(n, f, s, k)'
  BY <1>1, <1>2, <1>3 DEF Holds
<1>5. New = n /\ From = f /\ Scan = s /\ Passed = k
  BY DEF Reads
<1>6. New' = n /\ From' = f /\ Scan' = s /\ Passed' = k
  BY <1>4 DEF Reads
<1>7. Lists!SweepDone
  BY <1>1, <1>2, <1>5, <1>6 DEF Lists!SweepDone
<1> QED
  BY <1>4, <1>7 DEF Held

LEMMA RootsDoneRefines ==
    ASSUME TypeOK, TypeOK', Reads, Reads', NEW n \in Seq(Node), NEW f \in Seq(Node),
           NEW s \in Seq(Node), NEW k \in Nat, Holds(n, f, s, k), RootsDone
    PROVE  Held' /\ Lists!RootsDone
<1>1. /\ pc = "roots" /\ scanPtr' = scanList
      /\ IF scanList = NULL THEN pc' = "sweep" /\ node' = fromList
                            ELSE pc' = "scan" /\ UNCHANGED node
      /\ UNCHANGED <<next, prev, newList, fromList, scanList, free>>
  BY DEF RootsDone
<1>2. Links' = Links
  BY <1>1 DEF Links
<1>3. Ringed(Links, f, fromList) /\ Ringed(Links, s, scanList) /\ k = 0
  BY <1>1 DEF Holds
<1>4. Leads(next, f, fromList, fromList) /\ Once(f)
  BY <1>3, RingLeads DEF Ringed
<1>5. New = n /\ From = f /\ Scan = s /\ Passed = 0
  BY <1>3 DEF Reads
<1>6. CASE s = <<>>
  <2>1. scanList = NULL /\ pc' = "sweep" /\ node' = fromList
    BY <1>1, <1>3, <1>6 DEF Ringed
  <2>2. Holds(n, f, s, 0)'
    BY <1>1, <1>2, <1>3, <1>4, <2>1 DEF Holds
  <2>3. New' = n /\ From' = f /\ Scan' = s /\ Passed' = 0
    BY <2>2 DEF Reads
  <2>4. Lists!RootsDone
    BY <1>1, <1>5, <1>6, <2>1, <2>3 DEF Lists!RootsDone
  <2> QED
    BY <2>2, <2>4 DEF Held
<1>7. CASE s # <<>>
  <2>1. 1 \in 1..Len(s) /\ s[1] \in Node
    BY <1>7, MembersOf
  <2>2. scanList = s[1] /\ scanList # NULL /\ pc' = "scan" /\ scanPtr' = s[1] /\ UNCHANGED node
    BY <1>1, <1>3, <1>7, <2>1, DlistAssumption DEF Ringed
  <2>3. Holds(n, f, s, 1)'
    BY <1>1, <1>2, <1>3, <2>1, <2>2 DEF Holds
  <2>4. New' = n /\ From' = f /\ Scan' = s /\ Passed' = 1
    BY <2>3 DEF Reads
  <2>5. Lists!RootsDone
    BY <1>1, <1>5, <1>7, <2>2, <2>4 DEF Lists!RootsDone
  <2> QED
    BY <2>3, <2>5 DEF Held
<1> QED
  BY <1>6, <1>7

LEMMA AdvanceRefines ==
    ASSUME TypeOK, TypeOK', Reads, Reads', NEW n \in Seq(Node), NEW f \in Seq(Node),
           NEW s \in Seq(Node), NEW k \in Nat, Holds(n, f, s, k), Advance
    PROVE  Held' /\ Lists!Advance
<1>1. /\ pc = "scan"
      /\ IF next[scanPtr] = scanList
         THEN scanPtr' = NULL /\ pc' = "sweep" /\ node' = fromList
         ELSE scanPtr' = next[scanPtr] /\ UNCHANGED <<pc, node>>
      /\ UNCHANGED <<next, prev, newList, fromList, scanList, free>>
  BY DEF Advance
<1>2. Links' = Links /\ Links.next = next
  BY <1>1 DEF Links
<1>3. /\ Ringed(Links, f, fromList) /\ Ringed(Links, s, scanList)
      /\ k \in 1..Len(s) /\ scanPtr = s[k] /\ Once(s)
  BY <1>1 DEF Holds, Ringed
<1>4. Leads(next, f, fromList, fromList) /\ Once(f)
  BY <1>3, RingLeads DEF Ringed
<1>5. PICK l \in Nat : l = Len(s)
  BY MembersOf
<1>6. s # <<>> /\ k \in 1..l /\ 1 \in 1..l
  BY <1>3, <1>5, MembersOf
<1>7. scanList = s[1] /\ next[scanPtr] = IF k = l THEN s[1] ELSE s[k+1]
  BY <1>2, <1>3, <1>5, <1>6 DEF Ringed
<1>8. New = n /\ From = f /\ Scan = s /\ Passed = k
  BY DEF Reads
<1>9. CASE k = l
  <2>1. scanPtr' = NULL /\ pc' = "sweep" /\ node' = fromList
    BY <1>1, <1>7, <1>9
  <2>2. Holds(n, f, s, 0)'
    BY <1>1, <1>2, <1>3, <1>4, <2>1 DEF Holds
  <2>3. New' = n /\ From' = f /\ Scan' = s /\ Passed' = 0
    BY <2>2 DEF Reads
  <2>4. ~ (k < Len(s))
    BY <1>5, <1>9
  <2>5. Lists!Advance
    BY <1>1, <1>8, <2>1, <2>3, <2>4 DEF Lists!Advance
  <2> QED
    BY <2>2, <2>5 DEF Held
<1>10. CASE k # l
  <2>1. k + 1 \in 1..l /\ k + 1 # 1 /\ k < l
    BY <1>6, <1>10
  <2>2. s[k+1] # s[1]
    BY <1>3, <1>5, <1>6, <2>1 DEF Once
  <2>3. scanPtr' = s[k+1] /\ UNCHANGED <<pc, node>>
    BY <1>1, <1>7, <1>10, <2>2
  <2>4. PICK j \in Nat : j = k + 1
    OBVIOUS
  <2>5. Holds(n, f, s, j)'
    BY <1>1, <1>2, <1>3, <1>5, <2>1, <2>3, <2>4 DEF Holds
  <2>6. New' = n /\ From' = f /\ Scan' = s /\ Passed' = j
    BY <2>5 DEF Reads
  <2>7. Lists!Advance
    BY <1>1, <1>5, <1>8, <2>1, <2>3, <2>4, <2>6 DEF Lists!Advance
  <2> QED
    BY <2>5, <2>7 DEF Held
<1> QED
  BY <1>9, <1>10

(* sgc_sweep goes on to the next object, of which it has read before.      *)
LEMMA SweepRefines ==
    ASSUME TypeOK, TypeOK', Reads, Reads', NEW n \in Seq(Node), NEW f \in Seq(Node),
           NEW s \in Seq(Node), NEW k \in Nat, Holds(n, f, s, k), Sweep \/ SweepLeaked
    PROVE  Held' /\ Lists!Sweep
<1>0. PICK o : o = node
  OBVIOUS
<1>1. /\ pc = "sweep" /\ o # NULL /\ node' = NextToSweep
      /\ UNCHANGED <<prev, newList, fromList, scanList, scanPtr, pc>>
  BY <1>0 DEF Sweep, SweepLeaked
<1>2. \/ (\E link : next' = [next EXCEPT ![o] = link]) /\ free' = free \cup {o}
      \/ UNCHANGED <<next, free>>
  BY <1>0 DEF Sweep, SweepLeaked
<1>3. /\ Ringed(Links, n, newList) /\ Ringed(Links, s, scanList)
      /\ Leads(next, f, node, fromList) /\ Once(f) /\ k = 0
      /\ Members(n) \cap Members(f) = {} /\ Members(n) \cap Members(s) = {}
      /\ Members(f) \cap Members(s) = {}
      /\ (Members(n) \cup Members(f) \cup Members(s)) \cap free = {}
  BY <1>1 DEF Holds
<1>4. PICK l \in Nat : l = Len(f)
  BY MembersOf
<1>5. f # <<>> /\ l # 0 /\ 1 \in 1..l /\ o = f[1]
  <2>1. f # <<>> /\ o = f[1]
    BY <1>0, <1>1, <1>3 DEF Leads
  <2> QED
    BY <1>4, <2>1, MembersOf
<1>6. PICK g \in Seq(Node) : g = Tail(f)
  BY <1>5, Zenon, HeadTailProperties
<1>7. Len(g) = l - 1 /\ \A i \in 1..l-1 : g[i] = f[i+1]
  BY <1>4, <1>5, <1>6, HeadTailProperties
<1>8. /\ \A i \in 1..l : f[i] \in Node /\ next[f[i]] = IF i = l THEN fromList ELSE f[i+1]
      /\ \A i \in 2..l : f[i] # fromList
      /\ \A i, j \in 1..l : f[i] = f[j] => i = j
  BY <1>3, <1>4, MembersOf DEF Leads, Once
<1>9. Members(g) \subseteq Members(f) \ {o} /\ Members(g) \subseteq Node /\ o \in Members(f)
  <2>1. ASSUME NEW x \in Members(g)
        PROVE  x \in Members(f) /\ x # o
    <3>1. PICK i \in 1..l-1 : g[i] = x
      BY <1>7, MembersOf
    <3>2. i + 1 \in 1..l /\ i + 1 # 1
      BY <3>1
    <3>3. x = f[i+1]
      BY <1>7, <3>1
    <3>4. x # f[1]
      BY <1>5, <1>8, <3>2, <3>3
    <3>5. x \in Members(f)
      BY <1>4, <3>2, <3>3, MembersOf
    <3> QED
      BY <1>5, <3>4, <3>5
  <2> QED
    BY <1>4, <1>5, <2>1, MembersOf
<1>10. /\ \A x \in Node \ {o} : next'[x] = next[x] /\ prev'[x] = prev[x]
       /\ free' \subseteq free \cup {o}
  BY <1>1, <1>2 DEF TypeOK
<1>11. Ringed(Links', n, newList') /\ Ringed(Links', s, scanList')
  <2>1. /\ \A x \in Members(n) : next'[x] = next[x] /\ prev'[x] = prev[x]
        /\ \A x \in Members(s) : next'[x] = next[x] /\ prev'[x] = prev[x]
    BY <1>3, <1>9, <1>10, MembersOf
  <2>2. Ringed(Links', n, newList) /\ Ringed(Links', s, scanList)
    BY <1>3, <2>1, RingStill
  <2> QED
    BY <1>1, <2>2
<1>12. Leads(next, g, node', fromList)
  <2>1. node' = IF next[o] = fromList THEN NULL ELSE next[o]
    BY <1>0, <1>1 DEF NextToSweep
  <2>2. node' = IF g = <<>> THEN NULL ELSE g[1]
    <3>1. CASE l = 1
      <4>1. g = <<>>
        BY <1>7, <3>1, MembersOf
      <4> QED
        BY <1>5, <1>8, <2>1, <3>1, <4>1
    <3>2. CASE l # 1
      <4>1. 1 \in 1..l-1 /\ 2 \in 2..l /\ 1 + 1 = 2 /\ l - 1 # 0 /\ 1 # l
        BY <1>5, <3>2
      <4>2. g # <<>> /\ g[1] = f[2]
        <5>1. Len(g) # 0
          BY <1>7, <4>1
        <5> QED
          BY <1>7, <4>1, <5>1, MembersOf
      <4>3. next[o] = f[2] /\ f[2] # fromList
        BY <1>5, <1>8, <4>1
      <4> QED
        BY <2>1, <4>2, <4>3
    <3> QED
      BY <3>1, <3>2
  <2>3. ASSUME NEW i \in 1..l-1
        PROVE  next[g[i]] = IF i = l - 1 THEN fromList ELSE g[i+1]
    <3>1. /\ i + 1 \in 1..l /\ (i + 1 = l <=> i = l - 1)
          /\ (i # l - 1 => i + 1 \in 1..l-1)
      BY <1>5
    <3>2. g[i] = f[i+1] /\ (i # l - 1 => g[i+1] = f[(i+1)+1])
      BY <1>7, <3>1
    <3> QED
      BY <1>8, <3>1, <3>2
  <2>4. ASSUME NEW i \in 2..l-1
        PROVE  g[i] # fromList
    <3>1. i + 1 \in 2..l /\ i \in 1..l-1
      BY <1>5
    <3> QED
      BY <1>7, <1>8, <3>1
  <2> QED
    BY <1>7, <2>2, <2>3, <2>4 DEF Leads
<1>13. Leads(next', g, node', fromList')
  <2>1. PICK a : a = node'
    OBVIOUS
  <2>2. \A x \in Members(g) : next'[x] = next[x]
    BY <1>9, <1>10
  <2>3. Leads(next', g, a, fromList)
    BY <1>12, <2>1, <2>2, LeadsStill
  <2> QED
    BY <1>1, <2>1, <2>3
<1>14. Once(g)
  <2> SUFFICES ASSUME NEW i \in 1..l-1, NEW j \in 1..l-1, g[i] = g[j]
               PROVE  i = j
    BY <1>7 DEF Once
  <2>1. i + 1 \in 1..l /\ j + 1 \in 1..l /\ (i + 1 = j + 1 => i = j)
    BY <1>5
  <2> QED
    BY <1>7, <1>8, <2>1
<1>15. Holds(n, g, s, 0)'
  BY <1>1, <1>3, <1>9, <1>10, <1>11, <1>13, <1>14 DEF Holds
<1>16. New = n /\ From = f /\ Scan = s /\ Passed = 0
  BY <1>3 DEF Reads
<1>17. New' = n /\ From' = g /\ Scan' = s /\ Passed' = 0
  BY <1>15 DEF Reads
<1>18. Lists!Sweep
  BY <1>1, <1>5, <1>6, <1>16, <1>17 DEF Lists!Sweep
<1> QED
  BY <1>15, <1>18 DEF Held

LEMMA RemoveClears ==
    ASSUME NEW L, LinksOK(L), NEW q \in Seq(Node), NEW h, Ringed(L, q, h),
           NEW i \in 1..Len(q), Len(q) # 1
    PROVE  DlistRemoveNode(L, q[i]).prev[q[i]] = NULL
<1> DEFINE r == DlistRemoveNode(L, q[i])
<1>1. Len(q) # 1 => r.prev[q[i]] = NULL
  <2>1. /\ Ringed(r, RemoveAt(q, i), IF i = 1 THEN r.head ELSE h)
        /\ Len(q) # 1 => r.prev[q[i]] = NULL
    BY RingRemove
  <2> QED
    BY <2>1
<1> QED
  BY <1>1

(* What the calls do with the lists when the moved object is on 'from'.    *)
LEMMA MoveFromRefines ==
    ASSUME TypeOK, TypeOK', Reads, Reads', NEW n \in Seq(Node), NEW f \in Seq(Node),
           NEW s \in Seq(Node), NEW k \in Nat, Holds(n, f, s, k), NEW m \in Node, Move(m),
           m \in Members(f)
    PROVE  Held' /\ Lists!Move(m)
<1> DEFINE r == FromListRemove(Links, m)
           d == DlistRemoveNode(Links, m)
           b == DlistAppend(r, scanList, m)
<1>1. /\ pc \in {"roots", "scan"} /\ UNCHANGED <<newList, free, scanPtr, node>>
      /\ ~ AppendFaults(r, scanList) =>
            /\ next' = b.next /\ prev' = b.prev
            /\ fromList' = r.head /\ scanList' = b.head /\ UNCHANGED pc
  BY DEF Move
<1>2. /\ LinksOK(Links) /\ Ringed(Links, n, newList) /\ Ringed(Links, f, fromList)
      /\ Ringed(Links, s, scanList)
      /\ Members(n) \cap Members(f) = {} /\ Members(n) \cap Members(s) = {}
      /\ Members(f) \cap Members(s) = {}
      /\ (Members(n) \cup Members(f) \cup Members(s)) \cap free = {}
      /\ Members(n) \subseteq Node /\ Members(f) \subseteq Node /\ Members(s) \subseteq Node
      /\ Once(f)
      /\ IF pc = "scan" THEN k \in 1..Len(s) /\ scanPtr = s[k] ELSE k = 0
  BY <1>1, LinksTyped, MembersOf DEF Holds, Ringed
<1>3. PICK i \in 1..Len(f) : f[i] = m
  BY MembersOf
<1>4. PICK g \in Seq(Node) : g = RemoveAt(f, i)
  BY RemoveAtIs, Zenon
<1>5. PICK w \in Seq(Node) : w = Append(s, m)
  BY AppendProperties, Zenon
<1>6. Members(g) \subseteq Members(f) \ {m} /\ Members(w) = Members(s) \cup {m}
  BY <1>2, <1>3, <1>4, <1>5, MembersRemove, MembersAppend
<1>7. /\ Ringed(d, g, IF i = 1 THEN d.head ELSE fromList) /\ LinksOK(d)
      /\ Same(d, Links, Node \ Members(f))
  <2> DEFINE e == DlistRemoveNode(Links, f[i])
  <2>1. /\ Ringed(e, g, IF i = 1 THEN e.head ELSE fromList) /\ LinksOK(e)
        /\ Same(e, Links, Node \ Members(f))
    BY <1>2, <1>4, RingRemove
  <2>2. e = d
    BY <1>3
  <2> HIDE DEF d, e
  <2> QED
    BY <2>1, <2>2
<1>8. /\ r.next = d.next /\ r.prev = d.prev
      /\ r.head = IF i = 1 THEN d.head ELSE fromList
  <2>1. r.next = d.next /\ r.prev = d.prev
        /\ r.head = IF m = fromList THEN d.head ELSE fromList
    BY DEF FromListRemove, DlistRemoveNode, Result
  <2>2. m = fromList <=> i = 1
    <3>1. 1 \in 1..Len(f) /\ f # <<>>
      BY MembersOf
    <3>2. fromList = f[1]
      BY <1>2, <3>1 DEF Ringed
    <3> QED
      BY <1>2, <1>3, <3>1, <3>2 DEF Once
  <2> QED
    BY <2>1, <2>2
<1> HIDE DEF r, d
<1>9. LinksOK(r) /\ Ringed(r, g, r.head) /\ Ringed(r, n, newList) /\ Ringed(r, s, scanList)
  <2>1. LinksOK(r) /\ Ringed(r, g, r.head)
    BY <1>7, <1>8 DEF LinksOK, Ringed
  <2>2. Same(r, Links, Members(n)) /\ Same(r, Links, Members(s))
    BY <1>2, <1>7, <1>8 DEF Same
  <2> QED
    BY <1>2, <2>1, <2>2, RingSame
<1>10. /\ Ringed(b, w, b.head) /\ Same(b, r, Node \ (Members(s) \cup {m}))
       /\ ~ AppendFaults(r, scanList)
  <2>1. m \notin Members(s)
    BY <1>2
  <2> QED
    BY <1>5, <1>9, <2>1, RingAppend
<1> HIDE DEF b
<1>11. Ringed(b, g, r.head) /\ Ringed(b, n, newList)
  <2>1. Same(b, r, Members(g)) /\ Same(b, r, Members(n))
    BY <1>2, <1>6, <1>10 DEF Same
  <2> QED
    BY <1>9, <2>1, RingSame
<1>12. Ringed(Links', n, newList') /\ Ringed(Links', g, fromList') /\ Ringed(Links', w, scanList')
  <2>1. Ringed(Links', n, newList) /\ Ringed(Links', g, r.head) /\ Ringed(Links', w, b.head)
    BY <1>1, <1>10, <1>11, RingNow
  <2> QED
    BY <1>1, <1>10, <2>1
<1>13. pc = "scan" => k \in 1..Len(w) /\ scanPtr = w[k]
  <2> SUFFICES ASSUME pc = "scan"
               PROVE  k \in 1..Len(w) /\ scanPtr = w[k]
    OBVIOUS
  <2>1. k \in 1..Len(s) /\ scanPtr = s[k] /\ Len(s) \in Nat
    BY <1>2, MembersOf
  <2>2. Len(w) = Len(s) + 1 /\ \A j \in 1..Len(s) : w[j] = s[j]
    BY <1>5, <2>1, AppendProperties
  <2> QED
    BY <2>1, <2>2
<1>14. Holds(n, g, w, k)'
  BY <1>1, <1>2, <1>6, <1>10, <1>12, <1>13 DEF Holds
<1>15. New = n /\ From = f /\ Scan = s /\ Passed = k
  BY DEF Reads
<1>16. New' = n /\ From' = g /\ Scan' = w /\ Passed' = k
  BY <1>14 DEF Reads
<1>17. Lists!RemoveAt(f, i) = g
  BY <1>4, ListsOperators
<1>18. Lists!Move(m)
  BY <1>1, <1>3, <1>5, <1>10, <1>15, <1>16, <1>17 DEF Lists!Move
<1> QED
  BY <1>14, <1>18 DEF Held

(* ... and when it is on 'scan', alone, its head, or further on.           *)
LEMMA MoveAheadRefines ==
    ASSUME TypeOK, TypeOK', Reads, Reads', NEW n \in Seq(Node), NEW f \in Seq(Node),
           NEW s \in Seq(Node), NEW k \in Nat, Holds(n, f, s, k), NEW m \in Node, Move(m),
           NEW i \in k+1..Len(s), s[i] = m
    PROVE  Held' /\ (Lists!Move(m) \/ Lists!MoveHead(m))
<1> DEFINE r == FromListRemove(Links, m)
           d == DlistRemoveNode(Links, m)
           b == DlistAppend(r, scanList, m)
<1>1. /\ pc \in {"roots", "scan"} /\ UNCHANGED <<newList, free, scanPtr, node>>
      /\ IF AppendFaults(r, scanList)
         THEN pc' = "crashed" /\ UNCHANGED <<next, prev, fromList, scanList>>
         ELSE /\ next' = b.next /\ prev' = b.prev
              /\ fromList' = r.head /\ scanList' = b.head /\ UNCHANGED pc
  BY DEF Move
<1>2. /\ LinksOK(Links) /\ Links.next = next /\ Links.prev = prev
      /\ Ringed(Links, n, newList) /\ Ringed(Links, f, fromList)
      /\ Ringed(Links, s, scanList)
      /\ Members(n) \cap Members(f) = {} /\ Members(n) \cap Members(s) = {}
      /\ Members(f) \cap Members(s) = {}
      /\ (Members(n) \cup Members(f) \cup Members(s)) \cap free = {}
      /\ Members(n) \subseteq Node /\ Members(f) \subseteq Node /\ Members(s) \subseteq Node
      /\ Once(s)
      /\ IF pc = "scan" THEN k \in 1..Len(s) /\ scanPtr = s[k] ELSE k = 0
  BY <1>1, LinksTyped, MembersOf DEF Holds, Ringed
<1>3. PICK l \in Nat : l = Len(s)
  BY MembersOf
<1>4. i \in 1..l /\ k < i /\ 1 \in 1..l /\ s # <<>> /\ m \in Members(s)
  <2>1. i \in 1..l /\ k < i /\ 1 \in 1..l
    BY <1>3
  <2> QED
    BY <1>3, <2>1, MembersOf
<1>5. scanList = s[1] /\ scanList # NULL /\ m \notin Members(f)
  BY <1>2, <1>3, <1>4, MembersOf, DlistAssumption DEF Ringed
<1>6. r.next = d.next /\ r.prev = d.prev /\ r.head = fromList
  <2>1. r.next = d.next /\ r.prev = d.prev
        /\ r.head = IF m = fromList THEN d.head ELSE fromList
    BY DEF FromListRemove, DlistRemoveNode, Result
  <2>2. m # fromList
    <3>1. f # <<>> => f[1] \in Members(f)
      BY MembersOf
    <3> QED
      BY <1>2, <1>5, <3>1, DlistAssumption DEF Ringed
  <2> QED
    BY <2>1, <2>2
<1>7. PICK t \in Seq(Node) : t = RemoveAt(s, i)
  <2>1. i \in 1..Len(s)
    BY <1>3, <1>4
  <2> QED
    BY <2>1, RemoveAtIs, Zenon
<1>8. PICK w \in Seq(Node) : w = Append(t, m)
  BY AppendProperties, Zenon
<1>9. /\ Ringed(d, t, IF i = 1 THEN d.head ELSE scanList) /\ LinksOK(d)
      /\ Same(d, Links, Node \ Members(s))
      /\ l # 1 => d.prev[m] = NULL
      /\ l = 1 => d.next = Links.next /\ d.prev = Links.prev
  <2> DEFINE e == DlistRemoveNode(Links, s[i])
  <2>1. i \in 1..Len(s)
    BY <1>3, <1>4
  <2>2. /\ Ringed(e, t, IF i = 1 THEN e.head ELSE scanList) /\ LinksOK(e)
        /\ Same(e, Links, Node \ Members(s))
        /\ Len(s) # 1 => e.prev[s[i]] = NULL
        /\ Len(s) = 1 => e.next = Links.next /\ e.prev = Links.prev
    <3>1. LinksOK(Links) /\ Ringed(Links, s, scanList)
      BY <1>2
    <3>a. /\ Ringed(e, RemoveAt(s, i), IF i = 1 THEN e.head ELSE scanList) /\ LinksOK(e)
          /\ Same(e, Links, Node \ Members(s))
      BY <2>1, <3>1, RingRemove
    <3>b. Len(s) # 1 => e.prev[s[i]] = NULL
      BY <2>1, <3>1, RemoveClears
    <3>c. Len(s) = 1 => e.next = Links.next /\ e.prev = Links.prev
      BY <2>1, <3>1, RingRemove
    <3>2. /\ Ringed(e, RemoveAt(s, i), IF i = 1 THEN e.head ELSE scanList) /\ LinksOK(e)
          /\ Same(e, Links, Node \ Members(s))
          /\ Len(s) # 1 => e.prev[s[i]] = NULL
          /\ Len(s) = 1 => e.next = Links.next /\ e.prev = Links.prev
      BY <3>a, <3>b, <3>c
    <3> HIDE DEF e
    <3> QED
      BY <1>7, <3>2
  <2>3. e = d
    OBVIOUS
  <2> HIDE DEF d, e
  <2> QED
    BY <1>3, <2>2, <2>3
<1>10. /\ Len(t) = l - 1 /\ Len(w) = l /\ w[l] = m
       /\ \A j \in 1..l-1 : t[j] = IF j < i THEN s[j] ELSE s[j+1]
       /\ \A j \in 1..l-1 : w[j] = t[j]
  <2>1. Len(t) = l - 1 /\ \A j \in 1..l-1 : t[j] = IF j < i THEN s[j] ELSE s[j+1]
    BY <1>3, <1>4, <1>7, RemoveAtIs
  <2>2. Len(w) = Len(t) + 1 /\ w[Len(t)+1] = m /\ \A j \in 1..Len(t) : w[j] = t[j]
    BY <1>8, AppendProperties
  <2>3. (l - 1) + 1 = l
    BY <1>3
  <2> QED
    BY <2>1, <2>2, <2>3
<1>11. Members(t) \subseteq Members(s) \ {m} /\ Members(w) = Members(t) \cup {m}
  BY <1>2, <1>3, <1>4, <1>7, <1>8, MembersRemove, MembersAppend
<1> HIDE DEF r, d
<1>12. New = n /\ From = f /\ Scan = s /\ Passed = k
  BY DEF Reads
<1>13. Lists!RemoveAt(s, i) = t
  BY <1>7, ListsOperators
<1>14. CASE l = 1
  <2>1. i = 1 /\ k = 0 /\ m = scanList
    BY <1>4, <1>5, <1>14
  <2>2. next[m] = m /\ prev[m] = m
    BY <1>2, <1>3, <1>4, <1>5, <1>14, <2>1 DEF Ringed
  <2>3. LinksOK(r) /\ r.next = next /\ r.prev = prev
    BY <1>2, <1>6, <1>9, <1>14 DEF LinksOK
  <2>4. b.next = next /\ b.prev = prev /\ b.head = m /\ ~ AppendFaults(r, scanList)
    BY <2>1, <2>2, <2>3, AppendSelf
  <2> HIDE DEF b
  <2>5. UNCHANGED vars
    BY <1>1, <1>6, <2>1, <2>4 DEF vars
  <2>6. Links' = Links
    BY <2>5 DEF Links, vars
  <2>7. Holds(n, f, s, k)'
    BY <2>5, <2>6 DEF Holds, vars
  <2>8. New' = n /\ From' = f /\ Scan' = s /\ Passed' = k
    BY <2>7 DEF Reads
  <2>9. w = s
    <3>1. Len(w) = 1 /\ Len(s) = 1 /\ w[1] = s[1]
      BY <1>3, <1>10, <1>14, <2>1
    <3> QED
      BY <3>1
  <2>10. Lists!Move(m)
    BY <1>1, <1>3, <1>4, <1>8, <1>12, <1>13, <1>14, <2>5, <2>8, <2>9 DEF Lists!Move, vars
  <2> QED
    BY <2>7, <2>10 DEF Held
<1>15. CASE l # 1 /\ i = 1
  <2>1. k = 0 /\ pc = "roots" /\ l > 1
    <3>1. k = 0 /\ l > 1 /\ k \notin 1..l
      BY <1>4, <1>15
    <3> QED
      BY <1>1, <1>2, <1>3, <3>1
  <2>2. m = scanList /\ AppendFaults(r, scanList)
    BY <1>5, <1>6, <1>9, <1>15 DEF AppendFaults
  <2>3. pc' = "crashed"
        /\ UNCHANGED <<next, prev, newList, fromList, scanList, free, scanPtr, node>>
    BY <1>1, <2>2
  <2>4. Links' = Links
    BY <2>3 DEF Links
  <2>5. Holds(n, f, s, 0)'
    BY <1>2, <2>1, <2>3, <2>4 DEF Holds
  <2>6. New' = n /\ From' = f /\ Scan' = s /\ Passed' = 0
    BY <2>5 DEF Reads
  <2>7. Lists!MoveHead(m)
    BY <1>3, <1>12, <1>15, <2>1, <2>3, <2>6 DEF Lists!MoveHead
  <2> QED
    BY <2>5, <2>7 DEF Held
<1>16. CASE i # 1
  <2>1. LinksOK(r) /\ Ringed(r, t, scanList) /\ Ringed(r, n, newList) /\ Ringed(r, f, fromList)
    <3>1. LinksOK(r) /\ Ringed(r, t, scanList)
      BY <1>6, <1>9, <1>16 DEF LinksOK, Ringed
    <3>2. Same(r, Links, Members(n)) /\ Same(r, Links, Members(f))
      BY <1>2, <1>6, <1>9 DEF Same
    <3> QED
      BY <1>2, <3>1, <3>2, RingSame
  <2>2. /\ Ringed(b, w, b.head) /\ Same(b, r, Node \ (Members(t) \cup {m}))
        /\ ~ AppendFaults(r, scanList)
    <3>1. m \notin Members(t)
      BY <1>11
    <3> QED
      BY <1>8, <2>1, <3>1, RingAppend
  <2> HIDE DEF b
  <2>3. Ringed(b, n, newList) /\ Ringed(b, f, fromList)
    <3>1. Same(b, r, Members(n)) /\ Same(b, r, Members(f))
      BY <1>2, <1>4, <1>11, <2>2 DEF Same
    <3> QED
      BY <2>1, <3>1, RingSame
  <2>4. next' = b.next /\ prev' = b.prev /\ fromList' = fromList /\ scanList' = b.head
        /\ UNCHANGED pc
    BY <1>1, <1>6, <2>2
  <2>5. Ringed(Links', n, newList') /\ Ringed(Links', f, fromList') /\ Ringed(Links', w, scanList')
    <3>1. Ringed(Links', n, newList) /\ Ringed(Links', f, fromList) /\ Ringed(Links', w, b.head)
      BY <2>2, <2>3, <2>4, RingNow
    <3> QED
      BY <1>1, <2>4, <3>1
  <2>6. pc = "scan" => k \in 1..Len(w) /\ scanPtr = w[k]
    <3> SUFFICES ASSUME pc = "scan"
                 PROVE  k \in 1..Len(w) /\ scanPtr = w[k]
      OBVIOUS
    <3>1. k \in 1..l /\ scanPtr = s[k]
      BY <1>2, <1>3
    <3>2. k \in 1..l-1 /\ k < i
      BY <1>4, <3>1
    <3> QED
      BY <1>10, <3>1, <3>2
  <2>7. Holds(n, f, w, k)'
    BY <1>1, <1>2, <1>4, <1>11, <2>4, <2>5, <2>6 DEF Holds
  <2>8. New' = n /\ From' = f /\ Scan' = w /\ Passed' = k
    BY <2>7 DEF Reads
  <2>9. Lists!Move(m)
    BY <1>1, <1>3, <1>8, <1>12, <1>13, <1>16, <2>4, <2>8 DEF Lists!Move
  <2> QED
    BY <2>7, <2>9 DEF Held
<1> QED
  BY <1>14, <1>15, <1>16

LEMMA MoveRefines ==
    ASSUME TypeOK, TypeOK', Reads, Reads', NEW n \in Seq(Node), NEW f \in Seq(Node),
           NEW s \in Seq(Node), NEW k \in Nat, Holds(n, f, s, k), NEW m \in Node, Move(m)
    PROVE  Held' /\ (Lists!Move(m) \/ Lists!MoveHead(m))
<1>1. pc \in {"roots", "scan"} /\ m \in Members(Ring(fromList)) \cup Ahead
  BY DEF Move
<1>2. Ring(fromList) = f
  <2>1. Ringed(Links, f, fromList) /\ Links.next = next
    BY <1>1 DEF Holds, Links
  <2> QED
    BY <2>1, RingIs
<1>3. CASE m \in Members(f)
  BY <1>3, MoveFromRefines
<1>4. CASE m \in Ahead
  <2>1. PICK i \in k+1..Len(s) : s[i] = m
    BY <1>1, <1>4, AheadIs
  <2> QED
    BY <2>1, MoveAheadRefines
<1> QED
  BY <1>1, <1>2, <1>3, <1>4

(* A step that leaves the pointers alone leaves the sequences alone.       *)
LEMMA StutterRefines ==
    ASSUME TypeOK, TypeOK', Reads, Reads', NEW n \in Seq(Node), NEW f \in Seq(Node),
           NEW s \in Seq(Node), NEW k \in Nat, Holds(n, f, s, k), UNCHANGED vars
    PROVE  Held' /\ UNCHANGED Lists!vars
<1>1. Links' = Links
  BY DEF vars, Links
<1>2. Holds(n, f, s, k)'
  BY <1>1 DEF Holds, vars
<1>3. New = n /\ From = f /\ Scan = s /\ Passed = k
  BY DEF Reads
<1>4. New' = n /\ From' = f /\ Scan' = s /\ Passed' = k
  BY <1>2 DEF Reads
<1> QED
  BY <1>2, <1>3, <1>4 DEF Held, Lists!vars, vars

LEMMA InitRefines ==
    ASSUME Reads, Init, TypeOK
    PROVE  Held /\ Lists!Init
<1>1. PICK e \in Seq(Node) : e = <<>> /\ Members(e) = {} /\ Ringed(Links, e, NULL)
  <2>1. <<>> \in Seq(Node) /\ Len(<<>>) = 0
    OBVIOUS
  <2>2. PICK e \in Seq(Node) : e = <<>>
    BY <2>1, Zenon
  <2>3. Members(e) = {} /\ 1..Len(e) = {}
    BY <2>1, <2>2 DEF Members
  <2>4. Ringed(Links, e, NULL)
    BY <2>2, <2>3 DEF Ringed, Once
  <2> QED
    BY <2>2, <2>3, <2>4
<1>2. Holds(e, e, e, 0)
  BY <1>1 DEF Init, Holds
<1>3. New = e /\ From = e /\ Scan = e /\ Passed = 0
  BY <1>2 DEF Reads
<1> QED
  BY <1>1, <1>2, <1>3 DEF Held, Init, Lists!Init

(* The pointers implement the sequences of SgcLists: with the links as     *)
(* they are, every call of sgc_dlist.c that sgc.c makes appends to, joins, *)
(* removes from, or goes along the lists that the walks read off.          *)
THEOREM DlistKeepsLists == Spec => KeepsLists
<1>1. Reads /\ Reads'
  BY ListsAreRead, PTL
<1>2. Init => TypeOK
  BY DEF Init, TypeOK
<1>3. Reads /\ Init /\ TypeOK => Held /\ Lists!Init
  BY InitRefines
<1>4. ASSUME Reads, Reads', TypeOK, TypeOK', Held, [Next]_vars
      PROVE  Held' /\ [Lists!Next]_Lists!vars
  <2>1. PICK n \in Seq(Node), f \in Seq(Node), s \in Seq(Node), k \in Nat : Holds(n, f, s, k)
    BY <1>4 DEF Held
  <2>2. ASSUME NEW m \in Node, AppendNew(m)
        PROVE  Held' /\ [Lists!Next]_Lists!vars
    BY <1>4, <2>1, <2>2, AppendNewRefines DEF Lists!Next
  <2>3. ASSUME NEW m \in Node, Move(m)
        PROVE  Held' /\ [Lists!Next]_Lists!vars
    BY <1>4, <2>1, <2>3, MoveRefines DEF Lists!Next
  <2>4. CASE Start
    BY <1>4, <2>1, <2>4, StartRefines DEF Lists!Next
  <2>5. CASE RootsDone
    BY <1>4, <2>1, <2>5, RootsDoneRefines DEF Lists!Next
  <2>6. CASE Advance
    BY <1>4, <2>1, <2>6, AdvanceRefines DEF Lists!Next
  <2>7. CASE Sweep \/ SweepLeaked
    BY <1>4, <2>1, <2>7, SweepRefines DEF Lists!Next
  <2>8. CASE SweepDone
    BY <1>4, <2>1, <2>8, SweepDoneRefines DEF Lists!Next
  <2>9. CASE UNCHANGED vars
    BY <1>4, <2>1, <2>9, StutterRefines
  <2> QED
    BY <1>4, <2>2, <2>3, <2>4, <2>5, <2>6, <2>7, <2>8, <2>9 DEF Next
<1> QED
  BY <1>1, <1>2, <1>3, <1>4, ListsAreRead, TypeCorrect, PTL DEF Spec, KeepsLists, Lists!Spec
=============================================================================
