------------------------- MODULE SgcContractProofs -------------------------
(* Proofs about SgcContract. *)
EXTENDS SgcContract, TLAPS

(* The smallest closed set is itself closed.                               *)
LEMMA ReachableIsClosed ==
    ASSUME TypeOK
    PROVE  Closed(Reachable)
<1>1. anchors \ disowned \subseteq Reachable
  BY DEF Reachable, Closed, TypeOK
<1>2. ASSUME NEW o \in Reachable
      PROVE  edges[o] \ disowned \subseteq Reachable
  BY <1>2 DEF Reachable, Closed, TypeOK
<1> QED
  BY <1>1, <1>2 DEF Closed

(* Under Sound the objects in use are a closed set.                        *)
LEMMA ReachableIsUsable ==
    ASSUME TypeOK, Sound
    PROVE  Reachable \subseteq usable
<1>1. Closed(usable)
  BY DEF Closed, Sound
<1> QED
  BY <1>1 DEF Reachable, TypeOK

(* What the client holds is never a block the collector took away: the     *)
(* variables have their types, and registered handles and the words of     *)
(* usable objects point to usable objects, or to ones the client freed.    *)
THEOREM ContractIsSound == Spec => [](TypeOK /\ Sound)
<1>1. Init => TypeOK /\ Sound
  BY DEF Init, TypeOK, Sound
<1>2. TypeOK /\ Sound /\ [Next]_vars => TypeOK' /\ Sound'
  <2> SUFFICES ASSUME TypeOK, Sound, [Next]_vars
               PROVE  TypeOK' /\ Sound'
    OBVIOUS
  <2> USE DEF TypeOK, Sound
  <2>1. CASE Mutate
    BY <2>1 DEF Mutate
  <2>2. ASSUME NEW o \in Object, Allocate(o)
        PROVE  TypeOK' /\ Sound'
    <3>1. PICK E \in SUBSET (usable \cup {o} \cup disowned) :
             edges' = [edges EXCEPT ![o] = E]
      BY <2>2 DEF Allocate
    <3>2. PICK D \in SUBSET usable : disowned' = (disowned \ {o}) \cup D
      BY <2>2 DEF Allocate
    <3>3. usable \cup disowned \subseteq usable' \cup disowned'
      BY <2>2, <3>2 DEF Allocate
    <3> QED
      BY <2>2, <3>1, <3>2, <3>3 DEF Allocate
  <2>3. CASE Collect
    <3>1. Closed(Reachable) /\ Reachable \subseteq usable
      BY ReachableIsClosed, ReachableIsUsable
    <3> QED
      BY <2>3, <3>1 DEF Collect, Closed
  <2>4. ASSUME NEW o \in Object, Reclaim(o)
        PROVE  TypeOK' /\ Sound'
    BY <2>4 DEF Reclaim
  <2>5. CASE UNCHANGED vars
    BY <2>5 DEF vars
  <2> QED
    BY <2>1, <2>2, <2>3, <2>4, <2>5 DEF Next
<1> QED
  BY <1>1, <1>2, PTL DEF Spec
=============================================================================
