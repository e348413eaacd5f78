------------------------------ MODULE SgcLists ------------------------------
(***************************************************************************)
(* What sgc.c takes its circular lists for: sequences of objects, and the  *)
(* way the 'scan' list is gone along while objects are put at its end.     *)
(* SgcCollector keeps the same lists as sets; SgcDlist shows that the      *)
(* pointers of sgc_dlist.c implement the sequences.                        *)
(***************************************************************************)
EXTENDS Naturals, Sequences, SequencesExt

CONSTANT Node       \* the blocks, by the list cell in their header

VARIABLES
    new, from, scan,    \* the three lists
    passed,             \* how many objects of 'scan' the scan pointer has passed
    pc                  \* "client", "roots", "scan", "sweep", "crashed"

vars == <<new, from, scan, passed, pc>>

OnList == ToSet(new) \cup ToSet(from) \cup ToSet(scan)

Init == new = <<>> /\ from = <<>> /\ scan = <<>> /\ passed = 0 /\ pc = "client"

(* A new object, of the client or of a finaliser.                          *)
AppendNew(n) ==
    /\ pc \in {"client", "sweep"}
    /\ n \notin OnList
    /\ new' = Append(new, n)
    /\ UNCHANGED <<from, scan, passed, pc>>

(* A cycle starts with the objects that the last one kept, then the new.   *)
Start ==
    /\ pc = "client"
    /\ from' = scan \o new
    /\ new' = <<>> /\ scan' = <<>>
    /\ pc' = "roots"
    /\ UNCHANGED passed

(* An object goes to the end of 'scan' from wherever it is, provided that  *)
(* the scan pointer has not passed it.                                     *)
Move(n) ==
    /\ pc \in {"roots", "scan"}
    /\ \/ \E i \in 1..Len(from) :
             /\ from[i] = n
             /\ from' = RemoveAt(from, i)
             /\ scan' = Append(scan, n)
       \/ \E i \in (passed + 1)..Len(scan) :
             /\ scan[i] = n /\ (i = 1 => Len(scan) = 1)
             /\ scan' = Append(RemoveAt(scan, i), n)
             /\ UNCHANGED from
    /\ UNCHANGED <<new, passed, pc>>

(* The head of a longer 'scan' list cannot be moved to its end.            *)
MoveHead(n) ==
    /\ pc = "roots"
    /\ Len(scan) > 1 /\ scan[1] = n
    /\ pc' = "crashed"
    /\ UNCHANGED <<new, from, scan, passed>>

RootsDone ==
    /\ pc = "roots"
    /\ IF scan = <<>> THEN pc' = "sweep" /\ UNCHANGED passed
                      ELSE pc' = "scan" /\ passed' = 1
    /\ UNCHANGED <<new, from, scan>>

Advance ==
    /\ pc = "scan"
    /\ IF passed < Len(scan) THEN passed' = passed + 1 /\ UNCHANGED pc
                             ELSE passed' = 0 /\ pc' = "sweep"
    /\ UNCHANGED <<new, from, scan>>

Sweep ==
    /\ pc = "sweep" /\ from # <<>>
    /\ from' = Tail(from)
    /\ UNCHANGED <<new, scan, passed, pc>>

SweepDone ==
    /\ pc = "sweep" /\ from = <<>>
    /\ pc' = "client"
    /\ UNCHANGED <<new, from, scan, passed>>

Next == \/ \E n \in Node : AppendNew(n) \/ Move(n) \/ MoveHead(n)
        \/ Start \/ RootsDone \/ Advance \/ Sweep \/ SweepDone

Spec == Init /\ [][Next]_vars
=============================================================================
