------------------------- MODULE SgcCollectorProofs -------------------------
(***************************************************************************)
(* Proofs about SgcCollector, for any number of objects, handles and root  *)
(* entries.  The invariant is the one of a tri-colour collector whose scan *)
(* paints the object it reads instead of the object it finds: what keeps   *)
(* it sound is which list an object is on, and not its colour.             *)
(***************************************************************************)
EXTENDS SgcCollector, TLAPS
-----------------------------------------------------------------------------
(* The inductive invariant.                                                *)

(* What each phase knows of the lists.                                     *)
PhaseInv ==
    /\ pc = "client" => from = {}
    /\ pc \in {"count", "roots"} => scanned = {}
    /\ pc \notin {"roots", "crashed"} => cursor = 1
    /\ pc \in {"count", "roots", "scan"} => new = {}
    /\ pc = "scan" /\ todo # {} => cur \in scanned /\ todo \subseteq Out(cur)
    /\ pc # "scan" /\ pc # "crashed" => todo = {}
    /\ pc \notin {"roots", "scan", "crashed", "strayed"} => pending = {}
    /\ pc = "finalise" => cur \in from

(* An object that is neither WHITE nor RED is on 'new' or 'scan'.  While   *)
(* sgc_mark runs 'scan' holds no RED object, and what it has scanned is    *)
(* not WHITE; then, until the next cycle, nothing on the two lists is.     *)
ColourInv ==
    /\ \A o \in Object : color[o] \in {GRAY, BLACK} => o \in new \cup Scan
    /\ pc \in {"roots", "scan"} => \A o \in Scan : color[o] # RED
    /\ pc \notin {"crashed", "strayed"} => \A o \in new \cup scanned : color[o] # WHITE

(* The entry i of sgc_roots has been marked.                               *)
Entered(i) == \/ roots[i] = NULL
              \/ val[roots[i]] \notin recognised
              \/ color[val[roots[i]]] = RED
              \/ val[roots[i]] \in Scan

RootInv ==
    /\ pc = "roots" => \A i \in Slot : i < cursor => Entered(i)
    /\ pc = "scan" => \A i \in Slot : Entered(i)

(* The words of a scanned object point to objects on 'scan', those that    *)
(* are still to be looked at apart: no BLACK object hides a WHITE one.     *)
ScanInv ==
    pc = "scan" => \A o \in scanned : \A p \in Out(o) :
        \/ color[p] = RED
        \/ p \in Scan
        \/ o = cur /\ p \in todo

IInv == TypeOK /\ OnOneList /\ PhaseInv /\ ColourInv /\ RootInv /\ ScanInv /\ RootsAreKept

(* Nothing is put on 'scan' that is not reachable.                         *)
ReachInv == pc \in {"roots", "scan"} => Scan \subseteq Reachable

(* Every call, and every step of a collection, preserves the invariant.    *)
LEMMA InvPreserved ==
    ASSUME IInv, [Next]_vars
    PROVE  IInv'
<1> USE CollectorAssumption DEF IInv, TypeOK, OnOneList, PhaseInv, ColourInv, RootInv, Entered, ScanInv,
        RootsAreKept, Slot, Color, WHITE, GRAY, BLACK, RED, Phase, Kept, RootTargets, Registered,
        Scan, Out, Usable, ClientRuns, CallsBack, MayAllocate, client, header, lists, frame
<1>1. ASSUME NEW o \in Object, NEW t \in Type, NEW p \in BOOLEAN, NewObject(o, t, p)
      PROVE  IInv'
  BY <1>1 DEF NewObject, LeftOver, Blackened
<1>2. ASSUME NEW o \in Object, FreeObject(o)
      PROVE  IInv'
  BY <1>2 DEF FreeObject, Freeable
<1>3. ASSUME NEW o \in Object, NEW n \in Object, ResizeObject(o, n)
      PROVE  IInv'
  BY <1>3 DEF ResizeObject, LeftOver, Blackened, Usable
<1>4. ASSUME NEW o \in Object, ResizeFails(o)
      PROVE  IInv'
  BY <1>4 DEF ResizeFails
<1>5. ASSUME NEW o \in Object, NEW old \in Object \cup {NULL}, NEW w \in Object \cup {NULL}, Store(o, old, w)
      PROVE  IInv'
  BY <1>5 DEF Store, Overwritten, Barrier, Fires
<1>6. ASSUME NEW h \in Handle, NEW w \in Object \cup {NULL}, StoreRoot(h, w)
      PROVE  IInv'
  BY <1>6 DEF StoreRoot, Barrier, Fires
<1>7. ASSUME NEW h \in Handle, NEW i \in Slot, Root(h, i)
      PROVE  IInv'
  BY <1>7 DEF Root
<1>8. ASSUME NEW h \in Handle, NEW i \in Slot, Unroot(h, i)
      PROVE  IInv'
  BY <1>8 DEF Unroot
<1>9. ASSUME NEW t \in Type, RegisterType(t)
      PROVE  IInv'
  BY <1>9 DEF RegisterType
<1>10. ASSUME NEW t \in Type, UnregisterType(t)
       PROVE  IInv'
  BY <1>10 DEF UnregisterType
<1>11. ASSUME NEW m \in {"run", "leaks"}, StartCycle(m)
       PROVE  IInv'
  <2>1. TypeOK'
    BY <1>11 DEF StartCycle, Joined, Cleared
  <2>2. OnOneList'
    BY <1>11 DEF StartCycle, Joined, Cleared
  <2>3. PhaseInv'
    BY <1>11 DEF StartCycle, Joined, Cleared
  <2>4. ColourInv'
    BY <1>11 DEF StartCycle, Joined, Cleared
  <2>5. RootInv' /\ ScanInv'
    BY <1>11 DEF StartCycle, Joined, Cleared
  <2>6. RootsAreKept'
    BY <1>11 DEF StartCycle, Joined, Cleared
  <2> QED
    BY <2>1, <2>2, <2>3, <2>4, <2>5, <2>6
<1>12. CASE SkipRoot
  BY <1>12 DEF SkipRoot, Marking, AtEntry, Skipped, Target
<1>13. CASE MarkRoot
  BY <1>13 DEF MarkRoot, Marking, AtEntry, Skipped, Target
<1>14. CASE RemarkRoot
  BY <1>14 DEF RemarkRoot, Marking, AtEntry, Skipped, Target, Relinkable
<1>15. CASE RootsDone
  BY <1>15 DEF RootsDone, AtEntry
<1>16. ASSUME NEW o \in Object, ScanObject(o)
       PROVE  IInv'
  BY <1>16 DEF ScanObject, Blackened
<1>17. ASSUME NEW w \in Object, ScanWord(w)
       PROVE  IInv'
  BY <1>17 DEF ScanWord, Unmarked
<1>18. ASSUME NEW w \in Object, StrayWord(w)
       PROVE  IInv'
  BY <1>18 DEF StrayWord, Unmarked
<1>19. CASE ScanDone
  BY <1>19 DEF ScanDone, EndOfScan
<1>20. ASSUME NEW o \in Object, SweepObject(o)
       PROVE  IInv'
  BY <1>20 DEF SweepObject, Reclaim
<1>21. ASSUME NEW o \in Object, CallFinaliser(o)
       PROVE  IInv'
  BY <1>21 DEF CallFinaliser
<1>22. CASE FinaliserReturns
  BY <1>22 DEF FinaliserReturns, Reclaim
<1>23. ASSUME NEW o \in Object, SweepFreed(o)
       PROVE  IInv'
  BY <1>23 DEF SweepFreed, Reclaim
<1>24. ASSUME NEW o \in Object, DropLeaked(o)
       PROVE  IInv'
  BY <1>24 DEF DropLeaked
<1>25. CASE SweepDone
  BY <1>25 DEF SweepDone
<1>26. CASE CountDone
  BY <1>26 DEF CountDone
<1>27. CASE ReportDone
  BY <1>27 DEF ReportDone
<1>28. CASE UNCHANGED vars
  BY <1>28 DEF vars, client, header, lists, frame
<1> HIDE DEF IInv
<1> QED
  BY <1>1, <1>2, <1>3, <1>4, <1>5, <1>6, <1>7, <1>8, <1>9, <1>10, <1>11, <1>12, <1>13,
     <1>14, <1>15, <1>16, <1>17, <1>18, <1>19, <1>20, <1>21, <1>22, <1>23, <1>24, <1>25,
     <1>26, <1>27, <1>28
     DEF Next, Client, Mark, Sweep, Run, SearchMemoryLeaks

(* So are the words of what is kept, provided that a new block holds no    *)
(* words of its last use.                                                  *)
LEMMA WordsPreserved ==
    ASSUME ZeroFill, IInv, WordsAreKept, [Next]_vars
    PROVE  WordsAreKept'
<1> USE CollectorAssumption DEF IInv, TypeOK, OnOneList, PhaseInv, ColourInv, ScanInv, WordsAreKept,
        Slot, WHITE, GRAY, BLACK, RED, Kept,
        Scan, Out, Usable, ClientRuns, CallsBack, MayAllocate, client, header, lists, frame
<1>1. ASSUME NEW o \in Object, NEW t \in Type, NEW p \in BOOLEAN, NewObject(o, t, p)
      PROVE  WordsAreKept'
  BY <1>1 DEF NewObject, LeftOver, Blackened
<1>2. ASSUME NEW o \in Object, FreeObject(o)
      PROVE  WordsAreKept'
  BY <1>2 DEF FreeObject, Freeable
<1>3. ASSUME NEW o \in Object, NEW n \in Object, ResizeObject(o, n)
      PROVE  WordsAreKept'
  BY <1>3 DEF ResizeObject, LeftOver, Blackened, Usable
<1>4. ASSUME NEW o \in Object, ResizeFails(o)
      PROVE  WordsAreKept'
  BY <1>4 DEF ResizeFails
<1>5. ASSUME NEW o \in Object, NEW old \in Object \cup {NULL}, NEW w \in Object \cup {NULL}, Store(o, old, w)
      PROVE  WordsAreKept'
  BY <1>5 DEF Store, Overwritten, Barrier, Fires
<1>6. ASSUME NEW h \in Handle, NEW w \in Object \cup {NULL}, StoreRoot(h, w)
      PROVE  WordsAreKept'
  BY <1>6 DEF StoreRoot, Barrier, Fires
<1>7. ASSUME NEW h \in Handle, NEW i \in Slot, Root(h, i)
      PROVE  WordsAreKept'
  BY <1>7 DEF Root
<1>8. ASSUME NEW h \in Handle, NEW i \in Slot, Unroot(h, i)
      PROVE  WordsAreKept'
  BY <1>8 DEF Unroot
<1>9. ASSUME NEW t \in Type, RegisterType(t)
      PROVE  WordsAreKept'
  BY <1>9 DEF RegisterType
<1>10. ASSUME NEW t \in Type, UnregisterType(t)
       PROVE  WordsAreKept'
  BY <1>10 DEF UnregisterType
<1>11. ASSUME NEW m \in {"run", "leaks"}, StartCycle(m)
       PROVE  WordsAreKept'
  BY <1>11 DEF StartCycle, Joined, Cleared
<1>12. CASE SkipRoot
  BY <1>12 DEF SkipRoot, Marking, AtEntry, Skipped, Target
<1>13. CASE MarkRoot
  BY <1>13 DEF MarkRoot, Marking, AtEntry, Skipped, Target
<1>14. CASE RemarkRoot
  BY <1>14 DEF RemarkRoot, Marking, AtEntry, Skipped, Target, Relinkable
<1>15. CASE RootsDone
  BY <1>15 DEF RootsDone, AtEntry
<1>16. ASSUME NEW o \in Object, ScanObject(o)
       PROVE  WordsAreKept'
  BY <1>16 DEF ScanObject, Blackened
<1>17. ASSUME NEW w \in Object, ScanWord(w)
       PROVE  WordsAreKept'
  BY <1>17 DEF ScanWord, Unmarked
<1>18. ASSUME NEW w \in Object, StrayWord(w)
       PROVE  WordsAreKept'
  BY <1>18 DEF StrayWord, Unmarked
<1>19. CASE ScanDone
  BY <1>19 DEF ScanDone, EndOfScan
<1>20. ASSUME NEW o \in Object, SweepObject(o)
       PROVE  WordsAreKept'
  BY <1>20 DEF SweepObject, Reclaim
<1>21. ASSUME NEW o \in Object, CallFinaliser(o)
       PROVE  WordsAreKept'
  BY <1>21 DEF CallFinaliser
<1>22. CASE FinaliserReturns
  BY <1>22 DEF FinaliserReturns, Reclaim
<1>23. ASSUME NEW o \in Object, SweepFreed(o)
       PROVE  WordsAreKept'
  BY <1>23 DEF SweepFreed, Reclaim
<1>24. ASSUME NEW o \in Object, DropLeaked(o)
       PROVE  WordsAreKept'
  BY <1>24 DEF DropLeaked
<1>25. CASE SweepDone
  BY <1>25 DEF SweepDone
<1>26. CASE CountDone
  BY <1>26 DEF CountDone
<1>27. CASE ReportDone
  BY <1>27 DEF ReportDone
<1>28. CASE UNCHANGED vars
  BY <1>28 DEF vars, client, header, lists, frame
<1> HIDE DEF WordsAreKept
<1> QED
  BY <1>1, <1>2, <1>3, <1>4, <1>5, <1>6, <1>7, <1>8, <1>9, <1>10, <1>11, <1>12, <1>13,
     <1>14, <1>15, <1>16, <1>17, <1>18, <1>19, <1>20, <1>21, <1>22, <1>23, <1>24, <1>25,
     <1>26, <1>27, <1>28
     DEF Next, Client, Mark, Sweep, Run, SearchMemoryLeaks

(* The invariant holds in every state.                                     *)
LEMMA Invariant == Spec => []IInv
<1>1. Init => IInv
  BY CollectorAssumption DEF Init, IInv, TypeOK, OnOneList, PhaseInv, ColourInv, RootInv, ScanInv,
     RootsAreKept, Kept, RootTargets, Registered, Slot, Scan, Color, WHITE, GRAY, BLACK, RED, Phase
<1>2. IInv /\ [Next]_vars => IInv'
  BY InvPreserved
<1> QED
  BY <1>1, <1>2, PTL DEF Spec

(* Every variable keeps its type.                                          *)
THEOREM TypeCorrect == Spec => []TypeOK
<1>1. IInv => TypeOK
  BY DEF IInv
<1> QED
  BY <1>1, Invariant, PTL

(* sgc_new_list, sgc_from_list, the two parts of sgc_scan_list and the     *)
(* free blocks never share an object.                                      *)
THEOREM ListsAreApart == Spec => []OnOneList
<1>1. IInv => OnOneList
  BY DEF IInv
<1> QED
  BY <1>1, Invariant, PTL

(* What the client may use is WHITE in the callbacks ahead of sgc_mark     *)
(* only, and nothing is BLACK there.                                       *)
LEMMA WhiteInCallback ==
    ASSUME IInv, ClientRuns, NEW w \in Usable, color[w] = WHITE
    PROVE  pc = "count" /\ \A o \in Object : color[o] # BLACK
BY DEF Usable, ClientRuns, CallsBack, IInv, PhaseInv, ColourInv, Scan

(* sgc_wb2 sends no message, and sgc_wb1 there only.                       *)
LEMMA StoreIsSilent ==
    ASSUME IInv, NEW o \in Object, NEW old, NEW w, Store(o, old, w)
    PROVE  ~Fires(o, w)
<1> SUFFICES ASSUME Fires(o, w)
             PROVE  FALSE
  OBVIOUS
<1>1. ClientRuns /\ w \in Usable /\ color[w] = WHITE /\ color[o] = BLACK
  BY CollectorAssumption DEF Store, Fires
<1> QED
  BY <1>1, WhiteInCallback

LEMMA RootStoreFires ==
    ASSUME IInv, NEW h, NEW w, StoreRoot(h, w), Fires(NULL, w)
    PROVE  pc = "count" /\ w \in from
<1>1. ClientRuns /\ w \in Usable /\ color[w] = WHITE
  BY DEF StoreRoot, Fires
<1>2. pc = "count"
  BY <1>1, WhiteInCallback
<1> QED
  BY <1>1, <1>2 DEF Usable, Scan, IInv, PhaseInv

(* The only step that a write barrier of sgc.h sends its message in is a   *)
(* store into a handle, in a callback between sgc_clear and sgc_mark.      *)
THEOREM BarrierFiresInCallback == Spec => BarrierFiresInCallbackOnly
<1> DEFINE InCallback == pc = "count" /\ UNCHANGED words
           Only == pc # "strayed" /\ pc' = "strayed" => InCallback
<1>1. ASSUME IInv, [Next]_vars
      PROVE  Only
  <2> SUFFICES ASSUME pc # "strayed", pc' = "strayed"
               PROVE  InCallback
    OBVIOUS
  <2>1. ASSUME NEW o \in Object, NEW old \in Object \cup {NULL}, NEW w \in Object \cup {NULL},
               Store(o, old, w)
        PROVE  FALSE
    BY <1>1, <2>1, StoreIsSilent DEF Store, Barrier
  <2>2. ASSUME NEW h \in Handle, NEW w \in Object \cup {NULL}, StoreRoot(h, w)
        PROVE  InCallback
    BY <1>1, <2>2, RootStoreFires DEF StoreRoot, Barrier, header
  <2>3. CASE Client
    BY <2>1, <2>2, <2>3 DEF Client, NewObject, FreeObject, ResizeObject, ResizeFails, Root, Unroot,
       RegisterType, UnregisterType, Run, SearchMemoryLeaks, StartCycle, lists, frame
  <2>4. ~Mark
    BY DEF Mark, CountDone, SkipRoot, MarkRoot, RemarkRoot, RootsDone, ScanObject, ScanWord,
       StrayWord, ScanDone
  <2>5. ~Sweep
    BY DEF Sweep, ReportDone, SweepObject, CallFinaliser, FinaliserReturns, SweepFreed, DropLeaked,
       SweepDone, frame
  <2> QED
    BY <1>1, <2>3, <2>4, <2>5 DEF Next, vars, frame
<1>2. IInv /\ [Next]_vars => [Only]_vars
  BY <1>1
<1> QED
  BY <1>2, Invariant, PTL DEF Spec, BarrierFiresInCallbackOnly

(* sgc_mark puts no object that the client freed on the 'scan' list.       *)
THEOREM RedIsNotScanned == Spec => []RedNotScanned
<1>1. IInv => RedNotScanned
  BY DEF IInv, RedNotScanned, ColourInv
<1> QED
  BY <1>1, Invariant, PTL

(* A registered root points to an object that is kept or that the client   *)
(* freed: also when new blocks hold words of their last use, and when      *)
(* handles share an object.                                                *)
THEOREM RootedObjectsAreKept == Spec => []RootsAreKept
<1>1. IInv => RootsAreKept
  BY DEF IInv
<1> QED
  BY <1>1, Invariant, PTL

(* Nothing the client can find points to reclaimed memory.                 *)
THEOREM NothingDangles ==
    ASSUME ZeroFill
    PROVE  Spec => []NoDangling
<1>1. Init => WordsAreKept
  BY DEF Init, WordsAreKept, Kept, Scan
<1>2. IInv /\ WordsAreKept /\ [Next]_vars => WordsAreKept'
  BY ZeroFill, WordsPreserved
<1>3. IInv /\ WordsAreKept => NoDangling
  BY DEF IInv, NoDangling
<1> QED
  BY <1>1, <1>2, <1>3, Invariant, PTL DEF Spec
-----------------------------------------------------------------------------
(* The smallest closed set is itself closed.                               *)
LEMMA ReachableIsClosed ==
    ASSUME TypeOK
    PROVE  Closed(Reachable)
<1>1. ASSUME NEW o \in RootTargets, color[o] # RED
      PROVE  o \in Reachable
  BY <1>1 DEF Reachable, Closed, RootTargets, TypeOK
<1>2. ASSUME NEW o \in Reachable, NEW p \in Out(o), color[p] # RED
      PROVE  p \in Reachable
  <2>1. p \in Object
    BY DEF TypeOK, Out, Reachable
  <2> QED
    BY <1>2, <2>1 DEF Reachable, Closed
<1> QED
  BY <1>1, <1>2 DEF Closed

(* When nothing dangles the objects that are kept are a closed set.        *)
LEMMA ReachableIsKept ==
    ASSUME TypeOK, NoDangling
    PROVE  Reachable \subseteq Kept
<1>1. Closed(Kept)
  BY DEF Closed, NoDangling, RootsAreKept, WordsAreKept
<1>2. Kept \subseteq Object
  BY DEF Kept, TypeOK, Scan
<1> QED
  BY <1>1, <1>2 DEF Reachable

(* A block is freed by one of the actions of sgc_sweep, and was on 'from'. *)
LEMMA FreedWhileSweeping ==
    ASSUME IInv, [Next]_vars, NEW o \in free' \ free
    PROVE  pc \in {"sweep", "finalise"} /\ o \in from
<1> USE DEF client, header, lists, frame, Reclaim
<1>1. CASE Client
  BY <1>1 DEF Client, NewObject, FreeObject, ResizeObject, ResizeFails, Store, StoreRoot, Barrier, Root,
     Unroot, RegisterType, UnregisterType, Run, SearchMemoryLeaks, StartCycle
<1>2. CASE Mark
  BY <1>2 DEF Mark, CountDone, SkipRoot, MarkRoot, RemarkRoot, RootsDone, ScanObject, ScanWord, StrayWord,
     ScanDone
<1>3. CASE Sweep
  BY <1>3 DEF IInv, PhaseInv, Sweep, ReportDone, SweepObject, CallFinaliser, FinaliserReturns, SweepFreed,
     DropLeaked, SweepDone
<1>4. CASE UNCHANGED vars
  BY <1>4 DEF vars
<1> QED
  BY <1>1, <1>2, <1>3, <1>4 DEF Next

(* sgc_allocator_free is never called on a reachable object: 'from' shares *)
(* nothing with the lists that hold what is reachable.                     *)
THEOREM OnlyGarbageIsReclaimed ==
    ASSUME ZeroFill
    PROVE  Spec => OnlyGarbageIsFreed
<1>1. IInv /\ NoDangling /\ [Next]_vars => [\A o \in free' \ free : o \notin Reachable]_vars
  <2> SUFFICES ASSUME IInv, NoDangling, [Next]_vars, NEW o \in free' \ free
               PROVE  o \notin Reachable
    OBVIOUS
  <2>1. pc \in {"sweep", "finalise"} /\ o \in from
    BY FreedWhileSweeping
  <2>2. o \notin Kept
    BY <2>1 DEF IInv, OnOneList, Kept
  <2>3. Reachable \subseteq Kept
    BY ReachableIsKept DEF IInv
  <2> QED
    BY <2>2, <2>3
<1> QED
  BY <1>1, Invariant, NothingDangles, ZeroFill, PTL DEF Spec, OnlyGarbageIsFreed
-----------------------------------------------------------------------------
(* What is reachable depends on the handles, the words and on which        *)
(* objects are RED, and on nothing else.                                   *)
LEMMA ReachableUnchanged ==
    ASSUME UNCHANGED <<client, words, pointerless>>,
           \A o \in Object : color'[o] = RED <=> color[o] = RED,
           TypeOK
    PROVE  Reachable' = Reachable
<1>1. RootTargets' = RootTargets /\ \A o : Out(o)' = Out(o)
  BY DEF client, RootTargets, Registered, Slot, Out
<1>2. ASSUME NEW R \in SUBSET Object
      PROVE  Closed(R)' <=> Closed(R)
  BY <1>1, CollectorAssumption DEF Closed, RootTargets, Out, TypeOK
<1> QED
  BY <1>2 DEF Reachable

(* sgc_mark adds to 'scan' the target of a root, or of a word of an object *)
(* that is already there.                                                  *)
LEMMA ReachInvPreserved ==
    ASSUME IInv, ReachInv, [Next]_vars
    PROVE  ReachInv'
<1> SUFFICES ASSUME pc' \in {"roots", "scan"}
             PROVE  Scan' \subseteq Reachable'
  BY DEF ReachInv
<1>r. ASSUME UNCHANGED <<client, words, pointerless>>, pc \in {"roots", "scan"},
             \A o \in Object : color'[o] = RED <=> color[o] = RED,
             Scan' \subseteq Reachable
      PROVE  Scan' \subseteq Reachable'
  BY <1>r, ReachableUnchanged DEF IInv
<1>c. Closed(Reachable)
  BY ReachableIsClosed DEF IInv
<1> USE DEF client, header, lists, frame, Scan, WHITE, GRAY, BLACK, RED
<1>0. CASE CountDone
  BY <1>0 DEF CountDone, IInv, PhaseInv
<1>1. ASSUME NEW m \in {"run", "leaks"}, StartCycle(m)
      PROVE  Scan' \subseteq Reachable'
  BY <1>1 DEF StartCycle
<1>2. CASE SkipRoot
  BY <1>2, <1>r DEF SkipRoot, Marking, ReachInv
<1>3. CASE MarkRoot
  <2>1. Target \in recognised /\ Target \in Object /\ color[Target] # RED
    BY <1>3 DEF MarkRoot, Skipped, IInv, TypeOK
  <2>2. Target \in RootTargets
    BY <1>3, <2>1, CollectorAssumption
       DEF MarkRoot, Marking, AtEntry, Target, RootTargets, Registered, IInv, TypeOK, Slot
  <2>3. Target \in Reachable
    BY <2>1, <2>2, <1>c DEF Closed
  <2>4. Scan' \subseteq Reachable
    BY <1>3, <2>3 DEF MarkRoot, Marking, ReachInv
  <2>5. \A o \in Object : color'[o] = RED <=> color[o] = RED
    BY <1>3, <2>1 DEF MarkRoot, IInv, TypeOK
  <2> QED
    BY <1>3, <1>r, <2>4, <2>5 DEF MarkRoot, Marking
<1>4. CASE RemarkRoot
  BY <1>4, <1>r DEF RemarkRoot, Marking, ReachInv
<1>5. CASE RootsDone
  BY <1>5, <1>r DEF RootsDone, ReachInv
<1>6. ASSUME NEW o \in Object, ScanObject(o)
      PROVE  Scan' \subseteq Reachable'
  <2>1. color[o] # RED
    BY <1>6 DEF ScanObject, IInv, ColourInv
  <2>2. \A p \in Object : color'[p] = RED <=> color[p] = RED
    BY <1>6, <2>1 DEF ScanObject, Blackened, IInv, TypeOK
  <2>3. Scan' \subseteq Reachable
    BY <1>6 DEF ScanObject, ReachInv
  <2> QED
    BY <1>6, <1>r, <2>2, <2>3 DEF ScanObject
<1>7. ASSUME NEW w \in Object, ScanWord(w)
      PROVE  Scan' \subseteq Reachable'
  <2>1. cur \in scanned /\ color[cur] # RED
    BY <1>7 DEF ScanWord, IInv, PhaseInv, ColourInv
  <2>2. \A p \in Object : color'[p] = RED <=> color[p] = RED
    BY <1>7, <2>1 DEF ScanWord, IInv, TypeOK
  <2>3. Unmarked(w) => w \in Reachable
    BY <1>7, <2>1, <1>c DEF ScanWord, Unmarked, ReachInv, Closed, IInv, PhaseInv
  <2>4. Scan' \subseteq Reachable
    BY <1>7, <2>3 DEF ScanWord, ReachInv
  <2> QED
    BY <1>7, <1>r, <2>2, <2>4 DEF ScanWord
<1>8. ASSUME NEW w \in Object, StrayWord(w)
      PROVE  Scan' \subseteq Reachable'
  BY <1>8 DEF StrayWord
<1>9. CASE ScanDone
  BY <1>9 DEF ScanDone
<1>10. CASE Client
  BY <1>10, <1>1 DEF Client, ClientRuns, CallsBack, MayAllocate, NewObject, FreeObject, ResizeObject,
     ResizeFails, Store, StoreRoot, Barrier, Root, Unroot, RegisterType, UnregisterType, Run, SearchMemoryLeaks
<1>11. CASE Sweep
  BY <1>11 DEF Sweep, ReportDone, SweepObject, CallFinaliser, FinaliserReturns, SweepFreed, DropLeaked, SweepDone
<1>12. CASE UNCHANGED vars
  BY <1>12, <1>r DEF vars, ReachInv
<1> QED
  BY <1>0, <1>2, <1>3, <1>4, <1>5, <1>6, <1>7, <1>8, <1>9, <1>10, <1>11, <1>12 DEF Next, Mark

(* When sgc_mark is done the 'scan' list is a closed set.                  *)
LEMMA ScanEndsExact ==
    ASSUME IInv, ReachInv, [Next]_vars, pc = "scan", pc' \in {"report", "sweep"}
    PROVE  scanned = Reachable
<1>1. ScanDone
  BY DEF Next, Client, ClientRuns, CallsBack, MayAllocate, Mark, Sweep, NewObject, FreeObject, ResizeObject, ResizeFails,
     Store, StoreRoot, Root, Unroot, RegisterType, UnregisterType, Run, SearchMemoryLeaks,
     StartCycle, SkipRoot, MarkRoot, RemarkRoot, RootsDone, ScanObject, ScanWord, StrayWord,
     Marking, CountDone, ReportDone, SweepObject, CallFinaliser, FinaliserReturns, SweepFreed, DropLeaked, SweepDone,
     vars, frame
<1>2. Scan = scanned /\ todo = {}
  BY <1>1 DEF ScanDone, EndOfScan, Scan
<1>3. Closed(scanned)
  BY <1>2, CollectorAssumption DEF Closed, IInv, RootInv, Entered, ScanInv, RootTargets, Registered
<1>4. Reachable \subseteq scanned
  BY <1>3 DEF Reachable, IInv, TypeOK
<1> QED
  BY <1>2, <1>4 DEF ReachInv

(* While sgc_mark runs, all it has put on 'scan' is reachable.             *)
LEMMA ReachInvariant == Spec => []ReachInv
<1>1. Init => ReachInv
  BY DEF Init, ReachInv
<1>2. IInv /\ ReachInv /\ [Next]_vars => ReachInv'
  BY ReachInvPreserved
<1> QED
  BY <1>1, <1>2, Invariant, PTL DEF Spec

(* Marking ends with exactly the reachable objects on the 'scan' list.     *)
THEOREM MarkingIsExact == Spec => MarksExactly
<1>1. IInv /\ ReachInv /\ [Next]_vars
        => [pc = "scan" /\ pc' \in {"report", "sweep"} => scanned = Reachable]_vars
  BY ScanEndsExact
<1> QED
  BY <1>1, Invariant, ReachInvariant, PTL DEF Spec, MarksExactly

(* A block is lost only where sgc_search_memory_leaks drops it: elsewhere  *)
(* no call and no step of a collection takes an object off its list but to *)
(* free it.                                                                *)
THEOREM BlocksAreNotLost == Spec => LostByLeakSearchOnly
<1> DEFINE Keeps == \A o \in OnAList \ OnAList' : o \notin free' => pc = "sweep" /\ mode = "leaks"
<1>1. ASSUME IInv, [Next]_vars
      PROVE  Keeps
  <2> USE DEF OnAList, Scan, client, header, lists, frame
  <2>1. CASE Client
    <3>1. ASSUME NEW m \in {"run", "leaks"}, StartCycle(m)
          PROVE  Keeps
      BY <1>1, <3>1 DEF StartCycle, Joined, IInv, PhaseInv
    <3> QED
      BY <2>1, <3>1 DEF Client, NewObject, FreeObject, ResizeObject, ResizeFails, Store, StoreRoot, Barrier,
         Root, Unroot, RegisterType, UnregisterType, Run, SearchMemoryLeaks
  <2>2. CASE Mark
    BY <2>2 DEF Mark, CountDone, SkipRoot, MarkRoot, RemarkRoot, RootsDone, ScanObject, ScanWord, StrayWord,
       ScanDone
  <2>3. CASE Sweep
    BY <2>3 DEF Sweep, ReportDone, SweepObject, CallFinaliser, FinaliserReturns, SweepFreed, DropLeaked,
       SweepDone, Reclaim
  <2>4. CASE UNCHANGED vars
    BY <2>4 DEF vars
  <2> QED
    BY <1>1, <2>1, <2>2, <2>3, <2>4 DEF Next
<1>2. IInv /\ [Next]_vars => [Keeps]_vars
  BY <1>1
<1> QED
  BY <1>2, Invariant, PTL DEF Spec, LostByLeakSearchOnly
(* A collection cannot go on for ever: with finitely many objects each     *)
(* step brings it nearer its end, in every phase, whatever the graph and   *)
(* whatever finalisers do.                                                 *)
THEOREM CyclesAdvance == Spec => CycleAdvances
<1> DEFINE Stays    == UNCHANGED <<Waiting, pc, cursor, todo>>
           Advances == InCycle /\ InCycle' => Nearer \/ (ClientRuns /\ Stays)
<1>1. ASSUME IInv, Next
      PROVE  Advances
  <2>1. /\ \A p : p \in DOMAIN Rank
                   <=> p \in {"count", "roots", "scan", "report", "sweep", "finalise"}
        /\ Rank["roots"] < Rank["count"] /\ Rank["scan"] < Rank["roots"]
        /\ Rank["report"] < Rank["scan"] /\ Rank["sweep"] < Rank["report"]
        /\ Rank["sweep"] < Rank["scan"] /\ Rank["finalise"] < Rank["sweep"]
    BY DEF Rank
  <2>2. CASE Client
    <3>1. CASE pc' = "strayed"
      BY <2>1, <3>1 DEF InCycle
    <3>2. CASE pc = "client"
      BY <2>1, <3>2 DEF InCycle
    <3>3. CASE pc # "client" /\ pc' # "strayed"
      <4>1. ClientRuns /\ UNCHANGED <<from, pending, pc, cursor, todo>>
        BY <2>2, <3>3 DEF Client, NewObject, FreeObject, ResizeObject, ResizeFails, Store,
           StoreRoot, Barrier, Root, Unroot, RegisterType, UnregisterType, Run, SearchMemoryLeaks,
           StartCycle, MayAllocate, client, header, lists, frame
      <4> QED
        BY <4>1 DEF Waiting
    <3> QED
      BY <3>1, <3>2, <3>3
  <2>3. CASE Mark
    <3> USE DEF Waiting, Fewer, Nearer
    <3>1. cursor \in Nat /\ TypeOK /\ OnOneList
      BY <1>1, CollectorAssumption DEF IInv, TypeOK
    <3>2. CASE SkipRoot \/ MarkRoot \/ RemarkRoot
      <4>1. CASE pc' = "crashed"
        BY <2>1, <4>1 DEF InCycle
      <4>2. CASE pc' # "crashed"
        <5>1. Waiting' = Waiting
          BY <3>2 DEF SkipRoot, MarkRoot, RemarkRoot, lists
        <5>2. pc' = pc /\ cursor' = cursor + 1
          BY <3>2, <4>2 DEF SkipRoot, MarkRoot, RemarkRoot
        <5> QED
          BY <3>1, <5>1, <5>2
      <4> QED
        BY <4>1, <4>2
    <3>3. CASE RootsDone
      BY <2>1, <3>3 DEF RootsDone
    <3>4. ASSUME NEW o \in Object, ScanObject(o)
          PROVE  Nearer
      <4>1. from' = from /\ pending' = pending \ {o} /\ o \in pending /\ o \notin from
        BY <3>1, <3>4 DEF ScanObject, OnOneList, Scan
      <4> QED
        BY <4>1
    <3>5. ASSUME NEW w \in Object, ScanWord(w)
          PROVE  Nearer
      <4>1. Waiting' = Waiting
        BY <3>5 DEF ScanWord
      <4>2. pc' = pc /\ cursor' = cursor /\ todo' = todo \ {w} /\ w \in todo
        BY <3>5 DEF ScanWord
      <4> QED
        BY <4>1, <4>2
    <3>6. ASSUME NEW w \in Object, StrayWord(w)
          PROVE  Advances
      BY <2>1, <3>6 DEF StrayWord, InCycle
    <3>7. CASE ScanDone \/ CountDone
      BY <2>1, <3>7 DEF ScanDone, CountDone, lists
    <3> QED
      BY <2>3, <3>2, <3>3, <3>4, <3>5, <3>6, <3>7 DEF Mark
  <2>4. CASE Sweep
    <3>1. CASE pc' = "client"
      BY <2>1, <3>1 DEF InCycle
    <3>2. ASSUME NEW o \in Object, CallFinaliser(o)
          PROVE  Nearer
      BY <2>1, <3>2 DEF CallFinaliser, lists, Nearer, Waiting
    <3>3. ASSUME NEW o \in from, pending' = pending, from' = from \ {o}
          PROVE  Nearer
      <4>1. o \notin pending
        BY <1>1, <3>3 DEF IInv, OnOneList, Scan
      <4> QED
        BY <3>3, <4>1 DEF Nearer, Waiting, Fewer
    <3>4. ASSUME FinaliserReturns
          PROVE  Nearer
      <4>1. cur \in from
        BY <1>1, <3>4 DEF FinaliserReturns, IInv, PhaseInv
      <4> QED
        BY <3>3, <3>4, <4>1 DEF FinaliserReturns, Reclaim
    <3>5. ASSUME NEW o \in Object, SweepObject(o) \/ SweepFreed(o) \/ DropLeaked(o)
          PROVE  Nearer
      BY <3>3, <3>5 DEF SweepObject, SweepFreed, DropLeaked, Reclaim
    <3>6. CASE SweepDone
      BY <3>1, <3>6 DEF SweepDone
    <3>7. CASE ReportDone
      BY <2>1, <3>7 DEF ReportDone, lists, Nearer, Waiting
    <3> QED
      BY <2>4, <3>2, <3>4, <3>5, <3>6, <3>7 DEF Sweep
  <2> QED
    BY <1>1, <2>2, <2>3, <2>4 DEF Next
<1>2. IInv /\ [Next]_vars => [Advances]_vars
  BY <1>1
<1> QED
  BY <1>2, Invariant, PTL DEF Spec, CycleAdvances
-----------------------------------------------------------------------------
(* The refinement of SgcContract.                                          *)

(* The two notions of reachable object agree: nothing outside of Kept can  *)
(* be reached.                                                             *)
LEMMA ReachableAgrees ==
    ASSUME TypeOK, NoDangling
    PROVE  Contract!Reachable = Reachable
<1> USE DEF Contract!Closed, Closed, Contract!Reachable, Reachable
<1>1. ASSUME NEW R \in SUBSET Object, Closed(R)
      PROVE  Contract!Closed(R)
  BY <1>1, CollectorAssumption DEF RootTargets, Out, TypeOK
<1>2. ASSUME NEW R \in SUBSET Object, Contract!Closed(R)
      PROVE  Closed(R \cap Kept)
  BY <1>2 DEF RootTargets, NoDangling, RootsAreKept, WordsAreKept, Out, TypeOK
<1>3. Contract!Reachable \subseteq Reachable
  BY <1>1
<1>4. ASSUME NEW o \in Reachable
      PROVE  o \in Contract!Reachable
  BY <1>2
<1> QED
  BY <1>3, <1>4

(* The state after sgc_init is an initial state of the contract.           *)
LEMMA InitRefines == Init => Contract!Init
BY CollectorAssumption DEF Slot, Init, Contract!Init, Kept, Scan, RootTargets, Registered, WHITE, RED

(* A step that moves objects between lists, or paints them without making  *)
(* or unmaking one RED, is no step of the contract.                        *)
LEMMA Stutters ==
    ASSUME TypeOK,
           UNCHANGED <<client, words, pointerless, free>>,
           \A o \in Object : color'[o] = RED <=> color[o] = RED,
           Kept' = Kept
    PROVE  UNCHANGED Contract!vars
<1>1. RootTargets' = RootTargets /\ \A o : Out(o)' = Out(o)
  BY DEF client, RootTargets, Registered, Slot, Out
<1> QED
  BY <1>1 DEF Contract!vars

(* Where the lists of objects are kept and the memory of what they hold    *)
(* is not, a client call is a Mutate.                                      *)
LEMMA ClientMutates ==
    ASSUME TypeOK, TypeOK',
           Kept' = Kept, free' = free,
           RootTargets' \subseteq RootTargets \cup Kept,
           \A o \in Object : Out(o)' \subseteq Out(o) \cup Kept,
           \E D \in SUBSET (Object \ free) :
              \A o \in Object : color'[o] = RED <=> color[o] = RED \/ o \in D
    PROVE  Contract!Mutate
<1>d. PICK D \in SUBSET (Object \ free) :
         \A o \in Object : color'[o] = RED <=> color[o] = RED \/ o \in D
  OBVIOUS
<1> DEFINE Edges == [o \in Object |-> IF o \in Kept THEN Out(o) ELSE {}]
           RedOnes == {o \in Object : color[o] = RED}
<1>1. Edges' \in [Object -> SUBSET Object]
  BY DEF Out, TypeOK
<1>2. \A o \in Object : Edges'[o] \subseteq Edges[o] \cup Kept
  OBVIOUS
<1>3. \A o \in Object \ Kept : Edges'[o] = {}
  OBVIOUS
<1>4. RedOnes' = RedOnes \cup D
  BY <1>d
<1>5. D \in SUBSET (Kept \cup (Object \ (free \cup Kept)))
  OBVIOUS
<1>6. UNCHANGED <<Kept, Object \ (free \cup Kept)>>
  OBVIOUS
<1> HIDE DEF Edges, RedOnes
<1>7. RootTargets' \in SUBSET (RootTargets \cup Kept)
  OBVIOUS
<1> QED
  BY <1>1, <1>2, <1>3, <1>4, <1>5, <1>6, <1>7 DEF Contract!Mutate, Edges, RedOnes

(* Every step of the collector is a step of the contract, or none.         *)
LEMMA StepRefines ==
    ASSUME ZeroFill, IInv, IInv', NoDangling, ReachInv, [Next]_vars
    PROVE  [Contract!Next]_(Contract!vars)
<1>t. TypeOK /\ TypeOK' /\ OnOneList
  BY DEF IInv
<1> DEFINE Edges == [o \in Object |-> IF o \in Kept THEN Out(o) ELSE {}]
           RedOnes == {o \in Object : color[o] = RED}
           Lost == Object \ (free \cup Kept)
<1> USE DEF client, header, lists, frame
<1>1. ASSUME NEW o \in Object, NEW t \in Type, NEW p \in BOOLEAN, NewObject(o, t, p)
      PROVE  Contract!Allocate(o)
  <2>1. o \notin Kept /\ Kept' = Kept \cup {o} /\ free' = free \ {o}
    BY <1>1, <1>t DEF NewObject, Kept, OnOneList, Scan
  <2>2. RootTargets' = RootTargets
    BY <1>1 DEF NewObject, RootTargets, Registered, Slot
  <2>3. Out(o)' = {} /\ \A q \in Object \ {o} : Out(q)' = Out(q)
    BY <1>1, <1>t, ZeroFill DEF NewObject, Out, LeftOver, TypeOK
  <2>4. color'[o] # RED /\ \A q \in Object \ {o} : color'[q] = color[q]
    BY <1>1, <1>t DEF NewObject, Blackened, BLACK, RED, TypeOK
  <2> QED
    BY <1>1, <1>t, <2>1, <2>2, <2>3, <2>4 DEF Contract!Allocate, NewObject
<1>2. ASSUME NEW o \in Object, FreeObject(o) \/ ResizeFails(o)
      PROVE  Contract!Mutate
  <2>1. UNCHANGED <<client, words, pointerless, free>> /\ Kept' = Kept
    BY <1>2 DEF FreeObject, ResizeFails, Kept, Scan
  <2>2. RootTargets' = RootTargets /\ \A q : Out(q)' = Out(q)
    BY <2>1 DEF RootTargets, Registered, Slot, Out
  <2>3. o \notin free
    BY <1>2, <1>t DEF FreeObject, ResizeFails, Freeable, Usable, OnOneList, Scan
  <2>4. \A q \in Object : color'[q] = RED <=> color[q] = RED \/ q \in {o}
    BY <1>2, <1>t DEF FreeObject, ResizeFails, TypeOK
  <2>5. {o} \in SUBSET (Object \ free)
    BY <2>3
  <2> QED
    BY <1>t, <2>1, <2>2, <2>4, <2>5, ClientMutates
<1>3. ASSUME NEW o \in Object, NEW n \in Object, ResizeObject(o, n)
      PROVE  Contract!Allocate(n)
  <2>1. n \notin Kept /\ Kept' = Kept \cup {n} /\ free' = free \ {n} /\ o \in Kept /\ o # n
    BY <1>3, <1>t DEF ResizeObject, Kept, OnOneList, Usable, Scan
  <2>2. RootTargets' = RootTargets
    BY <1>3 DEF ResizeObject, RootTargets, Registered, Slot
  <2>3. Out(n)' \subseteq Out(o) /\ \A q \in Object \ {n} : Out(q)' = Out(q)
    BY <1>3, <1>t, <2>1, ZeroFill DEF ResizeObject, Out, LeftOver, TypeOK
  <2>4. \A q \in Object : color'[q] = RED <=> (color[q] = RED /\ q # n) \/ q = o
    BY <1>3, <1>t, <2>1 DEF ResizeObject, Blackened, BLACK, RED, TypeOK
  <2>5. Out(n)' \in SUBSET (Kept \cup {n} \cup {q \in Object : color[q] = RED})
    BY <1>t, <2>1, <2>3 DEF NoDangling, WordsAreKept, Out, TypeOK
  <2>6. Edges' = [Edges EXCEPT ![n] = Out(n)']
    BY <2>1, <2>3
  <2>7. RedOnes' = (RedOnes \ {n}) \cup {o}
    BY <2>1, <2>4
  <2>8. Lost' = Lost /\ n \notin Lost /\ {o} \in SUBSET Kept
    BY <1>3, <2>1 DEF ResizeObject
  <2> HIDE DEF Edges, RedOnes, Lost
  <2> QED
    BY <2>1, <2>2, <2>5, <2>6, <2>7, <2>8 DEF Contract!Allocate, Edges, RedOnes, Lost
<1>4. ASSUME NEW o \in Object, NEW old \in Object \cup {NULL}, NEW w \in Object \cup {NULL},
             Store(o, old, w)
      PROVE  Contract!Mutate
  <2>1. UNCHANGED <<client, color, pointerless, free>> /\ Kept' = Kept
    BY <1>4, StoreIsSilent DEF Store, Barrier, Kept, Scan
  <2>2. RootTargets' = RootTargets
    BY <2>1 DEF RootTargets, Registered, Slot
  <2>3. \A q \in Object : Out(q)' \subseteq Out(q) \cup Kept
    BY <1>4, <1>t DEF Store, Overwritten, Out, Usable, Kept, TypeOK
  <2>4. \E D \in SUBSET (Object \ free) :
           \A q \in Object : color'[q] = RED <=> color[q] = RED \/ q \in D
    <3>1. {} \in SUBSET (Object \ free)
      OBVIOUS
    <3>2. \A q \in Object : color'[q] = RED <=> color[q] = RED \/ q \in {}
      BY <2>1
    <3> QED
      BY <3>1, <3>2
  <2> QED
    BY <1>t, <2>1, <2>2, <2>3, <2>4, ClientMutates
<1>5. ASSUME NEW h \in Handle,
             \/ \E w \in Object \cup {NULL} : StoreRoot(h, w)
             \/ \E i \in Slot : Root(h, i) \/ Unroot(h, i)
      PROVE  Contract!Mutate
  <2>1. UNCHANGED <<free, header, recognised>> /\ Kept' = Kept
    <3>1. ASSUME NEW w \in Object \cup {NULL}, StoreRoot(h, w)
          PROVE  UNCHANGED <<free, header, recognised>> /\ Kept' = Kept
      <4>1. CASE Fires(NULL, w)
        BY <3>1, <4>1, RootStoreFires DEF StoreRoot, Barrier, Kept, Scan
      <4>2. CASE ~Fires(NULL, w)
        BY <3>1, <4>2 DEF StoreRoot, Barrier, Kept, Scan
      <4> QED
        BY <4>1, <4>2
    <3> QED
      BY <1>5, <3>1 DEF Root, Unroot, Kept, Scan
  <2>2. RootTargets' \subseteq RootTargets \cup Kept
    <3>1. ASSUME NEW w \in Object \cup {NULL}, StoreRoot(h, w)
          PROVE  RootTargets' \subseteq RootTargets \cup Kept
      <4>1. /\ recognised' = recognised /\ val' = [val EXCEPT ![h] = w]
            /\ \A g \in Handle : Registered(g)' <=> Registered(g)
        BY <3>1 DEF StoreRoot, Registered
      <4>2. w \in Object => w \in Kept
        BY <3>1, CollectorAssumption DEF StoreRoot, Usable, Kept, Scan
      <4> QED
        BY <1>t, <4>1, <4>2, CollectorAssumption DEF RootTargets, TypeOK
    <3>2. ASSUME NEW i \in Slot, Root(h, i)
          PROVE  RootTargets' \subseteq RootTargets \cup Kept
      <4>1. recognised' = recognised /\ val' = val /\ \A g \in Handle \ {h} : Registered(g)' => Registered(g)
        BY <3>2, <1>t DEF Root, Registered, Slot, TypeOK
      <4>2. val[h] \in Object => val[h] \in Kept
        BY <3>2, CollectorAssumption DEF Root, Usable, Kept, Scan
      <4> QED
        BY <1>t, <4>1, <4>2, CollectorAssumption DEF RootTargets, TypeOK
    <3>3. ASSUME NEW i \in Slot, Unroot(h, i)
          PROVE  RootTargets' \subseteq RootTargets \cup Kept
      <4>1. recognised' = recognised /\ val' = val /\ \A g \in Handle : Registered(g)' => Registered(g)
        BY <3>3, <1>t, CollectorAssumption DEF Unroot, Registered, Slot, TypeOK
      <4> QED
        BY <4>1 DEF RootTargets
    <3> QED
      BY <1>5, <3>1, <3>2, <3>3
  <2>3. \A q \in Object : Out(q)' \subseteq Out(q) \cup Kept
    BY <2>1 DEF Out
  <2>4. \E D \in SUBSET (Object \ free) :
           \A q \in Object : color'[q] = RED <=> color[q] = RED \/ q \in D
    <3>1. {} \in SUBSET (Object \ free)
      OBVIOUS
    <3>2. \A q \in Object : color'[q] = RED <=> color[q] = RED \/ q \in {}
      BY <2>1
    <3> QED
      BY <3>1, <3>2
  <2> QED
    BY <1>t, <2>1, <2>2, <2>3, <2>4, ClientMutates
<1>6. ASSUME NEW t \in Type, RegisterType(t) \/ UnregisterType(t)
      PROVE  UNCHANGED Contract!vars
  <2>1. UNCHANGED <<roots, val, recognised, header, lists, frame>>
    BY <1>6 DEF RegisterType, UnregisterType
  <2> QED
    BY <2>1 DEF Contract!vars, Kept, Scan, RootTargets, Registered, Slot, Out
<1>7. ASSUME NEW m \in {"run", "leaks"}, StartCycle(m)
      PROVE  UNCHANGED Contract!vars
  <2>1. Kept' = Kept
    BY <1>7 DEF StartCycle, Joined, Kept, Scan, IInv, PhaseInv
  <2>2. \A o \in Object : color'[o] = RED <=> color[o] = RED
    BY <1>7 DEF StartCycle, Cleared, WHITE, RED
  <2> QED
    BY <1>7, <1>t, <2>1, <2>2, Stutters DEF StartCycle
<1>8. ASSUME CountDone \/ SkipRoot \/ MarkRoot \/ RemarkRoot \/ RootsDone
      PROVE  UNCHANGED Contract!vars
  <2>1. Kept' = Kept
    BY <1>8 DEF CountDone, SkipRoot, MarkRoot, RemarkRoot, RootsDone, Marking, Kept, Scan
  <2>2. \A o \in Object : color'[o] = RED <=> color[o] = RED
    BY <1>8, <1>t DEF CountDone, SkipRoot, MarkRoot, RemarkRoot, RootsDone, Skipped, TypeOK, GRAY, RED
  <2> QED
    BY <1>8, <1>t, <2>1, <2>2, Stutters DEF CountDone, SkipRoot, MarkRoot, RemarkRoot, RootsDone
<1>9. ASSUME NEW o \in Object, ScanObject(o) \/ ScanWord(o) \/ StrayWord(o)
      PROVE  UNCHANGED Contract!vars
  <2>1. Kept' = Kept
    BY <1>9 DEF ScanObject, ScanWord, StrayWord, Kept, Scan
  <2>2. \A p \in Object : color'[p] = RED <=> color[p] = RED
    <3>1. CASE ScanObject(o)
      BY <3>1, <1>t DEF ScanObject, Blackened, IInv, ColourInv, Scan, TypeOK, BLACK, RED
    <3>2. CASE ScanWord(o)
      BY <3>2, <1>t DEF ScanWord, IInv, PhaseInv, ColourInv, Scan, TypeOK, GRAY, RED
    <3>3. CASE StrayWord(o)
      BY <3>3 DEF StrayWord
    <3> QED
      BY <1>9, <3>1, <3>2, <3>3
  <2> QED
    BY <1>9, <1>t, <2>1, <2>2, Stutters DEF ScanObject, ScanWord, StrayWord
<1>10. ASSUME ScanDone
       PROVE  Contract!Collect
  <2>1. Contract!Reachable = Reachable
    BY <1>t, ReachableAgrees
  <2>2. Kept' = Reachable
    <3>1. scanned = Reachable
      BY <1>10, ScanEndsExact DEF ScanDone
    <3> QED
      BY <1>10, <3>1 DEF ScanDone, EndOfScan, IInv, PhaseInv, Kept, Scan
  <2>3. Reachable \subseteq Kept
    BY <1>t, ReachableIsKept
  <2>4. UNCHANGED <<RootTargets, free, color>> /\ \A o : Out(o)' = Out(o)
    BY <1>10 DEF ScanDone, RootTargets, Registered, Slot, Out
  <2>5. Reachable \cap free = {}
    BY <1>t, <2>3 DEF OnOneList, Kept, Scan
  <2>6. Object \ (free' \cup Kept')
          = (Object \ (free \cup Kept)) \cup (Kept \ Reachable)
    BY <1>t, <2>2, <2>3, <2>4, <2>5 DEF OnOneList, Kept, Scan, TypeOK
  <2>7. Edges' = [o \in Object |-> IF o \in Reachable THEN Edges[o] ELSE {}]
    BY <2>2, <2>3, <2>4
  <2>8. RedOnes' = RedOnes
    BY <2>4
  <2> HIDE DEF Edges, RedOnes
  <2> QED
    BY <2>1, <2>2, <2>4, <2>6, <2>7, <2>8 DEF Contract!Collect, Edges, RedOnes
<1>11. ASSUME NEW o \in Object, SweepObject(o) \/ SweepFreed(o) \/ (FinaliserReturns /\ o = cur)
       PROVE  Contract!Reclaim(o)
  <2>1. o \in from /\ free' = free \cup {o} /\ Kept' = Kept /\ o \notin Kept \cup free
    BY <1>11, <1>t DEF SweepObject, SweepFreed, FinaliserReturns, Reclaim, Kept, Scan, OnOneList,
       IInv, PhaseInv
  <2>2. UNCHANGED <<roots, val, recognised, header>>
    BY <1>11 DEF client, SweepObject, SweepFreed, FinaliserReturns
  <2>3. RootTargets' = RootTargets /\ \A q : Out(q)' = Out(q)
    BY <2>2 DEF RootTargets, Registered, Slot, Out
  <2> QED
    BY <2>1, <2>2, <2>3 DEF Contract!Reclaim
<1>12. ASSUME (\E o \in Object : CallFinaliser(o) \/ DropLeaked(o)) \/ ReportDone \/ SweepDone
       PROVE  UNCHANGED Contract!vars
  <2>1. Kept' = Kept
    BY <1>12 DEF CallFinaliser, DropLeaked, ReportDone, SweepDone, Kept, Scan
  <2> QED
    BY <1>12, <1>t, <2>1, Stutters DEF CallFinaliser, DropLeaked, ReportDone, SweepDone
<1>13. CASE UNCHANGED vars
  BY <1>13 DEF vars, Contract!vars, Kept, Scan, RootTargets, Registered, Slot, Out
<1>14. CASE Client
  BY <1>1, <1>2, <1>3, <1>4, <1>5, <1>6, <1>7, <1>14
     DEF Client, Run, SearchMemoryLeaks, Contract!Next
<1>15. CASE Mark
  BY <1>8, <1>9, <1>10, <1>15 DEF Mark, Contract!Next
<1>16. CASE Sweep
  <2>1. FinaliserReturns => cur \in Object
    BY <1>t DEF FinaliserReturns, IInv, PhaseInv, TypeOK
  <2>2. CASE \E o \in Object : SweepObject(o) \/ SweepFreed(o)
    BY <1>11, <2>2 DEF Contract!Next
  <2>3. CASE FinaliserReturns
    BY <1>11, <2>1, <2>3 DEF Contract!Next
  <2>4. CASE \/ \E o \in Object : CallFinaliser(o) \/ DropLeaked(o)
             \/ ReportDone \/ SweepDone
    BY <1>12, <2>4
  <2> QED
    BY <1>16, <2>2, <2>3, <2>4 DEF Sweep
<1> QED
  BY <1>13, <1>14, <1>15, <1>16 DEF Next

(* The collector, seen as a graph of objects, keeps the promise of         *)
(* SgcContract: every call and every step of a collection is one of its    *)
(* steps, or none.                                                         *)
THEOREM CollectorKeepsContract ==
    ASSUME ZeroFill
    PROVE  Spec => KeepsContract
<1>1. IInv /\ IInv' /\ NoDangling /\ ReachInv /\ [Next]_vars => [Contract!Next]_(Contract!vars)
  BY ZeroFill, StepRefines
<1> QED
  BY <1>1, InitRefines, Invariant, NothingDangles, ReachInvariant, ZeroFill, PTL
     DEF Spec, KeepsContract, Contract!Spec

-----------------------------------------------------------------------------
(* A list operation goes wrong only for an object that two entries of      *)
(* sgc_roots name, when blocks hold no words of their last use.            *)

(* What the loop over the roots has put on 'scan' an earlier entry names.  *)
EntryInv ==
    pc = "roots" => \A o \in Scan : \E j \in Slot :
        j < cursor /\ roots[j] # NULL /\ val[roots[j]] = o

CrashInv == EntryInv /\ CrashNeedsSharedRoot

(* No step but that of an entry whose object an earlier entry names leads  *)
(* to a list operation on an object that is not where the code takes it to *)
(* be.                                                                     *)
LEMMA CrashPreserved ==
    ASSUME ZeroFill, IInv, NoDangling, CrashInv, [Next]_vars
    PROVE  CrashInv'
<1> USE CollectorAssumption DEF CrashInv, Slot, client, header, lists, frame
<1>t. TypeOK
  BY DEF IInv
<1>1. CASE pc' # "crashed" /\ pc' # "roots"
  BY <1>1 DEF EntryInv, CrashNeedsSharedRoot
<1>2. ASSUME NEW m \in {"run", "leaks"}, StartCycle(m)
      PROVE  CrashInv'
  BY <1>2 DEF StartCycle, EntryInv, Scan, CrashNeedsSharedRoot
<1>3. CASE SkipRoot
  BY <1>3, <1>t DEF SkipRoot, Marking, AtEntry, TypeOK, EntryInv, Scan, CrashNeedsSharedRoot
<1>4. CASE MarkRoot
  BY <1>4, <1>t DEF MarkRoot, Marking, AtEntry, Skipped, Target, TypeOK, EntryInv, Scan,
     CrashNeedsSharedRoot
<1>5. CASE RemarkRoot
  <2>1. cursor \in Slot /\ roots[cursor] # NULL /\ Target = val[roots[cursor]] /\ Target \in Object
    BY <1>5, <1>t DEF RemarkRoot, Marking, AtEntry, Skipped, Target, TypeOK
  <2>2. Target \in RootTargets /\ color[Target] # RED
    BY <1>5, <1>t, <2>1 DEF RemarkRoot, Skipped, RootTargets, Registered, TypeOK
  <2>3. Target \in Scan
    BY <1>5, <2>2 DEF RemarkRoot, Marking, NoDangling, RootsAreKept, Kept, IInv, PhaseInv
  <2>4. EarlierEntry
    BY <1>5, <2>3 DEF RemarkRoot, Marking, EntryInv, EarlierEntry
  <2>5. CASE Relinkable
    BY <1>5, <2>5, <1>t DEF RemarkRoot, Marking, EntryInv, Scan, TypeOK, CrashNeedsSharedRoot
  <2>6. CASE ~Relinkable
    BY <1>5, <2>1, <2>4, <2>6, <1>t DEF RemarkRoot, Marking, AtEntry, EntryInv, Target, EarlierEntry,
       CrashNeedsSharedRoot, TypeOK
  <2> QED
    BY <2>5, <2>6
<1>6. ASSUME NEW w \in Object, StrayWord(w)
      PROVE  CrashInv'
  <2>1. cur \in scanned /\ w \in Out(cur) /\ color[w] = WHITE
    BY <1>6 DEF StrayWord, Unmarked, IInv, PhaseInv
  <2>2. w \in Kept
    BY <2>1 DEF NoDangling, WordsAreKept, Kept, Scan, WHITE, RED
  <2>3. w \in from \cup pending
    BY <1>6, <2>1, <2>2 DEF StrayWord, Kept, Scan, IInv, PhaseInv, ColourInv
  <2> QED
    BY <1>6, <2>3 DEF StrayWord
<1>7. CASE Client
  BY <1>1, <1>2, <1>7 DEF Client, ClientRuns, CallsBack, MayAllocate, NewObject, FreeObject,
     ResizeObject, ResizeFails, Store, StoreRoot, Barrier, Root, Unroot, RegisterType, UnregisterType, Run, SearchMemoryLeaks
<1>8. CASE RootsDone \/ ScanDone \/ \E o \in Object : ScanObject(o) \/ ScanWord(o)
  BY <1>1, <1>8 DEF RootsDone, ScanDone, ScanObject, ScanWord
<1>9. CASE Sweep
  BY <1>1, <1>9 DEF Sweep, ReportDone, SweepObject, CallFinaliser, FinaliserReturns, SweepFreed, DropLeaked,
     SweepDone
<1>10. CASE UNCHANGED vars
  BY <1>10 DEF vars, EntryInv, Scan, CrashNeedsSharedRoot, AtEntry, Target, EarlierEntry
<1>11. CASE CountDone
  BY <1>11 DEF CountDone, EntryInv, Scan, CrashNeedsSharedRoot, IInv, PhaseInv
<1> QED
  BY <1>11, <1>3, <1>4, <1>5, <1>6, <1>7, <1>8, <1>9, <1>10 DEF Next, Mark

(* Two entries of sgc_roots with one object are the only way for sgc_mark  *)
(* to unlink an object from a list that it is not on.                      *)
THEOREM SharedRootsCrash ==
    ASSUME ZeroFill
    PROVE  Spec => []CrashNeedsSharedRoot
<1>1. Init => CrashInv
  BY CollectorAssumption DEF Init, CrashInv, EntryInv, Scan, CrashNeedsSharedRoot, Slot
<1>2. IInv /\ NoDangling /\ CrashInv /\ [Next]_vars => CrashInv'
  BY ZeroFill, CrashPreserved
<1>3. CrashInv => CrashNeedsSharedRoot
  BY DEF CrashInv
<1> QED
  BY <1>1, <1>2, <1>3, Invariant, NothingDangles, ZeroFill, PTL DEF Spec
=============================================================================
