-------------------------- MODULE SgcThreadProofs --------------------------
(***************************************************************************)
(* Proofs about SgcThread and SgcThreadList.  The invariant of the first   *)
(* says who holds each mutex at each place of a thread and at each stage   *)
(* of the collector; that of the second, which cells are a list, and where *)
(* on it the collector and those who search it are.                        *)
(***************************************************************************)
EXTENDS SgcThreadList, SgcWalks

Scanning == {"next", "sync", "scan", "unsync", "stack"}

(* Where a thread holds its scan mutex, and where the collector does.      *)
ScanMutexInv ==
    /\ \A t \in Thread : pc[t] \in {"top", "run", "detach", "leave"} => scanMutex[t] = t
    /\ \A t \in Thread : scanMutex[t] = GC => th = t /\ gc \in {"unsync", "stack"}
    /\ gc \in {"unsync", "stack"} => scanMutex[th] = GC

SyncMutexInv ==
    /\ \A t \in Thread : syncMutex[t] = GC => th = t /\ gc \in {"scan", "unsync"}
    /\ \A t \in Thread : syncMutex[t] = NULL \/ syncMutex[t] = GC
                         \/ (syncMutex[t] = t /\ pc[t] = "signal")

(* sgc_threads_mutex is held while the list is changed, and all the way    *)
(* along it.                                                               *)
ThreadsMutexInv ==
    /\ \A t \in Thread : pc[t] \in {"enter", "leave", "left"} => threadsMutex = t
    /\ gc \in Scanning => threadsMutex = GC

ListInv ==
    /\ \A t \in Thread : t \in attached <=>
          pc[t] \notin {"out", "attach", "enter", "left", "stop", "join", "done"}
    /\ todo \subseteq attached
    /\ gc \notin Scanning => todo = {}
    /\ gc \notin {"sync", "scan", "unsync", "stack"} => th = NULL

StackInv ==
    \A t \in Thread :
        /\ t \in attached /\ pc[t] # "top" => top[t]
        /\ pc[t] \in {"sync", "signal", "resume", "away"} => bottom[t] = "current"

IInv == TypeOK /\ ScanMutexInv /\ SyncMutexInv /\ ThreadsMutexInv /\ ListInv /\ StackInv

(* Every step of a thread and of the collector preserves the invariant.    *)
LEMMA InvPreserved ==
    ASSUME IInv, [Next]_vars
    PROVE  IInv'
<1> USE ThreadAssumption DEF IInv, TypeOK, ScanMutexInv, SyncMutexInv, ThreadsMutexInv, ListInv,
        StackInv, Scanning, Goto, Place, Stage, Owner
<1>1. ASSUME NEW t \in Thread, LockThreads(t)
      PROVE  IInv'
  BY <1>1 DEF LockThreads
<1>2. ASSUME NEW t \in Thread, Enter(t)
      PROVE  IInv'
  BY <1>2 DEF Enter
<1>3. ASSUME NEW t \in Thread, SetTop(t)
      PROVE  IInv'
  BY <1>3 DEF SetTop
<1>4. ASSUME NEW t \in Thread, SyncLock(t)
      PROVE  IInv'
  BY <1>4 DEF SyncLock
<1>5. ASSUME NEW t \in Thread, SyncUnlock(t)
      PROVE  IInv'
  BY <1>5 DEF SyncUnlock
<1>6. ASSUME NEW t \in Thread, SyncReturn(t)
      PROVE  IInv'
  BY <1>6 DEF SyncReturn, Resume
<1>7. ASSUME NEW t \in Thread, Lock(t)
      PROVE  IInv'
  BY <1>7 DEF Lock, Resume
<1>8. ASSUME NEW t \in Thread, DetachLock(t)
      PROVE  IInv'
  BY <1>8 DEF DetachLock
<1>9. ASSUME NEW t \in Thread, Leave(t)
      PROVE  IInv'
  BY <1>9 DEF Leave
<1>10. ASSUME NEW t \in Thread, DetachUnlock(t)
       PROVE  IInv'
  BY <1>10 DEF DetachUnlock
<1>11. ASSUME NEW t \in Thread, Attach(t)
       PROVE  IInv'
  BY <1>11 DEF Attach
<1>12. ASSUME NEW t \in Thread, Sync(t)
       PROVE  IInv'
  BY <1>12 DEF Sync, LetGo
<1>13. ASSUME NEW t \in Thread, Unlock(t)
       PROVE  IInv'
  BY <1>13 DEF Unlock, LetGo
<1>14. ASSUME NEW t \in Thread, Detach(t)
       PROVE  IInv'
  BY <1>14 DEF Detach
<1>15. CASE Stop
  <2>1. /\ pc[Main] = "stop" /\ pc' = [pc EXCEPT ![Main] = "join"]
        /\ UNCHANGED <<attached, threadsMutex, scanMutex, syncMutex, top, bottom, gc, todo, th>>
    BY <1>15 DEF Stop
  <2>2. continue' \in BOOLEAN
    BY <1>15, Zenon DEF Stop
  <2>3. Main \in Thread /\ Main \notin attached
    BY <2>1
  <2>4. TypeOK'
    BY <2>1, <2>2, <2>3
  <2>5. StackInv'
    BY <2>1, <2>3
  <2>6. ScanMutexInv' /\ SyncMutexInv' /\ ThreadsMutexInv'
    BY <2>1, <2>3
  <2>7. ListInv'
    BY <2>1, <2>3
  <2> QED
    BY <2>4, <2>5, <2>6, <2>7
<1>16. CASE Join
  BY <1>16 DEF Join
<1>17. CASE GcCycle
  BY <1>17 DEF GcCycle
<1>18. CASE GcLockThreads
  BY <1>18 DEF GcLockThreads
<1>19. ASSUME NEW t \in Thread, GcTake(t)
       PROVE  IInv'
  BY <1>19 DEF GcTake
<1>20. CASE GcUnlockThreads
  BY <1>20 DEF GcUnlockThreads
<1>21. CASE GcLockSync
  BY <1>21 DEF GcLockSync
<1>22. CASE GcLockScan
  BY <1>22 DEF GcLockScan
<1>23. CASE GcUnlockSync
  BY <1>23 DEF GcUnlockSync
<1>24. CASE GcStackDone
  BY <1>24 DEF GcStackDone
<1>25. CASE GcCycleDone
  BY <1>25 DEF GcCycleDone
<1>26. CASE UNCHANGED vars
  BY <1>26 DEF vars
<1> HIDE DEF IInv
<1> QED
  BY <1>1, <1>2, <1>3, <1>4, <1>5, <1>6, <1>7, <1>8, <1>9, <1>10, <1>11, <1>12, <1>13,
     <1>14, <1>15, <1>16, <1>17, <1>18, <1>19, <1>20, <1>21, <1>22, <1>23, <1>24, <1>25,
     <1>26
     DEF Next, Library, Call, Cleanup, Collector

(* So it holds in every state of the specification.                        *)
LEMMA Invariant == Spec => []IInv
<1>1. Init => IInv
  <2> SUFFICES ASSUME Init
               PROVE  IInv
    OBVIOUS
  <2> USE ThreadAssumption DEF Init
  <2>1. TypeOK
    BY DEF TypeOK, Place, Stage, Owner
  <2>2. ScanMutexInv /\ SyncMutexInv
    BY DEF ScanMutexInv, SyncMutexInv
  <2>3. ThreadsMutexInv /\ ListInv
    BY DEF ThreadsMutexInv, ListInv, Scanning
  <2>4. StackInv
    BY DEF StackInv
  <2> QED
    BY <2>1, <2>2, <2>3, <2>4 DEF IInv
<1> QED
  BY <1>1, InvPreserved, PTL DEF Spec

(* Every variable keeps its type.                                          *)
THEOREM TypeCorrect == Spec => []TypeOK
<1>1. IInv => TypeOK
  BY DEF IInv
<1> QED
  BY <1>1, Invariant, PTL

(* The collector reads the stack of a thread that stands still, with       *)
(* stack_top and stack_bottom set, however many threads attach, leave and  *)
(* synchronise.                                                            *)
THEOREM StacksStandStill == Spec => []StackStandsStill
<1>1. IInv => StackStandsStill
  <2> SUFFICES ASSUME IInv, gc = "stack"
               PROVE  /\ pc[th] \in {"sync", "signal", "resume", "away"}
                      /\ top[th] /\ bottom[th] = "current"
    BY DEF StackStandsStill
  <2>1. th \in attached /\ th \in Thread
    BY DEF IInv, TypeOK
  <2>2. scanMutex[th] = GC
    BY DEF IInv, ScanMutexInv
  <2>3. pc[th] \notin {"top", "run", "detach", "leave"}
    BY <2>1, <2>2, ThreadAssumption DEF IInv, ScanMutexInv
  <2>4. pc[th] \in {"sync", "signal", "resume", "away"}
    BY <2>1, <2>3 DEF IInv, ListInv, TypeOK, Place
  <2> QED
    BY <2>1, <2>4 DEF IInv, StackInv
<1> QED
  BY <1>1, Invariant, PTL

(* A thread destroys its mutexes where the collector does not meet them.   *)
THEOREM ThreadsLeaveUnseen == Spec => []LeavesUnseen
<1>1. IInv => LeavesUnseen
  <2> SUFFICES ASSUME IInv, NEW t \in Thread, pc[t] = "leave"
               PROVE  /\ syncMutex[t] = NULL /\ scanMutex[t] = t
                      /\ th # t /\ t \notin todo
    BY DEF LeavesUnseen
  <2>1. gc \notin Scanning
    BY ThreadAssumption DEF IInv, ThreadsMutexInv
  <2>2. th = NULL /\ todo = {}
    BY <2>1 DEF IInv, ListInv, Scanning
  <2> QED
    BY <2>1, <2>2, ThreadAssumption DEF IInv, ScanMutexInv, SyncMutexInv, Scanning
<1> QED
  BY <1>1, Invariant, PTL

(* The list does not change while the collector goes along it.             *)
THEOREM ListIsStable == Spec => ListStandsStill
<1>1. IInv /\ [Next]_vars => [(gc \in Scanning) => attached' = attached]_vars
  <2> SUFFICES ASSUME IInv, [Next]_vars, gc \in Scanning
               PROVE  attached' = attached
    OBVIOUS
  <2>1. \A t \in Thread : pc[t] \notin {"enter", "leave"}
    BY ThreadAssumption DEF IInv, ThreadsMutexInv
  <2> QED
    BY <2>1 DEF Next, Library, Call, Cleanup, Collector, vars, LockThreads, Enter, SetTop, SyncLock,
       SyncUnlock, SyncReturn, Lock, DetachLock, Leave, DetachUnlock, Attach, Sync, Unlock, Detach,
       Stop, Join, GcCycle, GcLockThreads, GcTake, GcUnlockThreads, GcLockSync, GcLockScan,
       GcUnlockSync, GcStackDone, GcCycleDone
<1> QED
  BY <1>1, Invariant, PTL DEF Spec, ListStandsStill, Scanning
-----------------------------------------------------------------------------
(***************************************************************************)
(* The list of SgcThreadList.                                              *)
(***************************************************************************)

(* A step on the cells is a step of the handshake or leaves it alone, so   *)
(* that all that is proved above holds with the list as well.              *)
THEOREM ListKeepsHandshake == ListSpec => Spec
<1>1. ListInit => Init
  BY DEF ListInit
<1>2. [ListNext]_listVars => [Next]_vars
  BY DEF ListNext, ListLibrary, ListCall, ListCleanup, ListRemoval, ListCollector, EnterList,
     LeaveList, ClearLink, FreeCell, StoreHead, Find, LookAtData, FollowLink, SyncFound,
     UnlockFound, LockFound, NotFound, GcLockList, GcTakeCell, Next, Library, Call, Cleanup,
     Collector, listVars
<1> QED
  BY <1>1, <1>2, PTL DEF ListSpec, Spec

(* The cell that the list begins with, once a removal that is under way    *)
(* has stored it.                                                          *)
First == IF cut = "no" THEN head ELSE list

(* s[1], ..., s[n] are the cells of the list.                              *)
CellsInv(s, n) ==
    /\ Chain(s, n, First, next, NULL)
    /\ \A i, j \in 1..n : data[s[i]] = data[s[j]] => i = j
    /\ attached = {data[s[i]] : i \in 1..n}
    /\ used = {s[i] : i \in 1..n} \cup IF cut \in {"unlinked", "cleared"} THEN {tmp} ELSE {}

(* A removal belongs to a thread that has the mutex.                       *)
RemovalInv(s, n) ==
    cut # "no" =>
       /\ tmp \in Cell /\ \A i \in 1..n : s[i] # tmp
       /\ \E t \in Thread : threadsMutex = t /\ pc[t] = "left"

(* What the collector has not come to is the rest of the list.             *)
ScanInv(s, n) ==
    IF gc \in Scanning
    THEN \E k \in 1..(n+1) : /\ gcAt = IF k = n + 1 THEN NULL ELSE s[k]
                             /\ todo = {data[s[i]] : i \in k..n}
    ELSE gcAt = NULL

(* A thread that no one disturbed has its record ahead of it.              *)
Ahead(t, s, n) ==
    \E j, i \in 1..n : /\ at[t] = s[j] /\ data[s[i]] = t
                       /\ j <= i /\ (find[t] = "link" => j < i)

SearchInv(s, n) ==
    \A t \in Thread :
       /\ find[t] # "no" => pc[t] \in {"run", "away"}
       /\ Searching(t) => at[t] \in Cell
       /\ find[t] = "none" => disturbed[t]
       /\ Searching(t) /\ ~disturbed[t] => cut = "no" /\ Ahead(t, s, n)

Listed(s, n) == CellsInv(s, n) /\ RemovalInv(s, n) /\ ScanInv(s, n) /\ SearchInv(s, n)

LInv == ListTypeOK /\ \E n \in Nat, s \in [Nat -> Cell] : Listed(s, n)

(* Going along the links from a cell of the list meets the cells behind.   *)
LEMMA FromChain ==
    ASSUME NEW n \in Nat, NEW s \in [Nat -> Cell], NEW a, Chain(s, n, a, next, NULL),
           \A i, j \in 1..n : s[i] = s[j] => i = j
    PROVE  From(a) = {s[i] : i \in 1..n}
<1> DEFINE k == Cardinality(Cell)
<1>1. k \in Nat /\ n <= k
  <2>1. \A i \in 1..n : s[i] \in Cell
    OBVIOUS
  <2> QED
    BY <2>1, ChainIsShort, CellAssumption
<1>2. Steps(Along(a), k, a, next, NULL)
  <2>1. PICK f : Steps(f, k, a, next, NULL)
    BY <1>1, StepsExist
  <2> QED
    BY <2>1 DEF Steps, Along
<1>3. \A i \in 0..k : Along(a)[i] = IF i < n THEN s[i+1] ELSE NULL
  BY <1>1, <1>2, StepsAlongChain
<1>4. ASSUME NEW i \in 0..k, Along(a)[i] # NULL
      PROVE  Along(a)[i] \in {s[j] : j \in 1..n}
  BY <1>1, <1>3, <1>4
<1>5. ASSUME NEW j \in 1..n
      PROVE  s[j] \in From(a)
  <2>1. j - 1 \in 0..k /\ Along(a)[j-1] = s[j] /\ s[j] # NULL
    BY <1>1, <1>3, CellAssumption
  <2> QED
    BY <2>1 DEF From
<1> QED
  BY <1>4, <1>5 DEF From

LEMMA FromRest ==
    ASSUME NEW n \in Nat, NEW s \in [Nat -> Cell], NEW a, Chain(s, n, a, next, NULL),
           \A i, j \in 1..n : s[i] = s[j] => i = j, NEW k \in 1..(n+1)
    PROVE  From(IF k = n + 1 THEN NULL ELSE s[k]) = {s[i] : i \in k..n}
<1> DEFINE r == [i \in Nat |-> s[i + k - 1]]
           m == n + 1 - k
           b == IF k = n + 1 THEN NULL ELSE s[k]
<1>1. m \in Nat /\ r \in [Nat -> Cell] /\ \A i \in 1..m : r[i] = s[i + k - 1]
  OBVIOUS
<1>2. Chain(r, m, b, next, NULL)
  BY <1>1 DEF Chain
<1>3. \A i, j \in 1..m : r[i] = r[j] => i = j
  BY <1>1
<1> HIDE DEF r, m, b
<1>4. From(b) = {r[i] : i \in 1..m}
  BY <1>1, <1>2, <1>3, FromChain
<1>5. {r[i] : i \in 1..m} = {s[i] : i \in k..n}
  <2>1. ASSUME NEW i \in k..n
        PROVE  \E j \in 1..m : r[j] = s[i]
    <3>1. i - k + 1 \in 1..m /\ r[i - k + 1] = s[i]
      BY <1>1 DEF m
    <3> QED
      BY <3>1
  <2>2. ASSUME NEW j \in 1..m
        PROVE  \E i \in k..n : r[j] = s[i]
    <3>1. j + k - 1 \in k..n /\ r[j] = s[j + k - 1]
      BY <1>1 DEF m
    <3> QED
      BY <3>1
  <2> QED
    BY <2>1, <2>2
<1> QED
  BY <1>4, <1>5 DEF b
-----------------------------------------------------------------------------
(* The steps that change cells.                                            *)

(* The cells of the list are distinct, and Append and Unlink see them.     *)
LEMMA ListSeen ==
    ASSUME ListTypeOK, NEW n \in Nat, NEW s \in [Nat -> Cell], CellsInv(s, n), cut = "no"
    PROVE  /\ From(head) = {s[i] : i \in 1..n}
           /\ \A i, j \in 1..n : s[i] = s[j] => i = j
           /\ used = {s[i] : i \in 1..n}
           /\ \A i \in 1..n : next[s[i]] = IF i = n THEN NULL ELSE s[i+1]
           /\ head = IF n = 0 THEN NULL ELSE s[1]
<1>1. \A i, j \in 1..n : s[i] = s[j] => i = j
  BY DEF CellsInv
<1>2. Chain(s, n, head, next, NULL)
  BY DEF CellsInv, First
<1>3. From(head) = {s[i] : i \in 1..n}
  BY <1>1, <1>2, FromChain
<1> QED
  BY <1>1, <1>2, <1>3 DEF CellsInv, Chain

(* A new cell goes to the end.                                             *)
LEMMA EnterKeeps ==
    ASSUME IInv, LInv, NEW t \in Thread, EnterList(t)
    PROVE  LInv'
<1> USE CellAssumption, ThreadAssumption
<1>1. PICK n \in Nat, s \in [Nat -> Cell] : Listed(s, n)
  BY DEF LInv
<1>2. /\ pc[t] = "enter" /\ attached' = attached \cup {t} /\ pc' = [pc EXCEPT ![t] = "top"]
      /\ threadsMutex' = NULL /\ gc' = gc /\ todo' = todo
      /\ UNCHANGED <<remove, gcAt, search, broken>>
  BY DEF EnterList, Enter, Goto
<1>3. threadsMutex = t /\ t \notin attached /\ gc \notin Scanning
  BY <1>2 DEF IInv, ThreadsMutexInv, ListInv, TypeOK
<1>4. cut = "no" /\ cut' = "no"
  BY <1>1, <1>2, <1>3 DEF Listed, RemovalInv, remove
<1>5. ListTypeOK
  BY DEF LInv
<1>6. PICK c \in Cell \ used :
         /\ used' = used \cup {c} /\ data' = [data EXCEPT ![c] = t]
         /\ head' = IF head = NULL THEN c ELSE head
         /\ next' = [l \in Cell |-> IF l = c THEN NULL
                                    ELSE IF l \in From(head) /\ next[l] = NULL THEN c
                                    ELSE next[l]]
  BY DEF EnterList, Append
<1>7. /\ From(head) = {s[i] : i \in 1..n} /\ used = {s[i] : i \in 1..n}
      /\ \A i, j \in 1..n : s[i] = s[j] => i = j
      /\ \A i \in 1..n : next[s[i]] = IF i = n THEN NULL ELSE s[i+1]
      /\ head = IF n = 0 THEN NULL ELSE s[1]
  BY <1>1, <1>4, <1>5, ListSeen DEF Listed
<1> DEFINE r == [s EXCEPT ![n+1] = c]
<1>8. /\ r \in [Nat -> Cell] /\ r[n+1] = c
      /\ \A i \in 1..n : r[i] = s[i] /\ s[i] # c /\ s[i] \in Cell
  BY <1>6, <1>7
<1> HIDE DEF r
<1>9. CellsInv(r, n + 1)'
  <2>1. Chain(r, n + 1, First, next, NULL)'
    <3>1. First' = r[1]
      BY <1>2, <1>4, <1>6, <1>7, <1>8 DEF First
    <3>2. ASSUME NEW i \in 1..(n+1)
          PROVE  r[i] # NULL /\ next'[r[i]] = IF i = n + 1 THEN NULL ELSE r[i+1]
      <4>1. CASE i = n + 1
        BY <1>6, <1>8, <4>1
      <4>2. CASE i # n + 1
        <5>1. i \in 1..n /\ r[i] = s[i] /\ s[i] \in From(head) /\ s[i] # c /\ s[i] \in Cell
          BY <1>7, <1>8, <4>2
        <5>2. i # n => next[s[i]] = s[i+1] /\ s[i+1] # NULL /\ r[i+1] = s[i+1]
          BY <1>7, <1>8, <5>1
        <5> QED
          BY <1>6, <1>7, <1>8, <5>1, <5>2
      <4> QED
        BY <4>1, <4>2
    <3> QED
      BY <3>1, <3>2 DEF Chain
  <2>2. \A i \in 1..n : data'[r[i]] = data[s[i]] /\ data[s[i]] # t
    BY <1>1, <1>3, <1>5, <1>6, <1>8 DEF Listed, CellsInv, ListTypeOK
  <2>3. data'[r[n+1]] = t
    BY <1>5, <1>6, <1>8 DEF ListTypeOK
  <2>4. \A i, j \in 1..(n+1) : data'[r[i]] = data'[r[j]] => i = j
    BY <1>1, <2>2, <2>3 DEF Listed, CellsInv
  <2>5. attached' = {data'[r[i]] : i \in 1..(n+1)}
    BY <1>1, <1>2, <2>2, <2>3 DEF Listed, CellsInv
  <2>6. used' = {r[i] : i \in 1..(n+1)}
    BY <1>6, <1>7, <1>8
  <2> QED
    BY <1>4, <2>1, <2>4, <2>5, <2>6 DEF CellsInv
<1>10. RemovalInv(r, n + 1)'
  BY <1>4 DEF RemovalInv
<1>11. ScanInv(r, n + 1)'
  BY <1>1, <1>2, <1>3 DEF Listed, ScanInv
<1>12. SearchInv(r, n + 1)'
  <2> SUFFICES ASSUME NEW u \in Thread
               PROVE  /\ find'[u] # "no" => pc'[u] \in {"run", "away"}
                      /\ Searching(u)' => at'[u] \in Cell
                      /\ find'[u] = "none" => disturbed'[u]
                      /\ Searching(u)' /\ ~disturbed'[u] => cut' = "no" /\ Ahead(u, r, n + 1)'
    BY DEF SearchInv
  <2>1. find' = find /\ at' = at /\ disturbed' = disturbed /\ (Searching(u)' <=> Searching(u))
    BY <1>2 DEF search, Searching
  <2>2. find[u] # "no" => u # t
    BY <1>1, <1>2 DEF Listed, SearchInv
  <2>3. pc'[u] = IF u = t THEN "top" ELSE pc[u]
    BY <1>2 DEF IInv, TypeOK
  <2>4. Ahead(u, s, n) => Ahead(u, r, n + 1)'
    <3> SUFFICES ASSUME NEW j \in 1..n, NEW i \in 1..n, at[u] = s[j], data[s[i]] = u,
                        j <= i, find[u] = "link" => j < i
                 PROVE  Ahead(u, r, n + 1)'
      BY DEF Ahead
    <3>1. j \in 1..(n+1) /\ i \in 1..(n+1) /\ r[j] = s[j] /\ r[i] = s[i] /\ s[i] # c
      BY <1>8
    <3>2. data'[r[i]] = u
      BY <1>5, <1>6, <1>8, <3>1 DEF ListTypeOK
    <3> QED
      BY <2>1, <3>1, <3>2 DEF Ahead
  <2> QED
    BY <1>1, <1>4, <2>1, <2>2, <2>3, <2>4 DEF Listed, SearchInv
<1>13. ListTypeOK'
  BY <1>2, <1>4, <1>5, <1>6 DEF ListTypeOK, remove, search, Link
<1> QED
  BY <1>8, <1>9, <1>10, <1>11, <1>12, <1>13 DEF LInv, Listed

(* The cell of the thread that leaves is taken out.                        *)
LEMMA LeaveKeeps ==
    ASSUME IInv, LInv, NEW t \in Thread, LeaveList(t)
    PROVE  LInv'
<1> USE CellAssumption, ThreadAssumption
<1>1. PICK n \in Nat, s \in [Nat -> Cell] : Listed(s, n)
  BY DEF LInv
<1>2. /\ pc[t] = "leave" /\ attached' = attached \ {t} /\ pc' = [pc EXCEPT ![t] = "left"]
      /\ threadsMutex' = threadsMutex /\ gc' = gc /\ todo' = todo
      /\ cut' = "unlinked" /\ UNCHANGED <<head, data, used, gcAt, find, at, broken>>
      /\ disturbed' = [u \in Thread |-> disturbed[u] \/ Searching(u)]
  BY DEF LeaveList, Leave, Goto
<1>3. threadsMutex = t /\ gc \notin Scanning
  BY <1>2 DEF IInv, ThreadsMutexInv
<1>4. cut = "no"
  BY <1>1, <1>2, <1>3 DEF Listed, RemovalInv
<1>5. ListTypeOK
  BY DEF LInv
<1>6. /\ From(head) = {s[i] : i \in 1..n} /\ used = {s[i] : i \in 1..n}
      /\ \A i, j \in 1..n : s[i] = s[j] => i = j
      /\ \A i \in 1..n : next[s[i]] = IF i = n THEN NULL ELSE s[i+1]
      /\ head = IF n = 0 THEN NULL ELSE s[1]
  BY <1>1, <1>4, <1>5, ListSeen DEF Listed
<1>7. PICK c \in From(head) : /\ data[c] = t /\ Unlink(c) /\ tmp' = c
                              /\ list' = IF head = c THEN next[c] ELSE head
  BY DEF LeaveList
<1>8. PICK k \in 1..n : c = s[k]
  BY <1>6
<1>9. next' = [p \in Cell |-> IF p \in From(head) /\ next[p] = s[k] THEN next[s[k]] ELSE next[p]]
  BY <1>7, <1>8 DEF Unlink
<1> DEFINE r == [i \in Nat |-> IF i < k THEN s[i] ELSE s[i+1]]
           m == n - 1
<1>10. /\ r \in [Nat -> Cell] /\ m \in Nat
       /\ \A i \in 1..m : r[i] = s[IF i < k THEN i ELSE i + 1]
  OBVIOUS
<1> HIDE DEF r
<1>11. ASSUME NEW i \in 1..n
       PROVE  next'[s[i]] = IF i = k - 1 THEN next[s[k]] ELSE next[s[i]]
  <2>1. s[i] \in Cell /\ s[i] \in From(head)
    BY <1>6
  <2>2. next[s[i]] = s[k] <=> i = k - 1
    BY <1>6, <1>8
  <2> QED
    BY <1>9, <2>1, <2>2
<1>12. CellsInv(r, m)'
  <2>1. First' = IF m = 0 THEN NULL ELSE r[1]
    <3>1. First' = list'
      BY <1>2 DEF First
    <3>2. head = s[1] /\ (head = s[k] <=> k = 1)
      BY <1>6, <1>8
    <3>3. CASE k = 1
      BY <1>6, <1>7, <1>8, <1>10, <3>1, <3>2, <3>3
    <3>4. CASE k # 1
      BY <1>6, <1>7, <1>8, <1>10, <3>1, <3>2, <3>4
    <3> QED
      BY <3>3, <3>4
  <2>2. ASSUME NEW i \in 1..m
        PROVE  r[i] # NULL /\ next'[r[i]] = IF i = m THEN NULL ELSE r[i+1]
    <3>1. CASE i < k - 1
      <4>1. i \in 1..n /\ r[i] = s[i] /\ i + 1 \in 1..m /\ r[i+1] = s[i+1] /\ i # n /\ i # m
        BY <1>10, <3>1
      <4> QED
        BY <1>6, <1>11, <3>1, <4>1
    <3>2. CASE i = k - 1
      <4>1. i \in 1..n /\ r[i] = s[i] /\ next'[s[i]] = next[s[k]]
        BY <1>10, <1>11, <3>2
      <4>2. i # m => i + 1 \in 1..m /\ r[i+1] = s[i+2] /\ k # n /\ k + 1 = i + 2
        BY <1>10, <3>2
      <4>3. i = m => k = n
        BY <3>2
      <4> QED
        BY <1>6, <4>1, <4>2, <4>3
    <3>3. CASE i >= k
      <4>1. i + 1 \in 1..n /\ r[i] = s[i+1] /\ next'[s[i+1]] = next[s[i+1]]
        BY <1>10, <1>11, <3>3
      <4>2. i # m => i + 1 \in 1..m /\ r[i+1] = s[i+2] /\ i + 1 # n
        BY <1>10, <3>3
      <4>3. i = m => i + 1 = n
        OBVIOUS
      <4> QED
        BY <1>6, <4>1, <4>2, <4>3
    <3> QED
      BY <3>1, <3>2, <3>3
  <2>3. Chain(r, m, First, next, NULL)'
    BY <2>1, <2>2 DEF Chain
  <2>4. \A i, j \in 1..m : data'[r[i]] = data'[r[j]] => i = j
    <3> SUFFICES ASSUME NEW i \in 1..m, NEW j \in 1..m, data[r[i]] = data[r[j]]
                 PROVE  i = j
      BY <1>2
    <3> DEFINE i1 == IF i < k THEN i ELSE i + 1
               j1 == IF j < k THEN j ELSE j + 1
    <3>1. i1 \in 1..n /\ j1 \in 1..n /\ data[s[i1]] = data[s[j1]]
      BY <1>10
    <3>2. i1 = j1
      BY <1>1, <3>1 DEF Listed, CellsInv
    <3> QED
      BY <3>2
  <2>5. ASSUME NEW i \in 1..n, i # k
        PROVE  \E j \in 1..m : r[j] = s[i]
    <3> DEFINE j == IF i < k THEN i ELSE i - 1
    <3>1. j \in 1..m /\ r[j] = s[i]
      BY <1>10, <2>5
    <3> QED
      BY <3>1
  <2>6. \A j \in 1..m : \E i \in 1..n : i # k /\ r[j] = s[i]
    <3> SUFFICES ASSUME NEW j \in 1..m
                 PROVE  \E i \in 1..n : i # k /\ r[j] = s[i]
      OBVIOUS
    <3> DEFINE i == IF j < k THEN j ELSE j + 1
    <3>1. i \in 1..n /\ i # k /\ r[j] = s[i]
      BY <1>10
    <3> QED
      BY <3>1
  <2>7. attached' = {data'[r[i]] : i \in 1..m}
    <3>1. attached = {data[s[i]] : i \in 1..n} /\ data[s[k]] = t
          /\ \A i \in 1..n : data[s[i]] = t => i = k
      BY <1>1, <1>7, <1>8 DEF Listed, CellsInv
    <3> QED
      BY <1>2, <2>5, <2>6, <3>1
  <2>8. used' = {r[i] : i \in 1..m} \cup {tmp'}
    <3>1. tmp' = s[k] /\ used' = {s[i] : i \in 1..n}
      BY <1>2, <1>6, <1>7, <1>8
    <3>2. ASSUME NEW i \in 1..n
          PROVE  s[i] \in {r[j] : j \in 1..m} \cup {tmp'}
      BY <2>5, <3>1
    <3>3. \A j \in 1..m : r[j] \in used'
      BY <2>6, <3>1
    <3> QED
      BY <3>1, <3>2, <3>3
  <2> QED
    BY <1>2, <2>3, <2>4, <2>7, <2>8 DEF CellsInv
<1>13. RemovalInv(r, m)'
  <2>1. \A i \in 1..m : r[i] # tmp'
    BY <1>6, <1>7, <1>8, <1>10
  <2>2. threadsMutex' = t /\ pc'[t] = "left"
    BY <1>2, <1>3 DEF IInv, TypeOK
  <2> QED
    BY <1>7, <1>8, <2>1, <2>2 DEF RemovalInv
<1>14. ScanInv(r, m)'
  BY <1>1, <1>2, <1>3 DEF Listed, ScanInv
<1>15. SearchInv(r, m)'
  <2>1. \A u \in Thread : pc'[u] = IF u = t THEN "left" ELSE pc[u]
    BY <1>2 DEF IInv, TypeOK
  <2>2. \A u \in Thread : Searching(u)' => disturbed'[u]
    BY <1>2 DEF Searching
  <2> QED
    BY <1>1, <1>2, <2>1, <2>2 DEF Listed, SearchInv, Searching
<1>16. ListTypeOK'
  <2>1. next' \in [Cell -> Link]
    BY <1>5, <1>9 DEF ListTypeOK, Link
  <2>2. list' \in Link /\ tmp' \in Link /\ tmp' \in Cell
    BY <1>5, <1>7, <1>8 DEF ListTypeOK, Link
  <2> QED
    BY <1>2, <1>3, <1>5, <2>1, <2>2 DEF ListTypeOK, Removal
<1> QED
  BY <1>10, <1>12, <1>13, <1>14, <1>15, <1>16 DEF LInv, Listed

(* The stores of a removal do not touch the list that it returns.          *)
LEMMA RemovalKeeps ==
    ASSUME IInv, LInv, ListRemoval
    PROVE  LInv'
<1> USE CellAssumption, ThreadAssumption
<1>1. PICK n \in Nat, s \in [Nat -> Cell] : Listed(s, n)
  BY DEF LInv
<1>2. UNCHANGED vars /\ UNCHANGED <<data, gcAt, search, broken>>
  BY DEF ListRemoval, ClearLink, FreeCell, StoreHead
<1>3. ListTypeOK
  BY DEF LInv
<1>4. cut # "no"
  BY DEF ListRemoval, ClearLink, FreeCell, StoreHead
<1>5. tmp \in Cell /\ \A i \in 1..n : s[i] # tmp /\ s[i] \in Cell
  BY <1>1, <1>4 DEF Listed, RemovalInv
<1>6. First' = First
  BY DEF ListRemoval, ClearLink, FreeCell, StoreHead, First
<1>7. \A i \in 1..n : next'[s[i]] = next[s[i]]
  BY <1>3, <1>5 DEF ListRemoval, ClearLink, FreeCell, StoreHead, ListTypeOK
<1>8. used' = {s[i] : i \in 1..n} \cup IF cut' \in {"unlinked", "cleared"} THEN {tmp'} ELSE {}
  BY <1>1, <1>5 DEF Listed, CellsInv, ListRemoval, ClearLink, FreeCell, StoreHead
<1>9. cut' # "no" => tmp' = tmp
  BY DEF ListRemoval, ClearLink, FreeCell, StoreHead
<1>10. CellsInv(s, n)'
  BY <1>1, <1>2, <1>6, <1>7, <1>8 DEF Listed, CellsInv, Chain, vars
<1>11. RemovalInv(s, n)'
  BY <1>1, <1>2, <1>4, <1>9 DEF Listed, RemovalInv, vars
<1>12. ScanInv(s, n)'
  BY <1>1, <1>2 DEF Listed, ScanInv, vars
<1>13. SearchInv(s, n)'
  BY <1>1, <1>2, <1>4 DEF Listed, SearchInv, vars, search, Searching
<1>14. ListTypeOK'
  BY <1>2, <1>3, <1>5, <1>9
     DEF ListTypeOK, ListRemoval, ClearLink, FreeCell, StoreHead, vars, search, Removal, Link
<1> QED
  BY <1>10, <1>11, <1>12, <1>13, <1>14 DEF LInv, Listed
-----------------------------------------------------------------------------
(* The steps that only read the cells.                                     *)

(* Those of the handshake that SgcThreadList takes over as they are.       *)
ApartStep ==
    /\ Apart
    /\ \/ \E t \in Thread : \/ LockThreads(t) \/ SetTop(t) \/ SyncLock(t) \/ SyncUnlock(t)
                            \/ SyncReturn(t) \/ DetachLock(t) \/ Attach(t)
                            \/ RemovalDone /\ DetachUnlock(t)
                            \/ find[t] = "no" /\ Detach(t)
       \/ Stop \/ Join \/ GcCycle
       \/ gcAt = NULL /\ GcUnlockThreads
       \/ GcLockSync \/ GcLockScan \/ GcUnlockSync \/ GcStackDone \/ GcCycleDone

LEMMA ApartKeeps ==
    ASSUME IInv, LInv, ApartStep
    PROVE  LInv'
<1> USE CellAssumption, ThreadAssumption
<1>1. PICK n \in Nat, s \in [Nat -> Cell] : Listed(s, n)
  BY DEF LInv
<1>2. /\ UNCHANGED <<head, next, data, used, cut, tmp, list, gcAt, find, at, disturbed, broken>>
      /\ attached' = attached /\ todo' = todo
  BY DEF ApartStep, Apart, cells, remove, search, LockThreads, SetTop, SyncLock, SyncUnlock,
     SyncReturn, DetachLock, Attach, DetachUnlock, Detach, Stop, Join, GcCycle, GcUnlockThreads,
     GcLockSync, GcLockScan, GcUnlockSync, GcStackDone, GcCycleDone
<1>3. CellsInv(s, n)'
  BY <1>1, <1>2 DEF Listed, CellsInv, Chain, First
<1>4. ASSUME NEW t \in Thread, threadsMutex = t, pc[t] = "left", cut # "no"
      PROVE  threadsMutex' = t /\ pc'[t] = "left"
  BY <1>4 DEF IInv, TypeOK, ThreadsMutexInv, ApartStep, RemovalDone, Goto, Resume, LockThreads,
     SetTop, SyncLock, SyncUnlock, SyncReturn, DetachLock, Attach, DetachUnlock, Detach, Stop,
     Join, GcCycle, GcUnlockThreads, GcLockSync, GcLockScan, GcUnlockSync, GcStackDone,
     GcCycleDone, Scanning
<1>5. RemovalInv(s, n)'
  BY <1>1, <1>2, <1>4 DEF Listed, RemovalInv
<1>6. (gc' \in Scanning <=> gc \in Scanning) \/ (gcAt = NULL /\ gc' \notin Scanning)
  BY DEF ApartStep, Scanning, LockThreads, SetTop, SyncLock, SyncUnlock,
     SyncReturn, DetachLock, Attach, DetachUnlock, Detach, Stop, Join, GcCycle, GcUnlockThreads,
     GcLockSync, GcLockScan, GcUnlockSync, GcStackDone, GcCycleDone
<1>7. ScanInv(s, n)'
  BY <1>1, <1>2, <1>6 DEF Listed, ScanInv
<1>8. ASSUME NEW t \in Thread, find[t] # "no", pc[t] \in {"run", "away"}
      PROVE  pc'[t] = pc[t]
  BY <1>8 DEF IInv, TypeOK, ApartStep, Goto, Resume, LockThreads,
     SetTop, SyncLock, SyncUnlock, SyncReturn, DetachLock, Attach, DetachUnlock, Detach, Stop,
     Join, GcCycle, GcUnlockThreads, GcLockSync, GcLockScan, GcUnlockSync, GcStackDone,
     GcCycleDone
<1>9. SearchInv(s, n)'
  <2> SUFFICES ASSUME NEW t \in Thread
               PROVE  /\ find'[t] # "no" => pc'[t] \in {"run", "away"}
                      /\ Searching(t)' => at'[t] \in Cell
                      /\ find'[t] = "none" => disturbed'[t]
                      /\ Searching(t)' /\ ~disturbed'[t] => cut' = "no" /\ Ahead(t, s, n)'
    BY DEF SearchInv
  <2>1. Searching(t)' = Searching(t) /\ Ahead(t, s, n)' = Ahead(t, s, n)
    BY <1>2 DEF Searching, Ahead
  <2> QED
    BY <1>1, <1>2, <1>8, <2>1 DEF Listed, SearchInv
<1>10. ListTypeOK'
  <2>1. cut # "no" => threadsMutex' \in Thread
    BY <1>1, <1>4 DEF Listed, RemovalInv
  <2> QED
    BY <1>2, <2>1 DEF LInv, ListTypeOK
<1> QED
  BY <1>3, <1>5, <1>7, <1>9, <1>10 DEF LInv, Listed

(* sgc_find_thread goes along the list towards the record of its thread.   *)
SearchStep(t) ==
    \/ Find(t) \/ LookAtData(t) \/ FollowLink(t) \/ NotFound(t)
    \/ SyncFound(t) \/ UnlockFound(t) \/ LockFound(t)

LEMMA SearchKeeps ==
    ASSUME IInv, LInv, NEW t \in Thread, SearchStep(t)
    PROVE  LInv'
<1> USE CellAssumption, ThreadAssumption
<1>1. PICK n \in Nat, s \in [Nat -> Cell] : Listed(s, n)
  BY DEF LInv
<1>2. ListTypeOK
  BY DEF LInv
<1>3. /\ UNCHANGED <<cells, remove, gcAt, attached, todo, gc, threadsMutex>>
      /\ \/ pc' = pc
         \/ pc[t] \in {"run", "away"} /\ \E p \in Place : pc' = [pc EXCEPT ![t] = p]
      /\ find' = [find EXCEPT ![t] = find'[t]] /\ at' = [at EXCEPT ![t] = at'[t]]
      /\ \A u \in Thread \ {t} : disturbed'[u] = disturbed[u]
  BY <1>2 DEF ListTypeOK, IInv, TypeOK, SearchStep, Find, LookAtData, FollowLink, NotFound,
     SyncFound, UnlockFound, LockFound, Returns, Sync, Unlock, Lock, LetGo, Resume, Goto, vars, Place
<1>4. CellsInv(s, n)'
  BY <1>1, <1>3 DEF Listed, CellsInv, Chain, First, cells, remove
<1>5. RemovalInv(s, n)'
  BY <1>1, <1>3 DEF Listed, RemovalInv, remove, IInv, TypeOK
<1>6. ScanInv(s, n)'
  BY <1>1, <1>3 DEF Listed, ScanInv, cells
<1>7. ASSUME NEW u \in Thread, u # t
      PROVE  find'[u] = find[u] /\ at'[u] = at[u] /\ disturbed'[u] = disturbed[u] /\ pc'[u] = pc[u]
  BY <1>2, <1>3, <1>7 DEF ListTypeOK, IInv, TypeOK
<1>8. cut' = cut /\ data' = data
  BY <1>3 DEF cells, remove
<1>9. find'[t] # "no" => pc'[t] = pc[t] /\ pc[t] \in {"run", "away"}
  BY <1>1, <1>2 DEF Listed, SearchInv, ListTypeOK, IInv, TypeOK, SearchStep, Find, LookAtData,
     FollowLink, NotFound, SyncFound, UnlockFound, LockFound, Returns, vars
<1>10. /\ Searching(t)' => at'[t] \in Cell
       /\ find'[t] = "none" => disturbed'[t]
       /\ Searching(t)' /\ ~disturbed'[t] => cut' = "no" /\ Ahead(t, s, n)'
  <2>1. CASE Find(t)
    <3>1. /\ pc[t] \in {"run", "away"} /\ find'[t] = IF head = NULL THEN "none" ELSE "data"
          /\ at'[t] = head /\ (disturbed'[t] <=> cut # "no")
      BY <1>2, <2>1 DEF Find, ListTypeOK
    <3>2. t \in attached
      BY <3>1 DEF IInv, ListInv
    <3>3. PICK i \in 1..n : data[s[i]] = t
      BY <1>1, <3>2 DEF Listed, CellsInv
    <3>4. cut = "no" => head = s[1] /\ head # NULL
      BY <1>1, <3>3 DEF Listed, CellsInv, Chain, First
    <3>5. cut = "no" => Ahead(t, s, n)'
      BY <1>8, <3>1, <3>3, <3>4 DEF Ahead
    <3> QED
      BY <1>2, <1>8, <3>1, <3>4, <3>5 DEF Searching, ListTypeOK, Link
  <2>2. CASE LookAtData(t)
    <3>1. /\ find[t] = "data" /\ at'[t] = at[t] /\ (disturbed'[t] <=> disturbed[t])
          /\ find'[t] = IF data[at[t]] = t THEN "found" ELSE "link"
      BY <1>2, <2>2 DEF LookAtData, ListTypeOK
    <3>2. at[t] \in Cell /\ (~disturbed[t] => cut = "no" /\ Ahead(t, s, n))
      BY <1>1, <3>1 DEF Listed, SearchInv, Searching
    <3>3. Ahead(t, s, n) /\ data[at[t]] # t => Ahead(t, s, n)'
      BY <1>8, <3>1 DEF Ahead
    <3> QED
      BY <1>8, <3>1, <3>2, <3>3 DEF Searching
  <2>3. CASE FollowLink(t)
    <3>1. /\ find[t] = "link" /\ at'[t] = next[at[t]] /\ (disturbed'[t] <=> disturbed[t])
          /\ find'[t] = IF next[at[t]] = NULL THEN "none" ELSE "data"
      BY <1>2, <2>3 DEF FollowLink, ListTypeOK
    <3>2. at[t] \in Cell /\ (~disturbed[t] => cut = "no" /\ Ahead(t, s, n))
      BY <1>1, <3>1 DEF Listed, SearchInv, Searching
    <3>3. next[at[t]] \in Link
      BY <1>2, <3>2 DEF ListTypeOK
    <3>4. ASSUME Ahead(t, s, n)
          PROVE  next[at[t]] # NULL /\ Ahead(t, s, n)'
      <4>1. PICK j \in 1..n, i \in 1..n : at[t] = s[j] /\ data[s[i]] = t /\ j < i
        BY <3>1, <3>4 DEF Ahead
      <4>2. j + 1 \in 1..n /\ next[s[j]] = s[j+1] /\ s[j+1] \in Cell
        BY <1>1, <4>1 DEF Listed, CellsInv, Chain
      <4> QED
        BY <1>8, <3>1, <4>1, <4>2 DEF Ahead
    <3> QED
      BY <1>8, <3>1, <3>2, <3>3, <3>4 DEF Searching, Link
  <2>4. CASE NotFound(t) \/ SyncFound(t) \/ UnlockFound(t) \/ LockFound(t)
    <3>1. find'[t] = "no"
      BY <1>2, <2>4 DEF ListTypeOK, NotFound, SyncFound, UnlockFound, LockFound, Returns
    <3> QED
      BY <3>1 DEF Searching
  <2> QED
    BY <2>1, <2>2, <2>3, <2>4 DEF SearchStep
<1>11. SearchInv(s, n)'
  <2> SUFFICES ASSUME NEW u \in Thread, u # t
               PROVE  /\ find'[u] # "no" => pc'[u] \in {"run", "away"}
                      /\ Searching(u)' => at'[u] \in Cell
                      /\ find'[u] = "none" => disturbed'[u]
                      /\ Searching(u)' /\ ~disturbed'[u] => cut' = "no" /\ Ahead(u, s, n)'
    BY <1>9, <1>10 DEF SearchInv
  <2>1. Searching(u)' = Searching(u) /\ Ahead(u, s, n)' = Ahead(u, s, n)
    BY <1>7, <1>8 DEF Searching, Ahead
  <2> QED
    BY <1>1, <1>7, <1>8, <2>1 DEF Listed, SearchInv
<1>12. ListTypeOK'
  <2>1. UNCHANGED <<head, next, data, used, cut, tmp, list, gcAt, threadsMutex>>
    BY <1>3 DEF cells, remove
  <2>2. find' \in [Thread -> Search] /\ at' \in [Thread -> Link]
    <3>1. Searching(t) => at[t] \in Cell
      BY <1>1 DEF Listed, SearchInv
    <3> QED
      BY <1>2, <3>1 DEF ListTypeOK, SearchStep, Find, LookAtData, FollowLink, NotFound, SyncFound,
         UnlockFound, LockFound, Returns, Search, Searching, Link
  <2>3. disturbed' = disturbed \/ disturbed' = [disturbed EXCEPT ![t] = cut # "no"]
    BY Zenon DEF SearchStep, Find, LookAtData, FollowLink, NotFound, SyncFound, UnlockFound,
       LockFound, Returns
  <2>4. disturbed' \in [Thread -> BOOLEAN]
    BY <1>2, <2>3, Zenon DEF ListTypeOK
  <2>5. broken' \in BOOLEAN
    BY <1>2, Zenon DEF ListTypeOK, SearchStep, Find, LookAtData, FollowLink, NotFound, SyncFound,
       UnlockFound, LockFound
  <2> QED
    BY <1>2, <2>1, <2>2, <2>4, <2>5 DEF ListTypeOK
<1> QED
  BY <1>4, <1>5, <1>6, <1>11, <1>12 DEF LInv, Listed

(* sgc_scan_threads goes along it from its head.                           *)
LEMMA CollectorKeeps ==
    ASSUME IInv, LInv, GcLockList \/ \E t \in Thread : GcTakeCell(t)
    PROVE  LInv'
<1> USE CellAssumption, ThreadAssumption
<1>1. PICK n \in Nat, s \in [Nat -> Cell] : Listed(s, n)
  BY DEF LInv
<1>2. ListTypeOK
  BY DEF LInv
<1>3. /\ UNCHANGED <<head, next, data, used, cut, tmp, list, find, at, disturbed, broken>>
      /\ UNCHANGED <<pc, attached>>
      /\ threadsMutex' = threadsMutex \/ threadsMutex = NULL
  BY DEF GcLockList, GcTakeCell, GcLockThreads, GcTake, cells, remove, search
<1>4. cut = "no"
  BY <1>1 DEF Listed, RemovalInv, IInv, ThreadsMutexInv, Scanning, GcLockList, GcTakeCell,
     GcLockThreads, GcTake
<1>5. CellsInv(s, n)'
  BY <1>1, <1>3 DEF Listed, CellsInv, Chain, First
<1>6. RemovalInv(s, n)'
  BY <1>3, <1>4 DEF RemovalInv
<1>7. SearchInv(s, n)'
  <2>1. \A t \in Thread : Searching(t)' = Searching(t) /\ Ahead(t, s, n)' = Ahead(t, s, n)
    BY <1>3 DEF Searching, Ahead
  <2> QED
    BY <1>1, <1>3, <2>1 DEF Listed, SearchInv
<1>8. ScanInv(s, n)' /\ gcAt' \in Link
  <2>1. CASE GcLockList
    <3>1. gc' = "next" /\ todo' = attached /\ gcAt' = head
      BY <2>1 DEF GcLockList, GcLockThreads
    <3>2. head = (IF n = 0 THEN NULL ELSE s[1]) /\ attached = {data[s[i]] : i \in 1..n}
      BY <1>1, <1>4 DEF Listed, CellsInv, Chain, First
    <3>3. 1 \in 1..(n+1) /\ gcAt' = IF 1 = n + 1 THEN NULL ELSE s[1]
      BY <3>1, <3>2
    <3>4. \E k \in 1..(n+1) : /\ gcAt' = IF k = n + 1 THEN NULL ELSE s[k]
                              /\ todo' = {data'[s[i]] : i \in k..n}
      BY <1>3, <3>1, <3>2, <3>3
    <3>5. gc' \in Scanning
      BY <3>1 DEF Scanning
    <3> QED
      BY <1>2, <3>1, <3>4, <3>5 DEF ScanInv, ListTypeOK
  <2>2. ASSUME NEW t \in Thread, GcTakeCell(t)
        PROVE  ScanInv(s, n)' /\ gcAt' \in Link
    <3>1. /\ gc = "next" /\ gc' = "sync" /\ gcAt # NULL /\ data[gcAt] = t
          /\ todo' = todo \ {t} /\ gcAt' = next[gcAt]
      BY <2>2 DEF GcTakeCell, GcTake, After
    <3>2. PICK k \in 1..(n+1) : /\ gcAt = IF k = n + 1 THEN NULL ELSE s[k]
                                /\ todo = {data[s[i]] : i \in k..n}
      BY <1>1, <3>1 DEF Listed, ScanInv, Scanning
    <3>3. k \in 1..n /\ gcAt = s[k] /\ k + 1 \in 1..(n+1)
      BY <3>1, <3>2
    <3>4. gcAt' = IF k + 1 = n + 1 THEN NULL ELSE s[k+1]
      BY <1>1, <3>1, <3>3 DEF Listed, CellsInv, Chain
    <3>5. todo' = {data[s[i]] : i \in (k+1)..n}
      <4>1. \A i \in k..n : data[s[i]] = t <=> i = k
        BY <1>1, <3>1, <3>3 DEF Listed, CellsInv
      <4> QED
        BY <3>1, <3>2, <3>3, <4>1
    <3>6. \E l \in 1..(n+1) : /\ gcAt' = IF l = n + 1 THEN NULL ELSE s[l]
                              /\ todo' = {data'[s[i]] : i \in l..n}
      BY <1>3, <3>3, <3>4, <3>5
    <3> QED
      BY <3>1, <3>3, <3>4, <3>6 DEF ScanInv, Scanning, Link
  <2> QED
    BY <2>1, <2>2
<1>9. ListTypeOK'
  BY <1>2, <1>3, <1>4, <1>8 DEF ListTypeOK
<1> QED
  BY <1>5, <1>6, <1>7, <1>8, <1>9 DEF LInv, Listed
-----------------------------------------------------------------------------
LEMMA ListPreserved ==
    ASSUME IInv, LInv, [ListNext]_listVars
    PROVE  LInv'
<1>1. CASE ListNext
  <2>1. \/ \E t \in Thread : EnterList(t) \/ LeaveList(t) \/ SearchStep(t)
        \/ ListRemoval \/ ApartStep
        \/ GcLockList \/ \E t \in Thread : GcTakeCell(t)
    BY <1>1 DEF ListNext, ListLibrary, ListCall, ListCleanup, ListCollector, SearchStep, ApartStep
  <2> QED
    BY <2>1, EnterKeeps, LeaveKeeps, SearchKeeps, RemovalKeeps, ApartKeeps, CollectorKeeps
<1>2. CASE UNCHANGED listVars
  <2>1. PICK n \in Nat, s \in [Nat -> Cell] : Listed(s, n)
    BY DEF LInv
  <2>2. UNCHANGED <<vars, cells, remove, gcAt, search, broken>>
    BY <1>2 DEF listVars
  <2>3. CellsInv(s, n)' /\ RemovalInv(s, n)' /\ ScanInv(s, n)'
    BY <2>1, <2>2 DEF Listed, CellsInv, RemovalInv, ScanInv, Chain, First, vars, cells, remove
  <2>4. SearchInv(s, n)'
    BY <2>1, <2>2 DEF Listed, SearchInv, Searching, Ahead, vars, cells, remove, search
  <2>5. ListTypeOK'
    BY <2>2 DEF LInv, ListTypeOK, vars, cells, remove, search
  <2> QED
    BY <2>3, <2>4, <2>5 DEF LInv, Listed
<1> QED
  BY <1>1, <1>2

LEMMA ListInvariant == ListSpec => [](IInv /\ LInv)
<1>1. ListInit => LInv
  <2> SUFFICES ASSUME ListInit
               PROVE  LInv
    OBVIOUS
  <2> USE CellAssumption, ThreadAssumption DEF ListInit, Init
  <2>1. Cell # {}
    <3>1. Cardinality(Thread) # 0 /\ Cardinality(Thread) \in Nat
      BY FS_EmptySet, FS_CardinalityType
    <3>2. Cardinality({}) = 0
      BY FS_EmptySet
    <3> QED
      BY <3>1, <3>2
  <2>2. head \in Cell
    BY <2>1
  <2> DEFINE s == [i \in Nat |-> head]
  <2>3. s \in [Nat -> Cell] /\ s[1] = head
    BY <2>2
  <2> HIDE DEF s
  <2>4. CellsInv(s, 1)
    <3>1. 1..1 = {1}
      OBVIOUS
    <3>2. {s[i] : i \in {1}} = {head} /\ {data[s[i]] : i \in {1}} = {Main}
      BY <2>2, <2>3
    <3>3. Chain(s, 1, First, next, NULL)
      BY <2>2, <2>3, <3>1 DEF Chain, First
    <3> QED
      BY <3>1, <3>2, <3>3 DEF CellsInv
  <2>5. RemovalInv(s, 1) /\ ScanInv(s, 1)
    BY DEF RemovalInv, ScanInv, Scanning
  <2>6. SearchInv(s, 1)
    BY DEF SearchInv, Searching
  <2>7. ListTypeOK
    BY <2>2 DEF ListTypeOK, Link, Removal, Search
  <2> QED
    BY <2>3, <2>4, <2>5, <2>6, <2>7 DEF LInv, Listed
<1>2. IInv /\ LInv /\ [ListNext]_listVars => LInv'
  BY ListPreserved
<1> QED
  BY <1>1, <1>2, Invariant, ListKeepsHandshake, PTL DEF ListSpec

(* Every variable has its type, and a removal is the work of a thread that *)
(* has sgc_threads_mutex.                                                  *)
THEOREM ListTypeCorrect == ListSpec => []ListTypeOK
<1>1. LInv => ListTypeOK
  BY DEF LInv
<1> QED
  BY <1>1, ListInvariant, PTL

(* Between calls the list holds each attached thread in one cell, and no   *)
(* other cell is allocated, whatever was appended and removed before.      *)
THEOREM ListIsComplete == ListSpec => []ListHoldsAttached
<1>1. IInv /\ LInv => ListHoldsAttached
  <2> SUFFICES ASSUME IInv, LInv, threadsMutex = NULL
               PROVE  /\ {data[c] : c \in From(head)} = attached
                      /\ Cardinality(From(head)) = Cardinality(attached)
                      /\ used = From(head)
    BY DEF ListHoldsAttached
  <2> USE CellAssumption, ThreadAssumption
  <2>1. PICK n \in Nat, s \in [Nat -> Cell] : Listed(s, n)
    BY DEF LInv
  <2>2. cut = "no"
    BY <2>1 DEF Listed, RemovalInv
  <2>3. /\ From(head) = {s[i] : i \in 1..n} /\ used = {s[i] : i \in 1..n}
        /\ \A i, j \in 1..n : s[i] = s[j] => i = j
    BY <2>1, <2>2, ListSeen DEF Listed, LInv
  <2>4. attached = {data[s[i]] : i \in 1..n}
    BY <2>1 DEF Listed, CellsInv
  <2>5. Cardinality({s[i] : i \in 1..n}) = n
    <3>1. \A i \in 1..n : s[i] \in Cell
      OBVIOUS
    <3> QED
      BY <2>3, <3>1, ChainIsShort
  <2>6. Cardinality({data[s[i]] : i \in 1..n}) = n
    <3> DEFINE r == [i \in Nat |-> data[s[i]]]
    <3>1. \A i \in 1..n : r[i] \in Thread
      BY DEF LInv, ListTypeOK
    <3>2. \A i, j \in 1..n : r[i] = r[j] => i = j
      BY <2>1 DEF Listed, CellsInv
    <3>3. \A i \in 1..n : r[i] = data[s[i]]
      OBVIOUS
    <3> HIDE DEF r
    <3>4. Cardinality({r[i] : i \in 1..n}) = n
      BY <3>1, <3>2, ChainIsShort
    <3> QED
      BY <3>3, <3>4
  <2> QED
    BY <2>3, <2>4, <2>5, <2>6
<1> QED
  BY <1>1, ListInvariant, PTL

(* sgc_scan_threads meets every attached thread, and meets it once.        *)
THEOREM ScanIsComplete == ListSpec => []ScanMeetsAll
<1>1. IInv /\ LInv => ScanMeetsAll
  <2> SUFFICES ASSUME IInv, LInv, gc \in Scanning
               PROVE  /\ {data[c] : c \in From(gcAt)} = todo
                      /\ From(gcAt) \subseteq used
    BY DEF ScanMeetsAll, Scanning
  <2> USE CellAssumption, ThreadAssumption
  <2>1. PICK n \in Nat, s \in [Nat -> Cell] : Listed(s, n)
    BY DEF LInv
  <2>2. cut = "no"
    BY <2>1 DEF Listed, RemovalInv, IInv, ThreadsMutexInv
  <2>3. PICK k \in 1..(n+1) : /\ gcAt = IF k = n + 1 THEN NULL ELSE s[k]
                              /\ todo = {data[s[i]] : i \in k..n}
    BY <2>1 DEF Listed, ScanInv
  <2>4. \A i, j \in 1..n : s[i] = s[j] => i = j
    BY <2>1 DEF Listed, CellsInv
  <2>5. Chain(s, n, head, next, NULL)
    BY <2>1, <2>2 DEF Listed, CellsInv, First
  <2>6. From(gcAt) = {s[i] : i \in k..n}
    BY <2>3, <2>4, <2>5, FromRest
  <2>7. \A i \in k..n : s[i] \in used
    BY <2>1 DEF Listed, CellsInv
  <2> QED
    BY <2>3, <2>6, <2>7
<1> QED
  BY <1>1, ListInvariant, PTL

(* A thread that searches without the mutex is led astray only by another  *)
(* thread that leaves.                                                     *)
THEOREM SearchLostByLeaving == ListSpec => []LostByLeavingOnly
<1>1. IInv /\ LInv => LostByLeavingOnly
  <2> SUFFICES ASSUME IInv, LInv, NEW t \in Thread,
                      find[t] = "none" \/ (Searching(t) /\ at[t] \notin used)
               PROVE  disturbed[t]
    BY DEF LostByLeavingOnly
  <2>1. PICK n \in Nat, s \in [Nat -> Cell] : Listed(s, n)
    BY DEF LInv
  <2>2. Ahead(t, s, n) => at[t] \in used
    BY <2>1 DEF Listed, CellsInv, Ahead
  <2> QED
    BY <2>1, <2>2 DEF Listed, SearchInv
<1> QED
  BY <1>1, ListInvariant, PTL
=============================================================================
