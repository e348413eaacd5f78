---------------------------- MODULE SgcThreadList ----------------------------
(***************************************************************************)
(* The list sgc_threads under the handshake of SgcThread, cell by cell.    *)
(* sgc_thread_new and sgc_thread_detach append and remove cells, and       *)
(* sgc_scan_threads goes along them, with sgc_threads_mutex locked.        *)
(* sgc_thread_sync, sgc_thread_unlock and sgc_thread_lock look for their   *)
(* own record without it: each of their loads may come between the stores  *)
(* of an append or a removal.                                              *)
(*                                                                         *)
(* A cell that sgc_list_remove freed may be what the next append gets from *)
(* malloc.  The model ends where a thread reads a freed cell, or uses the  *)
(* record that it did not find.                                            *)
(***************************************************************************)
EXTENDS SgcThread, FiniteSets

CONSTANT Cell       \* the cells that malloc hands out

ASSUME CellAssumption ==
    /\ IsFiniteSet(Cell) /\ NULL \notin Cell /\ IsFiniteSet(Thread)
    /\ Cardinality(Cell) >= Cardinality(Thread)

VARIABLES
    head,           \* sgc_threads
    next,           \* next[c]: list->next
    data,           \* data[c]: the thread whose record list->data is
    used,           \* the cells that are allocated
    cut,            \* how far sgc_list_remove has come: see Removal
    tmp,            \* the cell that it removes
    list,           \* the head that it is going to return
    gcAt,           \* thread_list in sgc_scan_threads
    find,           \* find[t]: where t is in sgc_find_thread: see Search
    at,             \* at[t]: thread_list there
    disturbed,      \* history: disturbed[t]: a thread left while t searched
    broken          \* a freed cell was read, or a missing record used

cells  == <<head, next, data, used>>
remove == <<cut, tmp, list>>
search == <<find, at, disturbed>>
listVars == <<vars, cells, remove, gcAt, search, broken>>

(* "no": not there.  "unlinked", "cleared", "freed": tmp is out of the     *)
(* chain, its link is NULL, it is freed; sgc_threads is stored last.       *)
Removal == {"no", "unlinked", "cleared", "freed"}

(* "data": about to look whose record at[t] holds.  "link": about to go on *)
(* from at[t].  "found", "none": what sgc_find_thread returned.            *)
Search == {"no", "data", "link", "found", "none"}

Link == Cell \cup {NULL}

ListInit == /\ Init
            /\ head = CHOOSE c \in Cell : TRUE      \* one is like another
            /\ used = {head} /\ data = [c \in Cell |-> Main]
            /\ next = [c \in Cell |-> NULL]
            /\ cut = "no" /\ tmp = NULL /\ list = NULL
            /\ gcAt = NULL
            /\ find = [t \in Thread |-> "no"]
            /\ at = [t \in Thread |-> NULL]
            /\ disturbed = [t \in Thread |-> FALSE]
            /\ broken = FALSE
-----------------------------------------------------------------------------
(* Where so many steps along the links lead to from cell c.                *)
Along(c) == LET go[i \in 0..Cardinality(Cell)] ==
                   IF i = 0 THEN c ELSE IF go[i-1] = NULL THEN NULL ELSE next[go[i-1]]
            IN go

(* What sgc_list_last and sgc_list_remove come to from c on.               *)
From(c) == {Along(c)[i] : i \in 0..Cardinality(Cell)} \ {NULL}

(* Mutant: the new cell is linked after the first one.                     *)
Append_AtHead(t) ==
    \E c \in Cell \ used :
       /\ used' = used \cup {c}
       /\ data' = [data EXCEPT ![c] = t]
       /\ head' = head
       /\ next' = [next EXCEPT ![head] = c, ![c] = NULL]

(* sgc_list_append: the cell is complete when the store to the link of the *)
(* last cell, or to sgc_threads, makes it a member.                        *)
Append(t) ==
    \E c \in Cell \ used :
       /\ used' = used \cup {c}
       /\ data' = [data EXCEPT ![c] = t]
       /\ head' = IF head = NULL THEN c ELSE head
       /\ next' = [l \in Cell |-> IF l = c THEN NULL
                                  ELSE IF l \in From(head) /\ next[l] = NULL THEN c
                                  ELSE next[l]]

EnterList(t) ==
    /\ Enter(t)
    /\ Append(t)
    /\ UNCHANGED <<remove, gcAt, search, broken>>

(* Mutant: the cell before the one that is removed keeps its link.         *)
Unlink_Not(c) == next' = next

(* sgc_list_remove: prev->next = tmp->next.                                *)
Unlink(c) == next' = [p \in Cell |-> IF p \in From(head) /\ next[p] = c
                                     THEN next[c] ELSE next[p]]

Searching(t) == find[t] \in {"data", "link"}

(* sgc_thread_detach finds the record, with the mutex locked, destroys its *)
(* mutexes, and calls sgc_list_remove; the record itself stays allocated.  *)
LeaveList(t) ==
    /\ Leave(t)
    /\ \E c \in From(head) :
          /\ data[c] = t
          /\ Unlink(c)
          /\ tmp' = c
          /\ list' = IF head = c THEN next[c] ELSE head
    /\ cut' = "unlinked"
    /\ disturbed' = [u \in Thread |-> disturbed[u] \/ Searching(u)]
    /\ UNCHANGED <<head, data, used, gcAt, find, at, broken>>

(* tmp->next = NULL                                                        *)
ClearLink ==
    /\ cut = "unlinked"
    /\ next' = [next EXCEPT ![tmp] = NULL]
    /\ cut' = "cleared"
    /\ UNCHANGED <<vars, head, data, used, tmp, list, gcAt, search, broken>>

(* delete_sgc_list                                                         *)
FreeCell ==
    /\ cut = "cleared"
    /\ used' = used \ {tmp}
    /\ cut' = "freed"
    /\ UNCHANGED <<vars, head, next, data, tmp, list, gcAt, search, broken>>

(* sgc_threads takes the value that sgc_list_remove returned.              *)
StoreHead ==
    /\ cut = "freed"
    /\ head' = list
    /\ cut' = "no" /\ tmp' = NULL /\ list' = NULL
    /\ UNCHANGED <<vars, next, data, used, gcAt, search, broken>>
-----------------------------------------------------------------------------
(* sgc_find_thread, called without the mutex.                              *)
Find(t) ==
    /\ pc[t] \in {"run", "away"} /\ find[t] = "no"
    /\ find' = [find EXCEPT ![t] = IF head = NULL THEN "none" ELSE "data"]
    /\ at' = [at EXCEPT ![t] = head]
    /\ disturbed' = [disturbed EXCEPT ![t] = cut # "no"]
    /\ UNCHANGED <<vars, cells, remove, gcAt, broken>>

LookAtData(t) ==
    /\ find[t] = "data"
    /\ broken' = (at[t] \notin used)
    /\ find' = [find EXCEPT ![t] = IF data[at[t]] = t THEN "found" ELSE "link"]
    /\ UNCHANGED <<vars, cells, remove, gcAt, at, disturbed>>

FollowLink(t) ==
    /\ find[t] = "link"
    /\ broken' = (at[t] \notin used)
    /\ at' = [at EXCEPT ![t] = next[at[t]]]
    /\ find' = [find EXCEPT ![t] = IF next[at[t]] = NULL THEN "none" ELSE "data"]
    /\ UNCHANGED <<vars, cells, remove, gcAt, disturbed>>

Returns(t) == /\ find' = [find EXCEPT ![t] = "no"]
              /\ at' = [at EXCEPT ![t] = NULL]
              /\ UNCHANGED disturbed

(* The rest of sgc_thread_sync, sgc_thread_unlock and sgc_thread_lock.     *)
SyncFound(t) ==
    /\ find[t] = "found" /\ Sync(t)
    /\ Returns(t)
    /\ UNCHANGED <<cells, remove, gcAt, broken>>

UnlockFound(t) ==
    /\ find[t] = "found" /\ Unlock(t)
    /\ Returns(t)
    /\ UNCHANGED <<cells, remove, gcAt, broken>>

LockFound(t) ==
    /\ find[t] = "found" /\ Lock(t)
    /\ Returns(t)
    /\ UNCHANGED <<cells, remove, gcAt, broken>>

(* sgc_thread_sync and sgc_thread_unlock return -1; sgc_thread_lock has no *)
(* test.                                                                   *)
NotFound(t) ==
    /\ find[t] = "none"
    /\ broken' = (pc[t] = "away")
    /\ Returns(t)
    /\ UNCHANGED <<vars, cells, remove, gcAt>>
-----------------------------------------------------------------------------
(* sgc_scan_threads                                                        *)
GcLockList ==
    /\ GcLockThreads
    /\ gcAt' = head
    /\ UNCHANGED <<cells, remove, search, broken>>

(* Mutant: a cell is passed over.                                          *)
After_Skips(c) == IF next[c] = NULL THEN NULL ELSE next[next[c]]

(* sgc_list_next                                                           *)
After(c) == next[c]

GcTakeCell(t) ==
    /\ gcAt # NULL /\ data[gcAt] = t
    /\ GcTake(t)
    /\ gcAt' = After(gcAt)
    /\ UNCHANGED <<cells, remove, search, broken>>
-----------------------------------------------------------------------------
(* Mutant: the mutex is unlocked before sgc_list_remove has returned.      *)
RemovalDone_Early == TRUE

RemovalDone == cut = "no"

(* Steps of SgcThread that leave the cells alone.                          *)
Apart == UNCHANGED <<cells, remove, gcAt, search, broken>>

ListLibrary(t) ==
    \/ (LockThreads(t) \/ SetTop(t)) /\ Apart
    \/ EnterList(t)
    \/ (SyncLock(t) \/ SyncUnlock(t) \/ SyncReturn(t)) /\ Apart
    \/ LookAtData(t) \/ FollowLink(t) \/ LockFound(t) \/ NotFound(t)
    \/ DetachLock(t) /\ Apart
    \/ LeaveList(t)
    \/ RemovalDone /\ DetachUnlock(t) /\ Apart

ListCall(t) ==
    \/ Attach(t) /\ Apart
    \/ Find(t) \/ SyncFound(t) \/ UnlockFound(t)
    \/ find[t] = "no" /\ Detach(t) /\ Apart

ListCleanup == (Stop \/ Join) /\ Apart

ListRemoval == ClearLink \/ FreeCell \/ StoreHead

ListCollector ==
    \/ GcCycle /\ Apart
    \/ GcLockList
    \/ gcAt = NULL /\ GcUnlockThreads /\ Apart
    \/ \E t \in Thread : GcTakeCell(t)
    \/ (GcLockSync \/ GcLockScan \/ GcUnlockSync \/ GcStackDone \/ GcCycleDone) /\ Apart

ListNext == /\ ~broken
            /\ \/ \E t \in Thread : ListLibrary(t) \/ ListCall(t)
               \/ ListCleanup
               \/ ListRemoval
               \/ ListCollector

ListSpec == ListInit /\ [][ListNext]_listVars

(* As FairSpec of SgcThread: threads and collector are scheduled, and a    *)
(* client that is not in the library keeps calling sgc_thread_sync.        *)
Runs(t) == ListLibrary(t) \/ (pc[t] = "run" /\ Find(t)) \/ SyncFound(t)

ListFairSpec ==
    /\ ListSpec
    /\ WF_listVars(~broken /\ ListCollector)
    /\ WF_listVars(~broken /\ (ListCleanup \/ ListRemoval))
    /\ \A t \in Thread : WF_listVars(~broken /\ Runs(t))
-----------------------------------------------------------------------------
(***************************************************************************)
(* Properties.                                                             *)
(***************************************************************************)

(* Every variable has its type, and a removal goes on only while its       *)
(* thread has sgc_threads_mutex.                                           *)
ListTypeOK ==
    /\ head \in Link
    /\ next \in [Cell -> Link]
    /\ data \in [Cell -> Thread]
    /\ used \subseteq Cell
    /\ cut \in Removal
    /\ cut # "no" => threadsMutex \in Thread /\ tmp \in Cell
    /\ tmp \in Link /\ list \in Link
    /\ gcAt \in Link
    /\ find \in [Thread -> Search]
    /\ at \in [Thread -> Link]
    /\ disturbed \in [Thread -> BOOLEAN]
    /\ broken \in BOOLEAN

(* When no one holds sgc_threads_mutex, the cells from sgc_threads on hold *)
(* each attached thread once, and there are no others: appends and         *)
(* removals in the middle, at the head and at the end lose no cell.        *)
ListHoldsAttached ==
    threadsMutex = NULL =>
       /\ {data[c] : c \in From(head)} = attached
       /\ Cardinality(From(head)) = Cardinality(attached)
       /\ used = From(head)

(* Between two stacks, what is left of the list for sgc_scan_threads is    *)
(* what it has not come to: every attached thread is met, and met once.    *)
ScanMeetsAll ==
    gc \in {"next", "sync", "scan", "unsync", "stack"} =>
       /\ {data[c] : c \in From(gcAt)} = todo
       /\ From(gcAt) \subseteq used

(* Searching without the mutex is safe against threads that attach: a      *)
(* thread misses its own record, or comes to a freed cell, only if another *)
(* one has left while it searched.                                         *)
LostByLeavingOnly ==
    \A t \in Thread : \/ find[t] = "none"
                      \/ Searching(t) /\ at[t] \notin used
                      => disturbed[t]

(* Once the collector waits for the scan mutex of a thread that does not   *)
(* call sgc_thread_lock, it gets to its stack: the thread finds its record *)
(* and cannot pass the sync mutex before, however often it calls           *)
(* sgc_thread_sync.  The way out is the deadlock of sgc_thread_detach.     *)
CollectorNotStarved ==
    gc = "scan" /\ th \notin Stepping
        ~> gc = "stack" \/ (gc = "scan" /\ pc[th] = "detach") \/ broken
=============================================================================
