---------------------------- MODULE SgcCollector ----------------------------
(***************************************************************************)
(* The collector of sgc.c as CMakeLists.txt builds it, without             *)
(* SGC_USE_THREADS: every call of the library runs in the client's thread, *)
(* sgc_message_send handles its message before it returns, and a           *)
(* collection is a call of sgc_run or of sgc_search_memory_leaks.  Client  *)
(* code and collector therefore meet between calls, in the finalisers that *)
(* sgc_sweep calls back, and in the callback that sgc_search_memory_leaks  *)
(* calls for every object, before sgc_mark and after it.                   *)
(*                                                                         *)
(* The circular lists are sets here: which objects a list holds decides    *)
(* what is kept and what is freed, the order of the ring only the order in *)
(* which that happens, which the model leaves open.  The one place where   *)
(* the position in the ring counts, the head of the 'scan' list, is kept   *)
(* in scanHead.                                                            *)
(***************************************************************************)
EXTENDS Naturals, FiniteSets

CONSTANTS
    Object,         \* the blocks that sgc_allocator.c hands out
    Low,            \* bound: those that malloc may place below interval.low
    Handle,         \* the void* variables of the client that sgc_root can name
    Type,           \* the indices of sgc_typetab in use
    NULL,
    MaxRoots,       \* SGC_MAX_ROOTS
    MaxWords,       \* bound: distinct pointers the client keeps in one object
    ZeroFill        \* TRUE: new blocks hold no words of their last use

ASSUME CollectorAssumption ==
    /\ MaxRoots \in Nat \ {0}
    /\ MaxWords \in Nat
    /\ ZeroFill \in BOOLEAN
    /\ Low \subseteq Object
    /\ NULL \notin Object \cup Handle

VARIABLES
    color,          \* mem->color of every block; it survives sgc_allocator_free
    words,          \* the blocks that the words of a block point to
    pointerless,    \* mem->flags & SGC_POINTERLESS
    type,           \* mem->type
    typetab,        \* the types with a finaliser registered
    roots,          \* sgc_roots: handles, or NULL for an empty entry
    val,            \* *handle
    recognised,     \* the blocks that pass sgc_allocator_is_valid
    new,            \* sgc_new_list
    from,           \* sgc_from_list
    pending,        \* sgc_scan_list, the part the scan pointer has not reached
    scanned,        \* sgc_scan_list, the part it has passed
    scanHead,       \* in the loop over the roots: the head of sgc_scan_list
    free,           \* the blocks the allocator has free
    pc,             \* where the program is: see Phase
    mode,           \* "run" in sgc_run, "leaks" in sgc_search_memory_leaks
    cursor,         \* the index i of sgc_mark's loop over sgc_roots
    cur,            \* the object being scanned or finalised
    todo            \* the words of cur that sgc_scan_mem has not looked at

client == <<typetab, roots, val, recognised>>
header == <<color, words, pointerless, type>>
lists  == <<new, from, pending, scanned, scanHead, free>>
frame  == <<pc, mode, cursor, cur, todo>>
vars   == <<client, header, lists, frame>>

WHITE == "white"   GRAY == "gray"   BLACK == "black"   RED == "red"
Color == {WHITE, GRAY, BLACK, RED}

(* "client": between two calls of the library; "count", "report": in the   *)
(* loops of sgc_search_memory_leaks before and after sgc_mark that call    *)
(* the client back; "roots", "scan": the two loops of sgc_mark; "sweep":   *)
(* sgc_sweep; "finalise": in a finaliser that sgc_sweep called; "crashed": *)
(* the program dereferenced a NULL link; "strayed": a write barrier moved  *)
(* an object between lists, perhaps the one a loop is at.  The model ends  *)
(* with the last two.                                                      *)
Phase == {"client", "count", "roots", "scan", "report", "sweep", "finalise", "crashed", "strayed"}
-----------------------------------------------------------------------------
Scan == pending \cup scanned

(* A loop of sgc_search_memory_leaks has an object to report.              *)
CallsBack == \/ pc = "count" /\ from # {}
             \/ pc = "report" /\ from \cup Scan # {}

ClientRuns == pc \in {"client", "finalise"} \/ CallsBack

(* Bound: the callbacks ahead of sgc_mark allocate nothing.                *)
MayAllocate == ClientRuns /\ pc # "count"

(* What client code may hold a pointer to: objects on the 'new' and 'scan' *)
(* lists, or in the callbacks ahead of sgc_mark on 'from', that it has not *)
(* freed.  Objects that are being swept, or that sgc_search_memory_leaks   *)
(* reported as leaked, are left alone by a client that follows the rules   *)
(* of a finaliser.                                                         *)
Usable == {o \in new \cup Scan \cup (IF pc = "count" THEN from ELSE {}) : color[o] # RED}

Slot == 1..MaxRoots

Registered(h) == \E i \in Slot : roots[i] = h

(* The objects that registered handles lead sgc_mark to, and the words     *)
(* that sgc_scan_mem follows: a pointer to a block that the test of        *)
(* validity rejects counts for nothing.                                    *)
RootTargets == {o \in recognised : \E h \in Handle : Registered(h) /\ val[h] = o}

Out(o) == IF pointerless[o] THEN {} ELSE words[o] \cap recognised
-----------------------------------------------------------------------------
(* The state that sgc_init leaves: nothing allocated, fresh memory is      *)
(* zero.  Which blocks will be below the first area is malloc's affair.    *)
Init == /\ color = [o \in Object |-> WHITE]
        /\ words = [o \in Object |-> {}]
        /\ pointerless = [o \in Object |-> FALSE]
        /\ \E t \in Type : type = [o \in Object |-> t]
        /\ typetab = {}
        /\ roots = [i \in Slot |-> NULL]
        /\ val = [h \in Handle |-> NULL]
        /\ \E L \in SUBSET Low : recognised = Object \ L
        /\ new = {} /\ from = {} /\ pending = {} /\ scanned = {}
        /\ scanHead = NULL
        /\ free = Object
        /\ pc = "client" /\ mode = "run" /\ cursor = 1
        /\ cur = NULL /\ todo = {}
-----------------------------------------------------------------------------
(* Calls of the client.                                                    *)

(* The part of a new block's words that its last use left: SGC_ZERO clears *)
(* only nbytes of the size class, without it nothing is cleared.           *)
LeftOver(o) == IF ZeroFill THEN {{}} ELSE SUBSET words[o]

(* Mutant: a new object keeps the colour that the block had.               *)
Blackened_Not(o) == color

(* mem->color = SGC_BLACK                                                  *)
Blackened(o) == [color EXCEPT ![o] = BLACK]

(* sgc_new_object: take block o, set its header, and handle the            *)
(* SGC_NEW_MESSAGE, which appends it to the 'new' list.                    *)
NewObject(o, t, p) ==
    /\ MayAllocate
    /\ o \in free
    /\ free' = free \ {o}
    /\ color' = Blackened(o)
    /\ \E W \in LeftOver(o) : words' = [words EXCEPT ![o] = W]
    /\ pointerless' = [pointerless EXCEPT ![o] = p]
    /\ type' = [type EXCEPT ![o] = t]
    /\ new' = new \cup {o}
    /\ UNCHANGED <<client, from, pending, scanned, scanHead, frame>>

(* What sgc_free_object may be called for.  A finaliser may also free the  *)
(* objects its own object points to while they wait to be swept, and a     *)
(* callback the object that is reported to it.                             *)
Freeable == Usable \cup (IF pc = "finalise" THEN words[cur] \cap from ELSE {})
                   \cup (IF pc = "report" THEN from ELSE {})

(* sgc_free_object: the SGC_FREE_MESSAGE paints the object RED; it stays   *)
(* on its list until the next collection.                                  *)
FreeObject(o) ==
    /\ ClientRuns
    /\ o \in Freeable
    /\ color' = [color EXCEPT ![o] = RED]
    /\ UNCHANGED <<client, words, pointerless, type, lists, frame>>

(* sgc_resize_object when the size class has to change: a new object with  *)
(* the flags and the type of the old one, a copy of as many words as both  *)
(* hold (without write barrier), and sgc_free_object of the old one.       *)
ResizeObject(o, n) ==
    /\ MayAllocate
    /\ o \in Usable
    /\ n \in free
    /\ free' = free \ {n}
    /\ color' = [Blackened(n) EXCEPT ![o] = RED]
    /\ \E C \in SUBSET words[o], W \in LeftOver(n) :
          words' = [words EXCEPT ![n] = C \cup W]
    /\ pointerless' = [pointerless EXCEPT ![n] = pointerless[o]]
    /\ type' = [type EXCEPT ![n] = type[o]]
    /\ new' = new \cup {n}
    /\ UNCHANGED <<client, from, pending, scanned, scanHead, frame>>

(* sgc_resize_object when the new block cannot be had, or the new size is  *)
(* 0 and the class must change: the old object is freed and the call       *)
(* returns NULL.  It never leaves the object as it was, as realloc does.   *)
ResizeFails(o) ==
    /\ MayAllocate
    /\ o \in Usable
    /\ color' = [color EXCEPT ![o] = RED]
    /\ UNCHANGED <<client, words, pointerless, type, lists, frame>>

(* Mutant: NULL is taken for a pointer.                                    *)
Overwritten_Null(W, old, w) == (W \ {old}) \cup {w}

(* The pointers of an object in which w overwrites old.                    *)
Overwritten(W, old, w) == (W \ {old}) \cup ({w} \ {NULL})

(* sgc_wb2 into object p, sgc_wb1 when p is NULL: the test, and what the   *)
(* SGC_CTI_MESSAGE does before sgc_message_send returns.                   *)
Fires(p, w) == w # NULL /\ color[w] = WHITE /\ (p # NULL => color[p] = BLACK)

Barrier(p, w) ==
    IF Fires(p, w)
    THEN pc' = "strayed" /\ from' = from \ {w} /\ pending' = pending \cup {w}
    ELSE UNCHANGED <<pc, from, pending>>

(* A store into an object: the macros _stf and _stt of sgc.h.              *)
Store(o, old, w) ==
    /\ ClientRuns
    /\ o \in Usable /\ ~pointerless[o]
    /\ w \in Usable \cup {NULL}
    /\ old \in words[o] \cup {NULL}
    /\ Cardinality(Overwritten(words[o], old, w)) <= MaxWords
    /\ words' = [words EXCEPT ![o] = Overwritten(words[o], old, w)]
    /\ Barrier(o, w)
    /\ UNCHANGED <<client, color, pointerless, type, new, scanned, scanHead, free,
                   mode, cursor, cur, todo>>

(* A store into a handle: the macro _str.                                  *)
StoreRoot(h, w) ==
    /\ ClientRuns
    /\ w \in Usable \cup {NULL}
    /\ val' = [val EXCEPT ![h] = w]
    /\ Barrier(NULL, w)
    /\ UNCHANGED <<typetab, roots, recognised, header, new, scanned, scanHead, free,
                   mode, cursor, cur, todo>>

(* sgc_root: the first empty entry takes the handle.  When there is none   *)
(* nothing changes, and the caller is not told.                            *)
Root(h, i) ==
    /\ ClientRuns
    /\ val[h] \in Usable \cup {NULL}
    /\ roots[i] = NULL
    /\ \A j \in 1..(i-1) : roots[j] # NULL
    /\ roots' = [roots EXCEPT ![i] = h]
    /\ UNCHANGED <<typetab, val, recognised, header, lists, frame>>

(* sgc_unroot: the first entry with the handle is emptied.                 *)
Unroot(h, i) ==
    /\ ClientRuns
    /\ roots[i] = h
    /\ \A j \in 1..(i-1) : roots[j] # h
    /\ roots' = [roots EXCEPT ![i] = NULL]
    /\ UNCHANGED <<typetab, val, recognised, header, lists, frame>>

(* sgc_register_type and sgc_unregister_type.                              *)
RegisterType(t) ==
    /\ ClientRuns
    /\ typetab' = typetab \cup {t}
    /\ UNCHANGED <<roots, val, recognised, header, lists, frame>>

UnregisterType(t) ==
    /\ ClientRuns
    /\ typetab' = typetab \ {t}
    /\ UNCHANGED <<roots, val, recognised, header, lists, frame>>
-----------------------------------------------------------------------------
(* A collection.                                                           *)

(* Mutant: the join forgets the second list.                               *)
Joined_ScanOnly == Scan

(* sgc_dlist_join(sgc_scan_list, sgc_new_list)                             *)
Joined == Scan \cup new

(* Mutants: sgc_clear paints nothing; it paints the red ones as well.      *)
Cleared_None(F) == color
Cleared_Red(F)  == [o \in Object |-> IF o \in F THEN WHITE ELSE color[o]]

(* sgc_clear over the list F: it "keeps the red ones".                     *)
Cleared(F) == [o \in Object |->
                  IF o \in F /\ color[o] # RED THEN WHITE ELSE color[o]]

(* What sgc_run and sgc_search_memory_leaks begin with: the list joined of *)
(* 'scan' and 'new' becomes 'from', the two are emptied, and sgc_clear is  *)
(* called.                                                                 *)
StartCycle(m) ==
    /\ pc = "client"
    /\ mode' = m
    /\ from' = Joined
    /\ new' = {} /\ pending' = {} /\ scanned' = {}
    /\ color' = Cleared(Joined)
    /\ pc' = IF m = "leaks" THEN "count" ELSE "roots"
    /\ UNCHANGED <<client, words, pointerless, type, scanHead, free, cursor, cur, todo>>

Run == StartCycle("run")
SearchMemoryLeaks == StartCycle("leaks")

(* The callback has been called for every object of 'from'.                *)
CountDone ==
    /\ pc = "count"
    /\ pc' = "roots"
    /\ UNCHANGED <<client, header, lists, mode, cursor, cur, todo>>

(* Mutant: the loop stops one entry early.                                 *)
AtEntry_Short == cursor < MaxRoots

(* The entry of sgc_roots that sgc_mark is at, and the object it names.    *)
AtEntry == cursor <= MaxRoots
Marking == pc = "roots" /\ AtEntry
Target  == IF roots[cursor] = NULL THEN NULL ELSE val[roots[cursor]]
(* Mutant: a NULL handle is marked like any other.                         *)
Skipped_NoNull == IF Target \in recognised THEN color[Target] = RED ELSE Target # NULL

(* Mutant: the test of validity is left out.                               *)
Skipped_NoValid == IF Target = NULL THEN TRUE ELSE color[Target] = RED

(* An entry that sgc_mark passes over.                                     *)
Skipped == IF Target \in recognised THEN color[Target] = RED ELSE TRUE

(* An empty entry, a NULL handle, an object the client freed, a block      *)
(* below the interval.                                                     *)
SkipRoot ==
    /\ Marking /\ Skipped
    /\ cursor' = cursor + 1
    /\ UNCHANGED <<client, header, lists, pc, mode, cur, todo>>

(* The object is painted GRAY and goes from 'from' to the end of 'scan'.   *)
MarkRoot ==
    /\ Marking /\ ~Skipped
    /\ Target \in from
    /\ color' = [color EXCEPT ![Target] = GRAY]
    /\ from' = from \ {Target}
    /\ pending' = pending \cup {Target}
    /\ scanHead' = IF pending = {} THEN Target ELSE scanHead
    /\ cursor' = cursor + 1
    /\ UNCHANGED <<client, words, pointerless, type, new, scanned, free, pc, mode, cur, todo>>

(* An earlier entry put the object on 'scan'.  It is unlinked there and    *)
(* appended to its own list: no change, unless it is the head and has      *)
(* others behind it.  Then sgc_dlist_remove_node leaves its links NULL,    *)
(* and sgc_dlist_append reads list->prev->next through them.  An object    *)
(* on no list, a reclaimed block, would be unlinked by links that are the  *)
(* allocator's.                                                            *)
Relinkable == Target \in pending /\ (Target = scanHead => pending = {Target})

RemarkRoot ==
    /\ Marking /\ ~Skipped
    /\ Target \notin from
    /\ IF Relinkable
       THEN pc' = pc /\ cursor' = cursor + 1
       ELSE pc' = "crashed" /\ UNCHANGED cursor
    /\ UNCHANGED <<client, header, lists, mode, cur, todo>>

RootsDone ==
    /\ pc = "roots" /\ ~AtEntry
    /\ pc' = "scan" /\ cursor' = 1 /\ scanHead' = NULL
    /\ UNCHANGED <<client, header, new, from, pending, scanned, free, mode, cur, todo>>

(* Mutant: a pointerless object is left before scan_ptr has moved on.      *)
ScanObject_Stays(o) ==
    /\ pc = "scan" /\ todo = {}
    /\ o \in pending
    /\ color' = Blackened(o)
    /\ pending' = IF pointerless[o] THEN pending ELSE pending \ {o}
    /\ scanned' = IF pointerless[o] THEN scanned ELSE scanned \cup {o}
    /\ cur' = o /\ todo' = Out(o)
    /\ UNCHANGED <<client, words, pointerless, type, new, from, scanHead, free, pc, mode, cursor>>

(* The second loop of sgc_mark: the next object of 'scan' turns BLACK, and *)
(* sgc_scan_mem is called unless it is pointerless.                        *)
ScanObject(o) ==
    /\ pc = "scan" /\ todo = {}
    /\ o \in pending
    /\ color' = Blackened(o)
    /\ pending' = pending \ {o}
    /\ scanned' = scanned \cup {o}
    /\ cur' = o /\ todo' = Out(o)
    /\ UNCHANGED <<client, words, pointerless, type, new, from, scanHead, free, pc, mode, cursor>>

(* Mutant: sgc_scan_mem takes objects that the client freed.               *)
Unmarked_Red(w) == color[w] \in {WHITE, RED}

Unmarked(w) == color[w] = WHITE

(* One word of sgc_scan_mem.  A WHITE referee goes to the end of 'scan',   *)
(* but it is the object being scanned that is painted GRAY: the referee    *)
(* stays WHITE until the scan reaches it, and is moved again, from 'scan'  *)
(* to its end, for each further object that points to it.                  *)
ScanWord(w) ==
    /\ pc = "scan" /\ w \in todo
    /\ Unmarked(w) => w \in from \cup pending
    /\ todo' = todo \ {w}
    /\ IF Unmarked(w)
       THEN /\ color' = [color EXCEPT ![cur] = GRAY]
            /\ from' = from \ {w}
            /\ pending' = pending \cup {w}
       ELSE UNCHANGED <<color, from, pending>>
    /\ UNCHANGED <<client, words, pointerless, type, new, scanned, scanHead, free,
                   pc, mode, cursor, cur>>

(* A WHITE referee that is on neither list: a reclaimed block.             *)
StrayWord(w) ==
    /\ pc = "scan" /\ w \in todo
    /\ Unmarked(w) /\ w \notin from \cup pending
    /\ pc' = "crashed"
    /\ UNCHANGED <<client, header, lists, mode, cursor, cur, todo>>

(* Mutant: the scan ends with the words of one object.                     *)
EndOfScan_Early == todo = {}

(* The scan pointer is back at the head of 'scan'.                         *)
EndOfScan == todo = {} /\ pending = {}

ScanDone ==
    /\ pc = "scan" /\ EndOfScan
    /\ pc' = IF mode = "leaks" THEN "report" ELSE "sweep"
    /\ cur' = NULL
    /\ UNCHANGED <<client, header, lists, mode, cursor, todo>>

(* The callback has been called for every object of 'scan' and 'from'.     *)
ReportDone ==
    /\ pc = "report"
    /\ pc' = "sweep"
    /\ UNCHANGED <<client, header, lists, mode, cursor, cur, todo>>
-----------------------------------------------------------------------------
(* sgc_sweep, one action per object of 'from'.                             *)

(* Mutant: the object stays on 'from'.                                     *)
Reclaim_KeepsLink(o) == free' = free \cup {o} /\ UNCHANGED from

(* sgc_from_list_remove, sgc_allocator_free                                *)
Reclaim(o) == free' = free \cup {o} /\ from' = from \ {o}

(* sgc_run frees the object, at once when its type has no finaliser.       *)
SweepObject(o) ==
    /\ pc = "sweep" /\ mode = "run"
    /\ o \in from
    /\ type[o] \notin typetab
    /\ Reclaim(o)
    /\ UNCHANGED <<client, header, new, pending, scanned, scanHead, frame>>

CallFinaliser(o) ==
    /\ pc = "sweep" /\ mode = "run"
    /\ o \in from
    /\ type[o] \in typetab
    /\ pc' = "finalise" /\ cur' = o
    /\ UNCHANGED <<client, header, lists, mode, cursor, todo>>

FinaliserReturns ==
    /\ pc = "finalise"
    /\ Reclaim(cur)
    /\ pc' = "sweep" /\ cur' = NULL
    /\ UNCHANGED <<client, header, new, pending, scanned, scanHead, mode, cursor, todo>>

(* sgc_search_memory_leaks frees what the client had freed, with no        *)
(* finaliser, and forgets what is WHITE: it stays allocated, on no list.   *)
SweepFreed(o) ==
    /\ pc = "sweep" /\ mode = "leaks"
    /\ o \in from /\ color[o] = RED
    /\ Reclaim(o)
    /\ UNCHANGED <<client, header, new, pending, scanned, scanHead, frame>>

DropLeaked(o) ==
    /\ pc = "sweep" /\ mode = "leaks"
    /\ o \in from /\ color[o] # RED
    /\ from' = from \ {o}
    /\ UNCHANGED <<client, header, new, pending, scanned, scanHead, free, frame>>

SweepDone ==
    /\ pc = "sweep" /\ from = {}
    /\ pc' = "client" /\ mode' = "run"
    /\ UNCHANGED <<client, header, lists, cursor, cur, todo>>
-----------------------------------------------------------------------------
Client == \/ \E o \in Object, t \in Type, p \in BOOLEAN : NewObject(o, t, p)
          \/ \E o \in Object : FreeObject(o)
          \/ \E o, n \in Object : ResizeObject(o, n)
          \/ \E o \in Object : ResizeFails(o)
          \/ \E o \in Object, old, w \in Object \cup {NULL} : Store(o, old, w)
          \/ \E h \in Handle, w \in Object \cup {NULL} : StoreRoot(h, w)
          \/ \E h \in Handle, i \in Slot : Root(h, i)
          \/ \E h \in Handle, i \in Slot : Unroot(h, i)
          \/ \E t \in Type : RegisterType(t)
          \/ \E t \in Type : UnregisterType(t)
          \/ Run
          \/ SearchMemoryLeaks

Mark == \/ CountDone
        \/ SkipRoot
        \/ MarkRoot
        \/ RemarkRoot
        \/ RootsDone
        \/ \E o \in Object : ScanObject(o)
        \/ \E w \in Object : ScanWord(w)
        \/ \E w \in Object : StrayWord(w)
        \/ ScanDone

Sweep == \/ ReportDone
         \/ \E o \in Object : SweepObject(o)
         \/ \E o \in Object : CallFinaliser(o)
         \/ FinaliserReturns
         \/ \E o \in Object : SweepFreed(o)
         \/ \E o \in Object : DropLeaked(o)
         \/ SweepDone

Next == Client \/ Mark \/ Sweep

Spec == Init /\ [][Next]_vars

(* A collection runs to its end in the thread that called it, its          *)
(* finalisers and its callbacks return; nothing obliges the client to call *)
(* anything.                                                               *)
FairSpec == Spec /\ WF_vars(Mark \/ Sweep)
-----------------------------------------------------------------------------
(***************************************************************************)
(* Properties.                                                             *)
(***************************************************************************)

(* Every variable has its type, and the object that a phase is about is    *)
(* there: cur while words are left to scan, and in a finaliser.            *)
TypeOK ==
    /\ color \in [Object -> Color]
    /\ words \in [Object -> SUBSET Object]
    /\ pointerless \in [Object -> BOOLEAN]
    /\ type \in [Object -> Type]
    /\ typetab \subseteq Type
    /\ roots \in [Slot -> Handle \cup {NULL}]
    /\ val \in [Handle -> Object \cup {NULL}]
    /\ recognised \subseteq Object
    /\ new \subseteq Object /\ from \subseteq Object
    /\ pending \subseteq Object /\ scanned \subseteq Object
    /\ scanHead \in Object \cup {NULL}
    /\ free \subseteq Object
    /\ pc \in Phase /\ mode \in {"run", "leaks"}
    /\ cursor \in 1..(MaxRoots + 1)
    /\ cur \in Object \cup {NULL}
    /\ todo \subseteq Object

(* An object is on one list at most, and a block on a list is not free:    *)
(* sgc_from_list_remove and the appends that follow it keep the rings      *)
(* apart through a whole cycle, and no block is handed out twice.          *)
OnOneList ==
    /\ new \cap (from \cup Scan \cup free) = {}
    /\ from \cap (Scan \cup free) = {}
    /\ Scan \cap free = {}
    /\ pending \cap scanned = {}

(* What tracing is about: the objects that every set holds which holds the *)
(* targets of the registered roots and the targets of its members' words,  *)
(* those the client freed apart.                                           *)
Closed(R) ==
    /\ \A o \in RootTargets : color[o] # RED => o \in R
    /\ \A o \in R : \A p \in Out(o) : color[p] # RED => p \in R

Reachable == {o \in Object : \A R \in SUBSET Object : Closed(R) => o \in R}

(* The objects that the collector has not found to be garbage.             *)
Kept == new \cup Scan \cup IF pc \in {"report", "sweep", "finalise"} THEN {} ELSE from

(* A registered handle points to an object that is kept or to one the      *)
(* client freed itself, whose block stays RED until it is reused.          *)
RootsAreKept == \A o \in RootTargets : o \in Kept \/ color[o] = RED

(* So does every word of an object that is kept: no sequence of calls,     *)
(* finalisers that allocate, free and store included, leaves a pointer to  *)
(* reclaimed memory where the client can find it.                          *)
WordsAreKept ==
    \A o \in Kept : \A p \in Out(o) : p \in Kept \/ color[p] = RED

NoDangling == RootsAreKept /\ WordsAreKept

(* sgc_allocator_free is never called on an object that the client can     *)
(* reach from a registered root, at the moment of the call: finalisers may *)
(* have changed the graph since it was marked.                             *)
OnlyGarbageIsFreed ==
    [][\A o \in free' \ free : o \notin Reachable]_vars

(* Marking ends with the reachable objects on the 'scan' list, and no      *)
(* other: a scan that stops early loses objects, one that marks too much   *)
(* leaks them.                                                             *)
MarksExactly ==
    [][pc = "scan" /\ pc' \in {"report", "sweep"} => scanned = Reachable]_vars

(* In the single-threaded build the write barriers (sgc.h:143-154) send    *)
(* their message in one place only: in the callback that                   *)
(* sgc_search_memory_leaks calls between sgc_clear and sgc_mark            *)
(* (sgc.c:418), where all objects that are not freed are WHITE, and there  *)
(* for a handle: sgc_wb2 needs a BLACK object, which only an allocation in *)
(* that callback would give it (MayAllocate).  Between the calls, in       *)
(* finalisers and in the reports after sgc_mark no object the client may   *)
(* use is WHITE.                                                           *)
BarrierFiresInCallbackOnly ==
    [][pc # "strayed" /\ pc' = "strayed" => pc = "count" /\ UNCHANGED words]_vars

(* "Red objects should never be in the 'scan' list" (sgc.c:650): while     *)
(* sgc_mark runs, an object the client freed is not put there.             *)
RedNotScanned == pc \in {"roots", "scan"} => \A o \in Scan : color[o] # RED

(* Every block is free or on a list, and leaves its list without becoming  *)
(* free only where sgc_search_memory_leaks drops what it reported.         *)
OnAList == new \cup from \cup Scan
LostByLeakSearchOnly ==
    [][\A o \in OnAList \ OnAList' : o \notin free' => pc = "sweep" /\ mode = "leaks"]_vars

(* A list operation of sgc_mark fails in one way only: an entry of         *)
(* sgc_roots names the object of an earlier entry.  It never meets a       *)
(* reclaimed block, and a client whose roots share no object is safe.      *)
EarlierEntry == \E j \in Slot : j < cursor /\ roots[j] # NULL /\ val[roots[j]] = Target
CrashNeedsSharedRoot == pc = "crashed" => AtEntry /\ Target # NULL /\ EarlierEntry

(* sgc.c:589 says "Remove from 'from' set" of the root that is marked:     *)
(* the object is in that set.                                              *)
MarkedRootIsInFrom == Marking /\ ~Skipped => Target \in from

(* A collection comes to its end, whatever the shape of the object graph   *)
(* and whatever finalisers do before they return.                          *)
Ended == pc \in {"client", "crashed", "strayed"}
CycleEnds == ~Ended ~> Ended

(* Why it does: each step brings it nearer its end, though the scan puts   *)
(* objects on the list that it is going along, and moves those that are    *)
(* there.  No object that waits to be scanned or swept is added to those   *)
(* that wait, a finaliser's and a callback's calls add none, and what      *)
(* leaves them as they are goes on to the next phase, root entry or word.  *)
Waiting == from \cup pending

Rank == [count |-> 5, roots |-> 4, scan |-> 3, report |-> 2, sweep |-> 1, finalise |-> 0]

Fewer(A, B) == A \subseteq B /\ A # B

Nearer ==
    \/ Fewer(Waiting', Waiting)
    \/ /\ Waiting' = Waiting
       /\ \/ Rank[pc'] < Rank[pc]
          \/ /\ pc' = pc
             /\ \/ cursor < cursor'
                \/ cursor' = cursor /\ Fewer(todo', todo)

InCycle == pc \in DOMAIN Rank

CycleAdvances ==
    [][InCycle /\ InCycle' =>
          \/ Nearer
          \/ ClientRuns /\ UNCHANGED <<Waiting, pc, cursor, todo>>]_vars

(* What is unreachable when sgc_run starts is free when it returns.        *)
GarbageIsReclaimed ==
    \A o \in Object :
        pc = "roots" /\ mode = "run" /\ o \in from \ Reachable
            ~> o \in free \/ pc = "crashed"
-----------------------------------------------------------------------------
(* The collector keeps the promise of SgcContract.  A block that is on no  *)
(* list and not free, or waits to be swept, is condemned.                  *)
Contract == INSTANCE SgcContract WITH
    usable    <- Kept,
    condemned <- Object \ (free \cup Kept),
    edges     <- [o \in Object |-> IF o \in Kept THEN Out(o) ELSE {}],
    anchors   <- RootTargets,
    disowned  <- {o \in Object : color[o] = RED}

KeepsContract == Contract!Spec
=============================================================================
