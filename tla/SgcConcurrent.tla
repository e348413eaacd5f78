---------------------------- MODULE SgcConcurrent ----------------------------
(***************************************************************************)
(* The collector of sgc.c built with SGC_USE_THREADS and started by        *)
(* sgc_init(ptr, 1): sgc_main calls sgc_run over and over in a thread of   *)
(* its own while client threads create, store and free objects.  The       *)
(* clients tell the collector what they do through the message queue, and  *)
(* the collector handles messages at two places only: at the start of a    *)
(* cycle and after each object it scans.                                   *)
(*                                                                         *)
(* The queue is first in, first out here (SgcMessages models how           *)
(* sgc_fifo.h does that) and the handshake for the stacks is one step      *)
(* that the thread takes part in (SgcThread).  One handle is registered    *)
(* throughout: SgcCollector has handles that come and go and share         *)
(* objects.  New objects are cleared, as with SGC_ZERO.                    *)
(***************************************************************************)
EXTENDS Naturals, Sequences, FiniteSets

CONSTANTS
    Object,         \* the blocks that sgc_allocator.c hands out
    Recognised,     \* those that pass sgc_allocator_is_valid: not below interval.low
    Field,          \* the words of an object
    Thread,         \* the attached client threads
    NULL,
    MaxQueue,       \* bound: the queue is shorter when a client frees, resizes or stores in
                    \* the handle, and no longer when it creates an object or stores in one
    MaxStack,       \* bound: objects on one stack at a time
    MaxInUse,       \* bound: blocks in use, but for one more of a resize
    MaxManual       \* bound: blocks in use when a client frees one

ASSUME ConcurrentAssumption ==
    /\ Recognised \subseteq Object
    /\ MaxQueue \in Nat
    /\ MaxStack \in Nat
    /\ MaxInUse \in Nat
    /\ MaxManual \in Nat
    /\ NULL \notin Object

VARIABLES
    color,          \* mem->color of every block
    words,          \* words[o][f]: what word f of block o points to
    root,           \* *handle, of the handle in sgc_roots
    main,           \* the thread that called sgc_init, or NULL: the others are attached
    stack,          \* stack[t]: the objects on the stack of thread t
    op,             \* op[t]: the library call or macro thread t is in
    freed,          \* the objects a client called sgc_free_object for
    queue,          \* sgc_message_queue
    new,            \* sgc_new_list
    from,           \* sgc_from_list
    pending,        \* sgc_scan_list, the part the scan pointer has not reached
    scanned,        \* sgc_scan_list, the part it has passed
    free,           \* the blocks the allocator has free
    pc,             \* where the collector thread is: see Phase
    unclear,        \* the objects sgc_clear has not come to
    unscanned,      \* the threads sgc_scan_threads has not come to
    cur,            \* the object in sgc_scan_mem
    todo,           \* the words of cur that sgc_scan_mem has not looked at
    missed          \* history: what the clients hid in this cycle, see Escaped

heap  == <<color, words, root>>
mutator == <<stack, op, freed>>
lists == <<new, from, pending, scanned, free>>
walk  == <<unclear, unscanned, cur, todo>>
vars  == <<main, heap, mutator, queue, lists, pc, walk, missed>>

WHITE == "white"   GRAY == "gray"   BLACK == "black"   RED == "red"
Color == {WHITE, GRAY, BLACK, RED}

(* "start": sgc_handle_messages at the start of sgc_run; "clear":          *)
(* sgc_clear, and the loop of sgc_mark over the roots; "mark": the rest of *)
(* sgc_mark; "sweep": sgc_sweep.  The last three are where the model ends: *)
(* "dangling": a block was reclaimed that a client can still reach;        *)
(* "crashed" and "reclaimed": an object was to be taken from its list that *)
(* is on none, or a block that the allocator has.                          *)
Phase == {"start", "clear", "mark", "sweep", "dangling", "crashed", "reclaimed"}

Broken == pc \in {"dangling", "crashed", "reclaimed"}

Message == [kind : {"new", "cti", "free"}, obj : Object]
NewMessage(o)  == [kind |-> "new", obj |-> o]
CtiMessage(o)  == [kind |-> "cti", obj |-> o]
FreeMessage(o) == [kind |-> "free", obj |-> o]

Sent(m) == \E i \in 1..Len(queue) : queue[i] = m

Ptr  == Object \cup {NULL}
Op   == [kind : {"none", "store", "copy"}, src : Ptr, dst : Ptr]
Idle == [kind |-> "none", src |-> NULL, dst |-> NULL]
-----------------------------------------------------------------------------
Init == /\ color = [o \in Object |-> WHITE]
        /\ words = [o \in Object |-> [f \in Field |-> NULL]]
        /\ root = NULL
        /\ main \in Thread \cup {NULL}
        /\ stack = [t \in Thread |-> {}]
        /\ op = [t \in Thread |-> Idle]
        /\ freed = {}
        /\ queue = <<>>
        /\ new = {} /\ from = {} /\ pending = {} /\ scanned = {}
        /\ free = Object
        /\ pc = "start"
        /\ unclear = {} /\ unscanned = {} /\ cur = NULL /\ todo = {}
        /\ missed = {}
-----------------------------------------------------------------------------
(* The clients.  A thread uses the objects on its stack that have not been *)
(* freed, and is in one call at a time.                                    *)
Runs(t) == ~Broken /\ op[t] = Idle
Calls(t)  == Runs(t) /\ Len(queue) < MaxQueue
Stores(t) == Runs(t) /\ Len(queue) <= MaxQueue
Uses(t, o) == o \in stack[t] \ freed
InUse == Cardinality(Object \ free)

(* A client does not free or resize what another thread is resizing.       *)
Settled(o) == \A u \in Thread : op[u].kind = "copy" => op[u].src # o

(* A pointer comes to the stack of t.                                      *)
Push(t, o) == /\ Cardinality(stack[t] \cup {o}) <= MaxStack
              /\ stack' = [stack EXCEPT ![t] = @ \cup {o}]

(* sgc_message_send                                                        *)
Send(m) == queue' = Append(queue, m)

(* The stack of t has been scanned in this cycle.                          *)
StackPassed(t) == pc \in {"mark", "sweep"} /\ t \notin unscanned

(* Object p will not be scanned any more in this cycle.                    *)
Passed(p) == p \notin from \cup pending

(* sgc_new_object: its client shows nothing of the object to the collector *)
(* before the message is in the queue.  (A word left on a stack may lead   *)
(* there while the header is written, sgc.c:212-229; the model has such    *)
(* words before and after, not in between.)                                *)
NewObject(t, o) ==
    /\ Stores(t) /\ InUse < MaxInUse
    /\ o \in free
    /\ free' = free \ {o}
    /\ color' = [color EXCEPT ![o] = BLACK]
    /\ words' = [words EXCEPT ![o] = [f \in Field |-> NULL]]
    /\ freed' = freed \ {o}
    /\ Push(t, o)
    /\ Send(NewMessage(o))
    /\ UNCHANGED <<main, root, op, new, from, pending, scanned, pc, walk, missed>>

(* sgc_free_object                                                         *)
FreeObject(t, o) ==
    /\ Calls(t)
    /\ Uses(t, o) /\ Settled(o) /\ InUse <= MaxManual
    /\ freed' = freed \cup {o}
    /\ Send(FreeMessage(o))
    /\ UNCHANGED <<main, heap, stack, op, lists, pc, walk, missed>>

(* sgc_resize_object to another size class, up to the return of            *)
(* sgc_new_object.                                                         *)
ResizeObject(t, o, n) ==
    /\ Calls(t)
    /\ Uses(t, o) /\ Settled(o)
    /\ n \in free
    /\ free' = free \ {n}
    /\ color' = [color EXCEPT ![n] = BLACK]
    /\ words' = [words EXCEPT ![n] = [f \in Field |-> NULL]]
    /\ freed' = freed \ {n}
    /\ Push(t, n)
    /\ op' = [op EXCEPT ![t] = [kind |-> "copy", src |-> o, dst |-> n]]
    /\ Send(NewMessage(n))
    /\ UNCHANGED <<main, root, new, from, pending, scanned, pc, walk, missed>>

(* The rest of sgc_resize_object: as many words as both objects hold are   *)
(* copied, with no barrier, and the old object is freed.                   *)
CopyAndFree(t, F) ==
    /\ ~Broken /\ op[t].kind = "copy"
    /\ LET o == op[t].src  n == op[t].dst
           copied == {words[o][f] : f \in F}
       IN /\ words' = [words EXCEPT ![n] =
                          [f \in Field |-> IF f \in F THEN words[o][f] ELSE @[f]]]
          /\ freed' = freed \cup {o}
          /\ missed' = missed \cup (from \cap copied)
          /\ Send(FreeMessage(o))
    /\ op' = [op EXCEPT ![t] = Idle]
    /\ UNCHANGED <<main, color, root, stack, lists, pc, walk>>

(* A pointer comes to the stack, from an object or from the handle.  No    *)
(* macro of sgc.h is about this.                                           *)
Load(t, w) ==
    /\ w \in Object \ (freed \cup stack[t])
    /\ Push(t, w)
    /\ missed' = IF StackPassed(t) /\ w \in from THEN missed \cup {w} ELSE missed
    /\ UNCHANGED <<main, heap, op, freed, queue, lists, pc, walk>>

LoadField(t, p, f) == Runs(t) /\ Uses(t, p) /\ Load(t, words[p][f])
LoadRoot(t) == Runs(t) /\ Load(t, root)

(* A pointer leaves the stack.                                             *)
Drop(t, o) ==
    /\ Runs(t)
    /\ o \in stack[t]
    /\ stack' = [stack EXCEPT ![t] = @ \ {o}]
    /\ UNCHANGED <<main, heap, op, freed, queue, lists, pc, walk, missed>>

(* The macros _stf, _stt and _str: first the store, then the barrier, which *)
(* stores of NULL leave at once.                                           *)
InBarrier(p, w) == IF w = NULL THEN Idle ELSE [kind |-> "store", src |-> p, dst |-> w]

StoreField(t, p, f, w) ==
    /\ Stores(t)
    /\ Uses(t, p) /\ (w # NULL => Uses(t, w))
    /\ words[p][f] # w
    /\ words' = [words EXCEPT ![p][f] = w]
    /\ op' = [op EXCEPT ![t] = InBarrier(p, w)]
    /\ UNCHANGED <<main, color, root, stack, freed, queue, lists, pc, walk, missed>>

StoreRoot(t, w) ==
    /\ Calls(t)
    /\ w # NULL => Uses(t, w)
    /\ root # w
    /\ root' = w
    /\ op' = [op EXCEPT ![t] = InBarrier(NULL, w)]
    /\ UNCHANGED <<main, color, words, stack, freed, queue, lists, pc, walk, missed>>

(* Mutant: a handle that changes is not reported.                          *)
Fires_NoRoots(p, w) == p # NULL /\ color[p] = BLACK /\ color[w] = WHITE

(* When sgc_wb2(p, w) and, for p = NULL, sgc_wb1(w) send a message.        *)
Fires(p, w) == /\ p # NULL => color[p] = BLACK
               /\ color[w] = WHITE

(* A pointer from p to w that the barrier overlooks although p will not be *)
(* scanned in this cycle: sgc_clear has not come to w yet.                 *)
Overlooked(p, w) == p # NULL /\ Passed(p) /\ w \in from /\ color[w] # WHITE

Barrier(t) ==
    /\ ~Broken /\ op[t].kind = "store"
    /\ LET p == op[t].src  w == op[t].dst
       IN /\ IF Fires(p, w) THEN Send(CtiMessage(w)) ELSE UNCHANGED queue
          /\ missed' = IF Overlooked(p, w) THEN missed \cup {w} ELSE missed
    /\ op' = [op EXCEPT ![t] = Idle]
    /\ UNCHANGED <<main, heap, stack, freed, lists, pc, walk>>
-----------------------------------------------------------------------------
(* The collector thread.                                                   *)

(* sgc_mark after the stacks, and its call of sgc_handle_messages when all *)
(* words of cur have been looked at.                                       *)
Scanning == pc = "mark" /\ unscanned = {}
Draining == Scanning /\ cur # NULL /\ todo = {}

Handles == (pc = "start" \/ Draining) /\ queue # <<>>
Handled(m) == Handles /\ Head(queue) = m /\ queue' = Tail(queue)

(* sgc_from_list_remove and sgc_scan_list_append of the objects W.  The    *)
(* links of a new object are NULL until its message is handled             *)
(* (sgc.c:216-217), and sgc_dlist_remove stores through the one to the     *)
(* previous object (sgc_dlist.c:80).                                       *)
MoveToScan(W, next) ==
    IF W \subseteq from \cup pending
    THEN from' = from \ W /\ pending' = pending \cup W /\ pc' = next
    ELSE /\ \E o \in W \ (from \cup pending) :
                pc' = IF o \in free THEN "reclaimed" ELSE "crashed"
         /\ UNCHANGED <<from, pending>>

(* sgc_new_list_append                                                     *)
HandleNew(o) ==
    /\ Handled(NewMessage(o))
    /\ new' = new \cup {o}
    /\ UNCHANGED <<main, heap, mutator, from, pending, scanned, free, pc, walk, missed>>

(* The target, if it is WHITE, goes to the end of 'scan'; it stays WHITE.  *)
HandleCti(o) ==
    /\ Handled(CtiMessage(o))
    /\ IF color[o] = WHITE THEN MoveToScan({o}, pc) ELSE UNCHANGED <<from, pending, pc>>
    /\ UNCHANGED <<main, heap, mutator, new, scanned, free, walk, missed>>

(* The object is painted RED wherever it is.                               *)
HandleFree(o) ==
    /\ Handled(FreeMessage(o))
    /\ color' = [color EXCEPT ![o] = RED]
    /\ UNCHANGED <<main, words, root, mutator, lists, pc, walk, missed>>

(* Mutant: the objects that became known since the last cycle stay behind. *)
Joined_ScanOnly == scanned

(* What the joined 'scan' and 'new' lists hold.                            *)
Joined == scanned \cup new

(* sgc_run, once the queue was found empty: the lists are joined.          *)
StartCycle ==
    /\ pc = "start" /\ queue = <<>>
    /\ from' = Joined
    /\ new' = {} /\ scanned' = {}
    /\ unclear' = Joined
    /\ pc' = "clear"
    /\ missed' = {}
    /\ UNCHANGED <<main, heap, mutator, queue, pending, free, unscanned, cur, todo>>

(* One object of sgc_clear.                                                *)
ClearObject(o) ==
    /\ pc = "clear" /\ o \in unclear
    /\ unclear' = unclear \ {o}
    /\ color' = IF color[o] = RED THEN color ELSE [color EXCEPT ![o] = WHITE]
    /\ UNCHANGED <<main, words, root, mutator, queue, lists, pc,
                   unscanned, cur, todo, missed>>

(* Mutant: the first object of 'from' is taken for the end of the loop.    *)
Cleared_Early == pc = "clear"

(* sgc_clear is back at the head of 'from'.                                *)
Cleared == pc = "clear" /\ unclear = {}

(* Mutant: the colour of the object behind the handle is not looked at.   *)
MarksRoot_Red == root \in Recognised

(* Whether sgc_mark takes the object behind the handle.                    *)
MarksRoot == root \in Recognised /\ color[root] # RED

(* The loop of sgc_mark over sgc_roots.  The colour is only compared with  *)
(* RED: an object whose SGC_NEW_MESSAGE is still in the queue is taken up  *)
(* too, and on no list yet.                                                *)
MarkRoot ==
    /\ Cleared
    /\ IF MarksRoot
       THEN color' = [color EXCEPT ![root] = GRAY] /\ MoveToScan({root}, "mark")
       ELSE pc' = "mark" /\ UNCHANGED <<color, from, pending>>
    /\ unscanned' = Thread
    /\ UNCHANGED <<main, words, root, mutator, queue, new, scanned, free,
                   unclear, cur, todo, missed>>

(* Mutant: only objects that are freed are left out.                       *)
Found_Any(W) == {o \in W \cap Recognised : color[o] # RED}

(* The words of a stack that sgc_scan_thread takes up.                     *)
Found(W) == {o \in W \cap Recognised : color[o] = WHITE}

(* What sgc_scan_thread reads of the stack that thread t uses.  stack_top  *)
(* is the address that was given to sgc_init; of a thread that calls       *)
(* sgc_thread_attach it is the lowest address of the stack                 *)
(* (sgc_thread.c:126), which grows down: only the words below the frame of *)
(* sgc_thread_sync are read, and the thread uses none of them.             *)
Read(t) == IF t = main THEN stack[t] ELSE {}

(* sgc_scan_thread: between two calls, thread t waits in sgc_thread_sync   *)
(* while the collector looks at its stack, where earlier calls may have    *)
(* left any words S; a free block is as valid as one in use.               *)
ScanStack(t) ==
    /\ pc = "mark" /\ t \in unscanned
    /\ op[t] = Idle
    /\ \E S \in SUBSET Object :
          LET found == Found(Read(t) \cup S)
          IN /\ color' = [o \in Object |-> IF o \in found THEN GRAY ELSE color[o]]
             /\ MoveToScan(found, pc)
    /\ unscanned' = unscanned \ {t}
    /\ missed' = missed \cup ((stack[t] \ Read(t)) \cap from')
    /\ UNCHANGED <<main, words, root, mutator, queue, new, scanned, free,
                   unclear, cur, todo>>

(* The scan pointer comes to the next object of 'scan'.                    *)
ScanObject(o) ==
    /\ Scanning /\ cur = NULL
    /\ o \in pending
    /\ color' = [color EXCEPT ![o] = BLACK]
    /\ pending' = pending \ {o}
    /\ scanned' = scanned \cup {o}
    /\ cur' = o /\ todo' = Field
    /\ UNCHANGED <<main, words, root, mutator, queue, new, from, free, pc,
                   unclear, unscanned, missed>>

(* One word of sgc_scan_mem.  It is the object being scanned that is       *)
(* painted GRAY, not the referee.                                          *)
ScanWord(f) ==
    /\ Scanning /\ f \in todo
    /\ todo' = todo \ {f}
    /\ LET w == words[cur][f]
       IN IF w \in Recognised /\ color[w] = WHITE
          THEN color' = [color EXCEPT ![cur] = GRAY] /\ MoveToScan({w}, pc)
          ELSE UNCHANGED <<color, from, pending, pc>>
    /\ UNCHANGED <<main, words, root, mutator, queue, new, scanned, free,
                   unclear, unscanned, cur, missed>>

(* sgc_handle_messages returns: the queue was found empty.                 *)
Drained == Draining /\ queue = <<>>

DrainDone ==
    /\ Drained
    /\ cur' = NULL
    /\ UNCHANGED <<main, heap, mutator, queue, lists, pc,
                   unclear, unscanned, todo, missed>>

(* The scan pointer comes to the end of the list, or there was none.       *)
ScanDone ==
    /\ Scanning /\ cur = NULL /\ pending = {}
    /\ pc' = "sweep"
    /\ UNCHANGED <<main, heap, mutator, queue, lists, walk, missed>>
-----------------------------------------------------------------------------
(* What the clients can still get at: what their handle and stacks lead to *)
(* without passing an object they freed.                                   *)
Anchors == {o \in Object : o = root \/ \E t \in Thread : o \in stack[t]}

Closed(S) == \A p \in S, f \in Field : words[p][f] \in S \cup freed \cup {NULL}

Reachable == {o \in Object : \A S \in SUBSET Object :
                                Anchors \ freed \subseteq S /\ Closed(S) => o \in S}

(* One object of sgc_sweep; it keeps its colour.                           *)
SweepObject(o) ==
    /\ pc = "sweep" /\ o \in from
    /\ from' = from \ {o}
    /\ free' = free \cup {o}
    /\ pc' = IF o \in Reachable THEN "dangling" ELSE pc
    /\ UNCHANGED <<main, heap, mutator, queue, new, pending, scanned, walk, missed>>

SweepDone ==
    /\ pc = "sweep" /\ from = {}
    /\ pc' = "start"
    /\ UNCHANGED <<main, heap, mutator, queue, lists, walk, missed>>
-----------------------------------------------------------------------------
Client(t) ==
    \/ \E o \in Object : NewObject(t, o) \/ FreeObject(t, o) \/ Drop(t, o)
    \/ \E o, n \in Object : ResizeObject(t, o, n)
    \/ \E F \in SUBSET Field : CopyAndFree(t, F)
    \/ \E p \in Object, f \in Field : LoadField(t, p, f)
    \/ LoadRoot(t)
    \/ \E p \in Object, f \in Field, w \in Ptr : StoreField(t, p, f, w)
    \/ \E w \in Ptr : StoreRoot(t, w)
    \/ Barrier(t)

HandleMessage == \E o \in Object : HandleNew(o) \/ HandleCti(o) \/ HandleFree(o)

Cycle == \/ StartCycle
         \/ \E o \in Object : ClearObject(o)
         \/ MarkRoot
         \/ \E t \in Thread : ScanStack(t)
         \/ \E o \in Object : ScanObject(o)
         \/ \E f \in Field : ScanWord(f)
         \/ DrainDone
         \/ ScanDone
         \/ \E o \in Object : SweepObject(o)
         \/ SweepDone

Next == HandleMessage \/ Cycle \/ \E t \in Thread : Client(t)

Spec == Init /\ [][Next]_vars
-----------------------------------------------------------------------------
(***************************************************************************)
(* Properties.                                                             *)
(***************************************************************************)

(* Every variable has its type.                                            *)
TypeOK ==
    /\ color \in [Object -> Color]
    /\ words \in [Object -> [Field -> Ptr]]
    /\ root \in Ptr
    /\ main \in Thread \cup {NULL}
    /\ stack \in [Thread -> SUBSET Object]
    /\ op \in [Thread -> Op]
    /\ freed \subseteq Object
    /\ queue \in Seq(Message)
    /\ new \subseteq Object /\ from \subseteq Object
    /\ pending \subseteq Object /\ scanned \subseteq Object
    /\ free \subseteq Object
    /\ pc \in Phase
    /\ unclear \subseteq from /\ unscanned \subseteq Thread
    /\ cur \in Ptr /\ todo \subseteq Field
    /\ missed \subseteq Object

(* No block gets lost, and every one is in one place: with the allocator,  *)
(* on one list, or new and announced by one message in the queue.          *)
OnePlace ==
    /\ \A o \in Object : o \in free \cup new \cup from \cup pending \cup scanned
                             \/ Sent(NewMessage(o))
    /\ free \cap (new \cup from \cup pending \cup scanned) = {}
    /\ new \cap (from \cup pending \cup scanned) = {}
    /\ from \cap (pending \cup scanned) = {}
    /\ pending \cap scanned = {}
    /\ \A o \in Object : Sent(NewMessage(o)) => o \notin free \cup new \cup from \cup pending \cup scanned
    /\ \A i, j \in 1..Len(queue) :
          queue[i] = queue[j] /\ queue[i].kind = "new" => i = j

(* The collector comes upon an object that is on no list in one way only:  *)
(* the handle leads to it when sgc_mark goes through sgc_roots, while its  *)
(* SGC_NEW_MESSAGE is under way.  A word on a stack or in an object, or    *)
(* the message of a barrier, never leads it there.                         *)
CrashByHandleOnly ==
    [][pc' = "crashed" /\ pc # "crashed" => pc = "clear" /\ Sent(NewMessage(root))]_vars

(* The ways in which an object on 'from' escapes the collector: a client   *)
(* loaded it to a stack already scanned, sgc_resize_object copied it, the  *)
(* barrier overlooked it, or it is on the stack of an attached thread,     *)
(* which is not read; the message of a barrier is still under way when the *)
(* scan ends; a late SGC_FREE_MESSAGE of an earlier owner of the block     *)
(* painted it RED; or it is below the interval of sgc_interval.c.          *)
Escaped == {o \in from : \/ o \in missed
                         \/ Sent(CtiMessage(o))
                         \/ color[o] = RED
                         \/ o \notin Recognised}

(* The barriers, the scan of the stacks and the messages handled between   *)
(* two objects leave no other way: when sgc_sweep begins, and while it     *)
(* goes on, what it is going to reclaim although clients can reach it is   *)
(* among the objects that escaped or that those lead to.                   *)
LostByEscapeOnly ==
    pc = "sweep" =>
       LET escaped == Escaped  lost == Reachable \cap from
       IN \A S \in SUBSET Object : escaped \subseteq S /\ Closed(S) => lost \subseteq S

(* An object that sgc_handle_messages painted RED stays so until its block *)
(* is handed out again, unless it waits to be scanned: then the collector  *)
(* paints it BLACK and forgets that it was freed.  (sgc.c:650-651: "Red    *)
(* objects should never be in the 'scan' list.")                           *)
RedForgottenOnScanOnly ==
    [][\A o \in Object : color[o] = RED /\ color'[o] # RED
                             => o \in free \cup pending]_vars
=============================================================================
