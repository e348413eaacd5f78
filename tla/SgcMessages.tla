----------------------------- MODULE SgcMessages -----------------------------
(***************************************************************************)
(* The message queue of sgc_mess.c as the threaded build has it: a queue   *)
(* made of two stacks (sgc_fifo.h) and a third stack of free messages      *)
(* (sgc_lifo.h), which client threads and the collector thread use without *)
(* a lock.  Each load and store of the top of a stack is a step, as in the *)
(* unoptimised build that CMakeLists.txt asks for; sgc_lifo_pop loads it   *)
(* three times.                                                            *)
(*                                                                         *)
(* With sgc_init(ptr, 0) one thread does it all, and no two accesses       *)
(* overlap.  The counter n of a stack is left out: nothing reads it.       *)
(***************************************************************************)
EXTENDS Naturals, Sequences, FiniteSets, SequencesExt

CONSTANTS
    Client,         \* the threads that send
    GC,             \* the thread that handles and, at the end, cleans up
    Cell,           \* the messages that malloc hands out
    Pool,           \* those that sgc_message_module_init allocates
    Message,        \* what is sent, once each
    PastRace,       \* bound: FALSE, if nothing is looked at after the first race
    NULL

ASSUME MessagesAssumption ==
    /\ GC \notin Client
    /\ IsFiniteSet(Cell) /\ Pool \subseteq Cell
    /\ NULL \notin Cell \cup Message
    /\ PastRace \in BOOLEAN

VARIABLES
    link,           \* cell->link
    top,            \* top[l]: the top of stack l
    body,           \* what a message says: message, arg1, arg2
    unused,         \* the cells that are not allocated
    pc,             \* where thread t is, see Place
    on,             \* on[t]: the stack that t pushes to or pops from
    back,           \* back[t]: where it goes on from there
    arg,            \* arg[t]: the cell that it pushes
    v,              \* v[t]: v in sgc_lifo_pop, and what it returned
    x,              \* x[t]: a loaded top or link
    v1,             \* v1 in sgc_fifo_get
    msg,            \* msg[t]: the message that t sends
    begun,          \* history: the messages that clients were going to send
    dropped,        \* history: those for which there was no memory
    handled,        \* history: handled[m]: how often m was handled
    closing,        \* sgc_message_module_cleanup has begun
    raced           \* history: a store to a top fell into another's access

stacks == <<link, top, body, unused>>
frames == <<pc, on, back, arg, v, x, v1, msg>>
history == <<begun, dropped, handled, raced>>
vars == <<stacks, frames, history, closing>>

Thread == Client \cup {GC}
Stack  == {"free", "in", "out"}
Link   == Cell \cup {NULL}

(* "first" to "store": sgc_lifo_pop; "join", "publish": sgc_lifo_push;     *)
(* "popped": in sgc_message_new; "gotOut" to "moved": in sgc_fifo_get;     *)
(* "handle", "again": in sgc_handle_messages; "release": in                *)
(* sgc_message_module_cleanup; "crash": a load through NULL.               *)
Place == {"idle", "first", "test", "load", "link", "store", "join", "publish", "popped",
          "gotOut", "gotIn", "gotNext", "moved", "handle", "again", "release", "done", "crash"}

(* What sgc_message_module_init leaves.                                    *)
Init == /\ LET pile == SetToSeq(Pool)
           IN /\ link = [c \in Cell |-> IF \E i \in 2..Len(pile) : pile[i-1] = c
                                        THEN pile[CHOOSE i \in 2..Len(pile) : pile[i-1] = c]
                                        ELSE NULL]
              /\ top = [l \in Stack |-> IF l = "free" /\ Pool # {} THEN pile[1] ELSE NULL]
        /\ body = [c \in Cell |-> NULL]
        /\ unused = Cell \ Pool
        /\ pc = [t \in Thread |-> "idle"]
        /\ on = [t \in Thread |-> "free"]
        /\ back = [t \in Thread |-> "idle"]
        /\ arg = [t \in Thread |-> NULL]
        /\ v = [t \in Thread |-> NULL]
        /\ x = [t \in Thread |-> NULL]
        /\ v1 = NULL
        /\ msg = [t \in Client |-> NULL]
        /\ begun = {} /\ dropped = {}
        /\ handled = [m \in Message |-> 0]
        /\ closing = FALSE /\ raced = FALSE
-----------------------------------------------------------------------------
(* sgc_lifo.h                                                              *)
Goto(t, place) == pc' = [pc EXCEPT ![t] = place]

Pop(t, l, then) ==
    /\ Goto(t, "first")
    /\ on' = [on EXCEPT ![t] = l]
    /\ back' = [back EXCEPT ![t] = then]
    /\ UNCHANGED arg

Push(t, l, c, then) ==
    /\ Goto(t, "join")
    /\ on' = [on EXCEPT ![t] = l]
    /\ back' = [back EXCEPT ![t] = then]
    /\ arg' = [arg EXCEPT ![t] = c]

(* Thread t has begun to access stack l and has not come to the end.       *)
Inside(t, l) == on[t] = l /\ pc[t] \in {"test", "load", "link", "store", "publish"}

SetTop(t, c) ==
    /\ top' = [top EXCEPT ![on[t]] = c]
    /\ raced' = (raced \/ \E u \in Thread \ {t} : Inside(u, on[t]))

(* v = lf->top                                                             *)
First(t) ==
    /\ pc[t] = "first"
    /\ v' = [v EXCEPT ![t] = top[on[t]]]
    /\ Goto(t, "test")
    /\ UNCHANGED <<stacks, on, back, arg, x, v1, msg, history, closing>>

(* if (lf->top)                                                            *)
Test(t) ==
    /\ pc[t] = "test"
    /\ Goto(t, IF top[on[t]] = NULL THEN back[t] ELSE "load")
    /\ UNCHANGED <<stacks, on, back, arg, v, x, v1, msg, history, closing>>

(* lf->top = lf->top->link, in three steps.                                *)
LoadTop(t) ==
    /\ pc[t] = "load"
    /\ x' = [x EXCEPT ![t] = top[on[t]]]
    /\ Goto(t, IF top[on[t]] = NULL THEN "crash" ELSE "link")
    /\ UNCHANGED <<stacks, on, back, arg, v, v1, msg, history, closing>>

LoadLink(t) ==
    /\ pc[t] = "link"
    /\ x' = [x EXCEPT ![t] = link[x[t]]]
    /\ Goto(t, "store")
    /\ UNCHANGED <<stacks, on, back, arg, v, v1, msg, history, closing>>

StoreTop(t) ==
    /\ pc[t] = "store"
    /\ SetTop(t, x[t])
    /\ Goto(t, back[t])
    /\ UNCHANGED <<link, body, unused, on, back, arg, v, x, v1, msg,
                   begun, dropped, handled, closing>>

(* cl->link = lf->top                                                      *)
Join(t) ==
    /\ pc[t] = "join"
    /\ link' = [link EXCEPT ![arg[t]] = top[on[t]]]
    /\ Goto(t, "publish")
    /\ UNCHANGED <<top, body, unused, on, back, arg, v, x, v1, msg, history, closing>>

(* lf->top = cl                                                            *)
Publish(t) ==
    /\ pc[t] = "publish"
    /\ SetTop(t, arg[t])
    /\ Goto(t, back[t])
    /\ UNCHANGED <<link, body, unused, on, back, arg, v, x, v1, msg,
                   begun, dropped, handled, closing>>
-----------------------------------------------------------------------------
(* The clients: sgc_message_send.                                          *)
Send(t, m) ==
    /\ pc[t] = "idle" /\ ~closing /\ m \notin begun
    /\ begun' = begun \cup {m}
    /\ msg' = [msg EXCEPT ![t] = m]
    /\ Pop(t, "free", "popped")
    /\ UNCHANGED <<stacks, v, x, v1, dropped, handled, raced, closing>>

(* The message is filled in and put.                                       *)
Put(t, c) ==
    /\ body' = [body EXCEPT ![c] = msg[t]]
    /\ Push(t, "in", c, "idle")
    /\ UNCHANGED <<link, top, v, x, v1, msg, history, closing>>

Reuse(t) == /\ pc[t] = "popped" /\ v[t] # NULL
            /\ Put(t, v[t])
            /\ UNCHANGED unused

(* "No more GC messages available, allocating new one"                     *)
Allocate(t) == /\ pc[t] = "popped" /\ v[t] = NULL
               /\ \E c \in unused : Put(t, c) /\ unused' = unused \ {c}

(* malloc fails, and the message is not sent.                              *)
GiveUp(t) ==
    /\ pc[t] = "popped" /\ v[t] = NULL
    /\ dropped' = dropped \cup {msg[t]}
    /\ Goto(t, "idle")
    /\ UNCHANGED <<stacks, on, back, arg, v, x, v1, msg, begun, handled, raced, closing>>
-----------------------------------------------------------------------------
(* The collector: sgc_handle_messages calls sgc_fifo_get until that        *)
(* returns NULL.                                                           *)
Rest == UNCHANGED <<stacks, v, x, msg, history>>

(* Mutant: 'out' is forgotten.                                             *)
Get_InOnly == /\ pc[GC] \in {"idle", "again"}
              /\ Pop(GC, "in", "gotIn")
              /\ UNCHANGED <<v1, closing>> /\ Rest

Get == /\ pc[GC] \in {"idle", "again"}
       /\ Pop(GC, "out", "gotOut")
       /\ UNCHANGED <<v1, closing>> /\ Rest

GotOut == /\ pc[GC] = "gotOut"
          /\ IF v[GC] # NULL
             THEN v1' = v[GC] /\ Goto(GC, "handle") /\ UNCHANGED <<on, back, arg>>
             ELSE Pop(GC, "in", "gotIn") /\ UNCHANGED v1
          /\ UNCHANGED closing /\ Rest

(* Mutant: the test for an empty queue is left out.                        *)
GotIn_NoTest == /\ pc[GC] = "gotIn"
                /\ v1' = v[GC]
                /\ Pop(GC, "in", "gotNext")
                /\ UNCHANGED closing /\ Rest

(* The newest message is in v1, or there is none.                          *)
GotIn == /\ pc[GC] = "gotIn"
         /\ v1' = v[GC]
         /\ IF v[GC] # NULL THEN Pop(GC, "in", "gotNext")
            ELSE IF closing THEN Pop(GC, "free", "release")
            ELSE Goto(GC, "idle") /\ UNCHANGED <<on, back, arg>>
         /\ UNCHANGED closing /\ Rest

(* Mutant: the message found last is put on 'out' and returned, too.       *)
GotNext_Twice == /\ pc[GC] = "gotNext"
                 /\ IF v[GC] # NULL
                    THEN Push(GC, "out", v[GC], "moved")
                    ELSE Goto(GC, "handle") /\ UNCHANGED <<on, back, arg>>
                 /\ UNCHANGED <<v1, closing>> /\ Rest

(* Messages go over to 'out' until 'in' is empty; the last one found is    *)
(* what sgc_fifo_get returns.                                              *)
GotNext == /\ pc[GC] = "gotNext"
           /\ IF v[GC] # NULL
              THEN Push(GC, "out", v1, "moved")
              ELSE Goto(GC, "handle") /\ UNCHANGED <<on, back, arg>>
           /\ UNCHANGED <<v1, closing>> /\ Rest

Moved == /\ pc[GC] = "moved"
         /\ v1' = v[GC]
         /\ Pop(GC, "in", "gotNext")
         /\ UNCHANGED closing /\ Rest

(* sgc_handle_message, and sgc_message_delete begins.                      *)
Handle == /\ pc[GC] = "handle" /\ ~closing
          /\ handled' = [m \in Message |-> IF m = body[v1] /\ handled[m] < 2
                                           THEN handled[m] + 1    \* bound: 2 for "more than once"
                                           ELSE handled[m]]
          /\ Push(GC, "free", v1, "again")
          /\ UNCHANGED <<stacks, v, x, v1, msg, begun, dropped, raced, closing>>
-----------------------------------------------------------------------------
(* sgc_message_module_cleanup, when the client threads are gone and the    *)
(* collector thread has been joined: first the queue is emptied, then the  *)
(* free list.                                                              *)
Close == /\ pc[GC] = "idle" /\ ~closing
         /\ \A t \in Client : pc[t] = "idle"
         /\ closing' = TRUE
         /\ Pop(GC, "out", "gotOut")
         /\ UNCHANGED v1 /\ Rest

ReleaseSent == /\ pc[GC] = "handle" /\ closing
               /\ unused' = unused \cup {v1}
               /\ Pop(GC, "out", "gotOut")
               /\ UNCHANGED <<link, top, body, v, x, v1, msg, history, closing>>

(* Mutant: the loop over the free list is left out.                        *)
ReleaseFree_Not == /\ pc[GC] = "release"
                   /\ Goto(GC, "done")
                   /\ UNCHANGED <<stacks, on, back, arg, v, x, v1, msg, history, closing>>

ReleaseFree == /\ pc[GC] = "release"
               /\ IF v[GC] # NULL
                  THEN unused' = unused \cup {v[GC]} /\ Pop(GC, "free", "release")
                  ELSE Goto(GC, "done") /\ UNCHANGED <<unused, on, back, arg>>
               /\ UNCHANGED <<link, top, body, v, x, v1, msg, history, closing>>
-----------------------------------------------------------------------------
StackStep(t) == \/ First(t) \/ Test(t) \/ LoadTop(t) \/ LoadLink(t) \/ StoreTop(t)
                \/ Join(t) \/ Publish(t)

Sending(t) == Reuse(t) \/ Allocate(t) \/ GiveUp(t)

Collector == Get \/ GotOut \/ GotIn \/ GotNext \/ Moved \/ Handle \/ ReleaseSent \/ ReleaseFree

Next == /\ \A t \in Thread : pc[t] # "crash"
        /\ raced => PastRace
        /\ \/ \E t \in Thread : StackStep(t)
           \/ \E t \in Client, m \in Message : Send(t, m)
           \/ \E t \in Client : Sending(t)
           \/ Collector
           \/ Close

Spec == Init /\ [][Next]_vars

(* Every thread that is in the library goes on, and the collector keeps    *)
(* handling messages.                                                      *)
FairSpec == /\ Spec
            /\ \A t \in Client : WF_vars(StackStep(t) \/ Sending(t))
            /\ WF_vars(StackStep(GC) \/ Collector)
-----------------------------------------------------------------------------
(***************************************************************************)
(* Properties.                                                             *)
(***************************************************************************)

(* The variables have their types.                                         *)
Typed ==
    /\ link \in [Cell -> Link] /\ top \in [Stack -> Link]
    /\ body \in [Cell -> Message \cup {NULL}]
    /\ unused \subseteq Cell
    /\ pc \in [Thread -> Place] /\ on \in [Thread -> Stack] /\ back \in [Thread -> Place]
    /\ arg \in [Thread -> Link] /\ v \in [Thread -> Link] /\ x \in [Thread -> Link]
    /\ v1 \in Link /\ msg \in [Client -> Message \cup {NULL}]
    /\ dropped \subseteq begun /\ begun \subseteq Message
    /\ handled \in [Message -> 0..2]
    /\ closing \in BOOLEAN /\ raced \in BOOLEAN

(* Every variable has its type, and there is a message where one is        *)
(* handled.                                                                *)
TypeOK == Typed /\ (pc[GC] = "handle" /\ ~raced => v1 \in Cell /\ body[v1] \in Message)

(* The steps from the top of stack l along the links.                      *)
Along(l) == LET go[i \in 0..Cardinality(Cell)] ==
                   IF i = 0 THEN top[l]
                   ELSE IF go[i-1] = NULL THEN NULL ELSE link[go[i-1]]
            IN go

(* The cells of stack l, from the top on.                                  *)
Cells(l) == LET walk == Along(l)
                height == Cardinality({i \in 0..Cardinality(Cell) : walk[i] # NULL})
            IN [i \in 1..height |-> walk[i-1]]

(* The cells that thread t has taken from one stack and not put on another *)
(* yet, the one it found last first.                                       *)
Found(c) == IF c = NULL THEN <<>> ELSE <<c>>
Popping(t) == pc[t] \in {"first", "test", "load", "link", "store"}
Pushing(t) == pc[t] \in {"join", "publish"}

Hand(t) ==
    IF pc[t] \in {"popped", "gotOut", "gotIn", "release"} THEN Found(v[t])
    ELSE IF pc[t] = "gotNext" /\ v[t] # NULL              THEN <<v[t], v1>>
    ELSE IF pc[t] \in {"gotNext", "handle"}               THEN <<v1>>
    ELSE IF pc[t] = "moved"                               THEN <<v[t]>>
    ELSE IF Popping(t) /\ back[t] = "gotNext"             THEN <<v1>>
    ELSE IF Pushing(t) /\ back[t] = "moved"               THEN <<v[t], arg[t]>>
    ELSE IF Pushing(t)                                    THEN <<arg[t]>>
    ELSE <<>>

(* The places where cell c is found.                                       *)
OnStacks(c) == {p \in Stack \X (1..Cardinality(Cell) + 1) :
                   p[2] \in DOMAIN Cells(p[1]) /\ Cells(p[1])[p[2]] = c}
InHands(c) == {p \in Thread \X {1, 2} :
                   p[2] \in DOMAIN Hand(p[1]) /\ Hand(p[1])[p[2]] = c}

(* As long as no two threads met at a stack, each cell is in one place:    *)
(* not allocated, on one of the stacks, or in the hands of one thread; and *)
(* at the end every one has been given back to free().                     *)
EachCellOnce ==
    ~raced =>
       /\ \A c \in Cell : (IF c \in unused THEN 1 ELSE 0)
                           + Cardinality(OnStacks(c)) + Cardinality(InHands(c)) = 1
       /\ pc[GC] = "done" => unused = Cell
       /\ \A t \in Thread : pc[t] # "crash"

(* sgc_fifo_get has found a message on 'in' and has not seen the end of    *)
(* it.                                                                     *)
Fetching == \/ pc[GC] \in {"moved"} \/ (pc[GC] \in {"gotIn", "gotNext"} /\ v[GC] # NULL)
            \/ Popping(GC) /\ back[GC] = "gotNext"
            \/ Pushing(GC) /\ back[GC] = "moved"

(* The messages sent and not handled, the one to be handled next first.    *)
Waiting ==
    LET in == Reverse(Cells("in"))
        held == IF Pushing(GC) /\ back[GC] = "again" THEN <<>> ELSE Hand(GC)
        cells == IF Fetching THEN in \o (held \o Cells("out"))
                 ELSE (held \o Cells("out")) \o in
    IN [i \in DOMAIN cells |-> body[cells[i]]]

(* Until two threads meet at a stack the two stacks are a queue: see       *)
(* SgcQueue for what it keeps to.  Cleaning up empties it at once.         *)
Queue == INSTANCE SgcQueue WITH
            waiting <- IF raced \/ closing THEN <<>> ELSE Waiting,
            fetching <- ~raced /\ ~closing /\ Fetching,
            raced <- raced \/ closing

KeepsQueue == Queue!Spec

(* The collector comes to the end of what was sent, again and again: every *)
(* message is handled unless there was no memory for it, if the clients    *)
(* pause now and then and no two threads meet at a stack.                  *)
Arrives ==
    []<>(\/ \A m \in begun : handled[m] > 0 \/ m \in dropped
         \/ raced \/ closing)

(* sgc_mess.c:172: "the messages are supposed to be treated in a separate  *)
(* thread": each of them, and once.                                        *)
TreatedOnce == \A m \in Message : handled[m] <= 1
=============================================================================
