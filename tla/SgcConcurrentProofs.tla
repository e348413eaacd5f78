------------------------- MODULE SgcConcurrentProofs -------------------------
(***************************************************************************)
(* Proofs about SgcConcurrent, for any number of blocks, words, threads    *)
(* and messages in the queue.                                              *)
(***************************************************************************)
EXTENDS SgcConcurrent, TLAPS
-----------------------------------------------------------------------------
(* The objects whose SGC_NEW_MESSAGE, and whose SGC_CTI_MESSAGE, is in the *)
(* queue.                                                                  *)
Announced == {o \in Object : Sent(NewMessage(o))}
Reported  == {o \in Object : Sent(CtiMessage(o))}

NewOnce == \A i, j \in 1..Len(queue) :
              queue[i] = queue[j] /\ queue[i].kind = "new" => i = j

(* OnePlace, in terms of these.                                            *)
PlaceInv ==
    /\ \A o \in Object : o \in free \cup new \cup from \cup pending \cup scanned \cup Announced
    /\ free \cap (new \cup from \cup pending \cup scanned \cup Announced) = {}
    /\ new \cap (from \cup pending \cup scanned \cup Announced) = {}
    /\ from \cap (pending \cup scanned \cup Announced) = {}
    /\ pending \cap (scanned \cup Announced) = {}
    /\ scanned \cap Announced = {}

(* What each phase knows of the lists and of where the scan is.            *)
PhaseInv ==
    /\ pc # "clear" => unclear = {}
    /\ pc \in {"start", "clear", "sweep"} => unscanned = {} /\ cur = NULL
    /\ unscanned # {} => cur = NULL
    /\ cur = NULL => todo = {}
    /\ cur # NULL => cur \in scanned
    /\ pc = "start" => from = {}
    /\ pc \in {"start", "clear", "sweep"} => pending = {}
    /\ pc = "clear" => new = {} /\ scanned = {}

(* A thread in a barrier has the target on its stack, and one that resizes *)
(* an object has it there, and alone.                                      *)
CallInv ==
    \A t \in Thread :
       /\ op[t].kind = "store" => op[t].dst \in stack[t]
       /\ op[t].kind = "copy" => /\ op[t].src \in stack[t] \ freed
                                 /\ op[t].dst \in Object
                                 /\ \A u \in Thread \ {t} : op[u].kind = "copy"
                                                               => op[u].src # op[t].src

(* Colours: what 'from' holds once it is cleared; what is on no list of    *)
(* the collector while no message has been handled; what is new or has     *)
(* been scanned is not WHITE; the scan goes along a RED object never.      *)
ColourInv ==
    /\ pc \in {"clear", "mark", "sweep"} => \A o \in from \ unclear : color[o] \in {WHITE, RED}
    /\ pc = "clear" \/ unscanned # {}
          => \A o \in Object \ (from \cup pending \cup free) : color[o] = BLACK \/ Broken
    /\ \A o \in new \cup scanned \cup Announced : color[o] # WHITE
    /\ todo # {} => color[cur] # RED

Inv == TypeOK /\ NewOnce /\ PlaceInv /\ PhaseInv /\ CallInv /\ ColourInv
-----------------------------------------------------------------------------
(* sgc_message_send puts one message behind the others.                    *)
LEMMA SendPuts ==
    ASSUME TypeOK, NEW m \in Message, Send(m)
    PROVE  /\ queue' \in Seq(Message)
           /\ Announced' = Announced \cup {o \in Object : m = NewMessage(o)}
           /\ Reported' = Reported \cup {o \in Object : m = CtiMessage(o)}
           /\ NewOnce /\ ~Sent(m) => NewOnce'
           /\ NewOnce /\ m.kind # "new" => NewOnce'
<1>1. queue \in Seq(Message) /\ queue' = Append(queue, m)
  BY DEF TypeOK, Send
<1>2. /\ Len(queue') = Len(queue) + 1 /\ Len(queue) \in Nat
      /\ queue'[Len(queue) + 1] = m
      /\ \A i \in 1..Len(queue) : queue'[i] = queue[i]
  BY <1>1
<1>3. \A x : Sent(x)' <=> Sent(x) \/ x = m
  BY <1>2 DEF Sent
<1>4. NewOnce /\ (~Sent(m) \/ m.kind # "new") => NewOnce'
  BY <1>2 DEF NewOnce, Sent
<1> QED
  BY <1>1, <1>3, <1>4 DEF Announced, Reported

(* sgc_message_get takes the first one.                                    *)
LEMMA HandlingTakes ==
    ASSUME TypeOK, NewOnce, NEW m \in Message, Handled(m)
    PROVE  /\ queue' \in Seq(Message)
           /\ NewOnce'
           /\ Announced' = Announced \ {o \in Object : m = NewMessage(o)}
           /\ Reported' \subseteq Reported
           /\ Reported \subseteq Reported' \cup {o \in Object : m = CtiMessage(o)}
<1>1. queue \in Seq(Message) /\ queue # <<>> /\ queue' = Tail(queue) /\ Head(queue) = m
  BY DEF TypeOK, Handled, Handles
<1>2. /\ queue' \in Seq(Message)
      /\ Len(queue') = Len(queue) - 1 /\ Len(queue) \in Nat \ {0}
      /\ \A i \in 1..Len(queue') : queue'[i] = queue[i + 1]
      /\ queue[1] = m
  BY <1>1
<1>3. \A x : Sent(x)' => Sent(x)
  BY <1>2 DEF Sent
<1>4. \A x : Sent(x) => Sent(x)' \/ x = m
  <2> SUFFICES ASSUME NEW i \in 1..Len(queue), i # 1
               PROVE  \E j \in 1..Len(queue') : queue'[j] = queue[i]
    BY <1>2 DEF Sent
  <2>1. i - 1 \in 1..Len(queue') /\ queue'[i - 1] = queue[i]
    BY <1>2
  <2> QED
    BY <2>1
<1>5. NewOnce'
  BY <1>2 DEF NewOnce
<1>6. m.kind = "new" => ~Sent(m)'
  BY <1>2 DEF NewOnce, Sent
<1> QED
  BY <1>2, <1>3, <1>4, <1>5, <1>6 DEF Announced, Reported, NewMessage

(* What this comes to for the three kinds of messages: a new object is     *)
(* announced.                                                              *)
LEMMA NewIsSent ==
    ASSUME Inv, NEW o \in Object, o \notin Announced, Send(NewMessage(o))
    PROVE  /\ queue' \in Seq(Message) /\ NewOnce'
           /\ Announced' = Announced \cup {o} /\ Reported' = Reported
<1>1. NewMessage(o) \in Message /\ ~Sent(NewMessage(o))
  BY DEF Message, NewMessage, Announced
<1> QED
  BY <1>1, SendPuts DEF Inv, NewMessage, CtiMessage

(* The barrier reports an object.                                          *)
LEMMA CtiIsSent ==
    ASSUME Inv, NEW o \in Object, Send(CtiMessage(o))
    PROVE  /\ queue' \in Seq(Message) /\ NewOnce'
           /\ Announced' = Announced /\ Reported' = Reported \cup {o}
<1>1. CtiMessage(o) \in Message
  BY DEF Message, CtiMessage
<1> QED
  BY <1>1, SendPuts DEF Inv, NewMessage, CtiMessage

(* A message that frees an object is in neither set.                       *)
LEMMA FreeIsSent ==
    ASSUME Inv, NEW o \in Object, Send(FreeMessage(o))
    PROVE  /\ queue' \in Seq(Message) /\ NewOnce'
           /\ Announced' = Announced /\ Reported' = Reported
<1>1. FreeMessage(o) \in Message
  BY DEF Message, FreeMessage
<1> QED
  BY <1>1, SendPuts DEF Inv, NewMessage, CtiMessage, FreeMessage

(* The object announced first is announced no more.                        *)
LEMMA NewIsHandled ==
    ASSUME Inv, NEW o \in Object, Handled(NewMessage(o))
    PROVE  /\ queue' \in Seq(Message) /\ NewOnce'
           /\ o \in Announced
           /\ Announced' = Announced \ {o} /\ Reported' = Reported
<1>1. NewMessage(o) \in Message
  BY DEF Message, NewMessage
<1>2. o \in Announced
  BY DEF Inv, TypeOK, Handled, Handles, Announced, Sent
<1> QED
  BY <1>1, <1>2, HandlingTakes DEF Inv, NewMessage, CtiMessage

(* A report that is handled may have been sent twice.                      *)
LEMMA CtiIsHandled ==
    ASSUME Inv, NEW o \in Object, Handled(CtiMessage(o))
    PROVE  /\ queue' \in Seq(Message) /\ NewOnce'
           /\ Announced' = Announced
           /\ Reported' \subseteq Reported /\ Reported \subseteq Reported' \cup {o}
<1>1. CtiMessage(o) \in Message
  BY DEF Message, CtiMessage
<1>2. \A p \in Object : CtiMessage(o) # NewMessage(p) /\ (CtiMessage(o) = CtiMessage(p) => p = o)
  BY DEF NewMessage, CtiMessage
<1> QED
  BY <1>1, <1>2, HandlingTakes DEF Inv

(* Handling the message of sgc_free_object leaves both sets alone.         *)
LEMMA FreeIsHandled ==
    ASSUME Inv, NEW o \in Object, Handled(FreeMessage(o))
    PROVE  /\ queue' \in Seq(Message) /\ NewOnce'
           /\ Announced' = Announced /\ Reported' = Reported
<1>1. FreeMessage(o) \in Message
  BY DEF Message, FreeMessage
<1> QED
  BY <1>1, HandlingTakes DEF Inv, NewMessage, CtiMessage, FreeMessage

(* The sets depend on the queue alone.                                     *)
LEMMA QueueIsSame ==
    ASSUME UNCHANGED queue
    PROVE  Announced' = Announced /\ Reported' = Reported /\ (NewOnce <=> NewOnce')
  BY DEF Announced, Reported, NewOnce, Sent
-----------------------------------------------------------------------------
(* Nothing of the collector depends on what the queue holds, but for the   *)
(* two sets.                                                               *)
LEMMA InvPreserved ==
    ASSUME Inv, [Next]_vars
    PROVE  Inv'
<1>n. ASSUME NEW o \in Object, o \in free, Send(NewMessage(o))
      PROVE  queue' \in Seq(Message) /\ NewOnce' /\ Announced' = Announced \cup {o}
  BY <1>n, NewIsSent DEF Inv, PlaceInv
<1>c. ASSUME NEW o \in Object, Send(CtiMessage(o))
      PROVE  queue' \in Seq(Message) /\ NewOnce' /\ Announced' = Announced
  BY <1>c, CtiIsSent
<1>f. ASSUME NEW o \in Object, Send(FreeMessage(o))
      PROVE  queue' \in Seq(Message) /\ NewOnce' /\ Announced' = Announced
  BY <1>f, FreeIsSent
<1>m. ASSUME NEW o \in Object, Handled(NewMessage(o))
      PROVE  /\ queue' \in Seq(Message) /\ NewOnce'
             /\ o \in Announced /\ Announced' = Announced \ {o}
  BY <1>m, NewIsHandled
<1>h. ASSUME NEW o \in Object, Handled(CtiMessage(o)) \/ Handled(FreeMessage(o))
      PROVE  queue' \in Seq(Message) /\ NewOnce' /\ Announced' = Announced
  BY <1>h, CtiIsHandled, FreeIsHandled
<1>q. ASSUME UNCHANGED queue
      PROVE  Announced' = Announced /\ (NewOnce <=> NewOnce')
  BY <1>q, QueueIsSame
<1> USE ConcurrentAssumption DEF Inv, TypeOK, PlaceInv, PhaseInv, CallInv, ColourInv,
        Color, WHITE, GRAY, BLACK, RED, Phase, Broken, Ptr, Op, Idle, Message,
        heap, mutator, lists, walk, Runs, Calls, Stores, Uses, Push
<1>1. ASSUME NEW t \in Thread, NEW o \in Object, NewObject(t, o)
      PROVE  Inv'
  <2>1. queue' \in Seq(Message) /\ NewOnce' /\ Announced' = Announced \cup {o}
    BY <1>1, <1>n DEF NewObject
  <2> QED
    BY <1>1, <2>1 DEF NewObject
<1>2. ASSUME NEW t \in Thread, NEW o \in Object, FreeObject(t, o)
      PROVE  Inv'
  <2>1. queue' \in Seq(Message) /\ NewOnce' /\ Announced' = Announced
    BY <1>2, <1>f DEF FreeObject
  <2> QED
    BY <1>2, <2>1 DEF FreeObject, Settled
<1>3. ASSUME NEW t \in Thread, NEW o \in Object, Drop(t, o)
      PROVE  Inv'
  BY <1>3, <1>q DEF Drop
<1>4. ASSUME NEW t \in Thread, NEW o \in Object, NEW n \in Object, ResizeObject(t, o, n)
      PROVE  Inv'
  <2>1. queue' \in Seq(Message) /\ NewOnce' /\ Announced' = Announced \cup {n}
    BY <1>4, <1>n DEF ResizeObject
  <2> QED
    BY <1>4, <2>1 DEF ResizeObject, Settled
<1>5. ASSUME NEW t \in Thread, NEW F \in SUBSET Field, CopyAndFree(t, F)
      PROVE  Inv'
  <2>1. queue' \in Seq(Message) /\ NewOnce' /\ Announced' = Announced
    BY <1>5, <1>f DEF CopyAndFree
  <2> QED
    BY <1>5, <2>1 DEF CopyAndFree
<1>6. ASSUME NEW t \in Thread, NEW w, Runs(t), Load(t, w)
      PROVE  Inv'
  BY <1>6, <1>q DEF Load
<1>7. ASSUME NEW t \in Thread, NEW p \in Object, NEW f \in Field, NEW w \in Ptr, StoreField(t, p, f, w)
      PROVE  Inv'
  BY <1>7, <1>q DEF StoreField, InBarrier
<1>8. ASSUME NEW t \in Thread, NEW w \in Ptr, StoreRoot(t, w)
      PROVE  Inv'
  BY <1>8, <1>q DEF StoreRoot, InBarrier
<1>9. ASSUME NEW t \in Thread, Barrier(t)
      PROVE  Inv'
  <2>1. queue' \in Seq(Message) /\ NewOnce' /\ Announced' = Announced
    BY <1>9, <1>c, <1>q DEF Barrier
  <2> QED
    BY <1>9, <2>1 DEF Barrier
<1>10. ASSUME NEW o \in Object, HandleNew(o)
       PROVE  Inv'
  <2>1. /\ queue' \in Seq(Message) /\ NewOnce'
        /\ o \in Announced /\ Announced' = Announced \ {o}
    BY <1>10, <1>m DEF HandleNew
  <2> QED
    BY <1>10, <2>1 DEF HandleNew, Handled, Handles, Draining, Scanning
<1>11. ASSUME NEW o \in Object, HandleCti(o)
       PROVE  Inv'
  <2>1. queue' \in Seq(Message) /\ NewOnce' /\ Announced' = Announced
    BY <1>11, <1>h DEF HandleCti
  <2> QED
    BY <1>11, <2>1 DEF HandleCti, Handled, Handles, Draining, Scanning, MoveToScan
<1>12. ASSUME NEW o \in Object, HandleFree(o)
       PROVE  Inv'
  <2>1. queue' \in Seq(Message) /\ NewOnce' /\ Announced' = Announced
    BY <1>12, <1>h DEF HandleFree
  <2> QED
    BY <1>12, <2>1 DEF HandleFree, Handled, Handles, Draining, Scanning
<1>13. CASE StartCycle
  <2>1. Announced = {}
    BY <1>13 DEF StartCycle, Announced, Sent
  <2> QED
    BY <1>13, <1>q, <2>1 DEF StartCycle, Joined
<1>14. ASSUME NEW o \in Object, ClearObject(o)
       PROVE  Inv'
  BY <1>14, <1>q DEF ClearObject
<1>v. ASSUME NEW W \in SUBSET Object, NEW q, MoveToScan(W, q)
      PROVE  \/ /\ W \subseteq from \cup pending
                /\ from' = from \ W /\ pending' = pending \cup W /\ pc' = q
             \/ UNCHANGED <<from, pending>> /\ pc' \in {"reclaimed", "crashed"}
  BY <1>v DEF MoveToScan
<1>15. CASE MarkRoot
  <2>1. /\ pc = "clear" /\ unclear = {} /\ todo = {} /\ unscanned' = Thread
        /\ UNCHANGED <<main, words, root, stack, op, freed, queue, new, scanned, free,
                       unclear, cur, todo, missed>>
    BY <1>15 DEF MarkRoot, Cleared
  <2>2. CASE MarksRoot
    <3>1. root \in Object /\ color' = [color EXCEPT ![root] = GRAY] /\ MoveToScan({root}, "mark")
      BY <1>15, <2>2 DEF MarkRoot, MarksRoot
    <3>2. CASE /\ {root} \subseteq from \cup pending
               /\ from' = from \ {root} /\ pending' = pending \cup {root} /\ pc' = "mark"
      BY <1>q, <2>1, <3>1, <3>2
    <3>3. CASE UNCHANGED <<from, pending>> /\ pc' \in {"reclaimed", "crashed"}
      BY <1>q, <2>1, <3>1, <3>3
    <3>4. {root} \in SUBSET Object /\ MoveToScan({root}, "mark")
      BY <3>1
    <3>5. \/ /\ {root} \subseteq from \cup pending
             /\ from' = from \ {root} /\ pending' = pending \cup {root} /\ pc' = "mark"
          \/ UNCHANGED <<from, pending>> /\ pc' \in {"reclaimed", "crashed"}
      BY <1>v, <3>4
    <3> QED
      BY <3>2, <3>3, <3>5
  <2>3. CASE ~MarksRoot
    BY <1>15, <1>q, <2>1, <2>3 DEF MarkRoot
  <2> QED
    BY <2>2, <2>3
<1>16. ASSUME NEW t \in Thread, ScanStack(t)
       PROVE  Inv'
  <2>1. PICK S \in SUBSET Object :
           /\ color' = [o \in Object |-> IF o \in Found(Read(t) \cup S) THEN GRAY ELSE color[o]]
           /\ MoveToScan(Found(Read(t) \cup S), pc)
    BY <1>16 DEF ScanStack
  <2>2. PICK W \in SUBSET Object : W = Found(Read(t) \cup S)
    BY DEF Found
  <2>3. /\ \A o \in W : color[o] = WHITE
        /\ color' = [o \in Object |-> IF o \in W THEN GRAY ELSE color[o]]
        /\ MoveToScan(W, pc)
    BY <2>1, <2>2 DEF Found
  <2>4. /\ pc = "mark" /\ unclear = {} /\ todo = {} /\ cur = NULL
        /\ unscanned # {} /\ unscanned' = unscanned \ {t}
        /\ UNCHANGED <<main, words, root, stack, op, freed, queue, new, scanned, free,
                       unclear, cur, todo>>
        /\ missed' \subseteq Object
    BY <1>16 DEF ScanStack
  <2>5. CASE /\ W \subseteq from \cup pending
             /\ from' = from \ W /\ pending' = pending \cup W /\ pc' = pc
    <3>1. TypeOK' /\ CallInv'
      BY <2>3, <2>4, <2>5
    <3>2. NewOnce' /\ PlaceInv' /\ PhaseInv'
      BY <1>q, <2>4, <2>5
    <3>3. /\ Announced' = Announced
          /\ \A o \in Object : o \in W \/ color'[o] = color[o]
          /\ \A o \in Object : o \in W => color'[o] = GRAY
      BY <1>q, <2>3, <2>4
    <3>4. \A o \in from' \ unclear' : color'[o] \in {WHITE, RED}
      BY <2>4, <2>5, <3>3
    <3>5. \A o \in Object \ (from' \cup pending' \cup free') : color'[o] = BLACK
      <4>1. \A o \in Object \ (from \cup pending \cup free) : color[o] = BLACK
        BY <2>4
      <4>2. from' \cup pending' = from \cup pending /\ W \subseteq from' \cup pending' /\ free' = free
        BY <2>4, <2>5
      <4> QED
        BY <3>3, <4>1, <4>2
    <3>6. \A o \in new' \cup scanned' \cup Announced' : color'[o] # WHITE
      <4>1. \A o \in new \cup scanned \cup Announced : o \in Object /\ color[o] # WHITE
        BY DEF Announced
      <4> QED
        BY <2>4, <3>3, <4>1
    <3>7. ColourInv'
      BY <2>4, <3>4, <3>5, <3>6
    <3> QED
      BY <3>1, <3>2, <3>7
  <2>6. CASE UNCHANGED <<from, pending>> /\ pc' \in {"reclaimed", "crashed"}
    <3>1. TypeOK' /\ CallInv'
      BY <2>3, <2>4, <2>6
    <3>2. NewOnce' /\ PlaceInv' /\ PhaseInv'
      BY <1>q, <2>4, <2>6
    <3>3. /\ Announced' = Announced
          /\ \A o \in Object : color'[o] \in {color[o], GRAY}
      BY <1>q, <2>3, <2>4
    <3>4. \A o \in new' \cup scanned' \cup Announced' : color'[o] # WHITE
      <4>1. \A o \in new \cup scanned \cup Announced : o \in Object /\ color[o] # WHITE
        BY DEF Announced
      <4> QED
        BY <2>4, <3>3, <4>1
    <3>5. ColourInv'
      BY <2>4, <2>6, <3>4
    <3> QED
      BY <3>1, <3>2, <3>5
  <2> QED
    BY <1>v, <2>3, <2>5, <2>6
<1>17. ASSUME NEW o \in Object, ScanObject(o)
       PROVE  Inv'
  BY <1>17, <1>q DEF ScanObject, Scanning
<1>18. ASSUME NEW f \in Field, ScanWord(f)
       PROVE  Inv'
  <2>1. /\ cur \in scanned /\ cur \in Object /\ pc = "mark" /\ unscanned = {} /\ color[cur] # RED
        /\ todo' = todo \ {f} /\ unclear = {}
        /\ UNCHANGED <<main, words, root, stack, op, freed, queue, new, scanned, free,
                       unclear, unscanned, cur, missed>>
    BY <1>18 DEF ScanWord, Scanning
  <2>2. CASE UNCHANGED <<color, from, pending, pc>>
    BY <1>q, <2>1, <2>2
  <2>3. ASSUME NEW w \in Object, color' = [color EXCEPT ![cur] = GRAY], MoveToScan({w}, pc)
        PROVE  Inv'
    <3>1. CASE w \in from \cup pending
      <4>1. from' = from \ {w} /\ pending' = pending \cup {w} /\ pc' = pc
        BY <2>3, <3>1 DEF MoveToScan
      <4> QED
        BY <1>q, <2>1, <2>3, <3>1, <4>1
    <3>2. CASE w \notin from \cup pending
      <4>1. from' = from /\ pending' = pending /\ pc' \in {"reclaimed", "crashed"}
        BY <2>3, <3>2 DEF MoveToScan
      <4> QED
        BY <1>q, <2>1, <2>3, <3>2, <4>1
    <3> QED
      BY <3>1, <3>2
  <2> QED
    BY <1>18, <2>2, <2>3 DEF ScanWord
<1>19. CASE DrainDone
  BY <1>19, <1>q DEF DrainDone, Drained, Draining, Scanning
<1>20. CASE ScanDone
  BY <1>20, <1>q DEF ScanDone, Scanning
<1>21. ASSUME NEW o \in Object, SweepObject(o)
       PROVE  Inv'
  BY <1>21, <1>q DEF SweepObject
<1>22. CASE SweepDone
  BY <1>22, <1>q DEF SweepDone
<1>23. CASE UNCHANGED vars
  BY <1>23, <1>q DEF vars
<1> HIDE DEF Inv
<1> QED
  BY <1>1, <1>2, <1>3, <1>4, <1>5, <1>6, <1>7, <1>8, <1>9, <1>10, <1>11, <1>12, <1>13, <1>14,
     <1>15, <1>16, <1>17, <1>18, <1>19, <1>20, <1>21, <1>22, <1>23
     DEF Next, Client, HandleMessage, Cycle, LoadField, LoadRoot
-----------------------------------------------------------------------------
(* The collector is told of w, or has missed it, or was told to free it, or *)
(* does not recognise it.                                                  *)
Known(w) == w \in missed \/ w \in Reported \/ color[w] = RED \/ w \notin Recognised

Storing(p, w) == \E t \in Thread : op[t].kind = "store" /\ op[t].src = p /\ op[t].dst = w

(* A word that leads from an object the collector has done with to one on  *)
(* 'from' is known to it, or about to be.                                  *)
EdgeInv ==
    pc \in {"clear", "mark", "sweep"} =>
       \A p \in Object \ (from \cup pending \cup free), f \in Field :
          words[p][f] \in from =>
             \/ Known(words[p][f])
             \/ Storing(p, words[p][f])
             \/ (p = cur /\ f \in todo)

(* So is what the handle and the stacks that were scanned lead to.         *)
AnchorInv ==
    /\ pc \in {"mark", "sweep"} /\ root \in from => Known(root) \/ Storing(NULL, root)
    /\ \A t \in Thread : StackPassed(t) =>
          \A o \in stack[t] \cap from : o \in missed \/ color[o] = RED \/ o \notin Recognised

EscapeInv == EdgeInv /\ AnchorInv

(* Each step keeps what the collector has done with in view of what it has *)
(* not: by a message, by the history, or by the scan itself.               *)
LEMMA EscapeInvPreserved ==
    ASSUME Inv, EscapeInv, [Next]_vars
    PROVE  EscapeInv'
<1>n. ASSUME NEW o \in Object, o \in free, Send(NewMessage(o))
      PROVE  Reported' = Reported
  BY <1>n, NewIsSent DEF Inv, PlaceInv
<1>c. ASSUME NEW o \in Object, Send(CtiMessage(o))
      PROVE  Reported' = Reported \cup {o}
  BY <1>c, CtiIsSent
<1>f. ASSUME NEW o \in Object, Send(FreeMessage(o))
      PROVE  Reported' = Reported
  BY <1>f, FreeIsSent
<1>m. ASSUME NEW o \in Object, Handled(NewMessage(o)) \/ Handled(FreeMessage(o))
      PROVE  Reported' = Reported
  BY <1>m, NewIsHandled, FreeIsHandled
<1>h. ASSUME NEW o \in Object, Handled(CtiMessage(o))
      PROVE  Reported \subseteq Reported' \cup {o}
  BY <1>h, CtiIsHandled
<1>q. ASSUME UNCHANGED queue
      PROVE  Reported' = Reported
  BY <1>q, QueueIsSame
<1>e. ASSUME pc \in {"clear", "mark", "sweep"}, NEW p \in Object \ (from \cup pending \cup free),
             NEW f \in Field, NEW w \in from, words[p][f] = w
      PROVE  Known(w) \/ Storing(p, w) \/ (p = cur /\ f \in todo)
  <2>1. words[p][f] \in from
    BY <1>e
  <2>2. Known(words[p][f]) \/ Storing(p, words[p][f]) \/ (p = cur /\ f \in todo)
    BY <1>e, <2>1 DEF EscapeInv, EdgeInv
  <2> QED
    BY <1>e, <2>2
<1> USE ConcurrentAssumption DEF Inv, TypeOK, PlaceInv, PhaseInv, CallInv, ColourInv,
        EscapeInv, EdgeInv, AnchorInv, Known, Storing, StackPassed,
        WHITE, GRAY, BLACK, RED, Broken, Ptr, Op, Idle,
        heap, mutator, lists, walk, Runs, Calls, Stores, Uses, Push
<1>1. ASSUME NEW t \in Thread, NEW o \in Object, NewObject(t, o)
      PROVE  EscapeInv'
  <2>1. Reported' = Reported
    BY <1>1, <1>n DEF NewObject
  <2>2. EdgeInv'
    BY <1>1, <2>1 DEF NewObject
  <2>3. AnchorInv'
    BY <1>1, <2>1 DEF NewObject
  <2> QED
    BY <2>2, <2>3
<1>2. ASSUME NEW t \in Thread, NEW o \in Object, FreeObject(t, o)
      PROVE  EscapeInv'
  <2>1. Reported' = Reported
    BY <1>2, <1>f DEF FreeObject
  <2>2. EdgeInv'
    BY <1>2, <2>1 DEF FreeObject
  <2>3. AnchorInv'
    BY <1>2, <2>1 DEF FreeObject
  <2> QED
    BY <2>2, <2>3
<1>3. ASSUME NEW t \in Thread, NEW o \in Object, Drop(t, o)
      PROVE  EscapeInv'
  <2>1. EdgeInv'
    BY <1>3, <1>q DEF Drop
  <2>2. AnchorInv'
    BY <1>3, <1>q DEF Drop
  <2> QED
    BY <2>1, <2>2
<1>4. ASSUME NEW t \in Thread, NEW o \in Object, NEW n \in Object, ResizeObject(t, o, n)
      PROVE  EscapeInv'
  <2>1. Reported' = Reported
    BY <1>4, <1>n DEF ResizeObject
  <2>2. EdgeInv'
    <3>1. \A u \in Thread : op[u].kind = "store" => op'[u] = op[u]
      BY <1>4 DEF ResizeObject
    <3>2. \A p \in Object, g \in Field : words'[p][g] \in from => p # n /\ words'[p][g] = words[p][g]
      BY <1>4 DEF ResizeObject
    <3>3. \A p \in from : color'[p] = color[p]
      BY <1>4 DEF ResizeObject
    <3>4. UNCHANGED <<from, pending, pc, cur, todo, missed>> /\ free' = free \ {n}
      BY <1>4 DEF ResizeObject
    <3>5. SUFFICES ASSUME pc \in {"clear", "mark", "sweep"}, NEW p \in Object \ (from \cup pending \cup free'),
                          NEW g \in Field, words'[p][g] \in from
                   PROVE  (Known(words[p][g]) \/ Storing(p, words[p][g]) \/ (p = cur /\ g \in todo))'
      BY <3>4
    <3>6. p \in Object \ (from \cup pending \cup free) /\ words'[p][g] = words[p][g]
      BY <3>2, <3>4, <3>5
    <3>7. Known(words[p][g]) \/ Storing(p, words[p][g]) \/ (p = cur /\ g \in todo)
      BY <1>e, <3>5, <3>6
    <3>8. Known(words[p][g]) => Known(words[p][g])'
      BY <2>1, <3>3, <3>4, <3>5, <3>6
    <3>9. Storing(p, words[p][g]) => Storing(p, words[p][g])'
      BY <3>1, <3>6
    <3> QED
      BY <3>4, <3>7, <3>8, <3>9
  <2>3. AnchorInv'
    BY <1>4, <2>1 DEF ResizeObject
  <2> QED
    BY <2>2, <2>3
<1>5. ASSUME NEW t \in Thread, NEW F \in SUBSET Field, CopyAndFree(t, F)
      PROVE  EscapeInv'
  <2>1. Reported' = Reported
    BY <1>5, <1>f DEF CopyAndFree
  <2>2. EdgeInv'
    <3>1. \A u \in Thread : op[u].kind = "store" => op'[u] = op[u]
      BY <1>5 DEF CopyAndFree
    <3>2. \A p \in Object, g \in Field : words'[p][g] \in from
             => words'[p][g] = words[p][g] \/ words'[p][g] \in missed'
      BY <1>5 DEF CopyAndFree
    <3>3. UNCHANGED <<color, from, pending, free, pc, cur, todo>> /\ missed \subseteq missed'
      BY <1>5 DEF CopyAndFree
    <3>4. SUFFICES ASSUME pc \in {"clear", "mark", "sweep"}, NEW p \in Object \ (from \cup pending \cup free),
                          NEW g \in Field, words'[p][g] \in from, words'[p][g] = words[p][g]
                   PROVE  (Known(words[p][g]) \/ Storing(p, words[p][g]) \/ (p = cur /\ g \in todo))'
      BY <3>2, <3>3
    <3>5. Known(words[p][g]) \/ Storing(p, words[p][g]) \/ (p = cur /\ g \in todo)
      BY <1>e, <3>4
    <3> QED
      BY <2>1, <3>1, <3>3, <3>4, <3>5
  <2>3. AnchorInv'
    BY <1>5, <2>1 DEF CopyAndFree
  <2> QED
    BY <2>2, <2>3
<1>6. ASSUME NEW t \in Thread, NEW w, Runs(t), Load(t, w)
      PROVE  EscapeInv'
  <2>1. EdgeInv'
    BY <1>6, <1>q DEF Load
  <2>2. AnchorInv'
    BY <1>6, <1>q DEF Load
  <2> QED
    BY <2>1, <2>2
<1>7. ASSUME NEW t \in Thread, NEW p \in Object, NEW f \in Field, NEW w \in Ptr, StoreField(t, p, f, w)
      PROVE  EscapeInv'
  <2>1. EdgeInv'
    <3>1. \A u \in Thread : op[u].kind = "store" => op'[u] = op[u]
      BY <1>7 DEF StoreField
    <3>2. w \in from => op'[t] = [kind |-> "store", src |-> p, dst |-> w]
      BY <1>7 DEF StoreField, InBarrier
    <3>3. \A o \in Object, g \in Field :
             words'[o][g] = words[o][g] \/ (o = p /\ words'[o][g] = w)
      BY <1>7 DEF StoreField
    <3>4. UNCHANGED <<color, from, pending, free, pc, cur, todo, missed, queue>>
      BY <1>7 DEF StoreField
    <3>5. SUFFICES ASSUME pc \in {"clear", "mark", "sweep"}, NEW o \in Object \ (from \cup pending \cup free),
                          NEW g \in Field, words'[o][g] \in from
                   PROVE  (Known(words[o][g]) \/ Storing(o, words[o][g]) \/ (o = cur /\ g \in todo))'
      BY <3>4
    <3>6. CASE o = p /\ words'[o][g] = w
      <4>1. op'[t].kind = "store" /\ op'[t].src = p /\ op'[t].dst = w
        BY <3>2, <3>5, <3>6
      <4>2. \E u \in Thread : op'[u].kind = "store" /\ op'[u].src = o /\ op'[u].dst = words'[o][g]
        BY <3>6, <4>1
      <4> QED
        BY <4>2
    <3>7. CASE words'[o][g] = words[o][g]
      <4>1. Known(words[o][g]) \/ Storing(o, words[o][g]) \/ (o = cur /\ g \in todo)
        BY <1>e, <3>5, <3>7
      <4> QED
        BY <1>q, <3>1, <3>4, <3>5, <3>7, <4>1
    <3> QED
      BY <3>3, <3>5, <3>6, <3>7
  <2>2. AnchorInv'
    BY <1>7, <1>q DEF StoreField, InBarrier
  <2> QED
    BY <2>1, <2>2
<1>8. ASSUME NEW t \in Thread, NEW w \in Ptr, StoreRoot(t, w)
      PROVE  EscapeInv'
  <2>1. EdgeInv'
    <3>1. \A u \in Thread : op[u].kind = "store" => op'[u] = op[u]
      BY <1>8 DEF StoreRoot
    <3>2. UNCHANGED <<words, color, from, pending, free, pc, cur, todo, missed, queue>>
      BY <1>8 DEF StoreRoot
    <3> QED
      BY <1>q, <3>1, <3>2
  <2>2. AnchorInv'
    BY <1>8, <1>q DEF StoreRoot, InBarrier
  <2> QED
    BY <2>1, <2>2
<1>9. ASSUME NEW t \in Thread, Barrier(t)
      PROVE  EscapeInv'
  <2>1. EdgeInv'
    <3>1. PICK p, w : p = op[t].src /\ w = op[t].dst
      OBVIOUS
    <3>2. /\ op[t].kind = "store" /\ w \in Object /\ w \in stack[t]
          /\ \A u \in Thread \ {t} : op'[u] = op[u]
          /\ UNCHANGED <<words, color, from, pending, free, pc, cur, todo>>
          /\ missed \subseteq missed'
          /\ Overlooked(p, w) => w \in missed'
      BY <1>9, <3>1 DEF Barrier
    <3>3. Reported \subseteq Reported' /\ (Fires(p, w) => w \in Reported')
      BY <1>9, <1>c, <1>q, <3>1, <3>2 DEF Barrier
    <3>4. \A x : Known(x) => Known(x)'
      BY <3>2, <3>3
    <3>5. ASSUME pc \in {"clear", "mark", "sweep"}, p \in Object \ (from \cup pending \cup free), w \in from
          PROVE  Known(w)'
      <4>1. CASE Fires(p, w)
        BY <3>3, <4>1
      <4>2. CASE color[w] # WHITE
        BY <3>2, <3>5, <4>2 DEF Overlooked, Passed
      <4>3. CASE ~Fires(p, w) /\ color[w] = WHITE
        <5>1. color[p] # BLACK
          BY <4>3 DEF Fires
        <5>2. ~(pc = "clear" \/ unscanned # {})
          BY <1>9, <3>5, <5>1 DEF Barrier
        <5>3. StackPassed(t)
          BY <3>5, <5>2
        <5>4. Known(w)
          BY <3>2, <3>5, <5>3
        <5> QED
          BY <3>4, <5>4
      <4> QED
        BY <4>1, <4>2, <4>3
    <3>6. SUFFICES ASSUME pc \in {"clear", "mark", "sweep"}, NEW o \in Object \ (from \cup pending \cup free),
                          NEW g \in Field, words[o][g] \in from
                   PROVE  (Known(words[o][g]) \/ Storing(o, words[o][g]) \/ (o = cur /\ g \in todo))'
      BY <3>2
    <3>7. PICK x \in from : x = words[o][g] /\ x = words'[o][g]
      BY <3>2, <3>6
    <3>8. Known(x) \/ Storing(o, x) \/ (o = cur /\ g \in todo)
      <4>1. words[o][g] \in from
        BY <3>6
      <4>2. Known(words[o][g]) \/ Storing(o, words[o][g]) \/ (o = cur /\ g \in todo)
        BY <3>6, <4>1
      <4> QED
        BY <3>7, <4>2
    <3>9. CASE Storing(o, x)
      <4>1. PICK u \in Thread : op[u].kind = "store" /\ op[u].src = o /\ op[u].dst = x
        BY <3>9
      <4>2. CASE u = t
        <5>1. o = p /\ x = w
          BY <3>1, <4>1, <4>2
        <5>2. Known(x)'
          BY <3>5, <3>6, <3>7, <5>1
        <5> QED
          BY <3>7, <5>2
      <4>3. CASE u # t
        <5>1. Storing(o, x)'
          BY <3>2, <4>1, <4>3
        <5> QED
          BY <3>7, <5>1
      <4> QED
        BY <4>2, <4>3
    <3> QED
      BY <3>2, <3>4, <3>7, <3>8, <3>9
  <2>2. AnchorInv'
    BY <1>9, <1>c, <1>q DEF Barrier, Fires, Overlooked, Passed
  <2> QED
    BY <2>1, <2>2
<1>10. ASSUME NEW o \in Object, HandleNew(o)
       PROVE  EscapeInv'
  <2>1. Reported' = Reported
    BY <1>10, <1>m DEF HandleNew
  <2>2. EdgeInv'
    BY <1>10, <2>1 DEF HandleNew, Handled, Handles, Draining, Scanning
  <2>3. AnchorInv'
    BY <1>10, <2>1 DEF HandleNew, Handled, Handles, Draining, Scanning
  <2> QED
    BY <2>2, <2>3
<1>11. ASSUME NEW o \in Object, HandleCti(o)
       PROVE  EscapeInv'
  <2>1. Reported \subseteq Reported' \cup {o}
    BY <1>11, <1>h DEF HandleCti
  <2>2. EdgeInv'
    BY <1>11, <2>1 DEF HandleCti, Handled, Handles, Draining, Scanning, MoveToScan
  <2>3. AnchorInv'
    BY <1>11, <2>1 DEF HandleCti, Handled, Handles, Draining, Scanning, MoveToScan
  <2> QED
    BY <2>2, <2>3
<1>12. ASSUME NEW o \in Object, HandleFree(o)
       PROVE  EscapeInv'
  <2>1. Reported' = Reported
    BY <1>12, <1>m DEF HandleFree
  <2>2. EdgeInv'
    BY <1>12, <2>1 DEF HandleFree, Handled, Handles, Draining, Scanning
  <2>3. AnchorInv'
    BY <1>12, <2>1 DEF HandleFree, Handled, Handles, Draining, Scanning
  <2> QED
    BY <2>2, <2>3
<1>13. CASE StartCycle
  <2>1. EdgeInv'
    <3>1. Announced = {}
      BY <1>13 DEF StartCycle, Announced, Sent
    <3>2. Object \subseteq from' \cup free'
      BY <1>13, <3>1 DEF StartCycle, Joined
    <3> QED
      BY <3>2
  <2>2. AnchorInv'
    BY <1>13, <1>q DEF StartCycle, Joined
  <2> QED
    BY <2>1, <2>2
<1>14. ASSUME NEW o \in Object, ClearObject(o)
       PROVE  EscapeInv'
  <2>1. EdgeInv'
    BY <1>14, <1>q DEF ClearObject
  <2>2. AnchorInv'
    BY <1>14, <1>q DEF ClearObject
  <2> QED
    BY <2>1, <2>2
<1>15. CASE MarkRoot
  <2>1. EdgeInv'
    BY <1>15, <1>q DEF MarkRoot, Cleared, MarksRoot, MoveToScan
  <2>2. AnchorInv'
    BY <1>15, <1>q DEF MarkRoot, Cleared, MarksRoot, MoveToScan
  <2> QED
    BY <2>1, <2>2
<1>16. ASSUME NEW t \in Thread, ScanStack(t)
       PROVE  EscapeInv'
  <2>1. EdgeInv'
    BY <1>16, <1>q DEF ScanStack, Found, Read, MoveToScan
  <2>2. AnchorInv'
    BY <1>16, <1>q DEF ScanStack, Found, Read, MoveToScan
  <2> QED
    BY <2>1, <2>2
<1>17. ASSUME NEW o \in Object, ScanObject(o)
       PROVE  EscapeInv'
  <2>1. EdgeInv'
    BY <1>17, <1>q DEF ScanObject, Scanning
  <2>2. AnchorInv'
    BY <1>17, <1>q DEF ScanObject, Scanning
  <2> QED
    BY <2>1, <2>2
<1>18. ASSUME NEW f \in Field, ScanWord(f)
       PROVE  EscapeInv'
  <2>1. EdgeInv'
    BY <1>18, <1>q DEF ScanWord, Scanning, MoveToScan
  <2>2. AnchorInv'
    BY <1>18, <1>q DEF ScanWord, Scanning, MoveToScan
  <2> QED
    BY <2>1, <2>2
<1>19. CASE DrainDone
  <2>1. EdgeInv'
    BY <1>19, <1>q DEF DrainDone, Drained, Draining, Scanning
  <2>2. AnchorInv'
    BY <1>19, <1>q DEF DrainDone, Drained, Draining, Scanning
  <2> QED
    BY <2>1, <2>2
<1>20. CASE ScanDone
  <2>1. EdgeInv'
    BY <1>20, <1>q DEF ScanDone, Scanning
  <2>2. AnchorInv'
    BY <1>20, <1>q DEF ScanDone, Scanning
  <2> QED
    BY <2>1, <2>2
<1>21. ASSUME NEW o \in Object, SweepObject(o)
       PROVE  EscapeInv'
  <2>1. EdgeInv'
    BY <1>21, <1>q DEF SweepObject
  <2>2. AnchorInv'
    BY <1>21, <1>q DEF SweepObject
  <2> QED
    BY <2>1, <2>2
<1>22. CASE SweepDone
  <2>1. EdgeInv'
    BY <1>22, <1>q DEF SweepDone
  <2>2. AnchorInv'
    BY <1>22, <1>q DEF SweepDone
  <2> QED
    BY <2>1, <2>2
<1>23. CASE UNCHANGED vars
  <2>1. EdgeInv'
    BY <1>23, <1>q DEF vars
  <2>2. AnchorInv'
    BY <1>23, <1>q DEF vars
  <2> QED
    BY <2>1, <2>2
<1> HIDE DEF Inv, EscapeInv
<1> QED
  BY <1>1, <1>2, <1>3, <1>4, <1>5, <1>6, <1>7, <1>8, <1>9, <1>10, <1>11, <1>12, <1>13, <1>14,
     <1>15, <1>16, <1>17, <1>18, <1>19, <1>20, <1>21, <1>22, <1>23
     DEF Next, Client, HandleMessage, Cycle, LoadField, LoadRoot
-----------------------------------------------------------------------------
(* The model ends where the client can reach a block that was reclaimed.   *)
ReachInv == ~Broken => Reachable \cap free = {}

(* The smallest closed set holds the anchors and is itself closed.         *)
LEMMA ReachableIsClosed ==
    ASSUME TypeOK
    PROVE  Anchors \ freed \subseteq Reachable /\ Closed(Reachable) /\ Reachable \subseteq Object
<1>1. Anchors \ freed \subseteq Reachable
  BY DEF Reachable, Anchors
<1>2. ASSUME NEW p \in Reachable, NEW f \in Field, words[p][f] \notin freed \cup {NULL}
      PROVE  words[p][f] \in Reachable
  <2>1. words[p][f] \in Object
    BY <1>2 DEF Reachable, TypeOK, Ptr
  <2>2. ASSUME NEW S \in SUBSET Object, Anchors \ freed \subseteq S, Closed(S)
        PROVE  words[p][f] \in S
    <3>1. p \in S
      BY <2>2 DEF Reachable
    <3> QED
      BY <1>2, <2>2, <3>1 DEF Closed
  <2> QED
    BY <2>1, <2>2 DEF Reachable
<1> QED
  BY <1>1, <1>2 DEF Closed, Reachable

(* What a thread uses is reachable.                                        *)
LEMMA UsedIsReachable ==
    ASSUME TypeOK, NEW t \in Thread, NEW o, Uses(t, o)
    PROVE  o \in Reachable
<1>1. o \in Anchors \ freed
  BY DEF Uses, Anchors, TypeOK
<1> QED
  BY <1>1, ReachableIsClosed

(* A set that the anchors and the words do not leave after a step holds    *)
(* what is reachable then.                                                 *)
LEMMA ReachableIsLeast ==
    ASSUME NEW S \in SUBSET Object,
           \A o \in Object : (o = root' \/ \E t \in Thread : o \in stack'[t]) => o \in S \cup freed',
           \A p \in S, f \in Field : words'[p][f] \in S \cup freed' \cup {NULL}
    PROVE  Reachable' \subseteq S
  BY DEF Reachable, Anchors, Closed
(* Only the clients change what they can reach.                            *)
LEMMA ReachableIsSame ==
    ASSUME UNCHANGED <<main, words, root, stack, freed>>
    PROVE  Reachable' = Reachable /\ \A S : Closed(S)' <=> Closed(S)
  BY DEF Reachable, Anchors, Closed

(* The clients reach what they could reach, and what they are given.       *)
LEMMA ClientsReach ==
    ASSUME Inv, NEW t \in Thread, Client(t)
    PROVE  Reachable' \subseteq Reachable \cup (free \ free')
<1>1. /\ TypeOK
      /\ \A o \in Object : (o = root \/ \E u \in Thread : o \in stack[u]) => o \in Reachable \cup freed
      /\ \A p \in Reachable, f \in Field : words[p][f] \in Reachable \cup freed \cup {NULL}
      /\ Reachable \subseteq Object
  BY ReachableIsClosed DEF Inv, Anchors, Closed
<1>2. \A u \in Thread : \A o : Uses(u, o) => o \in Reachable
  BY <1>1, UsedIsReachable
<1> USE ConcurrentAssumption DEF TypeOK, Push
<1>3. ASSUME NEW o \in Object, NewObject(t, o)
      PROVE  Reachable' \subseteq Reachable \cup {o}
  <2> DEFINE S == Reachable \cup {o}
  <2>1. \A p \in Object : (p = root' \/ \E u \in Thread : p \in stack'[u]) => p \in S \cup freed'
    BY <1>1, <1>3 DEF NewObject
  <2>2. \A p \in S, f \in Field : words'[p][f] \in S \cup freed' \cup {NULL}
    BY <1>1, <1>3 DEF NewObject
  <2>3. S \in SUBSET Object
    BY <1>1
  <2> HIDE DEF S
  <2>4. Reachable' \subseteq S
    BY <2>1, <2>2, <2>3, ReachableIsLeast
  <2> QED
    BY <2>4 DEF S
<1>4. ASSUME NEW o \in Object, NEW n \in Object, ResizeObject(t, o, n)
      PROVE  Reachable' \subseteq Reachable \cup {n}
  <2> DEFINE S == Reachable \cup {n}
  <2>1. \A p \in Object : (p = root' \/ \E u \in Thread : p \in stack'[u]) => p \in S \cup freed'
    BY <1>1, <1>4 DEF ResizeObject
  <2>2. \A p \in S, f \in Field : words'[p][f] \in S \cup freed' \cup {NULL}
    BY <1>1, <1>4 DEF ResizeObject
  <2>3. S \in SUBSET Object
    BY <1>1
  <2> HIDE DEF S
  <2>4. Reachable' \subseteq S
    BY <2>1, <2>2, <2>3, ReachableIsLeast
  <2> QED
    BY <2>4 DEF S
<1>r. ASSUME \A o \in Object : (o = root' \/ \E u \in Thread : o \in stack'[u]) => o \in Reachable \cup freed',
             \A p \in Reachable, f \in Field : words'[p][f] \in Reachable \cup freed' \cup {NULL}
      PROVE  Reachable' \subseteq Reachable
  <2>1. PICK R \in SUBSET Object : R = Reachable
    BY <1>1
  <2> HIDE DEF TypeOK
  <2>2. Reachable' \subseteq R
    BY <1>r, <2>1, ReachableIsLeast
  <2> QED
    BY <2>1, <2>2
<1>5. ASSUME NEW o \in Object, FreeObject(t, o)
      PROVE  Reachable' \subseteq Reachable
  BY <1>1, <1>5, <1>r DEF FreeObject, heap
<1>6. ASSUME NEW F \in SUBSET Field, CopyAndFree(t, F)
      PROVE  Reachable' \subseteq Reachable
  <2>1. op[t].src \in Reachable /\ op[t].dst \in Object
    BY <1>2, <1>6 DEF CopyAndFree, Inv, CallInv, Uses
  <2>2. \A p \in Reachable, f \in Field :
           words'[p][f] = words[p][f] \/ words'[p][f] = words[op[t].src][f]
    BY <1>1, <1>6, <2>1 DEF CopyAndFree
  <2>3. freed \subseteq freed' /\ UNCHANGED <<root, stack>>
    BY <1>6 DEF CopyAndFree
  <2> QED
    BY <1>1, <1>r, <2>1, <2>2, <2>3
<1>7. ASSUME NEW w \in Reachable, Load(t, w)
      PROVE  Reachable' \subseteq Reachable
  BY <1>1, <1>7, <1>r DEF Load, heap
<1>8. ASSUME NEW p \in Object, NEW f \in Field, LoadField(t, p, f)
      PROVE  Reachable' \subseteq Reachable
  <2>1. words[p][f] \in Reachable
    BY <1>1, <1>2, <1>8 DEF LoadField, Load
  <2> QED
    BY <1>7, <1>8, <2>1 DEF LoadField
<1>9. CASE LoadRoot(t)
  <2>1. root \in Reachable
    BY <1>1, <1>9 DEF LoadRoot, Load
  <2> QED
    BY <1>7, <1>9, <2>1 DEF LoadRoot
<1>10. ASSUME NEW o \in Object, Drop(t, o)
       PROVE  Reachable' \subseteq Reachable
  BY <1>1, <1>10, <1>r DEF Drop, heap
<1>11. ASSUME NEW p \in Object, NEW f \in Field, NEW w \in Ptr, StoreField(t, p, f, w)
       PROVE  Reachable' \subseteq Reachable
  <2>1. w \in Reachable \cup {NULL}
    BY <1>2, <1>11 DEF StoreField
  <2>2. \A o \in Object, g \in Field : words'[o][g] \in {words[o][g], w}
    BY <1>11 DEF StoreField
  <2> QED
    BY <1>1, <1>11, <1>r, <2>1, <2>2 DEF StoreField
<1>12. ASSUME NEW w \in Ptr, StoreRoot(t, w)
       PROVE  Reachable' \subseteq Reachable
  <2>1. w \in Reachable \cup {NULL}
    BY <1>2, <1>12 DEF StoreRoot
  <2> QED
    BY <1>1, <1>12, <1>r, <2>1 DEF StoreRoot
<1>13. CASE Barrier(t)
  BY <1>1, <1>13, <1>r DEF Barrier, heap
<1>14. \A o \in Object : NewObject(t, o) => o \in free \ free'
  BY DEF NewObject
<1>15. \A o, n \in Object : ResizeObject(t, o, n) => n \in free \ free'
  BY DEF ResizeObject
<1> QED
  BY <1>3, <1>4, <1>5, <1>6, <1>8, <1>9, <1>10, <1>11, <1>12, <1>13, <1>14, <1>15 DEF Client

(* The collector takes a block that can be reached in sgc_sweep only, and  *)
(* there the model ends.                                                   *)
LEMMA ReachInvPreserved ==
    ASSUME Inv, ReachInv, [Next]_vars
    PROVE  ReachInv'
<1>1. ASSUME NEW t \in Thread, Client(t)
      PROVE  ReachInv'
  <2>1. Reachable' \subseteq Reachable \cup (free \ free')
    BY <1>1, ClientsReach
  <2>2. UNCHANGED pc /\ free' \subseteq free
    BY <1>1 DEF Client, NewObject, FreeObject, Drop, ResizeObject, CopyAndFree, LoadField, LoadRoot,
       Load, StoreField, StoreRoot, Barrier, lists
  <2> QED
    BY <2>1, <2>2 DEF ReachInv, Broken
<1>2. CASE HandleMessage \/ Cycle \/ UNCHANGED vars
  <2>1. UNCHANGED <<main, words, root, stack, freed>>
    BY <1>2 DEF HandleMessage, HandleNew, HandleCti, HandleFree, Cycle, StartCycle, ClearObject,
       MarkRoot, ScanStack, ScanObject, ScanWord, DrainDone, ScanDone, SweepObject, SweepDone,
       vars, heap, mutator
  <2>2. Reachable' = Reachable
    BY <2>1, ReachableIsSame
  <2>3. \/ free' = free /\ (Broken => Broken')
        \/ \E o \in Object : free' = free \cup {o} /\ ~Broken /\ (o \in Reachable => Broken')
    <3>1. ASSUME NEW o \in Object, SweepObject(o)
          PROVE  free' = free \cup {o} /\ ~Broken /\ (o \in Reachable => Broken')
      BY <3>1 DEF SweepObject, Broken
    <3>2. CASE \A o \in Object : ~SweepObject(o)
      BY <1>2, <3>2 DEF HandleMessage, HandleNew, HandleCti, HandleFree, Cycle, StartCycle, ClearObject,
         MarkRoot, Cleared, ScanStack, ScanObject, ScanWord, DrainDone, Drained, Draining, Scanning,
         Handled, Handles, ScanDone, SweepDone, vars, lists, Broken
    <3> QED
      BY <3>1, <3>2
  <2> QED
    BY <2>2, <2>3 DEF ReachInv
<1> QED
  BY <1>1, <1>2 DEF Next
-----------------------------------------------------------------------------
(* What the sweep is going to reclaim: the smallest closed set with the    *)
(* anchors goes along words the collector has scanned until it comes to an *)
(* object that escaped.                                                    *)
LEMMA LossNeedsEscape ==
    ASSUME Inv, EscapeInv, ReachInv
    PROVE  LostByEscapeOnly
<1> SUFFICES ASSUME pc = "sweep", NEW S \in SUBSET Object, Escaped \subseteq S, Closed(S)
             PROVE  Reachable \cap from \subseteq S
  BY DEF LostByEscapeOnly
<1> DEFINE K == S \cup (Reachable \ from)
<1>1. /\ Anchors \ freed \subseteq Reachable
      /\ \A p \in Reachable, f \in Field : words[p][f] \in Reachable \cup freed \cup {NULL}
      /\ Reachable \subseteq Object
  BY ReachableIsClosed DEF Inv, Closed
<1>2. pending = {} /\ unscanned = {} /\ todo = {} /\ Reachable \cap free = {} /\ from \subseteq Object
  BY DEF Inv, PhaseInv, ReachInv, Broken, TypeOK
<1>3. \A w \in from : Known(w) => w \in S
  BY <1>2 DEF Known, Escaped, Reported
<1>4. \A t \in Thread : stack[t] \cap from \subseteq S
  BY <1>2, <1>3 DEF EscapeInv, AnchorInv, StackPassed, Known
<1>5. \A p, w : w \in from /\ Storing(p, w) => w \in S
  BY <1>4 DEF Storing, Inv, CallInv
<1>6. Anchors \cap from \subseteq S
  BY <1>3, <1>4, <1>5 DEF Anchors, EscapeInv, AnchorInv
<1>7. ASSUME NEW p \in Reachable \ from, NEW f \in Field, words[p][f] \in from
      PROVE  words[p][f] \in S
  <2>1. Known(words[p][f]) \/ Storing(p, words[p][f])
    BY <1>1, <1>2, <1>7 DEF EscapeInv, EdgeInv
  <2> QED
    BY <1>3, <1>5, <1>7, <2>1
<1>8. Anchors \ freed \subseteq K
  BY <1>1, <1>6
<1>9. Closed(K)
  BY <1>1, <1>7 DEF Closed
<1>10. K \in SUBSET Object
  BY <1>1
<1> HIDE DEF K
<1>11. Reachable \subseteq K
  BY <1>8, <1>9, <1>10 DEF Reachable
<1> QED
  BY <1>11 DEF K

(* The invariant implies OnePlace, whose messages are the two sets here.   *)
LEMMA PlacesAreOne ==
    ASSUME Inv
    PROVE  OnePlace
<1>1. \A o \in Object : Sent(NewMessage(o)) <=> o \in Announced
  BY DEF Announced
<1> QED
  BY <1>1 DEF Inv, PlaceInv, NewOnce, OnePlace

(* What the collector takes from a list is on 'from' or 'scan', or with    *)
(* the allocator: the colour tells.  Only the colour of the object behind  *)
(* the handle is not looked at.                                            *)
LEMMA CrashStep ==
    ASSUME Inv, [Next]_vars, pc' = "crashed", pc # "crashed"
    PROVE  pc = "clear" /\ Sent(NewMessage(root))
<1>1. /\ \A o \in Object : o \in free \cup new \cup from \cup pending \cup scanned \cup Announced
      /\ Recognised \subseteq Object
  BY ConcurrentAssumption DEF Inv, PlaceInv
<1>2. ASSUME NEW W \in SUBSET Object, NEW q, q # "crashed", MoveToScan(W, q)
      PROVE  \E o \in W : o \in new \cup scanned \cup Announced
  BY <1>1, <1>2 DEF MoveToScan
<1>3. CASE MarkRoot
  <2>1. pc = "clear" /\ root \in Object /\ MoveToScan({root}, "mark")
    BY <1>1, <1>3 DEF MarkRoot, MarksRoot, Cleared
  <2>2. root \in new \cup scanned \cup Announced
    BY <1>2, <2>1
  <2>3. new = {} /\ scanned = {}
    BY <2>1 DEF Inv, PhaseInv
  <2> QED
    BY <2>1, <2>2, <2>3 DEF Announced
<1>4. ASSUME NEW W \in SUBSET Object, MoveToScan(W, pc), \A o \in W : color[o] = WHITE
      PROVE  FALSE
  <2>1. PICK o \in W : o \in new \cup scanned \cup Announced
    BY <1>2, <1>4
  <2> QED
    BY <1>4, <2>1 DEF Inv, ColourInv
<1>5. ASSUME NEW o \in Object, HandleCti(o)
      PROVE  FALSE
  BY <1>4, <1>5 DEF HandleCti
<1>6. ASSUME NEW t \in Thread, ScanStack(t)
      PROVE  FALSE
  <2>1. PICK S \in SUBSET Object : MoveToScan(Found(Read(t) \cup S), pc)
    BY <1>6 DEF ScanStack
  <2>2. Found(Read(t) \cup S) \in SUBSET Object
        /\ \A o \in Found(Read(t) \cup S) : color[o] = WHITE
    BY <1>1 DEF Found
  <2> QED
    BY <1>4, <2>1, <2>2
<1>7. ASSUME NEW f \in Field, ScanWord(f)
      PROVE  FALSE
  BY <1>1, <1>4, <1>7 DEF ScanWord
<1>8. ASSUME NEW t \in Thread, Client(t)
      PROVE  FALSE
  BY <1>8 DEF Client, NewObject, FreeObject, Drop, ResizeObject, CopyAndFree, LoadField, LoadRoot,
     Load, StoreField, StoreRoot, Barrier
<1>9. ASSUME NEW x \in Object, HandleNew(x) \/ HandleFree(x) \/ ClearObject(x) \/ ScanObject(x)
                               \/ SweepObject(x)
      PROVE  FALSE
  BY <1>9 DEF HandleNew, HandleFree, ClearObject, ScanObject, SweepObject
<1>10. ~StartCycle /\ ~DrainDone /\ ~ScanDone /\ ~SweepDone /\ ~UNCHANGED vars
  BY DEF StartCycle, DrainDone, ScanDone, SweepDone, vars
<1> QED
  BY <1>3, <1>5, <1>6, <1>7, <1>8, <1>9, <1>10 DEF Next, HandleMessage, Cycle

(* Who paints an object that is RED.                                       *)
LEMMA RedStep ==
    ASSUME Inv, [Next]_vars, NEW o \in Object, color[o] = RED, color'[o] # RED
    PROVE  o \in free \cup pending
<1>1. color \in [Object -> Color] /\ (todo # {} => color[cur] # RED)
  BY DEF Inv, TypeOK, ColourInv
<1>2. ASSUME NEW x \in Object, ClearObject(x)
      PROVE  FALSE
  BY <1>1, <1>2 DEF ClearObject
<1>3. ~MarkRoot
  BY <1>1 DEF MarkRoot, MarksRoot
<1>4. ASSUME NEW t \in Thread, ScanStack(t)
      PROVE  FALSE
  BY <1>1, <1>4 DEF ScanStack, Found, WHITE, RED
<1>5. ASSUME NEW f \in Field, ScanWord(f)
      PROVE  FALSE
  BY <1>1, <1>5 DEF ScanWord
<1>6. ASSUME NEW x \in Object, HandleFree(x)
      PROVE  FALSE
  BY <1>1, <1>6 DEF HandleFree
<1>7. ASSUME NEW x \in Object, ScanObject(x)
      PROVE  o \in pending
  BY <1>1, <1>7 DEF ScanObject
<1>8. ASSUME NEW t \in Thread, NEW x \in Object, NewObject(t, x)
      PROVE  o \in free
  BY <1>1, <1>8 DEF NewObject
<1>9. ASSUME NEW t \in Thread, NEW x \in Object, NEW n \in Object, ResizeObject(t, x, n)
      PROVE  o \in free
  BY <1>1, <1>9 DEF ResizeObject
<1>10. ASSUME NEW t \in Thread, Client(t)
       PROVE  o \in free
  BY <1>8, <1>9, <1>10 DEF Client, FreeObject, Drop, CopyAndFree, LoadField, LoadRoot, Load,
     StoreField, StoreRoot, Barrier, heap
<1>11. ASSUME NEW x \in Object, HandleNew(x) \/ HandleCti(x) \/ SweepObject(x)
       PROVE  FALSE
  BY <1>11 DEF HandleNew, HandleCti, SweepObject, heap
<1>12. ~StartCycle /\ ~DrainDone /\ ~ScanDone /\ ~SweepDone /\ ~UNCHANGED vars
  BY DEF StartCycle, DrainDone, ScanDone, SweepDone, heap, vars
<1> QED
  BY <1>2, <1>3, <1>4, <1>5, <1>6, <1>7, <1>10, <1>11, <1>12 DEF Next, HandleMessage, Cycle
-----------------------------------------------------------------------------
(* The three invariants hold together.                                     *)
LEMMA Invariant == Spec => [](Inv /\ EscapeInv /\ ReachInv)
<1>1. Init => Inv /\ EscapeInv /\ ReachInv
  <2> SUFFICES ASSUME Init
               PROVE  Inv /\ EscapeInv /\ ReachInv
    OBVIOUS
  <2>1. Announced = {}
    BY DEF Init, Announced, Sent
  <2>2. TypeOK
    BY ConcurrentAssumption DEF Init, TypeOK, Color, WHITE, Ptr, Op, Idle, Phase
  <2>3. NewOnce /\ PlaceInv /\ PhaseInv /\ CallInv /\ ColourInv
    BY <2>1 DEF Init, NewOnce, PlaceInv, PhaseInv, CallInv, ColourInv, Idle
  <2>4. EscapeInv
    BY DEF Init, EscapeInv, EdgeInv, AnchorInv, StackPassed
  <2>5. Anchors = {}
    BY ConcurrentAssumption DEF Init, Anchors
  <2>6. Closed({})
    BY DEF Closed
  <2>7. Reachable = {}
    BY <2>5, <2>6 DEF Reachable
  <2> QED
    BY <2>2, <2>3, <2>4, <2>7 DEF Inv, ReachInv
<1>2. Inv /\ EscapeInv /\ ReachInv /\ [Next]_vars => (Inv /\ EscapeInv /\ ReachInv)'
  BY InvPreserved, EscapeInvPreserved, ReachInvPreserved
<1> QED
  BY <1>1, <1>2, PTL DEF Spec

(* Every variable has its type.                                            *)
THEOREM TypeCorrect == Spec => []TypeOK
<1>1. Inv => TypeOK
  BY DEF Inv
<1> QED
  BY <1>1, Invariant, PTL

(* Whatever the clients and the collector do at the same time, a block is  *)
(* with the allocator, on one list or announced by one message.            *)
THEOREM BlocksInOnePlace == Spec => []OnePlace
<1>1. Inv => OnePlace
  BY PlacesAreOne
<1> QED
  BY <1>1, Invariant, PTL

(* The collector dies of the NULL links of a new object only when the      *)
(* handle leads to it in the loop of sgc_mark over sgc_roots.              *)
THEOREM CrashByHandle == Spec => CrashByHandleOnly
<1>1. Inv /\ [Next]_vars
         => [pc' = "crashed" /\ pc # "crashed" => pc = "clear" /\ Sent(NewMessage(root))]_vars
  BY CrashStep
<1> QED
  BY <1>1, Invariant, PTL DEF Spec, CrashByHandleOnly

(* The collector forgets that an object was freed only when it scans it.   *)
THEOREM RedForgottenOnScan == Spec => RedForgottenOnScanOnly
<1>1. Inv /\ [Next]_vars
         => [\A o \in Object : color[o] = RED /\ color'[o] # RED
                                  => o \in free \cup pending]_vars
  BY RedStep
<1> QED
  BY <1>1, Invariant, PTL DEF Spec, RedForgottenOnScanOnly

(* Apart from the ways out that Escaped lists, what a client can reach     *)
(* when the sweep begins is on the 'scan' or the 'new' list, or new and    *)
(* announced: the sweep leaves it alone.                                   *)
THEOREM LostByEscape == Spec => []LostByEscapeOnly
<1>1. Inv /\ EscapeInv /\ ReachInv => LostByEscapeOnly
  BY LossNeedsEscape
<1> QED
  BY <1>1, Invariant, PTL
=============================================================================
