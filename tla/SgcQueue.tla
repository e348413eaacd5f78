------------------------------ MODULE SgcQueue ------------------------------
(***************************************************************************)
(* What sgc_mess.c promises those who send messages to the collector and   *)
(* the one thread that handles them.  No message is lost or handled twice, *)
(* and they are handled in the order in which they were sent, but for      *)
(* this: a message that is sent while the handler fetches one may overtake *)
(* others.  Once two threads have met at one stack nothing is promised.    *)
(***************************************************************************)
EXTENDS Naturals, Sequences, SequencesExt

CONSTANT Message

VARIABLES
    waiting,        \* the messages sent and not handled
    fetching,       \* sgc_message_get is under way
    raced           \* two threads have met

queueVars == <<waiting, fetching, raced>>

Init == waiting = <<>> /\ fetching = FALSE /\ raced = FALSE

Send(m) == /\ \E i \in 1..Len(waiting) + 1 :
                 /\ ~fetching => i = Len(waiting) + 1
                 /\ waiting' = InsertAt(waiting, i, m)
           /\ UNCHANGED <<fetching, raced>>

Fetch == /\ ~fetching /\ waiting # <<>>
         /\ fetching' = TRUE
         /\ UNCHANGED <<waiting, raced>>

Fetched == /\ fetching
           /\ fetching' = FALSE
           /\ UNCHANGED <<waiting, raced>>

Handle == /\ ~fetching /\ waiting # <<>>
          /\ waiting' = Tail(waiting)
          /\ UNCHANGED <<fetching, raced>>

Race == raced'

Next == Race \/ Fetch \/ Fetched \/ Handle \/ \E m \in Message : Send(m)

Spec == Init /\ [][Next]_queueVars
=============================================================================
