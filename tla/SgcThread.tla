------------------------------ MODULE SgcThread ------------------------------
(***************************************************************************)
(* The handshake of sgc_thread.c, built with SGC_USE_THREADS: client       *)
(* threads attach, detach and synchronise, and the collector thread that   *)
(* sgc_init creates scans their stacks.  Every attached thread has two     *)
(* mutexes.  It holds its scan mutex while it runs client code, so that    *)
(* the collector can read its stack only where it lets go; the sync mutex  *)
(* makes it wait there when the collector has come for it.                 *)
(*                                                                         *)
(* A mutex is its owner, and a step that locks one is enabled while it is  *)
(* free: nothing orders the threads that wait for it.  What the collector  *)
(* does with the heap is the business of SgcCollector; the steps of a      *)
(* cycle stand here for the time it takes.                                 *)
(***************************************************************************)
EXTENDS Naturals

CONSTANTS
    Thread,         \* the client threads
    Main,           \* the thread that calls sgc_init and sgc_cleanup
    GC,             \* the thread that runs sgc_main
    NULL,
    Stepping,       \* the threads that call sgc_thread_unlock and sgc_thread_lock
    Leaving         \* the threads that may call sgc_thread_detach or sgc_cleanup

ASSUME ThreadAssumption ==
    /\ Main \in Thread
    /\ GC \notin Thread /\ NULL \notin Thread \cup {GC}
    /\ Stepping \subseteq Thread /\ Leaving \subseteq Thread

VARIABLES
    pc,             \* pc[t]: where thread t is, see Place
    attached,       \* the threads on the list sgc_threads
    threadsMutex,   \* the owner of sgc_threads_mutex
    scanMutex,      \* scanMutex[t]: the owner of th->scan_mutex
    syncMutex,      \* syncMutex[t]: the owner of th->sync_mutex
    top,            \* top[t]: th->stack_top is set
    bottom,         \* th->stack_bottom: "unset", "current", or "stale" once t ran on
    gc,             \* where the collector is, see Stage
    todo,           \* the threads that sgc_scan_threads has not come to
    th,             \* the thread that sgc_scan_thread is called for
    continue        \* sgc_continue

vars == <<pc, attached, threadsMutex, scanMutex, syncMutex, top, bottom, gc, todo, th, continue>>

(* "out": not attached.  "attach", "enter", "top": in sgc_thread_attach.   *)
(* "run": client code.  "sync", "signal", "resume": in sgc_thread_sync.    *)
(* "away": between sgc_thread_unlock and sgc_thread_lock.  "detach",       *)
(* "leave", "left": in sgc_thread_detach.  "stop", "join", "done": the     *)
(* rest of sgc_cleanup.                                                    *)
Place == {"out", "attach", "enter", "top", "run", "sync", "signal", "resume", "away",
          "detach", "leave", "left", "stop", "join", "done"}

(* "head": the loop of sgc_main.  "threads": sgc_mark has entered the      *)
(* roots.  "next": between two stacks.  "sync", "scan", "unsync", "stack": *)
(* in sgc_scan_thread.  "mark": the rest of sgc_mark and sgc_sweep.        *)
Stage == {"head", "threads", "next", "sync", "scan", "unsync", "stack", "mark", "exit"}

Goto(t, place) == pc' = [pc EXCEPT ![t] = place]
-----------------------------------------------------------------------------
(* The state that sgc_init leaves: sgc_thread_attach_main has put the main *)
(* thread on the list, with its scan mutex locked, and the collector       *)
(* thread has been created.                                                *)
Init == /\ pc = [t \in Thread |-> IF t = Main THEN "run" ELSE "out"]
        /\ attached = {Main}
        /\ threadsMutex = NULL
        /\ scanMutex = [t \in Thread |-> IF t = Main THEN Main ELSE NULL]
        /\ syncMutex = [t \in Thread |-> NULL]
        /\ top = [t \in Thread |-> t = Main]
        /\ bottom = [t \in Thread |-> "unset"]
        /\ gc = "head" /\ todo = {} /\ th = NULL
        /\ continue = TRUE
-----------------------------------------------------------------------------
(* sgc_thread_attach.  Threads attach while the main thread is still going *)
(* to wait for them, that is before it calls sgc_cleanup.                  *)
Attach(t) ==
    /\ pc[t] = "out" /\ t # Main /\ pc[Main] \in {"run", "sync", "signal", "resume", "away"}
    /\ Goto(t, "attach")
    /\ UNCHANGED <<attached, threadsMutex, scanMutex, syncMutex, top, bottom, gc, todo,
                   th, continue>>

(* Mutant: the list is not locked.                                         *)
LockThreads_Unguarded(t) ==
    /\ pc[t] = "attach"
    /\ Goto(t, "enter")
    /\ UNCHANGED <<attached, threadsMutex, scanMutex, syncMutex, top, bottom, gc, todo,
                   th, continue>>

(* sgc_thread_new: with sgc_threads_mutex locked, new mutexes, of which    *)
(* the scan mutex is locked, and the thread goes on the list.              *)
LockThreads(t) ==
    /\ pc[t] = "attach" /\ threadsMutex = NULL
    /\ threadsMutex' = t
    /\ Goto(t, "enter")
    /\ UNCHANGED <<attached, scanMutex, syncMutex, top, bottom, gc, todo, th, continue>>

(* Mutant: the scan mutex is left unlocked.                                *)
Enter_Unlocked(t) ==
    /\ pc[t] = "enter"
    /\ scanMutex' = [scanMutex EXCEPT ![t] = NULL]
    /\ syncMutex' = [syncMutex EXCEPT ![t] = NULL]
    /\ top' = [top EXCEPT ![t] = FALSE]
    /\ bottom' = [bottom EXCEPT ![t] = "unset"]
    /\ attached' = attached \cup {t}
    /\ threadsMutex' = NULL
    /\ Goto(t, "top")
    /\ UNCHANGED <<gc, todo, th, continue>>

Enter(t) ==
    /\ pc[t] = "enter"
    /\ scanMutex' = [scanMutex EXCEPT ![t] = t]
    /\ syncMutex' = [syncMutex EXCEPT ![t] = NULL]
    /\ top' = [top EXCEPT ![t] = FALSE]
    /\ bottom' = [bottom EXCEPT ![t] = "unset"]
    /\ attached' = attached \cup {t}
    /\ threadsMutex' = NULL
    /\ Goto(t, "top")
    /\ UNCHANGED <<gc, todo, th, continue>>

(* The thread is on the list before its stack_top is set.  What is set is  *)
(* the lowest address of the stack (sgc_thread.c:126; stack_size is not    *)
(* used), the wrong end of a stack that grows down; what the collector     *)
(* then reads of it is Read in SgcConcurrent.                              *)
SetTop(t) ==
    /\ pc[t] = "top"
    /\ top' = [top EXCEPT ![t] = TRUE]
    /\ Goto(t, "run")
    /\ UNCHANGED <<attached, threadsMutex, scanMutex, syncMutex, bottom, gc, todo, th,
                   continue>>

(* sgc_thread_sync, sgc_thread_unlock: note the stack pointer, let go of   *)
(* the scan mutex.                                                         *)
LetGo(t) ==
    /\ bottom' = [bottom EXCEPT ![t] = "current"]
    /\ scanMutex' = [scanMutex EXCEPT ![t] = NULL]

(* sgc_thread_sync, sgc_thread_lock: get the scan mutex back and run on.   *)
Resume(t) ==
    /\ scanMutex[t] = NULL
    /\ scanMutex' = [scanMutex EXCEPT ![t] = t]
    /\ bottom' = [bottom EXCEPT ![t] = "stale"]
    /\ Goto(t, "run")

(* Mutant: the sync mutex is not passed.                                   *)
Sync_Straight(t) ==
    /\ pc[t] = "run"
    /\ LetGo(t)
    /\ Goto(t, "resume")
    /\ UNCHANGED <<attached, threadsMutex, syncMutex, top, gc, todo, th, continue>>

(* sgc_thread_sync.                                                        *)
Sync(t) ==
    /\ pc[t] = "run"
    /\ LetGo(t)
    /\ Goto(t, "sync")
    /\ UNCHANGED <<attached, threadsMutex, syncMutex, top, gc, todo, th, continue>>

SyncLock(t) ==
    /\ pc[t] = "sync" /\ syncMutex[t] = NULL
    /\ syncMutex' = [syncMutex EXCEPT ![t] = t]
    /\ Goto(t, "signal")
    /\ UNCHANGED <<attached, threadsMutex, scanMutex, top, bottom, gc, todo, th,
                   continue>>

SyncUnlock(t) ==
    /\ pc[t] = "signal"
    /\ syncMutex' = [syncMutex EXCEPT ![t] = NULL]
    /\ Goto(t, "resume")
    /\ UNCHANGED <<attached, threadsMutex, scanMutex, top, bottom, gc, todo, th,
                   continue>>

SyncReturn(t) ==
    /\ pc[t] = "resume"
    /\ Resume(t)
    /\ UNCHANGED <<attached, threadsMutex, syncMutex, top, gc, todo, th, continue>>

(* sgc_thread_unlock and sgc_thread_lock, around a call that may block.    *)
Unlock(t) ==
    /\ pc[t] = "run" /\ t \in Stepping
    /\ LetGo(t)
    /\ Goto(t, "away")
    /\ UNCHANGED <<attached, threadsMutex, syncMutex, top, gc, todo, th, continue>>

Lock(t) ==
    /\ pc[t] = "away"
    /\ Resume(t)
    /\ UNCHANGED <<attached, threadsMutex, syncMutex, top, gc, todo, th, continue>>

(* sgc_thread_detach, called by the thread itself or, for the main thread, *)
(* first thing in sgc_cleanup, once the other threads are gone.  It holds  *)
(* the scan mutex while it waits for sgc_threads_mutex.                    *)
Detach(t) ==
    /\ pc[t] = "run" /\ t \in Leaving
    /\ t = Main => \A u \in Thread \ {Main} : pc[u] = "out"
    /\ Goto(t, "detach")
    /\ UNCHANGED <<attached, threadsMutex, scanMutex, syncMutex, top, bottom, gc, todo,
                   th, continue>>

(* Mutant: the list is not locked.                                         *)
DetachLock_Unguarded(t) ==
    /\ pc[t] = "detach"
    /\ Goto(t, "leave")
    /\ UNCHANGED <<attached, threadsMutex, scanMutex, syncMutex, top, bottom, gc, todo,
                   th, continue>>

DetachLock(t) ==
    /\ pc[t] = "detach" /\ threadsMutex = NULL
    /\ threadsMutex' = t
    /\ Goto(t, "leave")
    /\ UNCHANGED <<attached, scanMutex, syncMutex, top, bottom, gc, todo, th, continue>>

(* The mutexes are destroyed, the thread is taken from the list.           *)
Leave(t) ==
    /\ pc[t] = "leave"
    /\ scanMutex' = [scanMutex EXCEPT ![t] = NULL]
    /\ syncMutex' = [syncMutex EXCEPT ![t] = NULL]
    /\ attached' = attached \ {t}
    /\ Goto(t, "left")
    /\ UNCHANGED <<threadsMutex, top, bottom, gc, todo, th, continue>>

DetachUnlock(t) ==
    /\ pc[t] = "left"
    /\ threadsMutex' = NULL
    /\ Goto(t, IF t = Main THEN "stop" ELSE "out")
    /\ UNCHANGED <<attached, scanMutex, syncMutex, top, bottom, gc, todo, th, continue>>

(* sgc_cleanup goes on: sgc_continue = 0, then pthread_join.               *)
Stop ==
    /\ pc[Main] = "stop"
    /\ continue' = FALSE
    /\ Goto(Main, "join")
    /\ UNCHANGED <<attached, threadsMutex, scanMutex, syncMutex, top, bottom, gc, todo,
                   th>>

Join ==
    /\ pc[Main] = "join" /\ gc = "exit"
    /\ Goto(Main, "done")
    /\ UNCHANGED <<attached, threadsMutex, scanMutex, syncMutex, top, bottom, gc, todo,
                   th, continue>>
-----------------------------------------------------------------------------
(* The collector thread.                                                   *)

(* sgc_main: another cycle, up to the end of the loop over the roots.      *)
GcCycle ==
    /\ gc = "head"
    /\ gc' = IF continue THEN "threads" ELSE "exit"
    /\ UNCHANGED <<pc, attached, threadsMutex, scanMutex, syncMutex, top, bottom, todo,
                   th, continue>>

(* Mutant: the list is not locked.                                         *)
GcLockThreads_Unguarded ==
    /\ gc = "threads"
    /\ todo' = attached
    /\ gc' = "next"
    /\ UNCHANGED <<pc, attached, threadsMutex, scanMutex, syncMutex, top, bottom, th,
                   continue>>

(* sgc_scan_threads holds sgc_threads_mutex while it goes along the list.  *)
GcLockThreads ==
    /\ gc = "threads" /\ threadsMutex = NULL
    /\ threadsMutex' = GC
    /\ todo' = attached
    /\ gc' = "next"
    /\ UNCHANGED <<pc, attached, scanMutex, syncMutex, top, bottom, th, continue>>

GcTake(t) ==
    /\ gc = "next" /\ t \in todo
    /\ todo' = todo \ {t}
    /\ th' = t
    /\ gc' = "sync"
    /\ UNCHANGED <<pc, attached, threadsMutex, scanMutex, syncMutex, top, bottom,
                   continue>>

GcUnlockThreads ==
    /\ gc = "next" /\ todo = {}
    /\ threadsMutex' = NULL
    /\ gc' = "mark"
    /\ UNCHANGED <<pc, attached, scanMutex, syncMutex, top, bottom, todo, th, continue>>

(* sgc_scan_thread: lock sync, lock scan, unlock sync, read the stack,     *)
(* unlock scan.                                                            *)
GcLockSync ==
    /\ gc = "sync" /\ syncMutex[th] = NULL
    /\ syncMutex' = [syncMutex EXCEPT ![th] = GC]
    /\ gc' = "scan"
    /\ UNCHANGED <<pc, attached, threadsMutex, scanMutex, top, bottom, todo, th,
                   continue>>

GcLockScan ==
    /\ gc = "scan" /\ scanMutex[th] = NULL
    /\ scanMutex' = [scanMutex EXCEPT ![th] = GC]
    /\ gc' = "unsync"
    /\ UNCHANGED <<pc, attached, threadsMutex, syncMutex, top, bottom, todo, th,
                   continue>>

GcUnlockSync ==
    /\ gc = "unsync"
    /\ syncMutex' = [syncMutex EXCEPT ![th] = NULL]
    /\ gc' = "stack"
    /\ UNCHANGED <<pc, attached, threadsMutex, scanMutex, top, bottom, todo, th,
                   continue>>

GcStackDone ==
    /\ gc = "stack"
    /\ scanMutex' = [scanMutex EXCEPT ![th] = NULL]
    /\ th' = NULL
    /\ gc' = "next"
    /\ UNCHANGED <<pc, attached, threadsMutex, syncMutex, top, bottom, todo, continue>>

(* The heap is marked and swept, then sgc_main looks at sgc_continue.      *)
GcCycleDone ==
    /\ gc = "mark"
    /\ gc' = "head"
    /\ UNCHANGED <<pc, attached, threadsMutex, scanMutex, syncMutex, top, bottom, todo,
                   th, continue>>
-----------------------------------------------------------------------------
(* What a thread does inside the library once it has called it.            *)
Library(t) == \/ LockThreads(t) \/ Enter(t) \/ SetTop(t)
              \/ SyncLock(t) \/ SyncUnlock(t) \/ SyncReturn(t)
              \/ Lock(t)
              \/ DetachLock(t) \/ Leave(t) \/ DetachUnlock(t)

Call(t) == Attach(t) \/ Sync(t) \/ Unlock(t) \/ Detach(t)

Cleanup == Stop \/ Join

Collector == \/ GcCycle \/ GcLockThreads
             \/ \E t \in Thread : GcTake(t)
             \/ GcUnlockThreads
             \/ GcLockSync \/ GcLockScan \/ GcUnlockSync \/ GcStackDone
             \/ GcCycleDone

Next == \/ \E t \in Thread : Library(t) \/ Call(t)
        \/ Cleanup
        \/ Collector

Spec == Init /\ [][Next]_vars

(* Threads and collector are scheduled, and the client threads keep        *)
(* calling sgc_thread_sync as long as they run client code (main.c does so *)
(* in its loop).  Weak fairness: a mutex that is taken again and again is  *)
(* not owed to anyone who waits for it.                                    *)
FairSpec == /\ Spec
            /\ WF_vars(Collector)
            /\ WF_vars(Cleanup)
            /\ \A t \in Thread : WF_vars(Library(t)) /\ WF_vars(Sync(t))
-----------------------------------------------------------------------------
(***************************************************************************)
(* Properties.                                                             *)
(***************************************************************************)
Owner == Thread \cup {GC, NULL}

(* Every variable has its type, and sgc_scan_thread is called for a thread *)
(* that is on the list.                                                    *)
TypeOK ==
    /\ pc \in [Thread -> Place]
    /\ attached \subseteq Thread
    /\ threadsMutex \in Owner
    /\ scanMutex \in [Thread -> Owner]
    /\ syncMutex \in [Thread -> Owner]
    /\ top \in [Thread -> BOOLEAN]
    /\ bottom \in [Thread -> {"unset", "current", "stale"}]
    /\ gc \in Stage
    /\ todo \subseteq Thread
    /\ th \in Thread \cup {NULL}
    /\ gc \in {"sync", "scan", "unsync", "stack"} => th \in attached
    /\ continue \in BOOLEAN

(* While the collector reads the stack of a thread, stack_top and          *)
(* stack_bottom are both set and the thread stands still between letting go of its scan mutex  *)
(* and getting it back: also for a thread that has attached a moment ago,  *)
(* or is about to leave.                                                   *)
StackStandsStill ==
    gc = "stack" =>
        /\ pc[th] \in {"sync", "signal", "resume", "away"}
        /\ top[th] /\ bottom[th] = "current"

(* sgc_thread_detach destroys the mutexes of a thread only while the       *)
(* collector neither holds them nor is on its way to them: with the list   *)
(* cell, it frees what the collector would read.                           *)
LeavesUnseen ==
    \A t \in Thread : pc[t] = "leave" =>
        /\ syncMutex[t] = NULL /\ scanMutex[t] = t
        /\ th # t /\ t \notin todo

(* No thread enters or leaves the list while sgc_scan_threads goes along   *)
(* it.                                                                     *)
ListStandsStill ==
    [][(gc \in {"next", "sync", "scan", "unsync", "stack"}) => attached' = attached]_vars

(* main.c:80-82 ends the program with sgc_cleanup() and return 0: the call *)
(* returns.                                                                *)
CleanupReturns == pc[Main] = "detach" ~> pc[Main] = "done"
=============================================================================
