# Verification of sgc, a mark-and-sweep collector for C

This directory holds TLA+ specifications of the library in `src/`, the
configurations that TLC checks, and theorems that TLAPS proves. Paths below are
relative to `src/src/` (`sgc.c` is `src/src/sgc.c` in `PROJECT.json`).

The source makes two builds.  That of `CMakeLists.txt` is without
`SGC_USE_THREADS`: the collector runs inside the calls of the client.  With the
macro, and `sgc_init(ptr, 1)`, the collector is a thread of its own, as in
`main.c`.  `SgcCollector` follows the first; `SgcConcurrent`, `SgcThread`,
`SgcThreadList` and `SgcMessages` follow the second, each one aspect of it.

## 1. Inventory

| component | source | state it keeps | operations |
|---|---|---|---|
| collector | `sgc.c`, `sgc.h`, `sgc_priv.h` | colour, flags and type in each header; `sgc_new_list`, `sgc_scan_list`, `sgc_from_list`; `sgc_roots`, `sgc_typetab` | `sgc_new_object`, `sgc_free_object`, `sgc_resize_object`, `sgc_root`, `sgc_unroot`, `sgc_register_type`, the store macros with `sgc_wb1`/`sgc_wb2`, `sgc_run`, `sgc_search_memory_leaks`, `sgc_call_at_counter` |
| object lists | `sgc_dlist.c` | `next` and `prev` in each header | append, remove, join |
| allocator | `sgc_allocator.c`, `sgc_area_heap.c`, `sgc_mem_heap.c`, `sgc_var_heap.c`, `sgc_interval.c` | free lists per size class, areas, the interval of addresses seen | init, alloc, free, `is_valid`, cleanup |
| thread handshake | `sgc_thread.c` | the list of threads, `sgc_threads_mutex`, a scan and a sync mutex and two stack ends per thread, `sgc_continue` | attach, detach, sync, lock, unlock, scan of all stacks |
| messages | `sgc_mess.c`, `sgc_fifo.h`, `sgc_lifo.h` | a queue of messages, a list of free ones | send, handle |
| library lifecycle | `sgc.c` | `sgc_initialized`, `sgc_concurrent` | `sgc_init`, `sgc_cleanup`, `sgc_main` |
| thread list | `sgc_list.c` | cells | append, remove |
| logging, trace reader | `sgc_log.c`, `sgc_trace.c` | - | output |
| atom heap, lock-free stack | `sgc_atom_heap.c`, `sgc_lifo.h.lockfree` | - | not built |
| demonstration program | `main.c` | - | a client |

**How they interact.** The client calls the collector. A call that changes the
heap takes a block from the allocator (or leaves it to the next collection to
give it back) and sends a message: `SGC_NEW_MESSAGE` puts the object on the
'new' list, `SGC_FREE_MESSAGE` paints it RED, a barrier message GRAY.  Without
threads `sgc_message_send` handles the message before it returns; with threads
it is queued for the collector thread.  A collection joins 'scan' and 'new' to
'from', paints 'from' WHITE (RED objects excepted), moves what the roots and,
with threads, the stacks name to 'scan', goes along 'scan' moving what the words
of each object name to its end, and sweeps 'from': finalisers are called back,
blocks go back to the allocator.  Roots and words are conservative: the
collector asks the allocator (`sgc_allocator_is_valid`) whether a word is a
pointer.

**What is hard.** Finalisers run in the middle of the sweep and may allocate,
free, store, and register roots.  The lists are changed while a loop goes along
them.  An object may be moved to 'scan' more than once, since `sgc_scan_mem`
paints the object that it reads and not the one that it finds.  Freed objects
stay on their list, and pointers to them stay in the heap, until after the next
collection.  Blocks are used again with words of their last use in them.  In
the threaded build, stacks are read while their threads may be attaching,
synchronising or leaving; the list of threads is searched while others change
it; the message queue has no lock; and the collector acts on what it is told
some time after the clients did it, with only the store macros to warn it of
pointers that move while it marks.

**What makes each component correct.**

- collector: what the client can reach is kept, what it cannot reach is freed
  by a `sgc_run`, no pointer leads to reclaimed memory, an object is on one
  list, a collection ends.
- object lists: the rings hold the sequence that the calls have built up, and a
  loop along one meets every member once.
- allocator: blocks do not overlap; an object in use is recognised; no other
  address is taken for one; what is recognised has a size; a walk along areas
  ends.
- handshake: a stack is read only while its thread stands still; nothing is
  destroyed that the collector is coming to; neither side waits for ever.
- thread list: it holds who is attached; a scan meets every thread once; a
  thread finds its own record.
- messages: each is handled once, in the order in which they were sent, and no
  cell is lost.
- collector thread: a block is in one place at a time, and the sweep takes
  nothing that a client can reach; where the code does not achieve this, by
  what ways.

`PROJECT.json` lists the hazards of this code, each with its line and the
properties about it.

## 2. Modules

| module | what it is |
|---|---|
| `SgcContract` | what the collector promises: a graph, anchors, `Collect` condemns what is not reachable |
| `SgcContractProofs` | the promise is enough for the client (`Sound`) |
| `SgcCollector` | the single-threaded `sgc.c`; implements `SgcContract` |
| `SgcCollectorProofs` | its invariants, exactness of marking, the refinement |
| `SgcLists` | the three object lists as sequences |
| `SgcDlist` | the same as pointers in headers, function by function; implements `SgcLists` |
| `SgcDlistProofs` | the links of `SgcDlist` are rings, and implement `SgcLists` |
| `SgcAllocator` | size classes, areas, blocks, the interval, the validity test |
| `SgcAllocatorProofs` | its safety properties |
| `SgcWalks` | facts about walks along links and about least numbers, in place of induction; the other proofs use it |
| `SgcConcurrent` | the collector thread of `sgc.c` with its clients: queued messages, stacks, barriers |
| `SgcConcurrentProofs` | its invariants, and what the sweep can lose |
| `SgcThread` | the handshake of `sgc_thread.c` with `sgc_init`, `sgc_main`, `sgc_cleanup` |
| `SgcThreadList` | extends it with the cells of `sgc_list.c` and the walks along them |
| `SgcThreadProofs` | the safety properties of both |
| `SgcQueue` | what the message queue promises |
| `SgcMessages` | `sgc_mess.c`, `sgc_fifo.h`, `sgc_lifo.h` load by load; implements `SgcQueue` |
| `SgcMessagesProofs` | where each cell is, and the refinement |
| `MC*` | the instances for TLC: symmetry and views only |

### SgcCollector

The variables are those of the table above: `color`, `words`, `pointerless`,
`type` are what a header and a block hold; `new`, `from` and `pending \cup
scanned` are the three lists (`pending` and `scanned` are the two sides of
`scan_ptr`); `roots` and `val` are the root table and the variables it points
to; `pc`, `mode`, `cursor`, `cur`, `todo` are where the program is.  The lists
are sets, so that the order of a loop is open and every order is checked; the
one place where it counts, the head of 'scan' in the loop over the roots, is
`scanHead`.

Every call of the library is one action, since without threads nothing runs
between its first and its last line.  A collection is one action per round of
each of its loops, because finalisers run between the rounds of the sweep, and
because the loops are where the algorithm is.  Client actions are enabled
between calls, inside a finaliser, and inside the callbacks of
`sgc_search_memory_leaks` (`ClientRuns`): `count` is the loop of sgc.c:414-424,
ahead of `sgc_mark`, and `report` stands for the two loops behind it (432-521).
A client uses pointers to objects that are not freed and not condemned
(`Usable`); a finaliser may also free the objects that its own object points to,
and a callback the one that is reported to it.

In `count` every object that was not freed is WHITE.  A store into a handle
there makes `sgc_wb1` send its message, which moves the object from 'from' to
'scan' while the loop is going along 'from'; the model ends there (`strayed`).
`BarrierFiresInCallbackOnly` says that this is the only place where a barrier
of the single-threaded build does anything.

`sgc_mark` and `sgc_scan_mem` pass over what `sgc_allocator_is_valid` rejects.
`recognised` is the set of blocks that it accepts, chosen at the start: a block
below the start of the interval (`sgc_interval.c:39`) is not in it, and pointers
to it count for nothing.  `RootTargets`, `Out` and with them `Reachable` are stated in its
terms: what the collector promises, it promises of recognised objects, and one
that is not recognised is swept while a root names it (section 4).
`SgcAllocator` says which blocks these are (`BlocksAreValid`).

So the promise depends on two things outside this module: on that test, of which
nothing is assumed, and, for some results, on the assumption `ZeroFill`: a new
block holds no pointers of its last use.  The code clears `nbytes` of the block,
and `sgc_scan_mem` reads the size class, so this is an assumption on the
requests.  With `ZeroFill = FALSE` any part of the old words may remain.

### SgcLists and SgcDlist

`SgcDlist` has the three functions of `sgc_dlist.c` as operators on the two
link functions, and as actions the places of `sgc.c` that call them.
`sgc_allocator_free` writes its own link over `next`, which `Sweep` models by
an arbitrary link; freed blocks are allocated again during the sweep.
`KeepsLists` maps rings to sequences by following `next` from each head, and
`scanPtr` to the number of objects passed.  SgcCollector's sets are the
members of these sequences.

### SgcAllocator

An address is the index of a word.  `regions` is what `malloc` returned, in any
free place; `freeMems` and `freeVars` are the free lists of blocks and `inUse`
what the client has.  The lists of areas are kept as links, since the code has
one link per area for all of them: `link` is `area->next`, `memAreas[i]` the head
of the list of class i and `freeArea` that of the free ones; `Areas(i)` and
`FreeAreas` are what a walk from there meets.  `Words(b)` is what may be written
through a block.  Boot is an action per preallocated area, so that it can fail
half way.

`Cleanup` is the loop of `sgc_mem_heap_destroy` over the classes: each area is
linked to the one that was freed before it (sgc_area_heap.c:115), and the heads
of the lists stay.  What results (`Relinked`) is one long list on which the list
of each class is an end piece: its first area, then what was freed earlier, the
areas of other classes.  As `sgc_initialized` stays 1, `Restart` changes
nothing, and allocation goes on with those lists.  `FirstLife` is the time up to
the clean-up, for which the properties of blocks are stated.

### SgcThread

A mutex is its owner; a step that locks one waits until it is free, and no queue
orders the waiting threads.  Each function is split at every lock and unlock and
at the writes of the stack ends.  `top` and `bottom` say that those are set, and
not that they are right: `stack_top` of an attached thread is the lowest address
of its stack (sgc_thread.c:126), see `SgcConcurrent`.  `Stepping` and `Leaving`
say which threads call `sgc_thread_unlock`/`sgc_thread_lock`, and which may
detach or end the program; safety is checked with all of them doing both.

### SgcConcurrent

The lists, colours and words are those of `SgcCollector`; `queue` is the message
queue, `stack` what is on the stacks of the clients, `op` the call or macro a
client is in the middle of, `pc` the phase of `sgc_run`, which `sgc_main` calls
over and over.  A client has pointers on its stack, gets more by loading them,
loses them, and stores them in objects or in the handle.  `sgc_new_object` and
`sgc_free_object` are one step, since no one sees what they do before the
message is there; a store macro is two, the store and the barrier; so is
`sgc_resize_object`, up to the new object and from the copy on.  The collector
does one round of a loop per step and handles messages where the code does: at
the start of a cycle and after each object.

The model keeps to what `sgc_scan_thread` does with a stack (`Read`).  Of `main`,
the thread that called `sgc_init` and gave it an address, it reads the words in
use.  Of a thread that called `sgc_thread_attach` it reads from the lowest address of
the stack up to the frame of `sgc_thread_sync`: the part that is not in use, so
that `Read` is empty.  In either case it may come upon any words of earlier calls,
those of blocks that are free included.  An object is taken from its list by
`MoveToScan`; where it is on none the model ends: `crashed` when its message is
still queued and its links are NULL (sgc.c:216-217, sgc_dlist.c:80), `reclaimed`
when it is a free block, whose links are the allocator's.  It also ends where a
block is swept that a client can still reach (`dangling`); the question then is
by which way it got there.

`missed` records, within a cycle, what the clients do that the collector is not
told of.  `Escaped` names the ways: a pointer loaded to a stack already scanned
and then away from where the collector would find it; the copy of
`sgc_resize_object`; a barrier whose target `sgc_clear` has not reached; a pointer
on the stack of an attached thread, which is not read; a barrier whose message
is still queued when the scan ends; a late `SGC_FREE_MESSAGE` for a block with a
new owner; a block below the interval.  `LostByEscapeOnly` says that there is no
eighth.

### SgcThreadList

It refines every step of `SgcThread` that touches `sgc_threads` and adds the
steps in between: an append becomes visible with one store, a removal is four
(`Unlink`, `ClearLink`, the free, the store to `sgc_threads`), and
`sgc_find_thread` is one step per load.  A freed cell may be what the next append
gets.  The model ends where a freed cell is read, or a record used that was not
found, as `sgc_thread_lock` does with NULL.

### SgcQueue and SgcMessages

`SgcMessages` has the two stacks of `sgc_fifo.h` and the stack of free messages;
every load and store of a `top` is a step, `pc`, `on`, `back`, `v`, `x`, `v1`
being the frames of the functions.  `raced` becomes TRUE when a store to a top
falls into another thread's access to that stack; until then the queue is
`SgcQueue` (`KeepsQueue`, with `Waiting` read off the cells, those in the hands
of the collector included), afterwards nothing is promised, and the run
`messages_race` shows what may happen.  `SgcConcurrent` takes the queue as one
that keeps to `SgcQueue`, without its one exception (a message sent while
another is fetched may overtake).

## 3. Runs

| run | instance | what it shows |
|---|---|---|
| `collector_graph` | 3 objects, 1 handle, 1 root entry, 2 words | marking is exact; only garbage is freed; nothing dangles; barriers move objects in the callback ahead of `sgc_mark` only; blocks are lost to the leak search only; `SgcContract` is implemented |
| `collector_shared_roots` | 2 objects, 3 handles, 3 entries | handles may share objects: lists stay apart, roots are kept, RED objects are not scanned, and marking fails only at an entry whose object an earlier entry names |
| `collector_progress` | 2 objects, one of which may be below the interval, 1 handle, left-over words | each step brings a collection nearer its end; it ends; what is unreachable at its start, or below the interval, is free at its end |
| `collector_relink` | as `collector_shared_roots` | violated: finding 1 |
| `dlist` | 4 blocks | pointers implement sequences; `prev` undoes `next` |
| `allocator` | 3 classes, 4 places, one clean-up and restart | until the clean-up blocks are apart, objects are recognised if and only if they are not below the interval, and nothing else is; walks along areas end until areas are cut again |
| `allocator_size` | as `allocator` | violated: finding 2 |
| `concurrent` | 3 objects of one word, 1 handle, 1 client, the main thread or an attached one, with 2 pointers on its stack | every block is in one place; an object on no list is come upon by the handle only; a free is forgotten on 'scan' only; what is swept in use has escaped in a way that `Escaped` names |
| `thread` | 3 threads, 3 cells | stacks stand still; mutexes of a leaving thread are not approached; the list is stable, holds who is attached, and is gone along in full; a thread misses its record only when another leaves; the collector gets to the stack it waits for |
| `thread_cleanup` | 1 thread | violated: finding 3 |
| `messages` | 2 clients, 3 cells, 3 messages | up to the first race each cell is in one place and the stacks are a queue; what is sent is handled |
| `messages_race` | 1 client, 3 cells, 3 messages | violated: finding 4 |

**Bounds.**  Three objects make every shape that marking tells apart: chains,
cycles, an object with two referrers (found twice, moved twice), one found only
by another, garbage that points to what is kept.  Two objects and three handles
are the least with which an entry can name the head of a longer 'scan' list.
`MaxWords` caps the distinct pointers in one object, and `MaxRoots` the entries,
so that the full table is reached.  Four blocks give lists of every length up to
the one at which a removal in the middle is neither at the head nor at the end.
The allocator has one area before the start and four places, which leave room
for another area and a region below the first, between, or above; areas of 12
words are filled by two blocks of one class and by one of the next, with a rest;
the requests fill a class, begin the next one, and take a region of their own.
`HeaderBytes` is 32 there, where `SGC_USE_BACKTRACE` (`sgc.h:40`) makes it 168:
what counts is that it is a multiple of a word.  Two areas are the least with
which a clean-up makes one list run into another; it happens once.  Three
threads are one whose stack is being scanned, one already scanned, and one still
to come; of their cells one is at the head, one in the middle and one at the
end.

In `concurrent` three objects are needed for a copy in `sgc_resize_object`: the
old object, the new one, and one that only they name.  `MaxQueue` bounds the
messages waiting when a client frees, resizes or stores in the handle: there may
be none.  There may be one when it stores in an object or asks for a new one, and
a resize sends two, so that the queue gets longer than that.  `MaxStack` bounds
the pointers on a stack, `MaxInUse` the blocks in use (two, and the one that a
resize adds), `MaxManual` those in use when `sgc_free_object` is called: with one,
the late free of a block that has a new owner still happens.  With these bounds
each way of `Escaped` occurs but the last: taking any one of the others out of
`Escaped` makes TLC find `LostByEscapeOnly` violated.  In the run every block is
recognised; an object below the interval is for the theorem, which holds for any
`Recognised`.  The theorems have no bound on any of these.  In
`messages` the pool has two of the three cells, so that one message goes through
`malloc` and one finds no memory; `PastRace` cuts the behaviours at the first
race, after which nothing is promised.

**Fairness.**  `collector_progress` assumes weak fairness of the steps of a
collection: it runs in the thread that called it, and finalisers return.  Nothing
obliges the client to call anything.  `thread` and `thread_cleanup` assume weak
fairness of each thread inside the library, of the collector thread, and of
calls of `sgc_thread_sync` from client code, which `main.c` makes in its loop.
Mutexes are not fair, and no strong fairness is assumed: a thread that alternates
`sgc_thread_unlock` and `sgc_thread_lock` (`Stepping`) may keep the collector
waiting, and `CollectorNotStarved` excepts it.  `messages` assumes weak fairness
of each thread that is in a call, and of the collector, which goes on handling;
that the clients pause follows from the finite set of messages, and without a
pause `sgc_fifo_get` and `sgc_handle_messages` need not return.

**Deadlock** is checked but where the system may stop: after the crash of
finding 1 or on a left-over word, and where a barrier moved an object under the loop
of the callback (the `collector` runs, `dlist`); when boot failed
(`allocator`, `allocator_size`); when `sgc_cleanup` is done or stuck, or a
thread has lost its record (`thread`, `thread_cleanup`); where the model ends on
links or blocks that are not what the code takes them for (`concurrent`); after
the cleanup, a race or a crash (`messages`, `messages_race`).

**Symmetry and views.**  Objects, handles and blocks are interchangeable, and
symmetry is used in runs of safety properties only.  `Seen` hides what nothing
reads: the words of free blocks (when `ZeroFill` holds; always in
`SgcConcurrent`, which clears them) and members of `missed` that are no longer on
'from'.

Every property of a passing run has a mutant: an operator next to the definition
it would replace, changed as a slip in that code would change it, with which TLC
finds the property violated.

## 4. Findings

1. `sgc.c:590`: the loop over the roots unlinks an object from 'from' that an
   earlier entry has moved to 'scan'.  If it is the head of 'scan' and not
   alone there, the append that follows writes through a NULL link: roots for
   a, b and a again are enough.  `SharedRootsCrash` (section 5) shows that this
   is the only failure of its kind.
2. `sgc_allocator.c:128`: the size equal to the number of classes passes as
   valid and is used as an index into `sgc_mem_sizes`.
3. `sgc_thread.c:172`: `sgc_cleanup` waits for `sgc_threads_mutex` holding the
   scan mutex of the main thread; the collector waits for the one holding the
   other.
4. `sgc_mess.c:98`: clients push to the message queue, and the collector pops
   from it, without a lock.  Between the load and the store of a push the
   collector may take the cell that the push links to: a message is then handled
   twice and the list of free messages joined to the queue.

Seen while modelling and not given a run:

- `sgc_allocator.c:136` tests the colour where the comment above it speaks of the
  flags; `sgc.c:728-729` tests one colour twice.
- `sgc_interval.c:39` never lowers the start of the interval, so objects in memory
  that lies below the first area are not recognised (`BlocksAreValid`) and are
  swept while roots and words name them (`recognised` in `SgcCollector`,
  `Recognised` in `SgcConcurrent`).
- `sgc_area_heap.c:115`: `sgc_cleanup` links the areas of all classes into one
  list by the link of `heap->mem_areas`.  After another `sgc_init` the list of a
  class has its first area and then areas of other classes: blocks in its other
  areas are not recognised, addresses in foreign areas are.  Areas are
  cut a second time while their blocks are in use, and an area that goes to its
  own class again becomes its own successor (`sgc_mem_heap.c:82`), on which
  `sgc_mem_heap_valid` does not return.  Blocks are therefore promised nothing
  after the clean-up (`FirstLife`), walks until the restart (`WalksEnd`).
- `sgc_thread.c:126` stores the lowest address of an attached thread's stack as
  `stack_top` and never uses `stack_size`: `sgc_scan_thread` reads the part below
  the current frame, and objects that only the live frames name are swept.
- `sgc.c:418` calls the client when all objects are WHITE: a `_str` there moves an
  object off the list that the loop goes along.
- `sgc_thread.c:291-292` says that `sgc_thread_sync` waits until the collection is
  finished; it waits until the stack of the calling thread has been read.  The
  client goes on in the middle of the cycle, and five of the ways of `Escaped` are
  what that leads to: with only store barriers, a pointer loaded from an object
  that is then overwritten is never reported.
- `sgc.c:590` unlinks the object behind a handle though its `SGC_NEW_MESSAGE` may
  still be queued: its links are NULL, and the store through `list->prev`
  (`sgc_dlist.c:80`) ends the program (`crashed`, `CrashByHandleOnly`).
- `sgc.c:650-651` says that RED objects are never on 'scan'; a free handled during
  the scan paints one there, and `sgc.c:617` paints it BLACK again
  (`RedForgottenOnScanOnly` has that exception).
- `sgc.c:739`: a free handled after the block was swept paints its new owner RED,
  and an `SGC_CTI_MESSAGE` for a swept block unlinks it from lists that it is not
  on (`reclaimed`).
- `sgc_thread.c:339`: a word left on a stack that names a free WHITE block is
  followed like any other.
- `sgc_thread_lock` and `sgc_thread_unlock` use the record that `sgc_find_thread`
  returned without looking whether there was one; `sgc_list_remove` frees a cell
  before `sgc_threads` is stored; the record of a detached thread is not freed.
- `sgc_continue` is not set to 1 again after `sgc_cleanup`.

## 5. Proofs

All theorems hold for every number of objects, handles, root entries and
threads, and for every size; the constants are as the `ASSUME` of each module
says.

`SgcContractProofs`: `ContractIsSound`.  No run checks `Sound` by itself;
`collector_graph` checks that the collector implements the contract, and
`CollectorKeepsContract` proves it.  The invariant is the type invariant
with `Sound` itself; the step that matters is `Collect`, where the set of usable
objects is closed, so that the reachable ones are among them, and closed again.

`SgcCollectorProofs`:

| theorem | assumes | says |
|---|---|---|
| `TypeCorrect`, `ListsAreApart` | - | types; no object on two lists |
| `BarrierFiresInCallback` | - | clients see WHITE objects in the callback ahead of `sgc_mark` only |
| `RedIsNotScanned` | - | no freed object on 'scan' |
| `RootedObjectsAreKept` | - | a root keeps its object, or the client freed it |
| `MarkingIsExact` | - | marking ends with the reachable objects |
| `NothingDangles` | `ZeroFill` | nor does a word of a kept object dangle |
| `OnlyGarbageIsReclaimed` | `ZeroFill` | what is freed is unreachable then |
| `CollectorKeepsContract` | `ZeroFill` | the collector implements `SgcContract` |
| `BlocksAreNotLost` | - | only the leak search takes an object off its list and does not free it |
| `CyclesAdvance` | - | each step of a collection brings it nearer its end |
| `SharedRootsCrash` | `ZeroFill` | marking fails only for an object that two entries name |

The inductive invariant `IInv` is needed because none of the properties
is inductive.  `PhaseInv` says which lists are empty in which phase; `ColourInv`
ties colours to lists as far as the code does so (an object on 'scan' may still
be WHITE, so the usual tri-colour invariant does not hold as it stands);
`RootInv` says that entries before the cursor have been marked; `ScanInv` that
a scanned object's words lead to 'scan', except for those still to be looked at.
When the scan ends nothing is left over, 'scan' is closed under words and holds
the root targets, so it contains `Reachable`; `ReachInv` (nothing is put on
'scan' that is not reachable) gives the other inclusion.  That no word dangles
needs `ScanInv` at the end of the scan, and `ZeroFill` where a block is
handed out.  In the refinement every action is a step of the client, an
allocation, a collection (`ScanDone`), a reclaim, or a stutter; the steps of
marking do not change what is reachable (`ReachableUnchanged`).
`SharedRootsCrash` adds that what the root loop has put on 'scan' an earlier
entry names.  `CyclesAdvance` is what `CycleEnds` rests on: the objects that wait
on 'from' or ahead of the scan pointer, then the phase, then the root entry, then the
words left, get fewer in this order.  Objects are put on the list that is being
scanned, but only such as waited already (`OnOneList`), and a finaliser's calls
add none.

`SgcThreadProofs`: `TypeCorrect`, `StacksStandStill`, `ThreadsLeaveUnseen`,
`ListIsStable`.  `IInv` says who holds each mutex at which place:
`ScanMutexInv`, `SyncMutexInv`, `ThreadsMutexInv`; which threads are on the list
(`ListInv`); and when the ends of a stack are set (`StackInv`).

For `SgcThreadList`, with finitely many threads (`CellAssumption`):

| theorem | says |
|---|---|
| `ListTypeCorrect` | types |
| `ListIsComplete` | the cells from the head hold who is attached, each once |
| `ScanIsComplete` | a scan of the stacks meets every attached thread |
| `SearchLostByLeaving` | a search misses its own record only when another thread leaves during it |
| `ListKeepsHandshake` | the steps of the list are steps of `SgcThread` |

The invariant has a sequence of cells behind the links: they chain from the
head to the end, one cell for each attached thread.  While `sgc_list_remove` has
freed the head and `sgc_threads` is not stored yet, the chain starts at what will
be stored.  The cell at which the collector is has what it is still to scan behind
it, and as nobody attaches or leaves during a scan that stays so.  A thread that
searches goes along the list without the mutex; as long as no cell was taken
out under way its own record is ahead of it, which is `LostByLeavingOnly`.

`SgcConcurrentProofs`, for any number of clients, words and messages:

| theorem | says |
|---|---|
| `TypeCorrect` | types |
| `BlocksInOnePlace` | a block is with the allocator, on one list, or announced by one message |
| `CrashByHandle` | only the loop over the roots comes upon an object that is on no list |
| `RedForgottenOnScan` | a free is forgotten only by scanning the object, or with the block |
| `LostByEscape` | what is swept although clients reach it has escaped, or is led to from there |

`Inv` is what the lists need: `PlaceInv` is `OnePlace` with the queue reduced to
the set of announced objects (`Announced`; `Reported` for the barriers), so that
each step is about sets and three kinds of lemmas say how a message put or
taken changes them.  `ColourInv` says that what is new, announced or scanned is not
WHITE, which is why stacks, words and barriers, that are followed to WHITE
objects, cannot lead to an unannounced one while the handle, of which only RED is
tested, can.  `EscapeInv`
is the tri-colour invariant that this collector does keep: a word that leads
from an object it has done with (`EdgeInv`), the handle or a scanned stack
(`AnchorInv`) to one on 'from' is known, or about to be reported, or yet to be
scanned.  `ReachInv`: until the model ends no reachable block is free.  At the
sweep nothing is yet to be scanned, so the closed set that the escaped objects
span, with all that is reachable and not on 'from', is closed and holds the
anchors; it therefore holds everything reachable (`LossNeedsEscape`).

`SgcAllocatorProofs`, for every header size, number of classes, size of areas and
placement by `malloc`:

| theorem | says |
|---|---|
| `TypeCorrect` | types |
| `BlocksDoNotOverlap` | until `sgc_cleanup` no two blocks share a word |
| `UsedBlocksAreValid` | until then a block in use is recognised if and only if it is not below the interval |
| `OnlyBlocksPass` | until then no other address passes for a block of an area |
| `WalksEndAtFirst` | until then no area is twice on a list |

`AllocatorAssumption` says that an area holds at least one
block of each class cut from areas; `MemBytesAssumption` that `4 * 2^i` is a
positive number, since the provers know no powers.  `IInv` is the type invariant
with, as long as `FirstLife` holds, five parts.  `LinkInv` says that the lists of
areas end; that an expansion changes one list at
its head and leaves the rest (`ListsKept`, `ListsInPlace`) is shown from the
least set that `Along` is defined by.  `RegionInv` keeps the regions apart and each
area on one list; `MemInv` says that the blocks of a class are
those that its areas are cut into, each in use once or free; `VarInv` that a block of
a large class has its region to itself; `SizeInv` that a block's class holds its
request.  They are needed together for a new region
to be no one's yet (`MallocApart`).  The rest is
arithmetic: the cuts of an area fit behind its link (`CutsFit`), are apart
(`CutsApart`), and are what the remainder test of `sgc_mem_heap_valid` accepts
(`CutsAreValid`); the loop of `sgc_get_size_index` ends at a class that holds the
request (`ClassFound`).  That a clean-up leaves lists that end, the part of
`WalksEnd` after the first life, is model-checked only.

`SgcDlistProofs`: `TypeCorrect`, `ListsAreRings`, `DlistKeepsLists`, for any
finite set of blocks (`DlistAssumption`).  That a list is a ring is a statement
about a walk as long as the list, which no step keeps in a way that can be seen
locally.  What each function of `sgc_dlist.c` does keep is `Permutes`: `next`
permutes the nodes that are on lists, and `prev` undoes it.  A removal takes one
node out of the permutation, an append puts one in, a join exchanges two of its
values (`RemovePermutes`, `AppendPermutes`, `JoinPermutes`).  `ListInv` has two
sets of nodes, those of 'new' and 'scan', and those of 'from'; in the sweep the
allocator writes over the links of 'from', and `SweepInv` says what is left: the
loop does not come back to a node, and no two links lead to the same one.  That
a permutation of a finite set leads back to where one started (`AlongReturns`)
is the pigeonhole principle; the walk is the recursive function `Along`, and
facts about it are proved from the least step at which they would fail (`Least`
of `SgcWalks`), since the induction theorems of the library cannot be applied
here.

`DlistKeepsLists`, the refinement `KeepsLists`, does need the lists in their
order. `Ringed` says that the links of a list are a sequence of distinct nodes
in both directions, `Leads` that `next` leads along one and on to a node behind
it; the three functions of `sgc_dlist.c` append to such a sequence, concatenate
two, or take a member out, and leave the links of all other nodes (`RingAppend`,
`RingJoin`, `RingRemove`).  `Holds` gives the three lists a sequence each; in
the sweep that of 'from' is what `Leads` on from `node`, since its ring is being
overwritten.  The walks of the refinement mapping find these sequences
(`ListsAreRead`), so that every action maps to the action of `SgcLists` with the
same name (`SweepLeaked` to `Sweep`), and a failing `Move` to `MoveHead`: the
`prev` of a removed node is `NULL` (`RemoveClears`), and that is written through
exactly where the node was the head of a longer 'scan'.

`SgcMessagesProofs`, for any number of threads, messages and cells:

| theorem | says |
|---|---|
| `MessagesTypeCorrect` | types |
| `CellsInOnePlace` | until two threads race, a cell is on one stack or with one thread |
| `MessagesKeepQueue` | until then and until a clean-up, the code implements `SgcQueue` |

`Flow` says what each thread is about at each place, and `Frames` that what it
loaded from the head of a stack is still so when it stores, until another thread
got in between (the race that run `messages_race` shows).  `Settled` is the rest: the
stacks are lists that end (`Lists`, `Ends`), no cell is on two of them (`Apart`),
and the cells hold the messages that are under way (`Bodies`).  The queue of
`SgcQueue` is the 'out' stack followed by the 'in' stack backwards; while
`sgc_fifo_get` turns the 'in' stack round, what is still on it comes first, then the
cell in its hands, then what it has put on 'out' (`Order`).  Each step of the loop
therefore leaves the queue as it is.

**Only model-checked**: liveness (`CycleEnds`, `GarbageIsReclaimed`,
`CollectorNotStarved`, `Arrives`: liveness under fairness and ENABLED are outside
what TLAPS does), `WalksEnd` after `sgc_cleanup`, and the violations.  Every other
invariant, action property and refinement that a passing run checks is also
proved.  No module uses a RECURSIVE
operator, with which TLAPS has no SMT backend.

## 6. Not modelled

- `sgc_call_at_counter`, its callback from inside `sgc_new_object`, and a
  `sgc_run` or `sgc_search_memory_leaks` called by a finaliser or a callback:
  excluded by the guard of `StartCycle`.
- In the callbacks of `sgc_search_memory_leaks`: allocation in the first of them
  (sgc.c:418), which would put a BLACK object on 'new' ahead of marking
  (`MayAllocate`); what follows once a barrier moved an object there
  (`strayed`); and use of the objects that are reported as leaked, other than
  freeing them.  The reports of 'scan' and of 'from' (437, 454, 468) are one phase.
- What `sgc_new_object` does between taking a block and sending its message
  (sgc.c:212-229), seen by the collector thread: a word left on a stack may lead
  it to the block while its header is that of its last use or is half written.
  `NewObject` is one step; the same word before that step is in the model
  (`reclaimed`), and after it meets a BLACK object.
- Which words of a stack are at the addresses that the loop of `sgc_scan_thread`
  visits: `Read` takes all those of the main thread to be.
- A second `sgc_cleanup` (bound of `Cleanup`).
- Finalisers, the leak search, several handles and handles that come and go in the
  collector thread: `SgcConcurrent` has one handle that is registered throughout.
- The allocator under several threads: `sgc_allocator_alloc` in a client and
  `sgc_allocator_free` in the collector use the free lists without a lock.
  `SgcConcurrent` takes both as one step.
- What a lost or repeated message does to the heap: `SgcConcurrent` has a queue,
  and `SgcMessages` looks at messages by themselves.  The order in which
  `SgcThread` scans the stacks and the heap of `SgcConcurrent` are likewise in two
  models, joined by the step `ScanStack`.
- Reordering of loads and stores by compiler or processor.
- Failure of `pthread` calls, and of `malloc` calls other than those that return a
  block or a message.
- Whether an address that is read as a header is mapped; overflow of
  `mem_size` for requests above 2^30.
- Logging, the trace reader, the atom heap and the lock-free stack: output, or not
  built.

## 7. Plan

Done: `SgcContract`, `SgcCollector`, `SgcLists`/`SgcDlist`, `SgcAllocator`, `SgcThread`,
`SgcThreadList`, `SgcQueue`/`SgcMessages` and `SgcConcurrent`, all with proofs.
To come:

1. In `SgcCollector`: `sgc_call_at_counter` and its callback as a phase of
   `NewObject`, and a `sgc_run` from a finaliser, nested in the sweep.
2. In `SgcConcurrent`: handles that come and go, and finalisers.
3. Proofs: that the sets of `SgcCollector` are the members of the sequences of
   `SgcLists`, and that the steps of `SgcConcurrent` on its messages are those of
   `SgcQueue`; progress of the handshake by an order like that of `CyclesAdvance`.
