---------------------------- MODULE SgcAllocator ----------------------------
(***************************************************************************)
(* The allocator: size classes (sgc_allocator.c), areas of memory that are *)
(* cut into blocks of one class (sgc_area_heap.c, sgc_mem_heap.c), blocks  *)
(* with a region of their own for the large classes (sgc_var_heap.c), and  *)
(* the test by which the collector tells a pointer from another word       *)
(* (sgc_allocator_is_valid, sgc_interval.c).                               *)
(*                                                                         *)
(* An address is the index of a word, the size of a pointer; 0 is NULL.    *)
(* The free lists of blocks are sets: which block is handed out is left    *)
(* open.  The lists of areas are kept as the code keeps them, by one link  *)
(* in each area: sgc_cleanup makes lists run into each other.              *)
(***************************************************************************)
EXTENDS Naturals, FiniteSets

CONSTANTS
    HeaderBytes,    \* sizeof(sgc_mem_t): 168 with the backtrace of SGC_USE_BACKTRACE
    SizeCount,      \* SGC_SIZE_INDEX_COUNT
    MaxMemIndex,    \* SGC_MAX_MEMHEAP_SIZE_INDEX: the classes below it are cut from areas
    AreaWords,      \* SGC_AREA_SIZE, in words
    Prealloc,       \* SGC_AREA_PREALLOC
    Request,        \* bound: the values of nbytes that the client asks for
    Place           \* bound: the addresses that malloc may return

Word == 8
MemBytes(i) == 4 * 2^i                  \* sgc_mem_sizes[i]
Class == 0..(SizeCount - 1)
Pool  == 0..(MaxMemIndex - 1)

InWords(bytes) == (bytes + Word - 1) \div Word

(* The size of a block with its header: heap->mem_size for a class that is *)
(* cut from areas, what sgc_var_heap_alloc asks of malloc for another.     *)
MemWords(i) == InWords(HeaderBytes + MemBytes(i))

(* Mutant: the link is forgotten.                                          *)
NumMems_NoLink(i) == AreaWords \div MemWords(i)

(* heap->num_mems and heap->area_size: the area begins with a link.        *)
NumMems(i)  == (AreaWords - 1) \div MemWords(i)
DataWords(i) == NumMems(i) * MemWords(i)

ASSUME AllocatorAssumption ==
    /\ HeaderBytes \in Nat /\ HeaderBytes % Word = 0
    /\ SizeCount \in Nat /\ MaxMemIndex \in 1..SizeCount
    /\ AreaWords \in Nat /\ \A i \in Pool : NumMems(i) >= 1
    /\ Prealloc \in Nat
    /\ Request \subseteq 1..MemBytes(SizeCount - 1)
    /\ Place \subseteq Nat \ {0}

(* A fact of arithmetic, stated because the provers know no powers.        *)
ASSUME MemBytesAssumption == \A i \in Class : MemBytes(i) \in Nat \ {0}

VARIABLES
    phase,          \* "boot" in sgc_area_heap_init, then "up" or "failed"; "down"
                    \* after sgc_cleanup, "again" after another sgc_init
    prealloc,       \* areas still to be allocated in advance
    regions,        \* what malloc returned: [at, words]; nothing is given back
    link,           \* area->next of the areas; 0 is NULL
    freeArea,       \* sgc_area_heap->free, the first free area
    memAreas,       \* memAreas[i]: sgc_heaps[i].mem_areas, the first area of the class
    freeMems,       \* freeMems[i]: sgc_free_list[i]
    freeVars,       \* sgc_var_heap.free_list, as [at, class]
    inUse,          \* the blocks handed out, as [at, class, bytes]
    low, high       \* the interval of sgc_interval.c

areas == <<link, freeArea, memAreas>>
heaps == <<areas, freeMems, freeVars, inUse>>
system == <<regions, low, high>>
vars == <<phase, prealloc, heaps, system>>

Running == phase \in {"up", "again"}

(* Until sgc_cleanup is called.                                            *)
FirstLife == phase \notin {"down", "again"}

(* The areas that a walk along the links from area a comes to.             *)
Linked(next, S) == \A b \in S : next[b] # 0 => next[b] \in S
Along(next, a) ==
    {b \in Place : \A S \in SUBSET Place : Linked(next, S) /\ (a # 0 => a \in S) => b \in S}

FreeAreas == Along(link, freeArea)
Areas(i)  == Along(link, memAreas[i])
-----------------------------------------------------------------------------
(* malloc: a place where nothing is.                                       *)
Malloc(at, words) ==
    /\ at \in Place
    /\ \A r \in regions : at + words <= r.at \/ r.at + r.words <= at
    /\ regions' = regions \cup {[at |-> at, words |-> words]}

(* sgc_register_interval.  It adds bytes to a pointer to words, so that    *)
(* the interval ends late; and only the first call sets where it begins.   *)
RegisterInterval(at, bytes) ==
    /\ low' = IF low = 0 THEN at ELSE low
    /\ high' = IF high < at + bytes THEN at + bytes ELSE high

(* sgc_area_heap_expand, up to putting the area on the free list.          *)
NewArea(at) == Malloc(at, AreaWords) /\ RegisterInterval(at, AreaWords * Word)

(* The blocks that sgc_mem_heap_expand cuts an area into.                  *)
Cut(i, at) == {at + 1 + k * MemWords(i) : k \in 0..(NumMems(i) - 1)}

(* sgc_get_size_index: the loop doubles mem_size until it holds nbytes.    *)
SizeIndex(bytes) ==
    CHOOSE i \in Class : MemBytes(i) >= bytes /\ \A j \in Class : MemBytes(j) >= bytes => i <= j

Block(at, i, bytes) == [at |-> at, class |-> i, bytes |-> bytes]
-----------------------------------------------------------------------------
Init == /\ phase = "boot" /\ prealloc = Prealloc
        /\ regions = {}
        /\ link = [a \in Place |-> 0] /\ freeArea = 0
        /\ memAreas = [i \in Pool |-> 0] /\ freeMems = [i \in Pool |-> {}]
        /\ freeVars = {} /\ inUse = {}
        /\ low = 0 /\ high = 0

(* Mutant: the loop runs once more.                                        *)
BootExpand_Again(at) ==
    /\ phase = "boot"
    /\ NewArea(at)
    /\ link' = [link EXCEPT ![at] = freeArea] /\ freeArea' = at
    /\ prealloc' = prealloc - 1
    /\ UNCHANGED <<phase, memAreas, freeMems, freeVars, inUse>>

(* sgc_allocator_init.  When malloc fails sgc_initialized stays -1, and    *)
(* every later sgc_init returns -1.                                        *)
BootExpand(at) ==
    /\ phase = "boot" /\ prealloc > 0
    /\ NewArea(at)
    /\ link' = [link EXCEPT ![at] = freeArea] /\ freeArea' = at
    /\ prealloc' = prealloc - 1
    /\ UNCHANGED <<phase, memAreas, freeMems, freeVars, inUse>>

BootFails ==
    /\ phase = "boot" /\ prealloc > 0
    /\ phase' = "failed"
    /\ UNCHANGED <<prealloc, heaps, system>>

BootDone ==
    /\ phase = "boot" /\ prealloc = 0
    /\ phase' = "up"
    /\ UNCHANGED <<prealloc, heaps, system>>

(* sgc_allocator_alloc of a class that is cut from areas: a free block of  *)
(* the class; when there is none, sgc_mem_heap_expand cuts the next free   *)
(* area, or a new one.  When malloc fails nothing has changed.             *)
AllocMem(bytes, at) ==
    LET i == SizeIndex(bytes) IN
    /\ Running
    /\ i \in Pool /\ at \in freeMems[i]
    /\ freeMems' = [freeMems EXCEPT ![i] = @ \ {at}]
    /\ inUse' = inUse \cup {Block(at, i, bytes)}
    /\ UNCHANGED <<phase, prealloc, areas, freeVars, system>>

(* Mutant: the two assignments of sgc_mem_heap.c:82-83 swapped.            *)
Chained_After(i, area) == [link EXCEPT ![area] = area]

(* area->next = heap->mem_areas                                            *)
Chained(i, area) == [link EXCEPT ![area] = memAreas[i]]

Expanded(bytes, area, at) ==
    LET i == SizeIndex(bytes) IN
    /\ Running
    /\ i \in Pool /\ freeMems[i] = {}
    /\ at \in Cut(i, area)
    /\ link' = Chained(i, area)
    /\ memAreas' = [memAreas EXCEPT ![i] = area]
    /\ freeMems' = [freeMems EXCEPT ![i] = Cut(i, area) \ {at}]
    /\ inUse' = inUse \cup {Block(at, i, bytes)}
    /\ UNCHANGED <<phase, prealloc, freeVars>>

AllocCut(bytes, area, at) ==
    /\ area # 0 /\ area = freeArea
    /\ Expanded(bytes, area, at)
    /\ freeArea' = link[area]
    /\ UNCHANGED system

AllocArea(bytes, area, at) ==
    /\ freeArea = 0
    /\ NewArea(area)
    /\ Expanded(bytes, area, at)
    /\ UNCHANGED freeArea

(* sgc_allocator_alloc of a large class, sgc_var_heap_alloc: a free block  *)
(* of exactly this class, or a region of its own.                          *)
AllocVar(bytes, at) ==
    LET i == SizeIndex(bytes) IN
    /\ Running
    /\ i \notin Pool /\ [at |-> at, class |-> i] \in freeVars
    /\ freeVars' = freeVars \ {[at |-> at, class |-> i]}
    /\ inUse' = inUse \cup {Block(at, i, bytes)}
    /\ UNCHANGED <<phase, prealloc, areas, freeMems, system>>

AllocRegion(bytes, at) ==
    LET i == SizeIndex(bytes) IN
    /\ Running
    /\ i \notin Pool /\ \A v \in freeVars : v.class # i
    /\ Malloc(at, MemWords(i)) /\ RegisterInterval(at, HeaderBytes + MemBytes(i))
    /\ inUse' = inUse \cup {Block(at, i, bytes)}
    /\ UNCHANGED <<phase, prealloc, areas, freeMems, freeVars>>

(* sgc_allocator_free.                                                     *)
Free(b) ==
    /\ Running /\ b \in inUse
    /\ inUse' = inUse \ {b}
    /\ IF b.class \in Pool
       THEN /\ freeMems' = [freeMems EXCEPT ![b.class] = @ \cup {b.at}]
            /\ UNCHANGED freeVars
       ELSE /\ freeVars' = freeVars \cup {[at |-> b.at, class |-> b.class]}
            /\ UNCHANGED freeMems
    /\ UNCHANGED <<phase, prealloc, areas, system>>

(* sgc_allocator_cleanup calls sgc_mem_heap_destroy for each class, which  *)
(* hands its areas to sgc_area_heap_free one by one: each is linked to the *)
(* one that was freed before it.  The heads of the lists stay, so that the *)
(* list of a class is then its first area and what was freed before that.  *)
(* The blocks stay free or in use, and the region of a large one is not    *)
(* given back.  LastFreed(n) is sgc_area_heap->free once the n classes     *)
(* below n are through.                                                    *)
LastOf(i) == CHOOSE a \in Areas(i) : link[a] = 0
Before(a, i) == CHOOSE b \in Areas(i) : link[b] = a

LastFreed(n) ==
    LET Freed == {j \in Pool : j < n /\ memAreas[j] # 0}
    IN IF Freed = {} THEN freeArea ELSE LastOf(CHOOSE j \in Freed : \A k \in Freed : k <= j)

Relinked == [a \in Place |->
    IF \E i \in Pool : a \in Areas(i)
    THEN LET i == CHOOSE i \in Pool : a \in Areas(i) IN
         IF a = memAreas[i] THEN LastFreed(i) ELSE Before(a, i)
    ELSE link[a]]

(* Bound: one clean-up.                                                    *)
Cleanup ==
    /\ phase = "up"
    /\ phase' = "down"
    /\ link' = Relinked
    /\ freeArea' = LastFreed(MaxMemIndex)
    /\ UNCHANGED <<prealloc, memAreas, freeMems, freeVars, inUse, system>>

(* sgc_init, whose sgc_initialized is still 1: it goes on with the lists   *)
(* as they are.                                                            *)
Restart ==
    /\ phase = "down"
    /\ phase' = "again"
    /\ UNCHANGED <<prealloc, heaps, system>>

Alloc(bytes) ==
    \/ \E i \in Pool : \E at \in freeMems[i] : AllocMem(bytes, at)
    \/ \E area \in Place : \E at \in Cut(SizeIndex(bytes), area) : AllocCut(bytes, area, at)
    \/ \E area \in Place : \E at \in Cut(SizeIndex(bytes), area) : AllocArea(bytes, area, at)
    \/ \E at \in Place : AllocVar(bytes, at)
    \/ \E at \in Place : AllocRegion(bytes, at)

Next == \/ \E at \in Place : BootExpand(at)
        \/ BootFails \/ BootDone
        \/ \E bytes \in Request : Alloc(bytes)
        \/ \E b \in inUse : Free(b)
        \/ Cleanup \/ Restart

Spec == Init /\ [][Next]_vars
-----------------------------------------------------------------------------
(* sgc_allocator_is_valid of address p, where the bytes of the header are  *)
(* h.  sgc_var_heap_valid accepts whatever it is asked.                    *)
ColorMax == 4
FlagsMax == 4

InsideInterval(p) == low <= p /\ p < high

(* Mutants: the last block is left out; the unused end is taken in.        *)
MemHeapValid_Short(i, p) ==
    \E a \in Areas(i) : /\ a + 1 <= p /\ p < a + 1 + DataWords(i) - MemWords(i)
                        /\ (p - (a + 1)) % MemWords(i) = 0
MemHeapValid_Whole(i, p) ==
    \E a \in Areas(i) : /\ a + 1 <= p /\ p < a + AreaWords
                        /\ (p - (a + 1)) % MemWords(i) = 0

(* sgc_mem_heap_valid: the walk along the areas of the class.              *)
MemHeapValid(i, p) == \E a \in Areas(i) : /\ a + 1 <= p /\ p < a + 1 + DataWords(i)
                                          /\ (p - (a + 1)) % MemWords(i) = 0

IsValid(p, h) ==
    /\ h.size <= SizeCount
    /\ h.color < ColorMax
    /\ h.color < FlagsMax
    /\ h.dummy
    /\ InsideInterval(p)
    /\ h.size \in Pool => MemHeapValid(h.size, p)

Header == [size : 0..(SizeCount + 1), color : 0..ColorMax, flags : 0..FlagsMax, dummy : BOOLEAN]
-----------------------------------------------------------------------------
(***************************************************************************)
(* Properties.                                                             *)
(***************************************************************************)
(* Every variable has its type.                                            *)
TypeOK ==
    /\ phase \in {"boot", "up", "failed", "down", "again"}
    /\ prealloc \in 0..Prealloc
    /\ \A r \in regions : r.at \in Place /\ r.words \in Nat
    /\ link \in [Place -> Place \cup {0}]
    /\ freeArea \in Place \cup {0}
    /\ memAreas \in [Pool -> Place \cup {0}]
    /\ freeMems \in [Pool -> SUBSET Nat]
    /\ freeVars \subseteq [at : Nat, class : Class \ Pool]
    /\ inUse \subseteq [at : Nat, class : Class, bytes : Request]
    /\ low \in Place \cup {0} /\ high \in Nat

(* The words of a block that its user or the allocator writes.             *)
Words(b) == b.at .. (b.at + InWords(HeaderBytes + b.bytes) - 1)

FreeBlocks == (UNION {{Block(at, i, MemBytes(i)) : at \in freeMems[i]} : i \in Pool})
              \cup {Block(v.at, v.class, MemBytes(v.class)) : v \in freeVars}

Blocks == inUse \cup FreeBlocks

(* What is written to one block is not written to another, to the link of  *)
(* an area, to a free area or beyond what malloc returned: neither the     *)
(* bytes that the client asked for, nor the header of a free block.  With  *)
(* sgc_cleanup this is over for good: the areas it frees can be cut again  *)
(* while their blocks stay in use.                                         *)
BlocksApart ==
    FirstLife => \A b \in Blocks :
        /\ \A c \in Blocks \ {b} : Words(b) \cap Words(c) = {}
        /\ \A i \in Pool : Areas(i) \cap Words(b) = {}
        /\ \A a \in FreeAreas : (a .. (a + AreaWords - 1)) \cap Words(b) = {}
        /\ \E r \in regions : Words(b) \subseteq r.at .. (r.at + r.words - 1)

(* An object in use is recognised by sgc_mark and sgc_scan_mem unless it   *)
(* is below the area that came first, since the interval never begins      *)
(* lower (sgc_interval.c:39); then it never is, and the collector ignores  *)
(* every pointer to it.  After sgc_cleanup the list of its class may have  *)
(* lost its area.                                                          *)
BlocksAreValid ==
    FirstLife => \A b \in inUse : \A color \in 0..(ColorMax - 1), flags \in 0..(FlagsMax - 1) :
        IsValid(b.at, [size |-> b.class, color |-> color, flags |-> flags, dummy |-> TRUE])
            <=> low <= b.at

(* An address that passes for a block of a class cut from areas is one,    *)
(* whatever stands in the words that are read as its header: no pointer    *)
(* into a block, and none into the unused end of an area.  After           *)
(* sgc_cleanup the list of a class runs on into areas of other classes.    *)
OnlyBlocksAreValid ==
    FirstLife => \A i \in Pool : \A p \in 0..high :
        MemHeapValid(i, p) => \E b \in Blocks : b.at = p /\ b.class = i

(* The walk of sgc_mem_heap_valid along the areas of a class comes to its  *)
(* end, and so does the list of free areas: no area comes twice.  This     *)
(* holds after sgc_cleanup too, but not for a class that then gets its own *)
(* area again: area->next is set to heap->mem_areas, that area itself      *)
(* (sgc_mem_heap.c:82).                                                    *)
WalkEnds(h) == \A a \in Along(link, h) : a \notin Along(link, link[a])
WalksEnd == phase # "again" => WalkEnds(freeArea) /\ \A i \in Pool : WalkEnds(memAreas[i])

(* sgc_allocator.c:127, "Check for a valid size": the collector uses the   *)
(* size of what is valid as an index of sgc_mem_sizes.                     *)
ValidHasSize == \A p \in 0..high : \A h \in Header : IsValid(p, h) => h.size < SizeCount
=============================================================================
