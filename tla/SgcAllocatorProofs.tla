------------------------- MODULE SgcAllocatorProofs -------------------------
(***************************************************************************)
(* Proofs about SgcAllocator, for all sizes of headers, classes and areas, *)
(* all requests, and wherever malloc puts what it returns.                 *)
(***************************************************************************)
EXTENDS SgcAllocator, SgcWalks
-----------------------------------------------------------------------------
(* Arithmetic.  Of two multiples, the greater one leaves room for a step.  *)
LEMMA Multiples ==
    ASSUME NEW m \in Nat, NEW k \in Nat, NEW l \in Nat, k < l
    PROVE  k * m \in Nat /\ l * m \in Nat /\ k * m + m <= l * m
  OBVIOUS

(* Division rounds down.                                                   *)
LEMMA Quotient ==
    ASSUME NEW n \in Int, NEW m \in Nat \ {0}
    PROVE  n \div m \in Int /\ (n \div m) * m <= n
  OBVIOUS

(* The remainder tells the multiples.                                      *)
LEMMA Remainder ==
    ASSUME NEW n \in Nat, NEW m \in Nat \ {0}
    PROVE  /\ \A k \in Nat : (k * m) % m = 0
           /\ n % m = 0 => \E k \in Nat : n = k * m
<1>1. ASSUME NEW k \in Nat
      PROVE  (k * m) % m = 0
  OBVIOUS
<1>2. ASSUME n % m = 0
      PROVE  \E k \in Nat : n = k * m
  BY <1>2
<1> QED
  BY <1>1, <1>2

(* A block holds its header and what its class is for.                     *)
LEMMA BlocksHold ==
    ASSUME NEW i \in Class, NEW bytes \in Nat, bytes <= MemBytes(i)
    PROVE  /\ MemWords(i) \in Nat \ {0}
           /\ InWords(HeaderBytes + bytes) \in Nat
           /\ InWords(HeaderBytes + bytes) <= MemWords(i)
<1>1. MemBytes(i) \in Nat \ {0} /\ HeaderBytes \in Nat
  BY MemBytesAssumption, AllocatorAssumption
<1> QED
  BY <1>1 DEF MemWords, InWords, Word

(* The loop of sgc_get_size_index ends, at a class that holds the request. *)
LEMMA ClassFound ==
    ASSUME NEW bytes \in Request
    PROVE  SizeIndex(bytes) \in Class /\ bytes <= MemBytes(SizeIndex(bytes)) /\ bytes \in Nat
<1> DEFINE Enough == {j \in Class : MemBytes(j) >= bytes}
<1>1. bytes \in Nat /\ bytes <= MemBytes(SizeCount - 1) /\ SizeCount - 1 \in Class
      /\ Class \subseteq Nat
  <2>1. SizeCount \in Nat /\ SizeCount >= 1 /\ Request \subseteq 1..MemBytes(SizeCount - 1)
    BY AllocatorAssumption
  <2>2. SizeCount - 1 \in Class /\ Class \subseteq Nat
    BY <2>1 DEF Class
  <2> QED
    BY <2>1, <2>2, MemBytesAssumption
<1>2. SizeCount - 1 \in Enough /\ Enough \in SUBSET Nat
  BY <1>1, MemBytesAssumption
<1>3. \E i \in Enough : \A j \in Enough : i <= j
  BY <1>2, Least
<1>4. MemBytes(SizeIndex(bytes)) >= bytes /\ SizeIndex(bytes) \in Class
  BY <1>3 DEF SizeIndex
<1> QED
  BY <1>1, <1>4, MemBytesAssumption

(* An area holds the blocks that it is cut into, behind its link.          *)
LEMMA AreaSizes ==
    ASSUME NEW i \in Pool
    PROVE  /\ i \in Class
           /\ MemWords(i) \in Nat \ {0} /\ NumMems(i) \in Nat \ {0} /\ AreaWords \in Nat \ {0}
           /\ DataWords(i) \in Nat /\ DataWords(i) < AreaWords
<1>1. i \in Class
  BY AllocatorAssumption DEF Pool, Class
<1>2. MemWords(i) \in Nat \ {0}
  BY <1>1, BlocksHold, MemBytesAssumption
<1>3. AreaWords \in Nat /\ NumMems(i) >= 1 /\ AreaWords - 1 \in Int
  BY AllocatorAssumption
<1>4. NumMems(i) \in Int /\ NumMems(i) * MemWords(i) <= AreaWords - 1
  BY <1>2, <1>3, Quotient DEF NumMems
<1>5. NumMems(i) * MemWords(i) \in Nat /\ NumMems(i) * MemWords(i) >= MemWords(i)
  <2>1. 0 * MemWords(i) + MemWords(i) <= NumMems(i) * MemWords(i) /\ NumMems(i) * MemWords(i) \in Nat
    BY <1>2, <1>3, <1>4, Multiples
  <2> QED
    BY <1>2, <2>1
<1> QED
  BY <1>1, <1>2, <1>3, <1>4, <1>5 DEF DataWords

LEMMA CutsFit ==
    ASSUME NEW i \in Pool, NEW a \in Nat, NEW p \in Cut(i, a)
    PROVE  p \in Nat /\ a < p /\ p + MemWords(i) <= a + 1 + DataWords(i)
<1>1. PICK k \in 0..(NumMems(i) - 1) : p = a + 1 + k * MemWords(i)
  BY DEF Cut
<1>2. k \in Nat /\ k < NumMems(i)
  BY AreaSizes
<1>3. k * MemWords(i) \in Nat /\ k * MemWords(i) + MemWords(i) <= DataWords(i)
  BY <1>2, AreaSizes, Multiples DEF DataWords
<1> QED
  BY <1>1, <1>3, AreaSizes

(* Two of them are apart.                                                  *)
LEMMA CutsApart ==
    ASSUME NEW i \in Pool, NEW a \in Nat, NEW p \in Cut(i, a), NEW q \in Cut(i, a), p # q
    PROVE  p + MemWords(i) <= q \/ q + MemWords(i) <= p
<1>1. PICK k \in 0..(NumMems(i) - 1) : p = a + 1 + k * MemWords(i)
  BY DEF Cut
<1>2. PICK l \in 0..(NumMems(i) - 1) : q = a + 1 + l * MemWords(i)
  BY DEF Cut
<1>3. k \in Nat /\ l \in Nat /\ MemWords(i) \in Nat
  BY AreaSizes
<1>4. k * MemWords(i) \in Nat /\ l * MemWords(i) \in Nat
  BY <1>3
<1>5. CASE k < l
  BY <1>1, <1>2, <1>3, <1>4, <1>5, Multiples
<1>6. CASE l < k
  BY <1>1, <1>2, <1>3, <1>4, <1>6, Multiples
<1> QED
  BY <1>1, <1>2, <1>3, <1>5, <1>6

(* sgc_mem_heap_valid accepts the blocks that an area was cut into, and    *)
(* them only.                                                              *)
LEMMA CutsAreValid ==
    ASSUME NEW i \in Pool, Areas(i) \subseteq Nat, NEW p \in Nat
    PROVE  MemHeapValid(i, p) <=> \E a \in Areas(i) : p \in Cut(i, a)
<1>1. ASSUME NEW a \in Areas(i), p \in Cut(i, a)
      PROVE  a + 1 <= p /\ p < a + 1 + DataWords(i) /\ (p - (a + 1)) % MemWords(i) = 0
  <2>1. PICK k \in 0..(NumMems(i) - 1) : p = a + 1 + k * MemWords(i)
    BY <1>1 DEF Cut
  <2>2. a \in Nat /\ k \in Nat /\ MemWords(i) \in Nat \ {0} /\ k * MemWords(i) \in Nat
    BY AreaSizes
  <2>3. p - (a + 1) = k * MemWords(i)
    BY <2>1, <2>2
  <2>4. a < p /\ p + MemWords(i) <= a + 1 + DataWords(i)
    BY <1>1, <2>2, CutsFit
  <2>5. (k * MemWords(i)) % MemWords(i) = 0
    BY <2>2, Remainder
  <2> QED
    BY <2>2, <2>3, <2>4, <2>5, AreaSizes
<1>2. ASSUME NEW a \in Areas(i), a + 1 <= p, p < a + 1 + DataWords(i),
             (p - (a + 1)) % MemWords(i) = 0
      PROVE  p \in Cut(i, a)
  <2>1. a \in Nat /\ p - (a + 1) \in Nat /\ p - (a + 1) < DataWords(i)
    BY <1>2, AreaSizes
  <2>2. PICK k \in Nat : p - (a + 1) = k * MemWords(i)
    BY <1>2, <2>1, AreaSizes, Remainder
  <2>3. k < NumMems(i)
    <3> SUFFICES ASSUME NumMems(i) <= k
                 PROVE  FALSE
      BY AreaSizes
    <3>1. NumMems(i) * MemWords(i) <= k * MemWords(i)
      <4>1. CASE NumMems(i) = k
        BY <2>1, <2>2, <4>1, AreaSizes
      <4>2. CASE NumMems(i) < k
        BY <4>2, AreaSizes, Multiples
      <4> QED
        BY <4>1, <4>2, AreaSizes
    <3> QED
      BY <2>1, <2>2, <3>1, AreaSizes DEF DataWords
  <2>4. k \in 0..(NumMems(i) - 1)
    BY <2>3, AreaSizes
  <2>5. p = a + 1 + k * MemWords(i)
    BY <2>1, <2>2, AreaSizes
  <2> QED
    BY <2>4, <2>5 DEF Cut
<1> QED
  BY <1>1, <1>2 DEF MemHeapValid
-----------------------------------------------------------------------------
Area(a)   == [at |-> a, words |-> AreaWords]
Home(v)   == [at |-> v.at, words |-> MemWords(v.class)]
Owned     == UNION {Areas(i) : i \in Pool}
IsCut(i, p) == \E a \in Areas(i) : p \in Cut(i, a)

(* What malloc returned does not overlap, and lies below 'high'.           *)
RegionInv ==
    /\ \A r, s \in regions : r # s => r.at + r.words <= s.at \/ s.at + s.words <= r.at
    /\ \A r \in regions : r.words > 0
    /\ \A a \in FreeAreas \cup Owned : Area(a) \in regions /\ a + AreaWords <= high
    /\ \A i \in Pool : Areas(i) \cap FreeAreas = {}
    /\ \A i, j \in Pool : i # j => Areas(i) \cap Areas(j) = {}

(* The blocks of a class that is cut from areas are those of its areas;    *)
(* each one is in use once or free.                                        *)
MemInv ==
    /\ \A i \in Pool : \A p \in freeMems[i] : IsCut(i, p)
    /\ \A b \in inUse : b.class \in Pool => IsCut(b.class, b.at)
    /\ \A i \in Pool, p \in Nat : IsCut(i, p) =>
          p \in freeMems[i] \/ \E b \in inUse : b.class = i /\ b.at = p
    /\ \A b \in inUse : b.class \in Pool => b.at \notin freeMems[b.class]
    /\ \A b, c \in inUse : b.class = c.class /\ b.at = c.at => b = c

(* A block of a large class has a region of its own, for good.             *)
VarInv ==
    /\ \A v \in freeVars \cup {b \in inUse : b.class \notin Pool} :
          Home(v) \in regions /\ v.at < high /\ v.at \notin FreeAreas \cup Owned
    /\ \A v, w \in freeVars : v.at = w.at => v = w
    /\ \A b, c \in inUse : b.class \notin Pool /\ c.class \notin Pool /\ b.at = c.at => b = c
    /\ \A v \in freeVars, b \in inUse : b.class \notin Pool => b.at # v.at

SizeInv == \A b \in inUse : b.bytes <= MemBytes(b.class)

(* The list of free areas and those of the classes end, and no area comes  *)
(* twice on them.                                                          *)
Ends(next, a) ==
    /\ \A b \in Along(next, a) : b \notin Along(next, next[b])
    /\ a # 0 => \E b \in Along(next, a) : next[b] = 0

LinkInv == Ends(link, freeArea) /\ \A i \in Pool : Ends(link, memAreas[i])

(* What holds until sgc_cleanup, and is lost with it.                      *)
FirstInv == RegionInv /\ MemInv /\ VarInv /\ SizeInv /\ LinkInv

IInv == TypeOK /\ (FirstLife => FirstInv)
-----------------------------------------------------------------------------
(* Walks along the links of areas.  Along is the least set that is closed  *)
(* under the links.                                                        *)
LEMMA AlongIsLinked ==
    ASSUME NEW next \in [Place -> Place \cup {0}], NEW a \in Place \cup {0}
    PROVE  /\ Along(next, a) \subseteq Place
           /\ a # 0 => a \in Along(next, a)
           /\ Linked(next, Along(next, a))
BY DEF Along, Linked

LEMMA AlongHasHead ==
    ASSUME NEW next, NEW a \in Place
    PROVE  a \in Along(next, a)
<1>1. a # 0
  BY AllocatorAssumption
<1> QED
  BY <1>1 DEF Along

LEMMA AlongIsLeast ==
    ASSUME NEW next, NEW a, NEW S \in SUBSET Place, Linked(next, S), a # 0 => a \in S
    PROVE  Along(next, a) \subseteq S
BY DEF Along

LEMMA AlongNothing ==
    ASSUME NEW next
    PROVE  Along(next, 0) = {}
<1>1. {} \in SUBSET Place /\ Linked(next, {})
  BY DEF Linked
<1> QED
  BY <1>1, AlongIsLeast

(* What comes after an area of a walk is on that walk.                     *)
LEMMA AlongWithin ==
    ASSUME NEW next \in [Place -> Place \cup {0}], NEW a \in Place \cup {0},
           NEW b \in Along(next, a)
    PROVE  Along(next, b) \subseteq Along(next, a) /\ Along(next, next[b]) \subseteq Along(next, a)
<1>1. Along(next, a) \in SUBSET Place /\ Linked(next, Along(next, a))
  BY AlongIsLinked
<1>2. next[b] # 0 => next[b] \in Along(next, a)
  BY <1>1 DEF Linked
<1>3. Along(next, b) \subseteq Along(next, a)
  BY <1>1, AlongIsLeast
<1>4. Along(next, next[b]) \subseteq Along(next, a)
  BY <1>1, <1>2, AlongIsLeast
<1> QED
  BY <1>3, <1>4

(* A walk is an area and the walk from the next.                           *)
LEMMA AlongStep ==
    ASSUME NEW next \in [Place -> Place \cup {0}], NEW a \in Place
    PROVE  Along(next, a) = {a} \cup Along(next, next[a])
<1>1. 0 \notin Place /\ next[a] \in Place \cup {0}
  BY AllocatorAssumption
<1>2. a \in Along(next, a)
  BY <1>1, AlongIsLinked
<1>3. Along(next, next[a]) \subseteq Along(next, a)
  BY <1>2, AlongWithin
<1>4. /\ Along(next, next[a]) \subseteq Place
      /\ next[a] # 0 => next[a] \in Along(next, next[a])
      /\ Linked(next, Along(next, next[a]))
  BY <1>1, AlongIsLinked
<1> DEFINE S == {a} \cup Along(next, next[a])
<1>5. S \in SUBSET Place /\ Linked(next, S) /\ a \in S
  BY <1>4 DEF Linked
<1> HIDE DEF S
<1>6. Along(next, a) \subseteq S
  BY <1>5, AlongIsLeast
<1> QED
  BY <1>2, <1>3, <1>6 DEF S

(* Links that a walk does not follow do not matter to it.                  *)
LEMMA AlongSame ==
    ASSUME NEW next \in [Place -> Place \cup {0}], NEW other \in [Place -> Place \cup {0}],
           NEW a \in Place \cup {0}, \A b \in Along(next, a) : other[b] = next[b]
    PROVE  Along(other, a) = Along(next, a)
<1> DEFINE C == Along(next, a)
           D == Along(other, a)
<1>1. C \in SUBSET Place /\ (a # 0 => a \in C) /\ Linked(next, C)
  BY AlongIsLinked
<1>2. D \in SUBSET Place /\ (a # 0 => a \in D) /\ Linked(other, D)
  BY AlongIsLinked
<1> HIDE DEF C, D
<1>3. Linked(other, C)
  BY <1>1 DEF C, Linked
<1>4. D \subseteq C
  BY <1>1, <1>3, AlongIsLeast DEF D
<1>5. C \cap D \in SUBSET Place /\ Linked(next, C \cap D) /\ (a # 0 => a \in C \cap D)
  <2>1. ASSUME NEW b \in C \cap D, next[b] # 0
        PROVE  next[b] \in C \cap D
    BY <1>1, <1>2, <2>1 DEF C, Linked
  <2> QED
    BY <1>1, <1>2, <2>1 DEF Linked
<1>6. C \subseteq C \cap D
  BY <1>5, AlongIsLeast DEF C
<1> QED
  BY <1>4, <1>6 DEF C, D

(* They do not matter to its end either.                                   *)
LEMMA EndsSame ==
    ASSUME NEW next \in [Place -> Place \cup {0}], NEW other \in [Place -> Place \cup {0}],
           NEW a \in Place \cup {0}, \A b \in Along(next, a) : other[b] = next[b], Ends(next, a)
    PROVE  Along(other, a) = Along(next, a) /\ Ends(other, a)
<1>1. Along(other, a) = Along(next, a) /\ Along(next, a) \subseteq Place
  BY AlongSame, AlongIsLinked
<1>2. ASSUME NEW b \in Along(next, a)
      PROVE  Along(other, other[b]) = Along(next, next[b])
  <2>1. other[b] = next[b] /\ next[b] \in Place \cup {0}
    BY <1>1
  <2>2. \A c \in Along(next, next[b]) : other[c] = next[c]
    BY AlongWithin
  <2> QED
    BY <2>1, <2>2, AlongSame
<1> QED
  BY <1>1, <1>2 DEF Ends

(* An area in front of a list.                                             *)
LEMMA EndsPushed ==
    ASSUME NEW next \in [Place -> Place \cup {0}], NEW h \in Place \cup {0}, NEW a \in Place,
           a \notin Along(next, h), Ends(next, h)
    PROVE  /\ Along([next EXCEPT ![a] = h], a) = {a} \cup Along(next, h)
           /\ Ends([next EXCEPT ![a] = h], a)
<1> DEFINE other == [next EXCEPT ![a] = h]
<1>1. other \in [Place -> Place \cup {0}] /\ other[a] = h /\ 0 \notin Place
      /\ \A b \in Place : b # a => other[b] = next[b]
  BY AllocatorAssumption
<1>2. Along(next, h) \subseteq Place
  BY AlongIsLinked
<1> HIDE DEF other
<1>3. Along(other, h) = Along(next, h) /\ Ends(other, h)
  BY <1>1, <1>2, EndsSame
<1>4. Along(other, a) = {a} \cup Along(next, h)
  BY <1>1, <1>3, AlongStep
<1>5. h = 0 => Along(next, h) = {}
  BY AlongNothing
<1>6. Ends(other, a)
  BY <1>1, <1>3, <1>4, <1>5 DEF Ends
<1> QED
  BY <1>4, <1>6 DEF other

(* A list without its first area.                                          *)
LEMMA EndsPopped ==
    ASSUME NEW next \in [Place -> Place \cup {0}], NEW a \in Place, Ends(next, a)
    PROVE  /\ Along(next, next[a]) = Along(next, a) \ {a}
           /\ next[a] \in Place \cup {0} /\ Ends(next, next[a])
<1>1. Along(next, a) = {a} \cup Along(next, next[a]) /\ 0 \notin Place /\ next[a] \in Place \cup {0}
  BY AlongStep, AllocatorAssumption
<1>2. a \notin Along(next, next[a])
  BY <1>1 DEF Ends
<1> QED
  BY <1>1, <1>2 DEF Ends
-----------------------------------------------------------------------------
(* What malloc returns is apart from what it returned before.              *)
LEMMA MallocApart ==
    ASSUME TypeOK, FirstInv, NEW at, NEW words \in Nat \ {0}, Malloc(at, words)
    PROVE  /\ at \in Place
           /\ \A r \in regions : r.at # at /\ (r.at + r.words <= at \/ at + words <= r.at)
           /\ regions' = regions \cup {[at |-> at, words |-> words]}
           /\ \A r, s \in regions' : r # s => r.at + r.words <= s.at \/ s.at + s.words <= r.at
           /\ \A r \in regions' : r.at \in Place /\ r.words \in Nat \ {0}
           /\ at \notin FreeAreas \cup Owned
           /\ \A v \in freeVars \cup {b \in inUse : b.class \notin Pool} : v.at # at
<1>1. /\ at \in Place /\ Place \subseteq Nat
      /\ \A r \in regions : at + words <= r.at \/ r.at + r.words <= at
      /\ regions' = regions \cup {[at |-> at, words |-> words]}
  BY AllocatorAssumption DEF Malloc
<1>2. \A r \in regions : r.at \in Place /\ r.words \in Nat \ {0}
  BY DEF FirstInv, TypeOK, RegionInv
<1>3. \A r \in regions : r.at # at
  BY <1>1, <1>2
<1>4. \A r, s \in regions : r # s => r.at + r.words <= s.at \/ s.at + s.words <= r.at
  BY DEF FirstInv, RegionInv
<1>5. \A r, s \in regions' : r # s => r.at + r.words <= s.at \/ s.at + s.words <= r.at
  BY <1>1, <1>4
<1>6. at \notin FreeAreas \cup Owned
  BY <1>3 DEF FirstInv, RegionInv, Area
<1>7. \A v \in freeVars \cup {b \in inUse : b.class \notin Pool} : v.at # at
  BY <1>3 DEF FirstInv, VarInv, Home
<1> QED
  BY <1>1, <1>2, <1>3, <1>5, <1>6, <1>7

(* Lists that no link of is written.                                       *)
LEMMA ListsKept ==
    ASSUME UNCHANGED areas
    PROVE  /\ FreeAreas' = FreeAreas /\ Owned' = Owned
           /\ \A j \in Pool : Areas(j)' = Areas(j)
           /\ LinkInv <=> LinkInv'
BY DEF areas, FreeAreas, Owned, Areas, LinkInv

(* The areas of lists are addresses.                                       *)
LEMMA ListsInPlace ==
    ASSUME TypeOK
    PROVE  /\ FreeAreas \subseteq Place /\ Owned \subseteq Place
           /\ \A j \in Pool : Areas(j) \subseteq Place
BY DEF FreeAreas, Owned, Areas, Along

(* sgc_area_heap_free puts an area that is on no list in front of the      *)
(* free ones.                                                              *)
LEMMA AreaFreed ==
    ASSUME TypeOK, LinkInv, NEW at \in Place, at \notin FreeAreas \cup Owned,
           link' = [link EXCEPT ![at] = freeArea], freeArea' = at, UNCHANGED memAreas
    PROVE  /\ FreeAreas' = FreeAreas \cup {at} /\ Owned' = Owned
           /\ \A j \in Pool : Areas(j)' = Areas(j)
           /\ LinkInv'
<1>1. PICK next, other, h, heads : next = link /\ other = link' /\ h = freeArea /\ heads = memAreas
  OBVIOUS
<1>2. /\ next \in [Place -> Place \cup {0}] /\ h \in Place \cup {0}
      /\ heads \in [Pool -> Place \cup {0}]
      /\ other = [next EXCEPT ![at] = h]
      /\ Ends(next, h) /\ at \notin Along(next, h)
      /\ \A j \in Pool : Ends(next, heads[j]) /\ at \notin Along(next, heads[j])
  BY <1>1 DEF TypeOK, LinkInv, FreeAreas, Owned, Areas
<1>3. other \in [Place -> Place \cup {0}] /\ \A b \in Place : b # at => other[b] = next[b]
  BY <1>2
<1>4. Along(other, at) = Along(next, h) \cup {at} /\ Ends(other, at)
  <2>1. /\ Along([next EXCEPT ![at] = h], at) = {at} \cup Along(next, h)
        /\ Ends([next EXCEPT ![at] = h], at)
    BY <1>2, EndsPushed
  <2>2. other = [next EXCEPT ![at] = h]
    BY <1>2
  <2> QED
    BY <2>1, <2>2
<1>5. ASSUME NEW j \in Pool
      PROVE  Along(other, heads[j]) = Along(next, heads[j]) /\ Ends(other, heads[j])
  <2>1. PICK g : g = heads[j]
    OBVIOUS
  <2>2. /\ g \in Place \cup {0} /\ Ends(next, g)
        /\ \A b \in Along(next, g) : other[b] = next[b]
    BY <1>2, <1>3, <2>1 DEF Along
  <2>3. next \in [Place -> Place \cup {0}] /\ other \in [Place -> Place \cup {0}]
    BY <1>2, <1>3
  <2>4. Along(other, g) = Along(next, g) /\ Ends(other, g)
    BY <2>2, <2>3, EndsSame
  <2> QED
    BY <2>1, <2>4
<1>6. FreeAreas = Along(next, h) /\ FreeAreas' = Along(other, at)
      /\ \A j \in Pool : Areas(j) = Along(next, heads[j]) /\ Areas(j)' = Along(other, heads[j])
  BY <1>1 DEF FreeAreas, Areas
<1>7. LinkInv'
  BY <1>1, <1>4, <1>5 DEF LinkInv
<1>8. \A j \in Pool : Areas(j)' = Areas(j)
  BY <1>5, <1>6
<1> QED
  BY <1>4, <1>6, <1>7, <1>8 DEF Owned

(* sgc_mem_heap_expand puts an area, the first free one or a new one, in   *)
(* front of those of its class.                                            *)
LEMMA AreaOwned ==
    ASSUME TypeOK, LinkInv, NEW i \in Pool, NEW area \in Place, area \notin Owned,
           \A j, k \in Pool : j # k => Areas(j) \cap Areas(k) = {},
           \A j \in Pool : Areas(j) \cap FreeAreas = {},
           link' = Chained(i, area), memAreas' = [memAreas EXCEPT ![i] = area],
           \/ area = freeArea /\ freeArea' = link[area]
           \/ freeArea = 0 /\ UNCHANGED freeArea
    PROVE  /\ FreeAreas' = FreeAreas \ {area}
           /\ \A j \in Pool : Areas(j)' = IF j = i THEN Areas(j) \cup {area} ELSE Areas(j)
           /\ LinkInv'
<1>1. PICK next, other, h, k, heads : /\ next = link /\ other = link' /\ h = freeArea
                                      /\ k = freeArea' /\ heads = memAreas
  OBVIOUS
<1>2. /\ next \in [Place -> Place \cup {0}] /\ h \in Place \cup {0} /\ 0 \notin Place
      /\ heads \in [Pool -> Place \cup {0}]
      /\ other = [next EXCEPT ![area] = heads[i]]
      /\ Ends(next, h)
      /\ \A j \in Pool : Ends(next, heads[j]) /\ area \notin Along(next, heads[j])
      /\ \/ area = h /\ k = next[area]
         \/ h = 0 /\ k = 0
  BY <1>1, AllocatorAssumption DEF TypeOK, LinkInv, Owned, Areas, Chained
<1>3. other \in [Place -> Place \cup {0}] /\ \A b \in Place : b # area => other[b] = next[b]
  BY <1>2
<1>4. Along(next, k) = Along(next, h) \ {area} /\ Ends(next, k) /\ k \in Place \cup {0}
  <2>1. CASE area = h /\ k = next[area]
    BY <1>2, <2>1, EndsPopped
  <2>2. CASE h = 0 /\ k = 0
    BY <1>2, <2>2, AlongNothing
  <2> QED
    BY <1>2, <2>1, <2>2
<1>5. Along(other, k) = Along(next, k) /\ Ends(other, k)
  <2>1. \A b \in Along(next, k) : other[b] = next[b]
    BY <1>3, <1>4 DEF Along
  <2>2. next \in [Place -> Place \cup {0}] /\ other \in [Place -> Place \cup {0}]
        /\ k \in Place \cup {0} /\ Ends(next, k)
    BY <1>2, <1>3, <1>4
  <2> QED
    BY <2>1, <2>2, EndsSame
<1>6. Along(other, area) = {area} \cup Along(next, heads[i]) /\ Ends(other, area)
  <2>1. PICK g : g = heads[i]
    OBVIOUS
  <2>2. g \in Place \cup {0} /\ Ends(next, g) /\ area \notin Along(next, g)
        /\ other = [next EXCEPT ![area] = g]
    BY <1>2, <2>1
  <2>3. next \in [Place -> Place \cup {0}]
    BY <1>2
  <2>4. /\ Along([next EXCEPT ![area] = g], area) = {area} \cup Along(next, g)
        /\ Ends([next EXCEPT ![area] = g], area)
    BY <2>2, <2>3, EndsPushed
  <2> QED
    BY <2>1, <2>2, <2>4
<1>7. ASSUME NEW j \in Pool
      PROVE  Along(other, heads[j]) = Along(next, heads[j]) /\ Ends(other, heads[j])
  <2>1. PICK g : g = heads[j]
    OBVIOUS
  <2>2. /\ g \in Place \cup {0} /\ Ends(next, g)
        /\ \A b \in Along(next, g) : other[b] = next[b]
    BY <1>2, <1>3, <2>1 DEF Along
  <2>3. next \in [Place -> Place \cup {0}] /\ other \in [Place -> Place \cup {0}]
    BY <1>2, <1>3
  <2>4. Along(other, g) = Along(next, g) /\ Ends(other, g)
    BY <2>2, <2>3, EndsSame
  <2> QED
    BY <2>1, <2>4
<1>8. /\ FreeAreas = Along(next, h) /\ FreeAreas' = Along(other, k)
      /\ \A j \in Pool : Areas(j) = Along(next, heads[j])
      /\ Areas(i)' = Along(other, area)
      /\ \A j \in Pool : j # i => Areas(j)' = Along(other, heads[j])
  BY <1>1, <1>2 DEF FreeAreas, Areas, TypeOK
<1>9. LinkInv'
  <2>1. Ends(link, freeArea)'
    BY <1>1, <1>5
  <2>2. \A j \in Pool : Ends(other, memAreas'[j])
    BY <1>1, <1>2, <1>6, <1>7
  <2> QED
    BY <1>1, <2>1, <2>2 DEF LinkInv
<1>10. FreeAreas' = FreeAreas \ {area}
  BY <1>4, <1>5, <1>8
<1>11. ASSUME NEW j \in Pool
       PROVE  Areas(j)' = IF j = i THEN Areas(j) \cup {area} ELSE Areas(j)
  BY <1>6, <1>7, <1>8
<1> QED
  BY <1>9, <1>10, <1>11

(* What sgc_cleanup writes to the links of areas are areas, or NULL: each  *)
(* area but the first of a class comes after another, and the walk along   *)
(* a class has an end.                                                     *)
LEMMA RelinkedAreas ==
    ASSUME TypeOK, LinkInv
    PROVE  /\ Relinked \in [Place -> Place \cup {0}]
           /\ LastFreed(MaxMemIndex) \in Place \cup {0}
<1>1. PICK next, heads : next = link /\ heads = memAreas
  OBVIOUS
<1>2. /\ next \in [Place -> Place \cup {0}] /\ heads \in [Pool -> Place \cup {0}]
      /\ \A j \in Pool : Ends(next, heads[j]) /\ Areas(j) = Along(next, heads[j])
      /\ MaxMemIndex \in Nat /\ Pool \subseteq Nat /\ 0 \notin Place
      /\ \A j \in Pool : j < MaxMemIndex
  BY <1>1, AllocatorAssumption DEF TypeOK, LinkInv, Areas, Pool
<1>3. ASSUME NEW j \in Pool, memAreas[j] # 0
      PROVE  LastOf(j) \in Place
  <2>1. \E a \in Areas(j) : link[a] = 0
    BY <1>1, <1>2, <1>3 DEF Ends
  <2> QED
    BY <2>1, ListsInPlace DEF LastOf
<1>4. ASSUME NEW n \in Nat
      PROVE  LastFreed(n) \in Place \cup {0}
  <2> DEFINE Freed == {j \in Pool : j < n /\ memAreas[j] # 0}
             Above == {m \in Nat : \A j \in Freed : j <= m}
  <2>1. CASE Freed = {}
    BY <2>1 DEF LastFreed, TypeOK
  <2>2. CASE Freed # {}
    <3>1. n \in Above
      BY <1>2
    <3>2. PICK m \in Above : \A l \in Above : m <= l
      BY <3>1, Least
    <3>3. m \in Freed
      <4> SUFFICES ASSUME m \notin Freed
                   PROVE  FALSE
        OBVIOUS
      <4>1. \A j \in Freed : j <= m /\ j # m /\ j \in Nat
        BY <1>2
      <4>2. m # 0
        BY <2>2, <4>1
      <4>3. m - 1 \in Above
        BY <4>1, <4>2
      <4> QED
        BY <3>2, <4>3
    <3>4. \E j \in Freed : \A l \in Freed : l <= j
      BY <3>3
    <3>5. (CHOOSE j \in Freed : \A l \in Freed : l <= j) \in Freed
      BY <3>4
    <3>6. LastFreed(n) = LastOf(CHOOSE j \in Freed : \A l \in Freed : l <= j)
      BY <2>2 DEF LastFreed
    <3> QED
      BY <1>3, <3>5, <3>6
  <2> QED
    BY <2>1, <2>2
<1>5. ASSUME NEW i \in Pool, NEW a \in Areas(i), a # memAreas[i]
      PROVE  Before(a, i) \in Place
  <2>1. PICK h : h = heads[i]
    OBVIOUS
  <2>2. /\ h \in Place \cup {0} /\ a \in Along(next, h) /\ a # h
        /\ Along(next, h) \subseteq Place /\ Linked(next, Along(next, h))
        /\ h # 0 => h \in Along(next, h)
    BY <1>1, <1>2, <1>5, <2>1, AlongIsLinked
  <2>3. \E b \in Along(next, h) : next[b] = a
    <3> SUFFICES ASSUME \A b \in Along(next, h) : next[b] # a
                 PROVE  FALSE
      OBVIOUS
    <3>1. Linked(next, Along(next, h) \ {a})
      BY <2>2 DEF Linked
    <3>2. Along(next, h) \subseteq Along(next, h) \ {a}
      BY <2>2, <3>1, AlongIsLeast
    <3> QED
      BY <2>2, <3>2
  <2>4. \E b \in Areas(i) : link[b] = a
    BY <1>1, <1>2, <2>1, <2>3
  <2> QED
    BY <2>4, ListsInPlace DEF Before
<1>6. ASSUME NEW a \in Place
      PROVE  Relinked[a] \in Place \cup {0}
  <2>1. CASE \E i \in Pool : a \in Areas(i)
    <3>1. PICK j : j = CHOOSE i \in Pool : a \in Areas(i)
      OBVIOUS
    <3>2. j \in Pool /\ a \in Areas(j) /\ j \in Nat
      BY <1>2, <2>1, <3>1
    <3>3. Relinked[a] = IF a = memAreas[j] THEN LastFreed(j) ELSE Before(a, j)
      BY <2>1, <3>1 DEF Relinked
    <3> QED
      BY <1>4, <1>5, <3>2, <3>3
  <2>2. CASE ~ \E i \in Pool : a \in Areas(i)
    BY <2>2 DEF Relinked, TypeOK
  <2> QED
    BY <2>1, <2>2
<1>7. Relinked \in [Place -> Place \cup {0}]
  <2>1. Relinked = [a \in Place |-> Relinked[a]]
    BY DEF Relinked
  <2> QED
    BY <1>6, <2>1
<1> QED
  BY <1>2, <1>4, <1>7

(* Each step keeps the types.                                              *)
LEMMA TypeKept ==
    ASSUME IInv, [Next]_vars
    PROVE  TypeOK'
<1>a. Place \subseteq Nat \ {0} /\ Prealloc \in Nat /\ HeaderBytes \in Nat /\ AreaWords \in Nat
  BY AllocatorAssumption
<1>b. \A i \in Class : MemBytes(i) \in Nat \ {0} /\ MemWords(i) \in Nat \ {0}
  BY BlocksHold, MemBytesAssumption
<1>c. TypeOK
  BY DEF IInv
<1>d. ASSUME NEW at, NEW words \in Nat, Malloc(at, words)
      PROVE  at \in Place /\ \A r \in regions' : r.at \in Place /\ r.words \in Nat
  BY <1>c, <1>d DEF Malloc, TypeOK
<1>e. ASSUME NEW at \in Place, NEW bytes \in Nat, RegisterInterval(at, bytes)
      PROVE  low' \in Place \cup {0} /\ high' \in Nat
  BY <1>a, <1>c, <1>e DEF RegisterInterval, TypeOK
<1>f. ASSUME NEW bytes \in Request, NEW at \in Nat
      PROVE  Block(at, SizeIndex(bytes), bytes) \in [at : Nat, class : Class, bytes : Request]
  BY ClassFound DEF Block
<1>1. ASSUME NEW at \in Place, BootExpand(at)
      PROVE  TypeOK'
  <2>1. /\ Malloc(at, AreaWords) /\ RegisterInterval(at, AreaWords * Word)
        /\ AreaWords * Word \in Nat
    BY <1>1, <1>a DEF BootExpand, NewArea, Word
  <2>2. /\ \A r \in regions' : r.at \in Place /\ r.words \in Nat
        /\ low' \in Place \cup {0} /\ high' \in Nat
    BY <1>a, <1>d, <1>e, <2>1
  <2>3. link' \in [Place -> Place \cup {0}] /\ freeArea' \in Place \cup {0}
    BY <1>1, <1>c DEF BootExpand, TypeOK
  <2>4. prealloc' \in 0..Prealloc
    BY <1>1, <1>a, <1>c DEF BootExpand, TypeOK
  <2> QED
    BY <1>1, <1>c, <2>2, <2>3, <2>4 DEF BootExpand, TypeOK
<1>2. CASE BootFails \/ BootDone \/ Restart \/ UNCHANGED vars
  <2>1. UNCHANGED <<prealloc, heaps, system>> /\ phase' \in {"boot", "up", "failed", "down", "again"}
    BY <1>2, <1>c DEF BootFails, BootDone, Restart, vars, TypeOK
  <2> QED
    BY <1>c, <2>1 DEF TypeOK, heaps, areas, system
<1>3. ASSUME NEW bytes \in Request, NEW at, AllocMem(bytes, at)
      PROVE  TypeOK'
  <2> DEFINE i == SizeIndex(bytes)
  <2>1. /\ i \in Pool /\ at \in freeMems[i]
        /\ freeMems' = [freeMems EXCEPT ![i] = @ \ {at}]
        /\ inUse' = inUse \cup {Block(at, i, bytes)}
        /\ UNCHANGED <<phase, prealloc, areas, freeVars, system>>
    BY <1>3 DEF AllocMem
  <2>2. at \in Nat
    BY <1>c, <2>1 DEF TypeOK
  <2>3. Block(at, i, bytes) \in [at : Nat, class : Class, bytes : Request]
    BY <1>f, <2>2
  <2> HIDE DEF i
  <2> QED
    BY <1>c, <2>1, <2>3 DEF TypeOK, areas, system
<1>4. ASSUME NEW bytes \in Request, NEW area \in Place, NEW at,
             AllocCut(bytes, area, at) \/ AllocArea(bytes, area, at)
      PROVE  TypeOK'
  <2> DEFINE i == SizeIndex(bytes)
  <2>1. /\ i \in Pool /\ at \in Cut(i, area)
        /\ link' = [link EXCEPT ![area] = memAreas[i]]
        /\ memAreas' = [memAreas EXCEPT ![i] = area]
        /\ freeMems' = [freeMems EXCEPT ![i] = Cut(i, area) \ {at}]
        /\ inUse' = inUse \cup {Block(at, i, bytes)}
        /\ UNCHANGED <<phase, prealloc, freeVars>>
    BY <1>4 DEF AllocCut, AllocArea, Expanded, Chained
  <2>2. /\ \A r \in regions' : r.at \in Place /\ r.words \in Nat
        /\ low' \in Place \cup {0} /\ high' \in Nat
    <3>1. CASE AllocCut(bytes, area, at)
      BY <1>c, <3>1 DEF AllocCut, system, TypeOK
    <3>2. CASE AllocArea(bytes, area, at)
      <4>1. /\ Malloc(area, AreaWords) /\ RegisterInterval(area, AreaWords * Word)
            /\ AreaWords * Word \in Nat
        BY <3>2, <1>a DEF AllocArea, NewArea, Word
      <4> QED
        BY <1>a, <1>d, <1>e, <4>1
    <3> QED
      BY <1>4, <3>1, <3>2
  <2>3. freeArea' \in Place \cup {0}
    BY <1>4, <1>c DEF AllocCut, AllocArea, TypeOK
  <2>4. link' \in [Place -> Place \cup {0}] /\ memAreas' \in [Pool -> Place \cup {0}]
    BY <1>c, <2>1 DEF TypeOK
  <2>5. \A p \in Cut(i, area) : p \in Nat
    BY <1>a, <2>1, CutsFit
  <2>6. Block(at, i, bytes) \in [at : Nat, class : Class, bytes : Request]
    BY <1>f, <2>1, <2>5
  <2> HIDE DEF i
  <2>7. freeMems' \in [Pool -> SUBSET Nat]
    BY <1>c, <2>1, <2>5 DEF TypeOK
  <2>8. inUse' \subseteq [at : Nat, class : Class, bytes : Request]
    BY <1>c, <2>1, <2>6 DEF TypeOK
  <2> QED
    BY <1>c, <2>1, <2>2, <2>3, <2>4, <2>7, <2>8 DEF TypeOK
<1>5. ASSUME NEW bytes \in Request, NEW at \in Place, AllocVar(bytes, at)
      PROVE  TypeOK'
  <2> DEFINE i == SizeIndex(bytes)
  <2>1. /\ freeVars' = freeVars \ {[at |-> at, class |-> i]}
        /\ inUse' = inUse \cup {Block(at, i, bytes)}
        /\ UNCHANGED <<phase, prealloc, areas, freeMems, system>>
    BY <1>5 DEF AllocVar
  <2>2. Block(at, i, bytes) \in [at : Nat, class : Class, bytes : Request]
    BY <1>a, <1>f
  <2> HIDE DEF i
  <2> QED
    BY <1>c, <2>1, <2>2 DEF TypeOK, areas, system
<1>6. ASSUME NEW bytes \in Request, NEW at \in Place, AllocRegion(bytes, at)
      PROVE  TypeOK'
  <2> DEFINE i == SizeIndex(bytes)
  <2>1. /\ Malloc(at, MemWords(i)) /\ RegisterInterval(at, HeaderBytes + MemBytes(i))
        /\ inUse' = inUse \cup {Block(at, i, bytes)}
        /\ UNCHANGED <<phase, prealloc, areas, freeMems, freeVars>>
    BY <1>6 DEF AllocRegion
  <2>2. Block(at, i, bytes) \in [at : Nat, class : Class, bytes : Request]
    BY <1>a, <1>f
  <2>3. i \in Class
    BY ClassFound
  <2> HIDE DEF i
  <2>4. MemWords(i) \in Nat /\ HeaderBytes + MemBytes(i) \in Nat
    BY <1>a, <1>b, <2>3
  <2>5. /\ \A r \in regions' : r.at \in Place /\ r.words \in Nat
        /\ low' \in Place \cup {0} /\ high' \in Nat
    BY <1>d, <1>e, <2>1, <2>4
  <2> QED
    BY <1>c, <2>1, <2>2, <2>5 DEF TypeOK, areas
<1>7. ASSUME NEW b \in inUse, Free(b)
      PROVE  TypeOK'
  <2>1. b \in [at : Nat, class : Class, bytes : Request]
    BY <1>c DEF TypeOK
  <2>2. CASE b.class \in Pool
    BY <1>7, <1>c, <2>1, <2>2 DEF Free, TypeOK, areas, system
  <2>3. CASE b.class \notin Pool
    BY <1>7, <1>c, <2>1, <2>3 DEF Free, TypeOK, areas, system
  <2> QED
    BY <2>2, <2>3
<1>8. CASE Cleanup
  <2>1. LinkInv
    BY <1>8 DEF Cleanup, IInv, FirstInv, FirstLife
  <2>2. link' \in [Place -> Place \cup {0}] /\ freeArea' \in Place \cup {0}
    BY <1>8, <1>c, <2>1, RelinkedAreas DEF Cleanup
  <2> QED
    BY <1>8, <1>c, <2>2 DEF Cleanup, TypeOK, system
<1>9. ASSUME NEW bytes \in Request, Alloc(bytes)
      PROVE  TypeOK'
  BY <1>3, <1>4, <1>5, <1>6, <1>9 DEF Alloc
<1> QED
  BY <1>1, <1>2, <1>7, <1>8, <1>9 DEF Next

(* Until sgc_cleanup each step keeps the rest of the invariant.            *)
LEMMA FirstKept ==
    ASSUME TypeOK, TypeOK', FirstInv, FirstLife', [Next]_vars
    PROVE  FirstInv'
<1> USE DEF FirstInv
<1>a. Place \subseteq Nat \ {0} /\ Prealloc \in Nat /\ HeaderBytes \in Nat
  BY AllocatorAssumption
<1>b. \A i \in Class : MemBytes(i) \in Nat \ {0} /\ MemWords(i) \in Nat \ {0}
  BY BlocksHold, MemBytesAssumption
<1>c. \A i \in Pool : AreaWords \in Nat \ {0}
  BY AreaSizes
<1>d. Pool \subseteq Class /\ 0 \in Pool
  BY AllocatorAssumption DEF Pool, Class
<1>e. AreaWords \in Nat \ {0} /\ AreaWords * Word \in Nat /\ AreaWords <= AreaWords * Word
  BY <1>c, <1>d DEF Word
<1>f. \A a \in FreeAreas \cup Owned : a \in Nat
  BY <1>a, ListsInPlace
<1>g. \A v \in freeVars \cup {b \in inUse : b.class \notin Pool} : v.at \in Nat
  BY DEF TypeOK
<1>h. low \in Nat /\ high \in Nat /\ high' \in Nat
  BY <1>a DEF TypeOK
<1>1. ASSUME NEW at \in Place, BootExpand(at)
      PROVE  FirstInv'
  <2>1. Malloc(at, AreaWords) /\ RegisterInterval(at, AreaWords * Word)
    BY <1>1 DEF BootExpand, NewArea
  <2>2. high <= high' /\ at + AreaWords <= high'
    BY <1>a, <1>e, <1>h, <2>1 DEF RegisterInterval
  <2>3. UNCHANGED <<memAreas, freeMems, freeVars, inUse>>
        /\ link' = [link EXCEPT ![at] = freeArea] /\ freeArea' = at
    BY <1>1 DEF BootExpand
  <2>4. /\ \A r \in regions : r.at # at
        /\ regions' = regions \cup {Area(at)}
        /\ \A r, s \in regions' : r # s => r.at + r.words <= s.at \/ s.at + s.words <= r.at
        /\ \A r \in regions' : r.at \in Place /\ r.words \in Nat \ {0}
        /\ at \notin FreeAreas \cup Owned
        /\ \A v \in freeVars \cup {b \in inUse : b.class \notin Pool} : v.at # at
    BY <1>e, <2>1, MallocApart DEF Area
  <2>5. /\ FreeAreas' = FreeAreas \cup {at} /\ Owned' = Owned
        /\ \A j \in Pool : Areas(j)' = Areas(j)
        /\ LinkInv'
    BY <2>3, <2>4, AreaFreed
  <2>6. RegionInv'
    <3>1. \A a \in FreeAreas' \cup Owned' : Area(a) \in regions' /\ a + AreaWords <= high'
      BY <1>e, <1>f, <1>h, <2>2, <2>4, <2>5 DEF RegionInv
    <3>2. \A r \in regions' : r.words > 0
      BY <2>4
    <3>3. \A j \in Pool : at \notin Areas(j)
      BY <2>4 DEF Owned
    <3>4. /\ \A j \in Pool : Areas(j)' \cap FreeAreas' = {}
          /\ \A j, k \in Pool : j # k => Areas(j)' \cap Areas(k)' = {}
      BY <2>5, <3>3 DEF RegionInv
    <3> QED
      BY <2>4, <3>1, <3>2, <3>4 DEF RegionInv, Area
  <2>7. MemInv'
    BY <2>3, <2>5 DEF MemInv, IsCut
  <2>8. VarInv'
    <3>1. \A v \in freeVars \cup {b \in inUse : b.class \notin Pool} :
             Home(v) \in regions' /\ v.at < high' /\ v.at \notin FreeAreas' \cup Owned'
      BY <1>g, <1>h, <2>2, <2>4, <2>5 DEF VarInv
    <3> QED
      BY <2>3, <3>1 DEF VarInv, Home
  <2> QED
    BY <2>3, <2>5, <2>6, <2>7, <2>8 DEF SizeInv
<1>2. CASE BootFails \/ BootDone \/ Restart \/ UNCHANGED vars
  <2>1. UNCHANGED <<heaps, system>>
    BY <1>2 DEF BootFails, BootDone, Restart, vars
  <2>2. /\ UNCHANGED <<freeMems, freeVars, inUse, regions, low, high>> /\ FreeAreas' = FreeAreas
        /\ Owned' = Owned /\ (\A j \in Pool : Areas(j)' = Areas(j)) /\ LinkInv'
    BY <2>1, ListsKept DEF heaps, system
  <2> QED
    BY <2>2 DEF RegionInv, MemInv, VarInv, SizeInv, Area, Home, IsCut
<1>3. ASSUME NEW bytes \in Request, NEW at, AllocMem(bytes, at)
      PROVE  FirstInv'
  <2> DEFINE i == SizeIndex(bytes)
  <2>1. i \in Class /\ bytes <= MemBytes(i) /\ bytes \in Nat
    BY ClassFound
  <2> HIDE DEF i
  <2>2. /\ i \in Pool /\ at \in freeMems[i]
        /\ freeMems' = [freeMems EXCEPT ![i] = @ \ {at}]
        /\ inUse' = inUse \cup {Block(at, i, bytes)}
        /\ UNCHANGED <<areas, freeVars, regions, low, high>>
    BY <1>3 DEF AllocMem, i, system
  <2>3. at \in Nat /\ freeMems \in [Pool -> SUBSET Nat]
    BY <2>2 DEF TypeOK
  <2>4. /\ FreeAreas' = FreeAreas /\ Owned' = Owned
        /\ (\A j \in Pool : Areas(j)' = Areas(j)) /\ LinkInv'
    BY <2>2, ListsKept
  <2>5. RegionInv'
    BY <2>2, <2>4 DEF RegionInv, Area
  <2>6. MemInv'
    <3>1. /\ \A j \in Pool, p \in Nat : IsCut(j, p)' <=> IsCut(j, p)
          /\ \A j \in Pool, p \in Nat : p \in freeMems'[j] <=> p \in freeMems[j] /\ ~(j = i /\ p = at)
          /\ \A b \in inUse' : b \in inUse \/ b = Block(at, i, bytes)
          /\ inUse \subseteq inUse' /\ Block(at, i, bytes) \in inUse'
          /\ Block(at, i, bytes).at = at /\ Block(at, i, bytes).class = i
          /\ freeMems' \in [Pool -> SUBSET Nat]
      BY <2>2, <2>3, <2>4 DEF IsCut, Block
    <3>2. \A j \in Pool : \A p \in freeMems'[j] : IsCut(j, p)'
      BY <2>3, <3>1 DEF MemInv
    <3>3. \A b \in inUse' : b.class \in Pool => IsCut(b.class, b.at)'
      BY <2>2, <2>3, <3>1 DEF MemInv, TypeOK
    <3>4. \A j \in Pool, p \in Nat : IsCut(j, p)' =>
             p \in freeMems'[j] \/ \E b \in inUse' : b.class = j /\ b.at = p
      BY <3>1 DEF MemInv
    <3>5. \A b \in inUse' : b.class \in Pool => b.at \notin freeMems'[b.class]
      BY <2>2, <2>3, <3>1 DEF MemInv, TypeOK
    <3>6. \A b, c \in inUse' : b.class = c.class /\ b.at = c.at => b = c
      BY <2>2, <2>3, <3>1 DEF MemInv, TypeOK
    <3> QED
      BY <3>2, <3>3, <3>4, <3>5, <3>6 DEF MemInv
  <2>7. VarInv'
    BY <2>2, <2>4 DEF VarInv, Home, Block
  <2> QED
    BY <2>1, <2>2, <2>4, <2>5, <2>6, <2>7 DEF SizeInv, Block
<1>4. ASSUME NEW bytes \in Request, NEW area \in Place, NEW at,
             AllocCut(bytes, area, at) \/ AllocArea(bytes, area, at)
      PROVE  FirstInv'
  <2> DEFINE i == SizeIndex(bytes)
  <2>1. i \in Class /\ bytes <= MemBytes(i) /\ bytes \in Nat
    BY ClassFound
  <2> HIDE DEF i
  <2>2. /\ i \in Pool /\ freeMems[i] = {} /\ at \in Cut(i, area)
        /\ link' = Chained(i, area) /\ memAreas' = [memAreas EXCEPT ![i] = area]
        /\ freeMems' = [freeMems EXCEPT ![i] = Cut(i, area) \ {at}]
        /\ inUse' = inUse \cup {Block(at, i, bytes)}
        /\ UNCHANGED freeVars
        /\ freeMems \in [Pool -> SUBSET Nat]
    BY <1>4 DEF AllocCut, AllocArea, Expanded, i, TypeOK
  <2>3. /\ area \in Nat /\ area \notin Owned
        /\ \A r \in regions' : r.at \in Place /\ r.words \in Nat
        /\ \A r, s \in regions' : r # s => r.at + r.words <= s.at \/ s.at + s.words <= r.at
        /\ \A r \in regions' : r.words > 0
        /\ regions \subseteq regions' /\ Area(area) \in regions' /\ area + AreaWords <= high'
        /\ high <= high'
        /\ \A v \in freeVars \cup {b \in inUse : b.class \notin Pool} : v.at # area
        /\ \/ area = freeArea /\ freeArea' = link[area]
           \/ freeArea = 0 /\ UNCHANGED freeArea
    <3>1. CASE AllocCut(bytes, area, at)
      <4>1. area = freeArea /\ freeArea' = link[area] /\ UNCHANGED <<regions, low, high>>
        BY <3>1 DEF AllocCut, system
      <4>2. area \in FreeAreas
        BY <4>1, AlongHasHead DEF FreeAreas
      <4>3. /\ Area(area) \in regions /\ area + AreaWords <= high /\ area \notin Owned
            /\ \A v \in freeVars \cup {b \in inUse : b.class \notin Pool} : v.at # area
        BY <4>2 DEF RegionInv, VarInv, Owned
      <4> QED
        BY <1>a, <1>h, <4>1, <4>3 DEF TypeOK, RegionInv
    <3>2. CASE AllocArea(bytes, area, at)
      <4>1. Malloc(area, AreaWords) /\ RegisterInterval(area, AreaWords * Word)
            /\ freeArea = 0 /\ UNCHANGED freeArea
        BY <3>2 DEF AllocArea, NewArea
      <4>2. /\ regions' = regions \cup {Area(area)}
            /\ \A r, s \in regions' : r # s => r.at + r.words <= s.at \/ s.at + s.words <= r.at
            /\ \A r \in regions' : r.at \in Place /\ r.words \in Nat \ {0}
            /\ area \notin FreeAreas \cup Owned
            /\ \A v \in freeVars \cup {b \in inUse : b.class \notin Pool} : v.at # area
        BY <1>e, <4>1, MallocApart DEF Area
      <4>3. high <= high' /\ area + AreaWords <= high'
        BY <1>a, <1>e, <1>h, <4>1 DEF RegisterInterval
      <4> QED
        BY <1>a, <4>1, <4>2, <4>3
    <3> QED
      BY <1>4, <3>1, <3>2
  <2>4. /\ FreeAreas' = FreeAreas \ {area}
        /\ \A j \in Pool : Areas(j)' = IF j = i THEN Areas(j) \cup {area} ELSE Areas(j)
        /\ LinkInv'
    BY <2>2, <2>3, AreaOwned DEF RegionInv
  <2>5. Owned' = Owned \cup {area}
    BY <2>2, <2>4 DEF Owned
  <2>6. RegionInv'
    <3>1. \A a \in FreeAreas' \cup Owned' : Area(a) \in regions' /\ a + AreaWords <= high'
      BY <1>e, <1>f, <1>h, <2>3, <2>4, <2>5 DEF RegionInv
    <3>2. \A j \in Pool : area \notin Areas(j)
      BY <2>3 DEF Owned
    <3>3. \A j \in Pool : Areas(j)' \cap FreeAreas' = {}
      BY <2>4 DEF RegionInv
    <3>4. \A j, k \in Pool : j # k => Areas(j)' \cap Areas(k)' = {}
      BY <2>4, <3>2 DEF RegionInv
    <3> QED
      BY <2>3, <3>1, <3>3, <3>4 DEF RegionInv, Area
  <2>7. \A p \in Cut(i, area) : p \in Nat
    BY <2>2, <2>3, CutsFit
  <2>8. \A j \in Pool : \A p : IsCut(j, p)' <=> IsCut(j, p) \/ (j = i /\ p \in Cut(i, area))
    BY <2>4 DEF IsCut
  <2>9. MemInv'
    <3>1. \A j \in Pool : \A p \in freeMems'[j] : IsCut(j, p)'
      BY <2>2, <2>8 DEF MemInv
    <3>2. \A b \in inUse' : b.class \in Pool => IsCut(b.class, b.at)'
      BY <2>2, <2>8 DEF MemInv, Block
    <3>3. \A j \in Pool, p \in Nat : IsCut(j, p)' =>
             p \in freeMems'[j] \/ \E b \in inUse' : b.class = j /\ b.at = p
      <4>1. /\ \A j \in Pool, p \in Nat : p \in freeMems[j] => p \in freeMems'[j]
            /\ \A p \in Cut(i, area) : p \in freeMems'[i] \/ p = at
            /\ inUse \subseteq inUse' /\ Block(at, i, bytes) \in inUse'
        BY <2>2
      <4>2. Block(at, i, bytes).at = at /\ Block(at, i, bytes).class = i
        BY DEF Block
      <4> QED
        BY <2>8, <4>1, <4>2 DEF MemInv
    <3>4. ASSUME NEW b \in inUse, b.class = i
          PROVE  b.at \notin Cut(i, area)
      <4>1. PICK a \in Areas(i) : b.at \in Cut(i, a)
        BY <2>2, <3>4 DEF MemInv, IsCut
      <4>2. a # area /\ a \in Owned /\ a \in Nat
        BY <1>f, <2>2, <2>3 DEF Owned
      <4>3. Area(a) \in regions' /\ Area(a) # Area(area)
        BY <2>3, <4>2 DEF RegionInv, Area
      <4>4. a + AreaWords <= area \/ area + AreaWords <= a
        BY <2>3, <4>3 DEF Area
      <4>5. /\ b.at \in Nat /\ a < b.at /\ b.at + MemWords(i) <= a + 1 + DataWords(i)
            /\ b.at \in Cut(i, area) => area < b.at /\ b.at + MemWords(i) <= area + 1 + DataWords(i)
        BY <2>2, <2>3, <4>1, <4>2, CutsFit
      <4> QED
        BY <2>2, <2>3, <4>2, <4>4, <4>5, AreaSizes
    <3>5. \A b \in inUse' : b.class \in Pool => b.at \notin freeMems'[b.class]
      BY <2>2, <3>4 DEF MemInv, Block
    <3>6. \A b, c \in inUse' : b.class = c.class /\ b.at = c.at => b = c
      BY <2>2, <3>4 DEF MemInv, Block
    <3> QED
      BY <3>1, <3>2, <3>3, <3>5, <3>6 DEF MemInv
  <2>10. VarInv'
    <3>1. {b \in inUse' : b.class \notin Pool} = {b \in inUse : b.class \notin Pool}
      BY <2>2 DEF Block
    <3>2. \A v \in freeVars \cup {b \in inUse : b.class \notin Pool} :
             Home(v) \in regions' /\ v.at < high' /\ v.at \notin FreeAreas' \cup Owned'
      BY <1>g, <1>h, <2>3, <2>4, <2>5 DEF VarInv
    <3> QED
      BY <2>2, <3>1, <3>2 DEF VarInv, Home
  <2> QED
    BY <2>1, <2>2, <2>4, <2>6, <2>9, <2>10 DEF SizeInv, Block
<1>5. ASSUME NEW bytes \in Request, NEW at, AllocVar(bytes, at)
      PROVE  FirstInv'
  <2> DEFINE i == SizeIndex(bytes)
  <2>1. i \in Class /\ bytes <= MemBytes(i) /\ bytes \in Nat
    BY ClassFound
  <2> HIDE DEF i
  <2>2. /\ i \notin Pool /\ [at |-> at, class |-> i] \in freeVars
        /\ freeVars' = freeVars \ {[at |-> at, class |-> i]}
        /\ inUse' = inUse \cup {Block(at, i, bytes)}
        /\ UNCHANGED <<areas, freeMems, regions, low, high>>
    BY <1>5 DEF AllocVar, i, system
  <2>3. /\ FreeAreas' = FreeAreas /\ Owned' = Owned
        /\ (\A j \in Pool : Areas(j)' = Areas(j)) /\ LinkInv'
    BY <2>2, ListsKept
  <2>4. RegionInv'
    BY <2>2, <2>3 DEF RegionInv, Area
  <2>5. MemInv'
    BY <2>2, <2>3 DEF MemInv, IsCut, Block, VarInv
  <2>6. VarInv'
    BY <2>2, <2>3 DEF VarInv, Home, Block
  <2> QED
    BY <2>1, <2>2, <2>3, <2>4, <2>5, <2>6 DEF SizeInv, Block
<1>6. ASSUME NEW bytes \in Request, NEW at, AllocRegion(bytes, at)
      PROVE  FirstInv'
  <2> DEFINE i == SizeIndex(bytes)
  <2>1. i \in Class /\ bytes <= MemBytes(i) /\ bytes \in Nat
    BY ClassFound
  <2> HIDE DEF i
  <2>2. /\ i \notin Pool
        /\ Malloc(at, MemWords(i)) /\ RegisterInterval(at, HeaderBytes + MemBytes(i))
        /\ inUse' = inUse \cup {Block(at, i, bytes)}
        /\ UNCHANGED <<areas, freeMems, freeVars>>
    BY <1>6 DEF AllocRegion, i
  <2>3. /\ at \in Place
        /\ regions' = regions \cup {[at |-> at, words |-> MemWords(i)]}
        /\ \A r, s \in regions' : r # s => r.at + r.words <= s.at \/ s.at + s.words <= r.at
        /\ \A r \in regions' : r.at \in Place /\ r.words \in Nat \ {0}
        /\ at \notin FreeAreas \cup Owned
        /\ \A v \in freeVars \cup {b \in inUse : b.class \notin Pool} : v.at # at
    BY <1>b, <2>1, <2>2, MallocApart
  <2>4. high <= high' /\ at < high'
    BY <1>a, <1>b, <1>h, <2>1, <2>2, <2>3 DEF RegisterInterval
  <2>5. /\ FreeAreas' = FreeAreas /\ Owned' = Owned
        /\ (\A j \in Pool : Areas(j)' = Areas(j)) /\ LinkInv'
    BY <2>2, ListsKept
  <2>6. RegionInv'
    BY <1>e, <1>f, <1>h, <2>3, <2>4, <2>5 DEF RegionInv, Area
  <2>7. MemInv'
    BY <2>2, <2>3, <2>5 DEF MemInv, IsCut, Block
  <2>8. VarInv'
    <3>1. /\ freeVars' = freeVars /\ regions \subseteq regions'
          /\ [at |-> at, words |-> MemWords(i)] \in regions'
      BY <2>2, <2>3
    <3>2. Block(at, i, bytes).at = at /\ Block(at, i, bytes).class = i
      BY DEF Block
    <3>3. \A v \in freeVars \cup {b \in inUse : b.class \notin Pool} :
             Home(v) \in regions' /\ v.at < high' /\ v.at \notin FreeAreas' \cup Owned'
      BY <1>g, <1>h, <2>4, <2>5, <3>1 DEF VarInv
    <3>4. /\ Home(Block(at, i, bytes)) \in regions'
          /\ Block(at, i, bytes).at < high'
          /\ Block(at, i, bytes).at \notin FreeAreas' \cup Owned'
      BY <2>3, <2>4, <2>5, <3>1, <3>2 DEF Home
    <3>5. \A b \in inUse' : b \in inUse \/ b = Block(at, i, bytes)
      BY <2>2
    <3>6. \A v \in freeVars' \cup {b \in inUse' : b.class \notin Pool} :
             Home(v) \in regions' /\ v.at < high' /\ v.at \notin FreeAreas' \cup Owned'
      BY <3>1, <3>3, <3>4, <3>5
    <3>7. \A b, c \in inUse' : b.class \notin Pool /\ c.class \notin Pool /\ b.at = c.at => b = c
      BY <2>3, <3>2, <3>5 DEF VarInv
    <3>8. \A v \in freeVars', b \in inUse' : b.class \notin Pool => b.at # v.at
      BY <2>3, <3>1, <3>2, <3>5 DEF VarInv
    <3> QED
      BY <3>1, <3>6, <3>7, <3>8 DEF VarInv, Home
  <2> QED
    BY <2>1, <2>2, <2>5, <2>6, <2>7, <2>8 DEF SizeInv, Block
<1>7. ASSUME NEW b \in inUse, Free(b)
      PROVE  FirstInv'
  <2>1. /\ inUse' = inUse \ {b}
        /\ UNCHANGED <<areas, regions, low, high>>
        /\ b \in [at : Nat, class : Class, bytes : Request]
    BY <1>7 DEF Free, TypeOK, system
  <2>2. /\ FreeAreas' = FreeAreas /\ Owned' = Owned
        /\ (\A j \in Pool : Areas(j)' = Areas(j)) /\ LinkInv'
    BY <2>1, ListsKept
  <2>3. RegionInv'
    BY <2>1, <2>2 DEF RegionInv, Area
  <2>4. CASE b.class \in Pool
    <3>1. freeMems' = [freeMems EXCEPT ![b.class] = @ \cup {b.at}] /\ UNCHANGED freeVars
      BY <1>7, <2>4 DEF Free
    <3>2. MemInv'
      BY <2>1, <2>2, <2>4, <3>1 DEF MemInv, IsCut, TypeOK
    <3>3. VarInv'
      BY <2>1, <2>2, <3>1 DEF VarInv, Home
    <3> QED
      BY <2>1, <2>2, <2>3, <3>2, <3>3 DEF SizeInv
  <2>5. CASE b.class \notin Pool
    <3>1. freeVars' = freeVars \cup {[at |-> b.at, class |-> b.class]} /\ UNCHANGED freeMems
      BY <1>7, <2>5 DEF Free
    <3>2. MemInv'
      BY <2>1, <2>2, <2>5, <3>1 DEF MemInv, IsCut
    <3>3. VarInv'
      BY <2>1, <2>2, <2>5, <3>1 DEF VarInv, Home
    <3> QED
      BY <2>1, <2>2, <2>3, <3>2, <3>3 DEF SizeInv
  <2> QED
    BY <2>4, <2>5
<1>8. ~ Cleanup
  BY DEF Cleanup, FirstLife
<1> HIDE DEF FirstInv
<1>9. ASSUME NEW bytes \in Request, Alloc(bytes)
      PROVE  FirstInv'
  BY <1>3, <1>4, <1>5, <1>6, <1>9 DEF Alloc
<1> QED
  BY <1>1, <1>2, <1>7, <1>8, <1>9 DEF Next

(* Each step keeps the invariant.                                          *)
LEMMA IInvPreserved ==
    ASSUME IInv, [Next]_vars
    PROVE  IInv'
<1>1. TypeOK /\ TypeOK'
  BY TypeKept DEF IInv
<1>2. FirstLife' => FirstLife
  BY DEF FirstLife, Next, Alloc, BootExpand, BootFails, BootDone, AllocMem, AllocCut, AllocArea,
         Expanded, AllocVar, AllocRegion, Free, Cleanup, Restart, vars
<1>3. ASSUME FirstLife'
      PROVE  FirstInv'
  <2>1. FirstInv
    BY <1>2, <1>3 DEF IInv
  <2> QED
    BY <1>1, <1>3, <2>1, FirstKept
<1> QED
  BY <1>1, <1>3 DEF IInv
(* sgc_init begins in the invariant.                                       *)
LEMMA IInvInitially == Init => IInv
<1> SUFFICES ASSUME Init
             PROVE  IInv
  OBVIOUS
<1> USE DEF Init
<1>1. FreeAreas = {} /\ Owned = {} /\ \A i \in Pool : Areas(i) = {} /\ freeMems[i] = {}
  BY AlongNothing DEF FreeAreas, Areas, Owned
<1>2. TypeOK
  BY AllocatorAssumption DEF TypeOK
<1>3. RegionInv
  BY <1>1 DEF RegionInv
<1>4. MemInv
  BY <1>1 DEF MemInv, IsCut
<1>5. VarInv
  BY DEF VarInv
<1>6. LinkInv
  BY <1>1 DEF LinkInv, Ends, FreeAreas, Areas
<1> QED
  BY <1>2, <1>3, <1>4, <1>5, <1>6 DEF IInv, FirstInv, SizeInv

LEMMA Invariant == Spec => []IInv
  BY IInvInitially, IInvPreserved, PTL DEF Spec

(* Every variable has its type.                                            *)
THEOREM TypeCorrect == Spec => []TypeOK
<1>1. IInv => TypeOK
  BY DEF IInv
<1> QED
  BY <1>1, Invariant, PTL
-----------------------------------------------------------------------------
(* A block is in use, or free in an area, or free with its own region.     *)
LEMMA BlockKinds ==
    ASSUME NEW b \in Blocks
    PROVE  \/ b \in inUse
           \/ \E i \in Pool : \E at \in freeMems[i] : b = Block(at, i, MemBytes(i))
           \/ \E v \in freeVars : b = Block(v.at, v.class, MemBytes(v.class))
<1>1. ASSUME b \in UNION {{Block(at, i, MemBytes(i)) : at \in freeMems[i]} : i \in Pool}
      PROVE  \E i \in Pool : \E at \in freeMems[i] : b = Block(at, i, MemBytes(i))
  <2>1. PICK i \in Pool : b \in {Block(at, i, MemBytes(i)) : at \in freeMems[i]}
    BY <1>1
  <2> QED
    BY <2>1
<1>2. ASSUME b \in {Block(v.at, v.class, MemBytes(v.class)) : v \in freeVars}
      PROVE  \E v \in freeVars : b = Block(v.at, v.class, MemBytes(v.class))
  BY <1>2
<1> QED
  BY <1>1, <1>2 DEF Blocks, FreeBlocks

(* What is written to a block fits it; a block of a class that is cut from *)
(* areas lies in one of them behind its link, any other in its region.     *)
LEMMA BlockLies ==
    ASSUME TypeOK, FirstInv, NEW b \in Blocks
    PROVE  /\ b.at \in Nat /\ b.class \in Class /\ MemWords(b.class) \in Nat \ {0}
           /\ Words(b) \subseteq b.at .. (b.at + MemWords(b.class) - 1)
           /\ b.class \in Pool => \E a \in Areas(b.class) :
                  /\ b.at \in Cut(b.class, a) /\ a \in Nat /\ Area(a) \in regions
                  /\ a < b.at /\ b.at + MemWords(b.class) <= a + AreaWords
                  /\ a + AreaWords <= high
           /\ b.class \notin Pool => /\ Home(b) \in regions /\ b.at < high
                                     /\ b.at \notin FreeAreas \cup Owned
<1> USE DEF FirstInv
<1> DEFINE Placed ==
          /\ b.at \in Nat /\ b.class \in Class /\ b.bytes \in Nat /\ b.bytes <= MemBytes(b.class)
          /\ b.class \in Pool => IsCut(b.class, b.at)
          /\ b.class \notin Pool => /\ Home(b) \in regions /\ b.at < high
                                    /\ b.at \notin FreeAreas \cup Owned
<1>1. Placed
  <2>1. CASE b \in inUse
    <3>1. b.at \in Nat /\ b.class \in Class /\ b.bytes \in Request
      BY <2>1 DEF TypeOK
    <3>2. b.bytes \in Nat
      BY <3>1, ClassFound
    <3> QED
      BY <2>1, <3>1, <3>2 DEF SizeInv, MemInv, VarInv
  <2>2. ASSUME NEW i \in Pool, NEW at \in freeMems[i], b = Block(at, i, MemBytes(i))
        PROVE  Placed
    <3>1. b.at = at /\ b.class = i /\ b.bytes = MemBytes(i)
      BY <2>2 DEF Block
    <3>2. at \in Nat /\ i \in Class /\ MemBytes(i) \in Nat /\ IsCut(i, at)
      BY AreaSizes, MemBytesAssumption DEF TypeOK, MemInv
    <3> QED
      BY <3>1, <3>2
  <2>3. ASSUME NEW v \in freeVars, b = Block(v.at, v.class, MemBytes(v.class))
        PROVE  Placed
    <3>1. b.at = v.at /\ b.class = v.class /\ b.bytes = MemBytes(v.class) /\ Home(b) = Home(v)
      BY <2>3 DEF Block, Home
    <3>2. v.at \in Nat /\ v.class \in Class \ Pool
      BY DEF TypeOK
    <3>3. MemBytes(v.class) \in Nat
      BY <3>2, MemBytesAssumption
    <3>4. Home(v) \in regions /\ v.at < high /\ v.at \notin FreeAreas \cup Owned
      BY DEF VarInv
    <3> QED
      BY <3>1, <3>2, <3>3, <3>4
  <2> QED
    <3> HIDE DEF Placed
    <3> QED
      BY <2>1, <2>2, <2>3, BlockKinds
<1>2. MemWords(b.class) \in Nat \ {0} /\ InWords(HeaderBytes + b.bytes) \in Nat
      /\ InWords(HeaderBytes + b.bytes) <= MemWords(b.class)
  BY <1>1, BlocksHold
<1>3. Words(b) \subseteq b.at .. (b.at + MemWords(b.class) - 1)
  BY <1>1, <1>2 DEF Words
<1>4. ASSUME b.class \in Pool
      PROVE  \E a \in Areas(b.class) :
                  /\ b.at \in Cut(b.class, a) /\ a \in Nat /\ Area(a) \in regions
                  /\ a < b.at /\ b.at + MemWords(b.class) <= a + AreaWords
                  /\ a + AreaWords <= high
  <2>1. PICK a \in Areas(b.class) : b.at \in Cut(b.class, a)
    BY <1>1, <1>4 DEF IsCut
  <2>2. a \in Owned /\ a \in Nat
    <3>1. a \in Owned
      BY <1>4 DEF Owned
    <3> QED
      BY <3>1, ListsInPlace, AllocatorAssumption
  <2>3. Area(a) \in regions /\ a + AreaWords <= high
    BY <2>2 DEF RegionInv
  <2>4. a < b.at /\ b.at + MemWords(b.class) <= a + 1 + DataWords(b.class)
    BY <1>4, <2>1, <2>2, CutsFit
  <2>5. b.at + MemWords(b.class) <= a + AreaWords
    BY <1>1, <1>2, <1>4, <2>2, <2>4, AreaSizes
  <2> QED
    BY <2>1, <2>2, <2>3, <2>4, <2>5
<1> QED
  BY <1>1, <1>2, <1>3, <1>4

(* Until sgc_cleanup no block is there twice, in use or free.              *)
LEMMA OneBlockAtAPlace ==
    ASSUME TypeOK, FirstInv, NEW b \in Blocks, NEW c \in Blocks, b.at = c.at, b.class = c.class
    PROVE  b = c
<1> USE DEF FirstInv
<1>1. \A d \in Blocks : \/ d \in inUse
                        \/ /\ d.class \in Pool /\ d.at \in freeMems[d.class]
                           /\ d = Block(d.at, d.class, MemBytes(d.class))
                        \/ \E v \in freeVars : /\ d.at = v.at /\ d.class = v.class /\ v.class \notin Pool
                                               /\ d = Block(d.at, d.class, MemBytes(d.class))
  <2> SUFFICES ASSUME NEW d \in Blocks, d \notin inUse
               PROVE  \/ /\ d.class \in Pool /\ d.at \in freeMems[d.class]
                         /\ d = Block(d.at, d.class, MemBytes(d.class))
                      \/ \E v \in freeVars : /\ d.at = v.at /\ d.class = v.class /\ v.class \notin Pool
                                             /\ d = Block(d.at, d.class, MemBytes(d.class))
    OBVIOUS
  <2>1. CASE \E i \in Pool : \E at \in freeMems[i] : d = Block(at, i, MemBytes(i))
    BY <2>1 DEF Block
  <2>2. CASE \E v \in freeVars : d = Block(v.at, v.class, MemBytes(v.class))
    <3>1. PICK v \in freeVars : d = Block(v.at, v.class, MemBytes(v.class))
      BY <2>2
    <3>2. d.at = v.at /\ d.class = v.class /\ v.class \notin Pool
      BY <3>1 DEF Block, TypeOK
    <3> QED
      BY <3>1, <3>2
  <2> QED
    BY <2>1, <2>2, BlockKinds
<1>2. CASE b \in inUse /\ c \in inUse
  BY <1>2 DEF MemInv
<1>3. CASE b \in inUse /\ c \notin inUse
  BY <1>1, <1>3 DEF MemInv, VarInv
<1>4. CASE b \notin inUse /\ c \in inUse
  BY <1>1, <1>4 DEF MemInv, VarInv
<1>5. CASE b \notin inUse /\ c \notin inUse
  BY <1>1, <1>5
<1> QED
  BY <1>2, <1>3, <1>4, <1>5

(* Until sgc_cleanup two blocks are apart.                                 *)
LEMMA TwoBlocksApart ==
    ASSUME TypeOK, FirstInv, NEW b \in Blocks, NEW c \in Blocks, b # c
    PROVE  b.at + MemWords(b.class) <= c.at \/ c.at + MemWords(c.class) <= b.at
<1>1. \A d \in Blocks : d.at \in Nat /\ MemWords(d.class) \in Nat \ {0}
  BY BlockLies
<1>2. \A r, s \in regions : r # s => r.at + r.words <= s.at \/ s.at + s.words <= r.at
  BY DEF FirstInv, RegionInv
<1>3. ASSUME NEW d \in Blocks, NEW e \in Blocks, d # e, d.class \in Pool, e.class \in Pool
      PROVE  d.at + MemWords(d.class) <= e.at \/ e.at + MemWords(e.class) <= d.at
  <2>1. PICK x \in Areas(d.class) :
             /\ d.at \in Cut(d.class, x) /\ x \in Nat /\ Area(x) \in regions
             /\ x < d.at /\ d.at + MemWords(d.class) <= x + AreaWords
    BY <1>3, BlockLies
  <2>2. PICK y \in Areas(e.class) :
             /\ e.at \in Cut(e.class, y) /\ y \in Nat /\ Area(y) \in regions
             /\ y < e.at /\ e.at + MemWords(e.class) <= y + AreaWords
    BY <1>3, BlockLies
  <2>3. CASE x = y
    <3>1. d.class = e.class
      BY <1>3, <2>1, <2>2, <2>3 DEF FirstInv, RegionInv
    <3>2. d.at # e.at
      BY <1>3, <3>1, OneBlockAtAPlace
    <3> QED
      BY <1>3, <2>1, <2>2, <2>3, <3>1, <3>2, CutsApart
  <2>4. CASE x # y
    <3>1. x + AreaWords <= y \/ y + AreaWords <= x
      BY <1>2, <2>1, <2>2, <2>4 DEF Area
    <3> QED
      BY <1>1, <1>3, <2>1, <2>2, <3>1, AreaSizes
  <2> QED
    BY <2>3, <2>4
<1>4. ASSUME NEW d \in Blocks, NEW e \in Blocks, d.class \in Pool, e.class \notin Pool
      PROVE  d.at + MemWords(d.class) <= e.at \/ e.at + MemWords(e.class) <= d.at
  <2>1. PICK x \in Areas(d.class) :
             /\ x \in Nat /\ Area(x) \in regions
             /\ x < d.at /\ d.at + MemWords(d.class) <= x + AreaWords
    BY <1>4, BlockLies
  <2>2. x # e.at /\ Home(e) \in regions
    BY <1>4, BlockLies DEF Owned
  <2>3. x + AreaWords <= e.at \/ e.at + MemWords(e.class) <= x
    BY <1>2, <2>1, <2>2 DEF Area, Home
  <2> QED
    BY <1>1, <1>4, <2>1, <2>3, AreaSizes
<1>5. ASSUME b.class \notin Pool, c.class \notin Pool
      PROVE  b.at + MemWords(b.class) <= c.at \/ c.at + MemWords(c.class) <= b.at
  <2>1. Home(b) \in regions /\ Home(c) \in regions
    BY <1>5, BlockLies
  <2>2. CASE Home(b) # Home(c)
    BY <1>2, <2>1, <2>2 DEF Home
  <2>3. CASE Home(b) = Home(c)
    <3>1. b.at = c.at
      BY <2>3 DEF Home
    <3> QED
      BY <1>5, <3>1, BlockKinds DEF FirstInv, VarInv, TypeOK, Block
  <2> QED
    BY <2>2, <2>3
<1> QED
  BY <1>3, <1>4, <1>5

(* The user of a block and the allocator write to it alone, until          *)
(* sgc_cleanup hands out what is in use a second time.                     *)
THEOREM BlocksDoNotOverlap == Spec => []BlocksApart
<1>1. ASSUME TypeOK, FirstInv, FirstLife
      PROVE  BlocksApart
  <2> SUFFICES ASSUME NEW b \in Blocks
               PROVE  /\ \A c \in Blocks \ {b} : Words(b) \cap Words(c) = {}
                      /\ \A i \in Pool : Areas(i) \cap Words(b) = {}
                      /\ \A a \in FreeAreas : (a .. (a + AreaWords - 1)) \cap Words(b) = {}
                      /\ \E r \in regions : Words(b) \subseteq r.at .. (r.at + r.words - 1)
    BY <1>1 DEF BlocksApart
  <2>1. \A d \in Blocks : /\ d.at \in Nat /\ MemWords(d.class) \in Nat \ {0}
                         /\ Words(d) \subseteq d.at .. (d.at + MemWords(d.class) - 1)
    BY <1>1, BlockLies
  <2>2. ASSUME NEW c \in Blocks \ {b}
        PROVE  Words(b) \cap Words(c) = {}
    <3>1. b.at + MemWords(b.class) <= c.at \/ c.at + MemWords(c.class) <= b.at
      BY <1>1, TwoBlocksApart
    <3> QED
      BY <2>1, <3>1
  <2>3. PICK r \in regions : /\ r.at <= b.at /\ b.at + MemWords(b.class) <= r.at + r.words
                             /\ \A a \in Owned : a # r.at \/ a < b.at
                             /\ \A a \in FreeAreas : a # r.at
    <3>1. CASE b.class \in Pool
      <4>1. PICK a \in Areas(b.class) : /\ a \in Nat /\ Area(a) \in regions /\ a < b.at
                                        /\ b.at + MemWords(b.class) <= a + AreaWords
        BY <1>1, <3>1, BlockLies
      <4>2. a \notin FreeAreas
        BY <1>1, <3>1, <4>1 DEF FirstInv, RegionInv
      <4>3. Area(a).at = a /\ Area(a).words = AreaWords
        BY DEF Area
      <4> QED
        BY <2>1, <4>1, <4>2, <4>3
    <3>2. CASE b.class \notin Pool
      <4>1. Home(b) \in regions /\ b.at \notin FreeAreas \cup Owned
        BY <1>1, <3>2, BlockLies
      <4>2. Home(b).at = b.at /\ Home(b).words = MemWords(b.class)
        BY DEF Home
      <4> QED
        BY <2>1, <4>1, <4>2
    <3> QED
      BY <3>1, <3>2
  <2>4. r.at \in Nat /\ r.words \in Nat
    BY <1>1, AllocatorAssumption DEF TypeOK
  <2>5. \A a \in FreeAreas \cup Owned :
           /\ a \in Nat /\ AreaWords \in Nat \ {0}
           /\ a = r.at \/ a + AreaWords <= r.at \/ r.at + r.words <= a
    <3> SUFFICES ASSUME NEW a \in FreeAreas \cup Owned
                 PROVE  /\ a \in Nat /\ AreaWords \in Nat \ {0}
                        /\ a = r.at \/ a + AreaWords <= r.at \/ r.at + r.words <= a
      OBVIOUS
    <3>1. Area(a) \in regions /\ Area(a).at = a /\ Area(a).words = AreaWords
      BY <1>1 DEF FirstInv, RegionInv, Area
    <3>2. a \in Nat /\ AreaWords \in Nat \ {0}
      <4>1. a \in Place /\ Place \subseteq Nat /\ AreaWords \in Nat
        BY <1>1, ListsInPlace, AllocatorAssumption
      <4>2. Area(a).words > 0
        BY <1>1, <3>1 DEF FirstInv, RegionInv
      <4> QED
        BY <3>1, <4>1, <4>2
    <3> QED
      BY <1>1, <3>1, <3>2 DEF FirstInv, RegionInv
  <2>6. ASSUME NEW i \in Pool
        PROVE  Areas(i) \cap Words(b) = {}
    <3>1. Areas(i) \subseteq Owned
      BY DEF Owned
    <3> QED
      BY <2>1, <2>3, <2>4, <2>5, <3>1
  <2>7. ASSUME NEW a \in FreeAreas
        PROVE  (a .. (a + AreaWords - 1)) \cap Words(b) = {}
    BY <2>1, <2>3, <2>4, <2>5
  <2>8. Words(b) \subseteq r.at .. (r.at + r.words - 1)
    BY <2>1, <2>3, <2>4
  <2> QED
    BY <2>2, <2>6, <2>7, <2>8
<1>2. IInv => BlocksApart
  BY <1>1 DEF IInv, BlocksApart
<1> QED
  BY <1>2, Invariant, PTL

(* The collector recognises each object in use, if it lies above the area  *)
(* that came first.                                                        *)
THEOREM UsedBlocksAreValid == Spec => []BlocksAreValid
<1>1. ASSUME TypeOK, FirstInv, FirstLife
      PROVE  BlocksAreValid
  <2> SUFFICES ASSUME NEW b \in inUse,
                      NEW color \in 0..(ColorMax - 1), NEW flags \in 0..(FlagsMax - 1)
               PROVE  IsValid(b.at, [size |-> b.class, color |-> color,
                                     flags |-> flags, dummy |-> TRUE]) <=> low <= b.at
    BY DEF BlocksAreValid
  <2>1. b \in Blocks
    BY DEF Blocks
  <2>2. b.class <= SizeCount /\ color < ColorMax /\ color < FlagsMax
    <3>1. b.class \in Class /\ SizeCount \in Nat
      BY <1>1, AllocatorAssumption DEF TypeOK
    <3> QED
      BY <3>1 DEF Class, ColorMax, FlagsMax
  <2>3. InsideInterval(b.at) <=> low <= b.at
    <3>1. b.at \in Nat /\ high \in Nat /\ MemWords(b.class) \in Nat \ {0}
      BY <1>1, <2>1, BlockLies DEF TypeOK
    <3>2. b.at < high
      <4>1. CASE b.class \in Pool
        <5>1. PICK a \in Nat : b.at + MemWords(b.class) <= a + AreaWords /\ a + AreaWords <= high
          BY <1>1, <2>1, <4>1, BlockLies
        <5> QED
          BY <3>1, <4>1, <5>1, AreaSizes
      <4>2. CASE b.class \notin Pool
        BY <1>1, <2>1, <4>2, BlockLies
      <4> QED
        BY <4>1, <4>2
    <3> QED
      BY <3>2 DEF InsideInterval
  <2>4. b.class \in Pool => MemHeapValid(b.class, b.at)
    <3> HAVE b.class \in Pool
    <3>1. Areas(b.class) \subseteq Nat /\ b.at \in Nat
      BY <1>1, ListsInPlace, AllocatorAssumption DEF TypeOK
    <3>2. \E a \in Areas(b.class) : b.at \in Cut(b.class, a)
      BY <1>1, <2>1, BlockLies
    <3> QED
      BY <3>1, <3>2, CutsAreValid
  <2> QED
    BY <2>2, <2>3, <2>4 DEF IsValid
<1>2. IInv => BlocksAreValid
  BY <1>1 DEF IInv, BlocksAreValid
<1> QED
  BY <1>2, Invariant, PTL

(* The collector takes no word for a pointer to a block that does not      *)
(* point to the start of one.                                              *)
THEOREM OnlyBlocksPass == Spec => []OnlyBlocksAreValid
<1>1. ASSUME TypeOK, FirstInv, FirstLife
      PROVE  OnlyBlocksAreValid
  <2> SUFFICES ASSUME NEW i \in Pool, NEW p \in 0..high, MemHeapValid(i, p)
               PROVE  \E b \in Blocks : b.at = p /\ b.class = i
    BY DEF OnlyBlocksAreValid
  <2>1. Areas(i) \subseteq Nat /\ p \in Nat
    <3>1. Areas(i) \subseteq Place /\ high \in Nat
      BY <1>1, ListsInPlace DEF TypeOK
    <3>2. Place \subseteq Nat
      BY AllocatorAssumption
    <3>3. p \in 0..high
      OBVIOUS
    <3>4. p \in Nat
      BY <3>1, <3>3
    <3> QED
      BY <3>1, <3>2, <3>4, Zenon
  <2>2. IsCut(i, p)
    BY <2>1, CutsAreValid DEF IsCut
  <2>3. CASE \E b \in inUse : b.class = i /\ b.at = p
    BY <2>3 DEF Blocks
  <2>4. CASE p \in freeMems[i]
    <3>1. Block(p, i, MemBytes(i)) \in Blocks
      BY <2>4 DEF Blocks, FreeBlocks
    <3> QED
      BY <3>1 DEF Block
  <2> QED
    BY <1>1, <2>1, <2>2, <2>3, <2>4 DEF FirstInv, MemInv
<1>2. IInv => OnlyBlocksAreValid
  BY <1>1 DEF IInv, OnlyBlocksAreValid
<1> QED
  BY <1>2, Invariant, PTL

(* Until sgc_cleanup the walks along the links of areas come to their end: *)
(* sgc_mem_heap_expand and sgc_area_heap_free never link an area that is   *)
(* on a list already.                                                      *)
THEOREM WalksEndAtFirst == Spec => [](FirstLife => WalksEnd)
<1>1. IInv => (FirstLife => WalksEnd)
  BY DEF IInv, FirstInv, LinkInv, Ends, WalksEnd, WalkEnds
<1> QED
  BY <1>1, Invariant, PTL
=============================================================================
