------------------------- MODULE SgcMessagesProofs -------------------------
(***************************************************************************)
(* Proofs about SgcMessages.  The invariant says what each thread holds at *)
(* each place, and, until two threads meet at a stack, which cells are on  *)
(* each stack: they, the cells in the hands of the threads and the free    *)
(* ones are all the cells, and none is met twice.                          *)
(***************************************************************************)
EXTENDS SgcMessages, SequenceTheorems, SgcWalks

Of(q) == {q[i] : i \in 1..Len(q)}
Once(q) == \A i, j \in 1..Len(q) : q[i] = q[j] => i = j

(* The sequence q with c in front.                                         *)
Before(c, q) == <<c>> \o q

(* A sequence with one more member in front, or at the end.                *)
LEMMA BeforeIsSeq ==
    ASSUME NEW S, NEW q \in Seq(S), NEW c \in S
    PROVE  /\ Before(c, q) \in Seq(S) /\ Len(Before(c, q)) = Len(q) + 1 /\ Len(q) \in Nat
           /\ Before(c, q)[1] = c
           /\ \A i \in 1..Len(q) : Before(c, q)[i+1] = q[i] /\ q[i] \in S
BY DEF Before

LEMMA OfBefore ==
    ASSUME NEW S, NEW q \in Seq(S), NEW c \in S
    PROVE  /\ Of(Before(c, q)) = {c} \cup Of(q)
           /\ Once(Before(c, q)) <=> Once(q) /\ c \notin Of(q)
<1> DEFINE r == Before(c, q)
           n == Len(q)
           m == Len(r)
<1>1. n \in Nat /\ m = n + 1 /\ r[1] = c /\ \A i \in 1..n : r[i+1] = q[i]
  BY BeforeIsSeq
<1>2. Of(r) = {r[i] : i \in 1..m} /\ Of(q) = {q[i] : i \in 1..n}
  BY DEF Of
<1>3. /\ Once(r) <=> \A i, j \in 1..m : r[i] = r[j] => i = j
      /\ Once(q) <=> \A i, j \in 1..n : q[i] = q[j] => i = j
  BY DEF Once
<1> HIDE DEF r, n, m
<1>4. \A i \in 1..m : i # 1 => i - 1 \in 1..n /\ r[i] = q[i-1]
  <2> SUFFICES ASSUME NEW i \in 1..m, i # 1
               PROVE  i - 1 \in 1..n /\ r[i] = q[i-1]
    OBVIOUS
  <2>1. i - 1 \in 1..n /\ r[(i-1)+1] = q[i-1]
    BY <1>1
  <2> QED
    BY <1>1, <2>1
<1>5. 1 \in 1..m /\ \A i \in 1..n : i + 1 \in 1..m
  BY <1>1
<1>6. Of(r) = {c} \cup Of(q)
  <2>1. ASSUME NEW d \in Of(r)
        PROVE  d \in {c} \cup Of(q)
    BY <1>1, <1>2, <1>4, <2>1
  <2>2. ASSUME NEW d \in {c} \cup Of(q)
        PROVE  d \in Of(r)
    BY <1>1, <1>2, <1>5, <2>2
  <2> QED
    BY <2>1, <2>2
<1>7. ASSUME Once(r)
      PROVE  Once(q) /\ c \notin Of(q)
  <2>1. \A i, j \in 1..n : q[i] = q[j] => i + 1 = j + 1
    BY <1>1, <1>3, <1>5, <1>7
  <2>2. \A i \in 1..n : q[i] # c
    BY <1>1, <1>3, <1>5, <1>7
  <2> QED
    BY <1>1, <1>2, <1>3, <2>1, <2>2
<1>8. ASSUME Once(q), c \notin Of(q)
      PROVE  Once(r)
  <2> SUFFICES ASSUME NEW i \in 1..m, NEW j \in 1..m, r[i] = r[j]
               PROVE  i = j
    BY <1>3
  <2>1. CASE i # 1 /\ j # 1
    <3>1. i - 1 \in 1..n /\ j - 1 \in 1..n /\ q[i-1] = q[j-1]
      BY <1>4, <2>1
    <3>2. i - 1 = j - 1
      BY <1>3, <1>8, <3>1
    <3> QED
      BY <1>1, <3>2
  <2>2. CASE i = 1 \/ j = 1
    BY <1>1, <1>2, <1>4, <1>8, <2>2
  <2> QED
    BY <2>1, <2>2
<1> QED
  BY <1>6, <1>7, <1>8 DEF r

(* The cells s[l] of the stacks and h[t] in the hands of the threads, and  *)
(* those in f, which are not allocated: c is in one place.                 *)
InOne(c, s, h, f) ==
    \/ /\ c \in f
       /\ \A k \in Stack : c \notin Of(s[k])
       /\ \A u \in Thread : c \notin Of(h[u])
    \/ /\ c \notin f
       /\ \E l \in Stack : \A k \in Stack : c \in Of(s[k]) <=> k = l
       /\ \A u \in Thread : c \notin Of(h[u])
    \/ /\ c \notin f
       /\ \A k \in Stack : c \notin Of(s[k])
       /\ \E t \in Thread : \A u \in Thread : c \in Of(h[u]) <=> u = t

Apart(s, h, f) ==
    /\ \A k \in Stack : Once(s[k])
    /\ \A u \in Thread : Once(h[u])
    /\ \A c \in Cell : InOne(c, s, h, f)

Piles == [Stack -> Seq(Cell)]
Hands == [Thread -> Seq(Cell)]

(* Only c was moved, and it is in one place again.                         *)
LEMMA OneMoved ==
    ASSUME NEW s, NEW h, NEW f, NEW r, NEW g, NEW e, NEW c, Apart(s, h, f), InOne(c, r, g, e),
           \A k \in Stack : Once(r[k]), \A u \in Thread : Once(g[u]),
           \A d \in Cell \ {c} :
              /\ d \in e <=> d \in f
              /\ \A k \in Stack : d \in Of(r[k]) <=> d \in Of(s[k])
              /\ \A u \in Thread : d \in Of(g[u]) <=> d \in Of(h[u])
    PROVE  Apart(r, g, e)
<1> SUFFICES ASSUME NEW d \in Cell, d # c
             PROVE  InOne(d, r, g, e)
  BY Zenon DEF Apart
<1>1. /\ d \in e <=> d \in f
      /\ \A k \in Stack : d \in Of(r[k]) <=> d \in Of(s[k])
      /\ \A u \in Thread : d \in Of(g[u]) <=> d \in Of(h[u])
  BY Zenon
<1>2. InOne(d, s, h, f)
  BY Zenon DEF Apart
<1>3. CASE d \in f /\ (\A k \in Stack : d \notin Of(s[k])) /\ \A u \in Thread : d \notin Of(h[u])
  BY <1>1, <1>3, Zenon DEF InOne
<1>4. ASSUME d \notin f, \A u \in Thread : d \notin Of(h[u]),
             NEW l \in Stack, \A k \in Stack : d \in Of(s[k]) <=> k = l
      PROVE  InOne(d, r, g, e)
  <2>1. \A k \in Stack : d \in Of(r[k]) <=> k = l
    BY <1>1, <1>4, Zenon
  <2> QED
    BY <1>1, <1>4, <2>1, Zenon DEF InOne
<1>5. ASSUME d \notin f, \A k \in Stack : d \notin Of(s[k]),
             NEW t \in Thread, \A u \in Thread : d \in Of(h[u]) <=> u = t
      PROVE  InOne(d, r, g, e)
  <2>1. \A u \in Thread : d \in Of(g[u]) <=> u = t
    BY <1>1, <1>5, Zenon
  <2> QED
    BY <1>1, <1>5, <2>1, Zenon DEF InOne
<1> QED
  BY <1>2, <1>3, <1>4, <1>5, Zenon DEF InOne

(* A thread takes the top of a stack.                                      *)
LEMMA TakeApart ==
    ASSUME NEW s \in Piles, NEW h \in Hands, NEW f, Apart(s, h, f),
           NEW l \in Stack, NEW q \in Seq(Cell), NEW c \in Cell, s[l] = Before(c, q), NEW t \in Thread
    PROVE  Apart([s EXCEPT ![l] = q], [h EXCEPT ![t] = Before(c, h[t])], f)
<1> DEFINE r == [s EXCEPT ![l] = q]
           g == [h EXCEPT ![t] = Before(c, h[t])]
<1>1. /\ \A k \in Stack : k # l => r[k] = s[k]
      /\ \A u \in Thread : u # t => g[u] = h[u]
      /\ r[l] = q /\ g[t] = Before(c, h[t]) /\ h[t] \in Seq(Cell)
  BY DEF Piles, Hands
<1> HIDE DEF r, g
<1>2. Of(s[l]) = {c} \cup Of(q) /\ Once(q) /\ c \notin Of(q)
  BY OfBefore DEF Apart
<1>3. InOne(c, s, h, f) /\ c \in Of(s[l])
  BY <1>2 DEF Apart
<1>4. /\ c \notin f /\ \A k \in Stack : c \in Of(s[k]) <=> k = l
      /\ \A u \in Thread : c \notin Of(h[u])
  BY <1>3, Zenon DEF InOne
<1>5. Of(g[t]) = {c} \cup Of(h[t]) /\ Once(g[t])
  BY <1>1, <1>4, OfBefore DEF Apart
<1>6. /\ \A k \in Stack : Once(r[k])
      /\ \A u \in Thread : Once(g[u])
  BY <1>1, <1>2, <1>5, Zenon DEF Apart
<1>7. InOne(c, r, g, f)
  <2>1. \A k \in Stack : c \notin Of(r[k])
    BY <1>1, <1>2, <1>4, Zenon
  <2>2. \A u \in Thread : c \in Of(g[u]) <=> u = t
    <3>1. c \in Of(g[t])
      BY <1>5
    <3> QED
      BY <1>1, <1>4, <3>1, Zenon
  <2> QED
    BY <1>4, <2>1, <2>2, Zenon DEF InOne
<1>8. ASSUME NEW d \in Cell \ {c}
      PROVE  /\ \A k \in Stack : d \in Of(r[k]) <=> d \in Of(s[k])
             /\ \A u \in Thread : d \in Of(g[u]) <=> d \in Of(h[u])
  <2>1. (d \in Of(r[l]) <=> d \in Of(s[l])) /\ (d \in Of(g[t]) <=> d \in Of(h[t]))
    BY <1>1, <1>2, <1>5
  <2> QED
    BY <1>1, <2>1, Zenon
<1>9. Apart(r, g, f)
  BY <1>6, <1>7, <1>8, OneMoved, Zenon
<1> QED
  BY <1>9 DEF r, g

(* A thread puts the cell that it took last on a stack.                    *)
LEMMA GiveApart ==
    ASSUME NEW s \in Piles, NEW h \in Hands, NEW f, Apart(s, h, f),
           NEW l \in Stack, NEW q \in Seq(Cell), NEW c \in Cell, NEW t \in Thread,
           Of(h[t]) = {c} \cup Of(q), c \notin Of(q), Once(q)
    PROVE  Apart([s EXCEPT ![l] = Before(c, s[l])], [h EXCEPT ![t] = q], f)
<1> DEFINE r == [s EXCEPT ![l] = Before(c, s[l])]
           g == [h EXCEPT ![t] = q]
<1>1. /\ \A k \in Stack : k # l => r[k] = s[k]
      /\ \A u \in Thread : u # t => g[u] = h[u]
      /\ r[l] = Before(c, s[l]) /\ g[t] = q /\ s[l] \in Seq(Cell)
  BY DEF Piles, Hands
<1> HIDE DEF r, g
<1>2. InOne(c, s, h, f) /\ c \in Of(h[t])
  BY DEF Apart
<1>3. /\ c \notin f /\ \A k \in Stack : c \notin Of(s[k])
      /\ \A u \in Thread : c \in Of(h[u]) <=> u = t
  BY <1>2, Zenon DEF InOne
<1>4. Of(r[l]) = {c} \cup Of(s[l]) /\ Once(r[l])
  BY <1>1, <1>3, OfBefore DEF Apart
<1>5. /\ \A k \in Stack : Once(r[k])
      /\ \A u \in Thread : Once(g[u])
  BY <1>1, <1>4, Zenon DEF Apart
<1>6. InOne(c, r, g, f)
  <2>1. \A u \in Thread : c \notin Of(g[u])
    BY <1>1, <1>3, Zenon
  <2>2. \A k \in Stack : c \in Of(r[k]) <=> k = l
    <3>1. c \in Of(r[l])
      BY <1>4
    <3> QED
      BY <1>1, <1>3, <3>1, Zenon
  <2> QED
    BY <1>3, <2>1, <2>2, Zenon DEF InOne
<1>7. ASSUME NEW d \in Cell \ {c}
      PROVE  /\ \A k \in Stack : d \in Of(r[k]) <=> d \in Of(s[k])
             /\ \A u \in Thread : d \in Of(g[u]) <=> d \in Of(h[u])
  <2>1. (d \in Of(r[l]) <=> d \in Of(s[l])) /\ (d \in Of(g[t]) <=> d \in Of(h[t]))
    BY <1>1, <1>4
  <2> QED
    BY <1>1, <2>1, Zenon
<1>8. Apart(r, g, f)
  BY <1>5, <1>6, <1>7, OneMoved, Zenon
<1> QED
  BY <1>8 DEF r, g

(* A thread with empty hands allocates a cell.                             *)
LEMMA AllocApart ==
    ASSUME NEW s, NEW h \in Hands, NEW f, Apart(s, h, f), NEW t \in Thread, NEW c \in f,
           c \in Cell, h[t] = <<>>
    PROVE  Apart(s, [h EXCEPT ![t] = <<c>>], f \ {c})
<1> DEFINE g == [h EXCEPT ![t] = <<c>>]
           e == f \ {c}
<1>1. (\A u \in Thread : u # t => g[u] = h[u]) /\ g[t] = <<c>>
  BY DEF Hands
<1>2. c \notin e /\ \A d \in Cell \ {c} : d \in e <=> d \in f
  OBVIOUS
<1> HIDE DEF g, e
<1>3. Of(h[t]) = {} /\ Of(g[t]) = {c} /\ Once(g[t])
  BY <1>1 DEF Of, Once
<1>4. (\A k \in Stack : c \notin Of(s[k])) /\ \A u \in Thread : c \notin Of(h[u])
  BY Zenon DEF Apart, InOne
<1>5. \A u \in Thread : c \in Of(g[u]) <=> u = t
  <2>1. c \in Of(g[t])
    BY <1>3
  <2> QED
    BY <1>1, <1>4, <2>1, Zenon
<1>6. InOne(c, s, g, e)
  BY <1>2, <1>4, <1>5, Zenon DEF InOne
<1>7. (\A k \in Stack : Once(s[k])) /\ \A u \in Thread : Once(g[u])
  BY <1>1, <1>3, Zenon DEF Apart
<1>8. ASSUME NEW d \in Cell \ {c}
      PROVE  \A u \in Thread : d \in Of(g[u]) <=> d \in Of(h[u])
  <2>1. d \in Of(g[t]) <=> d \in Of(h[t])
    BY <1>3
  <2> QED
    BY <1>1, <2>1, Zenon
<1>9. Apart(s, g, e)
  BY <1>2, <1>6, <1>7, <1>8, OneMoved, Zenon
<1> QED
  BY <1>9 DEF g, e

(* A thread frees the one cell that it has.                                *)
LEMMA FreeApart ==
    ASSUME NEW s, NEW h \in Hands, NEW f, Apart(s, h, f), NEW t \in Thread, NEW c \in Cell,
           h[t] = <<c>>
    PROVE  Apart(s, [h EXCEPT ![t] = <<>>], f \cup {c})
<1> DEFINE g == [h EXCEPT ![t] = <<>>]
           e == f \cup {c}
<1>1. (\A u \in Thread : u # t => g[u] = h[u]) /\ g[t] = <<>>
  BY DEF Hands
<1>2. c \in e /\ \A d \in Cell \ {c} : d \in e <=> d \in f
  OBVIOUS
<1> HIDE DEF g, e
<1>3. Of(h[t]) = {c} /\ Of(g[t]) = {} /\ Once(g[t])
  BY <1>1 DEF Of, Once
<1>4. c \in Of(h[t])
  BY <1>3
<1>5. (\A k \in Stack : c \notin Of(s[k])) /\ \A u \in Thread : c \in Of(h[u]) <=> u = t
  BY <1>4, Zenon DEF Apart, InOne
<1>6. \A u \in Thread : c \notin Of(g[u])
  BY <1>1, <1>3, <1>5
<1>7. InOne(c, s, g, e)
  BY <1>2, <1>5, <1>6, Zenon DEF InOne
<1>8. (\A k \in Stack : Once(s[k])) /\ \A u \in Thread : Once(g[u])
  BY <1>1, <1>3, Zenon DEF Apart
<1>9. ASSUME NEW d \in Cell \ {c}
      PROVE  \A u \in Thread : d \in Of(g[u]) <=> d \in Of(h[u])
  <2>1. d \in Of(g[t]) <=> d \in Of(h[t])
    BY <1>3
  <2> QED
    BY <1>1, <2>1, Zenon
<1>10. Apart(s, g, e)
  BY <1>2, <1>7, <1>8, <1>9, OneMoved, Zenon
<1> QED
  BY <1>10 DEF g, e
-----------------------------------------------------------------------------
(* The cells of a stack are those of any list that its top points to.      *)
LEMMA CellsAre ==
    ASSUME NEW l \in Stack, NEW q \in Seq(Cell), Once(q), Chain(q, Len(q), top[l], link, NULL)
    PROVE  Cells(l) = q
<1> DEFINE k == Cardinality(Cell)
           n == Len(q)
           walk == Along(l)
<1>1. n \in Nat /\ q = [i \in 1..n |-> q[i]] /\ \A i \in 1..n : q[i] \in Cell /\ q[i] # NULL
  BY MessagesAssumption DEF Chain
<1>2. \A i, j \in 1..n : q[i] = q[j] => i = j
  BY DEF Once
<1>3. Chain(q, n, top[l], link, NULL)
  OBVIOUS
<1> HIDE DEF n
<1>4. k \in Nat /\ n <= k
  BY <1>1, <1>2, ChainIsShort, MessagesAssumption
<1>5. Steps(walk, k, top[l], link, NULL)
  <2>1. PICK f : Steps(f, k, top[l], link, NULL)
    BY <1>4, StepsExist
  <2> QED
    BY <2>1 DEF Steps, Along
<1>6. Cells(l) = [i \in 1..Cardinality({i \in 0..k : walk[i] # NULL}) |-> walk[i-1]]
  BY DEF Cells
<1> HIDE DEF k, walk
<1>7. \A i \in 0..k : walk[i] = IF i < n THEN q[i+1] ELSE NULL
  BY <1>1, <1>3, <1>4, <1>5, StepsAlongChain
<1>8. \A i \in 0..k : walk[i] # NULL <=> i < n
  <2> SUFFICES ASSUME NEW i \in 0..k
               PROVE  walk[i] # NULL <=> i < n
    OBVIOUS
  <2>1. CASE i < n
    <3>1. i + 1 \in 1..n
      BY <1>1, <1>4, <2>1
    <3> QED
      BY <1>1, <1>7, <2>1, <3>1
  <2>2. CASE ~ (i < n)
    BY <1>7, <2>2
  <2> QED
    BY <2>1, <2>2
<1>9. {i \in 0..k : walk[i] # NULL} = 0..(n-1)
  BY <1>1, <1>4, <1>8
<1>10. Cardinality(0..(n-1)) = n
  <2>1. 0 \in Int /\ n - 1 \in Int
    BY <1>1
  <2>2. Cardinality(0..(n-1)) = IF 0 > n - 1 THEN 0 ELSE (n - 1) - 0 + 1
    BY <2>1, FS_Interval
  <2> QED
    BY <1>1, <2>2
<1>11. ASSUME NEW i \in 1..n
       PROVE  walk[i-1] = q[i]
  <2>1. i - 1 \in 0..k /\ i - 1 < n /\ (i - 1) + 1 = i
    BY <1>1, <1>4
  <2>2. walk[i-1] = q[(i-1)+1]
    BY <1>7, <2>1
  <2> QED
    BY <2>1, <2>2
<1> QED
  BY <1>1, <1>6, <1>9, <1>10, <1>11

(* The list after the top is taken off, and with one more cell on top.     *)
LEMMA ChainBefore ==
    ASSUME NEW nxt, NEW null, NEW a, NEW S, NEW q \in Seq(S), NEW c \in S
    PROVE  Chain(Before(c, q), Len(q) + 1, a, nxt, null)
              <=> a = c /\ c # null /\ Chain(q, Len(q), nxt[c], nxt, null)
<1> DEFINE r == Before(c, q)
           n == Len(q)
<1>1. n \in Nat /\ r[1] = c /\ \A i \in 1..n : r[i+1] = q[i]
  <2>1. Len(q) \in Nat /\ r[1] = c /\ \A i \in 1..Len(q) : r[i+1] = q[i] /\ q[i] \in S
    BY BeforeIsSeq, Zenon
  <2> QED
    BY <2>1, Zenon
<1> HIDE DEF r, n
<1>2. ASSUME Chain(r, n + 1, a, nxt, null)
      PROVE  a = c /\ c # null /\ Chain(q, n, nxt[c], nxt, null)
  <2>1. a = r[1] /\ \A i \in 1..(n+1) : r[i] # null /\ nxt[r[i]] = IF i = n + 1 THEN null ELSE r[i+1]
    BY <1>1, <1>2 DEF Chain
  <2>2. 1 \in 1..(n+1) /\ c # null /\ nxt[c] = IF n = 0 THEN null ELSE q[1]
    BY <1>1, <2>1
  <2>3. ASSUME NEW i \in 1..n
        PROVE  q[i] # null /\ nxt[q[i]] = IF i = n THEN null ELSE q[i+1]
    <3>1. i + 1 \in 1..(n+1) /\ r[i+1] = q[i] /\ (i # n => i + 1 \in 1..n /\ r[(i+1)+1] = q[i+1])
      BY <1>1
    <3>2. r[i+1] # null /\ nxt[r[i+1]] = IF i + 1 = n + 1 THEN null ELSE r[(i+1)+1]
      BY <2>1, <3>1
    <3> QED
      BY <1>1, <3>1, <3>2
  <2> QED
    BY <1>1, <2>1, <2>2, <2>3 DEF Chain
<1>3. ASSUME a = c, c # null, Chain(q, n, nxt[c], nxt, null)
      PROVE  Chain(r, n + 1, a, nxt, null)
  <2>1. /\ nxt[c] = IF n = 0 THEN null ELSE q[1]
        /\ \A i \in 1..n : q[i] # null /\ nxt[q[i]] = IF i = n THEN null ELSE q[i+1]
    BY <1>3 DEF Chain
  <2>2. ASSUME NEW i \in 1..(n+1)
        PROVE  r[i] # null /\ nxt[r[i]] = IF i = n + 1 THEN null ELSE r[i+1]
    <3>1. CASE i = 1
      BY <1>1, <1>3, <2>1, <3>1
    <3>2. CASE i # 1
      <4>1. i - 1 \in 1..n /\ r[(i-1)+1] = q[i-1] /\ (i # n + 1 => i \in 1..n)
        BY <1>1, <3>2
      <4>2. r[i] = q[i-1] /\ (i # n + 1 => r[i+1] = q[i])
        BY <1>1, <4>1
      <4>3. q[i-1] # null /\ nxt[q[i-1]] = IF i - 1 = n THEN null ELSE q[(i-1)+1]
        BY <2>1, <4>1
      <4> QED
        BY <1>1, <4>1, <4>2, <4>3
    <3> QED
      BY <3>1, <3>2
  <2> QED
    BY <1>1, <1>3, <2>2 DEF Chain
<1> QED
  BY <1>2, <1>3 DEF r, n

(* The links of the cells of a list are what matters to it.                *)
LEMMA ChainFrame ==
    ASSUME NEW nxt, NEW lnk, NEW null, NEW a, NEW q, Chain(q, Len(q), a, nxt, null),
           \A c \in Of(q) : lnk[c] = nxt[c]
    PROVE  Chain(q, Len(q), a, lnk, null)
<1> DEFINE n == Len(q)
<1>1. \A i \in 1..n : lnk[q[i]] = nxt[q[i]]
  BY DEF Of
<1> HIDE DEF n
<1>2. Chain(q, n, a, nxt, null)
  BY DEF n
<1>3. Chain(q, n, a, lnk, null)
  BY <1>1, <1>2 DEF Chain
<1> QED
  BY <1>3 DEF n
-----------------------------------------------------------------------------
(* What a thread is about and has at each place, whatever the others do.   *)
Flow ==
    /\ \A t \in Client :
          /\ pc[t] \in {"idle", "popped", "crash"} \/ Popping(t) \/ Pushing(t)
          /\ Popping(t) => on[t] = "free" /\ back[t] = "popped"
          /\ Pushing(t) => on[t] = "in" /\ back[t] = "idle" /\ arg[t] \in Cell
          /\ pc[t] # "idle" => msg[t] \in begun
          /\ closing => pc[t] = "idle"
    /\ Popping(GC) => \/ on[GC] = "out" /\ back[GC] = "gotOut"
                      \/ on[GC] = "in" /\ back[GC] = "gotIn"
                      \/ on[GC] = "in" /\ back[GC] = "gotNext" /\ v1 \in Cell
                      \/ on[GC] = "free" /\ back[GC] = "release" /\ closing
    /\ Pushing(GC) => /\ arg[GC] \in Cell
                      /\ \/ on[GC] = "out" /\ back[GC] = "moved" /\ v[GC] \in Cell
                         \/ on[GC] = "free" /\ back[GC] = "again" /\ ~closing
    /\ pc[GC] # "popped"
    /\ pc[GC] \in {"gotNext", "handle"} => v1 \in Cell
    /\ pc[GC] = "moved" => v[GC] \in Cell
    /\ pc[GC] \in {"release", "done"} => closing
    /\ pc[GC] \in {"idle", "again"} => ~closing
    /\ \A t \in Thread : pc[t] = "link" => x[t] \in Cell

(* Every step keeps to it, and to the types.                               *)
LEMMA FlowPreserved ==
    ASSUME Typed, Flow, [Next]_vars
    PROVE  Typed' /\ Flow'
<1> USE MessagesAssumption DEF Typed, Flow, Popping, Pushing, Thread, Stack, Link, Place, Goto,
        Pop, Push, stacks, frames, history
<1>1. ASSUME NEW t \in Thread, First(t)
      PROVE  Typed' /\ Flow'
  BY <1>1 DEF First
<1>2. ASSUME NEW t \in Thread, Test(t)
      PROVE  Typed' /\ Flow'
  BY <1>2 DEF Test
<1>3. ASSUME NEW t \in Thread, LoadTop(t)
      PROVE  Typed' /\ Flow'
  BY <1>3 DEF LoadTop
<1>4. ASSUME NEW t \in Thread, LoadLink(t)
      PROVE  Typed' /\ Flow'
  BY <1>4 DEF LoadLink
<1>5. ASSUME NEW t \in Thread, StoreTop(t)
      PROVE  Typed' /\ Flow'
  BY <1>5 DEF StoreTop, SetTop
<1>6. ASSUME NEW t \in Thread, Join(t)
      PROVE  Typed' /\ Flow'
  BY <1>6 DEF Join
<1>7. ASSUME NEW t \in Thread, Publish(t)
      PROVE  Typed' /\ Flow'
  BY <1>7 DEF Publish, SetTop
<1>8. ASSUME NEW t \in Client, NEW m \in Message, Send(t, m)
      PROVE  Typed' /\ Flow'
  BY <1>8 DEF Send
<1>9. ASSUME NEW t \in Client, Sending(t)
      PROVE  Typed' /\ Flow'
  BY <1>9 DEF Sending, Reuse, Allocate, GiveUp, Put
<1>10. CASE Collector
  <2>1. CASE Get \/ GotOut
    BY <2>1 DEF Get, GotOut, Rest
  <2>2. CASE GotIn
    BY <2>2 DEF GotIn, Rest
  <2>3. CASE GotNext \/ Moved
    BY <2>3 DEF GotNext, Moved, Rest
  <2>4. CASE Handle
    BY <2>4 DEF Handle
  <2>5. CASE ReleaseSent \/ ReleaseFree
    BY <2>5 DEF ReleaseSent, ReleaseFree
  <2> QED
    BY <1>10, <2>1, <2>2, <2>3, <2>4, <2>5 DEF Collector
<1>11. CASE Close
  BY <1>11 DEF Close, Rest
<1>12. CASE UNCHANGED vars
  BY <1>12 DEF vars
<1> QED
  BY <1>1, <1>2, <1>3, <1>4, <1>5, <1>6, <1>7, <1>8, <1>9, <1>10, <1>11, <1>12
     DEF Next, StackStep
-----------------------------------------------------------------------------
(* What is in the hands of all threads.                                    *)
Grip == [t \in Thread |-> Hand(t)]

LEMMA GripIsHands ==
    ASSUME Typed, Flow
    PROVE  Grip \in Hands
<1> SUFFICES ASSUME NEW t \in Thread
             PROVE  Hand(t) \in Seq(Cell)
  BY DEF Grip, Hands
<1> USE DEF Found, Link
<1>1. v[t] \in Link /\ v1 \in Link
  BY DEF Typed
<1>2. pc[t] \in {"gotNext", "handle"} \/ (Popping(t) /\ back[t] = "gotNext") => v1 \in Cell
  BY MessagesAssumption DEF Flow, Popping, Thread, Pushing
<1>3. pc[t] = "moved" \/ (Pushing(t) /\ back[t] = "moved") => v[t] \in Cell
  BY MessagesAssumption DEF Flow, Popping, Thread, Pushing
<1>4. Pushing(t) => arg[t] \in Cell
  BY MessagesAssumption DEF Flow, Thread
<1>5. Found(v[t]) \in Seq(Cell) /\ Found(v1) \in Seq(Cell) /\ <<>> \in Seq(Cell)
  BY <1>1
<1>6. CASE pc[t] \in {"popped", "gotOut", "gotIn", "release"}
  BY <1>5, <1>6 DEF Hand
<1>7. CASE pc[t] = "gotNext"
  BY <1>1, <1>2, <1>7 DEF Hand
<1>8. CASE pc[t] = "moved"
  BY <1>3, <1>8 DEF Hand, Popping, Pushing
<1>9. CASE pc[t] = "handle"
  BY <1>2, <1>9 DEF Hand, Popping, Pushing
<1>10. CASE Popping(t)
  BY <1>2, <1>5, <1>10 DEF Hand, Popping, Pushing
<1>11. CASE Pushing(t)
  BY <1>3, <1>4, <1>11 DEF Hand, Popping, Pushing
<1> QED
  BY <1>5, <1>6, <1>7, <1>8, <1>9, <1>10, <1>11 DEF Hand

(* The hand of a thread is the same as long as the thread does nothing.    *)
LEMMA OthersHands ==
    ASSUME Flow, NEW t \in Thread, NEW u \in Thread, t # u, pc'[u] = pc[u], back'[u] = back[u],
           arg'[u] = arg[u], v'[u] = v[u], t # GC => v1' = v1
    PROVE  Hand(u)' = Hand(u)
<1>1. CASE u = GC
  BY <1>1 DEF Hand, Popping, Pushing
<1>2. CASE u # GC
  BY <1>2, MessagesAssumption DEF Hand, Popping, Pushing, Flow, Thread
<1> QED
  BY <1>1, <1>2
-----------------------------------------------------------------------------
(* As long as no two threads met at a stack, what a thread loaded while it *)
(* was there is still so, and no one loads through NULL.                   *)
Frames ==
    \A t \in Thread :
        /\ pc[t] \in {"test", "load", "link", "store"} => v[t] = top[on[t]]
        /\ pc[t] \in {"load", "link", "store"} => v[t] # NULL
        /\ pc[t] = "link" => x[t] = v[t]
        /\ pc[t] = "store" => x[t] = link[v[t]]
        /\ pc[t] = "publish" => link[arg[t]] = top[on[t]]
        /\ pc[t] # "crash"

(* s[l] are the cells of stack l.                                          *)
Lists(s) == \A l \in Stack : Chain(s[l], Len(s[l]), top[l], link, NULL)

(* What is queued has been filled in.                                      *)
Bodies(s) ==
    /\ \A l \in {"in", "out"} : \A c \in Of(s[l]) : body[c] \in Message
    /\ \A t \in Client : Pushing(t) => body[arg[t]] = msg[t]
    /\ pc[GC] # "release" /\ ~(Pushing(GC) /\ back[GC] = "again")
          => \A c \in Of(Hand(GC)) : body[c] \in Message

(* The stacks that were found empty and that no one has pushed to since.   *)
Ends(s) ==
    /\ pc[GC] = "gotOut" /\ v[GC] = NULL => s["out"] = <<>>
    /\ (Popping(GC) /\ back[GC] = "gotIn") \/ pc[GC] = "gotIn" => s["out"] = <<>>
    /\ pc[GC] = "gotIn" /\ v[GC] = NULL /\ closing => s["in"] = <<>>
    /\ (Popping(GC) /\ back[GC] = "release") \/ pc[GC] \in {"release", "done"}
          => s["in"] = <<>> /\ s["out"] = <<>>
    /\ pc[GC] = "release" /\ v[GC] = NULL => s["free"] = <<>>
    /\ pc[GC] = "done" => s["free"] = <<>>

Settled(s) == Lists(s) /\ Apart(s, Grip, unused) /\ Bodies(s) /\ Ends(s)

MInv == Typed /\ Flow /\ (~raced => Frames /\ \E s \in Piles : Settled(s))
-----------------------------------------------------------------------------
(* The step of thread t changes no other thread's frame.                   *)
Alone(t) ==
    /\ pc' = [pc EXCEPT ![t] = pc'[t]]
    /\ \A u \in Thread : u # t => /\ on'[u] = on[u] /\ back'[u] = back[u] /\ arg'[u] = arg[u]
                                  /\ v'[u] = v[u] /\ x'[u] = x[u]
    /\ \A u \in Client : u # t => msg'[u] = msg[u]
    /\ t # GC => v1' = v1

LEMMA GripChanges ==
    ASSUME Typed, Flow, NEW t \in Thread, Alone(t)
    PROVE  Grip' = [Grip EXCEPT ![t] = Hand(t)']
<1>1. ASSUME NEW u \in Thread, u # t
      PROVE  Hand(u)' = Hand(u)
  <2>1. pc'[u] = pc[u] /\ back'[u] = back[u] /\ arg'[u] = arg[u] /\ v'[u] = v[u]
    BY <1>1 DEF Alone, Typed
  <2> QED
    BY <1>1, <2>1, OthersHands DEF Alone
<1> QED
  BY <1>1 DEF Grip

LEMMA GcHandKept ==
    ASSUME Typed, Flow, NEW t \in Thread, t # GC, Alone(t)
    PROVE  Hand(GC)' = Hand(GC)
<1>1. GC \in Thread
  BY DEF Thread
<1>2. pc'[GC] = pc[GC] /\ back'[GC] = back[GC] /\ arg'[GC] = arg[GC] /\ v'[GC] = v[GC] /\ v1' = v1
  BY <1>1 DEF Alone, Typed
<1> QED
  BY <1>1, <1>2, OthersHands

(* Nothing that is on a stack, in a hand or free changes its place, and    *)
(* nothing is filled in.                                                   *)
LEMMA QuietKeeps ==
    ASSUME Typed, Flow, NEW s \in Piles, Settled(s), NEW t \in Thread, Alone(t),
           UNCHANGED <<top, link, unused>>, Hand(t)' = Hand(t)
    PROVE  Lists(s)' /\ Grip' = Grip /\ Apart(s, Grip, unused)'
<1>1. Grip' = Grip
  BY GripChanges DEF Grip
<1>2. Apart(s, Grip, unused)
  BY DEF Settled
<1>3. Apart(s, Grip', unused')
  BY <1>1, <1>2
<1>4. Lists(s)'
  BY DEF Lists, Settled
<1> QED
  BY <1>1, <1>3, <1>4

(* The steps that keep every cell in its place.                            *)
QuietStep(t) ==
    \/ First(t) \/ Test(t) \/ LoadTop(t) \/ LoadLink(t)
    \/ t \in Client /\ (Reuse(t) \/ GiveUp(t) \/ \E m \in Message : Send(t, m))
    \/ t = GC /\ (Get \/ GotOut \/ GotIn \/ GotNext \/ Moved \/ Handle \/ Close)

LEMMA QuietHands ==
    ASSUME Typed, Flow, Frames, NEW t \in Thread, QuietStep(t)
    PROVE  Alone(t) /\ Hand(t)' = Hand(t) /\ UNCHANGED <<top, link, unused>>
<1> USE MessagesAssumption DEF Typed, Flow, Popping, Pushing, Thread, Stack, Link, Place, Goto,
        Pop, Push, stacks, frames, history, Alone, Rest
<1>1. Alone(t) /\ UNCHANGED <<top, link, unused>>
  <2>1. CASE First(t) \/ Test(t) \/ LoadTop(t) \/ LoadLink(t)
    BY <2>1 DEF First, Test, LoadTop, LoadLink
  <2>2. ASSUME t \in Client, NEW m \in Message, Send(t, m)
        PROVE  Alone(t) /\ UNCHANGED <<top, link, unused>>
    BY <2>2 DEF Send
  <2>3. CASE t \in Client /\ (Reuse(t) \/ GiveUp(t))
    BY <2>3 DEF Reuse, GiveUp, Put
  <2>4. CASE t = GC /\ (Get \/ GotOut \/ GotIn \/ GotNext \/ Moved)
    BY <2>4 DEF Get, GotOut, GotIn, GotNext, Moved
  <2>5. CASE t = GC /\ (Handle \/ Close)
    BY <2>5 DEF Handle, Close
  <2> QED
    BY <2>1, <2>2, <2>3, <2>4, <2>5 DEF QuietStep
<1>2. Hand(t)' = Hand(t)
  <2> USE DEF Hand, Found
  <2>1. CASE First(t)
    BY <2>1 DEF First
  <2>2. CASE Test(t)
    BY <2>2 DEF Test, Frames
  <2>3. CASE LoadTop(t) \/ LoadLink(t)
    BY <2>3 DEF LoadTop, LoadLink, Frames
  <2>4. ASSUME t \in Client, NEW m \in Message, Send(t, m)
        PROVE  Hand(t)' = Hand(t)
    BY <2>4 DEF Send
  <2>5. CASE t \in Client /\ (Reuse(t) \/ GiveUp(t))
    BY <2>5 DEF Reuse, GiveUp, Put
  <2>6. CASE t = GC /\ (Get \/ GotOut)
    BY <2>6 DEF Get, GotOut
  <2>7. CASE t = GC /\ (GotIn \/ GotNext \/ Moved)
    BY <2>7 DEF GotIn, GotNext, Moved
  <2>8. CASE t = GC /\ (Handle \/ Close)
    BY <2>8 DEF Handle, Close
  <2> QED
    BY <2>1, <2>2, <2>3, <2>4, <2>5, <2>6, <2>7, <2>8 DEF QuietStep
<1> QED
  BY <1>1, <1>2

(* A stack is empty when its top is NULL; otherwise the top is its first   *)
(* cell.                                                                   *)
LEMMA TopOfList ==
    ASSUME NEW nxt, NEW a, NEW q \in Seq(Cell), Chain(q, Len(q), a, nxt, NULL)
    PROVE  /\ a = NULL => q = <<>>
           /\ a # NULL => \E p \in Seq(Cell) : /\ a \in Cell /\ q = Before(a, p)
                                               /\ Chain(p, Len(p), nxt[a], nxt, NULL)
<1>1. Len(q) \in Nat /\ (Len(q) = 0 => q = <<>>) /\ \A i \in 1..Len(q) : q[i] \in Cell
  OBVIOUS
<1>2. CASE Len(q) = 0
  BY <1>1, <1>2 DEF Chain
<1>3. CASE Len(q) # 0
  <2>1. 1 \in 1..Len(q) /\ a = q[1] /\ a \in Cell /\ a # NULL
    BY <1>1, <1>3, MessagesAssumption DEF Chain
  <2>2. PICK p \in Seq(Cell) : q = <<q[1]>> \o p /\ Len(q) = Len(p) + 1
    <3>1. Tail(q) \in Seq(Cell) /\ q = <<q[1]>> \o Tail(q) /\ Len(q) = Len(Tail(q)) + 1
      BY <1>3
    <3> QED
      BY <3>1
  <2>3. q = Before(a, p)
    BY <2>1, <2>2 DEF Before
  <2>4. Chain(Before(a, p), Len(p) + 1, a, nxt, NULL)
    <3>1. Len(q) = Len(p) + 1
      BY <2>2
    <3> QED
      BY <2>3, <3>1
  <2>5. Chain(p, Len(p), nxt[a], nxt, NULL)
    BY <2>1, <2>4, ChainBefore
  <2> QED
    BY <2>1, <2>3, <2>5
<1> QED
  BY <1>2, <1>3

(* What the other threads loaded is still so, if the tops are the same.    *)
LEMMA OthersFrames ==
    ASSUME Typed, Frames, NEW t \in Thread, Alone(t), UNCHANGED <<top, link>>
    PROVE  \A u \in Thread : u # t =>
              /\ pc'[u] \in {"test", "load", "link", "store"} => v'[u] = top'[on'[u]]
              /\ pc'[u] \in {"load", "link", "store"} => v'[u] # NULL
              /\ pc'[u] = "link" => x'[u] = v'[u]
              /\ pc'[u] = "store" => x'[u] = link'[v'[u]]
              /\ pc'[u] = "publish" => link'[arg'[u]] = top'[on'[u]]
              /\ pc'[u] # "crash"
BY DEF Typed, Frames, Alone

LEMMA QuietFrames ==
    ASSUME Typed, Flow, Frames, NEW t \in Thread, QuietStep(t)
    PROVE  Frames'
<1> USE MessagesAssumption DEF Typed, Flow, Popping, Pushing, Thread, Stack, Link, Place, Goto,
        Pop, Push, stacks, frames, history, Rest
<1>1. \A u \in Thread : u # t =>
         /\ pc'[u] \in {"test", "load", "link", "store"} => v'[u] = top'[on'[u]]
         /\ pc'[u] \in {"load", "link", "store"} => v'[u] # NULL
         /\ pc'[u] = "link" => x'[u] = v'[u]
         /\ pc'[u] = "store" => x'[u] = link'[v'[u]]
         /\ pc'[u] = "publish" => link'[arg'[u]] = top'[on'[u]]
         /\ pc'[u] # "crash"
  BY QuietHands, OthersFrames
<1>2. /\ pc'[t] \in {"test", "load", "link", "store"} => v'[t] = top'[on'[t]]
      /\ pc'[t] \in {"load", "link", "store"} => v'[t] # NULL
      /\ pc'[t] = "link" => x'[t] = v'[t]
      /\ pc'[t] = "store" => x'[t] = link'[v'[t]]
      /\ pc'[t] = "publish" => link'[arg'[t]] = top'[on'[t]]
      /\ pc'[t] # "crash"
  <2>1. CASE First(t)
    BY <2>1 DEF First
  <2>2. CASE Test(t)
    BY <2>2 DEF Test, Frames
  <2>3. CASE LoadTop(t) \/ LoadLink(t)
    BY <2>3 DEF LoadTop, LoadLink, Frames
  <2>4. CASE t \in Client /\ (Reuse(t) \/ GiveUp(t) \/ \E m \in Message : Send(t, m))
    BY <2>4 DEF Send, Reuse, GiveUp, Put
  <2>5. CASE t = GC /\ (Get \/ GotOut \/ GotIn \/ GotNext \/ Moved \/ Handle \/ Close)
    BY <2>5 DEF Get, GotOut, GotIn, GotNext, Moved, Handle, Close
  <2> QED
    BY <2>1, <2>2, <2>3, <2>4, <2>5 DEF QuietStep
<1> QED
  BY <1>1, <1>2, Zenon DEF Frames

(* A cell in the hand of one thread is not in that of another, nor on a    *)
(* stack.                                                                  *)
LEMMA HandsApart ==
    ASSUME NEW s \in Piles, Apart(s, Grip, unused), NEW t \in Thread, NEW c \in Cell,
           c \in Of(Hand(t))
    PROVE  /\ \A l \in Stack : c \notin Of(s[l])
           /\ \A u \in Thread : c \in Of(Hand(u)) => u = t
<1>1. Grip[t] = Hand(t) /\ \A u \in Thread : Grip[u] = Hand(u)
  BY DEF Grip
<1>2. InOne(c, s, Grip, unused) /\ c \in Of(Grip[t])
  BY <1>1 DEF Apart
<1>3. (\A l \in Stack : c \notin Of(s[l])) /\ \A u \in Thread : c \in Of(Grip[u]) => u = t
  BY <1>2, Zenon DEF InOne
<1> QED
  BY <1>1, <1>3

(* What a client fills in was in its hand.                                 *)
LEMMA ArgInHand ==
    ASSUME NEW t \in Thread, Pushing(t)
    PROVE  arg[t] \in Of(Hand(t))
<1>1. CASE back[t] = "moved"
  <2>1. Hand(t) = <<v[t], arg[t]>>
    BY <1>1 DEF Hand, Pushing, Popping
  <2>2. 2 \in 1..Len(<<v[t], arg[t]>>) /\ <<v[t], arg[t]>>[2] = arg[t]
    OBVIOUS
  <2> QED
    BY <2>1, <2>2 DEF Of
<1>2. CASE back[t] # "moved"
  <2>1. Hand(t) = <<arg[t]>>
    BY <1>2 DEF Hand, Pushing, Popping
  <2>2. 1 \in 1..Len(<<arg[t]>>) /\ <<arg[t]>>[1] = arg[t]
    OBVIOUS
  <2> QED
    BY <2>1, <2>2 DEF Of
<1> QED
  BY <1>1, <1>2

LEMMA QuietBodies ==
    ASSUME Typed, Flow, Frames, Flow', NEW s \in Piles, Settled(s), NEW t \in Thread, QuietStep(t)
    PROVE  Bodies(s)'
<1> USE MessagesAssumption DEF Typed, Flow, Popping, Pushing, Thread, Stack, Link, Place, Goto,
        Pop, Push, stacks, frames, history, Rest
<1>1. Bodies(s) /\ Apart(s, Grip, unused)
  BY DEF Settled
<1>2. Alone(t) /\ Hand(t)' = Hand(t) /\ Hand(GC)' = Hand(GC)
  <2>1. Alone(t) /\ Hand(t)' = Hand(t)
    BY QuietHands
  <2>2. CASE t # GC
    BY <2>1, <2>2, GcHandKept
  <2> QED
    BY <2>1, <2>2
<1>3. CASE t \in Client /\ Reuse(t)
  <2>1. /\ pc[t] = "popped" /\ v[t] \in Cell /\ body' = [body EXCEPT ![v[t]] = msg[t]]
        /\ arg' = [arg EXCEPT ![t] = v[t]] /\ pc' = [pc EXCEPT ![t] = "join"] /\ msg' = msg
        /\ back' = [back EXCEPT ![t] = "idle"]
    BY <1>3 DEF Reuse, Put
  <2>2. v[t] \in Of(Hand(t))
    <3>1. Hand(t) = <<v[t]>>
      BY <2>1 DEF Hand, Found
    <3>2. 1 \in 1..Len(<<v[t]>>) /\ <<v[t]>>[1] = v[t]
      OBVIOUS
    <3> QED
      BY <3>1, <3>2 DEF Of
  <2>3. /\ \A l \in Stack : v[t] \notin Of(s[l])
        /\ \A u \in Thread : v[t] \in Of(Hand(u)) => u = t
    BY <1>1, <2>1, <2>2, HandsApart
  <2>4. \A l \in {"in", "out"} : \A c \in Of(s[l]) : body'[c] \in Message
    BY <1>1, <2>1, <2>3 DEF Bodies
  <2>5. ASSUME NEW u \in Client, Pushing(u)'
        PROVE  body'[arg'[u]] = msg'[u]
    <3>1. CASE u = t
      BY <2>1, <3>1
    <3>2. CASE u # t
      <4>1. Pushing(u) /\ arg'[u] = arg[u] /\ u \in Thread
        BY <2>1, <2>5, <3>2
      <4>2. arg[u] # v[t]
        BY <2>3, <3>2, <4>1, ArgInHand
      <4>3. body[arg[u]] = msg[u]
        BY <1>1, <4>1 DEF Bodies
      <4> QED
        BY <2>1, <4>1, <4>2, <4>3
    <3> QED
      BY <3>1, <3>2
  <2>6. ASSUME pc'[GC] # "release", ~(Pushing(GC) /\ back[GC] = "again")'
        PROVE  \A c \in Of(Hand(GC)') : body'[c] \in Message
    <3>1. pc'[GC] = pc[GC] /\ back'[GC] = back[GC] /\ GC \in Thread /\ t # GC
      BY <1>3, <2>1
    <3>2. pc[GC] # "release" /\ ~(Pushing(GC) /\ back[GC] = "again")
      BY <2>6, <3>1
    <3>3. \A c \in Of(Hand(GC)) : body[c] \in Message
      BY <1>1, <3>2 DEF Bodies
    <3>4. v[t] \notin Of(Hand(GC))
      BY <2>3, <3>1
    <3> QED
      BY <1>2, <2>1, <3>3, <3>4
  <2> QED
    BY <2>4, <2>5, <2>6, Zenon DEF Bodies
<1>4. CASE ~(t \in Client /\ Reuse(t))
  <2>1. /\ body' = body
        /\ \A u \in Client : Pushing(u)' => Pushing(u) /\ arg'[u] = arg[u] /\ msg'[u] = msg[u]
        /\ pc'[GC] # "release" /\ ~(Pushing(GC) /\ back[GC] = "again")'
              => pc[GC] # "release" /\ ~(Pushing(GC) /\ back[GC] = "again")
    <3>1. CASE First(t) \/ Test(t) \/ LoadTop(t) \/ LoadLink(t)
      BY <3>1 DEF First, Test, LoadTop, LoadLink
    <3>2. CASE t \in Client /\ (GiveUp(t) \/ \E m \in Message : Send(t, m))
      BY <3>2 DEF Send, GiveUp
    <3>3. CASE t = GC /\ (Get \/ GotOut \/ GotIn \/ GotNext \/ Moved \/ Handle \/ Close)
      BY <3>3 DEF Get, GotOut, GotIn, GotNext, Moved, Handle, Close
    <3> QED
      BY <1>4, <3>1, <3>2, <3>3 DEF QuietStep
  <2>2. \A u \in Client : Pushing(u)' => body'[arg'[u]] = msg'[u]
    BY <1>1, <2>1 DEF Bodies
  <2>3. pc'[GC] # "release" /\ ~(Pushing(GC) /\ back[GC] = "again")'
           => \A c \in Of(Hand(GC)') : body'[c] \in Message
    BY <1>1, <1>2, <2>1, Zenon DEF Bodies
  <2>4. \A l \in {"in", "out"} : \A c \in Of(s[l]) : body'[c] \in Message
    BY <1>1, <2>1 DEF Bodies
  <2> QED
    BY <2>2, <2>3, <2>4, Zenon DEF Bodies
<1> QED
  BY <1>3, <1>4

LEMMA QuietEnds ==
    ASSUME Typed, Flow, Frames, NEW s \in Piles, Settled(s), NEW t \in Thread, QuietStep(t)
    PROVE  Ends(s)'
<1> USE MessagesAssumption DEF Typed, Flow, Popping, Pushing, Thread, Stack, Link, Place, Goto,
        Pop, Push, stacks, frames, history, Rest
<1>1. Ends(s) /\ \A l \in Stack : top[l] = NULL => s[l] = <<>>
  <2>1. \A l \in Stack : s[l] \in Seq(Cell) /\ Chain(s[l], Len(s[l]), top[l], link, NULL)
    BY DEF Settled, Lists, Piles
  <2> QED
    BY <2>1, TopOfList DEF Settled
<1>2. CASE t # GC
  <2>1. pc'[GC] = pc[GC] /\ v'[GC] = v[GC] /\ back'[GC] = back[GC] /\ closing' = closing
    <3>1. Alone(t)
      BY QuietHands
    <3>2. closing' = closing
      BY <1>2 DEF QuietStep, First, Test, LoadTop, LoadLink, Send, Reuse, GiveUp, Put
    <3> QED
      BY <1>2, <3>1, <3>2 DEF Alone
  <2> QED
    BY <1>1, <2>1 DEF Ends
<1>3. CASE t = GC
  <2>1. CASE First(t)
    BY <1>1, <1>3, <2>1 DEF First, Ends
  <2>2. CASE Test(t)
    BY <1>1, <1>3, <2>2 DEF Test, Ends, Frames
  <2>3. CASE LoadTop(t) \/ LoadLink(t)
    BY <1>1, <1>3, <2>3 DEF LoadTop, LoadLink, Ends
  <2>4. CASE Get \/ GotOut \/ Close
    BY <1>1, <2>4 DEF Get, GotOut, Close, Ends
  <2>5. CASE GotIn \/ GotNext \/ Moved \/ Handle
    BY <1>1, <2>5 DEF GotIn, GotNext, Moved, Handle, Ends
  <2> QED
    BY <1>3, <2>1, <2>2, <2>3, <2>4, <2>5 DEF QuietStep
<1> QED
  BY <1>2, <1>3

LEMMA QuietSettles ==
    ASSUME Typed, Flow, Frames, Flow', NEW s \in Piles, Settled(s), NEW t \in Thread, QuietStep(t)
    PROVE  Frames' /\ Settled(s)'
<1>1. Frames'
  BY QuietFrames
<1>2. Lists(s)' /\ Apart(s, Grip, unused)'
  BY QuietHands, QuietKeeps
<1>3. Bodies(s)' /\ Ends(s)'
  BY QuietBodies, QuietEnds
<1> QED
  BY <1>1, <1>2, <1>3, Zenon DEF Settled
-----------------------------------------------------------------------------
(* A store to the top of a stack that no one else is at leaves what the    *)
(* others loaded as it is.                                                 *)
LEMMA StoreFrames ==
    ASSUME Typed, Flow, Frames, NEW t \in Thread, NEW c, SetTop(t, c), ~raced', Alone(t),
           link' = link, on'[t] = on[t], pc'[t] = back[t], Pushing(t) \/ Popping(t)
    PROVE  Frames'
<1>1. /\ on[t] \in Stack /\ top' = [top EXCEPT ![on[t]] = c]
      /\ \A u \in Thread : u # t => ~Inside(u, on[t])
  BY DEF SetTop, Typed
<1>2. ASSUME NEW u \in Thread, u # t
      PROVE  /\ pc'[u] \in {"test", "load", "link", "store"} => v'[u] = top'[on'[u]]
             /\ pc'[u] \in {"load", "link", "store"} => v'[u] # NULL
             /\ pc'[u] = "link" => x'[u] = v'[u]
             /\ pc'[u] = "store" => x'[u] = link'[v'[u]]
             /\ pc'[u] = "publish" => link'[arg'[u]] = top'[on'[u]]
             /\ pc'[u] # "crash"
  <2>1. /\ pc'[u] = pc[u] /\ on'[u] = on[u] /\ v'[u] = v[u] /\ x'[u] = x[u] /\ arg'[u] = arg[u]
        /\ on[u] \in Stack
    BY <1>2 DEF Alone, Typed
  <2>2. pc[u] \in {"test", "load", "link", "store", "publish"} => top'[on[u]] = top[on[u]]
    BY <1>1, <1>2, <2>1 DEF Inside, Typed
  <2> QED
    BY <2>1, <2>2 DEF Frames
<1>3. pc'[t] \notin {"test", "load", "link", "store", "publish", "crash"}
  BY MessagesAssumption DEF Flow, Thread, Popping, Pushing
<1> QED
  BY <1>2, <1>3 DEF Frames

(* A pop at its end: the top of the stack goes into the hand of thread t.  *)
LEMMA TakeKeeps ==
    ASSUME Typed, Flow, Frames, NEW s \in Piles, Settled(s), NEW t \in Thread, StoreTop(t), ~raced'
    PROVE  /\ Frames' /\ v[t] \in Cell
           /\ Hand(t)' = Before(v[t], Hand(t))
           /\ \E r \in Piles, q \in Seq(Cell) : /\ s[on[t]] = Before(v[t], q)
                                                /\ r = [s EXCEPT ![on[t]] = q]
                                                /\ Settled(r)'
<1> DEFINE l == on[t]
           c == v[t]
<1>1. /\ pc[t] = "store" /\ l \in Stack /\ c = top[l] /\ c # NULL /\ x[t] = link[c]
      /\ top' = [top EXCEPT ![l] = link[c]] /\ Popping(t) /\ ~Pushing(t)
      /\ pc' = [pc EXCEPT ![t] = back[t]] /\ pc'[t] = back[t]
      /\ UNCHANGED <<link, body, unused, on, back, arg, v, x, v1, msg, closing>>
  BY DEF StoreTop, SetTop, Goto, Frames, Popping, Pushing, Typed
<1>2. Alone(t)
  BY <1>1 DEF Alone
<1>3. Frames'
  BY <1>1, <1>2, StoreFrames DEF StoreTop
<1>4. s[l] \in Seq(Cell) /\ Chain(s[l], Len(s[l]), top[l], link, NULL)
  BY <1>1 DEF Settled, Lists, Piles
<1>5. PICK q \in Seq(Cell) : c \in Cell /\ s[l] = Before(c, q) /\ Chain(q, Len(q), link[c], link, NULL)
  BY <1>1, <1>4, TopOfList
<1>6. \/ t \in Client /\ l = "free" /\ back[t] = "popped" /\ ~closing
      \/ t = GC /\ \/ l = "out" /\ back[t] = "gotOut"
                   \/ l = "in" /\ back[t] \in {"gotIn", "gotNext"}
                   \/ l = "free" /\ back[t] = "release"
  BY <1>1 DEF Flow, Thread
<1>7. Hand(t)' = Before(c, Hand(t))
  <2>1. CASE back[t] = "gotNext"
    <3>1. Hand(t) = <<v1>> /\ Hand(t)' = <<c, v1>>
      BY <1>1, <2>1 DEF Hand, Popping
    <3> QED
      BY <3>1 DEF Before
  <2>2. CASE back[t] # "gotNext"
    <3>1. Hand(t) = <<>> /\ Hand(t)' = <<c>>
      BY <1>1, <1>6, <2>2 DEF Hand, Popping, Found
    <3> QED
      BY <3>1 DEF Before
  <2> QED
    BY <2>1, <2>2
<1>8. PICK r \in Piles : r = [s EXCEPT ![l] = q]
  BY <1>1 DEF Piles
<1>14. r[l] = q /\ \A k \in Stack : k # l => r[k] = s[k]
  BY <1>1, <1>8 DEF Piles
<1>9. Apart(r, Grip', unused')
  <2>1. Grip \in Hands /\ Grip[t] = Hand(t) /\ Apart(s, Grip, unused)
    BY GripIsHands DEF Grip, Settled
  <2>2. Apart(r, [Grip EXCEPT ![t] = Before(c, Grip[t])], unused)
    BY <1>1, <1>5, <1>8, <2>1, TakeApart
  <2>3. Grip' = [Grip EXCEPT ![t] = Before(c, Grip[t])]
    BY <1>2, <1>7, <2>1, GripChanges
  <2> QED
    BY <1>1, <2>2, <2>3
<1>10. Of(s[l]) = {c} \cup Of(q)
  BY <1>5, OfBefore
<1>11. Lists(r)'
  <2> SUFFICES ASSUME NEW k \in Stack
               PROVE  Chain(r[k], Len(r[k]), top'[k], link', NULL)
    BY DEF Lists
  <2>1. CASE k = l
    BY <1>1, <1>5, <1>14, <2>1 DEF Typed
  <2>2. CASE k # l
    BY <1>1, <1>14, <2>2 DEF Typed, Settled, Lists
  <2> QED
    BY <2>1, <2>2
<1>12. Bodies(r)'
  <2>1. Bodies(s)
    BY DEF Settled
  <2>2. \A k \in {"in", "out"} : \A d \in Of(r[k]) : body'[d] \in Message
    <3> SUFFICES ASSUME NEW k \in {"in", "out"}, NEW d \in Of(r[k])
                 PROVE  body[d] \in Message
      BY <1>1
    <3>1. k \in Stack /\ d \in Of(s[k])
      BY <1>10, <1>14 DEF Stack
    <3> QED
      BY <2>1, <3>1 DEF Bodies
  <2>3. ASSUME NEW u \in Client, Pushing(u)'
        PROVE  body'[arg'[u]] = msg'[u]
    <3>1. pc'[u] \in {"join", "publish"}
      BY <2>3 DEF Pushing
    <3>2. u # t
      BY <1>1, <1>6, <3>1
    <3>3. Pushing(u)
      BY <1>1, <3>1, <3>2 DEF Pushing, Typed, Thread
    <3> QED
      BY <1>1, <2>1, <3>3 DEF Bodies
  <2>4. ASSUME pc'[GC] # "release", ~(Pushing(GC) /\ back[GC] = "again")'
        PROVE  \A d \in Of(Hand(GC)') : body'[d] \in Message
    <3>1. CASE t = GC
      <4>1. Hand(t) \in Seq(Cell) /\ \A d \in Of(Hand(GC)) : body[d] \in Message
        <5>1. pc[GC] # "release" /\ ~Pushing(GC)
          BY <1>1, <3>1
        <5>2. Hand(t) \in Seq(Cell)
          BY GripIsHands DEF Grip, Hands
        <5> QED
          BY <2>1, <5>1, <5>2, Zenon DEF Bodies
      <4>2. l \in {"in", "out"} /\ c \in Of(s[l])
        BY <1>1, <1>6, <1>10, <2>4, <3>1, MessagesAssumption
      <4>3. body[c] \in Message
        BY <2>1, <4>2 DEF Bodies
      <4>4. Of(Hand(t)') = {c} \cup Of(Hand(t))
        BY <1>5, <1>7, <4>1, OfBefore
      <4> QED
        BY <1>1, <3>1, <4>1, <4>3, <4>4
    <3>2. CASE t # GC
      <4>1. Hand(GC)' = Hand(GC) /\ pc'[GC] = pc[GC]
        BY <1>1, <1>2, <3>2, GcHandKept
      <4>2. pc[GC] # "release" /\ ~(Pushing(GC) /\ back[GC] = "again")
        BY <1>1, <2>4, <4>1 DEF Pushing
      <4> QED
        BY <1>1, <2>1, <4>1, <4>2, Zenon DEF Bodies
    <3> QED
      BY <3>1, <3>2
  <2> QED
    BY <2>2, <2>3, <2>4, Zenon DEF Bodies
<1>13. Ends(r)'
  <2>1. Ends(s)
    BY DEF Settled
  <2>2. CASE t = GC
    BY <1>1, <1>6, <1>14, <2>1, <2>2 DEF Ends, Popping, Stack, Typed, Thread
  <2>3. CASE t # GC
    <3>1. pc'[GC] = pc[GC] /\ l = "free" /\ ~closing
      BY <1>1, <1>6, <2>3 DEF Typed, Thread
    <3>2. pc[GC] \notin {"release", "done"}
      BY <3>1 DEF Flow
    <3> QED
      BY <1>1, <1>14, <2>1, <3>1, <3>2 DEF Ends, Popping, Stack
  <2> QED
    BY <2>2, <2>3
<1> QED
  BY <1>3, <1>5, <1>7, <1>8, <1>9, <1>11, <1>12, <1>13, Zenon DEF Settled

(* The end of a push: the argument goes from the hand of thread t on to    *)
(* the stack.                                                              *)
LEMMA GiveKeeps ==
    ASSUME Typed, Flow, Frames, NEW s \in Piles, Settled(s), NEW t \in Thread, Publish(t), ~raced'
    PROVE  /\ Frames' /\ arg[t] \in Cell
           /\ Hand(t)' = IF back[t] = "moved" THEN <<v[t]>> ELSE <<>>
           /\ \E r \in Piles : /\ r = [s EXCEPT ![on[t]] = Before(arg[t], s[on[t]])]
                               /\ Settled(r)'
<1> DEFINE l == on[t]
           c == arg[t]
<1>1. /\ pc[t] = "publish" /\ l \in Stack /\ c \in Cell /\ link[c] = top[l]
      /\ top' = [top EXCEPT ![l] = c] /\ Pushing(t) /\ ~Popping(t)
      /\ pc' = [pc EXCEPT ![t] = back[t]] /\ pc'[t] = back[t]
      /\ UNCHANGED <<link, body, unused, on, back, arg, v, x, v1, msg, closing>>
  BY DEF Publish, SetTop, Goto, Frames, Popping, Pushing, Typed, Flow, Thread
<1>2. Alone(t)
  BY <1>1 DEF Alone
<1>3. Frames'
  BY <1>1, <1>2, StoreFrames DEF Publish
<1>4. s[l] \in Seq(Cell) /\ Chain(s[l], Len(s[l]), link[c], link, NULL)
  BY <1>1 DEF Settled, Lists, Piles
<1>5. PICK p \in Seq(Cell) : p = Before(c, s[l]) /\ Len(p) = Len(s[l]) + 1
  <2>1. Before(c, s[l]) \in Seq(Cell) /\ Len(Before(c, s[l])) = Len(s[l]) + 1
    <3>1. PICK e \in Cell, w \in Seq(Cell) : e = c /\ w = s[l]
      BY <1>1, <1>4, Zenon
    <3>2. Before(e, w) \in Seq(Cell) /\ Len(Before(e, w)) = Len(w) + 1
      BY BeforeIsSeq
    <3> QED
      BY <3>1, <3>2
  <2> QED
    BY <2>1, Zenon
<1>6. PICK r \in Piles : r = [s EXCEPT ![l] = p]
  BY <1>1, <1>5 DEF Piles
<1>7. r[l] = p /\ \A k \in Stack : k # l => r[k] = s[k]
  BY <1>1, <1>6 DEF Piles
<1>8. Grip \in Hands /\ Grip[t] = Hand(t) /\ Hand(t) \in Seq(Cell) /\ Apart(s, Grip, unused)
      /\ Once(Hand(t))
  <2>1. Grip \in Hands /\ Grip[t] = Hand(t) /\ Hand(t) \in Seq(Cell)
    BY GripIsHands DEF Grip, Hands
  <2>2. Apart(s, Grip, unused) /\ Once(Grip[t])
    BY DEF Settled, Apart
  <2> QED
    BY <2>1, <2>2
<1>9. \/ t \in Client /\ l = "in" /\ back[t] = "idle" /\ ~closing
      \/ t = GC /\ l = "out" /\ back[t] = "moved" /\ v[t] \in Cell
      \/ t = GC /\ l = "free" /\ back[t] = "again"
  BY <1>1 DEF Flow, Thread
<1>10. PICK q \in Seq(Cell) : /\ q = Hand(t)' /\ Of(Hand(t)) = {c} \cup Of(q) /\ c \notin Of(q) /\ Once(q)
                              /\ q = IF back[t] = "moved" THEN <<v[t]>> ELSE <<>>
  <2>1. CASE back[t] = "moved"
    <3>1. v[t] \in Cell /\ Hand(t) = <<v[t], c>> /\ Hand(t)' = <<v[t]>>
      BY <1>1, <1>9, <2>1 DEF Hand, Popping, Pushing
    <3>2. v[t] # c
      <4>1. \A i, j \in 1..Len(<<v[t], c>>) : <<v[t], c>>[i] = <<v[t], c>>[j] => i = j
        BY <1>8, <3>1, Zenon DEF Once
      <4> QED
        BY <4>1
    <3>3. Of(<<v[t], c>>) = {v[t], c} /\ Of(<<v[t]>>) = {v[t]} /\ Once(<<v[t]>>)
      <4>1. 1..2 = {1, 2} /\ 1..1 = {1}
        OBVIOUS
      <4> QED
        BY <4>1 DEF Of, Once
    <3>4. <<v[t]>> \in Seq(Cell) /\ Of(<<v[t], c>>) = {c} \cup Of(<<v[t]>>) /\ c \notin Of(<<v[t]>>)
      BY <3>1, <3>2, <3>3
    <3> QED
      BY <2>1, <3>1, <3>3, <3>4
  <2>2. CASE back[t] # "moved"
    <3>1. Hand(t) = <<c>> /\ Hand(t)' = <<>>
      BY <1>1, <1>9, <2>2 DEF Hand, Popping, Pushing
    <3>2. Of(<<c>>) = {c} /\ Of(<<>>) = {} /\ Once(<<>>)
      <4>1. 1..1 = {1}
        OBVIOUS
      <4> QED
        BY <4>1 DEF Of, Once
    <3>3. <<>> \in Seq(Cell) /\ Of(<<c>>) = {c} \cup Of(<<>>) /\ c \notin Of(<<>>)
      BY <3>2
    <3> QED
      BY <2>2, <3>1, <3>2, <3>3
  <2> QED
    BY <2>1, <2>2
<1>11. Apart(r, Grip', unused')
  <2>1. Apart(r, [Grip EXCEPT ![t] = q], unused)
    BY <1>1, <1>5, <1>6, <1>8, <1>10, GiveApart
  <2>2. Grip' = [Grip EXCEPT ![t] = q]
    BY <1>2, <1>10, GripChanges
  <2> QED
    BY <1>1, <2>1, <2>2
<1>12. Of(p) = {c} \cup Of(s[l])
  BY <1>1, <1>4, <1>5, OfBefore
<1>13. Lists(r)'
  <2>1. Chain(p, Len(p), c, link, NULL)
    <3>1. c # NULL
      BY <1>1, MessagesAssumption
    <3>2. Chain(Before(c, s[l]), Len(s[l]) + 1, c, link, NULL)
      BY <1>1, <1>4, <3>1, ChainBefore
    <3> QED
      BY <1>5, <3>2
  <2> SUFFICES ASSUME NEW k \in Stack
               PROVE  Chain(r[k], Len(r[k]), top'[k], link', NULL)
    BY DEF Lists
  <2>2. CASE k = l
    BY <1>1, <1>7, <2>1, <2>2 DEF Typed
  <2>3. CASE k # l
    BY <1>1, <1>7, <2>3 DEF Typed, Settled, Lists
  <2> QED
    BY <2>2, <2>3
<1>14. Bodies(r)'
  <2>1. Bodies(s)
    BY DEF Settled
  <2>2. l \in {"in", "out"} => body[c] \in Message
    <3>1. CASE t \in Client
      BY <1>1, <2>1, <3>1 DEF Bodies, Flow, Typed
    <3>2. CASE l = "out"
      <4>1. t = GC /\ pc[GC] # "release" /\ back[GC] # "again"
        BY <1>1, <1>9, <3>2
      <4>2. \A d \in Of(Hand(GC)) : body[d] \in Message
        BY <2>1, <4>1 DEF Bodies
      <4> QED
        BY <1>10, <4>1, <4>2
    <3> QED
      BY <1>9, <3>1, <3>2
  <2>3. \A k \in {"in", "out"} : \A d \in Of(r[k]) : body'[d] \in Message
    <3> SUFFICES ASSUME NEW k \in {"in", "out"}, NEW d \in Of(r[k])
                 PROVE  body[d] \in Message
      BY <1>1
    <3>1. (k = l /\ d = c) \/ (k \in Stack /\ d \in Of(s[k]))
      BY <1>7, <1>12 DEF Stack
    <3> QED
      BY <2>1, <2>2, <3>1 DEF Bodies
  <2>4. ASSUME NEW u \in Client, Pushing(u)'
        PROVE  body'[arg'[u]] = msg'[u]
    <3>1. pc'[u] \in {"join", "publish"}
      BY <2>4 DEF Pushing
    <3>2. u # t
      BY <1>1, <1>9, <3>1
    <3>3. Pushing(u)
      BY <1>1, <3>1, <3>2 DEF Pushing, Typed, Thread
    <3> QED
      BY <1>1, <2>1, <3>3 DEF Bodies
  <2>5. ASSUME pc'[GC] # "release", ~(Pushing(GC) /\ back[GC] = "again")'
        PROVE  \A d \in Of(Hand(GC)') : body'[d] \in Message
    <3>1. CASE t = GC
      <4>1. CASE back[t] = "again"
        <5>1. q = <<>>
          BY <1>10, <4>1
        <5>2. Of(q) = {}
          BY <5>1 DEF Of
        <5> QED
          BY <1>10, <3>1, <5>2
      <4>2. CASE back[t] # "again"
        <5>1. \A d \in Of(Hand(GC)) : body[d] \in Message
          BY <1>1, <2>1, <3>1, <4>2 DEF Bodies
        <5> QED
          BY <1>1, <1>10, <3>1, <5>1
      <4> QED
        BY <4>1, <4>2
    <3>2. CASE t # GC
      <4>1. Hand(GC)' = Hand(GC) /\ pc'[GC] = pc[GC]
        BY <1>1, <1>2, <3>2, GcHandKept
      <4>2. pc[GC] # "release" /\ ~(Pushing(GC) /\ back[GC] = "again")
        BY <1>1, <2>5, <4>1 DEF Pushing
      <4> QED
        BY <1>1, <2>1, <4>1, <4>2, Zenon DEF Bodies
    <3> QED
      BY <3>1, <3>2
  <2> QED
    BY <2>3, <2>4, <2>5, Zenon DEF Bodies
<1>15. Ends(r)'
  <2>1. Ends(s)
    BY DEF Settled
  <2>2. CASE t = GC
    BY <1>1, <1>7, <1>9, <2>1, <2>2, MessagesAssumption DEF Ends, Popping, Stack, Typed, Thread
  <2>3. CASE t # GC
    <3>1. pc'[GC] = pc[GC] /\ l = "in" /\ ~closing
      BY <1>1, <1>9, <2>3 DEF Typed, Thread
    <3>2. pc[GC] \notin {"release", "done"} /\ ~(Popping(GC) /\ back[GC] = "release")
      BY <3>1 DEF Flow
    <3> QED
      BY <1>1, <1>7, <2>1, <3>1, <3>2 DEF Ends, Popping, Stack
  <2> QED
    BY <2>2, <2>3
<1> QED
  BY <1>1, <1>3, <1>5, <1>6, <1>10, <1>11, <1>13, <1>14, <1>15, Zenon DEF Settled

(* The link of the cell that is pushed: it is on no stack.                 *)
LEMMA JoinKeeps ==
    ASSUME Typed, Flow, Frames, NEW s \in Piles, Settled(s), NEW t \in Thread, Join(t)
    PROVE  Frames' /\ Hand(t)' = Hand(t) /\ Settled(s)'
<1> DEFINE c == arg[t]
<1>1. /\ pc[t] = "join" /\ on[t] \in Stack /\ c \in Cell /\ Pushing(t) /\ ~Popping(t)
      /\ link' = [link EXCEPT ![c] = top[on[t]]] /\ link'[c] = top[on[t]]
      /\ \A d \in Cell : d # c => link'[d] = link[d]
      /\ pc' = [pc EXCEPT ![t] = "publish"] /\ pc'[t] = "publish"
      /\ UNCHANGED <<top, body, unused, on, back, arg, v, x, v1, msg, closing>>
  BY DEF Join, Goto, Popping, Pushing, Typed, Flow, Thread
<1>2. Alone(t)
  BY <1>1 DEF Alone
<1>3. Apart(s, Grip, unused) /\ Lists(s) /\ Bodies(s) /\ Ends(s)
  BY DEF Settled
<1>4. /\ \A l \in Stack : c \notin Of(s[l])
      /\ \A u \in Thread : c \in Of(Hand(u)) => u = t
  BY <1>1, <1>3, ArgInHand, HandsApart
<1>5. Hand(t)' = Hand(t) /\ Grip' = Grip
  <2>1. Hand(t)' = Hand(t)
    BY <1>1 DEF Hand, Popping, Pushing
  <2> QED
    BY <1>2, <2>1, GripChanges DEF Grip
<1>6. \A l \in Stack : s[l] \in Seq(Cell) /\ (top[l] # NULL => top[l] \in Of(s[l]))
  <2> SUFFICES ASSUME NEW l \in Stack
               PROVE  s[l] \in Seq(Cell) /\ (top[l] # NULL => top[l] \in Of(s[l]))
    OBVIOUS
  <2>1. s[l] \in Seq(Cell) /\ Chain(s[l], Len(s[l]), top[l], link, NULL)
    BY <1>3 DEF Lists, Piles
  <2>2. ASSUME top[l] # NULL
        PROVE  top[l] \in Of(s[l])
    <3>1. PICK p \in Seq(Cell) : top[l] \in Cell /\ s[l] = Before(top[l], p)
      BY <2>1, <2>2, TopOfList
    <3> QED
      BY <3>1, OfBefore
  <2> QED
    BY <2>1, <2>2
<1>7. ASSUME NEW u \in Thread
      PROVE  /\ pc'[u] \in {"test", "load", "link", "store"} => v'[u] = top'[on'[u]]
             /\ pc'[u] \in {"load", "link", "store"} => v'[u] # NULL
             /\ pc'[u] = "link" => x'[u] = v'[u]
             /\ pc'[u] = "store" => x'[u] = link'[v'[u]]
             /\ pc'[u] = "publish" => link'[arg'[u]] = top'[on'[u]]
             /\ pc'[u] # "crash"
  <2>1. CASE u = t
    BY <1>1, <2>1
  <2>2. CASE u # t
    <3>1. pc'[u] = pc[u] /\ on[u] \in Stack
      BY <1>1, <2>2 DEF Typed
    <3>2. ASSUME pc[u] = "store"
          PROVE  link'[v[u]] = link[v[u]]
      <4>1. v[u] = top[on[u]] /\ v[u] # NULL /\ v[u] \in Cell
        BY <3>1, <3>2 DEF Frames, Typed, Link
      <4>2. v[u] # c
        BY <1>4, <1>6, <3>1, <4>1
      <4> QED
        BY <1>1, <4>1, <4>2
    <3>3. ASSUME pc[u] = "publish"
          PROVE  link'[arg[u]] = link[arg[u]]
      <4>1. Pushing(u) /\ arg[u] \in Cell
        BY <3>3 DEF Pushing, Flow, Thread
      <4>2. arg[u] # c
        BY <1>4, <2>2, <4>1, ArgInHand
      <4> QED
        BY <1>1, <4>1, <4>2
    <3> QED
      BY <1>1, <3>1, <3>2, <3>3 DEF Frames
  <2> QED
    BY <2>1, <2>2
<1>8. Lists(s)'
  <2> SUFFICES ASSUME NEW l \in Stack
               PROVE  Chain(s[l], Len(s[l]), top[l], link', NULL)
    BY <1>1 DEF Lists
  <2>1. \A d \in Of(s[l]) : d \in Cell
    BY <1>6 DEF Of
  <2>2. \A d \in Of(s[l]) : link'[d] = link[d]
    BY <1>1, <1>4, <2>1
  <2>3. Chain(s[l], Len(s[l]), top[l], link, NULL)
    BY <1>3 DEF Lists
  <2> QED
    BY <2>2, <2>3, ChainFrame
<1>9. Apart(s, Grip', unused')
  BY <1>1, <1>3, <1>5
<1>10. Bodies(s)'
  <2>1. \A u \in Client : Pushing(u)' <=> Pushing(u)
    BY <1>1 DEF Pushing, Typed, Thread
  <2>2. Pushing(GC)' <=> Pushing(GC)
    BY <1>1 DEF Pushing, Typed, Thread
  <2>3. (pc'[GC] = "release" <=> pc[GC] = "release") /\ Hand(GC)' = Hand(GC)
    <3>1. GC \in Thread
      BY DEF Thread
    <3>2. Hand(GC) = Grip[GC] /\ Hand(GC)' = Grip'[GC]
      BY <3>1 DEF Grip
    <3> QED
      BY <1>1, <1>5, <3>1, <3>2 DEF Typed
  <2> QED
    BY <1>1, <1>3, <2>1, <2>2, <2>3 DEF Bodies
<1>11. Ends(s)'
  <2>1. pc'[GC] # pc[GC] => pc'[GC] = "publish"
    BY <1>1 DEF Typed, Thread
  <2> QED
    BY <1>1, <1>3, <2>1 DEF Ends, Popping
<1> QED
  BY <1>5, <1>7, <1>8, <1>9, <1>10, <1>11, Zenon DEF Settled, Frames

(* A client allocates a cell for its message.                              *)
LEMMA AllocateKeeps ==
    ASSUME Typed, Flow, Frames, NEW s \in Piles, Settled(s), NEW t \in Client, Allocate(t)
    PROVE  Frames' /\ Settled(s)'
<1> USE DEF Goto, Push, stacks, frames, history
<1>1. PICK c \in unused : Put(t, c) /\ unused' = unused \ {c}
  BY DEF Allocate
<1>2. /\ pc[t] = "popped" /\ v[t] = NULL /\ c \in Cell /\ t \in Thread /\ t # GC
      /\ body' = [body EXCEPT ![c] = msg[t]] /\ body'[c] = msg[t]
      /\ pc' = [pc EXCEPT ![t] = "join"] /\ pc'[t] = "join"
      /\ arg' = [arg EXCEPT ![t] = c] /\ arg'[t] = c
      /\ back' = [back EXCEPT ![t] = "idle"] /\ back'[t] = "idle"
      /\ on' = [on EXCEPT ![t] = "in"]
      /\ UNCHANGED <<link, top, v, x, v1, msg, closing>>
  BY <1>1, MessagesAssumption DEF Put, Allocate, Typed, Thread
<1>3. Alone(t)
  BY <1>2 DEF Alone, Typed
<1>4. Apart(s, Grip, unused) /\ Lists(s) /\ Bodies(s) /\ Ends(s)
  BY DEF Settled
<1>5. Hand(t) = <<>> /\ Hand(t)' = <<c>>
  BY <1>2 DEF Hand, Found, Popping, Pushing
<1>6. Grip' = [Grip EXCEPT ![t] = <<c>>] /\ Grip \in Hands /\ Grip[t] = <<>>
  BY <1>2, <1>3, <1>5, GripChanges, GripIsHands DEF Grip
<1>7. Apart(s, Grip', unused')
  <2>1. Apart(s, [Grip EXCEPT ![t] = <<c>>], unused \ {c})
    BY <1>2, <1>4, <1>6, AllocApart
  <2> QED
    BY <1>1, <1>6, <2>1
<1>8. Lists(s)'
  BY <1>2, <1>4 DEF Lists
<1>9. Frames'
  <2>1. \A u \in Thread : u # t =>
           /\ pc'[u] \in {"test", "load", "link", "store"} => v'[u] = top'[on'[u]]
           /\ pc'[u] \in {"load", "link", "store"} => v'[u] # NULL
           /\ pc'[u] = "link" => x'[u] = v'[u]
           /\ pc'[u] = "store" => x'[u] = link'[v'[u]]
           /\ pc'[u] = "publish" => link'[arg'[u]] = top'[on'[u]]
           /\ pc'[u] # "crash"
    BY <1>2, <1>3, OthersFrames
  <2> QED
    BY <1>2, <2>1 DEF Frames
<1>10. /\ \A l \in Stack : c \notin Of(s[l])
       /\ \A u \in Thread : c \notin Of(Hand(u))
  <2>1. InOne(c, s, Grip, unused) /\ \A u \in Thread : Grip[u] = Hand(u)
    BY <1>2, <1>4 DEF Apart, Grip
  <2>2. (\A l \in Stack : c \notin Of(s[l])) /\ \A u \in Thread : c \notin Of(Grip[u])
    BY <1>1, <2>1, Zenon DEF InOne
  <2> QED
    BY <2>1, <2>2
<1>11. Bodies(s)'
  <2>1. \A l \in {"in", "out"} : \A d \in Of(s[l]) : body'[d] \in Message
    BY <1>2, <1>4, <1>10 DEF Bodies, Stack, Typed
  <2>2. ASSUME NEW u \in Client, Pushing(u)'
        PROVE  body'[arg'[u]] = msg'[u]
    <3>1. CASE u = t
      BY <1>2, <3>1
    <3>2. CASE u # t
      <4>1. Pushing(u) /\ arg'[u] = arg[u] /\ u \in Thread
        BY <1>2, <2>2, <3>2 DEF Pushing, Typed, Thread
      <4>2. arg[u] # c
        BY <1>10, <4>1, ArgInHand
      <4> QED
        BY <1>2, <1>4, <4>1, <4>2 DEF Bodies, Typed
    <3> QED
      BY <3>1, <3>2
  <2>3. ASSUME pc'[GC] # "release", ~(Pushing(GC) /\ back[GC] = "again")'
        PROVE  \A d \in Of(Hand(GC)') : body'[d] \in Message
    <3>1. Hand(GC)' = Hand(GC) /\ pc'[GC] = pc[GC] /\ back'[GC] = back[GC] /\ GC \in Thread
      BY <1>2, <1>3, GcHandKept DEF Typed, Thread
    <3>2. pc[GC] # "release" /\ ~(Pushing(GC) /\ back[GC] = "again")
      BY <2>3, <3>1 DEF Pushing
    <3>3. \A d \in Of(Hand(GC)) : body[d] \in Message
      BY <1>4, <3>2, Zenon DEF Bodies
    <3>4. c \notin Of(Hand(GC))
      BY <1>10, <3>1
    <3> QED
      BY <1>2, <3>1, <3>3, <3>4 DEF Typed
  <2> QED
    BY <2>1, <2>2, <2>3, Zenon DEF Bodies
<1>12. Ends(s)'
  <2>1. pc'[GC] = pc[GC] /\ back'[GC] = back[GC]
    BY <1>2 DEF Typed
  <2> QED
    BY <1>2, <1>4, <2>1 DEF Ends, Popping
<1> QED
  BY <1>7, <1>8, <1>9, <1>11, <1>12 DEF Settled

(* The message that was got is freed, when the module is cleaned up.       *)
LEMMA ReleaseSentKeeps ==
    ASSUME Typed, Flow, Frames, NEW s \in Piles, Settled(s), ReleaseSent
    PROVE  Frames' /\ Settled(s)'
<1>1. /\ pc[GC] = "handle" /\ v1 \in Cell /\ GC \in Thread /\ closing
      /\ pc' = [pc EXCEPT ![GC] = "first"] /\ pc'[GC] = "first"
      /\ on' = [on EXCEPT ![GC] = "out"]
      /\ back' = [back EXCEPT ![GC] = "gotOut"] /\ back'[GC] = "gotOut"
      /\ unused' = unused \cup {v1}
      /\ UNCHANGED <<link, top, body, arg, v, x, v1, msg, closing>>
  BY DEF ReleaseSent, Pop, Goto, Typed, Flow, Thread
<1>2. Alone(GC)
  BY <1>1 DEF Alone, Typed
<1>3. Apart(s, Grip, unused) /\ Lists(s) /\ Bodies(s) /\ Ends(s)
  BY DEF Settled
<1>4. Hand(GC) = <<v1>> /\ Hand(GC)' = <<>>
  BY <1>1 DEF Hand, Popping, Pushing
<1>5. Apart(s, Grip', unused')
  <2>1. Grip' = [Grip EXCEPT ![GC] = <<>>] /\ Grip \in Hands /\ Grip[GC] = <<v1>>
    BY <1>1, <1>2, <1>4, GripChanges, GripIsHands DEF Grip
  <2>2. PICK c \in Cell : c = v1
    BY <1>1
  <2>3. Apart(s, [Grip EXCEPT ![GC] = <<>>], unused \cup {c})
    BY <1>1, <1>3, <2>1, <2>2, FreeApart
  <2> QED
    BY <1>1, <2>1, <2>2, <2>3
<1>6. Lists(s)'
  BY <1>1, <1>3 DEF Lists
<1>7. Frames'
  <2>1. \A u \in Thread : u # GC =>
           /\ pc'[u] \in {"test", "load", "link", "store"} => v'[u] = top'[on'[u]]
           /\ pc'[u] \in {"load", "link", "store"} => v'[u] # NULL
           /\ pc'[u] = "link" => x'[u] = v'[u]
           /\ pc'[u] = "store" => x'[u] = link'[v'[u]]
           /\ pc'[u] = "publish" => link'[arg'[u]] = top'[on'[u]]
           /\ pc'[u] # "crash"
    BY <1>1, <1>2, OthersFrames
  <2> QED
    BY <1>1, <2>1 DEF Frames
<1>8. Bodies(s)'
  <2>1. \A l \in {"in", "out"} : \A d \in Of(s[l]) : body'[d] \in Message
    BY <1>1, <1>3 DEF Bodies
  <2>2. \A u \in Client : Pushing(u)' => body'[arg'[u]] = msg'[u]
    BY <1>1, <1>3, MessagesAssumption DEF Bodies, Pushing, Typed, Thread
  <2>3. \A d \in Of(Hand(GC)') : body'[d] \in Message
    BY <1>4 DEF Of
  <2> QED
    BY <2>1, <2>2, <2>3, Zenon DEF Bodies
<1>9. Ends(s)'
  BY <1>1, <1>3 DEF Ends, Popping
<1> QED
  BY <1>5, <1>6, <1>7, <1>8, <1>9 DEF Settled

(* A free message is freed, or there is none left.                         *)
LEMMA ReleaseFreeKeeps ==
    ASSUME Typed, Flow, Frames, NEW s \in Piles, Settled(s), ReleaseFree
    PROVE  Frames' /\ Settled(s)'
<1>1. /\ pc[GC] = "release" /\ GC \in Thread /\ v[GC] \in Link
      /\ pc' = [pc EXCEPT ![GC] = pc'[GC]]
      /\ \A u \in Thread : u # GC => on'[u] = on[u] /\ back'[u] = back[u] /\ pc'[u] = pc[u]
      /\ UNCHANGED <<link, top, body, arg, v, x, v1, msg, closing>>
  BY DEF ReleaseFree, Pop, Goto, Typed, Flow, Thread
<1>2. Alone(GC)
  BY <1>1 DEF Alone
<1>3. Apart(s, Grip, unused) /\ Lists(s) /\ Bodies(s) /\ Ends(s)
  BY DEF Settled
<1>4. s["in"] = <<>> /\ s["out"] = <<>> /\ (v[GC] = NULL => s["free"] = <<>>)
  BY <1>1, <1>3 DEF Ends
<1>5. Hand(GC) = Found(v[GC]) /\ Hand(GC)' = <<>>
  <2>1. pc'[GC] = "done" \/ (pc'[GC] = "first" /\ back'[GC] = "release")
    BY DEF ReleaseFree, Pop, Goto, Typed, Thread
  <2> QED
    BY <1>1, <2>1 DEF Hand, Popping, Pushing
<1>6. Apart(s, Grip', unused')
  <2>1. Grip' = [Grip EXCEPT ![GC] = <<>>] /\ Grip \in Hands /\ Grip[GC] = Found(v[GC])
    BY <1>1, <1>2, <1>5, GripChanges, GripIsHands DEF Grip
  <2>2. CASE v[GC] = NULL
    <3>1. unused' = unused
      BY <2>2 DEF ReleaseFree
    <3>2. Grip' = Grip
      BY <1>1, <2>1, <2>2 DEF Grip, Found
    <3> QED
      BY <1>3, <3>1, <3>2
  <2>3. CASE v[GC] # NULL
    <3>1. PICK c \in Cell : c = v[GC]
      BY <1>1, <2>3 DEF Link
    <3>2. unused' = unused \cup {c} /\ Grip[GC] = <<c>>
      BY <2>1, <2>3, <3>1 DEF ReleaseFree, Found
    <3>3. Apart(s, [Grip EXCEPT ![GC] = <<>>], unused \cup {c})
      BY <1>1, <1>3, <2>1, <3>2, FreeApart
    <3> QED
      BY <2>1, <3>2, <3>3
  <2> QED
    BY <2>2, <2>3
<1>7. Lists(s)'
  BY <1>1, <1>3 DEF Lists
<1>8. Frames'
  <2>1. \A u \in Thread : u # GC =>
           /\ pc'[u] \in {"test", "load", "link", "store"} => v'[u] = top'[on'[u]]
           /\ pc'[u] \in {"load", "link", "store"} => v'[u] # NULL
           /\ pc'[u] = "link" => x'[u] = v'[u]
           /\ pc'[u] = "store" => x'[u] = link'[v'[u]]
           /\ pc'[u] = "publish" => link'[arg'[u]] = top'[on'[u]]
           /\ pc'[u] # "crash"
    BY <1>1, <1>2, OthersFrames
  <2>2. pc'[GC] \in {"done", "first"}
    BY DEF ReleaseFree, Pop, Goto, Typed, Thread
  <2> QED
    BY <1>1, <2>1, <2>2 DEF Frames
<1>9. Bodies(s)'
  <2>1. \A l \in {"in", "out"} : \A d \in Of(s[l]) : body'[d] \in Message
    BY <1>1, <1>3 DEF Bodies
  <2>2. \A u \in Client : Pushing(u)' => body'[arg'[u]] = msg'[u]
    BY <1>1, <1>3, MessagesAssumption DEF Bodies, Pushing, Typed, Thread
  <2>3. \A d \in Of(Hand(GC)') : body'[d] \in Message
    BY <1>5 DEF Of
  <2> QED
    BY <2>1, <2>2, <2>3, Zenon DEF Bodies
<1>10. Ends(s)'
  <2>1. \/ v[GC] = NULL /\ pc'[GC] = "done"
        \/ pc'[GC] = "first" /\ back'[GC] = "release"
    BY DEF ReleaseFree, Pop, Goto, Typed, Thread
  <2> QED
    BY <1>1, <1>4, <2>1 DEF Ends, Popping
<1> QED
  BY <1>6, <1>7, <1>8, <1>9, <1>10 DEF Settled
-----------------------------------------------------------------------------
(* What sgc_message_module_init allocates is in some order, each once.     *)
LEMMA PileOfPool ==
    /\ SetToSeq(Pool) \in Seq(Cell) /\ SetToSeq(Pool) \in Seq(Pool)
    /\ Once(SetToSeq(Pool)) /\ Of(SetToSeq(Pool)) = Pool
<1> DEFINE n == Cardinality(Pool)
           p == SetToSeq(Pool)
<1>1. IsFiniteSet(Pool) /\ Pool \subseteq Cell
  BY MessagesAssumption, FS_Subset
<1>2. n \in Nat /\ ExistsBijection(1..n, Pool)
  BY <1>1, FS_CardinalityType
<1>3. \E f \in [1..n -> Pool] : IsInjective(f)
  BY <1>2 DEF ExistsBijection, Bijection, Injection
<1>4. p \in [1..n -> Pool] /\ IsInjective(p)
  BY <1>3 DEF SetToSeq
<1>5. p \in Seq(Pool) /\ Len(p) = n /\ p \in Seq(Cell)
  <2> HIDE DEF p, n
  <2> QED
    BY <1>1, <1>2, <1>4
<1>6. Once(p)
  BY <1>2, <1>4, <1>5 DEF Once, IsInjective
<1>7. p \in Surjection(1..n, Pool)
  <2>1. p \in Injection(1..n, Pool)
    BY <1>4 DEF Injection
  <2>2. IsFiniteSet(1..n) /\ Cardinality(1..n) = n
    BY <1>2, FS_Interval
  <2> QED
    BY <1>1, <2>1, <2>2, FS_Injection
<1>8. Of(p) = Pool
  BY <1>2, <1>4, <1>5, <1>7 DEF Of, Surjection
<1> QED
  BY <1>5, <1>6, <1>8

(* At the start they are on the free list, linked in that order, and the   *)
(* queue is empty.                                                         *)
LEMMA InitSettles ==
    ASSUME Init
    PROVE  Typed /\ Flow /\ Frames /\ \E s \in Piles : Settled(s)
<1> DEFINE p == SetToSeq(Pool)
           n == Len(p)
<1>1. /\ p \in Seq(Cell) /\ Once(p) /\ Of(p) = Pool /\ n \in Nat
      /\ \A i \in 1..n : p[i] \in Cell /\ p[i] # NULL
  BY PileOfPool, MessagesAssumption
<1>2. /\ link = [c \in Cell |-> IF \E i \in 2..n : p[i-1] = c
                                THEN p[CHOOSE i \in 2..n : p[i-1] = c] ELSE NULL]
      /\ top = [l \in Stack |-> IF l = "free" /\ Pool # {} THEN p[1] ELSE NULL]
  BY DEF Init
<1>3. /\ \A i, j \in 1..n : p[i] = p[j] => i = j
      /\ n = 0 <=> Pool = {}
  <2>1. Pool = {p[i] : i \in 1..n}
    BY <1>1 DEF Of
  <2>2. n \in Nat /\ \A i, j \in 1..n : p[i] = p[j] => i = j
    BY <1>1 DEF Once
  <2> HIDE DEF p, n
  <2>3. n # 0 => 1 \in 1..n
    BY <2>2
  <2> QED
    BY <2>1, <2>2, <2>3
<1> HIDE DEF p, n
<1>4. Typed
  <2>1. link \in [Cell -> Link]
    <3>1. ASSUME NEW c \in Cell, \E i \in 2..n : p[i-1] = c
          PROVE  p[CHOOSE i \in 2..n : p[i-1] = c] \in Link
      <4>1. (CHOOSE i \in 2..n : p[i-1] = c) \in 2..n
        BY <3>1
      <4> QED
        BY <1>1, <4>1 DEF Link
    <3> QED
      BY <1>2, <3>1 DEF Link
  <2>2. top \in [Stack -> Link]
    BY <1>1, <1>2, <1>3 DEF Link
  <2>3. /\ body = [c \in Cell |-> NULL] /\ unused \subseteq Cell
        /\ pc = [t \in Thread |-> "idle"] /\ on = [t \in Thread |-> "free"]
        /\ back = [t \in Thread |-> "idle"] /\ arg = [t \in Thread |-> NULL]
        /\ v = [t \in Thread |-> NULL] /\ x = [t \in Thread |-> NULL]
        /\ v1 = NULL /\ msg = [t \in Client |-> NULL] /\ begun = {} /\ dropped = {}
        /\ handled = [m \in Message |-> 0] /\ closing \in BOOLEAN /\ raced \in BOOLEAN
    BY DEF Init
  <2> QED
    BY <2>1, <2>2, <2>3 DEF Typed, Link, Stack, Place
<1>5. Flow /\ Frames
  BY MessagesAssumption DEF Init, Flow, Frames, Popping, Pushing, Thread
<1>6. PICK s \in Piles : s["free"] = p /\ s["in"] = <<>> /\ s["out"] = <<>>
  <2> DEFINE s == [l \in Stack |-> IF l = "free" THEN p ELSE <<>>]
  <2>1. s \in Piles /\ s["free"] = p /\ s["in"] = <<>> /\ s["out"] = <<>>
    BY <1>1 DEF Piles, Stack
  <2> QED
    BY <2>1, Zenon
<1>7. Lists(s)
  <2>1. Chain(p, n, top["free"], link, NULL)
    <3>1. top["free"] = IF n = 0 THEN NULL ELSE p[1]
      BY <1>2, <1>3 DEF Stack
    <3>2. ASSUME NEW i \in 1..n
          PROVE  p[i] # NULL /\ link[p[i]] = IF i = n THEN NULL ELSE p[i+1]
      <4>1. p[i] \in Cell /\ p[i] # NULL
        BY <1>1
      <4>2. CASE i = n
        <5>1. \A j \in 2..n : p[j-1] # p[i]
          <6>1. \A j \in 2..n : j - 1 \in 1..n /\ j - 1 # i
            BY <1>1, <4>2
          <6> QED
            BY <1>3, <6>1
        <5> QED
          BY <1>2, <4>1, <4>2, <5>1
      <4>3. CASE i # n
        <5>1. i + 1 \in 2..n /\ p[(i+1)-1] = p[i]
          BY <1>1, <4>3
        <5>2. PICK j \in 2..n : j = CHOOSE k \in 2..n : p[k-1] = p[i]
          BY <5>1
        <5>3. p[j-1] = p[i] /\ link[p[i]] = p[j]
          BY <1>2, <4>1, <5>1, <5>2
        <5>4. j - 1 \in 1..n
          BY <1>1
        <5>5. j - 1 = i
          BY <1>3, <5>3, <5>4
        <5>6. j = i + 1
          BY <5>5
        <5> QED
          BY <4>1, <4>3, <5>3, <5>6
      <4> QED
        BY <4>2, <4>3
    <3> QED
      BY <3>1, <3>2 DEF Chain
  <2>2. Chain(<<>>, 0, top["in"], link, NULL) /\ Chain(<<>>, 0, top["out"], link, NULL)
    BY <1>2 DEF Chain, Stack
  <2> QED
    BY <1>6, <2>1, <2>2 DEF Lists, Stack, n
<1>8. \A t \in Thread : Hand(t) = <<>>
  BY DEF Init, Hand, Popping, Pushing
<1>9. Apart(s, Grip, unused)
  <2>1. Of(<<>>) = {} /\ Once(<<>>)
    BY DEF Of, Once
  <2>2. /\ Of(s["free"]) = Pool /\ Of(s["in"]) = {} /\ Of(s["out"]) = {}
        /\ \A l \in Stack : Once(s[l])
    BY <1>1, <1>6, <2>1 DEF Stack
  <2>3. \A t \in Thread : Of(Grip[t]) = {} /\ Once(Grip[t])
    BY <1>8, <2>1 DEF Grip
  <2>4. unused = Cell \ Pool /\ Pool \subseteq Cell
    BY MessagesAssumption DEF Init
  <2>5. ASSUME NEW c \in Cell
        PROVE  InOne(c, s, Grip, unused)
    <3>1. CASE c \in Pool
      <4>1. \A k \in Stack : c \in Of(s[k]) <=> k = "free"
        BY <2>2, <3>1 DEF Stack
      <4>2. "free" \in Stack
        BY DEF Stack
      <4>3. c \notin unused
        BY <2>4, <3>1
      <4> QED
        BY <2>3, <4>1, <4>2, <4>3 DEF InOne
    <3>2. CASE c \notin Pool
      <4>1. \A k \in Stack : c \notin Of(s[k])
        BY <2>2, <3>2 DEF Stack
      <4> QED
        BY <2>3, <2>4, <3>2, <4>1 DEF InOne
    <3> QED
      BY <3>1, <3>2
  <2> QED
    BY <2>2, <2>3, <2>5 DEF Apart
<1>10. Bodies(s)
  <2>1. Of(s["in"]) = {} /\ Of(s["out"]) = {} /\ Of(Hand(GC)) = {}
    BY <1>6, <1>8 DEF Of, Thread
  <2> QED
    BY <2>1 DEF Bodies, Init, Pushing, Thread
<1>11. Ends(s)
  BY <1>6 DEF Ends, Init, Popping, Thread
<1> QED
  BY <1>4, <1>5, <1>7, <1>9, <1>10, <1>11, Zenon DEF Settled

LEMMA StutterSettles ==
    ASSUME Frames, NEW s \in Piles, Settled(s), UNCHANGED vars
    PROVE  Frames' /\ Settled(s)'
<1>1. Frames'
  BY DEF Frames, vars, stacks, frames
<1>2. /\ UNCHANGED <<link, top, body, unused, pc, back, arg, v, v1, msg, closing>>
      /\ Grip' = Grip /\ Hand(GC)' = Hand(GC)
  BY DEF Grip, Hand, Popping, Pushing, vars, stacks, frames
<1>3. Lists(s)' /\ Apart(s, Grip', unused')
  BY <1>2 DEF Settled, Lists
<1>4. Bodies(s)' /\ Ends(s)'
  BY <1>2 DEF Settled, Bodies, Ends, Pushing, Popping
<1> QED
  BY <1>1, <1>3, <1>4, Zenon DEF Settled

(* No step that is not the first race breaks it.                           *)
LEMMA MInvPreserved == MInv /\ [Next]_vars => MInv'
<1> SUFFICES ASSUME MInv, [Next]_vars
             PROVE  MInv'
  OBVIOUS
<1>1. Typed /\ Flow /\ Typed' /\ Flow'
  BY FlowPreserved DEF MInv
<1> SUFFICES ASSUME ~raced'
             PROVE  Frames' /\ \E r \in Piles : Settled(r)'
  BY <1>1, Zenon DEF MInv
<1>2. ~raced
  <2>1. raced' = raced \/ \E t \in Thread : StoreTop(t) \/ Publish(t)
    BY DEF Next, vars, history, StackStep, First, Test, LoadTop, LoadLink, Join, Send, Sending,
           Reuse, Allocate, GiveUp, Put, Collector, Get, GotOut, GotIn, GotNext, Moved, Handle,
           ReleaseSent, ReleaseFree, Close, Rest
  <2> QED
    BY <2>1 DEF StoreTop, Publish, SetTop
<1>3. Frames
  BY <1>2 DEF MInv
<1>4. PICK s \in Piles : Settled(s)
  BY <1>2 DEF MInv
<1>5. ASSUME NEW t \in Thread, QuietStep(t)
      PROVE  Frames' /\ \E r \in Piles : Settled(r)'
  <2>1. Frames' /\ Settled(s)'
    BY <1>1, <1>3, <1>4, <1>5, QuietSettles
  <2> QED
    BY <2>1, Zenon
<1>6. ASSUME NEW t \in Thread, StoreTop(t)
      PROVE  Frames' /\ \E r \in Piles : Settled(r)'
  <2>1. /\ Frames'
        /\ \E r \in Piles, q \in Seq(Cell) : /\ s[on[t]] = Before(v[t], q)
                                             /\ r = [s EXCEPT ![on[t]] = q]
                                             /\ Settled(r)'
    BY <1>1, <1>3, <1>4, <1>6, TakeKeeps
  <2> QED
    BY <2>1, Zenon
<1>7. ASSUME NEW t \in Thread, Publish(t)
      PROVE  Frames' /\ \E r \in Piles : Settled(r)'
  <2>1. /\ Frames'
        /\ \E r \in Piles : r = [s EXCEPT ![on[t]] = Before(arg[t], s[on[t]])] /\ Settled(r)'
    BY <1>1, <1>3, <1>4, <1>7, GiveKeeps
  <2> QED
    BY <2>1, Zenon
<1>8. ASSUME NEW t \in Thread, Join(t)
      PROVE  Frames' /\ \E r \in Piles : Settled(r)'
  <2>1. Frames' /\ Settled(s)'
    BY <1>1, <1>3, <1>4, <1>8, JoinKeeps
  <2> QED
    BY <2>1, Zenon
<1>9. ASSUME NEW t \in Client, Allocate(t)
      PROVE  Frames' /\ \E r \in Piles : Settled(r)'
  <2>1. Frames' /\ Settled(s)'
    BY <1>1, <1>3, <1>4, <1>9, AllocateKeeps
  <2> QED
    BY <2>1, Zenon
<1>10. CASE ReleaseSent \/ ReleaseFree
  <2>1. Frames' /\ Settled(s)'
    BY <1>1, <1>3, <1>4, <1>10, ReleaseSentKeeps, ReleaseFreeKeeps
  <2> QED
    BY <2>1, Zenon
<1>11. CASE UNCHANGED vars
  <2>1. Frames' /\ Settled(s)'
    BY <1>3, <1>4, <1>11, StutterSettles
  <2> QED
    BY <2>1, Zenon
<1> QED
  <2>1. GC \in Thread /\ \A t \in Client : t \in Thread
    BY DEF Thread
  <2>2. CASE \E t \in Thread : StackStep(t)
    <3>1. PICK t \in Thread : StackStep(t)
      BY <2>2
    <3> QED
      BY <1>5, <1>6, <1>7, <1>8, <3>1 DEF StackStep, QuietStep
  <2>3. CASE \E t \in Client, m \in Message : Send(t, m)
    <3>1. PICK t \in Client, m \in Message : Send(t, m)
      BY <2>3
    <3>2. QuietStep(t)
      BY <3>1 DEF QuietStep
    <3> QED
      BY <1>5, <2>1, <3>2
  <2>4. CASE \E t \in Client : Sending(t)
    <3>1. PICK t \in Client : Sending(t)
      BY <2>4
    <3>2. QuietStep(t) \/ Allocate(t)
      BY <3>1 DEF QuietStep, Sending
    <3> QED
      BY <1>5, <1>9, <2>1, <3>2
  <2>5. CASE Collector \/ Close
    <3>1. QuietStep(GC) \/ ReleaseSent \/ ReleaseFree
      BY <2>5 DEF Collector, QuietStep
    <3> QED
      BY <1>5, <1>10, <2>1, <3>1
  <2> QED
    BY <1>11, <2>2, <2>3, <2>4, <2>5 DEF Next

LEMMA MessagesInvariant == Spec => []MInv
<1>1. Init => MInv
  BY InitSettles, Zenon DEF MInv
<1> QED
  BY <1>1, MInvPreserved, PTL DEF Spec
-----------------------------------------------------------------------------
(* Every variable of the queue keeps its type, and what the collector is   *)
(* about to handle is a message that a client has filled in.               *)
THEOREM MessagesTypeCorrect == Spec => []TypeOK
<1>1. MInv => TypeOK
  <2> SUFFICES ASSUME MInv, pc[GC] = "handle", ~raced
               PROVE  v1 \in Cell /\ body[v1] \in Message
    BY DEF TypeOK, MInv
  <2>1. v1 \in Cell
    BY DEF MInv, Flow
  <2>2. PICK s \in Piles : Bodies(s)
    BY DEF MInv, Settled
  <2>3. Hand(GC) = <<v1>> /\ ~Pushing(GC)
    BY DEF Hand, Popping, Pushing
  <2>4. v1 \in Of(Hand(GC))
    <3>1. 1 \in 1..Len(<<v1>>) /\ <<v1>>[1] = v1
      OBVIOUS
    <3> QED
      BY <2>3, <3>1 DEF Of
  <2> QED
    BY <2>1, <2>2, <2>3, <2>4 DEF Bodies
<1> QED
  BY <1>1, MessagesInvariant, PTL

(* Where c is found in sequences of different members: nowhere, or in one  *)
(* place, if it is in one of them.                                         *)
Places(K, P, f, c) == {p \in K \X P : p[2] \in DOMAIN f[p[1]] /\ f[p[1]][p[2]] = c}

LEMMA PlacesCount ==
    ASSUME NEW K, NEW P, NEW f, NEW c,
           \A k \in K : f[k] \in Seq(Cell) /\ Once(f[k]) /\ 1..Len(f[k]) \subseteq P
    PROVE  /\ (\A k \in K : c \notin Of(f[k])) => Cardinality(Places(K, P, f, c)) = 0
           /\ \A l \in K : (\A k \in K : c \in Of(f[k]) <=> k = l)
                            => Cardinality(Places(K, P, f, c)) = 1
<1> DEFINE S == Places(K, P, f, c)
<1>1. \A k \in K : DOMAIN f[k] = 1..Len(f[k])
  OBVIOUS
<1>2. \A p \in S : p[1] \in K /\ p[2] \in 1..Len(f[p[1]]) /\ f[p[1]][p[2]] = c /\ p = <<p[1], p[2]>>
  BY <1>1 DEF Places
<1>3. ASSUME \A k \in K : c \notin Of(f[k])
      PROVE  Cardinality(S) = 0
  <2>1. S = {}
    BY <1>2, <1>3 DEF Of
  <2> QED
    BY <2>1, FS_EmptySet
<1>4. ASSUME NEW l \in K, \A k \in K : c \in Of(f[k]) <=> k = l
      PROVE  Cardinality(S) = 1
  <2>1. PICK i \in 1..Len(f[l]) : f[l][i] = c
    BY <1>4 DEF Of
  <2>2. <<l, i>> \in S
    BY <1>1, <2>1 DEF Places
  <2>3. ASSUME NEW p \in S
        PROVE  p = <<l, i>>
    <3>1. p[1] = l
      BY <1>2, <1>4 DEF Of
    <3>2. p[2] = i
      BY <1>2, <2>1, <3>1 DEF Once
    <3> QED
      BY <1>2, <3>1, <3>2
  <2>4. S = {<<l, i>>}
    BY <2>2, <2>3
  <2> QED
    BY <2>4, FS_Singleton
<1> QED
  BY <1>3, <1>4

(* As long as no two threads met at a stack each cell is not allocated, or *)
(* on one stack, or in the hands of one thread, and once; at the end all   *)
(* have been given back, and no thread has loaded through NULL.            *)
THEOREM CellsInOnePlace == Spec => []EachCellOnce
<1>1. MInv => EachCellOnce
  <2> SUFFICES ASSUME MInv, ~raced
               PROVE  /\ \A c \in Cell : (IF c \in unused THEN 1 ELSE 0)
                                   + Cardinality(OnStacks(c)) + Cardinality(InHands(c)) = 1
                      /\ pc[GC] = "done" => unused = Cell
                      /\ \A t \in Thread : pc[t] # "crash"
    BY DEF EachCellOnce
  <2>1. Typed /\ Flow /\ Frames
    BY DEF MInv
  <2>2. PICK s \in Piles : Settled(s)
    BY DEF MInv
  <2>3. Apart(s, Grip, unused) /\ Ends(s) /\ Lists(s)
    BY <2>2 DEF Settled
  <2>4. ASSUME NEW l \in Stack
        PROVE  /\ Cells(l) = s[l] /\ s[l] \in Seq(Cell) /\ Once(s[l])
               /\ 1..Len(s[l]) \subseteq 1..Cardinality(Cell) + 1
    <3>1. s[l] \in Seq(Cell) /\ Once(s[l]) /\ Chain(s[l], Len(s[l]), top[l], link, NULL)
      BY <2>3 DEF Apart, Lists, Piles
    <3>2. Cells(l) = s[l]
      BY <3>1, CellsAre
    <3>3. /\ Len(s[l]) \in Nat /\ \A i \in 1..Len(s[l]) : s[l][i] \in Cell
          /\ \A i, j \in 1..Len(s[l]) : s[l][i] = s[l][j] => i = j
      BY <3>1 DEF Once
    <3>4. Cardinality(Cell) \in Nat /\ Len(s[l]) <= Cardinality(Cell)
      BY <3>3, ChainIsShort, MessagesAssumption
    <3> QED
      BY <3>1, <3>2, <3>3, <3>4
  <2>5. PICK h \in Hands : h = Grip
    BY <2>1, GripIsHands
  <2>6. ASSUME NEW t \in Thread
        PROVE  Hand(t) = h[t] /\ h[t] \in Seq(Cell) /\ Once(h[t]) /\ 1..Len(h[t]) \subseteq {1, 2}
    <3>1. Hand(t) = h[t] /\ h[t] \in Seq(Cell) /\ Once(h[t])
      BY <2>3, <2>5 DEF Grip, Apart, Hands
    <3>2. Len(Hand(t)) \in {0, 1, 2}
      BY DEF Hand, Found
    <3>3. 1..0 = {} /\ 1..1 = {1} /\ 1..2 = {1, 2}
      OBVIOUS
    <3>4. Len(h[t]) = 0 \/ Len(h[t]) = 1 \/ Len(h[t]) = 2
      BY <3>1, <3>2
    <3>5. 1..Len(h[t]) \subseteq {1, 2}
      BY <3>3, <3>4
    <3> QED
      BY <3>1, <3>5
  <2>7. ASSUME NEW c \in Cell
        PROVE  (IF c \in unused THEN 1 ELSE 0)
                  + Cardinality(OnStacks(c)) + Cardinality(InHands(c)) = 1
    <3>1. PICK P, Q : P = 1..Cardinality(Cell) + 1 /\ Q = {1, 2}
      OBVIOUS
    <3>2. OnStacks(c) = Places(Stack, P, s, c) /\ InHands(c) = Places(Thread, Q, h, c)
      BY <2>4, <2>6, <3>1 DEF OnStacks, InHands, Places
    <3>3. /\ (\A k \in Stack : c \notin Of(s[k])) => Cardinality(Places(Stack, P, s, c)) = 0
          /\ \A l \in Stack : (\A k \in Stack : c \in Of(s[k]) <=> k = l)
                                 => Cardinality(Places(Stack, P, s, c)) = 1
      <4>1. \A k \in Stack : s[k] \in Seq(Cell) /\ Once(s[k]) /\ 1..Len(s[k]) \subseteq P
        BY <2>4, <3>1
      <4> QED
        BY <4>1, PlacesCount, Zenon
    <3>4. /\ (\A u \in Thread : c \notin Of(h[u])) => Cardinality(Places(Thread, Q, h, c)) = 0
          /\ \A t \in Thread : (\A u \in Thread : c \in Of(h[u]) <=> u = t)
                                  => Cardinality(Places(Thread, Q, h, c)) = 1
      <4>1. \A u \in Thread : h[u] \in Seq(Cell) /\ Once(h[u]) /\ 1..Len(h[u]) \subseteq Q
        BY <2>6, <3>1
      <4> QED
        BY <4>1, PlacesCount, Zenon
    <3>5. InOne(c, s, h, unused)
      BY <2>3, <2>5 DEF Apart
    <3> QED
      BY <3>2, <3>3, <3>4, <3>5 DEF InOne
  <2>8. ASSUME pc[GC] = "done"
        PROVE  unused = Cell
    <3>1. closing /\ GC \in Thread
      BY <2>1, <2>8 DEF Flow, Thread
    <3>2. \A t \in Thread : Hand(t) = <<>>
      BY <2>1, <2>8, <3>1 DEF Flow, Thread, Hand, Popping, Pushing
    <3>3. Of(<<>>) = {}
      BY DEF Of
    <3>4. \A l \in Stack : Of(s[l]) = {}
      BY <2>3, <2>8, <3>3 DEF Ends, Stack
    <3>5. \A t \in Thread : Of(Grip[t]) = {}
      BY <3>2, <3>3 DEF Grip
    <3>6. \A c \in Cell : InOne(c, s, Grip, unused)
      BY <2>3 DEF Apart
    <3>7. \A c \in Cell : c \in unused
      BY <3>4, <3>5, <3>6 DEF InOne
    <3> QED
      BY <2>1, <3>7 DEF Typed
  <2>9. \A t \in Thread : pc[t] # "crash"
    BY <2>1 DEF Frames
  <2> QED
    BY <2>7, <2>8, <2>9
<1> QED
  BY <1>1, MessagesInvariant, PTL
-----------------------------------------------------------------------------
(* The queue that a held cell h and the stacks in and out are: f says that *)
(* sgc_fifo_get is fetching.  Texts: what the cells of a queue say.        *)
Order(f, h, in, out) == IF f THEN Reverse(in) \o (h \o out) ELSE (h \o out) \o Reverse(in)
Texts(b, q) == [i \in DOMAIN q |-> b[q[i]]]

LEMMA ReverseBefore ==
    ASSUME NEW q \in Seq(Cell), NEW c \in Cell
    PROVE  /\ Reverse(q) \in Seq(Cell) /\ Len(Reverse(q)) = Len(q)
           /\ Reverse(Before(c, q)) = Reverse(q) \o <<c>>
<1> DEFINE n == Len(q)
           r == Before(c, q)
<1>1. n \in Nat /\ r \in Seq(Cell) /\ Len(r) = n + 1 /\ r[1] = c /\ \A i \in 1..n : r[i+1] = q[i]
  BY BeforeIsSeq
<1>2. Reverse(q) = [i \in 1..n |-> q[(n-i)+1]] /\ Reverse(r) = [i \in 1..n+1 |-> r[((n+1)-i)+1]]
  BY <1>1 DEF Reverse
<1>3. Reverse(q) \in Seq(Cell) /\ Len(Reverse(q)) = n
  <2>1. \A i \in 1..n : (n-i)+1 \in 1..n /\ q[(n-i)+1] \in Cell
    BY <1>1
  <2> QED
    BY <1>1, <1>2, <2>1
<1> HIDE DEF n, r
<1>4. Reverse(r) = Reverse(q) \o <<c>>
  <2>1. ASSUME NEW i \in 1..n+1
        PROVE  r[((n+1)-i)+1] = IF i = n + 1 THEN c ELSE q[(n-i)+1]
    <3>1. CASE i = n + 1
      BY <1>1, <3>1
    <3>2. CASE i # n + 1
      <4>1. (n-i)+1 \in 1..n /\ ((n+1)-i)+1 = ((n-i)+1)+1
        BY <1>1, <3>2
      <4> QED
        BY <1>1, <3>2, <4>1
    <3> QED
      BY <3>1, <3>2
  <2>2. PICK p \in Seq(Cell) : p = Reverse(q) /\ Len(p) = n /\ \A i \in 1..n : p[i] = q[(n-i)+1]
    BY <1>2, <1>3
  <2>3. p \o <<c>> = [i \in 1..n+1 |-> IF i = n + 1 THEN c ELSE p[i]]
    BY <1>1, <2>2
  <2>4. Reverse(r) = [i \in 1..n+1 |-> IF i = n + 1 THEN c ELSE p[i]]
    BY <1>1, <1>2, <2>1, <2>2
  <2> QED
    BY <2>2, <2>3, <2>4
<1> QED
  BY <1>3, <1>4 DEF n, r

LEMMA OrderIsSeq ==
    ASSUME NEW i \in Seq(Cell), NEW o \in Seq(Cell), NEW h \in Seq(Cell), NEW f \in BOOLEAN
    PROVE  Order(f, h, i, o) \in Seq(Cell)
<1>1. PICK r \in Seq(Cell) : r = Reverse(i)
  <2>1. \A j \in 1..Len(i) : i[(Len(i)-j)+1] \in Cell
    OBVIOUS
  <2>2. Reverse(i) \in Seq(Cell)
    BY <2>1 DEF Reverse
  <2> QED
    BY <2>2
<1>2. r \o (h \o o) \in Seq(Cell) /\ (h \o o) \o r \in Seq(Cell)
  OBVIOUS
<1> QED
  BY <1>1, <1>2 DEF Order

(* What the steps of sgc_fifo_get do to the queue: a cell is taken from    *)
(* 'out', and is then the first.                                           *)
LEMMA TakenOrder ==
    ASSUME NEW i \in Seq(Cell), NEW o \in Seq(Cell), NEW c \in Cell
    PROVE  Order(FALSE, <<c>>, i, o) = Order(FALSE, <<>>, i, Before(c, o))
<1>1. PICK r \in Seq(Cell) : r = Reverse(i)
  BY ReverseBefore
<1>2. (<<c>> \o o) \o r = (<<>> \o (<<c>> \o o)) \o r
  OBVIOUS
<1> QED
  BY <1>1, <1>2 DEF Order, Before

LEMMA HandledOrder ==
    ASSUME NEW i \in Seq(Cell), NEW o \in Seq(Cell), NEW c \in Cell
    PROVE  Order(FALSE, <<c>>, i, o) = <<c>> \o Order(FALSE, <<>>, i, o)
<1>1. PICK r \in Seq(Cell) : r = Reverse(i)
  BY ReverseBefore
<1>2. (<<c>> \o o) \o r = <<c>> \o ((<<>> \o o) \o r)
  OBVIOUS
<1> QED
  BY <1>1, <1>2 DEF Order

(* The newest is taken from 'in', when 'out' is empty, and then the next.  *)
LEMMA FetchOrder ==
    ASSUME NEW i \in Seq(Cell), NEW c \in Cell
    PROVE  /\ Order(TRUE, <<c>>, i, <<>>) = Order(FALSE, <<>>, Before(c, i), <<>>)
           /\ Order(TRUE, <<c>>, i, <<>>) # <<>>
<1>1. PICK r \in Seq(Cell) : r = Reverse(i) /\ Reverse(Before(c, i)) = r \o <<c>>
  BY ReverseBefore
<1>2. r \o (<<c>> \o <<>>) = (<<>> \o <<>>) \o (r \o <<c>>) /\ r \o (<<c>> \o <<>>) # <<>>
  OBVIOUS
<1> QED
  BY <1>1, <1>2 DEF Order

LEMMA PairConcat ==
    ASSUME NEW o \in Seq(Cell), NEW c \in Cell, NEW d \in Cell
    PROVE  /\ <<c, d>> \o o = <<c>> \o (<<d>> \o o) /\ <<d>> \o o \in Seq(Cell)
           /\ <<c, d>> = <<c>> \o <<d>>
<1>1. <<c>> \in Seq(Cell) /\ <<d>> \in Seq(Cell) /\ <<c, d>> \in Seq(Cell)
      /\ Len(<<c>>) = 1 /\ Len(<<d>>) = 1 /\ Len(<<c, d>>) = 2
  OBVIOUS
<1>2. /\ <<c>> \o <<d>> \in Seq(Cell) /\ Len(<<c>> \o <<d>>) = 2
      /\ (<<c>> \o <<d>>)[1] = c /\ (<<c>> \o <<d>>)[2] = d
  OBVIOUS
<1>3. \A i \in 1..2 : <<c, d>>[i] = (<<c>> \o <<d>>)[i]
  BY <1>2
<1>4. PICK X \in Seq(Cell), Y \in Seq(Cell) : X = <<c, d>> /\ Y = <<c>> \o <<d>>
  BY <1>1, <1>2
<1>5. X = Y
  BY <1>1, <1>2, <1>3, <1>4, SeqEqual
<1>6. PICK C \in Seq(Cell), D \in Seq(Cell) : C = <<c>> /\ D = <<d>>
  BY <1>1
<1>7. (C \o D) \o o = C \o (D \o o) /\ D \o o \in Seq(Cell)
  OBVIOUS
<1> QED
  BY <1>4, <1>5, <1>6, <1>7

LEMMA NextOrder ==
    ASSUME NEW i \in Seq(Cell), NEW o \in Seq(Cell), NEW c \in Cell, NEW d \in Cell
    PROVE  Order(TRUE, <<c, d>>, i, o) = Order(TRUE, <<d>>, Before(c, i), o)
<1>1. PICK r \in Seq(Cell) : r = Reverse(i) /\ Reverse(Before(c, i)) = r \o <<c>>
  BY ReverseBefore
<1>2. PICK p \in Seq(Cell) : p = <<d>> \o o
  BY PairConcat
<1>3. <<c, d>> \o o = <<c>> \o p
  BY <1>2, PairConcat
<1>4. r \o (<<c>> \o p) = (r \o <<c>>) \o p
  OBVIOUS
<1> QED
  BY <1>1, <1>2, <1>3, <1>4 DEF Order

(* A cell goes over to 'out', and the end of 'in' is seen.                 *)
LEMMA MovedOrder ==
    ASSUME NEW i \in Seq(Cell), NEW o \in Seq(Cell), NEW c \in Cell, NEW d \in Cell
    PROVE  Order(TRUE, <<c>>, i, Before(d, o)) = Order(TRUE, <<c, d>>, i, o)
BY PairConcat DEF Order, Before

LEMMA FetchedOrder ==
    ASSUME NEW h \in Seq(Cell), NEW o \in Seq(Cell)
    PROVE  Order(FALSE, h, <<>>, o) = Order(TRUE, h, <<>>, o)
<1>1. Reverse(<<>>) = <<>>
  BY DEF Reverse
<1>2. PICK p \in Seq(Cell) : p = h \o o
  <2>1. h \o o \in Seq(Cell)
    OBVIOUS
  <2> QED
    BY <2>1, Zenon
<1>3. p \o <<>> = <<>> \o p
  OBVIOUS
<1> QED
  BY <1>1, <1>2, <1>3 DEF Order

(* A cell is put on 'in'.                                                  *)
Within(w, c, u) ==
    \E p, q \in Seq(Cell) : w = p \o q /\ u = (p \o <<c>>) \o q

LEMMA SentOrder ==
    ASSUME NEW i \in Seq(Cell), NEW o \in Seq(Cell), NEW h \in Seq(Cell), NEW c \in Cell
    PROVE  /\ Within(Order(TRUE, h, i, o), c, Order(TRUE, h, Before(c, i), o))
           /\ Order(FALSE, h, Before(c, i), o) = Order(FALSE, h, i, o) \o <<c>>
<1>1. PICK r \in Seq(Cell) : r = Reverse(i) /\ Reverse(Before(c, i)) = r \o <<c>>
  BY ReverseBefore
<1>2. PICK p \in Seq(Cell) : p = h \o o
  <2>1. h \o o \in Seq(Cell)
    OBVIOUS
  <2> QED
    BY <2>1, Zenon
<1>3. p \o (r \o <<c>>) = (p \o r) \o <<c>>
  OBVIOUS
<1>4. Order(TRUE, h, i, o) = r \o p /\ Order(TRUE, h, Before(c, i), o) = (r \o <<c>>) \o p
  BY <1>1, <1>2 DEF Order
<1>5. Order(FALSE, h, Before(c, i), o) = Order(FALSE, h, i, o) \o <<c>>
  BY <1>1, <1>2, <1>3 DEF Order
<1> QED
  BY <1>4, <1>5 DEF Within

(* What is said: one more message, one less.                               *)
LEMMA TextsIsSeq ==
    ASSUME NEW S, NEW b \in [Cell -> S], NEW r \in Seq(Cell)
    PROVE  /\ Texts(b, r) \in Seq(S) /\ Len(Texts(b, r)) = Len(r)
           /\ \A i \in 1..Len(r) : Texts(b, r)[i] = b[r[i]]
<1>1. Texts(b, r) = [i \in 1..Len(r) |-> b[r[i]]] /\ Len(r) \in Nat
  BY DEF Texts
<1>2. \A i \in 1..Len(r) : b[r[i]] \in S
  OBVIOUS
<1> QED
  BY <1>1, <1>2

LEMMA TextsConcat ==
    ASSUME NEW S, NEW b \in [Cell -> S], NEW p \in Seq(Cell), NEW q \in Seq(Cell)
    PROVE  Texts(b, p \o q) = Texts(b, p) \o Texts(b, q)
<1>1. ASSUME NEW r \in Seq(Cell)
      PROVE  /\ Texts(b, r) \in Seq(S) /\ Len(Texts(b, r)) = Len(r)
             /\ \A i \in 1..Len(r) : Texts(b, r)[i] = b[r[i]]
  BY TextsIsSeq
<1>2. /\ p \o q \in Seq(Cell) /\ Len(p \o q) = Len(p) + Len(q) /\ Len(p) \in Nat /\ Len(q) \in Nat
      /\ \A i \in 1..Len(p) + Len(q) : (p \o q)[i] = IF i <= Len(p) THEN p[i] ELSE q[i - Len(p)]
  BY ConcatProperties
<1>3. PICK P \in Seq(S), Q \in Seq(S), R \in Seq(S) :
         P = Texts(b, p) /\ Q = Texts(b, q) /\ R = Texts(b, p \o q)
  BY <1>1, <1>2, Zenon
<1>4. /\ Len(P) = Len(p) /\ \A i \in 1..Len(p) : P[i] = b[p[i]]
      /\ Len(Q) = Len(q) /\ \A i \in 1..Len(q) : Q[i] = b[q[i]]
  BY <1>1, <1>3
<1>5. /\ Len(R) = Len(p) + Len(q) /\ \A i \in 1..Len(p) + Len(q) : R[i] = b[(p \o q)[i]]
  BY <1>1, <1>2, <1>3
<1>6. /\ P \o Q \in Seq(S) /\ Len(P \o Q) = Len(p) + Len(q)
      /\ \A i \in 1..Len(p) + Len(q) : (P \o Q)[i] = IF i <= Len(p) THEN P[i] ELSE Q[i - Len(p)]
  <2>1. /\ P \o Q \in Seq(S) /\ Len(P \o Q) = Len(P) + Len(Q)
        /\ \A i \in 1..Len(P) + Len(Q) : (P \o Q)[i] = IF i <= Len(P) THEN P[i] ELSE Q[i - Len(P)]
    BY ConcatProperties
  <2>2. Len(P) = Len(p) /\ Len(Q) = Len(q)
    BY <1>4
  <2> QED
    BY <2>1, <2>2, Zenon
<1>7. \A i \in 1..Len(p) + Len(q) : R[i] = (P \o Q)[i]
  <2> SUFFICES ASSUME NEW i \in 1..Len(p) + Len(q)
               PROVE  R[i] = (P \o Q)[i]
    OBVIOUS
  <2>1. CASE i <= Len(p)
    <3>1. i \in 1..Len(p) /\ (p \o q)[i] = p[i] /\ (P \o Q)[i] = P[i]
      BY <1>2, <1>6, <2>1
    <3> QED
      BY <1>4, <1>5, <3>1
  <2>2. CASE ~ (i <= Len(p))
    <3>1. /\ i - Len(p) \in 1..Len(q) /\ (p \o q)[i] = q[i - Len(p)]
          /\ (P \o Q)[i] = Q[i - Len(p)]
      BY <1>2, <1>6, <2>2
    <3> QED
      BY <1>4, <1>5, <3>1
  <2> QED
    BY <2>1, <2>2
<1>8. R = P \o Q
  BY <1>2, <1>5, <1>6, <1>7, SeqEqual
<1> QED
  BY <1>1, <1>3, <1>8

LEMMA InsertInConcat ==
    ASSUME NEW S, NEW P \in Seq(S), NEW Q \in Seq(S), NEW e
    PROVE  InsertAt(P \o Q, Len(P) + 1, e) = (P \o <<e>>) \o Q
<1>1. SubSeq(P \o Q, 1, Len(P)) = P /\ SubSeq(P \o Q, Len(P) + 1, Len(P \o Q)) = Q
  BY SubSeqOfConcat1, SubSeqOfConcat2, SubSeqFull, ConcatProperties
<1>2. (Len(P) + 1) - 1 = Len(P)
  OBVIOUS
<1> QED
  BY <1>1, <1>2 DEF InsertAt

LEMMA TextsOf ==
    ASSUME NEW S, NEW b \in [Cell -> S], NEW p \in Seq(Cell), NEW q \in Seq(Cell), NEW c \in Cell
    PROVE  /\ Texts(b, (p \o <<c>>) \o q) = InsertAt(Texts(b, p \o q), Len(p) + 1, b[c])
           /\ Len(p) + 1 \in 1..Len(Texts(b, p \o q)) + 1
           /\ Texts(b, q \o <<c>>) = InsertAt(Texts(b, q), Len(Texts(b, q)) + 1, b[c])
<1>1. <<c>> \in Seq(Cell) /\ p \o <<c>> \in Seq(Cell) /\ Texts(b, <<c>>) = <<b[c]>>
  BY DEF Texts
<1>2. PICK P \in Seq(S), Q \in Seq(S) : P = Texts(b, p) /\ Q = Texts(b, q) /\ Len(P) = Len(p)
  BY TextsIsSeq, Zenon
<1>3. /\ Texts(b, p \o q) = P \o Q /\ Texts(b, (p \o <<c>>) \o q) = (P \o <<b[c]>>) \o Q
      /\ Texts(b, q \o <<c>>) = Q \o <<b[c]>>
  <2>1. PICK C \in Seq(Cell), D \in Seq(Cell) : C = <<c>> /\ D = p \o C
    BY <1>1
  <2>2. Texts(b, p \o q) = Texts(b, p) \o Texts(b, q)
    BY TextsConcat
  <2>3. Texts(b, D \o q) = Texts(b, D) \o Texts(b, q)
    BY TextsConcat
  <2>4. Texts(b, p \o C) = Texts(b, p) \o Texts(b, C)
    BY TextsConcat
  <2>5. Texts(b, q \o C) = Texts(b, q) \o Texts(b, C)
    BY TextsConcat
  <2> QED
    BY <1>1, <1>2, <2>1, <2>2, <2>3, <2>4, <2>5
<1>4. PICK e \in S : e = b[c]
  OBVIOUS
<1>5. InsertAt(P \o Q, Len(P) + 1, e) = (P \o <<e>>) \o Q
  BY InsertInConcat
<1>6. InsertAt(Q, Len(Q) + 1, e) = Q \o <<e>>
  <2>1. InsertAt(Q \o <<>>, Len(Q) + 1, e) = (Q \o <<e>>) \o <<>>
    BY InsertInConcat, EmptySeq
  <2>2. Q \o <<>> = Q /\ Q \o <<e>> \in Seq(S) /\ (Q \o <<e>>) \o <<>> = Q \o <<e>>
    BY ConcatEmptySeq
  <2> QED
    BY <2>1, <2>2
<1>8. Len(p) + 1 \in 1..Len(P \o Q) + 1
  BY <1>2, ConcatProperties
<1> QED
  BY <1>2, <1>3, <1>4, <1>5, <1>6, <1>8

(* One more cell says one more message.                                    *)
LEMMA TextsInsert ==
    ASSUME NEW S, NEW b \in [Cell -> S], NEW w, NEW c \in Cell, NEW u, Within(w, c, u)
    PROVE  \E j \in 1..Len(Texts(b, w)) + 1 : Texts(b, u) = InsertAt(Texts(b, w), j, b[c])
<1>2. PICK p, q \in Seq(Cell) : w = p \o q /\ u = (p \o <<c>>) \o q
  BY DEF Within
<1>3. /\ Texts(b, (p \o <<c>>) \o q) = InsertAt(Texts(b, p \o q), Len(p) + 1, b[c])
      /\ Len(p) + 1 \in 1..Len(Texts(b, p \o q)) + 1
  BY TextsOf
<1> QED
  BY <1>2, <1>3, Zenon

LEMMA TextsAppend ==
    ASSUME NEW S, NEW b \in [Cell -> S], NEW w \in Seq(Cell), NEW c \in Cell
    PROVE  /\ Len(Texts(b, w)) + 1 \in 1..Len(Texts(b, w)) + 1
           /\ Texts(b, w \o <<c>>) = InsertAt(Texts(b, w), Len(Texts(b, w)) + 1, b[c])
<1>2. PICK q \in Seq(Cell) : q = <<>>
  BY EmptySeq
<1>3. w \o q = w /\ (w \o <<c>>) \o q = w \o <<c>>
  BY <1>2
<1>4. Texts(b, (w \o <<c>>) \o q) = InsertAt(Texts(b, w \o q), Len(w) + 1, b[c])
  BY TextsOf
<1>5. Len(Texts(b, w)) = Len(w)
  BY TextsIsSeq
<1>6. Len(w) + 1 \in 1..Len(w) + 1
  OBVIOUS
<1> QED
  BY <1>3, <1>4, <1>5, <1>6, Zenon

LEMMA TextsTail ==
    ASSUME NEW S, NEW b \in [Cell -> S], NEW q \in Seq(Cell), NEW c \in Cell
    PROVE  Texts(b, <<c>> \o q) # <<>> /\ Tail(Texts(b, <<c>> \o q)) = Texts(b, q)
<1>2. PICK Q \in Seq(S) : Q = Texts(b, q)
  BY TextsIsSeq, Zenon
<1>3. PICK C \in Seq(Cell) : C = <<c>>
  <2>1. <<c>> \in Seq(Cell)
    OBVIOUS
  <2> QED
    BY <2>1, Zenon
<1>4. Texts(b, C \o q) = Texts(b, C) \o Texts(b, q) /\ Texts(b, C) = <<b[c]>>
  <2>1. Texts(b, C \o q) = Texts(b, C) \o Texts(b, q)
    BY TextsConcat
  <2>2. Texts(b, <<c>>) = <<b[c]>>
    BY DEF Texts
  <2> QED
    BY <1>3, <2>1, <2>2
<1>5. PICK e \in S : e = b[c]
  OBVIOUS
<1>6. <<e>> \o Q # <<>> /\ Tail(<<e>> \o Q) = Q
  OBVIOUS
<1> QED
  BY <1>2, <1>3, <1>4, <1>5, <1>6
-----------------------------------------------------------------------------
(* The messages that wait are what the cells of the lists say, in order.   *)
Held == IF Pushing(GC) /\ back[GC] = "again" THEN <<>> ELSE Hand(GC)

Reads ==
    \A s \in Piles, b \in [Cell -> Message \cup {NULL}], h \in Seq(Cell), f \in BOOLEAN :
        Settled(s) /\ b = body /\ h = Held /\ (f <=> Fetching)
            => Waiting = Texts(b, Order(f, h, s["in"], s["out"]))

LEMMA WaitingIsRead == Reads
<1> SUFFICES ASSUME NEW s \in Piles, NEW b \in [Cell -> Message \cup {NULL}],
                    NEW h \in Seq(Cell), NEW f \in BOOLEAN,
                    Settled(s), b = body, h = Held, f <=> Fetching
             PROVE  Waiting = Texts(b, Order(f, h, s["in"], s["out"]))
  BY DEF Reads
<1>1. \A l \in {"in", "out"} : Cells(l) = s[l]
  <2> SUFFICES ASSUME NEW l \in {"in", "out"}
               PROVE  Cells(l) = s[l]
    OBVIOUS
  <2>1. l \in Stack /\ s[l] \in Seq(Cell)
    BY DEF Stack, Piles
  <2>2. Once(s[l]) /\ Chain(s[l], Len(s[l]), top[l], link, NULL)
    BY <2>1 DEF Settled, Apart, Lists
  <2> QED
    BY <2>1, <2>2, CellsAre
<1>2. PICK i \in Seq(Cell), o \in Seq(Cell) : i = s["in"] /\ o = s["out"]
  BY DEF Piles, Stack
<1>3. Cells("in") = i /\ Cells("out") = o
  BY <1>1, <1>2
<1>4. CASE Fetching
  BY <1>2, <1>3, <1>4 DEF Waiting, Held, Order, Texts
<1>5. CASE ~Fetching
  BY <1>2, <1>3, <1>5 DEF Waiting, Held, Order, Texts
<1> QED
  BY <1>4, <1>5

(* What is in the hand of the collector.                                   *)
LEMMA HeldIsSeq ==
    ASSUME Typed, Flow
    PROVE  Held \in Seq(Cell) /\ Hand(GC) \in Seq(Cell)
<1>1. Hand(GC) \in Seq(Cell)
  BY GripIsHands DEF Grip, Hands, Thread
<1> QED
  BY <1>1 DEF Held

(* The cells of the queue, and nothing else.                               *)
LEMMA OfOrder ==
    ASSUME NEW h \in Seq(Cell), NEW i \in Seq(Cell), NEW o \in Seq(Cell), NEW f \in BOOLEAN
    PROVE  Of(Order(f, h, i, o)) \subseteq Of(h) \cup Of(i) \cup Of(o)
<1>1. ASSUME NEW p \in Seq(Cell), NEW q \in Seq(Cell)
      PROVE  Of(p \o q) \subseteq Of(p) \cup Of(q)
  <2> SUFFICES ASSUME NEW j \in 1..Len(p \o q)
               PROVE  (p \o q)[j] \in Of(p) \cup Of(q)
    BY DEF Of
  <2>1. /\ Len(p) \in Nat /\ Len(q) \in Nat /\ j \in 1..Len(p) + Len(q)
        /\ (p \o q)[j] = IF j <= Len(p) THEN p[j] ELSE q[j - Len(p)]
    BY ConcatProperties
  <2>2. CASE j <= Len(p)
    BY <2>1, <2>2 DEF Of
  <2>3. CASE ~ (j <= Len(p))
    <3>1. j - Len(p) \in 1..Len(q)
      BY <2>1, <2>3
    <3> QED
      BY <2>1, <2>3, <3>1 DEF Of
  <2> QED
    BY <2>2, <2>3
<1>2. PICK r \in Seq(Cell) : r = Reverse(i) /\ Of(r) \subseteq Of(i)
  <2>1. Reverse(i) \in Seq(Cell) /\ Len(Reverse(i)) = Len(i)
    BY ReverseBefore DEF Reverse
  <2>2. \A j \in 1..Len(i) : Reverse(i)[j] = i[(Len(i)-j)+1] /\ (Len(i)-j)+1 \in 1..Len(i)
    BY DEF Reverse
  <2> QED
    BY <2>1, <2>2 DEF Of
<1>3. PICK p \in Seq(Cell) : p = h \o o
  <2>1. h \o o \in Seq(Cell)
    BY ConcatProperties
  <2> QED
    BY <2>1, Zenon
<1>4. Of(p) \subseteq Of(h) \cup Of(o)
  BY <1>1, <1>3
<1>5. Of(r \o p) \subseteq Of(r) \cup Of(p) /\ Of(p \o r) \subseteq Of(p) \cup Of(r)
  BY <1>1
<1>6. Order(f, h, i, o) = IF f THEN r \o p ELSE p \o r
  BY <1>2, <1>3 DEF Order
<1> QED
  BY <1>2, <1>4, <1>5, <1>6

(* Nothing was sent or handled when the cells of the queue and what they   *)
(* say are the same.                                                       *)
LEMMA WaitingKept ==
    ASSUME Typed, Typed', Reads, Reads', NEW s \in Piles, Settled(s), NEW r \in Piles, Settled(r)',
           NEW h \in Seq(Cell), h = Held, NEW g \in Seq(Cell), g = Held',
           NEW e \in BOOLEAN, e <=> Fetching, NEW f \in BOOLEAN, f <=> Fetching',
           Order(f, g, r["in"], r["out"]) = Order(e, h, s["in"], s["out"]),
           \A c \in Of(h) \cup Of(s["in"]) \cup Of(s["out"]) : body'[c] = body[c]
    PROVE  Waiting' = Waiting
<1>1. PICK b, d \in [Cell -> Message \cup {NULL}] : b = body /\ d = body'
  BY DEF Typed
<1>2. Waiting = Texts(b, Order(e, h, s["in"], s["out"]))
  BY <1>1 DEF Reads
<1>3. Waiting' = Texts(d, Order(f, g, r["in"], r["out"]))
  BY <1>1 DEF Reads
<1>4. s["in"] \in Seq(Cell) /\ s["out"] \in Seq(Cell)
  BY DEF Piles, Stack
<1>5. PICK q \in Seq(Cell) : q = Order(e, h, s["in"], s["out"])
  BY <1>4, OrderIsSeq, Zenon
<1>6. Of(q) \subseteq Of(h) \cup Of(s["in"]) \cup Of(s["out"])
  BY <1>4, <1>5, OfOrder
<1>7. \A j \in DOMAIN q : d[q[j]] = b[q[j]]
  <2>1. DOMAIN q = 1..Len(q)
    OBVIOUS
  <2> QED
    BY <1>1, <1>6, <2>1 DEF Of
<1>8. Texts(d, q) = Texts(b, q)
  BY <1>7 DEF Texts
<1> QED
  BY <1>2, <1>3, <1>5, <1>8

(* What a step is to the queue: nothing, sgc_fifo_get begins to fetch or   *)
(* ends, a message is handled, or one is sent.                             *)
QueueStep ==
    \/ Waiting' = Waiting /\ (Fetching' <=> Fetching)
    \/ Waiting' = Waiting /\ Waiting # <<>> /\ ~Fetching /\ Fetching'
    \/ Waiting' = Waiting /\ Fetching /\ ~Fetching'
    \/ ~Fetching /\ ~Fetching' /\ Waiting # <<>> /\ Waiting' = Tail(Waiting)
    \/ \E m \in Message, i \in 1..Len(Waiting) + 1 :
          /\ ~Fetching => i = Len(Waiting) + 1
          /\ Waiting' = InsertAt(Waiting, i, m)
          /\ Fetching' <=> Fetching

LEMMA FetchingOrNot == \E e, f \in BOOLEAN : (e <=> Fetching) /\ (f <=> Fetching')
<1>1. \E e \in BOOLEAN : e <=> Fetching
  BY Zenon
<1>2. \E f \in BOOLEAN : f <=> Fetching'
  BY Zenon
<1> QED
  BY <1>1, <1>2, Zenon

(* The steps of a client or of the collector that leave the lists alone.   *)
LEMMA QuietHeld ==
    ASSUME Typed, Flow, Frames, NEW s \in Piles, Settled(s), NEW t \in Thread, QuietStep(t),
           ~closing'
    PROVE  \/ Held' = Held /\ (Fetching' <=> Fetching)
           \/ Held' = Held /\ Fetching /\ ~Fetching' /\ s["in"] = <<>>
           \/ /\ ~Fetching /\ ~Fetching' /\ Held = <<v1>> /\ Held' = <<>> /\ v1 \in Cell
              /\ body' = body
<1> USE MessagesAssumption DEF Typed, Flow, Popping, Pushing, Thread, Stack, Link, Place, Goto,
        Pop, Push, stacks, frames, history, Rest
<1>1. Alone(t) /\ Hand(t)' = Hand(t)
  BY QuietHands
<1>2. CASE t # GC
  <2>1. pc'[GC] = pc[GC] /\ back'[GC] = back[GC] /\ v'[GC] = v[GC]
    BY <1>1, <1>2 DEF Alone
  <2>2. Hand(GC)' = Hand(GC)
    BY <1>1, <1>2, GcHandKept
  <2> QED
    BY <2>1, <2>2 DEF Held, Fetching
<1>3. CASE t = GC
  <2>1. CASE First(t) \/ LoadTop(t) \/ LoadLink(t)
    <3>1. Fetching' <=> Fetching
      BY <1>3, <2>1 DEF First, LoadTop, LoadLink, Fetching, Frames
    <3>2. ~Pushing(GC) /\ ~Pushing(GC)'
      BY <1>3, <2>1 DEF First, LoadTop, LoadLink
    <3> QED
      BY <1>1, <1>3, <3>1, <3>2 DEF Held
  <2>2. CASE Test(t)
    <3>1. ~Pushing(GC) /\ ~Pushing(GC)'
      BY <1>3, <2>2 DEF Test
    <3>2. (Fetching' <=> Fetching) \/ (Fetching /\ ~Fetching' /\ top["in"] = NULL)
      BY <1>3, <2>2 DEF Test, Fetching, Frames
    <3>3. top["in"] = NULL => s["in"] = <<>>
      <4>1. s["in"] \in Seq(Cell) /\ Chain(s["in"], Len(s["in"]), top["in"], link, NULL)
        BY DEF Piles, Settled, Lists
      <4> QED
        BY <4>1, TopOfList
    <3> QED
      BY <1>1, <1>3, <3>1, <3>2, <3>3 DEF Held
  <2>3. CASE Get \/ GotOut
    <3>1. Fetching' <=> Fetching
      BY <1>3, <2>3 DEF Get, GotOut, Fetching
    <3>2. ~Pushing(GC) /\ ~Pushing(GC)'
      BY <1>3, <2>3 DEF Get, GotOut
    <3> QED
      BY <1>1, <1>3, <3>1, <3>2 DEF Held
  <2>4. CASE GotIn \/ GotNext \/ Moved
    <3>1. Fetching' <=> Fetching
      BY <1>3, <2>4 DEF GotIn, GotNext, Moved, Fetching
    <3>2. ~Pushing(GC) /\ (Pushing(GC)' => back'[GC] # "again")
      BY <1>3, <2>4 DEF GotIn, GotNext, Moved
    <3> QED
      BY <1>1, <1>3, <3>1, <3>2 DEF Held
  <2>5. CASE Handle
    <3>1. ~Fetching /\ ~Fetching' /\ v1 \in Cell /\ body' = body
      BY <1>3, <2>5 DEF Handle, Fetching
    <3>2. Held = <<v1>> /\ Held' = <<>>
      BY <1>3, <2>5 DEF Handle, Held, Hand
    <3> QED
      BY <3>1, <3>2
  <2>6. CASE Close
    BY <2>6 DEF Close
  <2> QED
    BY <1>3, <2>1, <2>2, <2>3, <2>4, <2>5, <2>6 DEF QuietStep
<1> QED
  BY <1>2, <1>3

(* What is filled in is not in the queue.                                  *)
LEMMA QuietBody ==
    ASSUME Typed, Flow, NEW s \in Piles, Settled(s), NEW t \in Thread, QuietStep(t)
    PROVE  \A c \in Of(Held) \cup Of(s["in"]) \cup Of(s["out"]) : body'[c] = body[c]
<1> USE MessagesAssumption DEF Goto, Pop, Push, stacks, frames, history, Rest
<1>1. CASE t \in Client /\ Reuse(t)
  <2>1. /\ pc[t] = "popped" /\ v[t] \in Cell /\ t # GC
        /\ body' = [body EXCEPT ![v[t]] = msg[t]]
    BY <1>1 DEF Reuse, Put, Typed, Link
  <2>2. v[t] \in Of(Hand(t))
    <3>1. Hand(t) = <<v[t]>>
      BY <2>1 DEF Hand, Found
    <3>2. 1 \in 1..Len(<<v[t]>>) /\ <<v[t]>>[1] = v[t]
      OBVIOUS
    <3> QED
      BY <3>1, <3>2 DEF Of
  <2>3. /\ \A l \in Stack : v[t] \notin Of(s[l])
        /\ \A u \in Thread : v[t] \in Of(Hand(u)) => u = t
    BY <2>1, <2>2, HandsApart DEF Settled
  <2>4. v[t] \notin Of(Held)
    BY <2>1, <2>3 DEF Held, Of, Thread
  <2>5. \A c : c # v[t] => body'[c] = body[c]
    BY <2>1 DEF Typed
  <2> QED
    BY <2>3, <2>4, <2>5 DEF Stack
<1>2. CASE ~(t \in Client /\ Reuse(t))
  <2>1. body' = body
    BY <1>2 DEF QuietStep, First, Test, LoadTop, LoadLink, GiveUp, Send, Get, GotOut, GotIn,
                GotNext, Moved, Handle, Close
  <2> QED
    BY <2>1
<1> QED
  BY <1>1, <1>2

LEMMA QuietQueues ==
    ASSUME Typed, Flow, Frames, Typed', Flow', Reads, Reads', NEW s \in Piles, Settled(s),
           NEW t \in Thread, QuietStep(t), ~closing'
    PROVE  QueueStep
<1>1. Settled(s)'
  BY QuietSettles
<1>2. PICK h, g \in Seq(Cell) : h = Held /\ g = Held'
  <2>1. Held \in Seq(Cell)
    BY HeldIsSeq
  <2>2. Held' = Held \/ Held' = <<>>
    BY QuietHeld
  <2>3. <<>> \in Seq(Cell)
    OBVIOUS
  <2>4. Held' \in Seq(Cell)
    BY <2>1, <2>2, <2>3
  <2> QED
    BY <2>1, <2>4, Zenon
<1>3. PICK i, o \in Seq(Cell) : i = s["in"] /\ o = s["out"]
  BY DEF Piles, Stack
<1>4. PICK e, f \in BOOLEAN : (e <=> Fetching) /\ (f <=> Fetching')
  BY FetchingOrNot
<1>5. \A c \in Of(h) \cup Of(s["in"]) \cup Of(s["out"]) : body'[c] = body[c]
  BY <1>2, QuietBody
<1>6. CASE Held' = Held /\ (Fetching' <=> Fetching)
  <2>1. Order(f, g, s["in"], s["out"]) = Order(e, h, s["in"], s["out"])
    BY <1>2, <1>4, <1>6
  <2>2. Waiting' = Waiting
    BY <1>1, <1>2, <1>4, <1>5, <2>1, WaitingKept
  <2> QED
    BY <1>6, <2>2 DEF QueueStep
<1>7. CASE Held' = Held /\ Fetching /\ ~Fetching' /\ s["in"] = <<>>
  <2>1. Order(FALSE, h, <<>>, o) = Order(TRUE, h, <<>>, o)
    BY FetchedOrder
  <2>2. Order(f, g, s["in"], s["out"]) = Order(e, h, s["in"], s["out"])
    BY <1>2, <1>3, <1>4, <1>7, <2>1
  <2>3. Waiting' = Waiting
    BY <1>1, <1>2, <1>4, <1>5, <2>2, WaitingKept
  <2> QED
    BY <1>7, <2>3 DEF QueueStep
<1>8. CASE /\ ~Fetching /\ ~Fetching' /\ Held = <<v1>> /\ Held' = <<>> /\ v1 \in Cell
           /\ body' = body
  <2>1. PICK c \in Cell : c = v1
    BY <1>8
  <2>2. PICK b \in [Cell -> Message \cup {NULL}] : b = body /\ b = body'
    BY <1>8 DEF Typed
  <2>3. PICK q \in Seq(Cell) : q = Order(FALSE, <<>>, i, o)
    <3>1. <<>> \in Seq(Cell)
      OBVIOUS
    <3>2. Order(FALSE, <<>>, i, o) \in Seq(Cell)
      BY <3>1, OrderIsSeq
    <3> QED
      BY <3>2
  <2>4. Waiting = Texts(b, Order(FALSE, <<c>>, i, o)) /\ Waiting' = Texts(b, q)
    <3>1. h = <<c>> /\ g = <<>> /\ e = FALSE /\ f = FALSE
      BY <1>2, <1>4, <1>8, <2>1
    <3>2. Waiting = Texts(b, Order(e, h, s["in"], s["out"]))
      BY <1>2, <1>4, <2>2 DEF Reads
    <3>3. Waiting' = Texts(b, Order(f, g, s["in"], s["out"]))
      BY <1>1, <1>2, <1>4, <2>2 DEF Reads
    <3> QED
      BY <1>3, <2>3, <3>1, <3>2, <3>3
  <2>5. Order(FALSE, <<c>>, i, o) = <<c>> \o q
    BY <2>3, HandledOrder
  <2>6. Texts(b, <<c>> \o q) # <<>> /\ Tail(Texts(b, <<c>> \o q)) = Texts(b, q)
    BY TextsTail
  <2>7. Waiting # <<>> /\ Waiting' = Tail(Waiting)
    BY <2>4, <2>5, <2>6
  <2> QED
    BY <1>8, <2>7 DEF QueueStep
<1> QED
  BY <1>6, <1>7, <1>8, QuietHeld

(* A pop at its end: the cell is in the hand, where it was on the stack.   *)
LEMMA TakeQueues ==
    ASSUME Typed, Flow, Frames, Typed', Flow', Reads, Reads', NEW s \in Piles, Settled(s),
           NEW t \in Thread, StoreTop(t), ~raced', ~closing'
    PROVE  QueueStep
<1>1. /\ pc[t] = "store" /\ Popping(t) /\ ~Pushing(t) /\ on[t] \in Stack
      /\ pc' = [pc EXCEPT ![t] = back[t]] /\ pc'[t] = back[t]
      /\ UNCHANGED <<body, on, back, arg, v, v1, closing>>
  BY DEF StoreTop, Goto, Popping, Pushing, Typed
<1>2. PICK c \in Cell : c = v[t]
  BY TakeKeeps
<1>3. PICK r \in Piles, q \in Seq(Cell) : /\ s[on[t]] = Before(c, q)
                                          /\ r = [s EXCEPT ![on[t]] = q]
                                          /\ Settled(r)'
  <2>1. \E r \in Piles, q \in Seq(Cell) : /\ s[on[t]] = Before(v[t], q)
                                          /\ r = [s EXCEPT ![on[t]] = q]
                                          /\ Settled(r)'
    BY TakeKeeps
  <2> QED
    BY <1>2, <2>1
<1>4. r[on[t]] = q /\ \A k \in Stack : k # on[t] => r[k] = s[k]
  BY <1>1, <1>3 DEF Piles
<1>5. PICK i, o \in Seq(Cell) : i = s["in"] /\ o = s["out"]
  BY DEF Piles, Stack
<1>6. PICK h \in Seq(Cell) : h = Held
  BY HeldIsSeq, Zenon
<1>7. PICK e, f \in BOOLEAN : (e <=> Fetching) /\ (f <=> Fetching')
  BY FetchingOrNot
<1>8. \A d : body'[d] = body[d]
  BY <1>1
<1>9. ASSUME NEW g \in Seq(Cell), g = Held',
             Order(f, g, r["in"], r["out"]) = Order(e, h, s["in"], s["out"])
      PROVE  Waiting' = Waiting
  <2>1. \A d \in Of(h) \cup Of(s["in"]) \cup Of(s["out"]) : body'[d] = body[d]
    BY <1>8
  <2>2. Settled(r)'
    BY <1>3
  <2>3. h = Held
    BY <1>6
  <2>4. g = Held' /\ Order(f, g, r["in"], r["out"]) = Order(e, h, s["in"], s["out"])
    BY <1>9
  <2>5. e <=> Fetching
    BY <1>7
  <2>6. f <=> Fetching'
    BY <1>7
  <2> QED
    BY <2>1, <2>2, <2>3, <2>4, <2>5, <2>6, WaitingKept
<1>10. CASE t # GC
  <2>1. on[t] = "free" /\ r["in"] = s["in"] /\ r["out"] = s["out"]
    BY <1>1, <1>4, <1>10 DEF Flow, Thread, Stack
  <2>2. pc'[GC] = pc[GC]
    BY <1>1, <1>10 DEF Typed, Thread
  <2>3. Alone(t)
    BY <1>1 DEF Alone, StoreTop
  <2>4. Hand(GC)' = Hand(GC)
    BY <1>10, <2>3, GcHandKept
  <2>5. Held' = h /\ (Fetching' <=> Fetching)
    BY <1>1, <1>6, <2>2, <2>4 DEF Held, Fetching, Popping, Pushing
  <2>6. Order(f, h, r["in"], r["out"]) = Order(e, h, s["in"], s["out"])
    BY <1>7, <2>1, <2>5
  <2>7. Waiting' = Waiting
    BY <1>9, <2>5, <2>6
  <2> QED
    BY <2>5, <2>7 DEF QueueStep
<1>11. CASE t = GC
  <2>1. /\ Held = Hand(GC) /\ Held' = Hand(GC)' /\ Hand(GC)' = Before(c, Hand(GC))
        /\ \/ on[t] = "out" /\ back[t] = "gotOut"
           \/ on[t] = "in" /\ back[t] = "gotIn"
           \/ on[t] = "in" /\ back[t] = "gotNext" /\ v1 \in Cell
    <3>1. \/ on[t] = "out" /\ back[t] = "gotOut"
          \/ on[t] = "in" /\ back[t] = "gotIn"
          \/ on[t] = "in" /\ back[t] = "gotNext" /\ v1 \in Cell
      BY <1>1, <1>11 DEF Flow
    <3>2. ~Pushing(GC) /\ ~Pushing(GC)'
      BY <1>1, <1>11, <3>1 DEF Pushing
    <3>3. Hand(GC)' = Before(v[t], Hand(GC))
      BY <1>11, TakeKeeps
    <3> QED
      BY <1>2, <3>1, <3>2, <3>3 DEF Held
  <2>2. CASE on[t] = "out"
    <3>1. ~Fetching /\ ~Fetching' /\ Hand(GC) = <<>>
      BY <1>1, <1>11, <2>1, <2>2 DEF Fetching, Popping, Pushing, Hand
    <3>2. h = <<>> /\ e = FALSE /\ f = FALSE /\ Held' = <<c>>
      BY <1>6, <1>7, <2>1, <3>1 DEF Before
    <3>3. r["in"] = i /\ r["out"] = q /\ o = Before(c, q)
      BY <1>3, <1>4, <1>5, <2>2 DEF Stack
    <3>4. Order(FALSE, <<c>>, i, q) = Order(FALSE, <<>>, i, Before(c, q))
      BY TakenOrder
    <3>5. Order(f, <<c>>, r["in"], r["out"]) = Order(e, h, s["in"], s["out"])
      BY <1>5, <3>2, <3>3, <3>4
    <3>6. PICK g \in Seq(Cell) : g = <<c>>
      <4>1. <<c>> \in Seq(Cell)
        OBVIOUS
      <4> QED
        BY <4>1, Zenon
    <3>7. Waiting' = Waiting
      BY <1>9, <3>2, <3>5, <3>6
    <3> QED
      BY <3>1, <3>7 DEF QueueStep
  <2>3. CASE on[t] = "in" /\ back[t] = "gotIn"
    <3>1. ~Fetching /\ Fetching' /\ Hand(GC) = <<>>
      <4>1. c # NULL
        BY MessagesAssumption
      <4> QED
        BY <1>1, <1>2, <1>11, <2>3, <4>1 DEF Fetching, Popping, Pushing, Hand
    <3>2. h = <<>> /\ e = FALSE /\ f = TRUE /\ Held' = <<c>>
      BY <1>6, <1>7, <2>1, <3>1 DEF Before
    <3>3. r["in"] = q /\ r["out"] = <<>> /\ o = <<>> /\ i = Before(c, q)
      <4>1. s["out"] = <<>>
        BY <1>1, <1>11, <2>3 DEF Settled, Ends
      <4> QED
        BY <1>3, <1>4, <1>5, <2>3, <4>1 DEF Stack
    <3>4. /\ Order(TRUE, <<c>>, q, <<>>) = Order(FALSE, <<>>, Before(c, q), <<>>)
          /\ Order(TRUE, <<c>>, q, <<>>) # <<>>
      BY FetchOrder
    <3>5. Order(f, <<c>>, r["in"], r["out"]) = Order(e, h, s["in"], s["out"])
      BY <1>5, <3>2, <3>3, <3>4
    <3>6. PICK g \in Seq(Cell) : g = <<c>>
      <4>1. <<c>> \in Seq(Cell)
        OBVIOUS
      <4> QED
        BY <4>1, Zenon
    <3>7. Waiting' = Waiting
      BY <1>9, <3>2, <3>5, <3>6
    <3>8. Waiting # <<>>
      <4>1. PICK b \in [Cell -> Message \cup {NULL}] : b = body
        BY DEF Typed
      <4>2. Waiting = Texts(b, Order(e, h, s["in"], s["out"]))
        BY <1>6, <1>7, <4>1 DEF Reads
      <4>3. PICK w \in Seq(Cell) : w = Order(e, h, s["in"], s["out"])
        BY <1>5, OrderIsSeq
      <4>4. w # <<>>
        BY <1>5, <3>2, <3>3, <3>4, <4>3
      <4>5. DOMAIN w # {} /\ DOMAIN Texts(b, w) = DOMAIN w
        <5>1. Len(w) \in Nat /\ Len(w) # 0 /\ DOMAIN w = 1..Len(w)
          BY <4>4
        <5>2. 1 \in DOMAIN w
          BY <5>1
        <5> QED
          BY <5>2 DEF Texts
      <4>6. Texts(b, w) # <<>>
        BY <4>5
      <4> QED
        BY <4>2, <4>3, <4>6
    <3> QED
      BY <3>1, <3>7, <3>8 DEF QueueStep
  <2>4. CASE on[t] = "in" /\ back[t] = "gotNext"
    <3>1. Fetching /\ Fetching' /\ Hand(GC) = <<v1>> /\ v1 \in Cell
      <4>1. c # NULL
        BY MessagesAssumption
      <4> QED
        BY <1>1, <1>2, <1>11, <2>1, <2>4, <4>1 DEF Fetching, Popping, Pushing, Hand
    <3>2. PICK d \in Cell : d = v1
      BY <3>1
    <3>3. h = <<d>> /\ e = TRUE /\ f = TRUE /\ Held' = <<c, d>>
      <4>1. Before(c, <<d>>) = <<c, d>>
        BY PairConcat DEF Before
      <4>2. h = <<d>> /\ e = TRUE /\ f = TRUE /\ Held' = Before(c, h)
        BY <1>6, <1>7, <2>1, <3>1, <3>2
      <4> QED
        BY <4>1, <4>2
    <3>4. r["in"] = q /\ r["out"] = o /\ i = Before(c, q)
      BY <1>3, <1>4, <1>5, <2>4 DEF Stack
    <3>5. Order(TRUE, <<c, d>>, q, o) = Order(TRUE, <<d>>, Before(c, q), o)
      BY NextOrder
    <3>6. Order(f, <<c, d>>, r["in"], r["out"]) = Order(e, h, s["in"], s["out"])
      BY <1>5, <3>3, <3>4, <3>5
    <3>7. PICK g \in Seq(Cell) : g = <<c, d>>
      <4>1. <<c, d>> \in Seq(Cell)
        OBVIOUS
      <4> QED
        BY <4>1, Zenon
    <3>8. Waiting' = Waiting
      BY <1>9, <3>3, <3>6, <3>7
    <3> QED
      BY <3>1, <3>8 DEF QueueStep
  <2> QED
    BY <2>1, <2>2, <2>3, <2>4
<1> QED
  BY <1>10, <1>11

(* A push at its end: a client has sent its message, or a cell has gone    *)
(* over to 'out', or to the free list.                                     *)
LEMMA GiveQueues ==
    ASSUME Typed, Flow, Frames, Typed', Flow', Reads, Reads', NEW s \in Piles, Settled(s),
           NEW t \in Thread, Publish(t), ~raced', ~closing'
    PROVE  QueueStep
<1>1. /\ pc[t] = "publish" /\ Pushing(t) /\ ~Popping(t) /\ on[t] \in Stack
      /\ pc' = [pc EXCEPT ![t] = back[t]] /\ pc'[t] = back[t]
      /\ UNCHANGED <<body, on, back, arg, v, v1, closing>>
  BY DEF Publish, Goto, Popping, Pushing, Typed
<1>2. PICK c \in Cell : c = arg[t]
  BY GiveKeeps
<1>3. PICK r \in Piles : r = [s EXCEPT ![on[t]] = Before(c, s[on[t]])] /\ Settled(r)'
  <2>1. \E r \in Piles : r = [s EXCEPT ![on[t]] = Before(arg[t], s[on[t]])] /\ Settled(r)'
    BY GiveKeeps
  <2> QED
    BY <1>2, <2>1
<1>4. r[on[t]] = Before(c, s[on[t]]) /\ \A k \in Stack : k # on[t] => r[k] = s[k]
  BY <1>1, <1>3 DEF Piles
<1>5. PICK i, o \in Seq(Cell) : i = s["in"] /\ o = s["out"]
  BY DEF Piles, Stack
<1>6. PICK h \in Seq(Cell) : h = Held
  BY HeldIsSeq, Zenon
<1>7. PICK e, f \in BOOLEAN : (e <=> Fetching) /\ (f <=> Fetching')
  BY FetchingOrNot
<1>8. ASSUME NEW g \in Seq(Cell), g = Held',
             Order(f, g, r["in"], r["out"]) = Order(e, h, s["in"], s["out"])
      PROVE  Waiting' = Waiting
  <2>1. \A d \in Of(h) \cup Of(s["in"]) \cup Of(s["out"]) : body'[d] = body[d]
    BY <1>1
  <2>2. Settled(r)'
    BY <1>3
  <2>3. h = Held
    BY <1>6
  <2>4. g = Held' /\ Order(f, g, r["in"], r["out"]) = Order(e, h, s["in"], s["out"])
    BY <1>8
  <2>5. e <=> Fetching
    BY <1>7
  <2>6. f <=> Fetching'
    BY <1>7
  <2> QED
    BY <2>1, <2>2, <2>3, <2>4, <2>5, <2>6, WaitingKept
<1>9. CASE t # GC
  <2>1. /\ t \in Client /\ on[t] = "in" /\ r["in"] = Before(c, i) /\ r["out"] = o
        /\ msg[t] \in Message
    BY <1>1, <1>4, <1>5, <1>9 DEF Flow, Thread, Stack, Typed
  <2>2. Held' = h /\ (Fetching' <=> Fetching)
    <3>1. pc'[GC] = pc[GC]
      BY <1>1, <1>9 DEF Typed, Thread
    <3>2. Alone(t)
      BY <1>1 DEF Alone, Publish
    <3>3. Hand(GC)' = Hand(GC)
      BY <1>9, <3>2, GcHandKept
    <3> QED
      BY <1>1, <1>6, <3>1, <3>3 DEF Held, Fetching, Popping, Pushing
  <2>3. PICK b \in [Cell -> Message \cup {NULL}] : b = body /\ b = body'
    BY <1>1 DEF Typed
  <2>4. PICK m \in Message : m = b[c]
    <3>1. body[arg[t]] = msg[t]
      BY <1>1, <2>1 DEF Settled, Bodies
    <3> QED
      BY <1>2, <2>1, <2>3, <3>1
  <2>5. PICK w \in Seq(Cell) : w = Order(e, h, i, o)
    BY OrderIsSeq
  <2>6. Waiting = Texts(b, w)
    <3>1. Waiting = Texts(b, Order(e, h, s["in"], s["out"]))
      BY <1>6, <1>7, <2>3 DEF Reads
    <3> QED
      BY <1>5, <2>5, <3>1
  <2>7. Waiting' = Texts(b, Order(e, h, Before(c, i), o))
    <3>1. e <=> Fetching'
      BY <1>7, <2>2
    <3>2. Settled(r)' /\ b = body' /\ h = Held'
      BY <1>3, <2>2, <2>3
    <3>3. Waiting' = Texts(b, Order(e, h, r["in"], r["out"]))
      BY <3>1, <3>2 DEF Reads
    <3> QED
      BY <2>1, <3>3
  <2>8. CASE e = TRUE
    <3>1. PICK u : u = Order(e, h, Before(c, i), o)
      OBVIOUS
    <3>2. Within(w, c, u)
      <4>1. Within(Order(TRUE, h, i, o), c, Order(TRUE, h, Before(c, i), o))
        BY SentOrder
      <4> QED
        BY <2>5, <2>8, <3>1, <4>1
    <3>3. PICK j \in 1..Len(Texts(b, w)) + 1 : Texts(b, u) = InsertAt(Texts(b, w), j, b[c])
      BY <3>2, TextsInsert
    <3>4. Waiting' = InsertAt(Waiting, j, m) /\ j \in 1..Len(Waiting) + 1
      BY <2>4, <2>6, <2>7, <3>1, <3>3
    <3>5. Fetching
      BY <1>7, <2>8
    <3> QED
      BY <2>2, <3>4, <3>5, Zenon DEF QueueStep
  <2>9. CASE e = FALSE
    <3>1. Order(FALSE, h, Before(c, i), o) = Order(FALSE, h, i, o) \o <<c>>
      BY SentOrder
    <3>2. Order(e, h, Before(c, i), o) = w \o <<c>>
      BY <2>5, <2>9, <3>1
    <3>3. /\ Len(Texts(b, w)) + 1 \in 1..Len(Texts(b, w)) + 1
          /\ Texts(b, w \o <<c>>) = InsertAt(Texts(b, w), Len(Texts(b, w)) + 1, b[c])
      BY TextsAppend
    <3>4. /\ Len(Waiting) + 1 \in 1..Len(Waiting) + 1
          /\ Waiting' = InsertAt(Waiting, Len(Waiting) + 1, m)
      BY <2>4, <2>6, <2>7, <3>2, <3>3
    <3> QED
      BY <2>2, <3>4, Zenon DEF QueueStep
  <2> QED
    BY <2>8, <2>9
<1>10. CASE t = GC /\ back[t] = "moved"
  <2>1. on[t] = "out" /\ v[t] \in Cell
    BY <1>1, <1>10 DEF Flow
  <2>2. PICK d \in Cell : d = v[t]
    BY <2>1
  <2>3. /\ Fetching /\ Fetching' /\ Hand(GC) = <<d, c>> /\ Hand(GC)' = <<d>>
        /\ Held = Hand(GC) /\ Held' = Hand(GC)'
    <3>1. Fetching /\ Fetching' /\ Hand(GC) = <<v[t], arg[t]>> /\ Hand(GC)' = <<v[t]>>
      BY <1>1, <1>10 DEF Fetching, Popping, Pushing, Hand
    <3>2. Held = Hand(GC) /\ Held' = Hand(GC)'
      BY <1>1, <1>10 DEF Held
    <3> QED
      BY <1>2, <2>2, <3>1, <3>2
  <2>4. h = <<d, c>> /\ e = TRUE /\ f = TRUE /\ Held' = <<d>>
    BY <1>6, <1>7, <2>3
  <2>5. r["in"] = i /\ r["out"] = Before(c, o)
    BY <1>4, <1>5, <2>1 DEF Stack
  <2>6. Order(TRUE, <<d>>, i, Before(c, o)) = Order(TRUE, <<d, c>>, i, o)
    BY MovedOrder
  <2>7. Order(f, <<d>>, r["in"], r["out"]) = Order(e, h, s["in"], s["out"])
    BY <1>5, <2>4, <2>5, <2>6
  <2>8. PICK g \in Seq(Cell) : g = <<d>>
    <3>1. <<d>> \in Seq(Cell)
      OBVIOUS
    <3> QED
      BY <3>1, Zenon
  <2>9. Waiting' = Waiting
    BY <1>8, <2>4, <2>7, <2>8
  <2> QED
    BY <2>3, <2>9 DEF QueueStep
<1>11. CASE t = GC /\ back[t] # "moved"
  <2>1. on[t] = "free" /\ back[t] = "again"
    BY <1>1, <1>11 DEF Flow
  <2>2. ~Fetching /\ ~Fetching' /\ Held = <<>> /\ Held' = <<>>
    BY <1>1, <1>11, <2>1 DEF Fetching, Popping, Pushing, Hand, Held
  <2>3. r["in"] = i /\ r["out"] = o
    BY <1>4, <1>5, <2>1 DEF Stack
  <2>4. h = <<>> /\ e = f
    BY <1>6, <1>7, <2>2
  <2>5. Order(f, h, r["in"], r["out"]) = Order(e, h, s["in"], s["out"])
    BY <1>5, <2>3, <2>4
  <2>6. Waiting' = Waiting
    BY <1>8, <2>2, <2>4, <2>5
  <2> QED
    BY <2>2, <2>6 DEF QueueStep
<1> QED
  BY <1>9, <1>10, <1>11

(* The other steps of a client, or of the collector.                       *)
LEMMA OtherQueues ==
    ASSUME Typed, Flow, Frames, Typed', Flow', Reads, Reads', NEW s \in Piles, Settled(s),
           NEW t \in Thread, Join(t) \/ (t \in Client /\ Allocate(t))
    PROVE  QueueStep
<1>1. Settled(s)'
  BY JoinKeeps, AllocateKeeps
<1>2. Held' = Held /\ (Fetching' <=> Fetching)
  <2>1. CASE Join(t)
    <3>1. /\ pc[t] = "join" /\ pc' = [pc EXCEPT ![t] = "publish"] /\ pc'[t] = "publish"
          /\ UNCHANGED <<on, back, arg, v, x, v1, msg>>
      BY <2>1 DEF Join, Goto, Typed
    <3>2. Hand(GC)' = Hand(GC)
      <4>1. CASE t = GC
        BY <2>1, <4>1, JoinKeeps
      <4>2. CASE t # GC
        <5>1. Alone(t)
          BY <3>1 DEF Alone
        <5> QED
          BY <4>2, <5>1, GcHandKept
      <4> QED
        BY <4>1, <4>2
    <3>3. /\ Pushing(GC)' <=> Pushing(GC)
          /\ Popping(GC)' <=> Popping(GC)
          /\ pc'[GC] \in {"moved", "gotIn", "gotNext"} <=> pc[GC] \in {"moved", "gotIn", "gotNext"}
          /\ pc[GC] \in {"moved", "gotIn", "gotNext"} => pc'[GC] = pc[GC]
      BY <3>1 DEF Pushing, Popping, Typed, Thread
    <3> QED
      BY <3>1, <3>2, <3>3 DEF Held, Fetching
  <2>2. CASE t \in Client /\ Allocate(t)
    <3>1. /\ t # GC /\ pc'[GC] = pc[GC] /\ back'[GC] = back[GC] /\ v'[GC] = v[GC] /\ Alone(t)
      BY <2>2, MessagesAssumption DEF Allocate, Put, Push, Goto, Typed, Thread, Alone
    <3>2. Hand(GC)' = Hand(GC)
      BY <3>1, GcHandKept
    <3> QED
      BY <3>1, <3>2 DEF Held, Fetching, Popping, Pushing
  <2> QED
    BY <2>1, <2>2
<1>3. \A c \in Of(Held) \cup Of(s["in"]) \cup Of(s["out"]) : body'[c] = body[c]
  <2>1. CASE Join(t)
    BY <2>1 DEF Join
  <2>2. CASE t \in Client /\ Allocate(t)
    <3>1. PICK a \in unused : Put(t, a)
      BY <2>2 DEF Allocate
    <3>2. a \in Cell /\ body' = [body EXCEPT ![a] = msg[t]]
      BY <3>1 DEF Put, Typed
    <3>3. /\ \A l \in Stack : a \notin Of(s[l])
          /\ \A u \in Thread : a \notin Of(Grip[u])
      <4>1. InOne(a, s, Grip, unused)
        BY <3>2 DEF Settled, Apart
      <4> QED
        BY <3>1, <4>1, Zenon DEF InOne
    <3>4. a \notin Of(Held)
      BY <3>3 DEF Grip, Thread, Held, Of
    <3>5. \A d : d # a => body'[d] = body[d]
      BY <3>2 DEF Typed
    <3> QED
      BY <3>3, <3>4, <3>5 DEF Stack
  <2> QED
    BY <2>1, <2>2
<1>4. PICK h \in Seq(Cell) : h = Held
  BY HeldIsSeq, Zenon
<1>5. PICK e, f \in BOOLEAN : (e <=> Fetching) /\ (f <=> Fetching')
  BY FetchingOrNot
<1>6. Order(f, h, s["in"], s["out"]) = Order(e, h, s["in"], s["out"])
  BY <1>2, <1>5
<1>7. Waiting' = Waiting
  <2>1. \A d \in Of(h) \cup Of(s["in"]) \cup Of(s["out"]) : body'[d] = body[d]
    BY <1>3, <1>4
  <2>2. h = Held'
    BY <1>2, <1>4
  <2> QED
    BY <1>1, <1>4, <1>5, <1>6, <2>1, <2>2, WaitingKept
<1> QED
  BY <1>2, <1>7 DEF QueueStep

(* No race and no cleanup comes to an end.                                 *)
LEMMA NotBefore ==
    ASSUME Typed, Typed', [Next]_vars, ~raced', ~closing'
    PROVE  ~raced /\ ~closing
<1>1. raced' = raced \/ \E t \in Thread : StoreTop(t) \/ Publish(t)
  BY DEF Next, vars, history, StackStep, First, Test, LoadTop, LoadLink, Join, Send, Sending,
         Reuse, Allocate, GiveUp, Put, Collector, Get, GotOut, GotIn, GotNext, Moved, Handle,
         ReleaseSent, ReleaseFree, Close, Rest
<1>2. closing' = closing \/ closing' = TRUE
  BY DEF Next, vars, StackStep, First, Test, LoadTop, LoadLink, StoreTop, Join, Publish,
         Send, Sending, Reuse, Allocate, GiveUp, Put, Collector, Get, GotOut, GotIn, GotNext,
         Moved, Handle, ReleaseSent, ReleaseFree, Close, history
<1>3. raced => raced'
  BY <1>1, Zenon DEF StoreTop, Publish, SetTop
<1>4. closing => closing'
  BY <1>2, Zenon
<1> QED
  BY <1>3, <1>4, Zenon

(* A step that meets no other, before the cleanup, is a step of the queue. *)
LEMMA StepQueues ==
    ASSUME MInv, MInv', Reads, Reads', [Next]_vars, ~raced', ~closing'
    PROVE  QueueStep
<1>1. Typed /\ Flow /\ Typed' /\ Flow'
  BY DEF MInv
<1>2. ~raced /\ ~closing
  BY <1>1, NotBefore
<1>3. Frames
  BY <1>2 DEF MInv
<1>4. PICK s \in Piles : Settled(s)
  BY <1>2 DEF MInv
<1>5. ASSUME NEW t \in Thread, QuietStep(t)
      PROVE  QueueStep
  BY <1>1, <1>3, <1>4, <1>5, QuietQueues
<1>6. ASSUME NEW t \in Thread, StoreTop(t)
      PROVE  QueueStep
  BY <1>1, <1>3, <1>4, <1>6, TakeQueues
<1>7. ASSUME NEW t \in Thread, Publish(t)
      PROVE  QueueStep
  BY <1>1, <1>3, <1>4, <1>7, GiveQueues
<1>8. ASSUME NEW t \in Thread, Join(t) \/ (t \in Client /\ Allocate(t))
      PROVE  QueueStep
  BY <1>1, <1>3, <1>4, <1>8, OtherQueues
<1>9. ~ReleaseSent /\ ~ReleaseFree
  BY <1>1, <1>2 DEF ReleaseSent, ReleaseFree, Flow
<1>10. CASE UNCHANGED vars
  <2>1. Settled(s)'
    BY <1>3, <1>4, <1>10, StutterSettles
  <2>2. Held' = Held /\ (Fetching' <=> Fetching) /\ body' = body
    BY <1>10 DEF Held, Fetching, Hand, Popping, Pushing, vars, stacks, frames
  <2>3. PICK h \in Seq(Cell) : h = Held
    BY <1>1, HeldIsSeq, Zenon
  <2>4. PICK e, f \in BOOLEAN : (e <=> Fetching) /\ (f <=> Fetching')
    BY FetchingOrNot
  <2>5. Order(f, h, s["in"], s["out"]) = Order(e, h, s["in"], s["out"])
    BY <2>2, <2>4
  <2>6. Waiting' = Waiting
    <3>1. \A d \in Of(h) \cup Of(s["in"]) \cup Of(s["out"]) : body'[d] = body[d]
      BY <2>2
    <3>2. h = Held'
      BY <2>2, <2>3
    <3> QED
      BY <1>1, <1>4, <2>1, <2>3, <2>4, <2>5, <3>1, <3>2, WaitingKept
  <2> QED
    BY <2>2, <2>6 DEF QueueStep
<1> QED
  <2>1. GC \in Thread /\ \A t \in Client : t \in Thread
    BY DEF Thread
  <2>2. CASE \E t \in Thread : StackStep(t)
    <3>1. PICK t \in Thread : StackStep(t)
      BY <2>2
    <3> QED
      BY <1>5, <1>6, <1>7, <1>8, <3>1 DEF StackStep, QuietStep
  <2>3. CASE \E t \in Client, m \in Message : Send(t, m)
    <3>1. PICK t \in Client, m \in Message : Send(t, m)
      BY <2>3
    <3>2. QuietStep(t)
      BY <3>1 DEF QuietStep
    <3> QED
      BY <1>5, <2>1, <3>2
  <2>4. CASE \E t \in Client : Sending(t)
    <3>1. PICK t \in Client : Sending(t)
      BY <2>4
    <3>2. QuietStep(t) \/ Allocate(t)
      BY <3>1 DEF QuietStep, Sending
    <3> QED
      BY <1>5, <1>8, <2>1, <3>2
  <2>5. CASE Collector \/ Close
    <3>1. QuietStep(GC)
      BY <1>9, <2>5 DEF Collector, QuietStep
    <3> QED
      BY <1>5, <2>1, <3>1
  <2> QED
    BY <1>10, <2>2, <2>3, <2>4, <2>5 DEF Next

(* At the beginning nothing waits.                                         *)
LEMMA NothingWaits ==
    ASSUME Init, Reads
    PROVE  Waiting = <<>> /\ ~Fetching /\ ~raced /\ ~closing
<1>1. /\ pc[GC] = "idle" /\ ~raced /\ ~closing
      /\ ~Fetching /\ Held = <<>> /\ top["in"] = NULL /\ top["out"] = NULL
  BY DEF Init, Thread, Stack, Fetching, Held, Hand, Popping, Pushing
<1>2. Typed /\ \E s \in Piles : Settled(s)
  BY InitSettles
<1>3. PICK s \in Piles : Settled(s)
  BY <1>2
<1>4. PICK b \in [Cell -> Message \cup {NULL}] : b = body
  BY <1>2 DEF Typed
<1>5. PICK n \in Seq(Cell) : n = <<>>
  BY EmptySeq
<1>6. \A l \in {"in", "out"} : s[l] = <<>>
  <2> SUFFICES ASSUME NEW l \in {"in", "out"}
               PROVE  s[l] = <<>>
    OBVIOUS
  <2>1. s[l] \in Seq(Cell) /\ Chain(s[l], Len(s[l]), top[l], link, NULL)
    BY <1>3 DEF Settled, Lists, Piles, Stack
  <2>2. top[l] = NULL
    BY <1>1
  <2>3. CASE Len(s[l]) # 0
    <3>1. 1 \in 1..Len(s[l])
      BY <2>1, <2>3
    <3>2. s[l][1] # NULL /\ top[l] = s[l][1]
      BY <2>1, <2>3, <3>1 DEF Chain
    <3> QED
      BY <2>2, <3>2
  <2>4. CASE Len(s[l]) = 0
    BY <2>1, <2>4
  <2> QED
    BY <2>3, <2>4
<1>7. Waiting = Texts(b, Order(FALSE, n, n, n))
  BY <1>1, <1>3, <1>4, <1>5, <1>6 DEF Reads
<1>8. Order(FALSE, n, n, n) = <<>>
  BY <1>5 DEF Order, Reverse
<1>9. Texts(b, <<>>) = <<>>
  BY DEF Texts
<1> QED
  BY <1>1, <1>7, <1>8, <1>9, Zenon

(* Until two threads meet at a stack or the cleanup begins, the two stacks *)
(* of sgc_fifo.h are one queue: what is sent is appended, but for what is  *)
(* sent while sgc_fifo_get fetches, nothing is lost or duplicated, and     *)
(* what is handled was the first, for any number of clients and messages.  *)
THEOREM MessagesKeepQueue == Spec => KeepsQueue
<1>1. Init /\ Reads => Queue!Init
  BY NothingWaits DEF Queue!Init
<1>2. MInv /\ MInv' /\ Reads /\ Reads' /\ [Next]_vars => [Queue!Next]_(Queue!queueVars)
  <2> SUFFICES ASSUME MInv, MInv', Reads, Reads', [Next]_vars
               PROVE  [Queue!Next]_(Queue!queueVars)
    OBVIOUS
  <2>1. CASE raced' \/ closing'
    BY <2>1 DEF Queue!Next, Queue!Race
  <2>2. CASE ~raced' /\ ~closing'
    <3>1. QueueStep
      BY <2>2, StepQueues
    <3>2. ~raced /\ ~closing
      BY <2>2, NotBefore DEF MInv
    <3> DEFINE w == IF raced \/ closing THEN <<>> ELSE Waiting
               f == ~raced /\ ~closing /\ Fetching
               r == raced \/ closing
    <3>3. w = Waiting /\ w' = Waiting' /\ (f <=> Fetching) /\ (f' <=> Fetching') /\ ~r /\ ~r'
      BY <2>2, <3>2, Zenon
    <3>4. f \in BOOLEAN /\ f' \in BOOLEAN /\ r \in BOOLEAN /\ r' \in BOOLEAN
      BY Zenon
    <3> HIDE DEF w, f, r
    <3>5. r' = r /\ ((Fetching' <=> Fetching) => f' = f) /\ (Fetching' => f' = TRUE)
          /\ (~Fetching' => f' = FALSE)
      BY <3>3, <3>4, Zenon
    <3>6. CASE Waiting' = Waiting /\ (Fetching' <=> Fetching)
      <4>1. w' = w /\ f' = f /\ r' = r
        BY <3>3, <3>5, <3>6, Zenon
      <4> QED
        BY <4>1 DEF Queue!queueVars, w, f, r
    <3>7. CASE Waiting' = Waiting /\ Waiting # <<>> /\ ~Fetching /\ Fetching'
      <4>1. ~f /\ w # <<>> /\ f' = TRUE /\ w' = w /\ r' = r
        BY <3>3, <3>5, <3>7, Zenon
      <4>2. Queue!Fetch
        BY <4>1 DEF Queue!Fetch, w, f, r
      <4> QED
        BY <4>2 DEF Queue!Next
    <3>8. CASE Waiting' = Waiting /\ Fetching /\ ~Fetching'
      <4>1. f /\ f' = FALSE /\ w' = w /\ r' = r
        BY <3>3, <3>5, <3>8, Zenon
      <4>2. Queue!Fetched
        BY <4>1 DEF Queue!Fetched, w, f, r
      <4> QED
        BY <4>2 DEF Queue!Next
    <3>9. CASE ~Fetching /\ ~Fetching' /\ Waiting # <<>> /\ Waiting' = Tail(Waiting)
      <4>1. ~f /\ w # <<>> /\ f' = f /\ w' = Tail(w) /\ r' = r
        BY <3>3, <3>5, <3>9, Zenon
      <4>2. Queue!Handle
        BY <4>1 DEF Queue!Handle, w, f, r
      <4> QED
        BY <4>2 DEF Queue!Next
    <3>10. ASSUME NEW m \in Message, NEW i \in 1..Len(Waiting) + 1,
                 ~Fetching => i = Len(Waiting) + 1,
                 Waiting' = InsertAt(Waiting, i, m), Fetching' <=> Fetching
          PROVE  Queue!Next
      <4>1. /\ i \in 1..Len(w) + 1 /\ (~f => i = Len(w) + 1)
            /\ w' = InsertAt(w, i, m) /\ f' = f /\ r' = r
        BY <3>3, <3>5, <3>10, Zenon
      <4>2. Queue!InsertAt(w, i, m) = InsertAt(w, i, m)
        BY DEF Queue!InsertAt, InsertAt
      <4>3. Queue!Send(m)
        BY <4>1, <4>2, Zenon DEF Queue!Send, w, f, r
      <4> QED
        BY <4>3 DEF Queue!Next
    <3> QED
      BY <3>1, <3>6, <3>7, <3>8, <3>9, <3>10, Zenon DEF QueueStep
  <2> QED
    BY <2>1, <2>2
<1> QED
  BY <1>1, <1>2, MessagesInvariant, WaitingIsRead, PTL DEF Spec, KeepsQueue, Queue!Spec
=============================================================================
