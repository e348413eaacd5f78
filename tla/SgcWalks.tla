------------------------------ MODULE SgcWalks ------------------------------
(***************************************************************************)
(* Facts about numbers and about going along links, shared by the proofs   *)
(* about lists.  The lists of the models are walks that recursive          *)
(* functions define; a set of numbers without a least member stands in for *)
(* induction over their length.                                            *)
(***************************************************************************)
EXTENDS Integers, FiniteSetTheorems, FunctionTheorems, WellFoundedInduction, TLAPS

(* A set of numbers has a least one.                                       *)
LEMMA Least ==
    ASSUME NEW S \in SUBSET Nat, S # {}
    PROVE  \E i \in S : \A j \in S : i <= j
<1> DEFINE R == OpToRel(<, Nat)
<1>1. IsWellFoundedOn(R, Nat)
  BY NatLessThanWellFounded
<1>2. \A i, j \in Nat : <<j, i>> \in R <=> j < i
  BY DEF OpToRel
<1> HIDE DEF R
<1>3. PICK i \in S : \A j \in S : ~ (<<j, i>> \in R)
  BY <1>1, WFMin
<1>4. ASSUME NEW j \in S
      PROVE  i <= j
  <2>1. i \in Nat /\ j \in Nat
    OBVIOUS
  <2>2. ~ (j < i)
    BY <1>2, <1>3, <2>1, Zenon
  <2> QED
    BY <2>1, <2>2
<1> QED
  BY <1>4
-----------------------------------------------------------------------------
(* f[i] is where i steps along the links nxt lead to from a, at most k;    *)
(* null is where a way ends.                                               *)
Steps(f, k, a, nxt, null) ==
    f = [i \in 0..k |-> IF i = 0 THEN a ELSE IF f[i-1] = null THEN null ELSE nxt[f[i-1]]]

(* There are as many steps as one likes.                                   *)
LEMMA StepsExist ==
    ASSUME NEW a, NEW nxt, NEW null, NEW k \in Nat
    PROVE  \E f : Steps(f, k, a, nxt, null)
<1> DEFINE Bad == {j \in Nat : ~ \E f : Steps(f, j, a, nxt, null)}
<1> SUFFICES ASSUME Bad # {}
             PROVE  FALSE
  OBVIOUS
<1>1. PICK j \in Bad : \A i \in Bad : j <= i
  BY Least
<1>2. j \in Nat /\ ~ \E f : Steps(f, j, a, nxt, null)
  OBVIOUS
<1>3. CASE j = 0
  <2> DEFINE f == [i \in 0..0 |-> a]
  <2>1. Steps(f, 0, a, nxt, null)
    BY DEF Steps
  <2> QED
    BY <1>2, <1>3, <2>1
<1>4. CASE j # 0
  <2>1. j - 1 \in Nat /\ j - 1 \notin Bad
    BY <1>1, <1>2, <1>4
  <2>2. PICK g : Steps(g, j - 1, a, nxt, null)
    BY <2>1
  <2> DEFINE f == [i \in 0..j |-> IF i < j THEN g[i]
                                  ELSE IF g[j-1] = null THEN null ELSE nxt[g[j-1]]]
  <2>3. ASSUME NEW i \in 0..j
        PROVE  f[i] = IF i = 0 THEN a ELSE IF f[i-1] = null THEN null ELSE nxt[f[i-1]]
    <3>1. CASE i = 0
      BY <1>2, <1>4, <2>2, <3>1 DEF Steps
    <3>2. CASE i # 0 /\ i < j
      <4>1. i \in 0..(j-1) /\ i - 1 \in 0..j /\ i - 1 < j
        BY <1>2, <3>2
      <4>2. g[i] = IF g[i-1] = null THEN null ELSE nxt[g[i-1]]
        BY <2>2, <3>2, <4>1 DEF Steps
      <4> QED
        BY <3>2, <4>1, <4>2
    <3>3. CASE i = j
      BY <1>2, <1>4, <3>3
    <3> QED
      BY <1>2, <3>1, <3>2, <3>3
  <2>4. f = [i \in 0..j |-> IF i = 0 THEN a ELSE IF f[i-1] = null THEN null ELSE nxt[f[i-1]]]
    BY <2>3
  <2> HIDE DEF f
  <2>5. Steps(f, j, a, nxt, null)
    BY <2>4 DEF Steps
  <2> QED
    BY <1>2, <2>5
<1> QED
  BY <1>3, <1>4

-----------------------------------------------------------------------------
(* The first n members of s are a list that a points to.                   *)
Chain(s, n, a, nxt, null) ==
    /\ a = IF n = 0 THEN null ELSE s[1]
    /\ \A i \in 1..n : s[i] # null /\ nxt[s[i]] = IF i = n THEN null ELSE s[i+1]

(* A walk along a list meets its members in order, and then null.          *)
LEMMA StepsAlongChain ==
    ASSUME NEW nxt, NEW null, NEW a, NEW s, NEW n \in Nat, Chain(s, n, a, nxt, null),
           NEW k \in Nat, NEW f, Steps(f, k, a, nxt, null)
    PROVE  \A i \in 0..k : f[i] = IF i < n THEN s[i+1] ELSE null
<1>2. f[0] = a /\ \A j \in 1..k : f[j] = IF f[j-1] = null THEN null ELSE nxt[f[j-1]]
  <2>1. \A j \in 0..k :
           f[j] = IF j = 0 THEN a ELSE IF f[j-1] = null THEN null ELSE nxt[f[j-1]]
    BY DEF Steps
  <2> QED
    BY <2>1
<1> DEFINE Bad == {i \in 0..k : f[i] # IF i < n THEN s[i+1] ELSE null}
<1> SUFFICES ASSUME Bad # {}
             PROVE  FALSE
  OBVIOUS
<1>1. PICK i \in Bad : \A j \in Bad : i <= j
  <2>1. Bad \in SUBSET Nat
    OBVIOUS
  <2> QED
    BY <2>1, Least
<1>3. i # 0
  BY <1>1, <1>2 DEF Chain
<1>4. i - 1 \in 0..k /\ i - 1 \notin Bad /\ i \in 1..k
  BY <1>1, <1>3
<1>5. f[i-1] = IF i - 1 < n THEN s[i] ELSE null
  BY <1>4
<1>6. f[i] = IF i < n THEN s[i+1] ELSE null
  <2>1. CASE i - 1 < n
    <3>1. i \in 1..n
      BY <1>4, <2>1
    <3>2. s[i] # null /\ nxt[s[i]] = IF i = n THEN null ELSE s[i+1]
      BY <3>1 DEF Chain
    <3> QED
      BY <1>2, <1>4, <1>5, <2>1, <3>1, <3>2
  <2>2. CASE ~ (i - 1 < n)
    BY <1>2, <1>4, <1>5, <2>2
  <2> QED
    BY <2>1, <2>2
<1> QED
  BY <1>1, <1>6

(* A list of distinct members of a finite set is no longer than the set.   *)
LEMMA ChainIsShort ==
    ASSUME NEW S, IsFiniteSet(S), NEW n \in Nat, NEW s, \A i \in 1..n : s[i] \in S,
           \A i, j \in 1..n : s[i] = s[j] => i = j
    PROVE  /\ Cardinality(S) \in Nat /\ n <= Cardinality(S)
           /\ IsFiniteSet({s[i] : i \in 1..n}) /\ Cardinality({s[i] : i \in 1..n}) = n
<1> DEFINE T == {s[i] : i \in 1..n}
           g == [i \in 1..n |-> s[i]]
<1>1. g \in Bijection(1..n, T)
  BY DEF Bijection, Injection, Surjection, IsInjective
<1>2. IsFiniteSet(1..n) /\ Cardinality(1..n) = n
  BY FS_Interval
<1>3. ExistsBijection(1..n, T)
  BY <1>1 DEF ExistsBijection
<1>4. IsFiniteSet(T) /\ Cardinality(T) = n
  BY <1>2, <1>3, FS_Bijection
<1>5. T \in SUBSET S
  OBVIOUS
<1> QED
  BY <1>4, <1>5, FS_Subset, FS_CardinalityType
=============================================================================
