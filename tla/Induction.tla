----------------------------- MODULE Induction ------------------------------
(***************************************************************************)
(* Induction over the natural numbers in a form that takes a set, not an   *)
(* operator, and what it says of iterating a function over the positions   *)
(* of a sequence, the last one first, as FoldLeft of the module            *)
(* SequencesExt does.  Nothing here is about one module of the project.    *)
(***************************************************************************)
EXTENDS Integers, TLAPS, WellFoundedInduction

(* A nonempty set of natural numbers has a least element: the library's    *)
(* minimum principle for the relation < .                                  *)
LEMMA LeastNatural ==
  ASSUME NEW T, T \subseteq Nat, T # {}
  PROVE  \E x \in T : \A y \in T : x <= y
<1> DEFINE R == OpToRel(<, Nat)
<1>1. IsWellFoundedOn(R, Nat)
  BY NatLessThanWellFounded
<1>2. \A x, y \in T : y < x => <<y, x>> \in R
  BY DEF OpToRel
<1> HIDE DEF R
<1>3. PICK x \in T : \A y \in T : <<y, x>> \notin R
  BY <1>1, WFMin
<1>4. \A y \in T : ~(y < x)
  BY <1>2, <1>3
<1>5. QED
  BY <1>3, <1>4

(* Induction over a set: the least counterexample is not 0, and the number *)
(* before it is none.                                                      *)
LEMMA SetInduction ==
  ASSUME NEW T, 0 \in T, \A n \in Nat : n \in T => n + 1 \in T
  PROVE  Nat \subseteq T
<1> SUFFICES ASSUME Nat \ T # {} PROVE FALSE
  OBVIOUS
<1>1. PICK x \in Nat \ T : \A y \in Nat \ T : x <= y
  BY LeastNatural
<1>2. x - 1 \in Nat /\ x = (x - 1) + 1
  BY <1>1
<1>3. x - 1 \in T
  BY <1>1, <1>2
<1>4. QED
  BY <1>1, <1>2, <1>3

(* The positions up to i.                                                  *)
LEMMA Prefix ==
  ASSUME NEW n \in Nat, NEW i \in 1..n
  PROVE  /\ 1..i \in SUBSET (1..n) /\ 1..i # {} /\ i \in 1..i
         /\ \A j \in 1..i : j <= i
         /\ (1..i) \ {i} = 1..(i - 1)
<1>1. 1..i \in SUBSET (1..n) /\ i \in 1..i /\ \A j \in 1..i : j <= i
  OBVIOUS
<1>2. (1..i) \ {i} = 1..(i - 1)
  OBVIOUS
<1>3. QED
  BY <1>1, <1>2

(* Iterating step from base over the elements of a set of positions, the   *)
(* largest of them applied last.  top(s) is any operator that chooses the  *)
(* largest element, given here as the function it is on the sets at hand.  *)
Iterates(h, step, base, n) ==
  /\ h[{}] = base
  /\ \A s \in SUBSET (1..n) : \A k \in s :
       (\A j \in s : j <= k) => h[s] = step[<<k, h[s \ {k}]>>]

(* There is such an iteration for every length.                            *)
LEMMA IterationExists ==
  ASSUME NEW A, NEW base \in A, NEW n \in Nat,
         NEW step \in [(1..n) \X A -> A]
  PROVE  \E h \in [SUBSET (1..n) -> A] : Iterates(h, step, base, n)
<1> DEFINE Found(k) == \E h \in [SUBSET (1..k) -> A] : Iterates(h, step, base, k)
           Good == {k \in Nat : k <= n => Found(k)}
<1>1. 0 \in Good
  <2> DEFINE h == [s \in SUBSET (1..0) |-> base]
  <2>1. h \in [SUBSET (1..0) -> A] /\ h[{}] = base
    OBVIOUS
  <2>2. \A s \in SUBSET (1..0) : s = {}
    <3>1. 1..0 = {}
      OBVIOUS
    <3>2. QED
      BY <3>1
  <2>3. Iterates(h, step, base, 0)
    BY <2>1, <2>2 DEF Iterates
  <2> HIDE DEF h
  <2>4. Found(0)
    BY <2>1, <2>3
  <2> HIDE DEF Found
  <2>5. QED
    BY <2>4
<1>2. ASSUME NEW k \in Nat, k \in Good PROVE k + 1 \in Good
  <2> SUFFICES ASSUME k + 1 <= n PROVE Found(k + 1)
    <3> HIDE DEF Found
    <3>1. QED
      OBVIOUS
  <2>0. Found(k)
    <3> HIDE DEF Found
    <3>1. QED
      BY <1>2
  <2>1. PICK g \in [SUBSET (1..k) -> A] : Iterates(g, step, base, k)
    BY <2>0
  <2> DEFINE m == k + 1
             h == [s \in SUBSET (1..m) |->
                     IF m \in s THEN step[<<m, g[s \ {m}]>>] ELSE g[s]]
  <2>2. m \in 1..n /\ m \notin 1..k
    OBVIOUS
  <2>3. \A s \in SUBSET (1..m) : s \ {m} \in SUBSET (1..k)
    OBVIOUS
  <2>4. \A s \in SUBSET (1..m) : m \notin s => s \in SUBSET (1..k)
    BY <2>3
  <2>5. h \in [SUBSET (1..m) -> A]
    BY <2>2, <2>3, <2>4
  <2>6. \A s \in SUBSET (1..k) : h[s] = g[s]
    <3> TAKE s \in SUBSET (1..k)
    <3>1. s \in SUBSET (1..m) /\ m \notin s
      BY <2>2
    <3>2. QED
      BY <3>1
  <2>7. ASSUME NEW s \in SUBSET (1..m), NEW j \in s, \A i \in s : i <= j
        PROVE  h[s] = step[<<j, h[s \ {j}]>>]
    <3>1. CASE m \in s
      <4>1. j = m
        BY <2>7, <3>1
      <4>2. h[s \ {m}] = g[s \ {m}]
        BY <2>3, <2>6
      <4>3. h[s] = step[<<m, g[s \ {m}]>>]
        BY <3>1
      <4>4. QED
        BY <4>1, <4>2, <4>3
    <3>2. CASE m \notin s
      <4>1. s \in SUBSET (1..k) /\ s \ {j} \in SUBSET (1..k)
        BY <2>4, <3>2
      <4>2. g[s] = step[<<j, g[s \ {j}]>>]
        BY <2>1, <2>7, <4>1 DEF Iterates
      <4>3. QED
        BY <2>6, <4>1, <4>2
    <3>3. QED
      BY <3>1, <3>2
  <2>8. h[{}] = base
    <3>1. g[{}] = base
      BY <2>1 DEF Iterates
    <3>2. {} \in SUBSET (1..k)
      OBVIOUS
    <3>3. QED
      BY <2>6, <3>1, <3>2
  <2>9. Iterates(h, step, base, m)
    <3> HIDE DEF h
    <3>1. QED
      BY <2>7, <2>8 DEF Iterates
  <2>10. QED
    BY <2>5, <2>9
<1>3. Nat \subseteq Good
  <2> HIDE DEF Good
  <2>1. QED
    BY <1>1, <1>2, SetInduction
<1>4. Found(n)
  <2> HIDE DEF Found
  <2>1. QED
    BY <1>3
<1>5. QED
  BY <1>4

(* The largest element of a nonempty set of positions exists.              *)
LEMMA LargestPosition ==
  ASSUME NEW n \in Nat, NEW s, s \subseteq 1..n, s # {}
  PROVE  \E x \in s : \A y \in s : x >= y
<1> DEFINE T == {n - x : x \in s}
<1>1. T \subseteq Nat /\ T # {}
  <2>1. \A x \in s : n - x \in Nat
    OBVIOUS
  <2>2. QED
    BY <2>1
<1>2. PICK t \in T : \A u \in T : t <= u
  <2> HIDE DEF T
  <2>1. QED
    BY <1>1, LeastNatural
<1>3. PICK x \in s : t = n - x
  OBVIOUS
<1>4. \A y \in s : n - x <= n - y
  BY <1>2, <1>3
<1>5. QED
  BY <1>3, <1>4

(* The values that an iteration takes on the prefixes of the positions.    *)
Visits(r, step, base, n) ==
  /\ r[0] = base
  /\ \A i \in 1..n : r[i] = step[<<i, r[i - 1]>>]

(* iter gives them, as long as they have the type of the steps...          *)
OnPrefixes(iter, step, A, n) ==
  \A i \in 1..n : iter[1..(i - 1)] \in A
                  => iter[1..i] = step[<<i, iter[1..(i - 1)]>>]

Follows(r, iter, n) == \A i \in 0..n : r[i] = iter[1..i]

(* ...and they have.                                                       *)
LEMMA PrefixVisits ==
  ASSUME NEW A, NEW base \in A, NEW n \in Nat,
         NEW step \in [(1..n) \X A -> A], NEW iter,
         iter[{}] = base, OnPrefixes(iter, step, A, n)
  PROVE  \E r \in [0..n -> A] : Visits(r, step, base, n) /\ Follows(r, iter, n)
<1> DEFINE T == {i \in Nat : i <= n => iter[1..i] \in A}
           r == [i \in 0..n |-> iter[1..i]]
<1> USE DEF OnPrefixes
<1>1. 0 \in T
  <2>1. 1..0 = {}
    OBVIOUS
  <2>2. QED
    BY <2>1
<1>2. ASSUME NEW i \in Nat, i \in T PROVE i + 1 \in T
  <2> SUFFICES ASSUME i + 1 <= n PROVE iter[1..(i + 1)] \in A
    OBVIOUS
  <2>1. i + 1 \in 1..n /\ (i + 1) - 1 = i /\ iter[1..i] \in A
    BY <1>2
  <2>2. iter[1..(i + 1)] = step[<<i + 1, iter[1..i]>>]
    BY <2>1
  <2>3. QED
    BY <2>1, <2>2
<1>3. Nat \subseteq T
  <2> HIDE DEF T
  <2>1. QED
    BY <1>1, <1>2, SetInduction
<1>4. r \in [0..n -> A]
  BY <1>3
<1>5. r[0] = base
  <2>1. 1..0 = {} /\ r[0] = iter[1..0]
    OBVIOUS
  <2>2. QED
    BY <2>1
<1>6. ASSUME NEW i \in 1..n PROVE r[i] = step[<<i, r[i - 1]>>]
  <2>1. i \in 0..n /\ i - 1 \in 0..n
    OBVIOUS
  <2>2. r[i] = iter[1..i] /\ r[i - 1] = iter[1..(i - 1)]
    BY <2>1
  <2>3. iter[1..(i - 1)] \in A
    BY <1>4, <2>1, <2>2
  <2>4. QED
    BY <2>2, <2>3
<1>7. Follows(r, iter, n)
  BY DEF Follows
<1> HIDE DEF r
<1>8. Visits(r, step, base, n)
  BY <1>5, <1>6 DEF Visits
<1>9. QED
  BY <1>4, <1>7, <1>8

(* A function whose value at k is made from k and its value at k - 1       *)
(* exists on any interval from 0: what a recursive definition needs.       *)
LEMMA RecursionExists ==
  ASSUME NEW A, NEW base \in A, NEW n \in Nat,
         NEW step \in [(1..n) \X A -> A]
  PROVE  \E r \in [0..n -> A] : Visits(r, step, base, n)
<1>1. PICK h \in [SUBSET (1..n) -> A] : Iterates(h, step, base, n)
  BY IterationExists
<1>2. h[{}] = base
  BY <1>1 DEF Iterates
<1>3. ASSUME NEW i \in 1..n PROVE h[1..i] = step[<<i, h[1..(i - 1)]>>]
  <2>1. 1..i \in SUBSET (1..n) /\ i \in 1..i /\ \A j \in 1..i : j <= i
    BY Prefix
  <2>2. (1..i) \ {i} = 1..(i - 1)
    BY Prefix
  <2>3. h[1..i] = step[<<i, h[(1..i) \ {i}]>>]
    BY <1>1, <2>1 DEF Iterates
  <2>4. QED
    BY <2>2, <2>3
<1>4. OnPrefixes(h, step, A, n)
  BY <1>3 DEF OnPrefixes
<1>5. QED
  BY <1>2, <1>4, PrefixVisits

=============================================================================
