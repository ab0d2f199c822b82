-------------------------- MODULE MigrationsProofs --------------------------
(***************************************************************************)
(* Apply's list of files, for every listing of the embedded directory: it  *)
(* exists, holds every migration and is in order.                          *)
(***************************************************************************)
EXTENDS Migrations, Induction, FiniteSetTheorems

Increasing(s, n) == \A i, j \in 1..n : i < j => s[i] < s[j]

(* A finite set of numbers can be listed in ascending order.               *)
LEMMA Listed ==
  ASSUME NEW S, S \subseteq Nat, IsFiniteSet(S)
  PROVE  \E s \in [1..Cardinality(S) -> S] : Increasing(s, Cardinality(S))
<1> DEFINE Found(U, n) == \E s \in [1..n -> U] : Increasing(s, n)
           T == {n \in Nat : \A U \in SUBSET Nat :
                   IsFiniteSet(U) /\ Cardinality(U) = n => Found(U, n)}
<1>1. 0 \in T
  <2>1. ASSUME NEW U \in SUBSET Nat PROVE Found(U, 0)
    <3> DEFINE s == [i \in 1..0 |-> 0]
    <3>1. 1..0 = {}
      OBVIOUS
    <3>2. s \in [1..0 -> U] /\ Increasing(s, 0)
      BY <3>1 DEF Increasing
    <3> HIDE DEF s
    <3>3. QED
      BY <3>2
  <2> HIDE DEF Found
  <2>2. QED
    BY <2>1
<1>2. ASSUME NEW n \in Nat, n \in T PROVE n + 1 \in T
  <2>1. ASSUME NEW U \in SUBSET Nat, IsFiniteSet(U), Cardinality(U) = n + 1
        PROVE  Found(U, n + 1)
    <3>1. U # {}
      BY <2>1, FS_EmptySet
    <3>2. PICK m \in U : \A y \in U : m <= y
      BY <3>1, LeastNatural
    <3> DEFINE R == U \ {m}
    <3>3. R \in SUBSET Nat /\ IsFiniteSet(R) /\ Cardinality(R) = n
      <4>1. IsFiniteSet(R) /\ Cardinality(R) = Cardinality(U) - 1
        BY <2>1, <3>2, FS_RemoveElement
      <4>2. QED
        BY <2>1, <4>1
    <3>4. Found(R, n)
      <4> HIDE DEF Found, R
      <4>1. QED
        BY <1>2, <3>3
    <3>5. PICK t \in [1..n -> R] : Increasing(t, n)
      BY <3>4
    <3> DEFINE s == [i \in 1..(n + 1) |-> IF i = 1 THEN m ELSE t[i - 1]]
    <3>6. \A i \in 1..(n + 1) : i # 1 => i - 1 \in 1..n /\ s[i] = t[i - 1] /\ s[i] \in R
      OBVIOUS
    <3>7. s[1] = m
      OBVIOUS
    <3>8. s \in [1..(n + 1) -> U]
      BY <3>6, <3>7
    <3>9. ASSUME NEW i \in 1..(n + 1), NEW j \in 1..(n + 1), i < j
          PROVE  s[i] < s[j]
      <4>0. j # 1 /\ \A x \in R : x \in Nat
        BY <3>9
      <4>1. j - 1 \in 1..n /\ s[j] = t[j - 1] /\ s[j] \in R /\ s[j] \in Nat
        <5> HIDE DEF s, R
        <5>1. QED
          BY <3>6, <4>0
      <4>2. CASE i = 1
        BY <3>2, <3>7, <4>1, <4>2
      <4>3. CASE i # 1
        <5>1. i - 1 \in 1..n /\ s[i] = t[i - 1] /\ i - 1 < j - 1
          BY <3>6, <3>9, <4>3
        <5> HIDE DEF s
        <5>2. QED
          BY <3>5, <4>1, <5>1 DEF Increasing
      <4>4. QED
        BY <4>2, <4>3
    <3> HIDE DEF s
    <3>10. Increasing(s, n + 1)
      BY <3>9 DEF Increasing
    <3>11. QED
      BY <3>8, <3>10
  <2> HIDE DEF Found
  <2>2. QED
    BY <2>1
<1>3. Nat \subseteq T
  <2> HIDE DEF T
  <2>1. QED
    BY <1>1, <1>2, SetInduction
<1>4. Cardinality(S) \in Nat
  BY FS_CardinalityType
<1>5. Found(S, Cardinality(S))
  <2> HIDE DEF Found
  <2>1. QED
    BY <1>3, <1>4
<1>6. QED
  BY <1>5

(* The embedded files have finitely many names.                            *)
LEMMA FileNamesFinite == FileNames \subseteq Nat /\ IsFiniteSet(FileNames)
<1> DEFINE J == {j \in 1..Len(Listing) : IsMigration(Listing[j])}
           f == [j \in J |-> Listing[j].name]
<1>1. Len(Listing) \in Nat
  BY ListingAssumption
<1>2. IsFiniteSet(J)
  <2>1. IsFiniteSet(1..Len(Listing))
    BY <1>1, FS_Interval
  <2>2. QED
    BY <2>1, FS_Subset
<1>3. FileNames = {f[j] : j \in J}
  BY DEF FileNames
<1>4. f \in Surjection(J, FileNames)
  BY <1>3 DEF Surjection
<1>5. IsFiniteSet(FileNames)
  BY <1>2, <1>4, FS_Surjection
<1>6. FileNames \subseteq Nat
  <2> DEFINE Entry == [name : Nat, dir : BOOLEAN, sql : BOOLEAN]
  <2>1. \A j \in 1..Len(Listing) : Listing[j] \in Entry
    <3>1. Listing \in Seq(Entry)
      BY ListingAssumption
    <3> HIDE DEF Entry
    <3>2. QED
      BY <3>1
  <2>2. \A j \in 1..Len(Listing) : Listing[j].name \in Nat
    BY <2>1
  <2>3. QED
    BY <2>2 DEF FileNames
<1>7. QED
  BY <1>5, <1>6

(* Apply's list holds every migration, each after those that precede it.   *)
LEMMA FilesInOrder ==
  /\ Files \in Seq(FileNames)
  /\ \A g \in FileNames : \E i \in 1..Len(Files) : Files[i] = g
  /\ \A i \in 1..Len(Files) : \A g \in FileNames :
       g < Files[i] => \E j \in 1..(i - 1) : Files[j] = g
<1> DEFINE n == Cardinality(FileNames)
<1>1. n \in Nat
  BY FileNamesFinite, FS_CardinalityType
<1>2. Files \in [1..n -> FileNames] /\ Increasing(Files, n)
  <2>1. \E s \in [1..n -> FileNames] : Increasing(s, n)
    BY FileNamesFinite, Listed
  <2>2. Files = CHOOSE s \in [1..n -> FileNames] : Increasing(s, n)
    BY Zenon DEF Files, Increasing
  <2>3. QED
    BY Zenon, <2>1, <2>2
<1>3. \A i \in 1..n : Files[i] \in FileNames /\ Files[i] \in Nat
  BY <1>2, FileNamesFinite
<1>4. \A g \in FileNames : \E i \in 1..n : Files[i] = g
  <2>1. Files \in Injection(1..n, FileNames)
    <3>1. ASSUME NEW i \in 1..n, NEW j \in 1..n, Files[i] = Files[j] PROVE i = j
      <4>1. ~(i < j) /\ ~(j < i)
        BY <1>2, <1>3, <3>1 DEF Increasing
      <4>2. QED
        BY <1>1, <4>1
    <3>2. QED
      BY <1>2, <3>1 DEF Injection, IsInjective
  <2>2. IsFiniteSet(1..n) /\ Cardinality(1..n) = n
    BY <1>1, FS_Interval
  <2>3. Files \in Surjection(1..n, FileNames)
    BY <2>1, <2>2, FileNamesFinite, FS_Injection
  <2>4. QED
    BY <2>3 DEF Surjection
<1>5. Files \in Seq(FileNames) /\ Len(Files) = n
  BY <1>1, <1>2
<1>6. ASSUME NEW i \in 1..n, NEW g \in FileNames, g < Files[i]
      PROVE  \E j \in 1..(i - 1) : Files[j] = g
  <2>1. PICK j \in 1..n : Files[j] = g
    BY <1>4
  <2>2. ~(i < j) /\ i # j
    BY <1>2, <1>3, <1>6, <2>1 DEF Increasing
  <2>3. j \in 1..(i - 1)
    BY <1>1, <2>2
  <2>4. QED
    BY <2>1, <2>3
<1>7. QED
  BY <1>4, <1>5, <1>6

=============================================================================
