----------------------- MODULE AlertConfigCacheProofs -----------------------
(***************************************************************************)
(* Theorems about the alert configuration cache and the calls it makes,    *)
(* for every set of lists, any retry policy and any backoff delays.        *)
(***************************************************************************)
EXTENDS AlertConfigCache, Induction

-----------------------------------------------------------------------------
(* The snapshot.  Its two maps are looked at key by key: what a map holds  *)
(* after the first i entries of the list is the last of them for the key.  *)

Entries == [tenant : Tenants, gateway : GatewayIds \cup {NoId}, timeout : Int]

Maps(S) == UNION {[T -> Int] : T \in SUBSET S}

Snapshots == [byGateway : Maps(Tenants \X GatewayIds), byTenant : Maps(Tenants)]

For(entry, t, g) == entry.tenant = t /\ entry.gateway = g

LastFor(list, t, g, i, j) ==
  j \in 1..i /\ For(list[j], t, g) /\ \A k \in 1..i : For(list[k], t, g) => k <= j

Holds(f, x, list, t, g, i) ==
  \/ x \notin DOMAIN f /\ \A j \in 1..i : ~For(list[j], t, g)
  \/ x \in DOMAIN f /\ \E j \in 1..i : /\ LastFor(list, t, g, i, j)
                                       /\ f[x] = list[j].timeout

SoFar(snap, list, i) ==
  \A t \in Tenants, g \in GatewayIds :
    /\ Holds(snap.byGateway, <<t, g>>, list, t, g, i)
    /\ Holds(snap.byTenant, t, list, t, NoId, i)

(* A map that gets a value keeps its type.                                 *)
LEMMA PutType ==
  ASSUME NEW S, NEW f \in Maps(S), NEW k \in S, NEW v \in Int
  PROVE  Put(f, k, v) \in Maps(S)
<1>1. PICK T \in SUBSET S : f \in [T -> Int]
  BY DEF Maps
<1>2. Put(f, k, v) \in [T \cup {k} -> Int] /\ T \cup {k} \in SUBSET S
  BY <1>1 DEF Put
<1>3. QED
  BY <1>2 DEF Maps

(* The snapshot the cache starts with is a snapshot.                       *)
LEMMA EmptyType == EmptySnapshot \in Snapshots
<1>1. <<>> \in [{} -> Int]
  OBVIOUS
<1>2. \A S : <<>> \in Maps(S)
  BY <1>1 DEF Maps
<1>3. QED
  BY <1>2 DEF EmptySnapshot, Snapshots

(* One entry of a list turns a snapshot into a snapshot.                   *)
LEMMA AddConfigType ==
  ASSUME NEW snap \in Snapshots, NEW cfg \in Entries
  PROVE  AddConfig(snap, cfg) \in Snapshots
<1>1. CASE cfg.gateway # NoId
  <2>1. /\ <<cfg.tenant, cfg.gateway>> \in Tenants \X GatewayIds
        /\ cfg.timeout \in Int /\ snap.byGateway \in Maps(Tenants \X GatewayIds)
    BY <1>1 DEF Entries, Snapshots
  <2>2. Put(snap.byGateway, <<cfg.tenant, cfg.gateway>>, cfg.timeout)
          \in Maps(Tenants \X GatewayIds)
    BY <2>1, PutType
  <2>3. QED
    BY <1>1, <2>2 DEF AddConfig, Snapshots
<1>2. CASE cfg.gateway = NoId
  <2>1. cfg.tenant \in Tenants /\ cfg.timeout \in Int /\ snap.byTenant \in Maps(Tenants)
    BY DEF Entries, Snapshots
  <2>2. Put(snap.byTenant, cfg.tenant, cfg.timeout) \in Maps(Tenants)
    BY <2>1, PutType
  <2>3. QED
    BY <1>2, <2>2 DEF AddConfig, Snapshots
<1>3. QED
  BY <1>1, <1>2

(* An entry for the key replaces the value; another one leaves it.         *)
LEMMA PutHolds ==
  ASSUME NEW f, NEW x, NEW k, NEW list, NEW t, NEW g, NEW i \in Nat,
         Holds(f, x, list, t, g, i), For(list[i + 1], t, g) <=> x = k
  PROVE  Holds(Put(f, k, list[i + 1].timeout), x, list, t, g, i + 1)
<1> DEFINE h == Put(f, k, list[i + 1].timeout)
<1> SUFFICES Holds(h, x, list, t, g, i + 1)
  OBVIOUS
<1>1. DOMAIN h = DOMAIN f \cup {k}
  BY DEF Put
<1>2. 1..(i + 1) = (1..i) \cup {i + 1}
  OBVIOUS
<1>3. CASE x = k
  <2>1. x \in DOMAIN h /\ h[x] = list[i + 1].timeout
    BY <1>3 DEF Put
  <2>2. LastFor(list, t, g, i + 1, i + 1)
    BY <1>3 DEF LastFor
  <2> HIDE DEF h
  <2>3. QED
    BY <1>2, <2>1, <2>2 DEF Holds
<1>4. CASE x # k
  <2>1. x \in DOMAIN h <=> x \in DOMAIN f
    BY <1>1, <1>4
  <2>2. x \in DOMAIN f => h[x] = f[x]
    BY <1>4 DEF Put
  <2>3. \A j \in 1..i : LastFor(list, t, g, i, j) => LastFor(list, t, g, i + 1, j)
    BY <1>2, <1>4 DEF LastFor
  <2> HIDE DEF h
  <2>4. QED
    BY <1>2, <1>4, <2>1, <2>2, <2>3 DEF Holds
<1>5. QED
  BY <1>3, <1>4

(* An entry for another key leaves what the map holds for this one alone.  *)
LEMMA OtherHolds ==
  ASSUME NEW f, NEW x, NEW list, NEW t, NEW g, NEW i \in Nat,
         Holds(f, x, list, t, g, i), ~For(list[i + 1], t, g)
  PROVE  Holds(f, x, list, t, g, i + 1)
<1>1. 1..(i + 1) = (1..i) \cup {i + 1}
  OBVIOUS
<1>2. \A j \in 1..i : LastFor(list, t, g, i, j) => LastFor(list, t, g, i + 1, j)
  BY <1>1 DEF LastFor
<1>3. QED
  BY <1>1, <1>2 DEF Holds

(* One entry more.                                                         *)
LEMMA AddOne ==
  ASSUME NEW list \in Seq(Entries), NEW i \in Nat, i + 1 <= Len(list),
         NEW snap \in Snapshots, SoFar(snap, list, i)
  PROVE  SoFar(AddConfig(snap, list[i + 1]), list, i + 1)
<1> DEFINE cfg == list[i + 1]
           next == AddConfig(snap, cfg)
<1>1. cfg \in Entries
  <2> HIDE DEF Entries
  <2>1. QED
    OBVIOUS
<1>2. ASSUME NEW t \in Tenants, NEW g \in GatewayIds
      PROVE  /\ Holds(next.byGateway, <<t, g>>, list, t, g, i + 1)
             /\ Holds(next.byTenant, t, list, t, NoId, i + 1)
  <2>1. /\ Holds(snap.byGateway, <<t, g>>, list, t, g, i)
        /\ Holds(snap.byTenant, t, list, t, NoId, i)
    BY DEF SoFar
  <2>2. g # NoId
    BY CacheAssumption
  <2>3. CASE cfg.gateway # NoId
    <3>1. /\ next.byGateway = Put(snap.byGateway, <<cfg.tenant, cfg.gateway>>, cfg.timeout)
          /\ next.byTenant = snap.byTenant
      BY <2>3 DEF AddConfig, Snapshots
    <3>2. For(cfg, t, g) <=> <<t, g>> = <<cfg.tenant, cfg.gateway>>
      BY DEF For
    <3>3. ~For(cfg, t, NoId)
      BY <2>3 DEF For
    <3> HIDE DEF next
    <3>4. Holds(next.byGateway, <<t, g>>, list, t, g, i + 1)
      BY <2>1, <3>1, <3>2, PutHolds
    <3>5. Holds(next.byTenant, t, list, t, NoId, i + 1)
      BY <2>1, <3>1, <3>3, OtherHolds
    <3>6. QED
      BY <3>4, <3>5
  <2>4. CASE cfg.gateway = NoId
    <3>1. /\ next.byTenant = Put(snap.byTenant, cfg.tenant, cfg.timeout)
          /\ next.byGateway = snap.byGateway
      BY <2>4 DEF AddConfig, Snapshots
    <3>2. For(cfg, t, NoId) <=> t = cfg.tenant
      BY <2>4 DEF For
    <3>3. ~For(cfg, t, g)
      BY <2>2, <2>4 DEF For
    <3> HIDE DEF next
    <3>4. Holds(next.byTenant, t, list, t, NoId, i + 1)
      BY <2>1, <3>1, <3>2, PutHolds
    <3>5. Holds(next.byGateway, <<t, g>>, list, t, g, i + 1)
      BY <2>1, <3>1, <3>3, OtherHolds
    <3>6. QED
      BY <3>4, <3>5
  <2>5. QED
    BY <2>3, <2>4
<1> HIDE DEF next
<1>3. SoFar(next, list, i + 1)
  BY <1>2 DEF SoFar
<1>4. QED
  BY <1>3 DEF next

(* The fold passes through a snapshot for every entry of the list.         *)
LEMMA BuildVisits ==
  ASSUME NEW list \in Seq(Entries)
  PROVE  \E r \in [0..Len(list) -> Snapshots] :
           /\ r[0] = EmptySnapshot
           /\ \A i \in 1..Len(list) : r[i] = AddConfig(r[i - 1], list[i])
           /\ BuildSnapshot(list) = r[Len(list)]
<1> DEFINE n == Len(list)
           F(g) == [s \in SUBSET DOMAIN list |->
                      IF s = {} THEN EmptySnapshot
                      ELSE AddConfig(g[s \ {Max(s)}], list[Max(s)])]
           step == [p \in (1..n) \X Snapshots |-> AddConfig(p[2], list[p[1]])]
           iter == CHOOSE g : g = F(g)
<1>1. BuildSnapshot(list) = iter[DOMAIN list]
  BY Zenon DEF BuildSnapshot, FoldLeft, MapThenFoldSet
<1>2. n \in Nat /\ DOMAIN list = 1..n /\ \A i \in 1..n : list[i] \in Entries
  <2> HIDE DEF Entries
  <2>1. QED
    OBVIOUS
<1>3. \A i \in 1..n : \A snap \in Snapshots : AddConfig(snap, list[i]) \in Snapshots
  BY <1>2, AddConfigType
<1> HIDE DEF n
<1>4. step \in [(1..n) \X Snapshots -> Snapshots]
  BY <1>3
<1>5. PICK h \in [SUBSET (1..n) -> Snapshots] : Iterates(h, step, EmptySnapshot, n)
  <2> HIDE DEF step
  <2>1. QED
    BY <1>2, <1>4, EmptyType, IterationExists
<1>6. \A s \in SUBSET (1..n) : s # {} => Max(s) \in s /\ \A j \in s : j <= Max(s)
  BY <1>2, LargestPosition DEF Max
<1>7. F(h) = h
  <2>1. ASSUME NEW s \in SUBSET (1..n), s # {}
        PROVE  h[s] = AddConfig(h[s \ {Max(s)}], list[Max(s)])
    <3>1. Max(s) \in s /\ \A j \in s : j <= Max(s)
      BY <1>6, <2>1
    <3>2. h[s] = step[<<Max(s), h[s \ {Max(s)}]>>]
      <4> HIDE DEF step
      <4>1. QED
        BY <1>5, <3>1 DEF Iterates
    <3>3. Max(s) \in 1..n /\ h[s \ {Max(s)}] \in Snapshots
      BY <1>5, <3>1
    <3>4. QED
      BY <3>2, <3>3
  <2>2. h[{}] = EmptySnapshot
    BY <1>5 DEF Iterates
  <2>3. \A s \in SUBSET (1..n) : F(h)[s] = h[s]
    BY <1>2, <2>1, <2>2
  <2>4. QED
    BY <1>2, <1>5, <2>3
<1>8. iter = F(iter)
  <2>1. h = F(h)
    BY <1>7
  <2> HIDE DEF F
  <2>2. QED
    BY <2>1
<1>9. iter[{}] = EmptySnapshot
  BY <1>2, <1>8
<1>10. ASSUME NEW i \in 1..n
       PROVE  iter[1..i] = AddConfig(iter[1..(i - 1)], list[i])
  <2>1. 1..i \in SUBSET (1..n) /\ 1..i # {} /\ i \in 1..i
    BY <1>2, Prefix
  <2>2. Max(1..i) \in 1..i /\ i <= Max(1..i)
    BY <1>6, <2>1
  <2>3. Max(1..i) = i
    BY <1>2, <2>2
  <2>4. (1..i) \ {i} = 1..(i - 1)
    BY <1>2, Prefix
  <2>5. F(iter)[1..i] = AddConfig(iter[(1..i) \ {Max(1..i)}], list[Max(1..i)])
    BY <1>2, <2>1
  <2>6. QED
    BY <1>8, <2>3, <2>4, <2>5
<1> HIDE DEF iter, F
<1>11. OnPrefixes(iter, step, Snapshots, n)
  BY <1>10 DEF OnPrefixes
<1>12. PICK r \in [0..n -> Snapshots] :
          Visits(r, step, EmptySnapshot, n) /\ Follows(r, iter, n)
  <2> HIDE DEF step
  <2>1. QED
    BY <1>2, <1>4, <1>9, <1>11, EmptyType, PrefixVisits
<1>13. ASSUME NEW i \in 1..n PROVE r[i] = AddConfig(r[i - 1], list[i])
  <2>1. r[i] = step[<<i, r[i - 1]>>]
    <3> HIDE DEF step
    <3>1. QED
      BY <1>12 DEF Visits
  <2>2. r[i - 1] \in Snapshots
    <3>1. i - 1 \in 0..n
      BY <1>2
    <3>2. QED
      BY <1>12, <3>1
  <2>3. QED
    BY <2>1, <2>2
<1>14. r[0] = EmptySnapshot /\ r[n] = iter[1..n]
  BY <1>2, <1>12 DEF Visits, Follows
<1>15. BuildSnapshot(list) = r[n]
  BY <1>1, <1>2, <1>14
<1>16. QED
  BY <1>12, <1>13, <1>14, <1>15 DEF n

(* The snapshot holds the last entry of the whole list for every key.      *)
LEMMA BuildHoldsAll ==
  ASSUME NEW list \in Seq(Entries)
  PROVE  BuildSnapshot(list) \in Snapshots /\ SoFar(BuildSnapshot(list), list, Len(list))
<1> DEFINE n == Len(list)
<1>1. PICK r \in [0..n -> Snapshots] :
        /\ r[0] = EmptySnapshot
        /\ \A i \in 1..n : r[i] = AddConfig(r[i - 1], list[i])
        /\ BuildSnapshot(list) = r[n]
  BY BuildVisits
<1> DEFINE T == {i \in Nat : i <= n => SoFar(r[i], list, i)}
<1>2. 0 \in T
  <2>1. SoFar(EmptySnapshot, list, 0)
    BY DEF SoFar, Holds, EmptySnapshot
  <2>2. QED
    BY <1>1, <2>1
<1>3. ASSUME NEW i \in Nat, i \in T PROVE i + 1 \in T
  <2> SUFFICES ASSUME i + 1 <= n PROVE SoFar(r[i + 1], list, i + 1)
    OBVIOUS
  <2>1. i \in 0..n /\ i + 1 \in 1..n /\ (i + 1) - 1 = i
    OBVIOUS
  <2>2. r[i] \in Snapshots /\ SoFar(r[i], list, i)
    BY <1>1, <1>3, <2>1
  <2>3. r[i + 1] = AddConfig(r[i], list[i + 1])
    BY <1>1, <2>1
  <2>4. QED
    BY <2>2, <2>3, AddOne
<1>4. n \in T
  <2>1. Nat \subseteq T
    <3> HIDE DEF T
    <3>1. QED
      BY <1>2, <1>3, SetInduction
  <2>2. QED
    BY <2>1
<1>5. QED
  BY <1>1, <1>4

(* The positions of the entries for a key, as Reference collects them.     *)
At(list, t, g) == {i \in 1..Len(list) : list[i].tenant = t /\ list[i].gateway = g}

(* Holds over the whole list, told with the largest position of the key:   *)
(* the map has the key exactly if the list names it, with the last         *)
(* timeout.                                                                *)
LEMMA HoldsLast ==
  ASSUME NEW list \in Seq(Entries), NEW f, NEW x, NEW t, NEW g,
         Holds(f, x, list, t, g, Len(list))
  PROVE  /\ x \in DOMAIN f <=> At(list, t, g) # {}
         /\ x \in DOMAIN f => f[x] = list[Max(At(list, t, g))].timeout
<1> DEFINE n == Len(list)
           P == At(list, t, g)
<1>1. P \subseteq Int /\ \A i \in 1..n : i \in P <=> For(list[i], t, g)
  BY DEF At, For
<1>2. P \subseteq 1..n
  BY DEF At
<1>3. CASE x \notin DOMAIN f
  <2>1. \A j \in 1..n : ~For(list[j], t, g)
    BY <1>3 DEF Holds
  <2> HIDE DEF P
  <2>2. P = {}
    BY <1>1, <1>2, <2>1
  <2>3. QED
    BY <1>3, <2>2 DEF P
<1>4. ASSUME NEW j \in 1..n, LastFor(list, t, g, n, j), f[x] = list[j].timeout,
             x \in DOMAIN f
      PROVE  P # {} /\ f[x] = list[Max(P)].timeout
  <2> HIDE DEF P
  <2>1. j \in P /\ \A k \in P : k <= j
    BY <1>1, <1>2, <1>4 DEF LastFor
  <2>2. Max(P) \in P /\ \A k \in P : k <= Max(P)
    BY <1>1, <2>1 DEF Max
  <2>3. Max(P) <= j /\ j <= Max(P) /\ Max(P) \in Int /\ j \in Int
    BY <1>1, <2>1, <2>2, Zenon
  <2>4. Max(P) = j
    BY ONLY <2>3
  <2>5. QED
    BY <1>4, <2>1, <2>4
<1>5. QED
  BY <1>3, <1>4 DEF Holds

(* So what a lookup in the snapshot answers is what the list says.         *)
LEMMA SnapshotAnswers ==
  ASSUME NEW list \in Seq(Entries), NEW snap, SoFar(snap, list, Len(list)),
         NEW t \in Tenants, NEW g \in GatewayIds
  PROVE  Reference(list, t, g) =
           IF <<t, g>> \in DOMAIN snap.byGateway THEN snap.byGateway[<<t, g>>]
           ELSE IF t \in DOMAIN snap.byTenant THEN snap.byTenant[t]
           ELSE DefaultTimeout
<1>1. /\ Holds(snap.byGateway, <<t, g>>, list, t, g, Len(list))
      /\ Holds(snap.byTenant, t, list, t, NoId, Len(list))
  BY DEF SoFar
<1>2. /\ <<t, g>> \in DOMAIN snap.byGateway <=> At(list, t, g) # {}
      /\ <<t, g>> \in DOMAIN snap.byGateway
           => snap.byGateway[<<t, g>>] = list[Max(At(list, t, g))].timeout
  BY <1>1, HoldsLast
<1>3. /\ t \in DOMAIN snap.byTenant <=> At(list, t, NoId) # {}
      /\ t \in DOMAIN snap.byTenant
           => snap.byTenant[t] = list[Max(At(list, t, NoId))].timeout
  BY <1>1, HoldsLast
<1>4. Reference(list, t, g) =
        IF At(list, t, g) # {} THEN list[Max(At(list, t, g))].timeout
        ELSE IF At(list, t, NoId) # {} THEN list[Max(At(list, t, NoId))].timeout
        ELSE DefaultTimeout
  BY DEF Reference, At
<1>5. QED
  BY <1>2, <1>3, <1>4

-----------------------------------------------------------------------------
(* The recursive functions.                                                *)

(* The delay before attempt k.                                             *)
DelayBefore(k) == RRBackoff[IF k < Len(RRBackoff) THEN k ELSE Len(RRBackoff)]

(* Backoffs, the budget's sum of sleeps, obeys the recursion it is defined *)
(* by: one more attempt adds the delay before it.                          *)
LEMMA BackoffsFacts ==
  /\ Backoffs \in [0..RRMaxRetries -> Nat] /\ Backoffs[0] = 0
  /\ \A k \in 1..RRMaxRetries : /\ DelayBefore(k) \in Nat
                                /\ Backoffs[k] = Backoffs[k - 1] + DelayBefore(k)
<1> DEFINE n == RRMaxRetries
           F(f) == [k \in 0..n |-> IF k = 0 THEN 0 ELSE f[k - 1] + DelayBefore(k)]
           step == [p \in (1..n) \X Nat |-> p[2] + DelayBefore(p[1])]
<1>1. n \in Nat
  BY RRAssumption
<1>2. ASSUME NEW k \in 1..n PROVE DelayBefore(k) \in Nat
  <2>1. Len(RRBackoff) \in Nat \ {0}
    BY RRAssumption
  <2>2. (IF k < Len(RRBackoff) THEN k ELSE Len(RRBackoff)) \in 1..Len(RRBackoff)
    BY <1>1, <2>1
  <2>3. QED
    BY <2>2, RRAssumption DEF DelayBefore
<1> HIDE DEF n
<1>3. step \in [(1..n) \X Nat -> Nat]
  BY <1>2
<1>4. PICK r \in [0..n -> Nat] : Visits(r, step, 0, n)
  <2> HIDE DEF step
  <2>1. QED
    BY <1>1, <1>3, RecursionExists
<1>5. r[0] = 0 /\ \A k \in 1..n : r[k] = r[k - 1] + DelayBefore(k)
  <2>1. \A k \in 1..n : r[k - 1] \in Nat
    <3>1. \A k \in 1..n : k - 1 \in 0..n
      BY <1>1
    <3>2. QED
      BY <1>4, <3>1
  <2>2. \A k \in 1..n : step[<<k, r[k - 1]>>] = r[k - 1] + DelayBefore(k)
    BY <2>1
  <2> HIDE DEF step
  <2>3. QED
    BY <1>4, <2>2 DEF Visits
<1>6. r = F(r)
  <2>1. \A k \in 0..n : F(r)[k] = r[k]
    <3>1. \A k \in 0..n : k = 0 \/ k \in 1..n
      BY <1>1
    <3>2. QED
      BY <1>5, <3>1
  <2>2. QED
    BY <1>4, <2>1
<1>7. Backoffs = CHOOSE f : f = F(f)
  BY DEF Backoffs, DelayBefore, n
<1>8. Backoffs = F(Backoffs)
  <2> HIDE DEF F
  <2>1. QED
    BY <1>6, <1>7
<1> DEFINE B == Backoffs
<1>9. B = F(B)
  BY <1>8
<1> HIDE DEF B
<1>10. B[0] = 0 /\ \A k \in 1..n : B[k] = B[k - 1] + DelayBefore(k)
  <2>1. 0 \in 0..n /\ \A k \in 1..n : k \in 0..n /\ k # 0
    BY <1>1
  <2>2. QED
    BY <1>9, <2>1
<1>11. \A k \in 0..n : B[k] \in Nat
  <2> DEFINE T == {k \in Nat : k <= n => B[k] \in Nat}
  <2>1. 0 \in T
    BY <1>10
  <2>2. ASSUME NEW k \in Nat, k \in T PROVE k + 1 \in T
    <3> SUFFICES ASSUME k + 1 <= n PROVE B[k + 1] \in Nat
      OBVIOUS
    <3>1. k + 1 \in 1..n /\ (k + 1) - 1 = k /\ B[k] \in Nat
      BY <1>1, <2>2
    <3>2. B[k + 1] = B[k] + DelayBefore(k + 1) /\ DelayBefore(k + 1) \in Nat
      BY <1>2, <1>10, <3>1
    <3>3. QED
      BY <3>1, <3>2
  <2>3. Nat \subseteq T
    <3> HIDE DEF T
    <3>1. QED
      BY <2>1, <2>2, SetInduction
  <2>4. QED
    BY <1>1, <2>3
<1>12. B \in [0..n -> Nat]
  <2>1. B = [k \in 0..n |-> B[k]]
    BY <1>9
  <2>2. QED
    BY <1>11, <2>1
<1>13. QED
  BY <1>2, <1>10, <1>12 DEF B, n

(* The sleeps before an attempt are some of all the sleeps.                *)
LEMMA BackoffsGrow ==
  \A k \in 0..RRMaxRetries : Backoffs[k] <= Backoffs[RRMaxRetries]
<1> DEFINE n == RRMaxRetries
           T == {j \in Nat : j <= n => Backoffs[n - j] <= Backoffs[n]}
<1>1. n \in Nat
  BY RRAssumption
<1>2. \A k \in 0..n : Backoffs[k] \in Nat
  BY BackoffsFacts
<1>3. \A k \in 1..n : Backoffs[k - 1] <= Backoffs[k]
  <2> TAKE k \in 1..n
  <2>1. /\ DelayBefore(k) \in Nat /\ Backoffs[k] = Backoffs[k - 1] + DelayBefore(k)
        /\ k - 1 \in 0..n
    BY <1>1, BackoffsFacts
  <2>2. Backoffs[k - 1] \in Nat
    BY <1>2, <2>1
  <2>3. QED
    BY <2>1, <2>2
<1>4. 0 \in T
  BY <1>1, <1>2
<1>5. ASSUME NEW j \in Nat, j \in T PROVE j + 1 \in T
  <2> SUFFICES ASSUME j + 1 <= n PROVE Backoffs[n - (j + 1)] <= Backoffs[n]
    OBVIOUS
  <2>1. n - j \in 1..n /\ (n - j) - 1 = n - (j + 1) /\ n - (j + 1) \in 0..n
        /\ n - j \in 0..n /\ n \in 0..n
    BY <1>1
  <2>2. Backoffs[n - (j + 1)] <= Backoffs[n - j] /\ Backoffs[n - j] <= Backoffs[n]
    BY <1>1, <1>3, <1>5, <2>1
  <2>3. /\ Backoffs[n - (j + 1)] \in Nat /\ Backoffs[n - j] \in Nat
        /\ Backoffs[n] \in Nat
    BY <1>2, <2>1
  <2>4. QED
    BY <2>2, <2>3
<1>6. Nat \subseteq T
  <2> HIDE DEF T
  <2>1. QED
    BY <1>4, <1>5, SetInduction
<1>7. ASSUME NEW k \in 0..n PROVE Backoffs[k] <= Backoffs[n]
  <2>1. n - k \in Nat /\ n - k <= n /\ n - (n - k) = k
    BY <1>1
  <2>2. n - k \in T
    BY <1>6, <2>1
  <2>3. QED
    BY <2>1, <2>2
<1>8. QED
  BY <1>7

(* One attempt more costs one timeout more, and attempts do not exceed     *)
(* maxRetries + 1.                                                         *)
LEMMA AttemptsCost ==
  ASSUME NEW a \in 0..RRMaxRetries
  PROVE  /\ a * RRTimeout \in Nat /\ (a + 1) * RRTimeout = a * RRTimeout + RRTimeout
         /\ a * RRTimeout <= (a + 1) * RRTimeout
         /\ (a + 1) * RRTimeout <= (RRMaxRetries + 1) * RRTimeout
         /\ (RRMaxRetries + 1) * RRTimeout \in Nat
<1>1. /\ a \in Nat /\ RRMaxRetries \in Nat /\ RRTimeout \in Nat
      /\ RRMaxRetries - a \in Nat
  BY RRAssumption
<1>2. a * RRTimeout \in Nat /\ (a + 1) * RRTimeout = a * RRTimeout + RRTimeout
  BY <1>1
<1>3. (RRMaxRetries - a) * RRTimeout \in Nat
  BY <1>1
<1>4. (RRMaxRetries + 1) * RRTimeout
        = (a + 1) * RRTimeout + (RRMaxRetries - a) * RRTimeout
  BY <1>1
<1>5. (RRMaxRetries + 1) * RRTimeout \in Nat
  BY <1>1
<1>6. QED
  BY <1>1, <1>2, <1>3, <1>4, <1>5

(* The delays of the initial fetch.                                        *)
LEMMA DoubledFacts ==
  /\ Doubled[0] = InitialBackoff
  /\ \A k \in 1..MaxRetries : Doubled[k] = 2 * Doubled[k - 1]
  /\ \A k \in 0..MaxRetries : Doubled[k] \in Nat
<1> DEFINE n == MaxRetries
           F(f) == [k \in 0..n |-> IF k = 0 THEN InitialBackoff ELSE 2 * f[k - 1]]
           step == [p \in (1..n) \X Nat |-> 2 * p[2]]
<1>1. n \in Nat /\ InitialBackoff \in Nat
  BY CacheAssumption
<1> HIDE DEF n
<1>2. step \in [(1..n) \X Nat -> Nat]
  OBVIOUS
<1>3. PICK r \in [0..n -> Nat] : Visits(r, step, InitialBackoff, n)
  <2> HIDE DEF step
  <2>1. QED
    BY <1>1, <1>2, RecursionExists
<1>4. r[0] = InitialBackoff /\ \A k \in 1..n : r[k] = 2 * r[k - 1]
  <2>1. \A k \in 1..n : r[k - 1] \in Nat
    <3>1. \A k \in 1..n : k - 1 \in 0..n
      BY <1>1
    <3>2. QED
      BY <1>3, <3>1
  <2>2. \A k \in 1..n : step[<<k, r[k - 1]>>] = 2 * r[k - 1]
    BY <2>1
  <2> HIDE DEF step
  <2>3. QED
    BY <1>3, <2>2 DEF Visits
<1>5. r = F(r)
  <2>1. \A k \in 0..n : F(r)[k] = r[k]
    <3>1. \A k \in 0..n : k = 0 \/ k \in 1..n
      BY <1>1
    <3>2. QED
      BY <1>4, <3>1
  <2>2. QED
    BY <1>3, <2>1
<1>6. Doubled = CHOOSE f : f = F(f)
  BY DEF Doubled, n
<1> DEFINE D == Doubled
<1>7. D = F(D)
  <2>1. Doubled = F(Doubled)
    <3> HIDE DEF F
    <3>1. QED
      BY <1>5, <1>6
  <2>2. QED
    BY <2>1
<1> HIDE DEF D
<1>8. D[0] = InitialBackoff /\ \A k \in 1..n : D[k] = 2 * D[k - 1]
  <2>1. 0 \in 0..n /\ \A k \in 1..n : k \in 0..n /\ k # 0
    BY <1>1
  <2>2. QED
    BY <1>7, <2>1
<1>9. \A k \in 0..n : D[k] \in Nat
  <2> DEFINE T == {k \in Nat : k <= n => D[k] \in Nat}
  <2>1. 0 \in T
    BY <1>1, <1>8
  <2>2. ASSUME NEW k \in Nat, k \in T PROVE k + 1 \in T
    <3> SUFFICES ASSUME k + 1 <= n PROVE D[k + 1] \in Nat
      OBVIOUS
    <3>1. k + 1 \in 1..n /\ (k + 1) - 1 = k /\ D[k] \in Nat
      BY <1>1, <2>2
    <3>2. D[k + 1] = 2 * D[k]
      BY <1>8, <3>1
    <3>3. QED
      BY <3>1, <3>2
  <2>3. Nat \subseteq T
    <3> HIDE DEF T
    <3>1. QED
      BY <2>1, <2>2, SetInduction
  <2>4. QED
    BY <1>1, <2>3
<1>10. QED
  BY <1>8, <1>9 DEF D, n

-----------------------------------------------------------------------------
(* A call.                                                                 *)

(* What a step is to the call in progress.                                 *)
LEMMA CallSteps ==
  ASSUME [Next]_vars
  PROVE  \/ RRStep
         \/ \E a \in requests, body \in {remote, Garbage} : ServerAnswers(a, body)
         \/ (StartCall \/ EndCall) /\ remote' = remote
         \/ ConfigChanges
         \/ UNCHANGED <<remote, rrVars>>
<1>1. CASE CacheStep
  <2>1. CASE FetchStart \/ RefreshStart
    BY <2>1 DEF FetchStart, RefreshStart
  <2>2. CASE FetchOk \/ FetchFailed \/ RefreshOk \/ RefreshFailed
    BY <2>2 DEF FetchOk, FetchFailed, RefreshOk, RefreshFailed
  <2>3. CASE WaitOver \/ FetchGivesUp \/ RunStops
    BY <2>3 DEF WaitOver, FetchGivesUp, RunStops
  <2>4. QED
    BY <1>1, <2>1, <2>2, <2>3 DEF CacheStep
<1>2. CASE Cancel \/ UNCHANGED vars
  BY <1>2 DEF Cancel, vars
<1>3. QED
  BY <1>1, <1>2 DEF Next, Answered

(* No attempt follows the last one, no sleep follows it, and the time of   *)
(* the call is within what its attempts and sleeps so far may take.        *)
LEMMA BudgetNext ==
  ASSUME RRTypeOK, BudgetOK, CallIsBounded, [Next]_vars
  PROVE  RRTypeOK' /\ BudgetOK' /\ CallIsBounded'
<1> DEFINE n == RRMaxRetries
           bound == (n + 1) * RRTimeout + Backoffs[n]
<1>1. /\ n \in Nat /\ RRTimeout \in Nat /\ attempt \in 0..n /\ spent \in Nat
      /\ spent <= bound
  BY RRAssumption DEF RRTypeOK, CallIsBounded
<1>2. /\ attempt * RRTimeout \in Nat
      /\ (attempt + 1) * RRTimeout = attempt * RRTimeout + RRTimeout
      /\ (attempt + 1) * RRTimeout <= (n + 1) * RRTimeout
      /\ (n + 1) * RRTimeout \in Nat
  BY <1>1, AttemptsCost
<1>3. /\ Backoffs[attempt] \in Nat /\ Backoffs[n] \in Nat
      /\ Backoffs[attempt] <= Backoffs[n]
  BY <1>1, BackoffsFacts, BackoffsGrow
<1>4. bound \in Nat
  BY <1>2, <1>3
<1> HIDE DEF n, bound
<1>5. bound = (n + 1) * RRTimeout + Backoffs[n] /\ n = RRMaxRetries
  BY DEF bound, n
<1>6. RRTypeOK' /\ BudgetOK' /\ CallIsBounded'
      <=> /\ rrPc' \in {"idle", "send", "await", "sleep", "ok", "failed"}
          /\ attempt' \in 0..n /\ requests' \subseteq 0..attempt' /\ spent' \in Nat
          /\ rrPc' \in {"send", "await"} =>
               spent' <= attempt' * RRTimeout + Backoffs[attempt']
          /\ rrPc' = "sleep" =>
               /\ attempt' < n
               /\ spent' <= (attempt' + 1) * RRTimeout + Backoffs[attempt']
          /\ spent' <= bound
  BY DEF RRTypeOK, BudgetOK, CallIsBounded, n, bound
<1>7. CASE SendRequest
  <2>1. /\ attempt' = attempt /\ spent' = spent /\ requests' \subseteq 0..attempt
        /\ spent <= attempt * RRTimeout + Backoffs[attempt]
        /\ rrPc' \in {"await", "sleep", "failed"}
        /\ rrPc' = "sleep" => attempt # n
    <3>1. attempt \in 0..attempt /\ requests \subseteq 0..attempt
      BY <1>1 DEF RRTypeOK
    <3>2. /\ attempt' = attempt /\ spent' = spent
          /\ requests' \in {requests, requests \cup {attempt}}
      BY <1>7 DEF SendRequest
    <3>3. spent <= attempt * RRTimeout + Backoffs[attempt]
      BY <1>7 DEF SendRequest, BudgetOK
    <3>4. /\ rrPc' \in {"await", "sleep", "failed"}
          /\ rrPc' = "sleep" => attempt # n
      BY <1>7 DEF SendRequest, GiveUpOrSleep, n
    <3>5. QED
      BY <3>1, <3>2, <3>3, <3>4
  <2>2. spent <= (attempt + 1) * RRTimeout + Backoffs[attempt]
    BY <1>1, <1>2, <1>3, <2>1
  <2>3. QED
    BY <1>1, <1>6, <2>1, <2>2
<1>8. CASE ReplyArrives \/ AttemptFails
  <2>1. /\ attempt' = attempt /\ requests' = requests /\ requests \subseteq 0..attempt
        /\ spent' \in {spent, spent + RRTimeout}
        /\ spent <= attempt * RRTimeout + Backoffs[attempt]
        /\ rrPc' \in {"ok", "sleep", "failed"}
        /\ rrPc' = "sleep" => attempt # n
    BY <1>1, <1>8 DEF ReplyArrives, AttemptFails, GiveUpOrSleep, Durations, RRTypeOK,
                      BudgetOK, n
  <2>2. spent' \in Nat /\ spent' <= (attempt + 1) * RRTimeout + Backoffs[attempt]
    BY <1>1, <1>2, <1>3, <2>1
  <2>3. spent' <= bound
    BY <1>1, <1>2, <1>3, <1>4, <1>5, <2>2
  <2>4. QED
    BY <1>1, <1>6, <2>1, <2>2, <2>3
<1>9. CASE SleepOver \/ SleepCancelled
  <2>1. /\ rrPc = "sleep" /\ attempt < n /\ requests \subseteq 0..attempt
        /\ spent <= (attempt + 1) * RRTimeout + Backoffs[attempt]
    BY <1>9 DEF SleepOver, SleepCancelled, BudgetOK, RRTypeOK, n
  <2>2. attempt + 1 \in 1..n /\ attempt + 1 \in 0..n /\ (attempt + 1) - 1 = attempt
    BY <1>1, <2>1
  <2>3. Delay = DelayBefore(attempt + 1)
    <3>1. Len(RRBackoff) \in Nat /\ attempt \in Nat
      BY <1>1, RRAssumption
    <3>2. (IF attempt < Len(RRBackoff) THEN attempt + 1 ELSE Len(RRBackoff))
            = (IF attempt + 1 < Len(RRBackoff) THEN attempt + 1 ELSE Len(RRBackoff))
      BY <3>1
    <3>3. QED
      BY <3>2 DEF Delay, DelayBefore
  <2>4. /\ Delay \in Nat /\ Backoffs[attempt + 1] = Backoffs[attempt] + Delay
        /\ Backoffs[attempt + 1] \in Nat /\ Backoffs[attempt + 1] <= Backoffs[n]
    BY <2>2, <2>3, BackoffsFacts, BackoffsGrow DEF n
  <2>5. spent + Delay <= (attempt + 1) * RRTimeout + Backoffs[attempt + 1]
    BY <1>1, <1>2, <1>3, <2>1, <2>4
  <2>6. spent + Delay \in Nat /\ spent + Delay <= bound
    BY <1>1, <1>2, <1>3, <1>4, <1>5, <2>4, <2>5
  <2>7. CASE SleepOver
    <3>1. rrPc' = "send" /\ attempt' = attempt + 1 /\ spent' = spent + Delay
          /\ requests' = requests
      BY <2>7 DEF SleepOver
    <3>2. requests' \subseteq 0..(attempt + 1)
      BY <1>1, <2>1, <3>1
    <3>3. QED
      BY <1>6, <2>2, <2>5, <2>6, <3>1, <3>2
  <2>8. CASE SleepCancelled
    <3>1. /\ rrPc' = "failed" /\ attempt' = attempt /\ requests' = requests
          /\ spent' \in {spent, spent + Delay}
      BY <2>8 DEF SleepCancelled
    <3>2. QED
      BY <1>1, <1>6, <2>1, <2>6, <3>1
  <2>9. QED
    BY <1>9, <2>7, <2>8
<1>10. ASSUME NEW a \in requests, NEW body, ServerAnswers(a, body)
       PROVE  RRTypeOK' /\ BudgetOK' /\ CallIsBounded'
  BY <1>10 DEF ServerAnswers, RRTypeOK, BudgetOK, CallIsBounded
<1>11. CASE StartCall \/ EndCall
  <2>1. /\ rrPc' \in {"send", "idle"} /\ attempt' = 0 /\ requests' = {} /\ spent' = 0
    BY <1>11 DEF StartCall, EndCall
  <2>2. 0 <= 0 * RRTimeout + Backoffs[0]
    BY <1>1, BackoffsFacts
  <2>3. QED
    BY <1>1, <1>4, <1>6, <2>1, <2>2
<1>12. CASE ConfigChanges \/ UNCHANGED <<remote, rrVars>>
  <2>1. UNCHANGED <<rrPc, attempt, requests, spent>>
    BY <1>12 DEF ConfigChanges, rrVars
  <2>2. QED
    BY <2>1 DEF RRTypeOK, BudgetOK, CallIsBounded
<1>13. QED
  BY <1>7, <1>8, <1>9, <1>10, <1>11, <1>12, CallSteps DEF RRStep

(* The reply that is accepted answers the attempt that is waited for.      *)
LEMMA ReplyNext ==
  ASSUME RRTypeOK, BudgetOK, ReplyOK, [Next]_vars
  PROVE  ReplyOK'
<1>1. attempt \in Nat /\ requests \subseteq 0..attempt
  BY RRAssumption DEF RRTypeOK
<1>2. CASE SendRequest
  BY <1>2 DEF SendRequest, GiveUpOrSleep, ReplyOK
<1>3. CASE ReplyArrives
  BY <1>3 DEF ReplyArrives, ReplyOK
<1>4. CASE AttemptFails \/ SleepCancelled
  BY <1>4 DEF AttemptFails, SleepCancelled, GiveUpOrSleep, ReplyOK
<1>5. CASE SleepOver
  <2>1. /\ rrPc' = "send" /\ attempt' = attempt + 1 /\ requests' = requests
        /\ replies' = replies
    BY <1>5 DEF SleepOver
  <2>2. \A r \in replies : r.attempt \in 0..attempt
    BY DEF ReplyOK
  <2>3. QED
    BY <1>1, <2>1, <2>2 DEF ReplyOK
<1>6. ASSUME NEW a \in requests, NEW body \in {remote, Garbage}, ServerAnswers(a, body)
      PROVE  ReplyOK'
  <2>1. /\ replies' = replies \cup {[attempt |-> a, body |-> body]}
        /\ UNCHANGED <<remote, rrPc, attempt, result, sinceSent>>
        /\ requests' = requests \ {a}
    BY <1>6 DEF ServerAnswers
  <2>2. a \in 0..attempt
    BY <1>1
  <2>3. rrPc = "send" => a # attempt
    BY DEF ReplyOK
  <2>4. rrPc = "await" => body \in sinceSent \cup {Garbage}
    BY DEF ReplyOK
  <2>5. QED
    BY <2>1, <2>2, <2>3, <2>4 DEF ReplyOK
<1>7. CASE StartCall \/ EndCall
  BY <1>7 DEF StartCall, EndCall, ReplyOK
<1>8. CASE ConfigChanges
  <2>1. /\ UNCHANGED <<rrPc, attempt, requests, replies, result>>
        /\ sinceSent \subseteq sinceSent' /\ (rrPc = "await" => remote' \in sinceSent')
    BY <1>8 DEF ConfigChanges
  <2>2. QED
    BY <2>1 DEF ReplyOK
<1>9. CASE UNCHANGED <<remote, rrVars>>
  BY <1>9 DEF rrVars, ReplyOK
<1>10. QED
  BY <1>2, <1>3, <1>4, <1>5, <1>6, <1>7, <1>8, <1>9, CallSteps DEF RRStep

-----------------------------------------------------------------------------
(* The cache.                                                              *)

(* What is known since the accepted attempt was sent is what the API held. *)
LEMMA CacheTypeNext ==
  ASSUME CacheTypeOK, ReplyOK, [Next]_vars
  PROVE  CacheTypeOK'
<1> USE DEF CacheTypeOK
<1>a. MaxRetries \in Nat
  BY CacheAssumption
<1>1. CASE FetchStart
  BY <1>1 DEF FetchStart, StartCall
<1>2. CASE FetchOk \/ RefreshOk
  <2>1. result \in Lists
    BY <1>2 DEF FetchOk, RefreshOk, ReplyOK
  <2>2. /\ remote' = remote /\ sinceSent' = {} /\ source' = result /\ tries' = tries
        /\ cachePc' = "ready"
    BY <1>2 DEF FetchOk, RefreshOk, EndCall, Swap
  <2>3. QED
    BY <2>1, <2>2
<1>3. CASE FetchFailed \/ RefreshFailed
  BY <1>3 DEF FetchFailed, RefreshFailed, EndCall
<1>4. CASE WaitOver
  BY <1>a, <1>4 DEF WaitOver, rrVars
<1>5. CASE FetchGivesUp \/ RunStops
  BY <1>5 DEF FetchGivesUp, RunStops, rrVars
<1>6. CASE RefreshStart
  BY <1>6 DEF RefreshStart, StartCall
<1>7. CASE UNCHANGED cacheVars /\ remote' = remote
           /\ sinceSent' \in {sinceSent, {remote}}
  BY <1>7 DEF cacheVars
<1>8. CASE RRStep /\ UNCHANGED cacheVars
  <2>1. remote' = remote /\ sinceSent' \in {sinceSent, {remote}}
    BY <1>8 DEF RRStep, SendRequest, ReplyArrives, AttemptFails, SleepOver,
                SleepCancelled
  <2>2. QED
    BY <1>7, <1>8, <2>1
<1>9. CASE (Answered(remote) \/ Answered(Garbage)) /\ UNCHANGED cacheVars
  BY <1>7, <1>9 DEF Answered, ServerAnswers
<1>10. CASE ConfigChanges
  <2>1. /\ UNCHANGED cacheVars /\ remote' \in Lists
        /\ sinceSent' \subseteq sinceSent \cup {remote'}
    BY <1>10 DEF ConfigChanges
  <2>2. QED
    BY <2>1 DEF cacheVars
<1>11. CASE Cancel \/ UNCHANGED vars
  BY <1>7, <1>11 DEF Cancel, vars, rrVars
<1>12. QED
  BY <1>1, <1>2, <1>3, <1>4, <1>5, <1>6, <1>8, <1>9, <1>10, <1>11 DEF Next, CacheStep

(* The delay of the initial fetch doubles with every try and stops at its  *)
(* cap: a step takes tries and delay along together.                       *)
LEMMA DelayNext ==
  ASSUME CacheTypeOK, DelayDoublesToCap, [Next]_vars
  PROVE  DelayDoublesToCap'
<1>1. CASE WaitOver
  <2>1. /\ tries' = tries + 1
        /\ delay' = IF 2 * delay > MaxBackoff THEN MaxBackoff ELSE 2 * delay
    BY <1>1 DEF WaitOver
  <2>2. /\ tries \in 0..MaxRetries /\ tries < MaxRetries /\ MaxRetries \in Nat
        /\ MaxBackoff \in Nat
    BY <1>1, CacheAssumption DEF CacheTypeOK, WaitOver
  <2>3. tries + 1 \in 1..MaxRetries /\ (tries + 1) - 1 = tries
    BY <2>2
  <2>4. Doubled[tries + 1] = 2 * Doubled[tries] /\ Doubled[tries] \in Nat
    BY <2>2, <2>3, DoubledFacts
  <2>5. delay = IF tries = 0 \/ Doubled[tries] <= MaxBackoff
                THEN Doubled[tries] ELSE MaxBackoff
    BY DEF DelayDoublesToCap
  <2>6. delay' = IF tries + 1 = 0 \/ Doubled[tries + 1] <= MaxBackoff
                 THEN Doubled[tries + 1] ELSE MaxBackoff
    BY <2>1, <2>2, <2>4, <2>5
  <2>7. QED
    BY <2>1, <2>6 DEF DelayDoublesToCap
<1>2. CASE UNCHANGED <<tries, delay>>
  BY <1>2 DEF DelayDoublesToCap
<1>3. CacheStep => WaitOver \/ UNCHANGED <<tries, delay>>
  BY DEF CacheStep, FetchStart, FetchOk, FetchFailed, FetchGivesUp, RefreshStart,
         RefreshOk, RefreshFailed, RunStops
<1>4. QED
  BY <1>1, <1>2, <1>3 DEF Next, ConfigChanges, Cancel, vars, cacheVars

(* A reply is a sequence of entries.                                       *)
LEMMA ListsAreEntries == Lists \subseteq Seq(Entries)
BY CacheAssumption DEF Entries

(* The snapshot answers lookups as the list it was built from does: it is  *)
(* replaced as a whole, together with its source.                          *)
LEMMA TimeoutsNext ==
  ASSUME CacheTypeOK, ReplyOK, TimeoutsFollowList, [Next]_vars
  PROVE  TimeoutsFollowList'
<1>1. CASE FetchOk \/ RefreshOk
  <2>1. result \in Lists
    BY <1>1 DEF FetchOk, RefreshOk, ReplyOK, CacheTypeOK
  <2>2. result \in Seq(Entries)
    BY <2>1, ListsAreEntries
  <2>3. SoFar(BuildSnapshot(result), result, Len(result))
    BY <2>2, BuildHoldsAll
  <2>4. snapshot' = BuildSnapshot(result) /\ source' = result
    BY <1>1 DEF FetchOk, RefreshOk, Swap
  <2>5. ASSUME NEW t \in Tenants, NEW g \in GatewayIds
        PROVE  TimeoutFor(t, g)' = Reference(result, t, g)
    <3>1. TimeoutFor(t, g)' =
            IF <<t, g>> \in DOMAIN BuildSnapshot(result).byGateway
            THEN BuildSnapshot(result).byGateway[<<t, g>>]
            ELSE IF t \in DOMAIN BuildSnapshot(result).byTenant
            THEN BuildSnapshot(result).byTenant[t]
            ELSE DefaultTimeout
      BY <2>4 DEF TimeoutFor
    <3>2. QED
      BY <2>2, <2>3, <3>1, SnapshotAnswers
  <2>6. QED
    BY <2>4, <2>5 DEF TimeoutsFollowList
<1>2. CASE UNCHANGED <<snapshot, source>>
  BY <1>2 DEF TimeoutsFollowList, TimeoutFor
<1>3. CacheStep => FetchOk \/ RefreshOk \/ UNCHANGED <<snapshot, source>>
  BY DEF CacheStep, FetchStart, FetchFailed, WaitOver, FetchGivesUp, RefreshStart,
         RefreshFailed, RunStops
<1>4. QED
  BY <1>1, <1>2, <1>3 DEF Next, ConfigChanges, Cancel, vars, cacheVars

(* The invariant holds when the cache is built.                            *)
LEMMA CacheInit == Init => CacheInv
<1> SUFFICES ASSUME Init PROVE CacheInv
  OBVIOUS
<1>1. RRMaxRetries \in Nat /\ MaxRetries \in Nat /\ RRTimeout \in Nat
  BY RRAssumption, CacheAssumption
<1>2. CacheTypeOK
  <2>1. 0 \in 0..MaxRetries
    BY <1>1
  <2>2. QED
    BY <2>1 DEF Init, RRInit, CacheTypeOK
<1>3. RRTypeOK /\ BudgetOK /\ ReplyOK
  <2>1. 0 \in 0..RRMaxRetries
    BY <1>1
  <2>2. QED
    BY <2>1 DEF Init, RRInit, RRTypeOK, BudgetOK, ReplyOK
<1>4. CallIsBounded
  <2>1. (RRMaxRetries + 1) * RRTimeout \in Nat /\ Backoffs[RRMaxRetries] \in Nat
    BY <1>1, AttemptsCost, BackoffsFacts
  <2>2. QED
    BY <2>1 DEF Init, RRInit, CallIsBounded
<1>5. DelayDoublesToCap
  BY DoubledFacts DEF Init, DelayDoublesToCap
<1>6. TimeoutsFollowList
  <2>1. <<>> \in Seq(Entries) /\ Len(<<>>) = 0
    OBVIOUS
  <2>2. SoFar(EmptySnapshot, <<>>, 0)
    BY DEF SoFar, Holds, EmptySnapshot
  <2>3. snapshot = EmptySnapshot /\ source = <<>>
    BY DEF Init
  <2>4. QED
    BY <2>1, <2>2, <2>3, SnapshotAnswers DEF TimeoutsFollowList, TimeoutFor
<1>7. QED
  BY <1>2, <1>3, <1>4, <1>5, <1>6 DEF CacheInv

(* The inductive invariant of the cache and of its calls.                  *)
THEOREM CacheInvariant == Spec => []CacheInv
<1>1. Init => CacheInv
  BY CacheInit
<1>2. CacheInv /\ [Next]_vars => CacheInv'
  <2> SUFFICES ASSUME CacheInv, [Next]_vars PROVE CacheInv'
    OBVIOUS
  <2> USE DEF CacheInv
  <2>1. RRTypeOK' /\ BudgetOK' /\ CallIsBounded' /\ ReplyOK'
    BY BudgetNext, ReplyNext
  <2>2. CacheTypeOK' /\ DelayDoublesToCap' /\ TimeoutsFollowList'
    BY CacheTypeNext, DelayNext, TimeoutsNext
  <2>3. QED
    BY <2>1, <2>2
<1>3. QED
  BY <1>1, <1>2, PTL DEF Spec

(* A call returns within maxRetries + 1 timeouts and the delays between    *)
(* them, for any number of retries and any sequence of delays.             *)
THEOREM CallBounded == Spec => []CallIsBounded
<1>1. CacheInv => CallIsBounded
  BY DEF CacheInv
<1>2. QED
  BY <1>1, CacheInvariant, PTL

(* The delay of the initial fetch doubles up to its cap, however many      *)
(* tries there are.                                                        *)
THEOREM DelayDoubles == Spec => []DelayDoublesToCap
<1>1. CacheInv => DelayDoublesToCap
  BY DEF CacheInv
<1>2. QED
  BY <1>1, CacheInvariant, PTL

(* TimeoutFor answers from the last entry for the gateway, else from the   *)
(* tenant's, else the default, for lists of any length.                    *)
THEOREM TimeoutsFollow == Spec => []TimeoutsFollowList
<1>1. CacheInv => TimeoutsFollowList
  BY DEF CacheInv
<1>2. QED
  BY <1>1, CacheInvariant, PTL

(* What a refresh stores was in force after the accepted attempt was sent: *)
(* never the reply to an attempt that timed out.                           *)
THEOREM RefreshFresh == Spec => RefreshIsFresh
<1>1. ReplyOK /\ [Next]_vars => [source' # source => source' \in sinceSent]_vars
  <2> SUFFICES ASSUME ReplyOK, [Next]_vars, source' # source
               PROVE  source' \in sinceSent
    OBVIOUS
  <2>1. CASE FetchOk \/ RefreshOk
    BY <2>1 DEF FetchOk, RefreshOk, Swap, ReplyOK
  <2>2. CacheStep => FetchOk \/ RefreshOk \/ UNCHANGED source
    BY DEF CacheStep, FetchStart, FetchFailed, WaitOver, FetchGivesUp, RefreshStart,
           RefreshFailed, RunStops
  <2>3. QED
    BY <2>1, <2>2 DEF Next, ConfigChanges, Cancel, vars, cacheVars
<1>2. CacheInv => ReplyOK
  BY DEF CacheInv
<1>3. QED
  BY <1>1, <1>2, CacheInvariant, PTL DEF Spec, RefreshIsFresh

=============================================================================
