--------------------------- MODULE ObjPool_proofs ----------------------------
(***************************************************************************)
(* Proofs about ObjPool, for any number of interfaces, queues and objects, *)
(* where a registration that fails meets no stale pointers and nobody uses *)
(* the pools within a release that does not hold the allocator's lock.     *)
(***************************************************************************)
EXTENDS ObjPool, FiniteSetTheorems, WellFoundedInduction, TLAPS

Labels == {"idle", "new", "cleanup", "bufs", "freering", "storering", "freeif", "storeif"}
Objs(p) == 2 .. total[p] + 1

\* Who has what, at every point of a call: the objects of the interface pool, the rings and
\* the queues whose slots have buffers.
Whole(i) == refs[i] > 0 \/ pc[i] = "bufs"
HasIf(i, d) == d \in difs[i] \/ (pc[i] # "idle" /\ d = dif[i])
HasRing(i, k) ==
    \/ Whole(i)
    \/ pc[i] = "new" /\ k < q[i]
    \/ pc[i] = "cleanup" /\ ring[i][k] # 0
    \/ pc[i] \in {"freering", "storering"} /\ k >= q[i]
HasBufs(i, k) == Whole(i) \/ (pc[i] \in {"new", "cleanup"} /\ k < q[i])

Types ==
    /\ total \in [Pools -> Nat] /\ descs \in [Ifs -> Nat \ {0}]
    /\ bitmap \in [Pools -> SUBSET Nat] /\ obj_free \in [Pools -> Nat]
    /\ slot = [r \in Objs("ring") |-> slot[r]]
    /\ ring \in [Ifs -> [Queues -> Objs("ring") \cup {0}]]
    /\ refs \in [Ifs -> Nat] /\ difs \in [Ifs -> SUBSET Nat]
    /\ alloc \in Ifs \cup {None} /\ pc \in [Ifs -> Labels] /\ q \in [Ifs -> 1 .. NumRings + 2]
    /\ dif \in [Ifs -> Nat] /\ seen \in [Ifs -> (SUBSET Nat) \X Nat]

\* one call holds the lock, or one release does without it
CallOf(i) ==
    /\ alloc = i <=> pc[i] \in {"new", "cleanup"}
    /\ Releasing(i) => alloc = None /\ \A j \in Ifs : Releasing(j) => j = i
    /\ pc[i] \notin {"idle", "freeif", "storeif"} => refs[i] = 0
    /\ pc[i] \in {"idle", "bufs"} => q[i] = 1
    /\ pc[i] \in {"new", "freering"} => q[i] <= NumRings + 1
    /\ pc[i] \in {"cleanup", "storering"} => q[i] <= NumRings
    /\ pc[i] = "storering" => seen[i] = <<bitmap["ring"], obj_free["ring"]>>
    /\ pc[i] = "storeif" => seen[i] = <<bitmap["if"], obj_free["if"]>>
CallOK == \A i \in Ifs : CallOf(i)

\* a registration that fails has no pointers beyond the queue it fails at
NoStaleOf(i) ==
    \A k \in Queues : ring[i][k] # 0 =>
        /\ pc[i] = "new" => k <= q[i] + Obtainable(i)
        /\ pc[i] = "cleanup" => k <= q[i]
NoStale == \A i \in Ifs : NoStaleOf(i)

\* each object is free or had by one, and the counters are right
Counts == \A p \in Pools : bitmap[p] \subseteq Objs(p) /\ obj_free[p] = Cardinality(bitmap[p])

RefsOf(i) == refs[i] = Cardinality(difs[i]) /\ (pc[i] # "idle" => dif[i] \notin difs[i])
RefsOK == \A i \in Ifs : RefsOf(i)

IfsOK ==
    /\ \A i \in Ifs : \A d \in Nat : HasIf(i, d) => d \in Objs("if") \ bitmap["if"]
    /\ \A i, j \in Ifs : \A d \in Nat : HasIf(i, d) /\ HasIf(j, d) => i = j
    /\ \A d \in Objs("if") : d \in bitmap["if"] \/ \E i \in Ifs : HasIf(i, d)

RingsOK ==
    /\ \A i \in Ifs : \A k \in Queues : HasRing(i, k) => ring[i][k] \in Objs("ring") \ bitmap["ring"]
    /\ \A i, j \in Ifs : \A k, l \in Queues :
          HasRing(i, k) /\ HasRing(j, l) /\ ring[i][k] = ring[j][l] => i = j /\ k = l
    /\ \A r \in Objs("ring") :
          r \in bitmap["ring"] \/ \E i \in Ifs, k \in Queues : HasRing(i, k) /\ ring[i][k] = r

BufsOK ==
    /\ \A i \in Ifs : \A k \in Queues : HasBufs(i, k) => HasRing(i, k)
    /\ \A i \in Ifs : \A k \in Queues : \A s \in 1 .. descs[i] :
          HasBufs(i, k) => slot[ring[i][k]][s] \in Objs("buf") \ bitmap["buf"]
    /\ \A i, j \in Ifs : \A k, l \in Queues : \A s \in 1 .. descs[i], t \in 1 .. descs[j] :
          HasBufs(i, k) /\ HasBufs(j, l) /\ slot[ring[i][k]][s] = slot[ring[j][l]][t] =>
              i = j /\ k = l /\ s = t
    /\ \A b \in Objs("buf") :
          \/ b \in bitmap["buf"]
          \/ \E i \in Ifs, k \in Queues : HasBufs(i, k) /\ \E s \in 1 .. descs[i] : slot[ring[i][k]][s] = b

IInv == Types /\ CallOK /\ NoStale /\ Counts /\ RefsOK /\ IfsOK /\ RingsOK /\ BufsOK

----------------------------------------------------------------------------
(* The pools: what is taken is free, and the counters count.               *)

LEMMA PoolsOfIs ==
    ASSUME NEW a, NEW b, NEW c
    PROVE  /\ PoolsOf(a, b, c)["if"] = a /\ PoolsOf(a, b, c)["ring"] = b
           /\ PoolsOf(a, b, c)["buf"] = c
<1>1. PoolsOf(a, b, c)["if"] = a
  BY Zenon DEF PoolsOf, Pools
<1>2. PoolsOf(a, b, c)["ring"] = b
  BY Zenon DEF PoolsOf, Pools
<1>3. PoolsOf(a, b, c)["buf"] = c
  BY Zenon DEF PoolsOf, Pools
<1> QED
  BY <1>1, <1>2, <1>3

LEMMA MinOf ==
    ASSUME NEW S, S \subseteq Nat, S # {}
    PROVE  Min(S) \in S
<1>1. \E x \in S : \A y \in S : <<y, x>> \notin OpToRel(<, Nat)
  BY NatLessThanWellFounded, WFMin
<1>2. \E x \in S : \A y \in S : ~(y < x)
  BY <1>1 DEF OpToRel
<1>3. \E x \in S : \A y \in S : x <= y
  BY <1>2
<1> QED
  BY <1>3 DEF Min

LEMMA ImageOf ==
    ASSUME NEW S, IsFiniteSet(S), NEW g
    PROVE  /\ IsFiniteSet({g[x] : x \in S})
           /\ Cardinality({g[x] : x \in S}) <= Cardinality(S)
           /\ (\A x, y \in S : g[x] = g[y] => x = y)
                  => Cardinality({g[x] : x \in S}) = Cardinality(S)
<1> DEFINE T == {g[x] : x \in S}
           h == [x \in S |-> g[x]]
<1>1. h \in Surjection(S, T)
  BY DEF Surjection
<1>2. ASSUME \A x, y \in S : g[x] = g[y] => x = y PROVE h \in Injection(S, T)
  BY <1>2 DEF Injection, IsInjective
<1> HIDE DEF h, T
<1>3. /\ IsFiniteSet(T) /\ Cardinality(T) <= Cardinality(S)
      /\ Cardinality(T) = Cardinality(S) <=> h \in Injection(S, T)
  BY <1>1, FS_Surjection
<1> QED
  BY <1>2, <1>3 DEF T

LEMMA ObjsCount ==
    ASSUME NEW n \in Nat
    PROVE  IsFiniteSet(2 .. n + 1) /\ Cardinality(2 .. n + 1) = n
<1>1. /\ IsFiniteSet(2 .. n + 1)
      /\ Cardinality(2 .. n + 1) = IF 2 > n + 1 THEN 0 ELSE n + 1 - 2 + 1
  BY FS_Interval
<1> QED
  BY <1>1

LEMMA PoolFinite ==
    ASSUME Types, Counts, NEW p \in Pools
    PROVE  /\ IsFiniteSet(Objs(p)) /\ IsFiniteSet(bitmap[p]) /\ bitmap[p] \subseteq Nat
           /\ Objs(p) \subseteq Nat
           /\ Cardinality(Objs(p)) = total[p] /\ Cardinality(bitmap[p]) \in 0 .. total[p]
<1>1. total[p] \in Nat /\ bitmap[p] \subseteq Nat
  BY DEF Types
<1>2. IsFiniteSet(Objs(p)) /\ Cardinality(Objs(p)) = total[p]
  BY <1>1, ObjsCount DEF Objs
<1>3. bitmap[p] \subseteq Objs(p)
  BY DEF Counts
<1>4. IsFiniteSet(bitmap[p]) /\ Cardinality(bitmap[p]) <= total[p]
  BY <1>2, <1>3, FS_Subset
<1> QED
  BY <1>1, <1>2, <1>3, <1>4, FS_CardinalityType DEF Objs

LEMMA StoresCounts ==
    ASSUME Types, Counts, NEW p \in Pools, NEW o, o \in Objs(p) \ bitmap[p], total' = total,
           bitmap' = [bitmap EXCEPT ![p] = bitmap[p] \cup {o}],
           obj_free' = [obj_free EXCEPT ![p] = obj_free[p] + 1]
    PROVE  Counts' /\ bitmap' \in [Pools -> SUBSET Nat] /\ obj_free' \in [Pools -> Nat]
<1>1. Objs(p) \subseteq Nat /\ bitmap[p] \subseteq Nat /\ IsFiniteSet(bitmap[p]) /\ o \in Nat
  BY PoolFinite
<1>2. Cardinality(bitmap[p] \cup {o}) = Cardinality(bitmap[p]) + 1
  BY <1>1, FS_AddElement
<1>3. bitmap' \in [Pools -> SUBSET Nat] /\ obj_free' \in [Pools -> Nat]
  BY <1>1 DEF Types
<1>4. \A x \in Pools : bitmap'[x] \subseteq Objs(x) /\ obj_free'[x] = Cardinality(bitmap'[x])
  <2>1. TAKE x \in Pools
  <2>2. CASE x = p
    <3>1. bitmap'[p] = bitmap[p] \cup {o} /\ obj_free'[p] = obj_free[p] + 1
      BY DEF Types
    <3>2. bitmap[p] \subseteq Objs(p) /\ obj_free[p] = Cardinality(bitmap[p])
      BY DEF Counts
    <3>3. Cardinality(bitmap'[p]) = Cardinality(bitmap[p] \cup {o})
      BY <3>1, Zenon
    <3>4. obj_free'[p] = Cardinality(bitmap'[p])
      BY <1>2, <3>1, <3>2, <3>3, Zenon
    <3> QED
      BY <2>2, <3>1, <3>2, <3>4
  <2>3. CASE x # p
    BY <2>3 DEF Types, Counts
  <2> QED
    BY <2>2, <2>3
<1> QED
  BY <1>3, <1>4 DEF Counts, Objs

LEMMA SeenTypes ==
    ASSUME Types, NEW i \in Ifs, NEW p \in Pools, NEW o, Loads(i, p) \/ Stores(i, p, o)
    PROVE  seen' \in [Ifs -> (SUBSET Nat) \X Nat]
<1>1. bitmap[p] \in SUBSET Nat /\ obj_free[p] \in Nat /\ seen \in [Ifs -> (SUBSET Nat) \X Nat]
  BY DEF Types
<1>2. <<bitmap[p], obj_free[p]>> \in (SUBSET Nat) \X Nat /\ <<{}, 0>> \in (SUBSET Nat) \X Nat
  BY <1>1
<1>3. PICK x \in (SUBSET Nat) \X Nat : seen' = [seen EXCEPT ![i] = x]
  BY <1>2 DEF Loads, Stores
<1> QED
  BY <1>1, <1>3

LEMMA FirstIs ==
    ASSUME Types, Counts, NEW p \in Pools, obj_free[p] > 0
    PROVE  First(p) \in bitmap[p]
<1>1. bitmap[p] # {}
  BY FS_EmptySet DEF Counts
<1> QED
  BY <1>1, PoolFinite, MinOf DEF First

\* dpa_new_bufs finds a free buffer for each slot, each time another one.
Before(f, n) == {f[t] : t \in 1 .. n}
FirstIn(B, n, f) ==
    f \in [1 .. n -> B] /\ \A s \in 1 .. n : f[s] = Min(B \ Before(f, s - 1))

LEMMA MoreLeft ==
    ASSUME NEW B, B \subseteq Nat, IsFiniteSet(B), NEW n \in Nat, n < Cardinality(B), NEW f
    PROVE  Min(B \ Before(f, n)) \in B \ Before(f, n)
<1> DEFINE T == Before(f, n)
<1>1. IsFiniteSet(1 .. n) /\ Cardinality(1 .. n) = n
  BY FS_Interval
<1>2. IsFiniteSet(T) /\ Cardinality(T) <= n
  BY <1>1, ImageOf DEF Before
<1> HIDE DEF T
<1>3. B \ T # {}
  <2>1. SUFFICES ASSUME B \subseteq T PROVE FALSE
    OBVIOUS
  <2>2. Cardinality(B) <= Cardinality(T)
    BY <1>2, <2>1, FS_Subset
  <2>3. Cardinality(B) \in Nat /\ Cardinality(T) \in Nat
    BY <1>2, FS_CardinalityType
  <2> QED
    BY <1>2, <2>2, <2>3
<1> QED
  BY <1>3, MinOf DEF T

LEMMA ChoiceExists ==
    ASSUME NEW B, B \subseteq Nat, IsFiniteSet(B), NEW n \in Nat, n <= Cardinality(B)
    PROVE  \E f : FirstIn(B, n, f)
<1> DEFINE Bad == {m \in 0 .. n : ~\E f : FirstIn(B, m, f)}
<1>1. SUFFICES ASSUME Bad # {} PROVE FALSE
  OBVIOUS
<1>2. Bad \subseteq Nat
  OBVIOUS
<1> HIDE DEF Bad
<1>3. PICK m \in Bad : \A k \in Bad : m <= k
  <2>1. \E x \in Bad : \A y \in Bad : <<y, x>> \notin OpToRel(<, Nat)
    BY <1>1, <1>2, NatLessThanWellFounded, WFMin
  <2>2. \E x \in Bad : \A y \in Bad : ~(y < x)
    BY <1>2, <2>1 DEF OpToRel
  <2> QED
    BY <1>2, <2>2
<1>4. m # 0
  <2>1. FirstIn(B, 0, [s \in 1 .. 0 |-> 0])
    BY DEF FirstIn
  <2> QED
    BY <2>1 DEF Bad
<1>5. m - 1 \in 0 .. n /\ m - 1 \notin Bad /\ m \in 1 .. n
  <2>1. m \in 0 .. n
    BY DEF Bad
  <2> QED
    BY <1>2, <1>3, <1>4, <2>1
<1>6. PICK f : FirstIn(B, m - 1, f)
  BY <1>5 DEF Bad
<1> DEFINE o == Min(B \ Before(f, m - 1))
           g == [s \in 1 .. m |-> IF s = m THEN o ELSE f[s]]
<1>7. Cardinality(B) \in Nat
  BY FS_CardinalityType
<1>8. o \in B
  <2>1. m - 1 \in Nat /\ m - 1 < Cardinality(B)
    BY <1>5, <1>7
  <2>2. o \in B \ Before(f, m - 1)
    BY <2>1, MoreLeft
  <2> QED
    BY <2>2
<1> HIDE DEF o
<1>9. g \in [1 .. m -> B]
  BY <1>5, <1>6, <1>8 DEF FirstIn
<1>10. \A s \in 1 .. m : Before(g, s - 1) = Before(f, s - 1)
  <2>1. TAKE s \in 1 .. m
  <2>2. \A t \in 1 .. s - 1 : g[t] = f[t]
    BY <1>5
  <2> HIDE DEF g
  <2> QED
    BY <2>2 DEF Before
<1>11. \A s \in 1 .. m : g[s] = Min(B \ Before(g, s - 1))
  <2>1. TAKE s \in 1 .. m
  <2>2. CASE s = m
    BY <1>10, <2>2 DEF o
  <2>3. CASE s # m
    <3>1. s \in 1 .. m - 1 /\ g[s] = f[s]
      BY <1>5, <2>3
    <3> QED
      BY <1>6, <1>10, <3>1 DEF FirstIn
  <2> QED
    BY <2>2, <2>3
<1>12. FirstIn(B, m, g)
  BY <1>9, <1>11 DEF FirstIn
<1> QED
  BY <1>3, <1>12 DEF Bad

LEMMA FirstBufsIs ==
    ASSUME Types, Counts, NEW n \in Nat, n <= obj_free["buf"]
    PROVE  /\ FirstBufs(n) \in [1 .. n -> bitmap["buf"]]
           /\ \A s, t \in 1 .. n : FirstBufs(n)[s] = FirstBufs(n)[t] => s = t
           /\ IsFiniteSet({FirstBufs(n)[s] : s \in 1 .. n})
           /\ Cardinality({FirstBufs(n)[s] : s \in 1 .. n}) = n
<1> DEFINE B == bitmap["buf"]
           f == FirstBufs(n)
<1>1. /\ "buf" \in Pools /\ B \subseteq Nat /\ IsFiniteSet(B) /\ Cardinality(B) \in Nat
      /\ n <= Cardinality(B)
  BY PoolFinite, FS_CardinalityType DEF Pools, Counts
<1>2. \E g : FirstIn(B, n, g)
  BY <1>1, ChoiceExists
<1>3. FirstIn(B, n, f)
  <2>1. \E g \in [1 .. n -> B] : \A s \in 1 .. n : g[s] = Min(B \ Before(g, s - 1))
    BY <1>2 DEF FirstIn
  <2> QED
    BY <2>1 DEF FirstIn, FirstBufs, Before
<1> HIDE DEF f, B
<1>4. \A s \in 1 .. n : f[s] \in B \ Before(f, s - 1)
  <2>1. TAKE s \in 1 .. n
  <2>2. Min(B \ Before(f, s - 1)) \in B \ Before(f, s - 1)
    <3>1. s - 1 \in Nat /\ s - 1 < Cardinality(B)
      BY <1>1
    <3> QED
      BY <1>1, <3>1, MoreLeft
  <2> QED
    BY <1>3, <2>2 DEF FirstIn
<1>5. \A s, t \in 1 .. n : t < s => f[s] # f[t]
  BY <1>4 DEF Before
<1>6. \A s, t \in 1 .. n : f[s] = f[t] => s = t
  BY <1>5
<1>7. IsFiniteSet(1 .. n) /\ Cardinality(1 .. n) = n
  BY FS_Interval
<1>8. IsFiniteSet({f[s] : s \in 1 .. n}) /\ Cardinality({f[s] : s \in 1 .. n}) = n
  BY <1>6, <1>7, ImageOf
<1> QED
  BY <1>3, <1>6, <1>8 DEF f, B, FirstIn

LEMMA TakeIs ==
    ASSUME Types, NEW S, Take(S), NEW p \in Pools
    PROVE  /\ bitmap'[p] = bitmap[p] \ S[p]
           /\ S[p] = {} => bitmap'[p] = bitmap[p] /\ obj_free'[p] = obj_free[p]
<1>1. bitmap'[p] = bitmap[p] \ S[p] /\ obj_free'[p] = obj_free[p] - Cardinality(S[p])
  BY DEF Take
<1>2. S[p] = {} => Cardinality(S[p]) = 0
  BY FS_EmptySet
<1>3. obj_free[p] \in Nat
  BY DEF Types
<1>4. S[p] = {} => obj_free'[p] = obj_free[p]
  BY <1>1, <1>2, <1>3
<1> QED
  BY <1>1, <1>4

LEMMA PutIs ==
    ASSUME Types, NEW S, NEW c, Put(S, c), NEW p \in Pools
    PROVE  /\ bitmap'[p] = bitmap[p] \cup S[p]
           /\ S[p] = {} => bitmap'[p] = bitmap[p]
BY DEF Put

LEMMA TakeCounts ==
    ASSUME Types, Counts, NEW S, Take(S), total' = total, \A p \in Pools : S[p] \subseteq bitmap[p]
    PROVE  Counts' /\ bitmap' \in [Pools -> SUBSET Nat] /\ obj_free' \in [Pools -> Nat]
<1>1. \A p \in Pools : bitmap'[p] = bitmap[p] \ S[p] /\ obj_free'[p] = obj_free[p] - Cardinality(S[p])
  BY DEF Take
<1>2. \A p \in Pools : /\ bitmap'[p] \subseteq Objs(p) /\ bitmap'[p] \subseteq Nat
                       /\ obj_free'[p] = Cardinality(bitmap'[p]) /\ obj_free'[p] \in Nat
  <2>1. TAKE p \in Pools
  <2>2. IsFiniteSet(bitmap[p]) /\ bitmap[p] \subseteq Objs(p) /\ bitmap[p] \subseteq Nat
    BY PoolFinite DEF Counts
  <2>3. /\ IsFiniteSet(bitmap[p] \ S[p])
        /\ Cardinality(bitmap[p] \ S[p]) = Cardinality(bitmap[p]) - Cardinality(bitmap[p] \cap S[p])
    BY <2>2, FS_Difference
  <2>4. bitmap[p] \cap S[p] = S[p]
    OBVIOUS
  <2> QED
    BY <1>1, <2>2, <2>3, <2>4, FS_CardinalityType DEF Counts
<1>3. bitmap' = [p \in Pools |-> bitmap'[p]] /\ obj_free' = [p \in Pools |-> obj_free'[p]]
  BY DEF Take
<1> QED
  BY <1>2, <1>3 DEF Counts, Objs

LEMMA PutCounts ==
    ASSUME Types, Counts, NEW S, NEW c, Put(S, c), total' = total,
           \A p \in Pools : S[p] \subseteq Objs(p) \ bitmap[p] /\ c[p] = Cardinality(S[p])
    PROVE  Counts' /\ bitmap' \in [Pools -> SUBSET Nat] /\ obj_free' \in [Pools -> Nat]
<1>1. \A p \in Pools : bitmap'[p] = bitmap[p] \cup S[p] /\ obj_free'[p] = obj_free[p] + c[p]
  BY DEF Put
<1>2. \A p \in Pools : /\ bitmap'[p] \subseteq Objs(p) /\ bitmap'[p] \subseteq Nat
                       /\ obj_free'[p] = Cardinality(bitmap'[p]) /\ obj_free'[p] \in Nat
  <2>1. TAKE p \in Pools
  <2>2. /\ IsFiniteSet(bitmap[p]) /\ bitmap[p] \subseteq Objs(p) /\ Objs(p) \subseteq Nat
        /\ IsFiniteSet(Objs(p))
    BY PoolFinite DEF Counts
  <2>3. IsFiniteSet(S[p])
    BY <2>2, FS_Subset
  <2>4. /\ IsFiniteSet(bitmap[p] \cup S[p])
        /\ Cardinality(bitmap[p] \cup S[p])
              = Cardinality(bitmap[p]) + Cardinality(S[p]) - Cardinality(bitmap[p] \cap S[p])
    BY <2>2, <2>3, FS_Union
  <2>5. bitmap[p] \cap S[p] = {}
    OBVIOUS
  <2>6. Cardinality(bitmap[p] \cap S[p]) = 0
    BY <2>5, FS_EmptySet
  <2>7. Cardinality(bitmap[p]) \in Nat /\ Cardinality(S[p]) \in Nat
    BY <2>2, <2>3, FS_CardinalityType
  <2> QED
    <3>1. obj_free[p] = Cardinality(bitmap[p]) /\ c[p] = Cardinality(S[p]) /\ S[p] \subseteq Objs(p)
      BY DEF Counts
    <3>2. Cardinality(bitmap'[p]) = Cardinality(bitmap[p] \cup S[p])
      BY <1>1, Zenon
    <3>3. Cardinality(bitmap'[p]) = Cardinality(bitmap[p]) + Cardinality(S[p])
      <4> DEFINE a == Cardinality(bitmap'[p])
                 b == Cardinality(bitmap[p] \cup S[p])
                 c1 == Cardinality(bitmap[p])
                 c2 == Cardinality(S[p])
                 e == Cardinality(bitmap[p] \cap S[p])
      <4>1. a = b /\ b = c1 + c2 - e /\ e = 0 /\ c1 \in Nat /\ c2 \in Nat
        BY <3>2, <2>4, <2>6, <2>7
      <4> HIDE DEF a, b, c1, c2, e
      <4>2. a = c1 + c2
        BY <4>1
      <4> QED
        BY <4>2 DEF a, c1, c2
    <3>4. obj_free'[p] = Cardinality(bitmap'[p]) /\ obj_free'[p] \in Nat
      BY <1>1, <2>7, <3>1, <3>3
    <3>5. bitmap'[p] \subseteq Objs(p) /\ bitmap'[p] \subseteq Nat
      BY <1>1, <2>2, <3>1
    <3> QED
      BY <3>4, <3>5
<1>3. bitmap' = [p \in Pools |-> bitmap'[p]] /\ obj_free' = [p \in Pools |-> obj_free'[p]]
  BY DEF Put
<1> QED
  BY <1>2, <1>3 DEF Counts, Objs

----------------------------------------------------------------------------
(* Objects change hands in two ways: one interface is given what was free, *)
(* or gives back what it has.                                              *)

LEMMA IfGiven ==
    ASSUME IfsOK, total["if"] \in Nat, total' = total, NEW i \in Ifs, NEW D \in SUBSET Nat,
           \A d \in D : HasIf(i, d),
           \A j \in Ifs : \A d \in Nat : HasIf(j, d)' <=> HasIf(j, d) /\ ~(j = i /\ d \in D),
           bitmap'["if"] = bitmap["if"] \cup D
    PROVE  IfsOK'
<1>1. ASSUME NEW j \in Ifs, NEW d \in Nat, HasIf(j, d)' PROVE d \in Objs("if")' \ bitmap'["if"]
  BY <1>1 DEF IfsOK, Objs
<1>2. ASSUME NEW j \in Ifs, NEW k \in Ifs, NEW d \in Nat, HasIf(j, d)', HasIf(k, d)' PROVE j = k
  BY <1>2 DEF IfsOK
<1>3. ASSUME NEW d \in Objs("if")' PROVE d \in bitmap'["if"] \/ \E j \in Ifs : HasIf(j, d)'
  <2>1. d \in Objs("if")
    BY DEF Objs
  <2>1a. d \in Nat
    BY <2>1 DEF Objs
  <2>2. CASE d \in bitmap["if"]
    BY <2>2
  <2>3. CASE d \notin bitmap["if"]
    <3>1. PICK j \in Ifs : HasIf(j, d)
      BY <2>1, <2>3 DEF IfsOK
    <3> QED
      BY <2>1a, <3>1
  <2> QED
    BY <2>2, <2>3
<1> QED
  BY <1>1, <1>2, <1>3 DEF IfsOK

LEMMA IfTaken ==
    ASSUME IfsOK, total["if"] \in Nat, total' = total, NEW i \in Ifs, NEW o \in bitmap["if"],
           \A j \in Ifs : \A d \in Nat : HasIf(j, d)' <=> HasIf(j, d) \/ (j = i /\ d = o),
           bitmap["if"] \subseteq Objs("if"),
           bitmap'["if"] = bitmap["if"] \ {o}
    PROVE  IfsOK'
<1>1. ASSUME NEW j \in Ifs, NEW d \in Nat, HasIf(j, d)' PROVE d \in Objs("if")' \ bitmap'["if"]
  BY <1>1 DEF IfsOK, Objs
<1>2. ASSUME NEW j \in Ifs, NEW k \in Ifs, NEW d \in Nat, HasIf(j, d)', HasIf(k, d)' PROVE j = k
  BY <1>2 DEF IfsOK
<1>3. ASSUME NEW d \in Objs("if")' PROVE d \in bitmap'["if"] \/ \E j \in Ifs : HasIf(j, d)'
  <2>1. d \in Objs("if")
    BY DEF Objs
  <2>1a. d \in Nat
    BY <2>1 DEF Objs
  <2>2. CASE d \in bitmap["if"]
    BY <2>1a, <2>2
  <2>3. CASE d \notin bitmap["if"]
    <3>1. PICK j \in Ifs : HasIf(j, d)
      BY <2>1, <2>3 DEF IfsOK
    <3> QED
      BY <2>1a, <3>1
  <2> QED
    BY <2>2, <2>3
<1> QED
  BY <1>1, <1>2, <1>3 DEF IfsOK

LEMMA RingsGiven ==
    ASSUME RingsOK, total' = total, NEW i \in Ifs, NEW K \in SUBSET Queues,
           \A k \in K : HasRing(i, k),
           \A j \in Ifs : \A k \in Queues : HasRing(j, k)' <=> HasRing(j, k) /\ ~(j = i /\ k \in K),
           \A j \in Ifs : \A k \in Queues : HasRing(j, k)' => ring'[j][k] = ring[j][k],
           bitmap'["ring"] = bitmap["ring"] \cup {ring[i][k] : k \in K}
    PROVE  RingsOK'
<1>1. ASSUME NEW j \in Ifs, NEW k \in Queues, HasRing(j, k)'
      PROVE  ring'[j][k] \in Objs("ring")' \ bitmap'["ring"]
  BY <1>1 DEF RingsOK, Objs
<1>2. ASSUME NEW j \in Ifs, NEW h \in Ifs, NEW k \in Queues, NEW l \in Queues,
             HasRing(j, k)', HasRing(h, l)', ring'[j][k] = ring'[h][l]
      PROVE  j = h /\ k = l
  BY <1>2 DEF RingsOK
<1>3. ASSUME NEW r \in Objs("ring")'
      PROVE  r \in bitmap'["ring"] \/ \E j \in Ifs, k \in Queues : HasRing(j, k)' /\ ring'[j][k] = r
  <2>1. r \in Objs("ring")
    BY DEF Objs
  <2>2. CASE r \in bitmap["ring"]
    BY <2>2
  <2>3. CASE r \notin bitmap["ring"]
    <3>1. PICK j \in Ifs, k \in Queues : HasRing(j, k) /\ ring[j][k] = r
      BY <2>1, <2>3 DEF RingsOK
    <3> QED
      BY <3>1
  <2> QED
    BY <2>2, <2>3
<1> QED
  BY <1>1, <1>2, <1>3 DEF RingsOK

LEMMA RingTaken ==
    ASSUME RingsOK, total' = total, NEW i \in Ifs, NEW m \in Queues, NEW r \in bitmap["ring"],
           bitmap["ring"] \subseteq Objs("ring"), ~HasRing(i, m),
           \A j \in Ifs : \A k \in Queues : HasRing(j, k)' <=> HasRing(j, k) \/ (j = i /\ k = m),
           \A j \in Ifs : \A k \in Queues : HasRing(j, k) => ring'[j][k] = ring[j][k],
           ring'[i][m] = r,
           bitmap'["ring"] = bitmap["ring"] \ {r}
    PROVE  RingsOK'
<1>1. ASSUME NEW j \in Ifs, NEW k \in Queues, HasRing(j, k)'
      PROVE  ring'[j][k] \in Objs("ring")' \ bitmap'["ring"]
  BY <1>1 DEF RingsOK, Objs
<1>2. ASSUME NEW j \in Ifs, NEW h \in Ifs, NEW k \in Queues, NEW l \in Queues,
             HasRing(j, k)', HasRing(h, l)', ring'[j][k] = ring'[h][l]
      PROVE  j = h /\ k = l
  BY <1>2 DEF RingsOK
<1>3. ASSUME NEW x \in Objs("ring")'
      PROVE  x \in bitmap'["ring"] \/ \E j \in Ifs, k \in Queues : HasRing(j, k)' /\ ring'[j][k] = x
  <2>1. x \in Objs("ring")
    BY DEF Objs
  <2>2. CASE x = r
    BY <2>2
  <2>3. CASE x \in bitmap["ring"] /\ x # r
    BY <2>3
  <2>4. CASE x \notin bitmap["ring"]
    <3>1. PICK j \in Ifs, k \in Queues : HasRing(j, k) /\ ring[j][k] = x
      BY <2>1, <2>4 DEF RingsOK
    <3> QED
      BY <3>1
  <2> QED
    BY <2>2, <2>3, <2>4
<1> QED
  BY <1>1, <1>2, <1>3 DEF RingsOK

\* the buffer of a slot of queue k
Buf(i, k, s) == slot[ring[i][k]][s]

LEMMA BufsGiven ==
    ASSUME BufsOK, total' = total, descs' = descs, NEW i \in Ifs, NEW K \in SUBSET Queues,
           \A k \in K : HasBufs(i, k),
           \A j \in Ifs : \A k \in Queues : HasBufs(j, k)' <=> HasBufs(j, k) /\ ~(j = i /\ k \in K),
           \A j \in Ifs : \A k \in Queues : HasBufs(j, k)' => HasRing(j, k)',
           \A j \in Ifs : \A k \in Queues : HasBufs(j, k)' =>
               \A s \in 1 .. descs[j] : Buf(j, k, s)' = Buf(j, k, s),
           \A b : b \in bitmap'["buf"] <=>
               b \in bitmap["buf"] \/ \E k \in K : \E s \in 1 .. descs[i] : b = Buf(i, k, s)
    PROVE  BufsOK'
<1>1. ASSUME NEW j \in Ifs, NEW k \in Queues, NEW s \in 1 .. descs'[j], HasBufs(j, k)'
      PROVE  slot'[ring'[j][k]][s] \in Objs("buf")' \ bitmap'["buf"]
  <2>1. HasBufs(j, k) /\ ~(j = i /\ k \in K) /\ slot'[ring'[j][k]][s] = Buf(j, k, s)
    BY <1>1 DEF Buf
  <2>2. Buf(j, k, s) \in Objs("buf") \ bitmap["buf"]
    BY <2>1 DEF BufsOK, Buf
  <2>3. ASSUME NEW l \in K, NEW t \in 1 .. descs[i], Buf(j, k, s) = Buf(i, l, t) PROVE FALSE
    BY <2>1, <2>3 DEF BufsOK, Buf
  <2> QED
    BY <2>1, <2>2, <2>3 DEF Objs
<1>2. ASSUME NEW j \in Ifs, NEW h \in Ifs, NEW k \in Queues, NEW l \in Queues,
             NEW s \in 1 .. descs'[j], NEW t \in 1 .. descs'[h],
             HasBufs(j, k)', HasBufs(h, l)', slot'[ring'[j][k]][s] = slot'[ring'[h][l]][t]
      PROVE  j = h /\ k = l /\ s = t
  <2>1. HasBufs(j, k) /\ HasBufs(h, l) /\ Buf(j, k, s) = Buf(h, l, t)
    BY <1>2 DEF Buf
  <2> QED
    BY <2>1 DEF BufsOK, Buf
<1>3. ASSUME NEW b \in Objs("buf")'
      PROVE  \/ b \in bitmap'["buf"]
             \/ \E j \in Ifs, k \in Queues :
                    HasBufs(j, k)' /\ \E s \in 1 .. descs'[j] : slot'[ring'[j][k]][s] = b
  <2>1. b \in Objs("buf")
    BY DEF Objs
  <2>2. CASE b \in bitmap["buf"]
    BY <2>2
  <2>3. CASE b \notin bitmap["buf"]
    <3>1. PICK j \in Ifs, k \in Queues : HasBufs(j, k) /\ \E s \in 1 .. descs[j] : Buf(j, k, s) = b
      BY <2>1, <2>3 DEF BufsOK, Buf
    <3>2. PICK s \in 1 .. descs[j] : Buf(j, k, s) = b
      BY <3>1
    <3>3. CASE j = i /\ k \in K
      BY <3>2, <3>3
    <3>4. CASE ~(j = i /\ k \in K)
      <4>1. HasBufs(j, k)' /\ slot'[ring'[j][k]][s] = b
        BY <3>1, <3>2, <3>4 DEF Buf
      <4> QED
        BY <4>1
    <3> QED
      BY <3>3, <3>4
  <2> QED
    BY <2>2, <2>3
<1> QED
  BY <1>1, <1>2, <1>3 DEF BufsOK

LEMMA BufsTaken ==
    ASSUME BufsOK, total' = total, descs' = descs, NEW i \in Ifs, NEW m \in Queues, NEW f,
           bitmap["buf"] \subseteq Objs("buf"), ~HasBufs(i, m),
           \A s \in 1 .. descs[i] : f[s] \in bitmap["buf"],
           \A s, t \in 1 .. descs[i] : f[s] = f[t] => s = t,
           \A j \in Ifs : \A k \in Queues : HasBufs(j, k)' <=> HasBufs(j, k) \/ (j = i /\ k = m),
           \A j \in Ifs : \A k \in Queues : HasBufs(j, k)' => HasRing(j, k)',
           \A j \in Ifs : \A k \in Queues : HasBufs(j, k) =>
               \A s \in 1 .. descs[j] : Buf(j, k, s)' = Buf(j, k, s),
           \A s \in 1 .. descs[i] : Buf(i, m, s)' = f[s],
           bitmap'["buf"] = bitmap["buf"] \ {f[s] : s \in 1 .. descs[i]}
    PROVE  BufsOK'
<1>1. ASSUME NEW j \in Ifs, NEW k \in Queues, NEW s \in 1 .. descs'[j], HasBufs(j, k)'
      PROVE  slot'[ring'[j][k]][s] \in Objs("buf")' \ bitmap'["buf"]
  <2>1. CASE HasBufs(j, k)
    <3>1. slot'[ring'[j][k]][s] = Buf(j, k, s)
      BY <1>1, <2>1 DEF Buf
    <3>2. Buf(j, k, s) \in Objs("buf") \ bitmap["buf"]
      BY <2>1 DEF BufsOK, Buf
    <3> QED
      BY <3>1, <3>2 DEF Objs
  <2>2. CASE j = i /\ k = m
    <3>1. slot'[ring'[j][k]][s] = f[s] /\ s \in 1 .. descs[i]
      BY <2>2 DEF Buf
    <3> QED
      BY <3>1 DEF Objs
  <2> QED
    BY <1>1, <2>1, <2>2
<1>2. ASSUME NEW j \in Ifs, NEW h \in Ifs, NEW k \in Queues, NEW l \in Queues,
             NEW s \in 1 .. descs'[j], NEW t \in 1 .. descs'[h],
             HasBufs(j, k)', HasBufs(h, l)', slot'[ring'[j][k]][s] = slot'[ring'[h][l]][t]
      PROVE  j = h /\ k = l /\ s = t
  <2>1. Buf(j, k, s)' = Buf(h, l, t)' /\ s \in 1 .. descs[j] /\ t \in 1 .. descs[h]
    BY <1>2 DEF Buf
  <2>2. ASSUME NEW g \in Ifs, NEW n \in Queues, NEW u \in 1 .. descs[g], HasBufs(g, n)
        PROVE  Buf(g, n, u)' = Buf(g, n, u) /\ Buf(g, n, u) \notin bitmap["buf"]
    BY <2>2 DEF BufsOK, Buf
  <2>3. CASE HasBufs(j, k) /\ HasBufs(h, l)
    <3>1. Buf(j, k, s) = Buf(h, l, t)
      BY <2>1, <2>2, <2>3
    <3> QED
      BY <2>1, <2>3, <3>1 DEF BufsOK, Buf
  <2>4. CASE j = i /\ k = m /\ h = i /\ l = m
    BY <2>1, <2>4
  <2>5. CASE HasBufs(j, k) /\ h = i /\ l = m
    BY <2>1, <2>2, <2>5
  <2>6. CASE HasBufs(h, l) /\ j = i /\ k = m
    BY <2>1, <2>2, <2>6
  <2> QED
    BY <1>2, <2>3, <2>4, <2>5, <2>6
<1>3. ASSUME NEW b \in Objs("buf")'
      PROVE  \/ b \in bitmap'["buf"]
             \/ \E j \in Ifs, k \in Queues :
                    HasBufs(j, k)' /\ \E s \in 1 .. descs'[j] : slot'[ring'[j][k]][s] = b
  <2>1. b \in Objs("buf")
    BY DEF Objs
  <2>2. CASE b \in bitmap["buf"]
    <3>1. CASE \E s \in 1 .. descs[i] : f[s] = b
      <4>1. PICK s \in 1 .. descs[i] : f[s] = b
        BY <3>1
      <4>2. HasBufs(i, m)' /\ slot'[ring'[i][m]][s] = b
        BY <4>1 DEF Buf
      <4> QED
        BY <4>2
    <3>2. CASE ~\E s \in 1 .. descs[i] : f[s] = b
      BY <2>2, <3>2
    <3> QED
      BY <3>1, <3>2
  <2>3. CASE b \notin bitmap["buf"]
    <3>1. PICK j \in Ifs, k \in Queues : HasBufs(j, k) /\ \E s \in 1 .. descs[j] : Buf(j, k, s) = b
      BY <2>1, <2>3 DEF BufsOK, Buf
    <3>2. PICK s \in 1 .. descs[j] : Buf(j, k, s) = b
      BY <3>1
    <3>3. HasBufs(j, k)' /\ slot'[ring'[j][k]][s] = b
      BY <3>1, <3>2 DEF Buf
    <3> QED
      BY <3>3
  <2> QED
    BY <2>2, <2>3
<1> QED
  BY <1>1, <1>2, <1>3 DEF BufsOK

LEMMA IfKept ==
    ASSUME IfsOK, total["if"] \in Nat, total' = total,
           \A j \in Ifs : \A d \in Nat : HasIf(j, d)' <=> HasIf(j, d),
           bitmap'["if"] = bitmap["if"]
    PROVE  IfsOK'
<1>1. Objs("if")' = Objs("if")
  BY DEF Objs
<1>2. \A d \in Objs("if") : d \in Nat
  BY DEF Objs
<1> QED
  BY <1>1, <1>2 DEF IfsOK

LEMMA RingsKept ==
    ASSUME RingsOK, total' = total,
           \A j \in Ifs : \A k \in Queues : HasRing(j, k)' <=> HasRing(j, k),
           \A j \in Ifs : \A k \in Queues : HasRing(j, k)' => ring'[j][k] = ring[j][k],
           bitmap'["ring"] = bitmap["ring"]
    PROVE  RingsOK'
<1>1. Objs("ring")' = Objs("ring")
  BY DEF Objs
<1>2. ASSUME NEW x \in Objs("ring")', x \notin bitmap'["ring"]
      PROVE  \E j \in Ifs, k \in Queues : HasRing(j, k)' /\ ring'[j][k] = x
  <2>1. PICK j \in Ifs, k \in Queues : HasRing(j, k) /\ ring[j][k] = x
    BY <1>1, <1>2 DEF RingsOK
  <2> QED
    BY <2>1
<1> QED
  BY <1>1, <1>2 DEF RingsOK

LEMMA BufsKept ==
    ASSUME BufsOK, total' = total, descs' = descs,
           \A j \in Ifs : \A k \in Queues : HasBufs(j, k)' <=> HasBufs(j, k),
           \A j \in Ifs : \A k \in Queues : HasBufs(j, k)' => HasRing(j, k)',
           \A j \in Ifs : \A k \in Queues : HasBufs(j, k)' =>
               \A s \in 1 .. descs[j] : Buf(j, k, s)' = Buf(j, k, s),
           bitmap'["buf"] = bitmap["buf"]
    PROVE  BufsOK'
<1>1. CASE Ifs = {}
  BY <1>1 DEF BufsOK, Objs
<1>2. CASE Ifs # {}
  <2>1. PICK i \in Ifs : TRUE
    BY <1>2
  <2>2. {} \in SUBSET Queues
    OBVIOUS
  <2>3. /\ \A k \in {} : HasBufs(i, k)
        /\ \A j \in Ifs : \A k \in Queues : HasBufs(j, k)' <=> HasBufs(j, k) /\ ~(j = i /\ k \in {})
        /\ \A b : b \in bitmap'["buf"] <=>
               b \in bitmap["buf"] \/ \E k \in {} : \E s \in 1 .. descs[i] : b = Buf(i, k, s)
    OBVIOUS
  <2> QED
    BY <2>1, <2>2, <2>3, BufsGiven
<1> QED
  BY <1>1, <1>2

\* A call changes what belongs to its own interface only.
Local(i) ==
    \A j \in Ifs : j # i =>
        /\ pc'[j] = pc[j] /\ q'[j] = q[j] /\ dif'[j] = dif[j] /\ seen'[j] = seen[j]
        /\ refs'[j] = refs[j] /\ difs'[j] = difs[j] /\ ring'[j] = ring[j]

LEMMA Others ==
    ASSUME NEW i \in Ifs, Local(i)
    PROVE  \A j \in Ifs : j # i =>
               /\ \A d : HasIf(j, d)' <=> HasIf(j, d)
               /\ \A k : HasRing(j, k)' <=> HasRing(j, k)
               /\ \A k : HasBufs(j, k)' <=> HasBufs(j, k)
               /\ Whole(j)' <=> Whole(j)
BY DEF Local, HasIf, HasRing, HasBufs, Whole

\* Where a call of i leaves the pools alone, or nobody else is registering, the others
\* find their calls as they were.
LEMMA OthersCalls ==
    ASSUME CallOK, NoStale, NEW i \in Ifs, Local(i), alloc' = alloc \/ {alloc, alloc'} = {i, None},
           descs' = descs,
           /\ Releasing(i)' => alloc' = None
           /\ (Releasing(i)' /\ ~Releasing(i)) \/ alloc' # alloc => \A j \in Ifs : ~Releasing(j),
           \/ bitmap' = bitmap /\ obj_free' = obj_free
           \/ \A j \in Ifs : j # i => pc[j] \notin {"new", "cleanup"} /\ ~Releasing(j)
    PROVE  \A j \in Ifs : j # i => CallOf(j)' /\ NoStaleOf(j)'
<1> TAKE j \in Ifs
<1> SUFFICES ASSUME j # i PROVE CallOf(j)' /\ NoStaleOf(j)'
  OBVIOUS
<1>0. i # None /\ j # None
  BY ObjPoolAssumption
<1>1. /\ pc'[j] = pc[j] /\ q'[j] = q[j] /\ dif'[j] = dif[j] /\ seen'[j] = seen[j]
      /\ refs'[j] = refs[j] /\ difs'[j] = difs[j] /\ ring'[j] = ring[j]
  BY DEF Local
<1>2. CallOf(j) /\ NoStaleOf(j) /\ CallOf(i)
  BY DEF CallOK, NoStale
<1>3. alloc' = j <=> pc[j] \in {"new", "cleanup"}
  BY <1>0, <1>2 DEF CallOf
<1>4. Releasing(j)' => alloc' = None /\ \A h \in Ifs : Releasing(h)' => h = j
  <2>1. SUFFICES ASSUME Releasing(j)' PROVE alloc' = None /\ \A h \in Ifs : Releasing(h)' => h = j
    OBVIOUS
  <2>2. Releasing(j)
    BY <1>1, <2>1 DEF Releasing
  <2>3. alloc = None /\ \A h \in Ifs : Releasing(h) => h = j
    BY <1>2, <2>2 DEF CallOf
  <2>4. ~Releasing(i)'
    BY <2>2, <2>3
  <2>5. \A h \in Ifs : h # i => (Releasing(h)' <=> Releasing(h))
    BY DEF Local, Releasing
  <2>6. alloc' = None
    <3>1. alloc' = alloc
      BY <2>2
    <3> QED
      BY <2>3, <3>1
  <2> QED
    BY <2>3, <2>4, <2>5, <2>6
<1>5. CallOf(j)'
  BY <1>1, <1>2, <1>3, <1>4 DEF CallOf, Releasing
<1>6. NoStaleOf(j)'
  <2>1. CASE bitmap' = bitmap /\ obj_free' = obj_free
    <3>1. Obtainable(j)' = Obtainable(j)
      BY <2>1 DEF Obtainable
    <3> QED
      BY <1>1, <1>2, <3>1 DEF NoStaleOf
  <2>2. CASE pc[j] \notin {"new", "cleanup"}
    BY <1>1, <2>2 DEF NoStaleOf
  <2> QED
    BY <2>1, <2>2
<1> QED
  BY <1>5, <1>6

LEMMA DifsFinite ==
    ASSUME Types, IfsOK, NEW i \in Ifs
    PROVE  IsFiniteSet(difs[i]) /\ Cardinality(difs[i]) \in Nat /\ difs[i] \subseteq Objs("if")
<1>1. "if" \in Pools /\ total["if"] \in Nat
  BY DEF Types, Pools
<1>2. IsFiniteSet(Objs("if"))
  BY <1>1, ObjsCount DEF Objs
<1>3. difs[i] \subseteq Objs("if")
  BY DEF IfsOK, HasIf, Types
<1> QED
  BY <1>2, <1>3, FS_Subset, FS_CardinalityType

LEMMA ObtainableIs ==
    ASSUME Types, NEW i \in Ifs
    PROVE  /\ Obtainable(i) \in Nat
           /\ Obtainable(i) > 0 => obj_free["ring"] > 0 /\ obj_free["buf"] >= descs[i]
           /\ obj_free["ring"] = 0 \/ obj_free["buf"] < descs[i] => Obtainable(i) = 0
           /\ Obtainable(i) <= obj_free["ring"] /\ Obtainable(i) <= obj_free["buf"] \div descs[i]
           /\ Obtainable(i) \in {obj_free["ring"], obj_free["buf"] \div descs[i]}
<1> DEFINE a == obj_free["ring"]
           b == obj_free["buf"]
           d == descs[i]
<1>1. a \in Nat /\ b \in Nat /\ d \in Nat \ {0}
  BY DEF Types, Pools
<1> HIDE DEF a, b, d
<1>2. b \div d \in Nat
  BY <1>1
<1>3. b < d => b \div d = 0
  BY <1>1
<1>4. b \div d > 0 => b >= d
  BY <1>1, <1>3
<1>5. Min({a, b \div d}) \in {a, b \div d}
  BY <1>1, <1>2, MinOf
<1>6. Min({a, b \div d}) <= a /\ Min({a, b \div d}) <= b \div d
  <2>1. \E x \in {a, b \div d} : \A y \in {a, b \div d} : x <= y
    BY <1>1, <1>2
  <2> QED
    BY <2>1 DEF Min
<1>7. Obtainable(i) = Min({a, b \div d})
  BY DEF Obtainable, a, b, d
<1>8. /\ Obtainable(i) \in Nat /\ Obtainable(i) <= a /\ Obtainable(i) <= b \div d
      /\ Obtainable(i) \in {a, b \div d}
  BY <1>1, <1>2, <1>5, <1>6, <1>7
<1>9. /\ Obtainable(i) > 0 => a > 0 /\ b >= d
      /\ a = 0 \/ b < d => Obtainable(i) = 0
  BY <1>1, <1>2, <1>3, <1>4, <1>8
<1> QED
  BY <1>8, <1>9 DEF a, b, d

LEMMA OneLess ==
    ASSUME NEW a \in Nat, NEW d \in Nat \ {0}, a >= d
    PROVE  (a - d) \div d = a \div d - 1
BY SMT

\* A queue taken from the pools leaves those for one less.
LEMMA ObtainableLess ==
    ASSUME Types, NEW i \in Ifs, Obtainable(i) > 0, Types', descs' = descs,
           obj_free'["ring"] = obj_free["ring"] - 1, obj_free'["buf"] = obj_free["buf"] - descs[i]
    PROVE  Obtainable(i)' \in Nat /\ Obtainable(i) <= Obtainable(i)' + 1
<1> DEFINE a == obj_free["ring"]
           b == obj_free["buf"]
           d == descs[i]
<1>1. a \in Nat /\ b \in Nat /\ d \in Nat \ {0}
  BY DEF Types, Pools
<1>2. /\ Obtainable(i) \in Nat /\ Obtainable(i) <= a /\ Obtainable(i) <= b \div d /\ b >= d
  BY ObtainableIs
<1>3. a - 1 \in Nat /\ b - d \in Nat
  BY DEF Types, Pools
<1>4. Obtainable(i)' = Min({a - 1, (b - d) \div d})
  BY DEF Obtainable
<1> HIDE DEF a, b, d
<1>5. (b - d) \div d = b \div d - 1
  BY <1>1, <1>2, OneLess
<1>6. (b - d) \div d \in Nat /\ b \div d \in Nat
  BY <1>1, <1>3
<1>7. Obtainable(i)' \in {a - 1, (b - d) \div d}
  BY <1>3, <1>4, <1>6, MinOf
<1> QED
  BY <1>1, <1>2, <1>5, <1>6, <1>7

\* What an interface gives back was not free, and each object is given back once.
LEMMA GivenRings ==
    ASSUME Types, RingsOK, NEW i \in Ifs, NEW K \in SUBSET Queues, \A k \in K : HasRing(i, k)
    PROVE  /\ RingsOf(i, K) \subseteq Objs("ring") \ bitmap["ring"]
           /\ Cardinality(K) = Cardinality(RingsOf(i, K))
<1> DEFINE g == [k \in K |-> ring[i][k]]
<1>1. IsFiniteSet(K)
  <2>1. IsFiniteSet(Queues)
    BY ObjPoolAssumption, FS_Interval DEF Queues
  <2> QED
    BY <2>1, FS_Subset
<1>2. RingsOf(i, K) = {g[k] : k \in K}
  BY DEF RingsOf
<1>3. \A k, l \in K : g[k] = g[l] => k = l
  BY DEF RingsOK
<1>4. RingsOf(i, K) \subseteq Objs("ring") \ bitmap["ring"]
  BY DEF RingsOK, RingsOf
<1> HIDE DEF g
<1>5. Cardinality({g[k] : k \in K}) = Cardinality(K)
  BY <1>1, <1>3, ImageOf
<1> QED
  BY <1>2, <1>4, <1>5

LEMMA GivenBufs ==
    ASSUME Types, BufsOK, NEW i \in Ifs, NEW K \in SUBSET Queues, \A k \in K : HasBufs(i, k)
    PROVE  /\ BufsOf(i, K) \subseteq Objs("buf") \ bitmap["buf"]
           /\ \A b : b \in BufsOf(i, K) <=> \E k \in K : \E s \in 1 .. descs[i] : b = Buf(i, k, s)
           /\ Cardinality(Places(i, K)) = Cardinality(BufsOf(i, K))
<1> DEFINE P == K \X (1 .. descs[i])
           g == [p \in P |-> slot[ring[i][p[1]]][p[2]]]
<1>1. IsFiniteSet(P)
  <2>1. IsFiniteSet(Queues)
    BY ObjPoolAssumption, FS_Interval DEF Queues
  <2>2. IsFiniteSet(1 .. descs[i])
    <3>1. descs[i] \in Int
      BY DEF Types
    <3> QED
      BY <3>1, FS_Interval
  <2> QED
    BY <2>1, <2>2, FS_Subset, FS_Product
<1>2. \A k \in K : \A s \in 1 .. descs[i] : Buf(i, k, s) \in Objs("buf") \ bitmap["buf"]
  BY DEF BufsOK, Buf
<1>3. \A b \in Objs("buf") : b > 1
  BY DEF Objs, Types, Pools
<1>4. Places(i, K) = P
  BY <1>2, <1>3 DEF Places, Buf
<1>5. BufsOf(i, K) = {g[p] : p \in P}
  BY <1>4 DEF BufsOf
<1>6. \A p, r \in P : g[p] = g[r] => p = r
  <2>1. SUFFICES ASSUME NEW p \in P, NEW r \in P, g[p] = g[r] PROVE p = r
    OBVIOUS
  <2>2. /\ p = <<p[1], p[2]>> /\ p[1] \in K /\ p[2] \in 1 .. descs[i]
        /\ r = <<r[1], r[2]>> /\ r[1] \in K /\ r[2] \in 1 .. descs[i]
    OBVIOUS
  <2>3. Buf(i, p[1], p[2]) = Buf(i, r[1], r[2])
    BY <2>1 DEF Buf
  <2>4. p[1] = r[1] /\ p[2] = r[2]
    BY <2>2, <2>3 DEF BufsOK, Buf
  <2> QED
    BY <2>2, <2>4
<1>7. \A b : b \in BufsOf(i, K) <=> \E k \in K : \E s \in 1 .. descs[i] : b = Buf(i, k, s)
  <2>1. \A p \in P : g[p] = Buf(i, p[1], p[2]) /\ p[1] \in K /\ p[2] \in 1 .. descs[i]
    BY DEF Buf
  <2>2. \A k \in K : \A s \in 1 .. descs[i] : <<k, s>> \in P /\ g[<<k, s>>] = Buf(i, k, s)
    BY DEF Buf
  <2> HIDE DEF g, P
  <2>3. ASSUME NEW b, b \in BufsOf(i, K) PROVE \E k \in K : \E s \in 1 .. descs[i] : b = Buf(i, k, s)
    BY <1>5, <2>1, <2>3
  <2>4. ASSUME NEW k \in K, NEW s \in 1 .. descs[i] PROVE Buf(i, k, s) \in BufsOf(i, K)
    BY <1>5, <2>2
  <2> QED
    BY <2>3, <2>4
<1>8. BufsOf(i, K) \subseteq Objs("buf") \ bitmap["buf"]
  BY <1>2, <1>7
<1> HIDE DEF g, P
<1>9. Cardinality({g[p] : p \in P}) = Cardinality(P)
  BY <1>1, <1>6, ImageOf
<1> QED
  BY <1>4, <1>5, <1>7, <1>8, <1>9

----------------------------------------------------------------------------
(* Every step keeps IInv.                                                  *)

\* dpa_new_if for a further file: one object of the interface pool.
LEMMA JoinKeeps ==
    ASSUME IInv, NEW i \in Ifs, Join(i), ~Races, ~Stale
    PROVE  IInv'
<1>a. /\ Types /\ CallOK /\ NoStale /\ Counts /\ RefsOK /\ IfsOK /\ RingsOK /\ BufsOK
      /\ CallOf(i) /\ NoStaleOf(i) /\ RefsOf(i)
  BY DEF IInv, CallOK, NoStale, RefsOK
<1>b. total["if"] \in Nat /\ descs[i] \in Nat /\ "if" \in Pools /\ "ring" \in Pools /\ "buf" \in Pools
      /\ NumRings \in Nat \ {0}
  BY <1>a, ObjPoolAssumption DEF Types, Pools
<1>n. i # None
  BY ObjPoolAssumption
<1>e. /\ pc' = pc /\ q' = q /\ dif' = dif /\ seen' = seen /\ ring' = ring /\ slot' = slot /\ alloc' = alloc
      /\ pc[i] = "idle" /\ obj_free["if"] > 0 /\ refs[i] > 0
      /\ refs'[i] = refs[i] + 1 /\ difs'[i] = difs[i] \cup {First("if")}
  BY <1>a, <1>n DEF Join, Types, svars
<1>l. Local(i) /\ total' = total /\ descs' = descs
  BY <1>a DEF Join, Local, Types, svars, pvars, fvars, Goto, Return
<1>o. \A j \in Ifs : j # i =>
          /\ \A d : HasIf(j, d)' <=> HasIf(j, d)
          /\ \A k : HasRing(j, k)' <=> HasRing(j, k)
          /\ \A k : HasBufs(j, k)' <=> HasBufs(j, k)
          /\ Whole(j)' <=> Whole(j)
  BY <1>l, Others
<1>m. alloc = None /\ \A j \in Ifs : ~Releasing(j) /\ pc[j] \notin {"new", "cleanup"}
  BY <1>a, <1>e, ObjPoolAssumption DEF CallOK, CallOf, Join, Free
<1>d. First("if") \in bitmap["if"] /\ First("if") \in Nat /\ First("if") \in Objs("if")
      /\ ~HasIf(i, First("if"))
  <2>1. First("if") \in bitmap["if"]
    BY <1>a, <1>b, <1>e, FirstIs
  <2> QED
    BY <1>a, <1>b, <2>1 DEF Types, Counts, IfsOK
<1>p. /\ bitmap'["if"] = bitmap["if"] \ {First("if")}
      /\ bitmap'["ring"] = bitmap["ring"] /\ bitmap'["buf"] = bitmap["buf"]
      /\ obj_free'["ring"] = obj_free["ring"] /\ obj_free'["buf"] = obj_free["buf"]
  <2> DEFINE S == PoolsOf({First("if")}, {}, {})
  <2>1. S["if"] = {First("if")} /\ S["ring"] = {} /\ S["buf"] = {}
    BY PoolsOfIs
  <2> HIDE DEF S
  <2>2. Take(S)
    BY DEF S, Join
  <2> QED
    BY <1>a, <1>b, <2>1, <2>2, TakeIs
<1>c. Counts' /\ bitmap' \in [Pools -> SUBSET Nat] /\ obj_free' \in [Pools -> Nat]
  <2> DEFINE S == PoolsOf({First("if")}, {}, {})
  <2>1. S["if"] = {First("if")} /\ S["ring"] = {} /\ S["buf"] = {}
    BY PoolsOfIs
  <2> HIDE DEF S
  <2>2. Take(S)
    BY DEF S, Join
  <2>3. \A p \in Pools : S[p] \subseteq bitmap[p]
    BY <1>d, <2>1 DEF Pools
  <2> QED
    BY <1>a, <1>l, <2>2, <2>3, TakeCounts
<1>t. Types'
  <2>1. Objs("ring")' = Objs("ring")
    BY <1>l DEF Objs
  <2>2. slot' = [r \in Objs("ring")' |-> slot'[r]]
    BY <1>a, <2>1, <1>d DEF Join, Types
  <2>3. alloc' \in Ifs \cup {None} /\ pc' \in [Ifs -> Labels] /\ q' \in [Ifs -> 1 .. NumRings + 2]
    BY <1>a, <1>d, ObjPoolAssumption DEF Join, Types, Labels, CallOf, Goto, Return
  <2>4. /\ refs' \in [Ifs -> Nat] /\ difs' \in [Ifs -> SUBSET Nat] /\ dif' \in [Ifs -> Nat]
        /\ seen' \in [Ifs -> (SUBSET Nat) \X Nat]
    BY <1>a, <1>b, <1>d DEF Join, Types, fvars, Return
  <2>5. ring' \in [Ifs -> [Queues -> Objs("ring") \cup {0}]]
    BY <1>a, <1>d DEF Join, Types
  <2> QED
    BY <1>a, <1>c, <1>l, <2>1, <2>2, <2>3, <2>4, <2>5 DEF Types
<1>k. CallOK' /\ NoStale'
  <2>1. \A j \in Ifs : j # i => CallOf(j)' /\ NoStaleOf(j)'
    BY <1>a, <1>n, <1>l, <1>e, <1>m, OthersCalls DEF Releasing
  <2>2. CallOf(i)'
    BY <1>a, <1>n, <1>l, <1>e DEF CallOf, Releasing, Local, Types
  <2>3. NoStaleOf(i)'
    BY <1>e DEF NoStaleOf
  <2> QED
    BY <2>1, <2>2, <2>3 DEF CallOK, NoStale
<1>r. RefsOK'
  <2>1. \A j \in Ifs : j # i => RefsOf(j)'
    BY <1>a, <1>l DEF RefsOK, RefsOf, Local
  <2>2. RefsOf(i)'
    <3>1. First("if") \notin difs[i]
      BY <1>d DEF HasIf
    <3>2. Cardinality(difs[i] \cup {First("if")}) = Cardinality(difs[i]) + 1
      BY <1>a, <3>1, DifsFinite, FS_AddElement
    <3> QED
      BY <1>a, <1>e, <3>2 DEF RefsOf
  <2> QED
    BY <2>1, <2>2 DEF RefsOK
<1>i. IfsOK'
  <2>1. \A d \in Nat : HasIf(i, d)' <=> HasIf(i, d) \/ d = First("if")
    BY <1>a, <1>e DEF HasIf
  <2>2. \A j \in Ifs : \A d \in Nat : HasIf(j, d)' <=> HasIf(j, d) \/ (j = i /\ d = First("if"))
    BY <1>o, <2>1
  <2>3. bitmap["if"] \subseteq Objs("if")
    BY <1>a, <1>b DEF Counts
  <2> QED
    BY <1>a, <1>b, <1>d, <1>p, <1>l, <2>2, <2>3, IfTaken
<1>g. RingsOK'
  <2>1. \A k \in Queues : HasRing(i, k)' <=> HasRing(i, k)
    BY <1>a, <1>b, <1>e DEF HasRing, Whole, CallOf, Types
  <2>2. \A j \in Ifs : \A k \in Queues : HasRing(j, k)' <=> HasRing(j, k)
    BY <1>o, <2>1
  <2>3. \A j \in Ifs : \A k \in Queues : HasRing(j, k)' => ring'[j][k] = ring[j][k]
    BY <1>l, <1>e, <2>2 DEF Local
  <2> QED
    BY <1>a, <1>l, <1>e, <2>2, <2>3, RingsKept, <1>p
<1>f. BufsOK'
  <2>1. \A k \in Queues : HasBufs(i, k)' <=> HasBufs(i, k)
    BY <1>a, <1>e DEF HasBufs, Whole, CallOf, Types, Queues
  <2>2. \A j \in Ifs : \A k \in Queues : HasBufs(j, k)' <=> HasBufs(j, k)
    BY <1>o, <2>1
  <2>3. \A k \in Queues : HasBufs(i, k)' => HasRing(i, k)'
    BY <1>a, <1>e, <2>1 DEF BufsOK, HasBufs, HasRing, Whole, CallOf, Types
  <2>4. \A j \in Ifs : \A k \in Queues : HasBufs(j, k)' => HasRing(j, k)'
    BY <1>a, <1>o, <2>2, <2>3 DEF BufsOK
  <2>5. \A j \in Ifs : \A k \in Queues : HasBufs(j, k)' =>
            \A s \in 1 .. descs[j] : Buf(j, k, s)' = Buf(j, k, s)
    BY <1>l, <1>e, <2>2 DEF Buf, Local
  <2> QED
    BY <1>a, <1>l, <1>e, <2>2, <2>4, <2>5, BufsKept, <1>p
<1> QED
  BY <1>c, <1>t, <1>k, <1>r, <1>i, <1>g, <1>f DEF IInv

\* dpa_new_if begins: it has the lock and an object of the interface pool.
LEMMA NewIfBeginKeeps ==
    ASSUME IInv, NEW i \in Ifs, NewIfBegin(i), ~Races, ~Stale
    PROVE  IInv'
<1>a. /\ Types /\ CallOK /\ NoStale /\ Counts /\ RefsOK /\ IfsOK /\ RingsOK /\ BufsOK
      /\ CallOf(i) /\ NoStaleOf(i) /\ RefsOf(i)
  BY DEF IInv, CallOK, NoStale, RefsOK
<1>b. total["if"] \in Nat /\ descs[i] \in Nat /\ "if" \in Pools /\ "ring" \in Pools /\ "buf" \in Pools
      /\ NumRings \in Nat \ {0}
  BY <1>a, ObjPoolAssumption DEF Types, Pools
<1>n. i # None
  BY ObjPoolAssumption
<1>e. /\ refs' = refs /\ difs' = difs /\ q' = q /\ seen' = seen /\ ring' = ring /\ slot' = slot
      /\ pc[i] = "idle" /\ obj_free["if"] > 0 /\ refs[i] = 0 /\ q[i] = 1
      /\ alloc' = i /\ pc'[i] = "new" /\ dif'[i] = First("if")
      /\ \A k \in Queues : ring[i][k] # 0 => k <= Obtainable(i) + 1
  BY <1>a, <1>n DEF NewIfBegin, Types, svars, fvars, Goto, CallOf, Pointers
<1>l. Local(i) /\ total' = total /\ descs' = descs
  BY <1>a DEF NewIfBegin, Local, Types, svars, pvars, fvars, Goto, Return
<1>o. \A j \in Ifs : j # i =>
          /\ \A d : HasIf(j, d)' <=> HasIf(j, d)
          /\ \A k : HasRing(j, k)' <=> HasRing(j, k)
          /\ \A k : HasBufs(j, k)' <=> HasBufs(j, k)
          /\ Whole(j)' <=> Whole(j)
  BY <1>l, Others
<1>m. alloc = None /\ \A j \in Ifs : ~Releasing(j) /\ pc[j] \notin {"new", "cleanup"}
  BY <1>a, <1>e, ObjPoolAssumption DEF CallOK, CallOf, NewIfBegin, Free
<1>d. First("if") \in bitmap["if"] /\ First("if") \in Nat /\ First("if") \in Objs("if")
      /\ ~HasIf(i, First("if"))
  <2>1. First("if") \in bitmap["if"]
    BY <1>a, <1>b, <1>e, FirstIs
  <2> QED
    BY <1>a, <1>b, <2>1 DEF Types, Counts, IfsOK
<1>p. /\ bitmap'["if"] = bitmap["if"] \ {First("if")}
      /\ bitmap'["ring"] = bitmap["ring"] /\ bitmap'["buf"] = bitmap["buf"]
      /\ obj_free'["ring"] = obj_free["ring"] /\ obj_free'["buf"] = obj_free["buf"]
  <2> DEFINE S == PoolsOf({First("if")}, {}, {})
  <2>1. S["if"] = {First("if")} /\ S["ring"] = {} /\ S["buf"] = {}
    BY PoolsOfIs
  <2> HIDE DEF S
  <2>2. Take(S)
    BY DEF S, NewIfBegin
  <2> QED
    BY <1>a, <1>b, <2>1, <2>2, TakeIs
<1>c. Counts' /\ bitmap' \in [Pools -> SUBSET Nat] /\ obj_free' \in [Pools -> Nat]
  <2> DEFINE S == PoolsOf({First("if")}, {}, {})
  <2>1. S["if"] = {First("if")} /\ S["ring"] = {} /\ S["buf"] = {}
    BY PoolsOfIs
  <2> HIDE DEF S
  <2>2. Take(S)
    BY DEF S, NewIfBegin
  <2>3. \A p \in Pools : S[p] \subseteq bitmap[p]
    BY <1>d, <2>1 DEF Pools
  <2> QED
    BY <1>a, <1>l, <2>2, <2>3, TakeCounts
<1>t. Types'
  <2>1. Objs("ring")' = Objs("ring")
    BY <1>l DEF Objs
  <2>2. slot' = [r \in Objs("ring")' |-> slot'[r]]
    BY <1>a, <2>1, <1>d DEF NewIfBegin, Types
  <2>3. alloc' \in Ifs \cup {None} /\ pc' \in [Ifs -> Labels] /\ q' \in [Ifs -> 1 .. NumRings + 2]
    BY <1>a, <1>d, ObjPoolAssumption DEF NewIfBegin, Types, Labels, CallOf, Goto, Return
  <2>4. /\ refs' \in [Ifs -> Nat] /\ difs' \in [Ifs -> SUBSET Nat] /\ dif' \in [Ifs -> Nat]
        /\ seen' \in [Ifs -> (SUBSET Nat) \X Nat]
    BY <1>a, <1>b, <1>d DEF NewIfBegin, Types, fvars, Return
  <2>5. ring' \in [Ifs -> [Queues -> Objs("ring") \cup {0}]]
    BY <1>a, <1>d DEF NewIfBegin, Types
  <2> QED
    BY <1>a, <1>c, <1>l, <2>1, <2>2, <2>3, <2>4, <2>5 DEF Types
<1>k. CallOK' /\ NoStale'
  <2>1. \A j \in Ifs : j # i => CallOf(j)' /\ NoStaleOf(j)'
    BY <1>a, <1>n, <1>l, <1>e, <1>m, OthersCalls DEF Releasing
  <2>2. CallOf(i)'
    <3>1. \A j \in Ifs : ~Releasing(j)'
      BY <1>l, <1>e, <1>m DEF Releasing, Local
    <3> QED
      BY <1>n, <1>e, <3>1, ObjPoolAssumption DEF CallOf
  <2>3. NoStaleOf(i)'
    <3>1. Obtainable(i)' = Obtainable(i) /\ Obtainable(i) \in Nat
      BY <1>a, <1>p, <1>l, ObtainableIs DEF Obtainable
    <3> QED
      BY <1>a, <1>e, <3>1 DEF NoStaleOf, Queues
  <2> QED
    BY <2>1, <2>2, <2>3 DEF CallOK, NoStale
<1>r. RefsOK'
  <2>1. \A j \in Ifs : j # i => RefsOf(j)'
    BY <1>a, <1>l DEF RefsOK, RefsOf, Local
  <2>2. RefsOf(i)'
    BY <1>a, <1>d, <1>e DEF RefsOf, HasIf
  <2> QED
    BY <2>1, <2>2 DEF RefsOK
<1>i. IfsOK'
  <2>1. \A d \in Nat : HasIf(i, d)' <=> HasIf(i, d) \/ d = First("if")
    BY <1>a, <1>e DEF HasIf
  <2>2. \A j \in Ifs : \A d \in Nat : HasIf(j, d)' <=> HasIf(j, d) \/ (j = i /\ d = First("if"))
    BY <1>o, <2>1
  <2>3. bitmap["if"] \subseteq Objs("if")
    BY <1>a, <1>b DEF Counts
  <2> QED
    BY <1>a, <1>b, <1>d, <1>p, <1>l, <2>2, <2>3, IfTaken
<1>g. RingsOK'
  <2>1. \A k \in Queues : HasRing(i, k)' <=> HasRing(i, k)
    BY <1>a, <1>b, <1>e DEF HasRing, Whole, CallOf, Types, Queues
  <2>2. \A j \in Ifs : \A k \in Queues : HasRing(j, k)' <=> HasRing(j, k)
    BY <1>o, <2>1
  <2>3. \A j \in Ifs : \A k \in Queues : HasRing(j, k)' => ring'[j][k] = ring[j][k]
    BY <1>l, <1>e, <2>2 DEF Local
  <2> QED
    BY <1>a, <1>l, <1>e, <2>2, <2>3, RingsKept, <1>p
<1>f. BufsOK'
  <2>1. \A k \in Queues : HasBufs(i, k)' <=> HasBufs(i, k)
    BY <1>a, <1>e DEF HasBufs, Whole, CallOf, Types, Queues
  <2>2. \A j \in Ifs : \A k \in Queues : HasBufs(j, k)' <=> HasBufs(j, k)
    BY <1>o, <2>1
  <2>3. \A k \in Queues : HasBufs(i, k)' => HasRing(i, k)'
    BY <1>a, <1>e, <2>1 DEF BufsOK, HasBufs, HasRing, Whole, CallOf, Types
  <2>4. \A j \in Ifs : \A k \in Queues : HasBufs(j, k)' => HasRing(j, k)'
    BY <1>a, <1>o, <2>2, <2>3 DEF BufsOK
  <2>5. \A j \in Ifs : \A k \in Queues : HasBufs(j, k)' =>
            \A s \in 1 .. descs[j] : Buf(j, k, s)' = Buf(j, k, s)
    BY <1>l, <1>e, <2>2 DEF Buf, Local
  <2> QED
    BY <1>a, <1>l, <1>e, <2>2, <2>4, <2>5, BufsKept, <1>p
<1> QED
  BY <1>c, <1>t, <1>k, <1>r, <1>i, <1>g, <1>f DEF IInv

\* dpa_new_if: a queue gets a ring, and a buffer for each of its slots.
LEMMA NewRingKeeps ==
    ASSUME IInv, NEW i \in Ifs, NewRing(i), ~Races, ~Stale
    PROVE  IInv'
<1>a. /\ Types /\ CallOK /\ NoStale /\ Counts /\ RefsOK /\ IfsOK /\ RingsOK /\ BufsOK
      /\ CallOf(i) /\ NoStaleOf(i) /\ RefsOf(i)
  BY DEF IInv, CallOK, NoStale, RefsOK
<1>b. total["if"] \in Nat /\ descs[i] \in Nat /\ "if" \in Pools /\ "ring" \in Pools /\ "buf" \in Pools
      /\ NumRings \in Nat \ {0}
  BY <1>a, ObjPoolAssumption DEF Types, Pools
<1>n. i # None
  BY ObjPoolAssumption
<1>e. /\ refs' = refs /\ difs' = difs /\ pc' = pc /\ dif' = dif /\ seen' = seen /\ alloc' = alloc
      /\ pc[i] = "new" /\ q[i] <= NumRings /\ q'[i] = q[i] + 1 /\ q[i] \in Nat /\ refs[i] = 0
  BY <1>a, <1>n DEF NewRing, Types, svars, fvars, CallOf
<1>l. Local(i) /\ total' = total /\ descs' = descs
  BY <1>a DEF NewRing, Local, Types, svars, pvars, fvars, Goto, Return
<1>o. \A j \in Ifs : j # i =>
          /\ \A d : HasIf(j, d)' <=> HasIf(j, d)
          /\ \A k : HasRing(j, k)' <=> HasRing(j, k)
          /\ \A k : HasBufs(j, k)' <=> HasBufs(j, k)
          /\ Whole(j)' <=> Whole(j)
  BY <1>l, Others
<1>m. alloc = i /\ \A j \in Ifs : ~Releasing(j) /\ (j # i => pc[j] \notin {"new", "cleanup"})
  BY <1>a, <1>n, <1>e DEF CallOK, CallOf, Releasing
<1>d. /\ q[i] \in Queues /\ Obtainable(i) > 0 /\ obj_free["ring"] > 0 /\ obj_free["buf"] >= descs[i]
      /\ obj_free["ring"] \in Nat /\ obj_free["buf"] \in Nat
  <2>1. Obtainable(i) > 0
    BY DEF NewRing
  <2>2. q[i] \in Queues /\ obj_free["ring"] \in Nat /\ obj_free["buf"] \in Nat
    BY <1>a, <1>b, <1>e DEF Types, Queues
  <2> QED
    BY <1>a, <2>1, <2>2, ObtainableIs
<1>u. First("ring") \in bitmap["ring"] /\ First("ring") \in Objs("ring")
  BY <1>a, <1>b, <1>d, FirstIs DEF Counts
<1>y. PICK m, r : m = q[i] /\ r = First("ring")
  OBVIOUS
<1> DEFINE f == FirstBufs(descs[i])
           F == {f[s] : s \in 1 .. descs[i]}
<1>w. /\ f \in [1 .. descs[i] -> bitmap["buf"]]
      /\ \A s, t \in 1 .. descs[i] : f[s] = f[t] => s = t
      /\ IsFiniteSet(F) /\ Cardinality(F) = descs[i]
  BY <1>a, <1>b, <1>d, <1>y, FirstBufsIs
<1>v. /\ ring'[i][m] = r /\ \A k \in Queues : k # m => ring'[i][k] = ring[i][k]
      /\ slot'[r] = f /\ \A x \in Objs("ring") : x # r => slot'[x] = slot[x]
      /\ slot' = [slot EXCEPT ![r] = f]
  BY <1>a, <1>d, <1>u, <1>y DEF NewRing, Types
<1>s. Take(PoolsOf({}, {r}, F))
  BY <1>y DEF NewRing
<1> HIDE DEF f, F
<1>p. /\ bitmap'["if"] = bitmap["if"] /\ bitmap'["ring"] = bitmap["ring"] \ {r}
      /\ bitmap'["buf"] = bitmap["buf"] \ F
      /\ obj_free'["ring"] = obj_free["ring"] - 1 /\ obj_free'["buf"] = obj_free["buf"] - descs[i]
  <2> DEFINE S == PoolsOf({}, {r}, F)
  <2>1. S["if"] = {} /\ S["ring"] = {r} /\ S["buf"] = F
    BY PoolsOfIs
  <2> HIDE DEF S
  <2>2. Take(S)
    BY <1>s DEF S
  <2>3. /\ bitmap'["if"] = bitmap["if"] /\ bitmap'["ring"] = bitmap["ring"] \ {r}
        /\ bitmap'["buf"] = bitmap["buf"] \ F
    BY <1>a, <1>b, <2>1, <2>2, TakeIs
  <2>4. obj_free'["ring"] = obj_free["ring"] - Cardinality({r}) /\ obj_free'["buf"] = obj_free["buf"] - Cardinality(F)
    <3>1. \A p \in Pools : obj_free'[p] = obj_free[p] - Cardinality(S[p])
      BY <2>2 DEF Take
    <3>2. obj_free'["ring"] = obj_free["ring"] - Cardinality(S["ring"]) /\ obj_free'["buf"] = obj_free["buf"] - Cardinality(S["buf"])
      BY <1>b, <3>1
    <3> QED
      BY <2>1, <3>2, Zenon
  <2>5. Cardinality({r}) = 1
    BY FS_Singleton
  <2>6. Cardinality(F) = descs[i]
    BY <1>w
  <2>7. obj_free'["ring"] = obj_free["ring"] - 1
    BY <2>4, <2>5
  <2>8. obj_free'["buf"] = obj_free["buf"] - descs[i]
    BY <2>4, <2>6
  <2> QED
    BY <2>3, <2>7, <2>8
<1>c. Counts' /\ bitmap' \in [Pools -> SUBSET Nat] /\ obj_free' \in [Pools -> Nat]
  <2> DEFINE S == PoolsOf({}, {r}, F)
  <2>1. S["if"] = {} /\ S["ring"] = {r} /\ S["buf"] = F
    BY PoolsOfIs
  <2> HIDE DEF S
  <2>2. Take(S)
    BY <1>s DEF S
  <2>3. F \subseteq bitmap["buf"]
    BY <1>w DEF F
  <2>4. \A p \in Pools : S[p] \subseteq bitmap[p]
    BY <1>u, <2>1, <2>3, <1>y DEF Pools
  <2> QED
    BY <1>a, <1>l, <2>2, <2>4, TakeCounts
<1>h. m \in Queues /\ ~HasRing(i, m) /\ ~HasBufs(i, m)
  BY <1>a, <1>d, <1>e, <1>y DEF HasRing, HasBufs, Whole, CallOf
<1>t. Types'
  <2>1. Objs("ring")' = Objs("ring")
    BY <1>l DEF Objs
  <2>2. slot' = [o \in Objs("ring")' |-> slot'[o]]
    BY <1>a, <2>1, <1>e, <1>d, <1>u, <1>v DEF NewRing, Types
  <2>3. alloc' \in Ifs \cup {None} /\ pc' \in [Ifs -> Labels] /\ q' \in [Ifs -> 1 .. NumRings + 2]
    BY <1>a, <1>e, <1>d, <1>u, <1>v, ObjPoolAssumption DEF NewRing, Types, Labels, CallOf, Goto, Return
  <2>4. /\ refs' \in [Ifs -> Nat] /\ difs' \in [Ifs -> SUBSET Nat] /\ dif' \in [Ifs -> Nat]
        /\ seen' \in [Ifs -> (SUBSET Nat) \X Nat]
    BY <1>a, <1>b, <1>e, <1>d, <1>u, <1>v DEF NewRing, Types, fvars, Return
  <2>5. ring' \in [Ifs -> [Queues -> Objs("ring") \cup {0}]]
    BY <1>a, <1>e, <1>d, <1>u, <1>v DEF NewRing, Types
  <2> QED
    BY <1>a, <1>c, <1>l, <2>1, <2>2, <2>3, <2>4, <2>5 DEF Types
<1>k. CallOK' /\ NoStale'
  <2>1. \A j \in Ifs : j # i => CallOf(j)' /\ NoStaleOf(j)'
    BY <1>a, <1>n, <1>l, <1>e, <1>m, OthersCalls DEF Releasing
  <2>2. CallOf(i)'
    BY <1>b, <1>e, <1>m DEF CallOf, Releasing
  <2>3. NoStaleOf(i)'
    <3>1. Obtainable(i) \in Nat /\ Obtainable(i)' \in Nat /\ Obtainable(i) <= Obtainable(i)' + 1
      BY <1>a, <1>d, <1>l, <1>p, <1>t, ObtainableIs, ObtainableLess
    <3>2. ASSUME NEW k \in Queues, ring'[i][k] # 0 PROVE k <= q'[i] + Obtainable(i)'
      <4>1. CASE k = m
        BY <1>e, <1>y, <3>1, <4>1
      <4>2. CASE k # m
        BY <1>a, <1>e, <1>v, <1>y, <3>1, <3>2, <4>2 DEF NoStaleOf, Queues
      <4> QED
        BY <4>1, <4>2
    <3> QED
      BY <1>e, <3>2 DEF NoStaleOf
  <2> QED
    BY <2>1, <2>2, <2>3 DEF CallOK, NoStale
<1>r. RefsOK'
  <2>1. \A j \in Ifs : j # i => RefsOf(j)'
    BY <1>a, <1>l DEF RefsOK, RefsOf, Local
  <2>2. RefsOf(i)'
    BY <1>a, <1>e DEF RefsOf
  <2> QED
    BY <2>1, <2>2 DEF RefsOK
<1>i. IfsOK'
  <2>1. \A j \in Ifs : \A d \in Nat : HasIf(j, d)' <=> HasIf(j, d)
    BY <1>a, <1>o, <1>e DEF HasIf
  <2> QED
    BY <1>a, <1>b, <1>l, <1>p, <2>1, IfKept
<1>q. \A j \in Ifs : \A k \in Queues : HasRing(j, k)' <=> HasRing(j, k) \/ (j = i /\ k = m)
  <2>1. \A k \in Queues : HasRing(i, k)' <=> HasRing(i, k) \/ k = m
    BY <1>a, <1>b, <1>e, <1>y DEF HasRing, Whole, CallOf, Types, Queues
  <2> QED
    BY <1>o, <2>1
<1>x. \A j \in Ifs : \A k \in Queues : HasRing(j, k) => ring'[j][k] = ring[j][k]
  BY <1>h, <1>l, <1>v DEF Local
<1>g. RingsOK'
  <2>1. bitmap["ring"] \subseteq Objs("ring")
    BY <1>a, <1>b DEF Counts
  <2>2. r \in bitmap["ring"]
    BY <1>u, <1>y
  <2> QED
    BY <1>a, <1>d, <1>h, <1>l, <1>p, <1>q, <1>v, <1>x, <2>1, <2>2, RingTaken
<1>f. BufsOK'
  <2>1. \A k \in Queues : HasBufs(i, k)' <=> HasBufs(i, k) \/ k = m
    BY <1>a, <1>b, <1>e, <1>y DEF HasBufs, Whole, CallOf, Types, Queues
  <2>2. \A j \in Ifs : \A k \in Queues : HasBufs(j, k)' <=> HasBufs(j, k) \/ (j = i /\ k = m)
    BY <1>o, <2>1
  <2>3. \A j \in Ifs : \A k \in Queues : HasBufs(j, k)' => HasRing(j, k)'
    BY <1>a, <1>q, <2>2 DEF BufsOK
  <2>4. \A j \in Ifs : \A k \in Queues : HasBufs(j, k) =>
            \A s \in 1 .. descs[j] : Buf(j, k, s)' = Buf(j, k, s)
    <3>1. ASSUME NEW j \in Ifs, NEW k \in Queues, HasBufs(j, k)
          PROVE  slot'[ring'[j][k]] = slot[ring[j][k]]
      <4>1. HasRing(j, k)
        BY <1>a, <3>1 DEF BufsOK
      <4>2. ring[j][k] \in Objs("ring") /\ ring[j][k] # r /\ ring'[j][k] = ring[j][k]
        BY <1>a, <1>u, <1>x, <4>1, <1>y DEF RingsOK
      <4> QED
        BY <1>v, <4>2
    <3> QED
      BY <3>1 DEF Buf
  <2>5. \A s \in 1 .. descs[i] : Buf(i, m, s)' = f[s]
    BY <1>v, <1>e DEF Buf
  <2>6. bitmap["buf"] \subseteq Objs("buf")
    BY <1>a, <1>b DEF Counts
  <2>7. /\ \A s \in 1 .. descs[i] : f[s] \in bitmap["buf"]
        /\ \A s, t \in 1 .. descs[i] : f[s] = f[t] => s = t
    BY <1>w
  <2>8. bitmap'["buf"] = bitmap["buf"] \ {f[s] : s \in 1 .. descs[i]}
    BY <1>p DEF F
  <2> QED
    BY <1>a, <1>d, <1>h, <1>l, <2>2, <2>3, <2>4, <2>5, <2>6, <2>7, <2>8, BufsTaken
<1> QED
  BY <1>c, <1>t, <1>k, <1>r, <1>i, <1>g, <1>f DEF IInv

\* dpa_new_if finds no ring for a queue.
LEMMA NoRingKeeps ==
    ASSUME IInv, NEW i \in Ifs, NoRing(i), ~Races, ~Stale
    PROVE  IInv'
<1>a. /\ Types /\ CallOK /\ NoStale /\ Counts /\ RefsOK /\ IfsOK /\ RingsOK /\ BufsOK
      /\ CallOf(i) /\ NoStaleOf(i) /\ RefsOf(i)
  BY DEF IInv, CallOK, NoStale, RefsOK
<1>b. total["if"] \in Nat /\ descs[i] \in Nat /\ "if" \in Pools /\ "ring" \in Pools /\ "buf" \in Pools
      /\ NumRings \in Nat \ {0}
  BY <1>a, ObjPoolAssumption DEF Types, Pools
<1>n. i # None
  BY ObjPoolAssumption
<1>e. /\ refs' = refs /\ difs' = difs /\ q' = q /\ dif' = dif /\ seen' = seen /\ alloc' = alloc /\ slot' = slot
      /\ bitmap' = bitmap /\ obj_free' = obj_free
      /\ pc[i] = "new" /\ q[i] <= NumRings /\ q[i] \in Nat /\ refs[i] = 0 /\ pc'[i] = "cleanup"
      /\ obj_free["ring"] = 0
  BY <1>a, <1>n DEF NoRing, Types, svars, pvars, fvars, Goto, CallOf
<1>l. Local(i) /\ total' = total /\ descs' = descs
  BY <1>a DEF NoRing, Local, Types, svars, pvars, fvars, Goto, Return
<1>o. \A j \in Ifs : j # i =>
          /\ \A d : HasIf(j, d)' <=> HasIf(j, d)
          /\ \A k : HasRing(j, k)' <=> HasRing(j, k)
          /\ \A k : HasBufs(j, k)' <=> HasBufs(j, k)
          /\ Whole(j)' <=> Whole(j)
  BY <1>l, Others
<1>m. alloc = i /\ \A j \in Ifs : ~Releasing(j) /\ (j # i => pc[j] \notin {"new", "cleanup"})
  BY <1>a, <1>n, <1>e DEF CallOK, CallOf, Releasing
<1>y. PICK m : m = q[i]
  OBVIOUS
<1>z. Obtainable(i) = 0 /\ m \in Queues /\ m = q[i]
  <2>1. obj_free["ring"] \in Nat /\ obj_free["buf"] \in Nat /\ q[i] \in Queues
    BY <1>a, <1>b, <1>e DEF Types, Queues
  <2> QED
    BY <1>a, <1>e, <1>y, <2>1, ObtainableIs
<1>s. \A k \in Queues : k > m => ring[i][k] = 0
  BY <1>a, <1>e, <1>z DEF NoStaleOf, Queues
<1>h. \A k \in Queues : HasRing(i, k) <=> k < m
  BY <1>a, <1>e, <1>z DEF HasRing, Whole, CallOf
<1>x. \A k \in Queues : k < m => ring[i][k] \in Objs("ring") \ bitmap["ring"] /\ ring[i][k] # 0
  BY <1>a, <1>b, <1>h DEF RingsOK, Objs, Types
<1>v. ring'[i][m] = 0 /\ \A k \in Queues : k # m => ring'[i][k] = ring[i][k]
  BY <1>a, <1>z DEF NoRing, Types
<1>c. Counts' /\ bitmap' \in [Pools -> SUBSET Nat] /\ obj_free' \in [Pools -> Nat]
  BY <1>a, <1>e, <1>l DEF Counts, Types, Objs
<1>t. Types'
  <2>1. Objs("ring")' = Objs("ring")
    BY <1>l DEF Objs
  <2>2. slot' = [r \in Objs("ring")' |-> slot'[r]]
    BY <1>a, <2>1, <1>e, <1>z, <1>v DEF NoRing, Types
  <2>3. alloc' \in Ifs \cup {None} /\ pc' \in [Ifs -> Labels] /\ q' \in [Ifs -> 1 .. NumRings + 2]
    BY <1>a, <1>e, <1>z, <1>v, ObjPoolAssumption DEF NoRing, Types, Labels, CallOf, Goto, Return
  <2>4. /\ refs' \in [Ifs -> Nat] /\ difs' \in [Ifs -> SUBSET Nat] /\ dif' \in [Ifs -> Nat]
        /\ seen' \in [Ifs -> (SUBSET Nat) \X Nat]
    BY <1>a, <1>b, <1>e, <1>z, <1>v DEF NoRing, Types, fvars, Return
  <2>5. ring' \in [Ifs -> [Queues -> Objs("ring") \cup {0}]]
    BY <1>a, <1>e, <1>z, <1>v DEF NoRing, Types
  <2> QED
    BY <1>a, <1>c, <1>l, <2>1, <2>2, <2>3, <2>4, <2>5 DEF Types
<1>k. CallOK' /\ NoStale'
  <2>1. \A j \in Ifs : j # i => CallOf(j)' /\ NoStaleOf(j)'
    BY <1>a, <1>n, <1>l, <1>e, <1>m, OthersCalls DEF Releasing
  <2>2. CallOf(i)'
    BY <1>a, <1>b, <1>n, <1>e, <1>m DEF CallOf, Releasing
  <2>3. NoStaleOf(i)'
    BY <1>e, <1>z, <1>s, <1>v DEF NoStaleOf, Queues
  <2> QED
    BY <2>1, <2>2, <2>3 DEF CallOK, NoStale
<1>r. RefsOK'
  <2>1. \A j \in Ifs : j # i => RefsOf(j)'
    BY <1>a, <1>l DEF RefsOK, RefsOf, Local
  <2>2. RefsOf(i)'
    BY <1>a, <1>e DEF RefsOf
  <2> QED
    BY <2>1, <2>2 DEF RefsOK
<1>i. IfsOK'
  <2>1. \A j \in Ifs : \A d \in Nat : HasIf(j, d)' <=> HasIf(j, d)
    BY <1>a, <1>o, <1>e DEF HasIf
  <2> QED
    BY <1>a, <1>b, <1>l, <1>e, <2>1, IfKept
<1>g. RingsOK'
  <2>1. \A k \in Queues : HasRing(i, k)' <=> HasRing(i, k)
    <3>1. ASSUME NEW k \in Queues PROVE ring'[i][k] # 0 <=> k < m
      BY <1>z, <1>s, <1>v, <1>x DEF Queues
    <3> QED
      BY <1>e, <1>h, <3>1 DEF HasRing, Whole
  <2>2. \A j \in Ifs : \A k \in Queues : HasRing(j, k)' <=> HasRing(j, k)
    BY <1>o, <2>1
  <2>3. \A j \in Ifs : \A k \in Queues : HasRing(j, k)' => ring'[j][k] = ring[j][k]
    BY <1>h, <1>v, <1>l, <1>z, <2>2 DEF Local, Queues
  <2> QED
    BY <1>a, <1>l, <1>e, <2>2, <2>3, RingsKept
<1>f. BufsOK'
  <2>1. \A k \in Queues : HasBufs(i, k)' <=> HasBufs(i, k)
    BY <1>a, <1>e DEF HasBufs, Whole
  <2>2. \A j \in Ifs : \A k \in Queues : HasBufs(j, k)' <=> HasBufs(j, k)
    BY <1>o, <2>1
  <2>3. \A k \in Queues : HasBufs(i, k)' => k < m /\ ring'[i][k] = ring[i][k] /\ ring[i][k] # 0
    BY <1>a, <1>e, <1>v, <1>x, <1>z DEF HasBufs, Whole, Queues
  <2>4. \A k \in Queues : HasBufs(i, k)' => HasRing(i, k)'
    BY <1>e, <2>3 DEF HasRing
  <2>5. \A j \in Ifs : \A k \in Queues : HasBufs(j, k)' => HasRing(j, k)'
    BY <1>a, <1>o, <2>2, <2>4 DEF BufsOK
  <2>6. \A j \in Ifs : \A k \in Queues : HasBufs(j, k)' =>
            \A s \in 1 .. descs[j] : Buf(j, k, s)' = Buf(j, k, s)
    BY <1>l, <1>e, <2>2, <2>3 DEF Buf, Local
  <2> QED
    BY <1>a, <1>l, <1>e, <2>2, <2>5, <2>6, BufsKept
<1> QED
  BY <1>c, <1>t, <1>k, <1>r, <1>i, <1>g, <1>f DEF IInv

\* dpa_new_if finds a ring for a queue and too few buffers for its slots.
LEMMA NoBufsKeeps ==
    ASSUME IInv, NEW i \in Ifs, NoBufs(i), ~Races, ~Stale
    PROVE  IInv'
<1>a. /\ Types /\ CallOK /\ NoStale /\ Counts /\ RefsOK /\ IfsOK /\ RingsOK /\ BufsOK
      /\ CallOf(i) /\ NoStaleOf(i) /\ RefsOf(i)
  BY DEF IInv, CallOK, NoStale, RefsOK
<1>b. total["if"] \in Nat /\ descs[i] \in Nat /\ "if" \in Pools /\ "ring" \in Pools /\ "buf" \in Pools
      /\ NumRings \in Nat \ {0}
  BY <1>a, ObjPoolAssumption DEF Types, Pools
<1>n. i # None
  BY ObjPoolAssumption
<1>e. /\ refs' = refs /\ difs' = difs /\ q' = q /\ dif' = dif /\ seen' = seen /\ alloc' = alloc
      /\ pc[i] = "new" /\ q[i] <= NumRings /\ q[i] \in Nat /\ refs[i] = 0 /\ pc'[i] = "cleanup"
      /\ obj_free["ring"] > 0 /\ obj_free["buf"] < descs[i]
  BY <1>a, <1>n DEF NoBufs, Types, svars, fvars, Goto, CallOf
<1>l. Local(i) /\ total' = total /\ descs' = descs
  BY <1>a DEF NoBufs, Local, Types, svars, pvars, fvars, Goto, Return
<1>o. \A j \in Ifs : j # i =>
          /\ \A d : HasIf(j, d)' <=> HasIf(j, d)
          /\ \A k : HasRing(j, k)' <=> HasRing(j, k)
          /\ \A k : HasBufs(j, k)' <=> HasBufs(j, k)
          /\ Whole(j)' <=> Whole(j)
  BY <1>l, Others
<1>m. alloc = i /\ \A j \in Ifs : ~Releasing(j) /\ (j # i => pc[j] \notin {"new", "cleanup"})
  BY <1>a, <1>n, <1>e DEF CallOK, CallOf, Releasing
<1>y. PICK m, r : m = q[i] /\ r = First("ring")
  OBVIOUS
<1>z. Obtainable(i) = 0 /\ m \in Queues /\ m = q[i]
  <2>1. obj_free["ring"] \in Nat /\ obj_free["buf"] \in Nat /\ q[i] \in Queues
    BY <1>a, <1>b, <1>e DEF Types, Queues
  <2> QED
    BY <1>a, <1>e, <1>y, <2>1, ObtainableIs
<1>s. \A k \in Queues : k > m => ring[i][k] = 0
  BY <1>a, <1>e, <1>z DEF NoStaleOf, Queues
<1>h. \A k \in Queues : HasRing(i, k) <=> k < m
  BY <1>a, <1>e, <1>z DEF HasRing, Whole, CallOf
<1>x. \A k \in Queues : k < m => ring[i][k] \in Objs("ring") \ bitmap["ring"] /\ ring[i][k] # 0
  BY <1>a, <1>b, <1>h DEF RingsOK, Objs, Types
<1>u. r \in bitmap["ring"] /\ r \in Objs("ring") /\ r # 0
  <2>1. r \in bitmap["ring"]
    BY <1>a, <1>b, <1>e, <1>y, FirstIs
  <2>2. r \in Objs("ring")
    BY <1>a, <1>b, <2>1 DEF Counts
  <2>3. r # 0
    BY <1>a, <1>b, <2>2 DEF Objs, Types
  <2> QED
    BY <2>1, <2>2, <2>3
<1>v. /\ ring'[i][m] = r /\ \A k \in Queues : k # m => ring'[i][k] = ring[i][k]
      /\ \A x \in Objs("ring") : x # r => slot'[x] = slot[x]
      /\ slot' = [slot EXCEPT ![r] = [s \in 1 .. descs[i] |-> 0]]
  BY <1>a, <1>z, <1>u, <1>y DEF NoBufs, Types
<1>p. /\ bitmap'["if"] = bitmap["if"] /\ bitmap'["ring"] = bitmap["ring"] \ {r}
      /\ bitmap'["buf"] = bitmap["buf"]
  <2> DEFINE S == PoolsOf({}, {r}, {})
  <2>1. S["if"] = {} /\ S["ring"] = {r} /\ S["buf"] = {}
    BY PoolsOfIs
  <2>2. Take(S)
    BY <1>y DEF NoBufs
  <2> HIDE DEF S
  <2> QED
    BY <1>a, <1>b, <2>1, <2>2, TakeIs
<1>c. Counts' /\ bitmap' \in [Pools -> SUBSET Nat] /\ obj_free' \in [Pools -> Nat]
  <2> DEFINE S == PoolsOf({}, {r}, {})
  <2>1. S["if"] = {} /\ S["ring"] = {r} /\ S["buf"] = {}
    BY PoolsOfIs
  <2>2. Take(S)
    BY <1>y DEF NoBufs
  <2> HIDE DEF S
  <2>3. \A p \in Pools : S[p] \subseteq bitmap[p]
    BY <1>u, <2>1 DEF Pools
  <2> QED
    BY <1>a, <1>l, <2>2, <2>3, TakeCounts
<1>t. Types'
  <2>1. Objs("ring")' = Objs("ring")
    BY <1>l DEF Objs
  <2>2. slot' = [o \in Objs("ring")' |-> slot'[o]]
    BY <1>a, <2>1, <1>e, <1>z, <1>u, <1>v, <1>y DEF NoBufs, Types
  <2>3. alloc' \in Ifs \cup {None} /\ pc' \in [Ifs -> Labels] /\ q' \in [Ifs -> 1 .. NumRings + 2]
    BY <1>a, <1>e, <1>z, <1>u, <1>v, <1>y, ObjPoolAssumption DEF NoBufs, Types, Labels, CallOf, Goto, Return
  <2>4. /\ refs' \in [Ifs -> Nat] /\ difs' \in [Ifs -> SUBSET Nat] /\ dif' \in [Ifs -> Nat]
        /\ seen' \in [Ifs -> (SUBSET Nat) \X Nat]
    BY <1>a, <1>b, <1>e, <1>z, <1>u, <1>v, <1>y DEF NoBufs, Types, fvars, Return
  <2>5. ring' \in [Ifs -> [Queues -> Objs("ring") \cup {0}]]
    BY <1>a, <1>e, <1>z, <1>u, <1>v, <1>y DEF NoBufs, Types
  <2> QED
    BY <1>a, <1>c, <1>l, <2>1, <2>2, <2>3, <2>4, <2>5 DEF Types
<1>k. CallOK' /\ NoStale'
  <2>1. \A j \in Ifs : j # i => CallOf(j)' /\ NoStaleOf(j)'
    BY <1>a, <1>n, <1>l, <1>e, <1>m, OthersCalls DEF Releasing
  <2>2. CallOf(i)'
    BY <1>a, <1>b, <1>n, <1>e, <1>m DEF CallOf, Releasing
  <2>3. NoStaleOf(i)'
    BY <1>e, <1>z, <1>s, <1>v DEF NoStaleOf, Queues
  <2> QED
    BY <2>1, <2>2, <2>3 DEF CallOK, NoStale
<1>r. RefsOK'
  <2>1. \A j \in Ifs : j # i => RefsOf(j)'
    BY <1>a, <1>l DEF RefsOK, RefsOf, Local
  <2>2. RefsOf(i)'
    BY <1>a, <1>e DEF RefsOf
  <2> QED
    BY <2>1, <2>2 DEF RefsOK
<1>i. IfsOK'
  <2>1. \A j \in Ifs : \A d \in Nat : HasIf(j, d)' <=> HasIf(j, d)
    BY <1>a, <1>o, <1>e DEF HasIf
  <2> QED
    BY <1>a, <1>b, <1>l, <1>p, <2>1, IfKept
<1>q. \A j \in Ifs : \A k \in Queues : HasRing(j, k)' <=> HasRing(j, k) \/ (j = i /\ k = m)
  <2>1. ASSUME NEW k \in Queues PROVE ring'[i][k] # 0 <=> k < m \/ k = m
    BY <1>z, <1>s, <1>u, <1>v, <1>x DEF Queues
  <2>2. ASSUME NEW k \in Queues PROVE HasRing(i, k)' <=> HasRing(i, k) \/ k = m
    BY <1>e, <1>h, <2>1 DEF HasRing, Whole
  <2> QED
    BY <1>o, <2>2
<1>w. \A j \in Ifs : \A k \in Queues : HasRing(j, k) => ring'[j][k] = ring[j][k]
  BY <1>h, <1>v, <1>l, <1>z DEF Local, Queues
<1>g. RingsOK'
  <2>1. bitmap["ring"] \subseteq Objs("ring") /\ ~HasRing(i, m)
    BY <1>a, <1>b, <1>h, <1>z DEF Counts, Queues
  <2> QED
    BY <1>a, <1>l, <1>p, <1>q, <1>u, <1>v, <1>w, <1>z, <2>1, RingTaken
<1>f. BufsOK'
  <2>1. \A k \in Queues : HasBufs(i, k)' <=> HasBufs(i, k)
    BY <1>a, <1>e DEF HasBufs, Whole
  <2>2. \A j \in Ifs : \A k \in Queues : HasBufs(j, k)' <=> HasBufs(j, k)
    BY <1>o, <2>1
  <2>3. \A j \in Ifs : \A k \in Queues : HasBufs(j, k)' => HasRing(j, k)'
    BY <1>a, <1>q, <2>2 DEF BufsOK
  <2>4. \A j \in Ifs : \A k \in Queues : HasBufs(j, k)' =>
            \A s \in 1 .. descs[j] : Buf(j, k, s)' = Buf(j, k, s)
    <3>1. ASSUME NEW j \in Ifs, NEW k \in Queues, HasBufs(j, k)
          PROVE  slot'[ring'[j][k]] = slot[ring[j][k]]
      <4>1. HasRing(j, k)
        BY <1>a, <3>1 DEF BufsOK
      <4>2. ring[j][k] \in Objs("ring") /\ ring[j][k] # r /\ ring'[j][k] = ring[j][k]
        BY <1>a, <1>u, <1>w, <4>1 DEF RingsOK
      <4> QED
        BY <1>v, <4>2
    <3> QED
      BY <2>2, <3>1 DEF Buf
  <2> QED
    BY <1>a, <1>l, <1>p, <2>2, <2>3, <2>4, BufsKept
<1> QED
  BY <1>c, <1>t, <1>k, <1>r, <1>i, <1>g, <1>f DEF IInv

\* dpa_new_if gives back what it has taken, at whichever queue it failed.
LEMMA NewIfFailsKeeps ==
    ASSUME IInv, NEW i \in Ifs, NewIfFails(i), ~Races, ~Stale
    PROVE  IInv'
<1>a. /\ Types /\ CallOK /\ NoStale /\ Counts /\ RefsOK /\ IfsOK /\ RingsOK /\ BufsOK
      /\ CallOf(i) /\ NoStaleOf(i) /\ RefsOf(i)
  BY DEF IInv, CallOK, NoStale, RefsOK
<1>b. total["if"] \in Nat /\ descs[i] \in Nat /\ "if" \in Pools /\ "ring" \in Pools /\ "buf" \in Pools
      /\ NumRings \in Nat \ {0}
  BY <1>a, ObjPoolAssumption DEF Types, Pools
<1>n. i # None
  BY ObjPoolAssumption
<1>e. /\ refs' = refs /\ difs' = difs /\ seen' = seen /\ slot' = slot /\ ring' = ring
      /\ pc[i] = "cleanup" /\ q[i] <= NumRings /\ q[i] \in Nat /\ refs[i] = 0
      /\ pc'[i] = "idle" /\ q'[i] = 1 /\ dif'[i] = 0 /\ alloc' = None
  BY <1>a, <1>n DEF NewIfFails, Types, svars, fvars, Goto, Return, CallOf
<1>l. Local(i) /\ total' = total /\ descs' = descs
  BY <1>a DEF NewIfFails, Local, Types, svars, pvars, fvars, Goto, Return
<1>o. \A j \in Ifs : j # i =>
          /\ \A d : HasIf(j, d)' <=> HasIf(j, d)
          /\ \A k : HasRing(j, k)' <=> HasRing(j, k)
          /\ \A k : HasBufs(j, k)' <=> HasBufs(j, k)
          /\ Whole(j)' <=> Whole(j)
  BY <1>l, Others
<1>m. alloc = i /\ \A j \in Ifs : ~Releasing(j) /\ (j # i => pc[j] \notin {"new", "cleanup"})
  BY <1>a, <1>n, <1>e DEF CallOK, CallOf, Releasing
<1> DEFINE K == {k \in Queues : k < q[i]}
           R == RingsOf(i, Pointers(i))
           B == BufsOf(i, K)
<1>h. /\ \A k \in Queues : HasRing(i, k) <=> k \in Pointers(i)
      /\ \A k \in Queues : HasBufs(i, k) <=> k \in K
      /\ K \in SUBSET Queues /\ Pointers(i) \in SUBSET Queues
  BY <1>a, <1>e DEF HasRing, HasBufs, Whole, Pointers
<1>u. dif[i] \in Nat /\ HasIf(i, dif[i]) /\ dif[i] \in Objs("if") \ bitmap["if"]
  BY <1>a, <1>e DEF HasIf, IfsOK, Types
<1>v. R \subseteq Objs("ring") \ bitmap["ring"] /\ Cardinality(Pointers(i)) = Cardinality(R)
  BY <1>a, <1>h, GivenRings
<1>w. /\ B \subseteq Objs("buf") \ bitmap["buf"]
      /\ \A b : b \in B <=> \E k \in K : \E s \in 1 .. descs[i] : b = Buf(i, k, s)
      /\ Cardinality(Places(i, K)) = Cardinality(B)
  BY <1>a, <1>h, GivenBufs
<1> DEFINE S == PoolsOf({dif[i]}, R, B)
           N == PoolsOf(1, Cardinality(Pointers(i)), Cardinality(Places(i, K)))
<1>s. Put(S, N)
  BY DEF NewIfFails, Cleanup
<1>x. R = {ring[i][k] : k \in Pointers(i)}
  BY DEF RingsOf
<1>y. S["if"] = {dif[i]} /\ S["ring"] = R /\ S["buf"] = B
  BY PoolsOfIs
<1>z. N["if"] = 1 /\ N["ring"] = Cardinality(Pointers(i)) /\ N["buf"] = Cardinality(Places(i, K))
  BY PoolsOfIs
<1> HIDE DEF K, R, B, S, N
<1>p. /\ bitmap'["if"] = bitmap["if"] \cup {dif[i]} /\ bitmap'["ring"] = bitmap["ring"] \cup R
      /\ bitmap'["buf"] = bitmap["buf"] \cup B
  BY <1>a, <1>b, <1>s, <1>y, PutIs
<1>c. Counts' /\ bitmap' \in [Pools -> SUBSET Nat] /\ obj_free' \in [Pools -> Nat]
  <2>1. S["if"] \subseteq Objs("if") \ bitmap["if"] /\ N["if"] = Cardinality(S["if"])
    BY <1>u, <1>y, <1>z, FS_Singleton
  <2>2. S["ring"] \subseteq Objs("ring") \ bitmap["ring"] /\ N["ring"] = Cardinality(S["ring"])
    BY <1>v, <1>y, <1>z
  <2>3. S["buf"] \subseteq Objs("buf") \ bitmap["buf"] /\ N["buf"] = Cardinality(S["buf"])
    BY <1>w, <1>y, <1>z
  <2>4. \A p \in Pools : S[p] \subseteq Objs(p) \ bitmap[p] /\ N[p] = Cardinality(S[p])
    BY <2>1, <2>2, <2>3 DEF Pools
  <2> QED
    BY <1>a, <1>l, <1>s, <2>4, PutCounts
<1>t. Types'
  <2>1. Objs("ring")' = Objs("ring")
    BY <1>l DEF Objs
  <2>2. slot' = [r \in Objs("ring")' |-> slot'[r]]
    BY <1>a, <2>1, <1>e, <1>b DEF NewIfFails, Types
  <2>3. alloc' \in Ifs \cup {None} /\ pc' \in [Ifs -> Labels] /\ q' \in [Ifs -> 1 .. NumRings + 2]
    BY <1>a, <1>e, <1>b, ObjPoolAssumption DEF NewIfFails, Types, Labels, CallOf, Goto, Return
  <2>4. /\ refs' \in [Ifs -> Nat] /\ difs' \in [Ifs -> SUBSET Nat] /\ dif' \in [Ifs -> Nat]
        /\ seen' \in [Ifs -> (SUBSET Nat) \X Nat]
    BY <1>a, <1>b, <1>e, <1>b DEF NewIfFails, Types, fvars, Return
  <2>5. ring' \in [Ifs -> [Queues -> Objs("ring") \cup {0}]]
    BY <1>a, <1>e, <1>b DEF NewIfFails, Types
  <2> QED
    BY <1>a, <1>c, <1>l, <2>1, <2>2, <2>3, <2>4, <2>5 DEF Types
<1>k. CallOK' /\ NoStale'
  <2>1. \A j \in Ifs : j # i => CallOf(j)' /\ NoStaleOf(j)'
    BY <1>a, <1>n, <1>l, <1>e, <1>m, OthersCalls DEF Releasing
  <2>2. CallOf(i)'
    <3>1. \A j \in Ifs : ~Releasing(j)'
      BY <1>l, <1>e, <1>m DEF Releasing, Local
    <3> QED
      BY <1>n, <1>e, <3>1 DEF CallOf
  <2>3. NoStaleOf(i)'
    BY <1>e DEF NoStaleOf
  <2> QED
    BY <2>1, <2>2, <2>3 DEF CallOK, NoStale
<1>r. RefsOK'
  <2>1. \A j \in Ifs : j # i => RefsOf(j)'
    BY <1>a, <1>l DEF RefsOK, RefsOf, Local
  <2>2. RefsOf(i)'
    BY <1>a, <1>e DEF RefsOf
  <2> QED
    BY <2>1, <2>2 DEF RefsOK
<1>i. IfsOK'
  <2>1. \A d \in Nat : HasIf(i, d)' <=> HasIf(i, d) /\ d \notin {dif[i]}
    BY <1>a, <1>e DEF HasIf, RefsOf
  <2>2. \A j \in Ifs : \A d \in Nat : HasIf(j, d)' <=> HasIf(j, d) /\ ~(j = i /\ d \in {dif[i]})
    BY <1>o, <2>1
  <2>3. {dif[i]} \in SUBSET Nat /\ \A d \in {dif[i]} : HasIf(i, d)
    BY <1>u
  <2> QED
    BY <1>a, <1>b, <1>l, <1>p, <2>2, <2>3, IfGiven
<1>g. RingsOK'
  <2>1. \A k \in Queues : HasRing(i, k)' <=> HasRing(i, k) /\ k \notin Pointers(i)
    BY <1>e, <1>h DEF HasRing, Whole
  <2>2. \A j \in Ifs : \A k \in Queues : HasRing(j, k)' <=> HasRing(j, k) /\ ~(j = i /\ k \in Pointers(i))
    BY <1>o, <2>1
  <2>3. \A k \in Pointers(i) : HasRing(i, k)
    BY <1>h
  <2>4. \A j \in Ifs : \A k \in Queues : HasRing(j, k)' => ring'[j][k] = ring[j][k]
    BY <1>e
  <2>5. bitmap'["ring"] = bitmap["ring"] \cup {ring[i][k] : k \in Pointers(i)}
    BY <1>p, <1>x
  <2> QED
    BY <1>a, <1>h, <1>l, <2>2, <2>3, <2>4, <2>5, RingsGiven
<1>f. BufsOK'
  <2>1. \A k \in Queues : HasBufs(i, k)' <=> HasBufs(i, k) /\ k \notin K
    BY <1>e, <1>h DEF HasBufs, Whole
  <2>2. \A j \in Ifs : \A k \in Queues : HasBufs(j, k)' <=> HasBufs(j, k) /\ ~(j = i /\ k \in K)
    BY <1>o, <2>1
  <2>3. \A k \in K : HasBufs(i, k)
    BY <1>h
  <2>4. \A k \in Queues : ~HasBufs(i, k)'
    BY <1>h, <2>1
  <2>5. \A j \in Ifs : \A k \in Queues : HasBufs(j, k)' => HasRing(j, k)'
    BY <1>a, <1>o, <2>2, <2>4 DEF BufsOK
  <2>6. \A j \in Ifs : \A k \in Queues : HasBufs(j, k)' =>
            \A s \in 1 .. descs[j] : Buf(j, k, s)' = Buf(j, k, s)
    BY <1>e DEF Buf
  <2>7. \A b : b \in bitmap'["buf"] <=>
            b \in bitmap["buf"] \/ \E k \in K : \E s \in 1 .. descs[i] : b = Buf(i, k, s)
    BY <1>p, <1>w
  <2> QED
    BY <1>a, <1>h, <1>l, <2>2, <2>3, <2>5, <2>6, <2>7, BufsGiven
<1> QED
  BY <1>c, <1>t, <1>k, <1>r, <1>i, <1>g, <1>f DEF IInv

\* dpa_new_if has a ring for each queue.
LEMMA NewIfDoneKeeps ==
    ASSUME IInv, NEW i \in Ifs, NewIfDone(i), ~Races, ~Stale
    PROVE  IInv'
<1>a. /\ Types /\ CallOK /\ NoStale /\ Counts /\ RefsOK /\ IfsOK /\ RingsOK /\ BufsOK
      /\ CallOf(i) /\ NoStaleOf(i) /\ RefsOf(i)
  BY DEF IInv, CallOK, NoStale, RefsOK
<1>b. total["if"] \in Nat /\ descs[i] \in Nat /\ "if" \in Pools /\ "ring" \in Pools /\ "buf" \in Pools
      /\ NumRings \in Nat \ {0}
  BY <1>a, ObjPoolAssumption DEF Types, Pools
<1>n. i # None
  BY ObjPoolAssumption
<1>e. /\ seen' = seen /\ slot' = slot /\ ring' = ring /\ bitmap' = bitmap /\ obj_free' = obj_free
      /\ pc[i] = "new" /\ q[i] > NumRings /\ q[i] \in Nat /\ refs[i] = 0
      /\ pc'[i] = "idle" /\ q'[i] = 1 /\ dif'[i] = 0 /\ alloc' = None
      /\ refs'[i] = 1 /\ difs'[i] = {dif[i]}
  BY <1>a, <1>n DEF NewIfDone, Types, svars, pvars, Goto, Return, CallOf
<1>l. Local(i) /\ total' = total /\ descs' = descs
  BY <1>a DEF NewIfDone, Local, Types, svars, pvars, fvars, Goto, Return
<1>o. \A j \in Ifs : j # i =>
          /\ \A d : HasIf(j, d)' <=> HasIf(j, d)
          /\ \A k : HasRing(j, k)' <=> HasRing(j, k)
          /\ \A k : HasBufs(j, k)' <=> HasBufs(j, k)
          /\ Whole(j)' <=> Whole(j)
  BY <1>l, Others
<1>m. alloc = i /\ \A j \in Ifs : ~Releasing(j) /\ (j # i => pc[j] \notin {"new", "cleanup"})
  BY <1>a, <1>n, <1>e DEF CallOK, CallOf, Releasing
<1>h. difs[i] = {}
  BY <1>a, <1>e, DifsFinite, FS_EmptySet DEF RefsOf
<1>c. Counts' /\ bitmap' \in [Pools -> SUBSET Nat] /\ obj_free' \in [Pools -> Nat]
  BY <1>a, <1>e, <1>l DEF Counts, Types, Objs
<1>t. Types'
  <2>1. Objs("ring")' = Objs("ring")
    BY <1>l DEF Objs
  <2>2. slot' = [r \in Objs("ring")' |-> slot'[r]]
    BY <1>a, <2>1, <1>e, <1>b DEF NewIfDone, Types
  <2>3. alloc' \in Ifs \cup {None} /\ pc' \in [Ifs -> Labels] /\ q' \in [Ifs -> 1 .. NumRings + 2]
    BY <1>a, <1>e, <1>b, ObjPoolAssumption DEF NewIfDone, Types, Labels, CallOf, Goto, Return
  <2>4. /\ refs' \in [Ifs -> Nat] /\ difs' \in [Ifs -> SUBSET Nat] /\ dif' \in [Ifs -> Nat]
        /\ seen' \in [Ifs -> (SUBSET Nat) \X Nat]
    BY <1>a, <1>b, <1>e, <1>b DEF NewIfDone, Types, fvars, Return
  <2>5. ring' \in [Ifs -> [Queues -> Objs("ring") \cup {0}]]
    BY <1>a, <1>e, <1>b DEF NewIfDone, Types
  <2> QED
    BY <1>a, <1>c, <1>l, <2>1, <2>2, <2>3, <2>4, <2>5 DEF Types
<1>k. CallOK' /\ NoStale'
  <2>1. \A j \in Ifs : j # i => CallOf(j)' /\ NoStaleOf(j)'
    BY <1>a, <1>n, <1>l, <1>e, <1>m, OthersCalls DEF Releasing
  <2>2. CallOf(i)'
    <3>1. \A j \in Ifs : ~Releasing(j)'
      BY <1>l, <1>e, <1>m DEF Releasing, Local
    <3> QED
      BY <1>n, <1>e, <3>1 DEF CallOf
  <2>3. NoStaleOf(i)'
    BY <1>e DEF NoStaleOf
  <2> QED
    BY <2>1, <2>2, <2>3 DEF CallOK, NoStale
<1>r. RefsOK'
  <2>1. \A j \in Ifs : j # i => RefsOf(j)'
    BY <1>a, <1>l DEF RefsOK, RefsOf, Local
  <2>2. RefsOf(i)'
    BY <1>e, FS_Singleton DEF RefsOf
  <2> QED
    BY <2>1, <2>2 DEF RefsOK
<1>i. IfsOK'
  <2>1. \A d \in Nat : HasIf(i, d)' <=> HasIf(i, d)
    BY <1>e, <1>h DEF HasIf
  <2>2. \A j \in Ifs : \A d \in Nat : HasIf(j, d)' <=> HasIf(j, d)
    BY <1>o, <2>1
  <2> QED
    BY <1>a, <1>b, <1>l, <1>e, <2>2, IfKept
<1>g. RingsOK'
  <2>1. \A k \in Queues : HasRing(i, k)' <=> HasRing(i, k)
    BY <1>b, <1>e DEF HasRing, Whole, Queues
  <2>2. \A j \in Ifs : \A k \in Queues : HasRing(j, k)' <=> HasRing(j, k)
    BY <1>o, <2>1
  <2>3. \A j \in Ifs : \A k \in Queues : HasRing(j, k)' => ring'[j][k] = ring[j][k]
    BY <1>l, <1>e, <2>2 DEF Local
  <2> QED
    BY <1>a, <1>l, <1>e, <2>2, <2>3, RingsKept
<1>f. BufsOK'
  <2>1. \A k \in Queues : HasBufs(i, k)' <=> HasBufs(i, k)
    BY <1>b, <1>e DEF HasBufs, Whole, Queues
  <2>2. \A j \in Ifs : \A k \in Queues : HasBufs(j, k)' <=> HasBufs(j, k)
    BY <1>o, <2>1
  <2>3. \A k \in Queues : HasBufs(i, k)' => HasRing(i, k)'
    BY <1>a, <1>e, <2>1 DEF BufsOK, HasBufs, HasRing, Whole, CallOf, Types
  <2>4. \A j \in Ifs : \A k \in Queues : HasBufs(j, k)' => HasRing(j, k)'
    BY <1>a, <1>o, <2>2, <2>3 DEF BufsOK
  <2>5. \A j \in Ifs : \A k \in Queues : HasBufs(j, k)' =>
            \A s \in 1 .. descs[j] : Buf(j, k, s)' = Buf(j, k, s)
    BY <1>l, <1>e, <2>2 DEF Buf, Local
  <2> QED
    BY <1>a, <1>l, <1>e, <2>2, <2>4, <2>5, BufsKept
<1> QED
  BY <1>c, <1>t, <1>k, <1>r, <1>i, <1>g, <1>f DEF IInv

\* A file is taken out of the interface; with the last one what it has is to be given back.
LEMMA UnregBeginKeeps ==
    ASSUME IInv, NEW i \in Ifs, UnregBegin(i), ~Races, ~Stale
    PROVE  IInv'
<1>a. /\ Types /\ CallOK /\ NoStale /\ Counts /\ RefsOK /\ IfsOK /\ RingsOK /\ BufsOK
      /\ CallOf(i) /\ NoStaleOf(i) /\ RefsOf(i)
  BY DEF IInv, CallOK, NoStale, RefsOK
<1>b. total["if"] \in Nat /\ descs[i] \in Nat /\ "if" \in Pools /\ "ring" \in Pools /\ "buf" \in Pools
      /\ NumRings \in Nat \ {0}
  BY <1>a, ObjPoolAssumption DEF Types, Pools
<1>n. i # None
  BY ObjPoolAssumption
<1>d. PICK d \in difs[i] :
         /\ refs' = [refs EXCEPT ![i] = @ - 1] /\ difs' = [difs EXCEPT ![i] = @ \ {d}]
         /\ dif' = [dif EXCEPT ![i] = d]
  BY DEF UnregBegin
<1>u. refs[i] \in Nat /\ refs[i] > 0 /\ d \in Nat /\ IsFiniteSet(difs[i])
  <2>1. IsFiniteSet(difs[i]) /\ difs[i] # {} /\ refs[i] = Cardinality(difs[i])
    BY <1>a, <1>d, DifsFinite DEF RefsOf
  <2>2. refs[i] # 0 /\ refs[i] \in Nat
    BY <1>a, <2>1, FS_EmptySet DEF Types
  <2> QED
    BY <1>a, <1>d, <2>1, <2>2 DEF Types
<1>e. /\ q' = q /\ seen' = seen /\ slot' = slot /\ ring' = ring /\ bitmap' = bitmap /\ obj_free' = obj_free
      /\ alloc' = alloc /\ pc[i] = "idle" /\ q[i] = 1 /\ refs[i] > 0
      /\ refs'[i] = refs[i] - 1 /\ difs'[i] = difs[i] \ {d} /\ dif'[i] = d
      /\ pc'[i] = IF refs[i] <= 1 THEN "bufs" ELSE "freeif"
      /\ refs' = [refs EXCEPT ![i] = refs[i] - 1]
  BY <1>a, <1>n, <1>d, <1>u DEF UnregBegin, Types, svars, pvars, Goto, Last, CallOf
<1>l. Local(i) /\ total' = total /\ descs' = descs
  BY <1>a DEF UnregBegin, Local, Types, svars, pvars, fvars, Goto, Return
<1>o. \A j \in Ifs : j # i =>
          /\ \A o : HasIf(j, o)' <=> HasIf(j, o)
          /\ \A k : HasRing(j, k)' <=> HasRing(j, k)
          /\ \A k : HasBufs(j, k)' <=> HasBufs(j, k)
          /\ Whole(j)' <=> Whole(j)
  BY <1>l, Others
<1>c. Counts' /\ bitmap' \in [Pools -> SUBSET Nat] /\ obj_free' \in [Pools -> Nat]
  BY <1>a, <1>e, <1>l DEF Counts, Types, Objs
<1>t. Types'
  <2>1. Objs("ring")' = Objs("ring")
    BY <1>l DEF Objs
  <2>2. slot' = [r \in Objs("ring")' |-> slot'[r]]
    BY <1>a, <2>1, <1>e, <1>d, <1>u DEF UnregBegin, Types
  <2>3. alloc' \in Ifs \cup {None} /\ pc' \in [Ifs -> Labels] /\ q' \in [Ifs -> 1 .. NumRings + 2]
    BY <1>a, <1>e, <1>d, <1>u, ObjPoolAssumption DEF UnregBegin, Types, Labels, CallOf, Goto, Return
  <2>4. /\ refs' \in [Ifs -> Nat] /\ difs' \in [Ifs -> SUBSET Nat] /\ dif' \in [Ifs -> Nat]
        /\ seen' \in [Ifs -> (SUBSET Nat) \X Nat]
    BY <1>a, <1>b, <1>e, <1>d, <1>u DEF UnregBegin, Types, fvars, Return
  <2>5. ring' \in [Ifs -> [Queues -> Objs("ring") \cup {0}]]
    BY <1>a, <1>e, <1>d, <1>u DEF UnregBegin, Types
  <2> QED
    BY <1>a, <1>c, <1>l, <2>1, <2>2, <2>3, <2>4, <2>5 DEF Types
<1>k. CallOK' /\ NoStale'
  <2>1. \A j \in Ifs : j # i => CallOf(j)' /\ NoStaleOf(j)'
    BY <1>a, <1>n, <1>l, <1>e, OthersCalls DEF Releasing
  <2>2. CallOf(i)'
    BY <1>a, <1>n, <1>e, <1>u DEF CallOf, Releasing
  <2>3. NoStaleOf(i)'
    BY <1>e DEF NoStaleOf
  <2> QED
    BY <2>1, <2>2, <2>3 DEF CallOK, NoStale
<1>r. RefsOK'
  <2>1. \A j \in Ifs : j # i => RefsOf(j)'
    BY <1>a, <1>l DEF RefsOK, RefsOf, Local
  <2>2. RefsOf(i)'
    BY <1>a, <1>d, <1>e, <1>u, FS_RemoveElement DEF RefsOf
  <2> QED
    BY <2>1, <2>2 DEF RefsOK
<1>i. IfsOK'
  <2>1. \A x \in Nat : HasIf(i, x)' <=> HasIf(i, x)
    BY <1>d, <1>e DEF HasIf
  <2>2. \A j \in Ifs : \A x \in Nat : HasIf(j, x)' <=> HasIf(j, x)
    BY <1>o, <2>1
  <2> QED
    BY <1>a, <1>b, <1>l, <1>e, <2>2, IfKept
<1>g. RingsOK'
  <2>1. \A k \in Queues : HasRing(i, k)' <=> HasRing(i, k)
    BY <1>u, <1>e DEF HasRing, Whole
  <2>2. \A j \in Ifs : \A k \in Queues : HasRing(j, k)' <=> HasRing(j, k)
    BY <1>o, <2>1
  <2>3. \A j \in Ifs : \A k \in Queues : HasRing(j, k)' => ring'[j][k] = ring[j][k]
    BY <1>l, <1>e, <2>2 DEF Local
  <2> QED
    BY <1>a, <1>l, <1>e, <2>2, <2>3, RingsKept
<1>f. BufsOK'
  <2>1. \A k \in Queues : HasBufs(i, k)' <=> HasBufs(i, k)
    BY <1>u, <1>e DEF HasBufs, Whole
  <2>2. \A j \in Ifs : \A k \in Queues : HasBufs(j, k)' <=> HasBufs(j, k)
    BY <1>o, <2>1
  <2>3. \A k \in Queues : HasBufs(i, k)' => HasRing(i, k)'
    BY <1>a, <1>e, <2>1 DEF BufsOK, HasBufs, HasRing, Whole, CallOf, Types
  <2>4. \A j \in Ifs : \A k \in Queues : HasBufs(j, k)' => HasRing(j, k)'
    BY <1>a, <1>o, <2>2, <2>3 DEF BufsOK
  <2>5. \A j \in Ifs : \A k \in Queues : HasBufs(j, k)' =>
            \A s \in 1 .. descs[j] : Buf(j, k, s)' = Buf(j, k, s)
    BY <1>l, <1>e, <2>2 DEF Buf, Local
  <2> QED
    BY <1>a, <1>l, <1>e, <2>2, <2>4, <2>5, BufsKept
<1> QED
  BY <1>c, <1>t, <1>k, <1>r, <1>i, <1>g, <1>f DEF IInv

\* The destructor gives back the buffers under the lock.
LEMMA UnregBufsKeeps ==
    ASSUME IInv, NEW i \in Ifs, UnregBufs(i), ~Races, ~Stale
    PROVE  IInv'
<1>a. /\ Types /\ CallOK /\ NoStale /\ Counts /\ RefsOK /\ IfsOK /\ RingsOK /\ BufsOK
      /\ CallOf(i) /\ NoStaleOf(i) /\ RefsOf(i)
  BY DEF IInv, CallOK, NoStale, RefsOK
<1>b. total["if"] \in Nat /\ descs[i] \in Nat /\ "if" \in Pools /\ "ring" \in Pools /\ "buf" \in Pools
      /\ NumRings \in Nat \ {0}
  BY <1>a, ObjPoolAssumption DEF Types, Pools
<1>n. i # None
  BY ObjPoolAssumption
<1>e. /\ refs' = refs /\ difs' = difs /\ dif' = dif /\ q' = q /\ seen' = seen /\ slot' = slot /\ ring' = ring
      /\ alloc' = alloc /\ pc[i] = "bufs" /\ q[i] = 1 /\ refs[i] = 0 /\ pc'[i] = "freering"
  BY <1>a, <1>n DEF UnregBufs, Types, svars, fvars, Goto, CallOf
<1>l. Local(i) /\ total' = total /\ descs' = descs
  BY <1>a DEF UnregBufs, Local, Types, svars, pvars, fvars, Goto, Return
<1>o. \A j \in Ifs : j # i =>
          /\ \A d : HasIf(j, d)' <=> HasIf(j, d)
          /\ \A k : HasRing(j, k)' <=> HasRing(j, k)
          /\ \A k : HasBufs(j, k)' <=> HasBufs(j, k)
          /\ Whole(j)' <=> Whole(j)
  BY <1>l, Others
<1>m. alloc = None /\ \A j \in Ifs : ~Releasing(j) /\ pc[j] \notin {"new", "cleanup"}
  BY <1>a, <1>e, ObjPoolAssumption DEF CallOK, CallOf, UnregBufs, Free
<1> DEFINE B == BufsOf(i, Queues)
<1>h. \A k \in Queues : HasBufs(i, k) /\ HasRing(i, k)
  BY <1>e DEF HasBufs, HasRing, Whole
<1>w. /\ B \subseteq Objs("buf") \ bitmap["buf"]
      /\ \A b : b \in B <=> \E k \in Queues : \E s \in 1 .. descs[i] : b = Buf(i, k, s)
      /\ Cardinality(Places(i, Queues)) = Cardinality(B)
  BY <1>a, <1>h, GivenBufs
<1> DEFINE S == PoolsOf({}, {}, B)
           N == PoolsOf(0, 0, Cardinality(Places(i, Queues)))
<1>s. Put(S, N)
  BY DEF UnregBufs
<1>y. S["if"] = {} /\ S["ring"] = {} /\ S["buf"] = B
  BY PoolsOfIs
<1>z. N["if"] = 0 /\ N["ring"] = 0 /\ N["buf"] = Cardinality(Places(i, Queues))
  BY PoolsOfIs
<1> HIDE DEF B, S, N
<1>p. /\ bitmap'["if"] = bitmap["if"] /\ bitmap'["ring"] = bitmap["ring"]
      /\ bitmap'["buf"] = bitmap["buf"] \cup B
  BY <1>a, <1>b, <1>s, <1>y, PutIs
<1>c. Counts' /\ bitmap' \in [Pools -> SUBSET Nat] /\ obj_free' \in [Pools -> Nat]
  <2>1. S["if"] \subseteq Objs("if") \ bitmap["if"] /\ N["if"] = Cardinality(S["if"])
    BY <1>y, <1>z, FS_EmptySet
  <2>2. S["ring"] \subseteq Objs("ring") \ bitmap["ring"] /\ N["ring"] = Cardinality(S["ring"])
    BY <1>y, <1>z, FS_EmptySet
  <2>3. S["buf"] \subseteq Objs("buf") \ bitmap["buf"] /\ N["buf"] = Cardinality(S["buf"])
    BY <1>w, <1>y, <1>z
  <2>4. \A p \in Pools : S[p] \subseteq Objs(p) \ bitmap[p] /\ N[p] = Cardinality(S[p])
    BY <2>1, <2>2, <2>3 DEF Pools
  <2> QED
    BY <1>a, <1>l, <1>s, <2>4, PutCounts
<1>t. Types'
  <2>1. Objs("ring")' = Objs("ring")
    BY <1>l DEF Objs
  <2>2. slot' = [r \in Objs("ring")' |-> slot'[r]]
    BY <1>a, <2>1, <1>e, <1>b DEF UnregBufs, Types
  <2>3. alloc' \in Ifs \cup {None} /\ pc' \in [Ifs -> Labels] /\ q' \in [Ifs -> 1 .. NumRings + 2]
    BY <1>a, <1>e, <1>b, ObjPoolAssumption DEF UnregBufs, Types, Labels, CallOf, Goto, Return
  <2>4. /\ refs' \in [Ifs -> Nat] /\ difs' \in [Ifs -> SUBSET Nat] /\ dif' \in [Ifs -> Nat]
        /\ seen' \in [Ifs -> (SUBSET Nat) \X Nat]
    BY <1>a, <1>b, <1>e, <1>b DEF UnregBufs, Types, fvars, Return
  <2>5. ring' \in [Ifs -> [Queues -> Objs("ring") \cup {0}]]
    BY <1>a, <1>e, <1>b DEF UnregBufs, Types
  <2> QED
    BY <1>a, <1>c, <1>l, <2>1, <2>2, <2>3, <2>4, <2>5 DEF Types
<1>k. CallOK' /\ NoStale'
  <2>1. \A j \in Ifs : j # i => CallOf(j)' /\ NoStaleOf(j)'
    BY <1>a, <1>n, <1>l, <1>e, <1>m, OthersCalls DEF Releasing
  <2>2. CallOf(i)'
    BY <1>b, <1>n, <1>e, <1>m DEF CallOf, Releasing
  <2>3. NoStaleOf(i)'
    BY <1>e DEF NoStaleOf
  <2> QED
    BY <2>1, <2>2, <2>3 DEF CallOK, NoStale
<1>r. RefsOK'
  <2>1. \A j \in Ifs : j # i => RefsOf(j)'
    BY <1>a, <1>l DEF RefsOK, RefsOf, Local
  <2>2. RefsOf(i)'
    BY <1>a, <1>e DEF RefsOf
  <2> QED
    BY <2>1, <2>2 DEF RefsOK
<1>i. IfsOK'
  <2>1. \A j \in Ifs : \A d \in Nat : HasIf(j, d)' <=> HasIf(j, d)
    BY <1>a, <1>o, <1>e DEF HasIf
  <2> QED
    BY <1>a, <1>b, <1>l, <1>p, <2>1, IfKept
<1>g. RingsOK'
  <2>1. \A k \in Queues : HasRing(i, k)' <=> HasRing(i, k)
    BY <1>e DEF HasRing, Whole, Queues
  <2>2. \A j \in Ifs : \A k \in Queues : HasRing(j, k)' <=> HasRing(j, k)
    BY <1>o, <2>1
  <2>3. \A j \in Ifs : \A k \in Queues : HasRing(j, k)' => ring'[j][k] = ring[j][k]
    BY <1>l, <1>e, <2>2 DEF Local
  <2> QED
    BY <1>a, <1>l, <1>e, <2>2, <2>3, RingsKept, <1>p
<1>f. BufsOK'
  <2>1. \A k \in Queues : ~HasBufs(i, k)'
    BY <1>e DEF HasBufs, Whole
  <2>2. \A j \in Ifs : \A k \in Queues : HasBufs(j, k)' <=> HasBufs(j, k) /\ ~(j = i /\ k \in Queues)
    BY <1>o, <2>1
  <2>3. \A j \in Ifs : \A k \in Queues : HasBufs(j, k)' => HasRing(j, k)'
    BY <1>a, <1>o, <2>1 DEF BufsOK
  <2>4. \A j \in Ifs : \A k \in Queues : HasBufs(j, k)' =>
            \A s \in 1 .. descs[j] : Buf(j, k, s)' = Buf(j, k, s)
    BY <1>e DEF Buf
  <2>5. \A b : b \in bitmap'["buf"] <=>
            b \in bitmap["buf"] \/ \E k \in Queues : \E s \in 1 .. descs[i] : b = Buf(i, k, s)
    BY <1>p, <1>w
  <2>6. Queues \in SUBSET Queues
    OBVIOUS
  <2> QED
    BY <1>a, <1>h, <1>l, <2>2, <2>3, <2>4, <2>5, <2>6, BufsGiven
<1> QED
  BY <1>c, <1>t, <1>k, <1>r, <1>i, <1>g, <1>f DEF IInv

\* The destructor loads the bitmap of the rings, or is past the last ring.
LEMMA FreeRingLoadsKeeps ==
    ASSUME IInv, NEW i \in Ifs, FreeRingLoads(i), ~Races, ~Stale
    PROVE  IInv'
<1>a. /\ Types /\ CallOK /\ NoStale /\ Counts /\ RefsOK /\ IfsOK /\ RingsOK /\ BufsOK
      /\ CallOf(i) /\ NoStaleOf(i) /\ RefsOf(i)
  BY DEF IInv, CallOK, NoStale, RefsOK
<1>b. total["if"] \in Nat /\ descs[i] \in Nat /\ "if" \in Pools /\ "ring" \in Pools /\ "buf" \in Pools
      /\ NumRings \in Nat \ {0}
  BY <1>a, ObjPoolAssumption DEF Types, Pools
<1>n. i # None
  BY ObjPoolAssumption
<1>h. q[i] <= NumRings => q[i] \in Pointers(i)
  <2>1. SUFFICES ASSUME q[i] <= NumRings PROVE q[i] \in Pointers(i)
    OBVIOUS
  <2>2. q[i] \in Queues /\ HasRing(i, q[i])
    BY <1>a, <1>b, <2>1 DEF FreeRingLoads, HasRing, Queues, Types
  <2>3. ring[i][q[i]] \in Objs("ring")
    BY <1>a, <2>2 DEF RingsOK
  <2>4. ring[i][q[i]] # 0
    BY <1>a, <1>b, <2>3 DEF Objs, Types
  <2> QED
    BY <2>2, <2>4 DEF Pointers
<1>w. q[i] \in 1 .. NumRings + 1 /\ refs[i] = 0
  BY <1>a, <1>b DEF FreeRingLoads, CallOf, Types
<1>v. q[i] \in Pointers(i) => q[i] <= NumRings
  BY <1>b DEF Pointers, Queues
<1>e. /\ refs' = refs /\ difs' = difs /\ dif' = dif /\ slot' = slot /\ ring' = ring
      /\ bitmap' = bitmap /\ obj_free' = obj_free /\ alloc' = alloc
      /\ pc[i] = "freering" /\ refs[i] = 0 /\ q[i] \in 1 .. NumRings + 1
      /\ \/ /\ q[i] <= NumRings /\ pc'[i] = "storering" /\ q'[i] = q[i]
            /\ seen'[i] = <<bitmap["ring"], obj_free["ring"]>>
            /\ alloc = None /\ \A j \in Ifs : ~Releasing(j)
         \/ q[i] > NumRings /\ pc'[i] = "freeif" /\ q'[i] = q[i] + 1 /\ seen'[i] = seen[i]
  BY <1>a, <1>n, <1>b, <1>h, <1>v, <1>w DEF FreeRingLoads, Types, svars, pvars, fvars, Goto, Loads, Free
<1>l. Local(i) /\ total' = total /\ descs' = descs
  BY <1>a DEF FreeRingLoads, Local, Types, svars, pvars, fvars, Goto, Return, Loads
<1>o. \A j \in Ifs : j # i =>
          /\ \A d : HasIf(j, d)' <=> HasIf(j, d)
          /\ \A k : HasRing(j, k)' <=> HasRing(j, k)
          /\ \A k : HasBufs(j, k)' <=> HasBufs(j, k)
          /\ Whole(j)' <=> Whole(j)
  BY <1>l, Others
<1>c. Counts' /\ bitmap' \in [Pools -> SUBSET Nat] /\ obj_free' \in [Pools -> Nat]
  BY <1>a, <1>e, <1>l DEF Counts, Types, Objs
<1>t. Types'
  <2>1. Objs("ring")' = Objs("ring")
    BY <1>l DEF Objs
  <2>2. slot' = [r \in Objs("ring")' |-> slot'[r]]
    BY <1>a, <2>1, <1>e, <1>b, <1>h DEF FreeRingLoads, Types
  <2>3. CASE q[i] <= NumRings
    <3>1. Loads(i, "ring") /\ Goto(i, "storering") /\ UNCHANGED <<q, alloc, fvars, dif>>
      BY <1>h, <2>3 DEF FreeRingLoads
    <3>2. seen' \in [Ifs -> (SUBSET Nat) \X Nat]
      BY <1>a, <1>b, <3>1, SeenTypes
    <3> QED
      BY <1>a, <1>e, <1>c, <1>l, <2>1, <2>2, <3>1, <3>2 DEF Types, Goto, Labels
  <2>4. CASE q[i] > NumRings
    <3>1. /\ q' = [q EXCEPT ![i] = q[i] + 1] /\ Goto(i, "freeif")
          /\ UNCHANGED <<seen, alloc, fvars, dif>>
      BY <1>v, <1>b, <1>w, <2>4 DEF FreeRingLoads
    <3>2. q[i] + 1 \in 1 .. NumRings + 2
      BY <1>b, <1>w
    <3> QED
      BY <1>a, <1>e, <1>c, <1>l, <2>1, <2>2, <3>1, <3>2 DEF Types, Goto, Labels, fvars
  <2> QED
    BY <1>b, <1>w, <2>3, <2>4
<1>k. CallOK' /\ NoStale'
  <2>1. \A j \in Ifs : j # i => CallOf(j)' /\ NoStaleOf(j)'
    BY <1>a, <1>n, <1>l, <1>e, OthersCalls DEF Releasing
  <2>2. CallOf(i)'
    <3>1. \A j \in Ifs : j # i => (Releasing(j)' <=> Releasing(j))
      BY <1>l DEF Local, Releasing
    <3>2. CASE q[i] <= NumRings
      BY <1>a, <1>n, <1>b, <1>e, <3>1, <3>2 DEF CallOf, Releasing
    <3>3. CASE q[i] > NumRings
      BY <1>a, <1>n, <1>b, <1>e, <3>1, <3>3 DEF CallOf, Releasing
    <3> QED
      BY <1>b, <1>e, <3>2, <3>3
  <2>3. NoStaleOf(i)'
    BY <1>e DEF NoStaleOf
  <2> QED
    BY <2>1, <2>2, <2>3 DEF CallOK, NoStale
<1>r. RefsOK'
  <2>1. \A j \in Ifs : j # i => RefsOf(j)'
    BY <1>a, <1>l DEF RefsOK, RefsOf, Local
  <2>2. RefsOf(i)'
    BY <1>a, <1>e DEF RefsOf
  <2> QED
    BY <2>1, <2>2 DEF RefsOK
<1>i. IfsOK'
  <2>1. \A j \in Ifs : \A d \in Nat : HasIf(j, d)' <=> HasIf(j, d)
    BY <1>a, <1>o, <1>e DEF HasIf
  <2> QED
    BY <1>a, <1>b, <1>l, <1>e, <2>1, IfKept
<1>g. RingsOK'
  <2>1. \A k \in Queues : HasRing(i, k)' <=> HasRing(i, k)
    BY <1>b, <1>e DEF HasRing, Whole, Queues
  <2>2. \A j \in Ifs : \A k \in Queues : HasRing(j, k)' <=> HasRing(j, k)
    BY <1>o, <2>1
  <2>3. \A j \in Ifs : \A k \in Queues : HasRing(j, k)' => ring'[j][k] = ring[j][k]
    BY <1>l, <1>e, <2>2 DEF Local
  <2> QED
    BY <1>a, <1>l, <1>e, <2>2, <2>3, RingsKept
<1>f. BufsOK'
  <2>1. \A k \in Queues : HasBufs(i, k)' <=> HasBufs(i, k)
    BY <1>e DEF HasBufs, Whole
  <2>2. \A j \in Ifs : \A k \in Queues : HasBufs(j, k)' <=> HasBufs(j, k)
    BY <1>o, <2>1
  <2>3. \A k \in Queues : HasBufs(i, k)' => HasRing(i, k)'
    BY <1>e DEF HasBufs, HasRing, Whole
  <2>4. \A j \in Ifs : \A k \in Queues : HasBufs(j, k)' => HasRing(j, k)'
    BY <1>a, <1>o, <2>2, <2>3 DEF BufsOK
  <2>5. \A j \in Ifs : \A k \in Queues : HasBufs(j, k)' =>
            \A s \in 1 .. descs[j] : Buf(j, k, s)' = Buf(j, k, s)
    BY <1>l, <1>e, <2>2 DEF Buf, Local
  <2> QED
    BY <1>a, <1>l, <1>e, <2>2, <2>4, <2>5, BufsKept
<1> QED
  BY <1>c, <1>t, <1>k, <1>r, <1>i, <1>g, <1>f DEF IInv

\* The destructor stores the bitmap with the ring in it.
LEMMA FreeRingStoresKeeps ==
    ASSUME IInv, NEW i \in Ifs, FreeRingStores(i), ~Races, ~Stale
    PROVE  IInv'
<1>a. /\ Types /\ CallOK /\ NoStale /\ Counts /\ RefsOK /\ IfsOK /\ RingsOK /\ BufsOK
      /\ CallOf(i) /\ NoStaleOf(i) /\ RefsOf(i)
  BY DEF IInv, CallOK, NoStale, RefsOK
<1>b. total["if"] \in Nat /\ descs[i] \in Nat /\ "if" \in Pools /\ "ring" \in Pools /\ "buf" \in Pools
      /\ NumRings \in Nat \ {0}
  BY <1>a, ObjPoolAssumption DEF Types, Pools
<1>n. i # None
  BY ObjPoolAssumption
<1>e. /\ refs' = refs /\ difs' = difs /\ dif' = dif /\ slot' = slot /\ ring' = ring /\ alloc' = alloc
      /\ pc[i] = "storering" /\ refs[i] = 0 /\ q[i] \in 1 .. NumRings /\ pc'[i] = "freering" /\ q'[i] = q[i] + 1
  BY <1>a, <1>n, <1>b DEF FreeRingStores, Types, svars, fvars, Goto, CallOf, Stores
<1>l. Local(i) /\ total' = total /\ descs' = descs
  BY <1>a DEF FreeRingStores, Local, Types, svars, pvars, fvars, Goto, Return, Stores
<1>o. \A j \in Ifs : j # i =>
          /\ \A d : HasIf(j, d)' <=> HasIf(j, d)
          /\ \A k : HasRing(j, k)' <=> HasRing(j, k)
          /\ \A k : HasBufs(j, k)' <=> HasBufs(j, k)
          /\ Whole(j)' <=> Whole(j)
  BY <1>l, Others
<1>m. alloc = None /\ \A j \in Ifs : j # i => ~Releasing(j) /\ pc[j] \notin {"new", "cleanup"}
  BY <1>a, <1>e, ObjPoolAssumption DEF CallOK, CallOf, Releasing
<1>y. PICK m, r : m = q[i] /\ r = ring[i][q[i]]
  OBVIOUS
<1>h. m \in Queues /\ HasRing(i, m) /\ r = ring[i][m]
  BY <1>b, <1>e, <1>y DEF HasRing, Queues
<1>u. r \in Objs("ring") \ bitmap["ring"]
  BY <1>a, <1>h DEF RingsOK
<1>p. /\ bitmap' = [bitmap EXCEPT !["ring"] = bitmap["ring"] \cup {r}]
      /\ obj_free' = [obj_free EXCEPT !["ring"] = obj_free["ring"] + 1]
  <2>1. seen[i] = <<bitmap["ring"], obj_free["ring"]>>
    BY <1>a, <1>e DEF CallOf
  <2>2. Stores(i, "ring", r)
    BY <1>y DEF FreeRingStores
  <2>3. seen[i][1] = bitmap["ring"] /\ seen[i][2] = obj_free["ring"]
    BY <2>1
  <2> QED
    BY <2>2, <2>3 DEF Stores
<1>c. Counts' /\ bitmap' \in [Pools -> SUBSET Nat] /\ obj_free' \in [Pools -> Nat]
  BY <1>a, <1>b, <1>l, <1>p, <1>u, StoresCounts
<1>t. Types'
  <2>1. Objs("ring")' = Objs("ring")
    BY <1>l DEF Objs
  <2>2. slot' = [o \in Objs("ring")' |-> slot'[o]]
    BY <1>a, <2>1, <1>e, <1>b DEF FreeRingStores, Types
  <2>3. alloc' \in Ifs \cup {None} /\ pc' \in [Ifs -> Labels] /\ q' \in [Ifs -> 1 .. NumRings + 2]
    BY <1>a, <1>e, <1>b, ObjPoolAssumption DEF FreeRingStores, Types, Labels, CallOf, Goto, Return
  <2>4. /\ refs' \in [Ifs -> Nat] /\ difs' \in [Ifs -> SUBSET Nat] /\ dif' \in [Ifs -> Nat]
        /\ seen' \in [Ifs -> (SUBSET Nat) \X Nat]
    <3>1. Loads(i, "ring") \/ Stores(i, "ring", ring[i][q[i]])
      BY DEF FreeRingStores
    <3>2. seen' \in [Ifs -> (SUBSET Nat) \X Nat]
      BY <1>a, <1>b, <3>1, SeenTypes
    <3> QED
      BY <1>a, <1>e, <3>2 DEF FreeRingStores, Types, fvars, Return
  <2>5. ring' \in [Ifs -> [Queues -> Objs("ring") \cup {0}]]
    BY <1>a, <1>e, <1>b DEF FreeRingStores, Types
  <2> QED
    BY <1>a, <1>c, <1>l, <2>1, <2>2, <2>3, <2>4, <2>5 DEF Types
<1>k. CallOK' /\ NoStale'
  <2>1. \A j \in Ifs : j # i => CallOf(j)' /\ NoStaleOf(j)'
    BY <1>a, <1>n, <1>l, <1>e, <1>m, OthersCalls DEF Releasing
  <2>2. CallOf(i)'
    BY <1>b, <1>n, <1>e, <1>m DEF CallOf, Releasing
  <2>3. NoStaleOf(i)'
    BY <1>e DEF NoStaleOf
  <2> QED
    BY <2>1, <2>2, <2>3 DEF CallOK, NoStale
<1>r. RefsOK'
  <2>1. \A j \in Ifs : j # i => RefsOf(j)'
    BY <1>a, <1>l DEF RefsOK, RefsOf, Local
  <2>2. RefsOf(i)'
    BY <1>a, <1>e DEF RefsOf
  <2> QED
    BY <2>1, <2>2 DEF RefsOK
<1>i. IfsOK'
  <2>1. \A j \in Ifs : \A d \in Nat : HasIf(j, d)' <=> HasIf(j, d)
    BY <1>a, <1>o, <1>e DEF HasIf
  <2>2. bitmap'["if"] = bitmap["if"]
    BY <1>a, <1>b, <1>p DEF Types
  <2> QED
    BY <1>a, <1>b, <1>l, <2>1, <2>2, IfKept
<1>g. RingsOK'
  <2>1. \A k \in Queues : HasRing(i, k)' <=> HasRing(i, k) /\ k \notin {m}
    BY <1>b, <1>e, <1>y DEF HasRing, Whole, Queues
  <2>2. \A j \in Ifs : \A k \in Queues : HasRing(j, k)' <=> HasRing(j, k) /\ ~(j = i /\ k \in {m})
    BY <1>o, <2>1
  <2>3. {m} \in SUBSET Queues /\ \A k \in {m} : HasRing(i, k)
    BY <1>h
  <2>4. \A j \in Ifs : \A k \in Queues : HasRing(j, k)' => ring'[j][k] = ring[j][k]
    BY <1>e
  <2>5. bitmap'["ring"] = bitmap["ring"] \cup {ring[i][k] : k \in {m}}
    BY <1>a, <1>b, <1>h, <1>p DEF Types
  <2> QED
    BY <1>a, <1>l, <2>2, <2>3, <2>4, <2>5, RingsGiven
<1>f. BufsOK'
  <2>1. \A k \in Queues : HasBufs(i, k)' <=> HasBufs(i, k)
    BY <1>e DEF HasBufs, Whole
  <2>2. \A j \in Ifs : \A k \in Queues : HasBufs(j, k)' <=> HasBufs(j, k)
    BY <1>o, <2>1
  <2>3. \A k \in Queues : HasBufs(i, k)' => HasRing(i, k)'
    BY <1>e DEF HasBufs, HasRing, Whole
  <2>4. \A j \in Ifs : \A k \in Queues : HasBufs(j, k)' => HasRing(j, k)'
    BY <1>a, <1>o, <2>2, <2>3 DEF BufsOK
  <2>5. \A j \in Ifs : \A k \in Queues : HasBufs(j, k)' =>
            \A s \in 1 .. descs[j] : Buf(j, k, s)' = Buf(j, k, s)
    BY <1>l, <1>e, <2>2 DEF Buf, Local
  <2>6. bitmap'["buf"] = bitmap["buf"]
    BY <1>a, <1>b, <1>p DEF Types
  <2> QED
    BY <1>a, <1>l, <1>e, <2>2, <2>4, <2>5, <2>6, BufsKept
<1> QED
  BY <1>c, <1>t, <1>k, <1>r, <1>i, <1>g, <1>f DEF IInv

\* The destructor loads the bitmap of the interface pool.
LEMMA FreeIfLoadsKeeps ==
    ASSUME IInv, NEW i \in Ifs, FreeIfLoads(i), ~Races, ~Stale
    PROVE  IInv'
<1>a. /\ Types /\ CallOK /\ NoStale /\ Counts /\ RefsOK /\ IfsOK /\ RingsOK /\ BufsOK
      /\ CallOf(i) /\ NoStaleOf(i) /\ RefsOf(i)
  BY DEF IInv, CallOK, NoStale, RefsOK
<1>b. total["if"] \in Nat /\ descs[i] \in Nat /\ "if" \in Pools /\ "ring" \in Pools /\ "buf" \in Pools
      /\ NumRings \in Nat \ {0}
  BY <1>a, ObjPoolAssumption DEF Types, Pools
<1>n. i # None
  BY ObjPoolAssumption
<1>e. /\ refs' = refs /\ difs' = difs /\ dif' = dif /\ q' = q /\ slot' = slot /\ ring' = ring
      /\ bitmap' = bitmap /\ obj_free' = obj_free /\ alloc' = alloc
      /\ pc[i] = "freeif" /\ pc'[i] = "storeif"
      /\ seen'[i] = <<bitmap["if"], obj_free["if"]>> /\ alloc = None /\ \A j \in Ifs : ~Releasing(j)
  BY <1>a, <1>n DEF FreeIfLoads, Types, svars, pvars, fvars, Goto, Loads, Free
<1>l. Local(i) /\ total' = total /\ descs' = descs
  BY <1>a DEF FreeIfLoads, Local, Types, svars, pvars, fvars, Goto, Return, Loads
<1>o. \A j \in Ifs : j # i =>
          /\ \A d : HasIf(j, d)' <=> HasIf(j, d)
          /\ \A k : HasRing(j, k)' <=> HasRing(j, k)
          /\ \A k : HasBufs(j, k)' <=> HasBufs(j, k)
          /\ Whole(j)' <=> Whole(j)
  BY <1>l, Others
<1>c. Counts' /\ bitmap' \in [Pools -> SUBSET Nat] /\ obj_free' \in [Pools -> Nat]
  BY <1>a, <1>e, <1>l DEF Counts, Types, Objs
<1>t. Types'
  <2>1. Objs("ring")' = Objs("ring")
    BY <1>l DEF Objs
  <2>2. slot' = [r \in Objs("ring")' |-> slot'[r]]
    BY <1>a, <2>1, <1>e, <1>b DEF FreeIfLoads, Types
  <2>3. alloc' \in Ifs \cup {None} /\ pc' \in [Ifs -> Labels] /\ q' \in [Ifs -> 1 .. NumRings + 2]
    BY <1>a, <1>e, <1>b, ObjPoolAssumption DEF FreeIfLoads, Types, Labels, CallOf, Goto, Return
  <2>4. /\ refs' \in [Ifs -> Nat] /\ difs' \in [Ifs -> SUBSET Nat] /\ dif' \in [Ifs -> Nat]
        /\ seen' \in [Ifs -> (SUBSET Nat) \X Nat]
    <3>1. Loads(i, "if") \/ Stores(i, "if", 0)
      BY DEF FreeIfLoads
    <3>2. seen' \in [Ifs -> (SUBSET Nat) \X Nat]
      BY <1>a, <1>b, <3>1, SeenTypes
    <3> QED
      BY <1>a, <1>e, <3>2 DEF FreeIfLoads, Types, fvars, Return
  <2>5. ring' \in [Ifs -> [Queues -> Objs("ring") \cup {0}]]
    BY <1>a, <1>e, <1>b DEF FreeIfLoads, Types
  <2> QED
    BY <1>a, <1>c, <1>l, <2>1, <2>2, <2>3, <2>4, <2>5 DEF Types
<1>k. CallOK' /\ NoStale'
  <2>1. \A j \in Ifs : j # i => CallOf(j)' /\ NoStaleOf(j)'
    BY <1>a, <1>n, <1>l, <1>e, OthersCalls DEF Releasing
  <2>2. CallOf(i)'
    <3>1. \A j \in Ifs : j # i => (Releasing(j)' <=> Releasing(j))
      BY <1>l DEF Local, Releasing
    <3> QED
      BY <1>a, <1>n, <1>b, <1>e, <3>1 DEF CallOf, Releasing
  <2>3. NoStaleOf(i)'
    BY <1>e DEF NoStaleOf
  <2> QED
    BY <2>1, <2>2, <2>3 DEF CallOK, NoStale
<1>r. RefsOK'
  <2>1. \A j \in Ifs : j # i => RefsOf(j)'
    BY <1>a, <1>l DEF RefsOK, RefsOf, Local
  <2>2. RefsOf(i)'
    BY <1>a, <1>e DEF RefsOf
  <2> QED
    BY <2>1, <2>2 DEF RefsOK
<1>i. IfsOK'
  <2>1. \A j \in Ifs : \A d \in Nat : HasIf(j, d)' <=> HasIf(j, d)
    BY <1>a, <1>o, <1>e DEF HasIf
  <2> QED
    BY <1>a, <1>b, <1>l, <1>e, <2>1, IfKept
<1>g. RingsOK'
  <2>1. \A k \in Queues : HasRing(i, k)' <=> HasRing(i, k)
    BY <1>a, <1>e DEF HasRing, Whole, CallOf, Types
  <2>2. \A j \in Ifs : \A k \in Queues : HasRing(j, k)' <=> HasRing(j, k)
    BY <1>o, <2>1
  <2>3. \A j \in Ifs : \A k \in Queues : HasRing(j, k)' => ring'[j][k] = ring[j][k]
    BY <1>l, <1>e, <2>2 DEF Local
  <2> QED
    BY <1>a, <1>l, <1>e, <2>2, <2>3, RingsKept
<1>f. BufsOK'
  <2>1. \A k \in Queues : HasBufs(i, k)' <=> HasBufs(i, k)
    BY <1>a, <1>e DEF HasBufs, Whole, CallOf, Types
  <2>2. \A j \in Ifs : \A k \in Queues : HasBufs(j, k)' <=> HasBufs(j, k)
    BY <1>o, <2>1
  <2>3. \A k \in Queues : HasBufs(i, k)' => HasRing(i, k)'
    BY <1>a, <1>e, <2>1 DEF BufsOK, HasBufs, HasRing, Whole, CallOf, Types
  <2>4. \A j \in Ifs : \A k \in Queues : HasBufs(j, k)' => HasRing(j, k)'
    BY <1>a, <1>o, <2>2, <2>3 DEF BufsOK
  <2>5. \A j \in Ifs : \A k \in Queues : HasBufs(j, k)' =>
            \A s \in 1 .. descs[j] : Buf(j, k, s)' = Buf(j, k, s)
    BY <1>l, <1>e, <2>2 DEF Buf, Local
  <2> QED
    BY <1>a, <1>l, <1>e, <2>2, <2>4, <2>5, BufsKept
<1> QED
  BY <1>c, <1>t, <1>k, <1>r, <1>i, <1>g, <1>f DEF IInv

\* The destructor stores the bitmap with the object in it, and returns.
LEMMA FreeIfStoresKeeps ==
    ASSUME IInv, NEW i \in Ifs, FreeIfStores(i), ~Races, ~Stale
    PROVE  IInv'
<1>a. /\ Types /\ CallOK /\ NoStale /\ Counts /\ RefsOK /\ IfsOK /\ RingsOK /\ BufsOK
      /\ CallOf(i) /\ NoStaleOf(i) /\ RefsOf(i)
  BY DEF IInv, CallOK, NoStale, RefsOK
<1>b. total["if"] \in Nat /\ descs[i] \in Nat /\ "if" \in Pools /\ "ring" \in Pools /\ "buf" \in Pools
      /\ NumRings \in Nat \ {0}
  BY <1>a, ObjPoolAssumption DEF Types, Pools
<1>n. i # None
  BY ObjPoolAssumption
<1>e. /\ refs' = refs /\ difs' = difs /\ slot' = slot /\ ring' = ring /\ alloc' = alloc
      /\ pc[i] = "storeif" /\ pc'[i] = "idle" /\ q'[i] = 1 /\ dif'[i] = 0
  BY <1>a, <1>n DEF FreeIfStores, Types, svars, fvars, Goto, Return, Stores
<1>l. Local(i) /\ total' = total /\ descs' = descs
  BY <1>a DEF FreeIfStores, Local, Types, svars, pvars, fvars, Goto, Return, Stores
<1>o. \A j \in Ifs : j # i =>
          /\ \A d : HasIf(j, d)' <=> HasIf(j, d)
          /\ \A k : HasRing(j, k)' <=> HasRing(j, k)
          /\ \A k : HasBufs(j, k)' <=> HasBufs(j, k)
          /\ Whole(j)' <=> Whole(j)
  BY <1>l, Others
<1>m. alloc = None /\ \A j \in Ifs : j # i => ~Releasing(j) /\ pc[j] \notin {"new", "cleanup"}
  BY <1>a, <1>e, ObjPoolAssumption DEF CallOK, CallOf, Releasing
<1>y. PICK o : o = dif[i]
  OBVIOUS
<1>h. o \in Nat /\ HasIf(i, o) /\ o \notin difs[i]
  BY <1>a, <1>e, <1>y DEF HasIf, RefsOf, Types
<1>u. o \in Objs("if") \ bitmap["if"]
  BY <1>a, <1>h DEF IfsOK
<1>p. /\ bitmap' = [bitmap EXCEPT !["if"] = bitmap["if"] \cup {o}]
      /\ obj_free' = [obj_free EXCEPT !["if"] = obj_free["if"] + 1]
  <2>1. seen[i] = <<bitmap["if"], obj_free["if"]>>
    BY <1>a, <1>e DEF CallOf
  <2>2. Stores(i, "if", o)
    BY <1>y DEF FreeIfStores
  <2>3. seen[i][1] = bitmap["if"] /\ seen[i][2] = obj_free["if"]
    BY <2>1
  <2> QED
    BY <2>2, <2>3 DEF Stores
<1>c. Counts' /\ bitmap' \in [Pools -> SUBSET Nat] /\ obj_free' \in [Pools -> Nat]
  BY <1>a, <1>b, <1>l, <1>p, <1>u, StoresCounts
<1>t. Types'
  <2>1. Objs("ring")' = Objs("ring")
    BY <1>l DEF Objs
  <2>2. slot' = [r \in Objs("ring")' |-> slot'[r]]
    BY <1>a, <2>1, <1>e, <1>b DEF FreeIfStores, Types
  <2>3. alloc' \in Ifs \cup {None} /\ pc' \in [Ifs -> Labels] /\ q' \in [Ifs -> 1 .. NumRings + 2]
    BY <1>a, <1>e, <1>b, ObjPoolAssumption DEF FreeIfStores, Types, Labels, CallOf, Goto, Return
  <2>4. /\ refs' \in [Ifs -> Nat] /\ difs' \in [Ifs -> SUBSET Nat] /\ dif' \in [Ifs -> Nat]
        /\ seen' \in [Ifs -> (SUBSET Nat) \X Nat]
    <3>1. Loads(i, "if") \/ Stores(i, "if", dif[i])
      BY DEF FreeIfStores
    <3>2. seen' \in [Ifs -> (SUBSET Nat) \X Nat]
      BY <1>a, <1>b, <3>1, SeenTypes
    <3> QED
      BY <1>a, <1>e, <3>2 DEF FreeIfStores, Types, fvars, Return
  <2>5. ring' \in [Ifs -> [Queues -> Objs("ring") \cup {0}]]
    BY <1>a, <1>e, <1>b DEF FreeIfStores, Types
  <2> QED
    BY <1>a, <1>c, <1>l, <2>1, <2>2, <2>3, <2>4, <2>5 DEF Types
<1>k. CallOK' /\ NoStale'
  <2>1. \A j \in Ifs : j # i => CallOf(j)' /\ NoStaleOf(j)'
    BY <1>a, <1>n, <1>l, <1>e, <1>m, OthersCalls DEF Releasing
  <2>2. CallOf(i)'
    BY <1>b, <1>n, <1>e, <1>m, ObjPoolAssumption DEF CallOf, Releasing
  <2>3. NoStaleOf(i)'
    BY <1>e DEF NoStaleOf
  <2> QED
    BY <2>1, <2>2, <2>3 DEF CallOK, NoStale
<1>r. RefsOK'
  <2>1. \A j \in Ifs : j # i => RefsOf(j)'
    BY <1>a, <1>l DEF RefsOK, RefsOf, Local
  <2>2. RefsOf(i)'
    BY <1>a, <1>e DEF RefsOf
  <2> QED
    BY <2>1, <2>2 DEF RefsOK
<1>i. IfsOK'
  <2>1. \A d \in Nat : HasIf(i, d)' <=> HasIf(i, d) /\ d \notin {o}
    BY <1>e, <1>h, <1>y DEF HasIf
  <2>2. \A j \in Ifs : \A d \in Nat : HasIf(j, d)' <=> HasIf(j, d) /\ ~(j = i /\ d \in {o})
    BY <1>o, <2>1
  <2>3. {o} \in SUBSET Nat /\ \A d \in {o} : HasIf(i, d)
    BY <1>h
  <2>4. bitmap'["if"] = bitmap["if"] \cup {o}
    BY <1>a, <1>b, <1>p DEF Types
  <2> QED
    BY <1>a, <1>b, <1>l, <2>2, <2>3, <2>4, IfGiven
<1>g. RingsOK'
  <2>1. \A k \in Queues : HasRing(i, k)' <=> HasRing(i, k)
    BY <1>e DEF HasRing, Whole
  <2>2. \A j \in Ifs : \A k \in Queues : HasRing(j, k)' <=> HasRing(j, k)
    BY <1>o, <2>1
  <2>3. \A j \in Ifs : \A k \in Queues : HasRing(j, k)' => ring'[j][k] = ring[j][k]
    BY <1>l, <1>e, <2>2 DEF Local
  <2>4. bitmap'["ring"] = bitmap["ring"]
    BY <1>a, <1>b, <1>p DEF Types
  <2> QED
    BY <1>a, <1>l, <1>e, <2>2, <2>3, <2>4, RingsKept
<1>f. BufsOK'
  <2>1. \A k \in Queues : HasBufs(i, k)' <=> HasBufs(i, k)
    BY <1>e DEF HasBufs, Whole
  <2>2. \A j \in Ifs : \A k \in Queues : HasBufs(j, k)' <=> HasBufs(j, k)
    BY <1>o, <2>1
  <2>3. \A k \in Queues : HasBufs(i, k)' => HasRing(i, k)'
    BY <1>a, <1>e, <2>1 DEF BufsOK, HasBufs, HasRing, Whole, CallOf, Types
  <2>4. \A j \in Ifs : \A k \in Queues : HasBufs(j, k)' => HasRing(j, k)'
    BY <1>a, <1>o, <2>2, <2>3 DEF BufsOK
  <2>5. \A j \in Ifs : \A k \in Queues : HasBufs(j, k)' =>
            \A s \in 1 .. descs[j] : Buf(j, k, s)' = Buf(j, k, s)
    BY <1>l, <1>e, <2>2 DEF Buf, Local
  <2>6. bitmap'["buf"] = bitmap["buf"]
    BY <1>a, <1>b, <1>p DEF Types
  <2> QED
    BY <1>a, <1>l, <1>e, <2>2, <2>4, <2>5, <2>6, BufsKept
<1> QED
  BY <1>c, <1>t, <1>k, <1>r, <1>i, <1>g, <1>f DEF IInv

----------------------------------------------------------------------------
(* The theorems.                                                           *)

LEMMA InitIInv == Init => IInv
<1> SUFFICES ASSUME Init PROVE IInv
  OBVIOUS
<1>1. total \in [Pools -> Nat] /\ descs \in [Ifs -> Nat \ {0}]
  <2>a. total \in {PoolsOf(a, b, c) : a \in IfObjs, b \in RingObjs, c \in BufObjs}
    BY DEF Init
  <2>1. PICK a \in IfObjs, b \in RingObjs, c \in BufObjs : total = PoolsOf(a, b, c)
    BY <2>a
  <2>2. total["if"] = a /\ total["ring"] = b /\ total["buf"] = c
    BY <2>1, PoolsOfIs
  <2>b. PoolsOf(a, b, c) = [p \in Pools |-> PoolsOf(a, b, c)[p]]
    <3> DEFINE Size(p) == CASE p = "if" -> a [] p = "ring" -> b [] p = "buf" -> c
    <3>1. PoolsOf(a, b, c) = [p \in Pools |-> Size(p)]
      BY Zenon DEF PoolsOf
    <3> HIDE DEF Size
    <3> QED
      BY <3>1
  <2>3. total = [p \in Pools |-> total[p]]
    BY <2>1, <2>b
  <2>c. a \in Nat /\ b \in Nat /\ c \in Nat
    BY ObjPoolAssumption
  <2>4. \A p \in Pools : total[p] \in Nat
    BY <2>2, <2>c DEF Pools
  <2>d. descs \in [Ifs -> Descs] /\ Descs \subseteq Nat \ {0}
    BY ObjPoolAssumption DEF Init
  <2>5. descs \in [Ifs -> Nat \ {0}]
    BY <2>d
  <2> QED
    BY <2>3, <2>4, <2>5
<1>2. /\ bitmap = [p \in Pools |-> Objs(p)] /\ obj_free = total
      /\ slot = [r \in Objs("ring") |-> <<>>]
      /\ ring = [i \in Ifs |-> [k \in Queues |-> 0]]
      /\ refs = [i \in Ifs |-> 0] /\ difs = [i \in Ifs |-> {}] /\ alloc = None
      /\ pc = [i \in Ifs |-> "idle"] /\ q = [i \in Ifs |-> 1] /\ dif = [i \in Ifs |-> 0]
      /\ seen = [i \in Ifs |-> <<{}, 0>>]
  BY DEF Init, Objs
<1>3. \A p \in Pools : Objs(p) \subseteq Nat /\ Cardinality(Objs(p)) = total[p]
  BY <1>1, ObjsCount DEF Objs
<1>4. Types
  <2>1. bitmap \in [Pools -> SUBSET Nat] /\ obj_free \in [Pools -> Nat]
    BY <1>1, <1>2, <1>3
  <2>2. slot = [r \in Objs("ring") |-> slot[r]]
    BY <1>2
  <2>3. ring \in [Ifs -> [Queues -> Objs("ring") \cup {0}]]
    BY <1>2
  <2>4. /\ refs \in [Ifs -> Nat] /\ difs \in [Ifs -> SUBSET Nat] /\ dif \in [Ifs -> Nat]
        /\ seen \in [Ifs -> (SUBSET Nat) \X Nat] /\ alloc \in Ifs \cup {None}
    BY <1>2
  <2>5. pc \in [Ifs -> Labels] /\ q \in [Ifs -> 1 .. NumRings + 2]
    BY <1>2, ObjPoolAssumption DEF Labels
  <2> QED
    BY <1>1, <2>1, <2>2, <2>3, <2>4, <2>5 DEF Types
<1>5. \A i \in Ifs : /\ \A d : ~HasIf(i, d)
                     /\ \A k : ~HasRing(i, k) /\ ~HasBufs(i, k)
  BY <1>2 DEF HasIf, HasRing, HasBufs, Whole
<1>6. CallOK /\ NoStale
  BY <1>2, ObjPoolAssumption DEF CallOK, CallOf, NoStale, NoStaleOf, Releasing
<1>7. Counts
  BY <1>2, <1>3 DEF Counts
<1>8. RefsOK
  BY <1>2, FS_EmptySet DEF RefsOK, RefsOf
<1>9. bitmap["if"] = Objs("if") /\ bitmap["ring"] = Objs("ring") /\ bitmap["buf"] = Objs("buf")
  BY <1>2 DEF Pools
<1>10. IfsOK /\ RingsOK /\ BufsOK
  BY <1>5, <1>9 DEF IfsOK, RingsOK, BufsOK
<1> QED
  BY <1>4, <1>6, <1>7, <1>8, <1>10 DEF IInv

LEMMA NextIInv ==
    ASSUME IInv, [Next]_vars, ~Races, ~Stale
    PROVE  IInv'
<1>1. ASSUME NEW i \in Ifs, NewIf(i) PROVE IInv'
  BY <1>1, JoinKeeps, NewIfBeginKeeps, NewRingKeeps, NoRingKeeps, NoBufsKeeps, NewIfFailsKeeps,
     NewIfDoneKeeps DEF NewIf
<1>2. ASSUME NEW i \in Ifs, Unregister(i) PROVE IInv'
  BY <1>2, UnregBeginKeeps, UnregBufsKeeps, FreeRingLoadsKeeps, FreeRingStoresKeeps,
     FreeIfLoadsKeeps, FreeIfStoresKeeps DEF Unregister
<1>3. CASE UNCHANGED vars
  <2> USE <1>3 DEF vars, svars, pvars, fvars
  <2>1. Types' /\ Counts' /\ RefsOK' /\ CallOK' /\ NoStale'
    BY DEF IInv, Types, Counts, RefsOK, RefsOf, CallOK, CallOf, NoStale, NoStaleOf, Releasing,
           Obtainable, Objs
  <2>2. IfsOK' /\ RingsOK' /\ BufsOK'
    BY DEF IInv, IfsOK, RingsOK, BufsOK, HasIf, HasRing, HasBufs, Whole, Objs
  <2> QED
    BY <2>1, <2>2 DEF IInv
<1> QED
  BY <1>1, <1>2, <1>3 DEF Next

\* Each object of a pool is free or had by one interface, queue or slot, and the counters are
\* right, at every point of dpa_new_if and of dpa_destructor_locked, if a registration that
\* fails meets no stale pointers and nobody uses the pools within a release without the lock.
THEOREM Accounting ==
    ASSUME Stale = FALSE, Races = FALSE
    PROVE  Spec => []IInv
<1>1. ~Races /\ ~Stale
  OBVIOUS
<1>2. IInv /\ [Next]_vars => IInv'
  BY <1>1, NextIInv
<1> QED
  BY <1>2, InitIInv, PTL DEF Spec

LEMMA LiveHas ==
    ASSUME IInv, NEW i \in Ifs
    PROVE  Live(i) \in SUBSET Queues /\ \A k \in Live(i) : HasRing(i, k) /\ HasBufs(i, k)
BY ObjPoolAssumption DEF IInv, Types, CallOK, CallOf, Live, HasRing, HasBufs, Whole, Queues

LEMMA TypingOf ==
    ASSUME IInv
    PROVE  TypeOK
<1>1. Types /\ CallOK /\ Counts /\ RefsOK /\ IfsOK
  BY DEF IInv
<1>2. bitmap \in [Pools -> SUBSET Nat] /\ alloc \in Ifs \cup {None}
  BY <1>1 DEF Types
<1>3. ASSUME NEW p \in Pools PROVE bitmap[p] \subseteq 2 .. total[p] + 1 /\ obj_free[p] \in 0 .. total[p]
  BY <1>1, PoolFinite DEF Counts, Objs
<1>4. ring \in [Ifs -> [Queues -> 0 .. total["ring"] + 1]]
  <2>1. total["ring"] \in Nat
    BY <1>1 DEF Types, Pools
  <2>2. Objs("ring") \cup {0} \subseteq 0 .. total["ring"] + 1
    BY <2>1 DEF Objs
  <2> QED
    BY <1>1, <2>2 DEF Types
<1>5. refs \in [Ifs -> 0 .. total["if"]]
  <2>1. ASSUME NEW i \in Ifs PROVE refs[i] \in 0 .. total["if"]
    <3>1. "if" \in Pools
      BY DEF Pools
    <3>2. IsFiniteSet(Objs("if")) /\ Cardinality(Objs("if")) = total["if"]
      BY <1>1, <3>1, PoolFinite
    <3>3. difs[i] \subseteq Objs("if") /\ Cardinality(difs[i]) \in Nat
      BY <1>1, DifsFinite
    <3>4. Cardinality(difs[i]) <= total["if"] /\ total["if"] \in Nat
      BY <1>1, <3>1, <3>2, <3>3, FS_Subset DEF Types
    <3> QED
      BY <1>1, <3>3, <3>4 DEF RefsOK, RefsOf
  <2> QED
    BY <1>1, <2>1 DEF Types
<1>6. /\ pc \in [Ifs -> {"idle", "new", "cleanup", "bufs", "freering", "storering", "freeif", "storeif"}]
      /\ q \in [Ifs -> 1 .. NumRings + 2]
  BY <1>1 DEF Types, Labels
<1> QED
  BY <1>2, <1>3, <1>4, <1>5, <1>6 DEF TypeOK

LEMMA ExclusiveOf ==
    ASSUME IInv
    PROVE  Exclusive
<1>a. Types /\ RingsOK /\ BufsOK
  BY DEF IInv
<1>1. ASSUME NEW i \in Ifs, NEW j \in Ifs, NEW k \in Live(i), NEW l \in Live(j), <<i, k>> # <<j, l>>
      PROVE  ring[i][k] # ring[j][l]
  <2>1. HasRing(i, k) /\ HasRing(j, l) /\ k \in Queues /\ l \in Queues
    BY LiveHas
  <2> QED
    BY <1>1, <1>a, <2>1 DEF RingsOK
<1>2. ASSUME NEW i \in Ifs PROVE RingsOf(i, Live(i)) \cap bitmap["ring"] = {}
  BY <1>a, LiveHas, GivenRings
<1>3. ASSUME NEW i \in Ifs, NEW j \in Ifs, NEW x \in Places(i, Live(i)), NEW y \in Places(j, Live(j)),
             <<i, x>> # <<j, y>>
      PROVE  slot[ring[i][x[1]]][x[2]] # slot[ring[j][y[1]]][y[2]]
  <2>1. /\ x = <<x[1], x[2]>> /\ x[1] \in Live(i) /\ x[2] \in 1 .. descs[i]
        /\ y = <<y[1], y[2]>> /\ y[1] \in Live(j) /\ y[2] \in 1 .. descs[j]
    BY DEF Places
  <2>2. HasBufs(i, x[1]) /\ HasBufs(j, y[1]) /\ x[1] \in Queues /\ y[1] \in Queues
    BY <2>1, LiveHas
  <2>3. ~(i = j /\ x[1] = y[1] /\ x[2] = y[2])
    BY <1>3, <2>1
  <2> QED
    BY <1>a, <2>1, <2>2, <2>3 DEF BufsOK
<1>4. ASSUME NEW i \in Ifs PROVE BufsOf(i, Live(i)) \cap bitmap["buf"] = {}
  BY <1>a, LiveHas, GivenBufs
<1> QED
  BY <1>1, <1>2, <1>3, <1>4 DEF Exclusive

LEMMA NothingLostOf ==
    ASSUME IInv, Idle
    PROVE  /\ \A p \in Pools : obj_free[p] = Cardinality(bitmap[p])
           /\ bitmap["if"] = Objs("if") \ UNION {difs[i] : i \in Ifs}
           /\ bitmap["ring"] = Objs("ring") \ UNION {RingsOf(i, Live(i)) : i \in Ifs}
           /\ bitmap["buf"] = Objs("buf") \ UNION {BufsOf(i, Live(i)) : i \in Ifs}
<1>a. Types /\ Counts /\ IfsOK /\ RingsOK /\ BufsOK /\ \A i \in Ifs : pc[i] = "idle"
  BY DEF IInv, Idle
<1>b. /\ bitmap["if"] \subseteq Objs("if") /\ bitmap["ring"] \subseteq Objs("ring")
      /\ bitmap["buf"] \subseteq Objs("buf") /\ Objs("if") \subseteq Nat
  BY <1>a, PoolFinite DEF Counts, Pools
<1>1. \A p \in Pools : obj_free[p] = Cardinality(bitmap[p])
  BY <1>a DEF Counts
<1>2. bitmap["if"] = Objs("if") \ UNION {difs[i] : i \in Ifs}
  <2>1. \A i \in Ifs : \A d : HasIf(i, d) <=> d \in difs[i]
    BY <1>a DEF HasIf
  <2>2. \A i \in Ifs : difs[i] \cap bitmap["if"] = {}
    BY <1>a, <2>1 DEF IfsOK, Types
  <2>3. \A d \in Objs("if") : d \in bitmap["if"] \/ \E i \in Ifs : d \in difs[i]
    BY <1>a, <2>1 DEF IfsOK
  <2> QED
    BY <1>b, <2>2, <2>3
<1>3. \A i \in Ifs : \A k \in Queues : (HasRing(i, k) <=> k \in Live(i)) /\ (HasBufs(i, k) <=> k \in Live(i))
  BY <1>a DEF HasRing, HasBufs, Whole, Live
<1>4. bitmap["ring"] = Objs("ring") \ UNION {RingsOf(i, Live(i)) : i \in Ifs}
  <2>1. \A i \in Ifs : RingsOf(i, Live(i)) \cap bitmap["ring"] = {}
    BY <1>a, LiveHas, GivenRings
  <2>2. ASSUME NEW r \in Objs("ring"), r \notin bitmap["ring"]
        PROVE  \E i \in Ifs : r \in RingsOf(i, Live(i))
    <3>1. PICK i \in Ifs, k \in Queues : HasRing(i, k) /\ ring[i][k] = r
      BY <1>a, <2>2 DEF RingsOK
    <3> QED
      BY <1>3, <3>1 DEF RingsOf
  <2> QED
    BY <1>b, <2>1, <2>2
<1>5. bitmap["buf"] = Objs("buf") \ UNION {BufsOf(i, Live(i)) : i \in Ifs}
  <2>1. ASSUME NEW i \in Ifs
        PROVE  /\ BufsOf(i, Live(i)) \cap bitmap["buf"] = {}
               /\ \A b : b \in BufsOf(i, Live(i)) <=>
                      \E k \in Live(i) : \E s \in 1 .. descs[i] : b = Buf(i, k, s)
    BY <1>a, LiveHas, GivenBufs
  <2>2. ASSUME NEW b \in Objs("buf"), b \notin bitmap["buf"]
        PROVE  \E i \in Ifs : b \in BufsOf(i, Live(i))
    <3>1. PICK i \in Ifs, k \in Queues : HasBufs(i, k) /\ \E s \in 1 .. descs[i] : Buf(i, k, s) = b
      BY <1>a, <2>2 DEF BufsOK, Buf
    <3>2. k \in Live(i)
      BY <1>3, <3>1
    <3> QED
      BY <2>1, <3>1, <3>2
  <2> QED
    BY <1>b, <2>1, <2>2
<1> QED
  BY <1>1, <1>2, <1>4, <1>5

\* The counter of a pool stays within its size (dpa_obj_malloc and dpa_obj_free), and no more
\* files are registered than the interface pool has objects.
THEOREM Typing ==
    ASSUME Stale = FALSE, Races = FALSE
    PROVE  Spec => []TypeOK
<1>1. IInv => TypeOK
  BY TypingOf
<1> QED
  BY <1>1, Accounting, PTL

\* No ring and no buffer that a registered interface uses is free or used by another queue or
\* slot, whatever registrations failed half way before (dpa_new_if, dpa_destructor_locked).
THEOREM Exclusion ==
    ASSUME Stale = FALSE, Races = FALSE
    PROVE  Spec => []Exclusive
<1>1. IInv => Exclusive
  BY ExclusiveOf
<1> QED
  BY <1>1, Accounting, PTL

\* Between calls all is free but what the registered interfaces hold: neither a dpa_new_if
\* that failed half way nor the releases of several interfaces lose or invent an object.
THEOREM Balance ==
    ASSUME Stale = FALSE, Races = FALSE
    PROVE  Spec => []NothingLost
<1>1. IInv => NothingLost
  BY NothingLostOf DEF NothingLost, Objs
<1> QED
  BY <1>1, Accounting, PTL
=============================================================================
