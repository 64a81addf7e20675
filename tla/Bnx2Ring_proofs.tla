---------------------------- MODULE Bnx2Ring_proofs ---------------------------
(***************************************************************************)
(* Proofs about Bnx2Ring, for pages of any length and indices of any width,*)
(* where the ring has two or four pages and resets come at a page's start  *)
(* with no packet waiting (otherwise rx_sync miscounts links).             *)
(*                                                                         *)
(* The argument: the offset between the NIC's indices and the kring's is   *)
(* always a whole number of pages, so that links lie at the same places in *)
(* both, and all can be counted in steps up the ring from hwcur.           *)
(***************************************************************************)
EXTENDS Bnx2Ring, FiniteSetTheorems, WellFoundedInduction, TLAPS

----------------------------------------------------------------------------
(* Division.                                                                *)

LEMMA DivIs ==
    ASSUME NEW n \in Nat \ {0}, NEW x \in Int
    PROVE  x % n \in 0 .. n - 1 /\ x \div n \in Int /\ x = (x \div n) * n + (x % n)
<1>1. x % n \in 0 .. n - 1 /\ x \div n \in Int
  OBVIOUS
<1>2. x = (x \div n) * n + (x % n)
  OBVIOUS
<1> QED
  BY <1>1, <1>2

LEMMA DivUnique ==
    ASSUME NEW n \in Nat \ {0}, NEW k \in Int, NEW r \in 0 .. n - 1
    PROVE  (k * n + r) % n = r /\ (k * n + r) \div n = k
OBVIOUS

LEMMA ModSmall ==
    ASSUME NEW n \in Nat \ {0}, NEW x \in 0 .. n - 1
    PROVE  x % n = x /\ x \div n = 0
OBVIOUS

\* whole turns do not matter
LEMMA Turns ==
    ASSUME NEW n \in Nat \ {0}, NEW k \in Int, NEW x \in Int
    PROVE  (x + k * n) % n = x % n /\ (x + k * n) \div n = x \div n + k
<1> DEFINE j == x \div n
           r == x % n
<1>1. r \in 0 .. n - 1 /\ j \in Int /\ x = j * n + r
  BY DivIs
<1> HIDE DEF j, r
<1>2. j + k \in Int /\ x + k * n = (j + k) * n + r
  BY <1>1
<1>3. (x + k * n) % n = r /\ (x + k * n) \div n = j + k
  BY <1>1, <1>2, DivUnique
<1> QED
  BY <1>3 DEF j, r

LEMMA ModMod ==
    ASSUME NEW n \in Nat \ {0}, NEW m \in Nat \ {0}, NEW x \in Int
    PROVE  (x % (m * n)) % n = x % n
<1> DEFINE w == m * n
           j == x \div w
           r == x % w
<1>1. w \in Nat \ {0}
  OBVIOUS
<1>2. r \in Int /\ j \in Int /\ x = j * w + r
  <2> HIDE DEF w
  <2> QED
    BY <1>1, DivIs
<1> HIDE DEF j, r
<1>3. (0 - j) * m \in Int /\ r = x + ((0 - j) * m) * n
  BY <1>2
<1>4. r % n = x % n
  BY <1>3, Turns
<1> QED
  BY <1>4 DEF r

LEMMA MulMono ==
    ASSUME NEW x \in Int, NEW y \in Int, NEW n \in Nat, x <= y
    PROVE  x * n <= y * n /\ (x + y) * n = x * n + y * n
OBVIOUS

\* a sum may be reduced before or after
LEMMA ModSum ==
    ASSUME NEW n \in Nat \ {0}, NEW x \in Int, NEW y \in Int
    PROVE  ((x % n) + y) % n = (x + y) % n /\ (x - (y % n)) % n = (x - y) % n
<1>1. /\ x % n \in Int /\ x \div n \in Int /\ x = (x \div n) * n + (x % n)
      /\ y % n \in Int /\ y \div n \in Int /\ y = (y \div n) * n + (y % n)
  BY DivIs
<1> DEFINE j == x \div n
           r == x % n
           k == y \div n
           s == y % n
<1>2. r \in Int /\ j \in Int /\ x = j * n + r /\ s \in Int /\ k \in Int /\ y = k * n + s
  BY <1>1
<1> HIDE DEF j, r, k, s
<1>3. x + y = (r + y) + j * n /\ r + y \in Int
  BY <1>2
<1>4. x - s = (x - y) + k * n /\ x - y \in Int
  BY <1>2
<1>5. (x + y) % n = (r + y) % n
  BY <1>2, <1>3, Turns
<1>6. (x - s) % n = (x - y) % n
  BY <1>2, <1>4, Turns
<1> QED
  BY <1>5, <1>6 DEF r, s

\* from x up to y, and y steps up from x
LEMMA StepsUp ==
    ASSUME NEW n \in Nat \ {0}, NEW x \in 0 .. n - 1, NEW y \in 0 .. n - 1
    PROVE  (y - x) % n \in 0 .. n - 1 /\ (x + ((y - x) % n)) % n = y
<1> DEFINE z == y - x
           m == z % n
<1>1. z \in Int /\ z + x = y /\ x \in Int
  OBVIOUS
<1> HIDE DEF z
<1>a. m \in 0 .. n - 1
  BY <1>1, DivIs
<1>b. (m + x) % n = (z + x) % n
  BY <1>1, ModSum, Zenon
<1>2. m \in 0 .. n - 1 /\ (m + x) % n = (z + x) % n
  BY <1>a, <1>b
<1>3. (m + x) % n = y
  BY <1>1, <1>2, ModSmall
<1> HIDE DEF m
<1>4. x + m = m + x
  BY <1>2
<1>5. (x + m) % n = y
  BY <1>3, <1>4
<1> QED
  BY <1>2, <1>5 DEF m, z

LEMMA UpSteps ==
    ASSUME NEW n \in Nat \ {0}, NEW x \in Int, NEW t \in Int
    PROVE  (((x + t) % n) - x) % n = t % n /\ (t \in 0 .. n - 1 => (((x + t) % n) - x) % n = t)
<1> DEFINE z == x + t
           w == 0 - x
           m == z % n
<1>1. z \in Int /\ w \in Int /\ z + w = t
  OBVIOUS
<1> HIDE DEF z, w
<1>a. m \in Int
  BY <1>1, DivIs
<1>b. (m + w) % n = (z + w) % n
  BY <1>1, ModSum, Zenon
<1>2. m \in Int /\ (m + w) % n = (z + w) % n
  BY <1>a, <1>b
<1> HIDE DEF m
<1>3. m + w = m - x
  BY <1>2 DEF w
<1>4. (m - x) % n = t % n
  BY <1>1, <1>2, <1>3
<1>5. t \in 0 .. n - 1 => t % n = t
  BY ModSmall
<1> QED
  BY <1>4, <1>5 DEF m, z

\* what is less than a turn apart is told apart
LEMMA Apart ==
    ASSUME NEW n \in Nat \ {0}, NEW x \in Int, NEW s \in 0 .. n - 1, NEW t \in 0 .. n - 1,
           (x + s) % n = (x + t) % n
    PROVE  s = t
<1>1. s \in Int /\ t \in Int
  OBVIOUS
<1>2. (((x + s) % n) - x) % n = s
  BY <1>1, UpSteps
<1>3. (((x + t) % n) - x) % n = t
  BY <1>1, UpSteps
<1> DEFINE a == (x + s) % n
           b == (x + t) % n
<1>4. a = b /\ (a - x) % n = s /\ (b - x) % n = t
  BY <1>2, <1>3
<1> HIDE DEF a, b
<1> QED
  BY <1>4

LEMMA Induct ==
    ASSUME NEW S \in SUBSET Nat, 0 \in S, \A m \in S : m + 1 \in S
    PROVE  S = Nat
<1> SUFFICES ASSUME Nat \ S # {} PROVE FALSE
  OBVIOUS
<1>1. \E x \in Nat \ S : \A y \in Nat \ S : <<y, x>> \notin OpToRel(<, Nat)
  BY NatLessThanWellFounded, WFMin
<1>2. PICK x \in Nat \ S : \A y \in Nat \ S : ~(y < x)
  BY <1>1 DEF OpToRel
<1>3. x - 1 \in Nat /\ x - 1 < x /\ (x - 1) + 1 = x
  BY <1>2
<1> QED
  BY <1>2, <1>3

----------------------------------------------------------------------------
(* The constants.                                                           *)

\* the ring has as many pages as it has buffers for, and resets come where links agree
Legal == CleanResets /\ Pages # 3

LEMMA Params ==
    ASSUME Legal
    PROVE  /\ Page \in Nat \ {0} /\ Page >= 4 /\ Page - 1 \in Nat \ {0}
           /\ Pages \in Nat \ {0} /\ Pages >= 2 /\ Pages <= 4
           /\ Num = Pages * Page /\ RingSize = Pages * (Page - 1) /\ RingSize = Num - Pages
           /\ Num \in Nat \ {0} /\ Num >= 8 /\ RingSize \in Nat \ {0}
           /\ Word \in Nat \ {0} /\ Word >= 2 * Num /\ \E q \in Nat \ {0} : Word = q * Num
           /\ Batch \in Nat \ {0} /\ MaxResvd \in Nat /\ MaxResets \in Nat
<1>1. /\ Page \in Nat \ {0} /\ Page >= 4 /\ Page - 1 \in Nat \ {0}
      /\ Pages \in {2, 4} /\ MaxRing = Pages
      /\ Batch \in Nat \ {0} /\ MaxResvd \in Nat /\ MaxResets \in Nat
  BY Bnx2RingAssumption DEF Legal, MaxRing
<1>2. Num = Pages * Page /\ RingSize = Pages * (Page - 1)
  BY <1>1 DEF Num, RingSize
<1>3. Num \in Nat \ {0} /\ Num >= 8 /\ RingSize = Num - Pages /\ RingSize \in Nat \ {0}
  BY <1>1, <1>2
<1>4. PICK q \in 2 .. Word : Word = q * Num
  BY Bnx2RingAssumption
<1>5. Word \in Nat
  BY Bnx2RingAssumption
<1>6. q \in Nat \ {0} /\ q >= 2 /\ Word >= 2 * Num /\ Word # 0
  BY <1>3, <1>4, <1>5
<1> QED
  BY <1>1, <1>2, <1>3, <1>4, <1>5, <1>6

LEMMA Mods ==
    ASSUME Legal, NEW x \in Int
    PROVE  /\ x % Page \in 0 .. Page - 1 /\ x % Num \in Slots /\ x % Word \in Words
           /\ (x % Num) % Page = x % Page
           /\ (x % Word) % Num = x % Num
           /\ (x % Word) % Page = x % Page
<1>1. x % Page \in 0 .. Page - 1 /\ x % Num \in Slots /\ x % Word \in Words
  BY Params, DivIs DEF Slots, Words
<1>2. \A y \in Int : (y % Num) % Page = y % Page
  <2>1. Page \in Nat \ {0} /\ Pages \in Nat \ {0} /\ Num = Pages * Page
    BY Params
  <2>2. \A y \in Int : (y % (Pages * Page)) % Page = y % Page
    BY <2>1, ModMod, Zenon
  <2> QED
    BY <2>1, <2>2
<1>3. (x % Word) % Num = x % Num
  <2>1. PICK q \in Nat \ {0} : Word = q * Num
    BY Params
  <2>2. Num \in Nat \ {0}
    BY Params
  <2>3. (x % (q * Num)) % Num = x % Num
    BY <2>2, ModMod, Zenon
  <2> QED
    BY <2>1, <2>3
<1>4. x % Word \in Int
  BY <1>1, Params DEF Words
<1>5. (x % Word) % Page = x % Page
  BY <1>2, <1>3, <1>4
<1> QED
  BY <1>1, <1>2, <1>3, <1>5

LEMMA Wraps ==
    ASSUME Legal, NEW x \in Int, NEW y \in Int
    PROVE  /\ ((x % Page) + y) % Page = (x + y) % Page /\ (x - (y % Page)) % Page = (x - y) % Page
           /\ ((x % Num) + y) % Num = (x + y) % Num /\ (x - (y % Num)) % Num = (x - y) % Num
           /\ ((x % Word) + y) % Word = (x + y) % Word /\ (x - (y % Word)) % Word = (x - y) % Word
<1>1. Page \in Nat \ {0} /\ Num \in Nat \ {0} /\ Word \in Nat \ {0}
  BY Params
<1> QED
  BY <1>1, ModSum, Zenon

LEMMA SmallMods ==
    ASSUME Legal
    PROVE  /\ \A x \in 0 .. Page - 1 : x % Page = x
           /\ \A x \in Slots : x % Num = x
           /\ \A x \in Words : x % Word = x
BY Params, ModSmall DEF Slots, Words

----------------------------------------------------------------------------
(* Advance is NEXT_RX_BD taken again and again.                             *)

IsIter(f, x, m) == f = [j \in 0 .. m |-> IF j = 0 THEN x ELSE NextBd(f[j - 1])]

LEMMA AdvanceIsIter ==
    ASSUME NEW x, NEW m
    PROVE  Advance(x, m) = (CHOOSE f : IsIter(f, x, m))[m]
BY Zenon DEF Advance, IsIter

LEMMA IterExists ==
    ASSUME NEW x, NEW m \in Nat
    PROVE  \E f : IsIter(f, x, m)
<1> DEFINE S == {k \in Nat : \E f : IsIter(f, x, k)}
<1>1. 0 \in S
  <2>1. IsIter([j \in 0 .. 0 |-> x], x, 0)
    BY DEF IsIter
  <2> QED
    BY <2>1
<1>2. ASSUME NEW k \in S PROVE k + 1 \in S
  <2>1. k \in Nat /\ k + 1 \in Nat
    OBVIOUS
  <2>2. PICK f : IsIter(f, x, k)
    BY <1>2
  <2> DEFINE g == [j \in 0 .. k + 1 |-> IF j <= k THEN f[j] ELSE NextBd(f[k])]
  <2>3. \A j \in 0 .. k : f[j] = IF j = 0 THEN x ELSE NextBd(f[j - 1])
    BY <2>2 DEF IsIter
  <2>4. ASSUME NEW j \in 0 .. k + 1 PROVE g[j] = IF j = 0 THEN x ELSE NextBd(g[j - 1])
    <3>1. CASE j = 0
      BY <2>1, <2>3, <3>1
    <3>2. CASE j # 0 /\ j <= k
      <4>1. j \in 0 .. k /\ j - 1 \in 0 .. k /\ j - 1 \in 0 .. k + 1 /\ j - 1 <= k
        BY <2>1, <3>2
      <4>2. g[j] = f[j] /\ g[j - 1] = f[j - 1]
        BY <3>2, <4>1
      <4> QED
        BY <2>3, <3>2, <4>1, <4>2
    <3>3. CASE j = k + 1
      <4>1. k \in 0 .. k + 1 /\ j - 1 = k /\ ~(j <= k) /\ j # 0 /\ k <= k
        BY <2>1, <3>3
      <4>2. g[j] = NextBd(f[k]) /\ g[k] = f[k]
        BY <4>1
      <4> QED
        BY <4>1, <4>2
    <3> QED
      BY <2>1, <3>1, <3>2, <3>3
  <2>5. IsIter(g, x, k + 1)
    <3>1. g = [j \in 0 .. k + 1 |-> g[j]]
      OBVIOUS
    <3> HIDE DEF g
    <3> QED
      BY <2>4, <3>1 DEF IsIter
  <2> QED
    BY <2>1, <2>5
<1> HIDE DEF S
<1>3. S = Nat
  <2>1. S \in SUBSET Nat
    BY DEF S
  <2> QED
    BY <1>1, <1>2, <2>1, Induct
<1> QED
  BY <1>3 DEF S

LEMMA IterUnique ==
    ASSUME NEW x, NEW m \in Nat, NEW f, IsIter(f, x, m), NEW g, IsIter(g, x, m + 1)
    PROVE  f[m] = g[m]
<1> DEFINE S == {k \in Nat : k <= m => f[k] = g[k]}
<1>1. /\ \A j \in 0 .. m : f[j] = IF j = 0 THEN x ELSE NextBd(f[j - 1])
      /\ \A j \in 0 .. m + 1 : g[j] = IF j = 0 THEN x ELSE NextBd(g[j - 1])
  BY DEF IsIter
<1>2. 0 \in S
  <2>1. 0 \in 0 .. m /\ 0 \in 0 .. m + 1
    OBVIOUS
  <2> QED
    BY <1>1, <2>1
<1>3. ASSUME NEW k \in S PROVE k + 1 \in S
  <2>1. SUFFICES ASSUME k + 1 <= m PROVE f[k + 1] = g[k + 1]
    OBVIOUS
  <2>2. /\ k + 1 \in 0 .. m /\ k + 1 \in 0 .. m + 1 /\ (k + 1) - 1 = k /\ k + 1 # 0
        /\ f[k] = g[k]
    BY <2>1
  <2>3. f[k + 1] = NextBd(f[k])
    BY <1>1, <2>2
  <2>4. g[k + 1] = NextBd(g[k])
    BY <1>1, <2>2
  <2> QED
    BY <2>2, <2>3, <2>4
<1> HIDE DEF S
<1>4. S = Nat
  <2>1. S \in SUBSET Nat
    BY DEF S
  <2> QED
    BY <1>2, <1>3, <2>1, Induct
<1> QED
  BY <1>4 DEF S

LEMMA AdvanceIs ==
    ASSUME NEW x, NEW m \in Nat
    PROVE  Advance(x, 0) = x /\ Advance(x, m + 1) = NextBd(Advance(x, m))
<1> DEFINE f(k) == CHOOSE h : IsIter(h, x, k)
<1>1. \A k \in Nat : IsIter(f(k), x, k) /\ Advance(x, k) = f(k)[k]
  BY IterExists, AdvanceIsIter
<1> HIDE DEF f
<1>2. 0 \in Nat /\ m + 1 \in Nat
  OBVIOUS
<1>3. f(0)[0] = x
  BY <1>1, <1>2 DEF IsIter
<1>4. f(m + 1)[m + 1] = NextBd(f(m + 1)[m])
  <2>1. IsIter(f(m + 1), x, m + 1)
    BY <1>1, <1>2
  <2>2. \A j \in 0 .. m + 1 : f(m + 1)[j] = IF j = 0 THEN x ELSE NextBd(f(m + 1)[j - 1])
    BY <2>1 DEF IsIter
  <2>3. m + 1 \in 0 .. m + 1 /\ m + 1 # 0 /\ (m + 1) - 1 = m
    OBVIOUS
  <2> QED
    BY <2>2, <2>3
<1>5. f(m)[m] = f(m + 1)[m]
  BY <1>1, <1>2, IterUnique
<1> QED
  BY <1>1, <1>2, <1>3, <1>4, <1>5

----------------------------------------------------------------------------
(* Steps and links.                                                         *)

\* links that m times NEXT_RX_BD pass from a descriptor at offset a of its page
Links(a, m) == (a + m) \div (Page - 1)

\* buffers among the t descriptors from one at offset a of its page
Data(a, t) == t - ((a + t) \div Page)

Offsets == 0 .. Page - 1
Starts == 0 .. Page - 2         \* of those that are not links

LEMMA PlusPlus ==
    ASSUME Legal, NEW x \in Int, NEW s \in Int, NEW t \in Int
    PROVE  Plus(Plus(x, s), t) = Plus(x, s + t) /\ Plus(x, s) \in Words
<1> DEFINE z == x + s
<1>1. z \in Int /\ z + t = x + (s + t)
  OBVIOUS
<1>2. z % Word \in Words
  BY <1>1, Mods
<1> HIDE DEF z
<1>3. ((z % Word) + t) % Word = (z + t) % Word
  BY <1>1, Wraps
<1> QED
  BY <1>1, <1>2, <1>3 DEF Plus, z

\* where an index lies in its page
LEMMA OffsetOf ==
    ASSUME Legal, NEW x \in Int, NEW t \in Int
    PROVE  Plus(x, t) % Page = ((x % Page) + t) % Page
<1> DEFINE z == x + t
<1>1. z \in Int
  OBVIOUS
<1>2. (z % Word) % Page = z % Page
  <2> HIDE DEF z
  <2> QED
    BY <1>1, Mods
<1>3. z % Page = ((x % Page) + t) % Page
  BY Wraps
<1> QED
  BY <1>2, <1>3 DEF Plus

LEMMA LinksAre ==
    ASSUME Legal, NEW a \in Starts, NEW m \in Nat
    PROVE  /\ Links(a, 0) = 0 /\ Links(a, m) \in Nat
           /\ (a + (m + Links(a, m))) % Page \in Starts
           /\ (a + (m + Links(a, m))) \div Page = Links(a, m)
           /\ Links(a, m + 1) = Links(a, m) +
                  (IF (a + (m + Links(a, m))) % Page = Page - 2 THEN 1 ELSE 0)
<1> DEFINE p == Page - 1
           z == a + m
           L == z \div p
           o == z % p
<1>1. Page \in Nat /\ p \in Nat \ {0} /\ p >= 3 /\ Page = p + 1 /\ a \in 0 .. p - 1 /\ z \in Nat
  BY Params DEF Starts
<1> HIDE DEF p, z
<1>2. o \in 0 .. p - 1 /\ L \in Int /\ z = L * p + o
  BY <1>1, DivIs
<1> HIDE DEF L, o
<1>3. L \in Nat
  BY <1>1, <1>2
<1>4. z + L = L * Page + o /\ o \in 0 .. Page - 1
  BY <1>1, <1>2, <1>3
<1>5. Page \in Nat \ {0}
  BY <1>1
<1>6. (z + L) % Page = o /\ (z + L) \div Page = L
  BY <1>2, <1>4, <1>5, DivUnique
<1>7. Links(a, 0) = 0
  <2>1. a + 0 = a /\ a \div p = 0
    BY <1>1, ModSmall
  <2> QED
    BY <2>1 DEF Links, p
<1>8. Links(a, m) = L
  BY DEF Links, p, z, L
<1>9. a + (m + L) = z + L
  BY <1>3, <1>1 DEF z, Starts
<1>10. Links(a, m + 1) = L + (IF o = p - 1 THEN 1 ELSE 0)
  <2>1. a + (m + 1) = z + 1
    BY <1>1 DEF z
  <2>2. CASE o = p - 1
    <3>1. z + 1 = (L + 1) * p + 0 /\ L + 1 \in Int /\ 0 \in 0 .. p - 1
      BY <1>1, <1>2, <1>3, <2>2
    <3>2. (z + 1) \div p = L + 1
      BY <1>1, <3>1, DivUnique
    <3> QED
      BY <2>1, <2>2, <3>2 DEF Links, p
  <2>3. CASE o # p - 1
    <3>1. z + 1 = L * p + (o + 1) /\ o + 1 \in 0 .. p - 1
      BY <1>1, <1>2, <1>3, <2>3
    <3>2. (z + 1) \div p = L
      BY <1>1, <1>2, <3>1, DivUnique
    <3>3. L + 0 = L
      BY <1>3
    <3> QED
      BY <2>1, <2>3, <3>2, <3>3 DEF Links, p
  <2> QED
    BY <2>2, <2>3
<1> QED
  BY <1>1, <1>2, <1>3, <1>6, <1>7, <1>8, <1>9, <1>10 DEF p, Starts

LEMMA NextBdAt ==
    ASSUME Legal, NEW x \in Int, NEW t \in Int
    PROVE  NextBd(Plus(x, t)) =
               Plus(x, t + (IF ((x % Page) + t) % Page \in {Page - 2, Page - 1} THEN 2 ELSE 1))
<1>1. Plus(x, t) % Page = ((x % Page) + t) % Page
  BY OffsetOf
<1>2. Plus(Plus(x, t), 1) = Plus(x, t + 1) /\ Plus(Plus(x, t), 2) = Plus(x, t + 2)
  BY PlusPlus
<1>3. CASE ((x % Page) + t) % Page \in {Page - 2, Page - 1}
  BY <1>1, <1>2, <1>3 DEF NextBd
<1>4. CASE ((x % Page) + t) % Page \notin {Page - 2, Page - 1}
  BY <1>1, <1>2, <1>4 DEF NextBd
<1> QED
  BY <1>3, <1>4

\* one more NEXT_RX_BD
LEMMA NextBdLinks ==
    ASSUME Legal, NEW x \in Words, x % Page \in Starts, NEW m \in Nat
    PROVE  NextBd(Plus(x, m + Links(x % Page, m))) = Plus(x, (m + 1) + Links(x % Page, m + 1))
<1> DEFINE a == x % Page
           L == Links(a, m)
           M == Links(a, m + 1)
           o == (a + (m + L)) % Page
<1>1. L \in Nat /\ o \in Starts /\ M = L + (IF o = Page - 2 THEN 1 ELSE 0)
  BY LinksAre
<1>2. x \in Int /\ m + L \in Int
  BY <1>1 DEF Words
<1> HIDE DEF L, M
<1>3. NextBd(Plus(x, m + L)) =
          Plus(x, (m + L) + (IF o \in {Page - 2, Page - 1} THEN 2 ELSE 1))
  BY <1>2, NextBdAt
<1> HIDE DEF o
<1>4. (m + L) + (IF o \in {Page - 2, Page - 1} THEN 2 ELSE 1) = (m + 1) + M
  BY <1>1, Params DEF Starts
<1> QED
  BY <1>3, <1>4 DEF L, M

LEMMA AdvanceAt ==
    ASSUME Legal, NEW x \in Words, x % Page \in Starts, NEW m \in Nat
    PROVE  Advance(x, m) = Plus(x, m + Links(x % Page, m))
<1> DEFINE S == {k \in Nat : Advance(x, k) = Plus(x, k + Links(x % Page, k))}
<1>1. 0 \in S
  <2>1. Links(x % Page, 0) = 0
    BY LinksAre
  <2>2. x \in Int /\ x + (0 + 0) = x /\ x % Word = x
    BY SmallMods, Params DEF Words
  <2>3. Plus(x, 0 + 0) = x
    BY <2>2 DEF Plus
  <2> QED
    BY <2>1, <2>3, AdvanceIs
<1>2. ASSUME NEW k \in S PROVE k + 1 \in S
  BY <1>2, AdvanceIs, NextBdLinks
<1> HIDE DEF S
<1>3. S = Nat
  <2>1. S \in SUBSET Nat
    BY DEF S
  <2> QED
    BY <1>1, <1>2, <2>1, Induct
<1> QED
  BY <1>3 DEF S

\* where the buffers are posted, and how far
LEMMA PostedIs ==
    ASSUME Legal, NEW d \in Slots, d % Page \in Starts
    PROVE  d \in Posted
<1> DEFINE p == d \div Page
           o == d % Page
           m == p * (Page - 1) + o
<1>1. /\ Page \in Nat \ {0} /\ Page >= 4 /\ Page - 1 \in Nat \ {0}
      /\ Pages \in Nat \ {0} /\ d \in Nat /\ d < Pages * Page
  BY Params DEF Slots
<1>a. p \in Int /\ d = p * Page + o
  BY <1>1, DivIs
<1>b. o \in 0 .. Page - 2
  BY DEF Starts
<1>2. p \in Int /\ d = p * Page + o /\ o \in 0 .. Page - 2
  BY <1>a, <1>b
<1> HIDE DEF p, o
<1>3. p >= 0 /\ p < Pages
  <2>1. CASE p < 0
    <3>1. p * Page <= (0 - 1) * Page
      BY <1>1, <1>2, <2>1
    <3> QED
      BY <1>1, <1>2, <3>1
  <2>2. CASE p >= Pages
    <3>1. p * Page >= Pages * Page
      BY <1>1, <1>2, <2>2
    <3> QED
      BY <1>1, <1>2, <3>1
  <2> QED
    BY <1>1, <1>2, <2>1, <2>2
<1>4. m \in Nat /\ m + p = d /\ m < RingSize
  <2>1. m = p * Page - p + o
    BY <1>1, <1>2
  <2>2. m + p = d
    BY <1>1, <1>2, <2>1
  <2>3. p * (Page - 1) >= 0 /\ p * (Page - 1) <= (Pages - 1) * (Page - 1)
    BY <1>1, <1>2, <1>3
  <2>4. (Pages - 1) * (Page - 1) = RingSize - (Page - 1)
    BY <1>1, Params
  <2> QED
    BY <1>1, <1>2, <2>2, <2>3, <2>4, Params
<1>5. m \div (Page - 1) = p
  <2>1. o \in 0 .. (Page - 1) - 1
    BY <1>1, <1>2
  <2> QED
    BY <1>1, <1>2, <2>1, DivUnique
<1> HIDE DEF m
<1>6. 0 \in Words /\ 0 % Page = 0 /\ 0 \in Starts
  BY <1>1, Params, SmallMods DEF Words, Starts
<1>7. Links(0, m) = p
  BY <1>4, <1>5 DEF Links
<1>8. Advance(0, m) = Plus(0, m + p)
  BY <1>4, <1>6, <1>7, AdvanceAt
<1>9. Plus(0, d) = d
  <2>1. d \in Words /\ 0 + d = d
    BY <1>1, Params DEF Words, Slots
  <2> QED
    BY <2>1, SmallMods DEF Plus
<1> QED
  BY <1>4, <1>8, <1>9, Params DEF Posted

LEMMA PostedEnd ==
    ASSUME Legal
    PROVE  Advance(0, RingSize) = Num
<1>1. /\ Page - 1 \in Nat \ {0} /\ Pages \in Int /\ 0 \in 0 .. (Page - 1) - 1
      /\ RingSize = Pages * (Page - 1) + 0 /\ RingSize \in Nat
  BY Params
<1>2. (Pages * (Page - 1) + 0) \div (Page - 1) = Pages
  BY <1>1, DivUnique
<1>3. Links(0, RingSize) = Pages
  BY <1>1, <1>2 DEF Links
<1>4. 0 \in Words /\ 0 % Page = 0 /\ 0 \in Starts
  BY Params, SmallMods DEF Words, Starts
<1>5. Advance(0, RingSize) = Plus(0, RingSize + Pages)
  BY <1>1, <1>3, <1>4, AdvanceAt
<1>6. RingSize + Pages = Num /\ 0 + Num = Num /\ Num \in Words
  BY Params DEF Words
<1> QED
  BY <1>5, <1>6, SmallMods DEF Plus

LEMMA DataAre ==
    ASSUME Legal, NEW a \in Offsets, NEW t \in Nat
    PROVE  /\ Data(a, 0) = 0 /\ Data(a, t) \in Int
           /\ Data(a, t + 1) = Data(a, t) + (IF (a + t) % Page = Page - 1 THEN 0 ELSE 1)
<1> DEFINE z == a + t
           p == z \div Page
           o == z % Page
<1>1. Page \in Nat \ {0} /\ a \in 0 .. Page - 1 /\ z \in Nat
  BY Params DEF Offsets
<1> HIDE DEF z
<1>2. p \in Int /\ o \in 0 .. Page - 1 /\ z = p * Page + o
  BY <1>1, DivIs
<1>3. Data(a, t) = t - p
  BY DEF Data, z
<1> HIDE DEF p, o
<1>4. Data(a, 0) = 0
  <2>1. a + 0 = a /\ a \div Page = 0
    BY <1>1, ModSmall
  <2> QED
    BY <2>1 DEF Data
<1>5. a + (t + 1) = z + 1
  BY <1>1 DEF z
<1>6. Data(a, t + 1) = (t + 1) - ((z + 1) \div Page)
  BY <1>5 DEF Data
<1>7. CASE o = Page - 1
  <2>1. z + 1 = (p + 1) * Page + 0 /\ p + 1 \in Int /\ 0 \in 0 .. Page - 1
    BY <1>1, <1>2, <1>7
  <2>2. (z + 1) \div Page = p + 1
    BY <1>1, <2>1, DivUnique
  <2>3. (t + 1) - (p + 1) = (t - p) + 0
    BY <1>2
  <2> QED
    BY <1>2, <1>3, <1>4, <1>6, <1>7, <2>2, <2>3 DEF o, z
<1>8. CASE o # Page - 1
  <2>1. z + 1 = p * Page + (o + 1) /\ o + 1 \in 0 .. Page - 1
    BY <1>1, <1>2, <1>8
  <2>2. (z + 1) \div Page = p
    BY <1>1, <1>2, <2>1, DivUnique
  <2>3. (t + 1) - p = (t - p) + 1
    BY <1>2
  <2> QED
    BY <1>2, <1>3, <1>4, <1>6, <1>8, <2>2, <2>3 DEF o, z
<1> QED
  BY <1>7, <1>8

LEMMA DataSum ==
    ASSUME Legal, NEW a \in Offsets, NEW s \in Nat, NEW t \in Nat
    PROVE  Data(a, s + t) = Data(a, s) + Data((a + s) % Page, t)
<1> DEFINE z == a + s
           p == z \div Page
           o == z % Page
<1>1. Page \in Nat \ {0} /\ a \in Nat /\ z \in Nat /\ z + t = a + (s + t)
  BY Params DEF Offsets
<1> HIDE DEF z
<1>2. p \in Int /\ o \in Int /\ z = p * Page + o
  BY <1>1, DivIs
<1> HIDE DEF p, o
<1>3. z + t = (o + t) + p * Page /\ o + t \in Int
  BY <1>1, <1>2
<1>4. (z + t) \div Page = (o + t) \div Page + p
  BY <1>1, <1>2, <1>3, Turns
<1>5. (o + t) \div Page \in Int
  BY <1>1, <1>3, DivIs
<1>6. Data(a, s + t) = (s + t) - ((z + t) \div Page)
  BY <1>1 DEF Data
<1>7. Data(a, s) = s - p /\ Data(o, t) = t - ((o + t) \div Page)
  BY DEF Data, z, p
<1>8. (s + t) - ((z + t) \div Page) = (s - p) + (t - ((o + t) \div Page))
  BY <1>2, <1>4, <1>5
<1> QED
  BY <1>6, <1>7, <1>8 DEF o, z

\* NEXT_RX_BD passes one buffer each time
LEMMA DataLinks ==
    ASSUME Legal, NEW a \in Starts, NEW m \in Nat
    PROVE  Data(a, m + Links(a, m)) = m
<1>1. (a + (m + Links(a, m))) \div Page = Links(a, m) /\ Links(a, m) \in Nat
  BY LinksAre
<1> QED
  BY <1>1 DEF Data

\* rx_sync counts the links between two slots by the pages they lie in
LEMMA CrossedIs ==
    ASSUME Legal, NEW k0 \in Slots, k0 % Page \in Starts, i \in 0 .. RingSize - 1
    PROVE  /\ Links(k0 % Page, i) \in 0 .. Pages
           /\ Crossed(k0, (k0 + (i + Links(k0 % Page, i))) % Num) = Links(k0 % Page, i)
<1> DEFINE p == k0 \div Page
           a == k0 % Page
           L == Links(a, i)
           o == (a + (i + L)) % Page
           z == k0 + (i + L)
           k1 == z % Num
<1>1. /\ Page \in Nat \ {0} /\ Page >= 4 /\ Pages \in Nat \ {0} /\ Pages >= 2 /\ Pages <= 4
      /\ Num = Pages * Page /\ RingSize = Pages * (Page - 1) /\ Num \in Nat \ {0}
      /\ i \in Nat /\ i < RingSize /\ k0 \in Nat /\ k0 < Num
  BY Params DEF Slots
<1>2. p \in Int /\ k0 = p * Page + a
  BY <1>1, DivIs
<1>3. a \in 0 .. Page - 2
  BY DEF Starts
<1>4. L \in Nat /\ o \in Starts /\ (a + (i + L)) \div Page = L
  BY <1>1, LinksAre
<1>5. (a + (i + L)) = L * Page + o
  <2>1. a + (i + L) \in Int
    BY <1>1, <1>3, <1>4
  <2> HIDE DEF L
  <2> QED
    BY <1>1, <1>4, <2>1, DivIs
<1> HIDE DEF p, a, L, o
<1>6. p \in 0 .. Pages - 1
  <2>1. CASE p < 0
    <3>1. p * Page <= (0 - 1) * Page
      BY <1>1, <1>2, <2>1
    <3> QED
      BY <1>1, <1>2, <1>3, <3>1
  <2>2. CASE p >= Pages
    <3>1. p * Page >= Pages * Page
      BY <1>1, <1>2, <2>2
    <3> QED
      BY <1>1, <1>2, <1>3, <3>1
  <2> QED
    BY <1>1, <1>2, <2>1, <2>2
<1>7. a + i = L * (Page - 1) + o /\ o \in 0 .. Page - 2 /\ o \in Int
  BY <1>1, <1>3, <1>4, <1>5 DEF Starts
<1>8. L <= Pages
  <2>1. CASE L >= Pages + 1
    <3>1. (Pages + 1) * (Page - 1) <= L * (Page - 1)
      <4>1. L \in Int /\ Pages + 1 \in Int /\ Page - 1 \in Nat /\ Pages + 1 <= L
        BY <1>1, <1>4, <2>1
      <4> QED
        BY <4>1, MulMono, Zenon
    <3>2. (Pages + 1) * (Page - 1) = Pages * (Page - 1) + (Page - 1)
      BY <1>1
    <3> DEFINE x == L * (Page - 1)
               y == Pages * (Page - 1)
    <3>3. x \in Int /\ y \in Int /\ a + i = x + o /\ i < y /\ y + (Page - 1) <= x
      BY <1>1, <1>4, <1>7, <3>1, <3>2
    <3> HIDE DEF x, y
    <3> QED
      BY <1>1, <1>3, <1>7, <3>3
  <2> QED
    BY <1>1, <1>4, <2>1
<1>9. z = (p + L) * Page + o
  <2>1. z = p * Page + (a + (i + L))
    BY <1>1, <1>2, <1>3, <1>4 DEF z
  <2>2. (p + L) * Page = p * Page + L * Page
    <3>1. p \in Int /\ L \in Int /\ Page \in Int
      BY <1>1, <1>2, <1>4
    <3> QED
      BY <3>1
  <2>3. p * Page \in Int /\ L * Page \in Int
    BY <1>1, <1>2, <1>4
  <2> QED
    BY <1>5, <1>7, <2>1, <2>2, <2>3
<1>10. RxRing(k0) = p /\ RxRing(RingSize) + 1 = Pages
  <2>1. RxRing(k0) = p
    BY DEF RxRing, p
  <2>2. RingSize = (Pages - 1) * Page + (Page - Pages) /\ Page - Pages \in 0 .. Page - 1
    BY <1>1
  <2>4. Pages - 1 \in Int
    BY <1>1
  <2>3. ((Pages - 1) * Page + (Page - Pages)) \div Page = Pages - 1
    BY <1>1, <2>2, <2>4, DivUnique, Zenon
  <2> QED
    BY <1>1, <2>1, <2>2, <2>3 DEF RxRing
<1>11. RxRing(k1) = IF p + L < Pages THEN p + L ELSE p + L - Pages
  <2>1. CASE p + L < Pages
    <3>1. z \in 0 .. Num - 1
      <4>1. (p + L) * Page <= (Pages - 1) * Page /\ (p + L) * Page >= 0
        BY <1>1, <1>4, <1>6, <2>1
      <4>2. (Pages - 1) * Page = Num - Page
        BY <1>1
      <4> QED
        BY <1>1, <1>4, <1>6, <1>7, <1>9, <4>1, <4>2
    <3>2. z % Num = z
      BY <1>1, <3>1, ModSmall
    <3>3. z \div Page = p + L
      <4>1. p + L \in Int /\ o \in 0 .. Page - 1
        BY <1>1, <1>4, <1>6, <1>7
      <4> QED
        BY <1>1, <1>9, <4>1, DivUnique
    <3> QED
      BY <2>1, <3>2, <3>3 DEF RxRing
  <2>2. CASE ~(p + L < Pages)
    <3> DEFINE y == (p + L - Pages) * Page + o
    <3>1. p + L - Pages \in 0 .. Pages - 1
      BY <1>1, <1>4, <1>6, <1>8, <2>2
    <3>2. y \in 0 .. Num - 1
      <4>1. (p + L - Pages) * Page <= (Pages - 1) * Page /\ (p + L - Pages) * Page >= 0
        BY <1>1, <3>1
      <4>2. (Pages - 1) * Page = Num - Page
        BY <1>1
      <4> QED
        BY <1>1, <1>7, <3>1, <4>1, <4>2
    <3>3. z = y + 1 * Num
      BY <1>1, <1>4, <1>6, <1>7, <1>9
    <3>4. z % Num = y
      <4> HIDE DEF y, z
      <4>1. (y + 1 * Num) % Num = y % Num
        BY <1>1, <3>2, Turns
      <4> QED
        BY <1>1, <3>2, <3>3, <4>1, ModSmall
    <3>5. y \div Page = p + L - Pages
      <4>1. p + L - Pages \in Int /\ o \in 0 .. Page - 1
        BY <1>1, <1>7, <3>1
      <4> QED
        BY <1>1, <4>1, DivUnique
    <3> QED
      BY <2>2, <3>4, <3>5 DEF RxRing
  <2> QED
    BY <2>1, <2>2
<1>12. L = 0 => ~(i > Page - 1)
  BY <1>1, <1>3, <1>7
<1>13. L = Pages => i > Page - 1
  <2>1. L = Pages => a + i >= 2 * (Page - 1)
    <3>1. SUFFICES ASSUME L = Pages PROVE a + i >= 2 * (Page - 1)
      OBVIOUS
    <3>2. Pages * (Page - 1) >= 2 * (Page - 1)
      BY <1>1
    <3> QED
      BY <1>1, <1>3, <1>7, <3>1, <3>2
  <2> QED
    BY <1>1, <1>3, <2>1
<1> HIDE DEF z, k1
<1>14. Crossed(k0, k1) = L
  <2> DEFINE b == RxRing(k0)
             e == RxRing(k1)
  <2>1. Crossed(k0, k1) = IF e < b THEN Pages + e - b
                          ELSE IF e > b THEN e - b
                          ELSE IF i > Page - 1 THEN Pages ELSE 0
    BY <1>10 DEF Crossed
  <2>2. b = p /\ e = IF p + L < Pages THEN p + L ELSE p + L - Pages
    BY <1>10, <1>11
  <2> HIDE DEF b, e
  <2> QED
    BY <1>1, <1>4, <1>6, <1>8, <1>12, <1>13, <2>1, <2>2
<1>15. L \in 0 .. Pages
  BY <1>1, <1>4, <1>8
<1> QED
  BY <1>14, <1>15 DEF L, a, k1, z

Link(x) == IF x % Page = Page - 1 THEN 1 ELSE 0

LEMMA NextOffset ==
    ASSUME Legal, NEW z \in Int
    PROVE  /\ (z + 1) % Page = IF z % Page = Page - 1 THEN 0 ELSE (z % Page) + 1
           /\ z % Page = Page - 1 => (z - 1) % Page = Page - 2
<1> DEFINE p == z \div Page
           o == z % Page
<1>1. Page \in Nat \ {0} /\ Page >= 4
  BY Params
<1>2. p \in Int /\ o \in 0 .. Page - 1 /\ z = p * Page + o
  BY <1>1, DivIs
<1> HIDE DEF p, o
<1>3. CASE o = Page - 1
  <2>1. z + 1 = (p + 1) * Page + 0 /\ p + 1 \in Int /\ 0 \in 0 .. Page - 1
    BY <1>1, <1>2, <1>3
  <2>2. z - 1 = p * Page + (Page - 2) /\ Page - 2 \in 0 .. Page - 1
    BY <1>1, <1>2, <1>3
  <2>4. ((p + 1) * Page + 0) % Page = 0
    BY <1>1, <2>1, DivUnique, Zenon
  <2>5. (p * Page + (Page - 2)) % Page = Page - 2
    BY <1>1, <1>2, <2>2, DivUnique, Zenon
  <2>3. (z + 1) % Page = 0 /\ (z - 1) % Page = Page - 2
    BY <2>1, <2>2, <2>4, <2>5, Zenon
  <2> QED
    BY <1>3, <2>3 DEF o
<1>4. CASE o # Page - 1
  <2>1. z + 1 = p * Page + (o + 1) /\ o + 1 \in 0 .. Page - 1
    BY <1>1, <1>2, <1>4
  <2>3. (p * Page + (o + 1)) % Page = o + 1
    BY <1>1, <1>2, <2>1, DivUnique, Zenon
  <2>2. (z + 1) % Page = o + 1
    BY <2>1, <2>3, Zenon
  <2> QED
    BY <1>4, <2>2 DEF o
<1> QED
  BY <1>3, <1>4

LEMMA LinkIs ==
    ASSUME Legal, NEW z \in Int
    PROVE  /\ Link(z) \in {0, 1} /\ Link(z + 1) \in {0, 1}
           /\ ~(Link(z) = 1 /\ Link(z + 1) = 1)
<1>1. Page >= 4 /\ Page \in Nat
  BY Params
<1>2. Link(z) \in {0, 1} /\ Link(z + 1) \in {0, 1}
  BY DEF Link
<1>3. z % Page = Page - 1 => (z + 1) % Page # Page - 1
  <2>1. z % Page = Page - 1 => (z + 1) % Page = 0
    BY NextOffset, Zenon
  <2> QED
    BY <1>1, <2>1
<1> QED
  BY <1>2, <1>3 DEF Link

\* rx_prod moves on by one buffer for each slot up to n whose successor is not a link's
LEMMA RearmAt ==
    ASSUME Legal, NEW x \in Words, NEW a \in Int, x % Page = (a - Link(a)) % Page, NEW m \in Nat
    PROVE  Advance(x, Cardinality({j \in 1 .. m : Link(a + j) = 0})) =
               Plus(x, m + Link(a) - Link(a + m))
<1> DEFINE J(k) == {j \in 1 .. k : Link(a + j) = 0}
           S == {k \in Nat : /\ IsFiniteSet(J(k)) /\ Cardinality(J(k)) \in Nat
                             /\ Advance(x, Cardinality(J(k))) = Plus(x, k + Link(a) - Link(a + k))}
<1>1. 0 \in S
  <2>1. J(0) = {}
    OBVIOUS
  <2>2. IsFiniteSet(J(0)) /\ Cardinality(J(0)) = 0
    BY <2>1, FS_EmptySet
  <2>3. x \in Int /\ a + 0 = a /\ Link(a) \in {0, 1} /\ x % Word = x
    BY LinkIs, SmallMods, Params DEF Words
  <2>4. 0 + Link(a) - Link(a + 0) = 0 /\ x + 0 = x
    BY <2>3
  <2>5. Plus(x, 0 + Link(a) - Link(a + 0)) = x
    BY <2>3, <2>4 DEF Plus
  <2>6. Advance(x, 0) = x
    BY AdvanceIs
  <2> QED
    BY <2>2, <2>5, <2>6
<1>2. ASSUME NEW k \in S PROVE k + 1 \in S
  <2> DEFINE c == Cardinality(J(k))
  <2>1. /\ k \in Nat /\ IsFiniteSet(J(k)) /\ c \in Nat
        /\ Advance(x, c) = Plus(x, k + Link(a) - Link(a + k))
    BY <1>2
  <2>2. /\ x \in Int /\ a + k \in Int /\ a + (k + 1) = (a + k) + 1
        /\ Link(a) \in {0, 1} /\ Link(a + k) \in {0, 1} /\ Link(a + (k + 1)) \in {0, 1}
    BY <2>1, LinkIs, Params DEF Words
  <2>3. CASE Link(a + (k + 1)) = 1
    <3>1. J(k + 1) = J(k)
      BY <2>1, <2>3
    <3>2. Link(a + k) = 0
      BY <2>2, <2>3, LinkIs
    <3>3. (k + 1) + Link(a) - Link(a + (k + 1)) = k + Link(a) - Link(a + k)
      BY <2>1, <2>2, <2>3, <3>2
    <3> HIDE DEF J
    <3> QED
      BY <2>1, <3>1, <3>3
  <2>4. CASE Link(a + (k + 1)) = 0
    <3>1. J(k + 1) = J(k) \cup {k + 1} /\ k + 1 \notin J(k)
      BY <2>1, <2>4
    <3> HIDE DEF J
    <3>2. IsFiniteSet(J(k + 1)) /\ Cardinality(J(k + 1)) = c + 1
      BY <2>1, <3>1, FS_AddElement
    <3>3. Advance(x, c + 1) = NextBd(Plus(x, k + Link(a) - Link(a + k)))
      BY <2>1, AdvanceIs
    <3> DEFINE t == k + Link(a) - Link(a + k)
               o == ((x % Page) + t) % Page
    <3>4. t \in Int
      BY <2>1, <2>2
    <3>5. o = ((a + k) - Link(a + k)) % Page
      <4>1. x % Page = (a - Link(a)) % Page /\ a - Link(a) \in Int
        BY <2>2
      <4>2. (((a - Link(a)) % Page) + t) % Page = ((a - Link(a)) + t) % Page
        BY <3>4, <4>1, Wraps
      <4>3. (a - Link(a)) + t = (a + k) - Link(a + k)
        BY <2>1, <2>2
      <4> QED
        BY <4>1, <4>2, <4>3
    <3>6. NextBd(Plus(x, t)) = Plus(x, t + (IF o \in {Page - 2, Page - 1} THEN 2 ELSE 1))
      BY <2>2, <3>4, NextBdAt
    <3>7. t + (IF o \in {Page - 2, Page - 1} THEN 2 ELSE 1)
              = (k + 1) + Link(a) - Link(a + (k + 1))
      <4> DEFINE z == a + k
      <4>1. z \in Int /\ (z % Page = Page - 1 <=> Link(z) = 1)
        BY <2>2 DEF Link
      <4>2. CASE Link(z) = 1
        <5>1. o = Page - 2
          BY <3>5, <4>1, <4>2, NextOffset
        <5> QED
          BY <2>1, <2>2, <2>4, <4>2, <5>1
      <4>3. CASE Link(z) = 0
        <5>1. z % Page # Page - 1 /\ (z + 1) % Page # Page - 1
          BY <2>2, <2>4, <4>1, <4>3 DEF Link
        <5>2. z % Page \in 0 .. Page - 1 /\ z % Page # Page - 2
          BY <4>1, <5>1, NextOffset, Mods, Params
        <5>3. o = z % Page
          BY <3>5, <4>1, <4>3
        <5>4. o \notin {Page - 2, Page - 1}
          BY <5>1, <5>2, <5>3
        <5> QED
          BY <2>1, <2>2, <2>4, <4>3, <5>4
      <4> QED
        BY <2>2, <4>2, <4>3
    <3> QED
      BY <2>1, <3>2, <3>3, <3>6, <3>7
  <2> QED
    BY <2>2, <2>3, <2>4
<1> HIDE DEF S
<1>3. S = Nat
  <2>1. S \in SUBSET Nat
    BY DEF S
  <2> QED
    BY <1>1, <1>2, <2>1, Induct
<1> QED
  BY <1>3 DEF S

----------------------------------------------------------------------------
(* The invariant.                                                           *)

\* descriptors after rx_cons that the NIC has filled, and that it was given
Got == (GetHwCons - rx_cons) % Word
Room == (rx_prod - rx_cons) % Word

\* the number of the first packet in use, and of that t slots up from hwcur
First == harvestId - Data(hwcur % Page, hwavail)
Packet(t) == (First + Data(hwcur % Page, t)) % Word

\* kring and NIC ring are whole pages apart, and so are the kring and the process's view
OffsetsOK == hwofs % Page = 0 /\ hw_ofs % Page = 0

\* rx_cons belongs to the slot after those in use, and rx_prod to hwcur, or to the slot
\* before if that is a link's
RingsOK ==
    /\ N2K(Idx(rx_cons)) = (hwcur + hwavail) % Num
    /\ rx_cons % Page \in Starts
    /\ Room = Num - hwavail - Link(hwcur)
    /\ Got <= Room
    /\ \A d \in Slots : d % Page \in Starts => daddr[d] = N2K(d)

\* a rx_sync in progress
HarvestOK ==
    /\ sw_cons = Plus(rx_cons, i + Links(rx_cons % Page, i))
    /\ i + Links(rx_cons % Page, i) <= (hw_cons - rx_cons) % Word
    /\ (hw_cons - rx_cons) % Word <= Got
    /\ hw_cons % Page \in Starts
    /\ i = 0 \/ i + hwavail <= RingSize - 1
SyncOK ==
    /\ Syncing => u = cur /\ resvd = reserved
    /\ pc = "harvest" => HarvestOK

\* the process is inside what it was given
ProcessOK ==
    /\ reserved <= Dist(hwcur, cur)
    /\ Dist(hwcur, cur) + avail <= hwavail
    /\ pc = "recv" => /\ rx <= todo /\ todo <= avail /\ todo > 0
                      /\ Dist(hwcur, ucur) = Dist(hwcur, cur) + rx
    /\ pc = "cur" => /\ Dist(hwcur, cur) <= Dist(hwcur, ucur) /\ Dist(hwcur, ucur) > 0
                     /\ Dist(hwcur, ucur) + avail <= hwavail

\* the packets in the buffers, from the first in use to the last stored
Reader == IF pc \in {"recv", "cur"} THEN ucur ELSE cur
DataOK ==
    /\ nextId = Packet(hwavail + Got)
    /\ expected = Packet(Dist(hwcur, Reader))
    /\ \A t \in 0 .. hwavail + Got - 1 :
          Link(hwcur + t) = 0 => mem[(hwcur + t) % Num] = Packet(t)

IInv == TypeOK /\ OffsetsOK /\ RingsOK /\ SyncOK /\ ProcessOK /\ DataOK

----------------------------------------------------------------------------
(* What follows from it.                                                    *)

LEMMA Types ==
    ASSUME Legal, TypeOK
    PROVE  /\ hwcur \in Nat /\ hwcur < Num /\ hwavail \in Nat /\ hwavail < Num /\ hwofs \in Int
           /\ hw_ofs \in Int /\ rx_cons \in Words /\ rx_prod \in Words /\ hw \in Words
           /\ rx_cons \in Int /\ rx_prod \in Int /\ hw \in Int /\ harvestId \in Int
           /\ cur \in Nat /\ cur < Num /\ ucur \in Nat /\ ucur < Num /\ avail \in Nat /\ avail < Num
           /\ reserved \in Nat /\ resvd \in Nat /\ u \in Nat /\ i \in Nat /\ rx \in Nat /\ todo \in Nat
           /\ sw_cons \in Int /\ hw_cons \in Int
           /\ hwcur % Page \in Offsets /\ Num \in Nat
<1>1. Num \in Nat \ {0} /\ Word \in Nat \ {0} /\ RingSize \in Nat \ {0} /\ Batch \in Nat /\ MaxResvd \in Nat
  BY Params
<1>2. hwcur \in Int
  BY <1>1 DEF TypeOK, Slots
<1>3. hwcur % Page \in Offsets
  BY <1>2, Mods DEF Offsets
<1>4. /\ hwcur \in Nat /\ hwcur < Num /\ hwavail \in Nat /\ hwavail < Num /\ hwofs \in Int
      /\ hw_ofs \in Int /\ cur \in Nat /\ cur < Num /\ ucur \in Nat /\ ucur < Num
      /\ avail \in Nat /\ avail < Num /\ u \in Nat
  BY <1>1 DEF TypeOK, Slots
<1>5. /\ rx_cons \in Words /\ rx_prod \in Words /\ hw \in Words
      /\ rx_cons \in Int /\ rx_prod \in Int /\ hw \in Int /\ harvestId \in Int
      /\ sw_cons \in Int /\ hw_cons \in Int
  BY <1>1 DEF TypeOK, Words
<1>6. reserved \in Nat /\ resvd \in Nat /\ i \in Nat /\ rx \in Nat /\ todo \in Nat
  BY <1>1 DEF TypeOK
<1> QED
  BY <1>1, <1>3, <1>4, <1>5, <1>6

\* links lie at the same offsets in the kring, for the NIC and for the process
LEMMA SlotLinks ==
    ASSUME Legal, TypeOK, OffsetsOK, NEW s \in Int
    PROVE  /\ K2N(s) % Page = s % Page /\ N2K(s) % Page = s % Page
           /\ (Chain(K2N(s)) <=> Link(s) = 1) /\ (Skipped(s) <=> Link(s) = 1)
<1>1. hwofs \in Int /\ hw_ofs \in Int /\ hwofs % Page = 0 /\ hw_ofs % Page = 0
  BY Types DEF OffsetsOK
<1>2. ASSUME NEW y \in Int, y % Page = 0
      PROVE  ((s - y) % Num) % Page = s % Page /\ ((s + y) % Num) % Page = s % Page
  <2>1. s - y \in Int /\ s + y \in Int /\ y + s \in Int /\ s + y = y + s /\ s - 0 = s /\ 0 + s = s
    BY <1>2
  <2>2. ((s - y) % Num) % Page = (s - y) % Page /\ ((s + y) % Num) % Page = (s + y) % Page
    BY <2>1, Mods, Zenon
  <2>3. (s - (y % Page)) % Page = (s - y) % Page /\ ((y % Page) + s) % Page = (y + s) % Page
    BY Wraps, Zenon
  <2> QED
    BY <1>2, <2>1, <2>2, <2>3
<1>3. K2N(s) % Page = s % Page /\ N2K(s) % Page = s % Page
  BY <1>1, <1>2 DEF K2N, N2K
<1>4. ((s - hw_ofs) % Num) % Page = s % Page
  BY <1>1, <1>2
<1>5. Chain(K2N(s)) <=> Link(s) = 1
  BY <1>3 DEF Chain, Link
<1>6. Skipped(s) <=> Link(s) = 1
  BY <1>4 DEF Skipped, Chain, Link
<1> QED
  BY <1>3, <1>5, <1>6

\* the slot of the descriptor t steps up from rx_cons
LEMMA SlotOf ==
    ASSUME Legal, TypeOK, OffsetsOK, N2K(Idx(rx_cons)) = (hwcur + hwavail) % Num, NEW t \in Int
    PROVE  /\ N2K(Idx(Plus(rx_cons, t))) = (hwcur + (hwavail + t)) % Num
           /\ rx_cons % Page = (hwcur + hwavail) % Page
           /\ Idx(Plus(rx_cons, t)) % Page = (hwcur + (hwavail + t)) % Page
<1>1. hwofs \in Int /\ rx_cons \in Int /\ hwcur \in Int /\ hwavail \in Int
  BY Types
<1>2. \A x \in Int : N2K(Idx(x)) = (x + hwofs) % Num
  <2>1. \A x \in Int : ((x % Num) + hwofs) % Num = (x + hwofs) % Num
    BY <1>1, Wraps, Zenon
  <2> QED
    BY <2>1 DEF N2K, Idx
<1> DEFINE y == rx_cons + t
           z == hwcur + hwavail
           v == rx_cons + hwofs
<1>3. /\ y \in Int /\ z \in Int /\ v \in Int /\ v + t = y + hwofs
      /\ z + t = hwcur + (hwavail + t)
  BY <1>1
<1>4. v % Num = z % Num
  BY <1>1, <1>2
<1> HIDE DEF z, v, y
<1>5. N2K(Idx(Plus(rx_cons, t))) = (y + hwofs) % Num
  <2>1. (y % Word) % Num = y % Num
    BY <1>3, Mods, Zenon
  <2>2. ((y % Num) + hwofs) % Num = (y + hwofs) % Num
    BY <1>1, <1>3, Wraps, Zenon
  <2> QED
    BY <2>1, <2>2 DEF N2K, Idx, Plus, y
<1>6. (v + t) % Num = (z + t) % Num
  <2>1. ((v % Num) + t) % Num = (v + t) % Num /\ ((z % Num) + t) % Num = (z + t) % Num
    BY <1>3, Wraps, Zenon
  <2> QED
    BY <1>4, <2>1
<1>7. N2K(Idx(Plus(rx_cons, t))) = (hwcur + (hwavail + t)) % Num
  BY <1>3, <1>5, <1>6
<1>8. rx_cons % Page = z % Page
  <2>1. (v % Num) % Page = v % Page /\ (z % Num) % Page = z % Page
    BY <1>3, Mods, Zenon
  <2>2. ((hwofs % Page) + rx_cons) % Page = (hwofs + rx_cons) % Page
    BY <1>1, Wraps, Zenon
  <2>3. hwofs % Page = 0 /\ 0 + rx_cons = rx_cons /\ hwofs + rx_cons = v
    BY <1>1 DEF OffsetsOK, v
  <2> QED
    BY <1>4, <2>1, <2>2, <2>3
<1>9. Idx(Plus(rx_cons, t)) % Page = (z + t) % Page
  <2>1. (y % Word) % Num = y % Num /\ (y % Num) % Page = y % Page
    BY <1>3, Mods, Zenon
  <2>2. ((rx_cons % Page) + t) % Page = (rx_cons + t) % Page /\ ((z % Page) + t) % Page = (z + t) % Page
    BY <1>1, <1>3, Wraps, Zenon
  <2> QED
    BY <1>8, <2>1, <2>2 DEF Idx, Plus, y
<1> QED
  BY <1>3, <1>7, <1>8, <1>9 DEF z

\* the NIC's consumer index, and its limit, in steps up from rx_cons
LEMMA HwCons ==
    ASSUME Legal, TypeOK
    PROVE  /\ GetHwCons \in Words /\ GetHwCons % Page \in Starts
           /\ Got \in 0 .. Word - 1 /\ GetHwCons = Plus(rx_cons, Got)
           /\ Room \in 0 .. Word - 1 /\ rx_prod = Plus(rx_cons, Room)
           /\ GetHwCons = Plus(hw, Link(hw)) /\ Link(hw) \in {0, 1}
<1>1. /\ hw \in Words /\ hw \in Int /\ rx_cons \in Words /\ rx_prod \in Words
      /\ Word \in Nat \ {0} /\ Page \in Nat /\ Page >= 4 /\ 1 \in Int
  BY Types, Params
<1>3. ASSUME NEW y \in Words
      PROVE  (y - rx_cons) % Word \in 0 .. Word - 1 /\ Plus(rx_cons, (y - rx_cons) % Word) = y
  BY <1>1, StepsUp DEF Words, Plus
<1>2. ASSUME Chain(hw)
      PROVE  /\ GetHwCons \in Words /\ GetHwCons % Page \in Starts
             /\ GetHwCons = Plus(hw, Link(hw)) /\ Link(hw) \in {0, 1}
  <2>1. Plus(hw, 1) \in Words
    BY <1>1, PlusPlus
  <2>2. hw % Page = Page - 1
    BY <1>2 DEF Chain
  <2>3. Plus(hw, 1) % Page = ((hw % Page) + 1) % Page
    BY <1>1, OffsetOf, Zenon
  <2>4. ((hw % Page) + 1) % Page = (hw + 1) % Page
    BY <1>1, Wraps, Zenon
  <2>5. (hw + 1) % Page = 0
    BY <1>1, <2>2, NextOffset
  <2>6. GetHwCons = Plus(hw, 1) /\ Link(hw) = 1
    BY <1>2, <2>2 DEF GetHwCons, Link
  <2> QED
    BY <1>1, <2>1, <2>3, <2>4, <2>5, <2>6 DEF Starts
<1>4. ASSUME ~Chain(hw)
      PROVE  /\ GetHwCons \in Words /\ GetHwCons % Page \in Starts
             /\ GetHwCons = Plus(hw, Link(hw)) /\ Link(hw) \in {0, 1}
  <2>1. GetHwCons = hw /\ Link(hw) = 0 /\ hw % Page # Page - 1
    BY <1>4 DEF GetHwCons, Link, Chain
  <2>2. hw % Page \in 0 .. Page - 1
    BY <1>1, Mods
  <2>3. Plus(hw, 0) = hw
    BY <1>1, SmallMods DEF Plus
  <2> QED
    BY <1>1, <2>1, <2>2, <2>3 DEF Starts
<1>5. /\ GetHwCons \in Words /\ GetHwCons % Page \in Starts
      /\ GetHwCons = Plus(hw, Link(hw)) /\ Link(hw) \in {0, 1}
  BY <1>2, <1>4
<1> QED
  BY <1>1, <1>3, <1>5 DEF Got, Room

\* how far that is, whatever is in use
LEMMA RoomIs ==
    ASSUME Legal, TypeOK, OffsetsOK, RingsOK
    PROVE  /\ Got \in Nat /\ Room \in Nat /\ Got <= Room /\ hwavail + Room <= Num
           /\ Link(hwcur) \in {0, 1}
           /\ rx_prod % Page = (hwcur - Link(hwcur)) % Page /\ rx_prod % Page \in Starts
<1>1. Got \in Nat /\ Room \in Nat /\ Room \in Int /\ Got <= Room /\ Room = Num - hwavail - Link(hwcur)
  BY HwCons, Params DEF RingsOK
<1>2. /\ hwcur \in Int /\ hwavail \in Int /\ Link(hwcur) \in {0, 1} /\ rx_cons \in Int
      /\ Page \in Nat \ {0} /\ Pages \in Int /\ Page >= 4 /\ Num = Pages * Page /\ Num \in Int
  BY Types, Params, LinkIs
<1> DEFINE z == hwcur - Link(hwcur)
<1>3. z \in Int /\ hwcur + (hwavail + Room) = z + Num
  BY <1>1, <1>2
<1>4. rx_prod % Page = (hwcur + (hwavail + Room)) % Page
  <2>1. rx_prod = Plus(rx_cons, Room) /\ rx_cons % Page = (hwcur + hwavail) % Page
    BY <1>1, HwCons, SlotOf DEF RingsOK
  <2>2. Plus(rx_cons, Room) % Page = ((rx_cons % Page) + Room) % Page
    BY <1>1, <1>2, OffsetOf, Zenon
  <2> DEFINE y == hwcur + hwavail
  <2>3. y \in Int /\ y + Room = hwcur + (hwavail + Room)
    BY <1>1, <1>2
  <2> HIDE DEF y
  <2>4. ((y % Page) + Room) % Page = (y + Room) % Page
    BY <1>1, <2>3, Wraps, Zenon
  <2> QED
    BY <2>1, <2>2, <2>3, <2>4 DEF y
<1> HIDE DEF z
<1>5. rx_prod % Page = z % Page
  <2>1. (z + Pages * Page) % Page = z % Page
    BY <1>2, <1>3, Turns, Zenon
  <2> QED
    BY <1>2, <1>3, <1>4, <2>1
<1>6. z % Page \in Starts
  <2>1. CASE hwcur % Page = Page - 1
    <3>1. z = hwcur - 1
      BY <2>1 DEF z, Link
    <3>2. (hwcur - 1) % Page = Page - 2
      BY <1>2, <2>1, NextOffset, Zenon
    <3> QED
      BY <1>2, <3>1, <3>2 DEF Starts
  <2>2. CASE hwcur % Page # Page - 1
    <3>1. z = hwcur
      BY <1>2, <2>2 DEF z, Link
    <3>2. hwcur % Page \in 0 .. Page - 1
      BY <1>2, Mods
    <3> QED
      BY <1>2, <2>2, <3>1, <3>2 DEF Starts
  <2> QED
    BY <2>1, <2>2
<1> QED
  BY <1>1, <1>2, <1>5, <1>6 DEF z

\* the slots of the descriptors that rx_sync has not harvested are not in use
LEMMA SlotFree ==
    ASSUME Legal, TypeOK, OffsetsOK, RingsOK, NEW t \in Nat, t < Room
    PROVE  LET s == N2K(Idx(Plus(rx_cons, t)))
           IN  s \in Slots /\ s = (hwcur + (hwavail + t)) % Num /\ Dist(hwcur, s) = hwavail + t
<1> DEFINE y == hwavail + t
           s == (hwcur + y) % Num
<1>1. hwcur \in Int /\ y \in 0 .. Num - 1 /\ Num \in Nat \ {0}
  BY RoomIs, Types, Params
<1>2. N2K(Idx(Plus(rx_cons, t))) = s
  BY SlotOf DEF RingsOK
<1> HIDE DEF y
<1>3. s \in Slots
  BY <1>1, Mods
<1>4. (((hwcur + y) % Num) - hwcur) % Num = y
  <2>1. y \in Int
    BY <1>1
  <2> QED
    BY <1>1, <2>1, UpSteps, Zenon
<1> QED
  BY <1>2, <1>3, <1>4 DEF Dist, y

LEMMA Dists ==
    ASSUME Legal, NEW a \in Slots, NEW s \in Slots
    PROVE  /\ Dist(a, s) \in 0 .. Num - 1 /\ (a + Dist(a, s)) % Num = s
           /\ Next1(s) \in Slots
           /\ Dist(a, s) + 1 < Num => Dist(a, Next1(s)) = Dist(a, s) + 1
<1>1. Num \in Nat \ {0} /\ a \in 0 .. Num - 1 /\ s \in 0 .. Num - 1
  BY Params DEF Slots
<1>2. Dist(a, s) \in 0 .. Num - 1 /\ (a + Dist(a, s)) % Num = s
  BY <1>1, StepsUp DEF Dist
<1>3. Next1(s) = (s + 1) % Num
  <2>1. CASE s = Num - 1
    BY <1>1, <2>1 DEF Next1
  <2>2. CASE s # Num - 1
    <3>1. s + 1 \in 0 .. Num - 1
      BY <1>1, <2>2
    <3> QED
      BY <1>1, <2>2, <3>1, ModSmall DEF Next1
  <2> QED
    BY <2>1, <2>2
<1>4. Next1(s) \in Slots
  BY <1>1 DEF Next1, Slots
<1>5. ASSUME Dist(a, s) + 1 < Num PROVE Dist(a, Next1(s)) = Dist(a, s) + 1
  <2> DEFINE t == Dist(a, s)
             w == a + t
             v == t + 1
  <2>1. t \in Nat /\ v \in 0 .. Num - 1 /\ v \in Int /\ w \in Int /\ a \in Int /\ 1 \in Int /\ w + 1 = a + v
    BY <1>1, <1>2, <1>5
  <2>2. w % Num = s
    BY <1>2
  <2> HIDE DEF t, w, v
  <2>3. ((w % Num) + 1) % Num = (w + 1) % Num
    BY <2>1, Wraps, Zenon
  <2>4. (((a + v) % Num) - a) % Num = v
    BY <1>1, <2>1, UpSteps, Zenon
  <2> QED
    BY <1>3, <2>1, <2>2, <2>3, <2>4 DEF Dist, v, t
<1> QED
  BY <1>2, <1>4, <1>5

LEMMA DistOf ==
    ASSUME Legal, NEW a \in Slots, NEW t \in 0 .. Num - 1
    PROVE  (a + t) % Num \in Slots /\ Dist(a, (a + t) % Num) = t
<1>1. Num \in Nat \ {0} /\ a \in Int /\ t \in Int /\ a + t \in Int
  BY Params DEF Slots
<1>2. (a + t) % Num \in Slots
  BY <1>1, Mods
<1>3. (((a + t) % Num) - a) % Num = t
  BY <1>1, UpSteps, Zenon
<1> QED
  BY <1>2, <1>3 DEF Dist

\* a slot's place in its page, from its distance to hwcur
LEMMA LinkAt ==
    ASSUME Legal, TypeOK, NEW s \in Slots
    PROVE  Link(hwcur + Dist(hwcur, s)) = Link(s)
<1>0. hwcur \in Slots /\ hwcur \in Int
  BY Types DEF TypeOK
<1>2. Dist(hwcur, s) \in 0 .. Num - 1 /\ (hwcur + Dist(hwcur, s)) % Num = s
  BY <1>0, Dists
<1>1. Dist(hwcur, s) \in Int /\ hwcur + Dist(hwcur, s) \in Int
  BY <1>0, <1>2
<1>3. ((hwcur + Dist(hwcur, s)) % Num) % Page = (hwcur + Dist(hwcur, s)) % Page
  BY <1>1, Mods, Zenon
<1> QED
  BY <1>2, <1>3 DEF Link

----------------------------------------------------------------------------
(* The properties.                                                          *)

LEMMA HasTheRest ==
    ASSUME Legal, IInv
    PROVE  NextEmptyAgrees /\ NicHasTheRest
<1>1. TypeOK /\ OffsetsOK /\ RingsOK /\ hwcur \in Int
  BY Types DEF IInv
<1>2. Chain(K2N(hwcur)) <=> Link(hwcur) = 1
  BY <1>1, SlotLinks
<1>3. Link(hwcur) \in {0, 1} /\ (rx_prod - rx_cons) % Word = Num - hwavail - Link(hwcur)
  BY <1>1, RoomIs DEF RingsOK, Room
<1> QED
  BY <1>1, <1>2, <1>3 DEF NextEmptyAgrees, NicHasTheRest, RingsOK

LEMMA NeverWrites ==
    ASSUME Legal, IInv
    PROVE  NicNeverWritesInUse
<1> SUFFICES ASSUME NEW d \in NicOwned PROVE daddr[d] \in Slots \ InUse
  BY DEF NicNeverWritesInUse
<1>1. TypeOK /\ OffsetsOK /\ RingsOK /\ hw \in Words /\ hw \in Int /\ rx_cons \in Int /\ Word \in Nat \ {0}
  BY Types, Params DEF IInv
<1> DEFINE l == Link(hw)
<1>2. /\ l \in {0, 1} /\ Got \in Nat /\ Room \in Nat /\ Got <= Room /\ Room <= Num /\ Word >= 2 * Num
      /\ Num \in Nat /\ Num >= 8 /\ GetHwCons = Plus(rx_cons, Got) /\ GetHwCons = Plus(hw, l)
      /\ rx_prod = Plus(rx_cons, Room) /\ hwavail \in Nat
  BY <1>1, HwCons, RoomIs, Params, Types
<1>4. PICK j \in 0 .. ((rx_prod - hw) % Word) - 1 : d = Idx(Plus(hw, j))
  BY DEF NicOwned
<1>3. d \in Slots /\ ~Chain(d)
  <2>1. j \in Int
    BY <1>4
  <2>2. Plus(hw, j) \in Int
    BY <1>1, <2>1, PlusPlus DEF Words
  <2>3. d \in Slots
    BY <1>4, <2>2, Mods DEF Idx
  <2>4. d \notin {e \in Slots : Chain(e)}
    BY DEF NicOwned
  <2> QED
    BY <2>3, <2>4
<1> HIDE DEF l
<1>5. hw = Plus(rx_cons, Got - l)
  <2>1. Plus(Plus(hw, l), 0 - l) = Plus(hw, l + (0 - l)) /\ Plus(Plus(rx_cons, Got), 0 - l) = Plus(rx_cons, Got + (0 - l))
    <3>1. l \in Int /\ 0 - l \in Int /\ Got \in Int
      BY <1>2
    <3>2. hw \in Int /\ rx_cons \in Int
      BY <1>1
    <3> QED
      BY <3>1, <3>2, PlusPlus, Zenon
  <2>2. l + (0 - l) = 0 /\ Got + (0 - l) = Got - l /\ hw + 0 = hw
    BY <1>1, <1>2
  <2>3. Plus(hw, 0) = hw
    <3>1. hw % Word = hw
      BY <1>1, SmallMods
    <3> QED
      BY <2>2, <3>1 DEF Plus
  <2>4. Plus(Plus(hw, l), 0 - l) = hw
    BY <2>1, <2>2, <2>3, Zenon
  <2>5. Plus(hw, l) = Plus(rx_cons, Got)
    BY <1>2, Zenon
  <2>6. Plus(Plus(hw, l), 0 - l) = Plus(rx_cons, Got - l)
    BY <2>1, <2>2, <2>5, Zenon
  <2> QED
    BY <2>4, <2>6, Zenon
<1>6. (rx_prod - hw) % Word = (Room - Got) + l
  <2> DEFINE t == (Room - Got) + l
             s == Got - l
  <2>1. /\ t \in 0 .. Word - 1 /\ t \in Int /\ s \in Int /\ s + t = Room
    BY <1>1, <1>2
  <2> HIDE DEF t, s
  <2>2. Plus(Plus(rx_cons, s), t) = Plus(rx_cons, s + t)
    BY <1>1, <2>1, PlusPlus, Zenon
  <2>3. rx_prod = (hw + t) % Word
    BY <1>2, <1>5, <2>1, <2>2 DEF Plus, s
  <2>4. (((hw + t) % Word) - hw) % Word = t
    BY <1>1, <2>1, UpSteps, Zenon
  <2> QED
    BY <2>3, <2>4 DEF t
<1>7. j \in Nat /\ j < (Room - Got) + l
  BY <1>2, <1>4, <1>6
<1> DEFINE t == (Got - l) + j
<1>8. d = Idx(Plus(rx_cons, t))
  <2>1. Got - l \in Int /\ j \in Int
    BY <1>2, <1>7
  <2>2. Plus(Plus(rx_cons, Got - l), j) = Plus(rx_cons, (Got - l) + j)
    BY <1>1, <2>1, PlusPlus, Zenon
  <2> QED
    BY <1>4, <1>5, <2>2
<1>9. t \in Nat /\ t < Room
  <2>1. l = 1 => j # 0
    <3>1. SUFFICES ASSUME l = 1, j = 0 PROVE FALSE
      OBVIOUS
    <3>2. d = Idx(hw)
      <4>1. Plus(hw, 0) = hw
        <5>1. hw + 0 = hw
          BY <1>1
        <5> QED
          BY <1>1, <5>1, SmallMods DEF Plus
      <4> QED
        BY <1>4, <3>1, <4>1
    <3>3. (hw % Num) % Page = hw % Page
      BY <1>1, Mods
    <3> QED
      BY <1>3, <3>1, <3>2, <3>3 DEF Chain, Idx, l, Link
  <2> QED
    BY <1>2, <1>7, <2>1
<1> HIDE DEF t
<1>10. daddr[d] = N2K(d)
  <2>1. d \in Int
    BY <1>2, <1>3 DEF Slots
  <2>2. d % Page \in 0 .. Page - 1 /\ d % Page # Page - 1 /\ Page \in Nat
    BY <1>3, <2>1, Mods, Params DEF Chain
  <2> QED
    BY <1>1, <1>3, <2>2 DEF RingsOK, Starts
<1>11. N2K(d) \in Slots /\ Dist(hwcur, N2K(d)) = hwavail + t
  BY <1>1, <1>8, <1>9, SlotFree
<1> QED
  BY <1>2, <1>9, <1>10, <1>11 DEF InUse

LEMMA GivenInOrder ==
    ASSUME Legal, IInv
    PROVE  InOrder
<1> SUFFICES ASSUME pc = "recv", rx < todo
             PROVE  IF Chain(K2N(ucur)) THEN Skipped(ucur) ELSE ~Skipped(ucur) /\ mem[ucur] = expected
  BY DEF InOrder
<1>1. TypeOK /\ OffsetsOK /\ RingsOK /\ ucur \in Int /\ ucur \in Slots /\ hwcur \in Slots /\ cur \in Slots
  BY Types DEF IInv, TypeOK
<1>2. (Chain(K2N(ucur)) <=> Link(ucur) = 1) /\ (Skipped(ucur) <=> Link(ucur) = 1)
  BY <1>1, SlotLinks
<1> DEFINE t == Dist(hwcur, ucur)
<1>3. t \in Nat /\ t < hwavail /\ (hwcur + t) % Num = ucur
  <2>1. t \in 0 .. Num - 1 /\ Dist(hwcur, cur) \in 0 .. Num - 1 /\ (hwcur + t) % Num = ucur
    BY <1>1, Dists
  <2>2. /\ t = Dist(hwcur, cur) + rx /\ todo <= avail /\ Dist(hwcur, cur) + avail <= hwavail
    BY DEF IInv, ProcessOK
  <2> QED
    BY <1>1, <2>1, <2>2, Types, Params
<1>4. Link(ucur) = 0 => mem[ucur] = expected
  <2>1. Link(hwcur + t) = Link(ucur)
    BY <1>1, LinkAt
  <2>2. Got \in Nat /\ hwavail \in Nat
    BY <1>1, RoomIs, Types
  <2>3. t \in 0 .. hwavail + Got - 1
    BY <1>3, <2>2
  <2>4. expected = Packet(t)
    BY DEF IInv, DataOK, Reader
  <2> HIDE DEF t
  <2> QED
    BY <1>3, <2>1, <2>3, <2>4 DEF IInv, DataOK
<1>5. Link(ucur) \in {0, 1}
  BY DEF Link
<1> QED
  BY <1>2, <1>4, <1>5


----------------------------------------------------------------------------
(* At the start.                                                            *)

LEMMA Starting ==
    ASSUME Legal, Init
    PROVE  IInv
<1>1. /\ Page \in Nat \ {0} /\ Page >= 4 /\ Num \in Nat \ {0} /\ Num >= 8 /\ Word \in Nat /\ Word >= 2 * Num
      /\ Batch \in Nat /\ MaxResvd \in Nat /\ MaxResets \in Nat /\ RingSize \in Nat
  BY Params
<1>2. 0 \in 0 .. Page - 1 /\ 0 \in Slots /\ 0 \in Words /\ Num \in Words
  BY <1>1 DEF Slots, Words
<1>3. 0 % Page = 0 /\ 0 % Num = 0 /\ 0 % Word = 0 /\ Num % Word = Num
  BY <1>2, SmallMods
<1>4. rx_prod = Num
  BY PostedEnd DEF Init
<1>5. Link(0) = 0 /\ ~Chain(0)
  BY <1>1, <1>3 DEF Link, Chain
<1>6. TypeOK
  <2>1. daddr \in [Slots -> Slots \cup {NoSlot}] /\ mem \in [Slots -> Words]
    BY <1>2 DEF Init
  <2>2. 0 \in 0 .. Num - 1 /\ 0 \in 0 .. MaxResvd /\ 0 \in 0 .. MaxResets /\ 0 \in 0 .. RingSize /\ 0 \in 0 .. Batch
    BY <1>1
  <2>3. rx_prod \in Words
    BY <1>2, <1>4
  <2> QED
    BY <1>2, <2>1, <2>2, <2>3 DEF Init, TypeOK
<1>7. OffsetsOK
  BY <1>3 DEF Init, OffsetsOK
<1>8. Got = 0 /\ Room = Num
  <2>1. GetHwCons = 0
    BY <1>5 DEF Init, GetHwCons
  <2>2. 0 - 0 = 0 /\ Num - 0 = Num
    BY <1>1
  <2> QED
    BY <1>3, <1>4, <2>1, <2>2 DEF Init, Got, Room
<1>9. RingsOK
  <2>1. N2K(Idx(rx_cons)) = (hwcur + hwavail) % Num
    BY <1>3 DEF Init, N2K, Idx
  <2>2. ASSUME NEW d \in Slots, d % Page \in Starts PROVE daddr[d] = N2K(d)
    <3>1. daddr[d] = d
      BY <2>2, PostedIs DEF Init
    <3>2. d + 0 = d /\ d % Num = d
      BY <1>1, SmallMods DEF Slots
    <3> QED
      BY <3>1, <3>2 DEF Init, N2K
  <2>3. rx_cons % Page \in Starts
    BY <1>1, <1>3 DEF Init, Starts
  <2>4. Room = Num - hwavail - Link(hwcur) /\ Got <= Room
    BY <1>1, <1>5, <1>8 DEF Init
  <2> QED
    BY <2>1, <2>2, <2>3, <2>4 DEF RingsOK
<1>10. SyncOK
  BY DEF Init, SyncOK, Syncing
<1>11. ProcessOK
  <2>1. Dist(0, 0) = 0
    BY <1>3 DEF Dist
  <2> QED
    BY <2>1 DEF Init, ProcessOK
<1>12. DataOK
  <2>1. Data(0, 0) = 0
    BY <1>1, DataAre DEF Offsets
  <2>2. First = 0
    BY <1>3, <2>1 DEF Init, First
  <2>3. Packet(0) = 0
    BY <1>3, <2>1, <2>2 DEF Init, Packet
  <2>4. Dist(hwcur, Reader) = 0
    BY <1>3 DEF Init, Reader, Dist
  <2> QED
    BY <1>8, <2>3, <2>4 DEF Init, DataOK
<1> QED
  BY <1>6, <1>7, <1>9, <1>10, <1>11, <1>12 DEF IInv

----------------------------------------------------------------------------
(* Steps that leave the rings alone.                                        *)

RingVars == <<hwcur, hwavail, hwofs, rx_prod, rx_cons, daddr, hw>>

LEMMA RingsStay ==
    ASSUME RingsOK, UNCHANGED RingVars
    PROVE  RingsOK' /\ Got' = Got /\ Room' = Room
<1>1. GetHwCons' = GetHwCons
  BY DEF RingVars, GetHwCons
<1>2. Got' = Got /\ Room' = Room
  BY <1>1 DEF RingVars, Got, Room
<1>3. \A d : N2K(d)' = N2K(d)
  BY DEF RingVars, N2K
<1> QED
  BY <1>2, <1>3 DEF RingVars, RingsOK, N2K

LEMMA DataStay ==
    ASSUME DataOK, UNCHANGED RingVars, UNCHANGED <<mem, nextId, harvestId, expected>>, Reader' = Reader
    PROVE  DataOK'
<1>1. GetHwCons' = GetHwCons /\ Dist(hwcur, Reader)' = Dist(hwcur, Reader)
  BY DEF RingVars, GetHwCons
<1>2. Got' = Got /\ First' = First
  BY <1>1 DEF RingVars, Got, First
<1>3. \A t : (Packet(t))' = Packet(t)
  BY <1>2 DEF RingVars, Packet
<1> QED
  BY <1>1, <1>2, <1>3 DEF RingVars, DataOK, Packet

\* the packet after that in the slot t up from hwcur
LEMMA PacketNext ==
    ASSUME Legal, TypeOK, NEW t \in Nat
    PROVE  /\ Packet(t) \in Words
           /\ Packet(t + 1) = IF Link(hwcur + t) = 1 THEN Packet(t) ELSE Plus(Packet(t), 1)
<1> DEFINE a == hwcur % Page
           d == Data(a, t)
<1>1. hwcur \in Int /\ a \in Offsets /\ t \in Int /\ 1 \in Int /\ hwavail \in Nat /\ harvestId \in Int
  BY Types
<1>2. d \in Int /\ Data(a, t + 1) = d + (IF (a + t) % Page = Page - 1 THEN 0 ELSE 1)
  BY <1>1, DataAre
<1>3. (a + t) % Page = (hwcur + t) % Page
  BY <1>1, Wraps, Zenon
<1>4. First \in Int
  BY <1>1, DataAre DEF First
<1>5. Link(hwcur + t) = 1 => Packet(t + 1) = Packet(t)
  <2>1. Link(hwcur + t) = 1 => Data(a, t + 1) = d
    BY <1>2, <1>3 DEF Link
  <2> QED
    BY <2>1 DEF Packet
<1>6. Link(hwcur + t) # 1 => Packet(t + 1) = Plus(Packet(t), 1)
  <2>1. Link(hwcur + t) # 1 => Data(a, t + 1) = d + 1
    BY <1>2, <1>3 DEF Link
  <2> DEFINE z == First + d
  <2>2. z \in Int /\ First + (d + 1) = z + 1
    BY <1>2, <1>4
  <2> HIDE DEF z
  <2>3. ((z % Word) + 1) % Word = (z + 1) % Word
    BY <1>1, <2>2, Wraps, Zenon
  <2> QED
    BY <2>1, <2>2, <2>3 DEF Packet, Plus, z
<1>7. Packet(t) \in Words
  <2> DEFINE z == First + d
  <2>1. z \in Int
    BY <1>2, <1>4
  <2> QED
    BY <2>1, Mods DEF Packet
<1> QED
  BY <1>5, <1>6, <1>7

LEMMA LinkUpStep ==
    ASSUME Legal, IInv, LinkUp
    PROVE  IInv'
<1>1. UNCHANGED RingVars /\ UNCHANGED <<mem, nextId, harvestId, expected>> /\ Reader' = Reader
  BY DEF LinkUp, RingVars, kvars, uvars, dvars, nvars, lvars, Reader
<1>2. RingsOK' /\ Got' = Got /\ DataOK'
  BY <1>1, RingsStay, DataStay DEF IInv
<1>3. TypeOK'
  BY DEF IInv, TypeOK, LinkUp, kvars, uvars, dvars, nvars, svars, lvars
<1>4. OffsetsOK' /\ ProcessOK'
  BY DEF IInv, OffsetsOK, ProcessOK, LinkUp, kvars, uvars, lvars
<1>5. SyncOK'
  BY <1>2 DEF IInv, SyncOK, Syncing, HarvestOK, LinkUp, kvars, uvars, dvars, svars
<1> QED
  BY <1>2, <1>3, <1>4, <1>5 DEF IInv

LEMMA SyncBeginStep ==
    ASSUME Legal, IInv, SyncBegin
    PROVE  IInv'
<1>1. UNCHANGED RingVars /\ UNCHANGED <<mem, nextId, harvestId, expected>> /\ Reader' = Reader
  BY DEF SyncBegin, RingVars, kvars, uvars, dvars, nvars, lvars, Reader
<1>2. RingsOK' /\ Got' = Got /\ DataOK'
  BY <1>1, RingsStay, DataStay DEF IInv
<1>3. TypeOK /\ RingsOK /\ rx_cons \in Words /\ rx_cons \in Int /\ rx_cons % Page \in Starts
  BY Types DEF IInv, RingsOK
<1>4. GetHwCons \in Words /\ GetHwCons % Page \in Starts /\ Got \in Nat
  BY <1>3, HwCons
<1>5. TypeOK'
  <2>1. 0 \in 0 .. RingSize
    BY Params
  <2> QED
    BY <1>3, <1>4, <2>1 DEF IInv, TypeOK, SyncBegin, kvars, dvars, nvars, rvars, lvars
<1>6. OffsetsOK' /\ ProcessOK'
  BY DEF IInv, OffsetsOK, ProcessOK, SyncBegin, kvars, lvars
<1>7. HarvestOK'
  <2>1. Links(rx_cons % Page, 0) = 0
    BY <1>3, LinksAre
  <2>2. Plus(rx_cons, 0) = rx_cons
    <3>1. rx_cons + 0 = rx_cons /\ rx_cons % Word = rx_cons
      BY <1>3, SmallMods
    <3> QED
      BY <3>1 DEF Plus
  <2>3. (hw_cons' - rx_cons') % Word = Got
    BY DEF SyncBegin, dvars, Got
  <2> QED
    BY <1>2, <1>4, <2>1, <2>2, <2>3 DEF SyncBegin, dvars, HarvestOK
<1>8. SyncOK'
  BY <1>7 DEF SyncOK, SyncBegin
<1> QED
  BY <1>2, <1>5, <1>6, <1>8 DEF IInv

LEMMA HarvestPacketStep ==
    ASSUME Legal, IInv, HarvestPacket
    PROVE  IInv'
<1>1. UNCHANGED RingVars /\ UNCHANGED <<mem, nextId, harvestId, expected>> /\ Reader' = Reader
  BY DEF HarvestPacket, RingVars, kvars, uvars, dvars, nvars, lvars, Reader
<1>2. RingsOK' /\ Got' = Got /\ DataOK'
  BY <1>1, RingsStay, DataStay DEF IInv
<1> DEFINE a == rx_cons % Page
           L == Links(a, i)
           M == Links(a, i + 1)
           D == (hw_cons - rx_cons) % Word
<1>3. /\ TypeOK /\ rx_cons \in Words /\ rx_cons \in Int /\ a \in Starts /\ i \in Nat
      /\ hw_cons \in Words /\ Word \in Nat \ {0} /\ Page \in Nat /\ Page >= 4
      /\ RingSize \in Nat /\ hwavail \in Nat
  BY Types, Params DEF IInv, RingsOK, TypeOK
<1>4. sw_cons = Plus(rx_cons, i + L) /\ i + L <= D /\ hw_cons % Page \in Starts
  BY DEF IInv, SyncOK, HarvestPacket, HarvestOK
<1>5. L \in Nat /\ M = L + (IF (a + (i + L)) % Page = Page - 2 THEN 1 ELSE 0)
  BY <1>3, LinksAre
<1>6. D \in Nat /\ hw_cons = Plus(rx_cons, D)
  BY <1>3, StepsUp DEF Words, Plus
<1>7. sw_cons' = Plus(rx_cons, (i + 1) + M)
  BY <1>3, <1>4, NextBdLinks DEF HarvestPacket
<1> HIDE DEF a, L, M, D
<1>8. i + L < D
  <2>1. i + L # D
    BY <1>4, <1>6 DEF HarvestPacket
  <2> QED
    BY <1>3, <1>4, <1>5, <1>6, <2>1
<1>9. (i + 1) + M <= D
  <2>1. CASE (a + (i + L)) % Page = Page - 2
    <3> DEFINE z == a + (i + L)
    <3>1. z \in Int /\ (i + L) + 1 \in Int /\ a + ((i + L) + 1) = z + 1
      BY <1>3, <1>5 DEF Starts
    <3>5. z % Page = Page - 2
      BY <2>1
    <3> HIDE DEF z
    <3>2. (z + 1) % Page = Page - 1
      <4>1. (z + 1) % Page = IF z % Page = Page - 1 THEN 0 ELSE (z % Page) + 1
        BY <3>1, NextOffset, Zenon
      <4> QED
        BY <1>3, <3>5, <4>1
    <3>3. Plus(rx_cons, (i + L) + 1) % Page = (a + ((i + L) + 1)) % Page
      BY <1>3, <3>1, OffsetOf, Zenon DEF a
    <3>4. D # (i + L) + 1
      BY <1>3, <1>4, <1>6, <3>1, <3>2, <3>3 DEF Starts
    <3> QED
      BY <1>3, <1>5, <1>6, <1>8, <2>1, <3>4
  <2>2. CASE (a + (i + L)) % Page # Page - 2
    BY <1>3, <1>5, <1>6, <1>8, <2>2
  <2> QED
    BY <2>1, <2>2
<1>10. i + 1 \in Nat /\ (i + 1) + hwavail <= RingSize - 1
  BY <1>3 DEF HarvestPacket, Full
<1>11. TypeOK'
  <2>1. sw_cons' \in Words
    <3>1. (i + 1) + M \in Int
      BY <1>3, <1>5
    <3> QED
      BY <1>3, <1>7, <3>1, PlusPlus
  <2>2. i' \in 0 .. RingSize
    BY <1>3, <1>10 DEF HarvestPacket
  <2> QED
    BY <1>3, <2>1, <2>2 DEF TypeOK, HarvestPacket, kvars, uvars, dvars, nvars, rvars, lvars
<1>12. OffsetsOK' /\ ProcessOK'
  BY DEF IInv, OffsetsOK, ProcessOK, HarvestPacket, kvars, uvars, lvars
<1>13. HarvestOK'
  <2>1. /\ rx_cons' = rx_cons /\ hw_cons' = hw_cons /\ i' = i + 1 /\ hwavail' = hwavail
        /\ pc = "harvest"
    BY DEF HarvestPacket, dvars, kvars
  <2>2. (hw_cons - rx_cons) % Word <= Got /\ hw_cons % Page \in Starts
    BY <2>1 DEF IInv, SyncOK, HarvestOK
  <2> QED
    BY <1>2, <1>7, <1>9, <1>10, <2>1, <2>2 DEF HarvestOK, a, M, D
<1>14. SyncOK'
  BY <1>13 DEF IInv, SyncOK, Syncing, HarvestPacket, uvars
<1> QED
  BY <1>2, <1>11, <1>12, <1>14 DEF IInv

LEMMA HarvestReloadStep ==
    ASSUME Legal, IInv, HarvestReload
    PROVE  IInv'
<1>1. UNCHANGED RingVars /\ UNCHANGED <<mem, nextId, harvestId, expected>> /\ Reader' = Reader
  BY DEF HarvestReload, RingVars, kvars, uvars, dvars, nvars, lvars, Reader
<1>2. RingsOK' /\ Got' = Got /\ DataOK'
  BY <1>1, RingsStay, DataStay DEF IInv
<1>3. TypeOK /\ rx_cons \in Int /\ hw_cons \in Int /\ Word \in Nat \ {0} /\ i \in Nat /\ rx_cons % Page \in Starts
  BY Types, Params DEF IInv, RingsOK
<1>4. GetHwCons \in Words /\ GetHwCons % Page \in Starts /\ Got \in Nat
  BY <1>3, HwCons
<1>5. TypeOK'
  BY <1>3, <1>4 DEF TypeOK, HarvestReload, kvars, uvars, dvars, nvars, rvars, lvars
<1>6. OffsetsOK' /\ ProcessOK'
  BY DEF IInv, OffsetsOK, ProcessOK, HarvestReload, kvars, uvars, lvars
<1>7. HarvestOK'
  <2> DEFINE m == i + Links(rx_cons % Page, i)
             D == (hw_cons - rx_cons) % Word
  <2>1. HarvestOK
    BY DEF IInv, SyncOK, HarvestReload
  <2>2. m \in Nat /\ D \in Int
    <3>1. hw_cons - rx_cons \in Int
      BY <1>3
    <3> QED
      BY <1>3, <3>1, LinksAre, DivIs
  <2>3. m <= D /\ D <= Got
    BY <2>1 DEF HarvestOK
  <2>4. m <= Got
    BY <1>4, <2>2, <2>3
  <2>5. (hw_cons' - rx_cons') % Word = Got
    BY DEF HarvestReload, dvars, Got
  <2> QED
    BY <1>2, <1>4, <2>1, <2>4, <2>5 DEF HarvestOK, HarvestReload, dvars, kvars
<1>8. SyncOK'
  BY <1>7 DEF IInv, SyncOK, Syncing, HarvestReload, uvars
<1> QED
  BY <1>2, <1>5, <1>6, <1>8 DEF IInv

LEMMA RecvBeginStep ==
    ASSUME Legal, IInv, RecvBegin
    PROVE  IInv'
<1>1. UNCHANGED RingVars /\ UNCHANGED <<mem, nextId, harvestId, expected>> /\ Reader' = Reader
  BY DEF RecvBegin, RingVars, kvars, uvars, dvars, nvars, Reader
<1>2. RingsOK' /\ Got' = Got /\ DataOK'
  BY <1>1, RingsStay, DataStay DEF IInv
<1>3. /\ TypeOK /\ Batch \in Nat \ {0} /\ avail \in Nat /\ cur \in Slots /\ hwcur \in Slots
      /\ Dist(hwcur, cur) \in Int
  <2>1. TypeOK /\ cur \in Slots /\ hwcur \in Slots
    BY DEF IInv, TypeOK
  <2> QED
    BY <2>1, Types, Params, Dists
<1>4. todo' \in 0 .. Batch /\ todo' <= avail /\ todo' > 0
  BY <1>3 DEF RecvBegin
<1>5. TypeOK'
  <2>1. rx' \in 0 .. Batch
    BY <1>3 DEF RecvBegin
  <2> QED
    BY <1>3, <1>4, <2>1 DEF TypeOK, RecvBegin, kvars, uvars, dvars, nvars, rvars, svars
<1>6. OffsetsOK' /\ SyncOK'
  BY DEF IInv, OffsetsOK, SyncOK, Syncing, RecvBegin, kvars, uvars
<1>7. ProcessOK'
  <2>1. Dist(hwcur, ucur)' = Dist(hwcur, cur) /\ Dist(hwcur, cur)' = Dist(hwcur, cur)
    BY DEF RecvBegin, kvars, uvars
  <2>2. Dist(hwcur, cur) = Dist(hwcur, cur) + rx' /\ rx' <= todo'
    BY <1>3, <1>4 DEF RecvBegin
  <2> QED
    BY <1>4, <2>1, <2>2 DEF IInv, ProcessOK, RecvBegin, kvars, uvars
<1> QED
  BY <1>2, <1>5, <1>6, <1>7 DEF IInv

LEMMA RecvSlotStep ==
    ASSUME Legal, IInv, RecvSlot
    PROVE  IInv'
<1>1. UNCHANGED RingVars /\ UNCHANGED <<mem, nextId, harvestId>> /\ cur' = cur /\ pc = "recv" /\ pc' = "recv"
  BY DEF RecvSlot, RingVars, kvars, uvars, dvars, nvars
<1>2. RingsOK' /\ Got' = Got
  BY <1>1, RingsStay DEF IInv
<1> DEFINE t == Dist(hwcur, ucur)
           c == Dist(hwcur, cur)
<1>3. /\ TypeOK /\ OffsetsOK /\ ucur \in Slots /\ hwcur \in Slots /\ cur \in Slots /\ ucur \in Int
      /\ rx \in Nat /\ todo \in Nat /\ avail \in Nat /\ hwavail \in Nat /\ hwavail < Num /\ Num \in Nat
  BY Types DEF IInv, TypeOK
<1>4. t = c + rx /\ rx < todo /\ todo <= avail /\ c + avail <= hwavail /\ todo > 0
  BY <1>1 DEF IInv, ProcessOK, RecvSlot
<1>5. t \in 0 .. Num - 1 /\ c \in 0 .. Num - 1 /\ Next1(ucur) \in Slots
  BY <1>3, Dists
<1>6. t \in Nat /\ t + 1 < Num /\ t < hwavail /\ t + 1 = c + (rx + 1)
  BY <1>3, <1>4, <1>5
<1>7. Dist(hwcur, ucur)' = t + 1
  <2>1. Dist(hwcur, Next1(ucur)) = t + 1
    BY <1>3, <1>6, Dists
  <2> QED
    BY <1>1, <2>1 DEF RecvSlot, RingVars
<1>8. expected = Packet(t)
  BY <1>1 DEF IInv, DataOK, Reader
<1>9. expected' = Packet(t + 1)
  <2>1. InOrder
    BY GivenInOrder
  <2>2. (Chain(K2N(ucur)) <=> Link(ucur) = 1) /\ (Skipped(ucur) <=> Link(ucur) = 1)
    BY <1>3, SlotLinks
  <2>3. Link(hwcur + t) = Link(ucur)
    BY <1>3, LinkAt
  <2>4. ~Skipped(ucur) => mem[ucur] = expected
    BY <1>1, <1>4, <2>1, <2>2 DEF InOrder
  <2>5. Packet(t + 1) = IF Link(hwcur + t) = 1 THEN Packet(t) ELSE Plus(Packet(t), 1)
    BY <1>3, <1>6, PacketNext
  <2> QED
    BY <1>8, <2>2, <2>3, <2>4, <2>5 DEF RecvSlot
<1>10. Packet(t + 1) \in Words
  BY <1>3, <1>6, PacketNext
<1> HIDE DEF t, c
<1>11. TypeOK'
  <2>1. rx' \in 0 .. Batch
    BY <1>3, <1>4, Params DEF TypeOK, RecvSlot
  <2> QED
    BY <1>3, <1>5, <1>9, <1>10, <2>1 DEF TypeOK, RecvSlot, kvars, uvars, dvars, nvars, rvars, svars
<1>12. OffsetsOK' /\ SyncOK'
  BY <1>1 DEF IInv, OffsetsOK, SyncOK, Syncing, RecvSlot, kvars, uvars
<1>13. ProcessOK'
  <2>1. Dist(hwcur, cur)' = c /\ c = Dist(hwcur, cur)
    BY <1>1 DEF RingVars, c
  <2>2. Dist(hwcur, ucur)' = c + rx'
    BY <1>6, <1>7 DEF RecvSlot
  <2>3. rx' <= todo
    BY <1>3, <1>4 DEF RecvSlot
  <2>4. UNCHANGED <<reserved, avail, hwavail, todo>>
    BY DEF RecvSlot, uvars, kvars
  <2> QED
    BY <1>1, <1>4, <2>1, <2>2, <2>3, <2>4 DEF IInv, ProcessOK
<1>14. DataOK'
  <2>1. First' = First
    BY <1>1 DEF RingVars, First
  <2>2. \A s : (Packet(s))' = Packet(s)
    BY <1>1, <2>1 DEF RingVars, Packet
  <2>3. Dist(hwcur, Reader)' = t + 1
    BY <1>1, <1>7 DEF Reader
  <2> QED
    BY <1>1, <1>2, <1>9, <2>2, <2>3 DEF IInv, DataOK, RingVars, Packet
<1> QED
  BY <1>2, <1>11, <1>12, <1>13, <1>14 DEF IInv

LEMMA RecvAvailStep ==
    ASSUME Legal, IInv, RecvAvail
    PROVE  IInv'
<1>1. UNCHANGED RingVars /\ UNCHANGED <<mem, nextId, harvestId, expected>> /\ Reader' = Reader
  BY DEF RecvAvail, RingVars, kvars, dvars, nvars, lvars, Reader
<1>2. RingsOK' /\ Got' = Got /\ DataOK'
  BY <1>1, RingsStay, DataStay DEF IInv
<1> DEFINE t == Dist(hwcur, ucur)
           c == Dist(hwcur, cur)
<1>3. /\ TypeOK /\ avail \in Nat /\ avail < Num /\ rx \in Nat /\ hwavail \in Nat /\ Num \in Nat
      /\ t \in Int /\ c \in Int
  <2>1. TypeOK /\ ucur \in Slots /\ cur \in Slots /\ hwcur \in Slots
    BY DEF IInv, TypeOK
  <2>2. t \in 0 .. Num - 1 /\ c \in 0 .. Num - 1
    BY <2>1, Dists
  <2> QED
    BY <2>1, <2>2, Types
<1>4. rx = todo /\ todo <= avail /\ todo > 0 /\ t = c + rx /\ c + avail <= hwavail /\ reserved <= c
  BY DEF IInv, ProcessOK, RecvAvail
<1>5. Dist(hwcur, ucur)' = t /\ Dist(hwcur, cur)' = c
  BY DEF RecvAvail, kvars, lvars
<1> HIDE DEF t, c
<1>6. avail' \in 0 .. Num - 1 /\ c + avail' <= hwavail /\ t + avail' <= hwavail /\ c <= t /\ t > 0
  <2>1. c >= 0
    BY <1>3, Dists DEF c, IInv, TypeOK
  <2> QED
    BY <1>3, <1>4, <2>1 DEF RecvAvail
<1>7. TypeOK'
  BY <1>3, <1>6 DEF TypeOK, RecvAvail, kvars, dvars, nvars, rvars, svars, lvars
<1>8. OffsetsOK' /\ SyncOK'
  BY DEF IInv, OffsetsOK, SyncOK, Syncing, RecvAvail, kvars
<1>9. ProcessOK'
  BY <1>4, <1>5, <1>6 DEF ProcessOK, RecvAvail, kvars
<1> QED
  BY <1>2, <1>7, <1>8, <1>9 DEF IInv

LEMMA RecvCurStep ==
    ASSUME Legal, IInv, RecvCur
    PROVE  IInv'
<1>1. UNCHANGED RingVars /\ UNCHANGED <<mem, nextId, harvestId, expected>> /\ Reader' = Reader
  BY DEF RecvCur, RingVars, kvars, dvars, nvars, Reader
<1>2. RingsOK' /\ Got' = Got /\ DataOK'
  BY <1>1, RingsStay, DataStay DEF IInv
<1>3. TypeOK'
  <2>1. 0 \in Slots /\ 0 \in 0 .. Batch
    BY Params DEF Slots
  <2> QED
    BY <2>1 DEF IInv, TypeOK, RecvCur, kvars, dvars, nvars, rvars, svars
<1>4. OffsetsOK' /\ SyncOK'
  BY DEF IInv, OffsetsOK, SyncOK, Syncing, RecvCur, kvars
<1>5. ProcessOK'
  <2> DEFINE t == Dist(hwcur, ucur)
             c == Dist(hwcur, cur)
  <2>1. t \in Int /\ c \in Int /\ reserved \in Int
    <3>1. TypeOK /\ ucur \in Slots /\ cur \in Slots /\ hwcur \in Slots
      BY DEF IInv, TypeOK
    <3>2. t \in 0 .. Num - 1 /\ c \in 0 .. Num - 1
      BY <3>1, Dists
    <3> QED
      BY <3>1, <3>2, Types
  <2>2. reserved <= c /\ c <= t /\ t + avail <= hwavail
    BY DEF IInv, ProcessOK, RecvCur
  <2>3. Dist(hwcur, cur)' = t
    BY DEF RecvCur, kvars
  <2>4. reserved <= t
    BY <2>1, <2>2
  <2> QED
    BY <2>2, <2>3, <2>4 DEF ProcessOK, RecvCur, kvars
<1> QED
  BY <1>2, <1>3, <1>4, <1>5 DEF IInv

LEMMA ReserveStep ==
    ASSUME Legal, IInv, Reserve
    PROVE  IInv'
<1>1. UNCHANGED RingVars /\ UNCHANGED <<mem, nextId, harvestId, expected>> /\ Reader' = Reader
  BY DEF Reserve, RingVars, kvars, dvars, nvars, lvars, Reader
<1>2. RingsOK' /\ Got' = Got /\ DataOK'
  BY <1>1, RingsStay, DataStay DEF IInv
<1>3. reserved' \in 0 .. MaxResvd /\ reserved' <= Dist(hwcur, cur)
  BY DEF Reserve
<1>4. TypeOK'
  BY <1>3 DEF IInv, TypeOK, Reserve, kvars, dvars, nvars, rvars, svars, lvars
<1>5. OffsetsOK' /\ SyncOK'
  BY DEF IInv, OffsetsOK, SyncOK, Syncing, Reserve, kvars
<1>6. ProcessOK'
  BY <1>3 DEF IInv, ProcessOK, Reserve, kvars, lvars
<1> QED
  BY <1>2, <1>4, <1>5, <1>6 DEF IInv

LEMMA StutterStep ==
    ASSUME Legal, IInv, UNCHANGED vars
    PROVE  IInv'
<1>1. UNCHANGED RingVars /\ UNCHANGED <<mem, nextId, harvestId, expected>> /\ Reader' = Reader
  BY DEF vars, RingVars, kvars, uvars, dvars, nvars, lvars, Reader
<1>2. RingsOK' /\ Got' = Got /\ DataOK'
  BY <1>1, RingsStay, DataStay DEF IInv
<1>3. TypeOK'
  BY DEF IInv, TypeOK, vars, kvars, uvars, dvars, nvars, rvars, svars, lvars
<1>4. OffsetsOK' /\ ProcessOK'
  BY DEF IInv, OffsetsOK, ProcessOK, vars, kvars, uvars, lvars
<1>5. SyncOK'
  BY <1>2 DEF IInv, SyncOK, Syncing, HarvestOK, vars, kvars, uvars, dvars, svars
<1> QED
  BY <1>2, <1>3, <1>4, <1>5 DEF IInv

LEMMA NicReceiveStep ==
    ASSUME Legal, IInv, NicReceive
    PROVE  IInv'
<1> DEFINE t == hwavail + Got
           e == Link(hw')
           s == (hwcur + t) % Num
<1>1. /\ TypeOK /\ OffsetsOK /\ RingsOK /\ hwcur \in Int /\ hwcur \in Slots /\ hwavail \in Nat
      /\ rx_cons \in Int /\ rx_cons \in Words /\ Num \in Nat /\ Num >= 8 /\ Word \in Nat \ {0} /\ Word >= 2 * Num
      /\ Page \in Nat /\ Page >= 4 /\ hw \in Int
  BY Types, Params DEF IInv, TypeOK
<1>2. /\ Got \in Nat /\ Room \in Nat /\ Got <= Room /\ hwavail + Room <= Num
      /\ GetHwCons \in Words /\ GetHwCons = Plus(rx_cons, Got) /\ rx_prod = Plus(rx_cons, Room)
      /\ GetHwCons % Page \in Starts /\ rx_prod % Page \in Starts
  BY <1>1, HwCons, RoomIs
<1>3. /\ GetHwCons # rx_prod
      /\ hw' = Plus(GetHwCons, 1) /\ nextId' = Plus(nextId, 1)
      /\ mem' = [mem EXCEPT ![daddr[Idx(GetHwCons)]] = nextId]
      /\ UNCHANGED <<kvars, uvars, dvars, rvars, pc, svars, lvars, harvestId, expected>>
  BY DEF NicReceive, GetHwCons
<1>4. Got < Room
  <2>1. Got # Room
    BY <1>2, <1>3
  <2> QED
    BY <1>2, <2>1
<1>5. t \in Nat /\ t < Num /\ t \in Int /\ t \in 0 .. Num - 1
  BY <1>1, <1>2, <1>4
<1>6. hw' = Plus(rx_cons, Got + 1) /\ hw' \in Words /\ hw' \in Int
  <2>1. Plus(Plus(rx_cons, Got), 1) = Plus(rx_cons, Got + 1) /\ Plus(rx_cons, Got + 1) \in Words
    <3>1. Got \in Int /\ 1 \in Int /\ Got + 1 \in Int /\ rx_cons \in Int
      BY <1>1, <1>2
    <3> QED
      BY <3>1, PlusPlus, Zenon
  <2>2. hw' = Plus(rx_cons, Got + 1)
    BY <1>2, <1>3, <2>1, Zenon
  <2> QED
    BY <2>1, <2>2 DEF Words
<1>7. e \in {0, 1} /\ (hw')% Page \in Offsets /\ (e = 1 <=> (hw') % Page = Page - 1)
  BY <1>6, Mods DEF Link, Offsets
<1>8. (hw') % Page = (hwcur + (t + 1)) % Page /\ GetHwCons % Page = (hwcur + t) % Page
  <2>1. Got \in Int /\ Got + 1 \in Int /\ t + 1 = hwavail + (Got + 1)
    BY <1>1, <1>2
  <2>2. /\ Idx(Plus(rx_cons, Got)) % Page = (hwcur + (hwavail + Got)) % Page
        /\ Idx(Plus(rx_cons, Got + 1)) % Page = (hwcur + (hwavail + (Got + 1))) % Page
    BY <1>1, <2>1, SlotOf DEF RingsOK
  <2>3. Idx(hw') % Page = (hw') % Page
    BY <1>6, Mods DEF Idx
  <2>4. Idx(GetHwCons) % Page = GetHwCons % Page
    <3>1. GetHwCons \in Int
      BY <1>2 DEF Words
    <3> QED
      BY <3>1, Mods DEF Idx
  <2> QED
    BY <1>2, <1>6, <2>1, <2>2, <2>3, <2>4
<1>9. Link(hwcur + t) = 0 /\ Link(hwcur + (t + 1)) = e
  BY <1>1, <1>2, <1>8 DEF Link, Starts
<1>10. Idx(GetHwCons) \in Slots /\ daddr[Idx(GetHwCons)] = s /\ s \in Slots
  <2>1. GetHwCons \in Int
    BY <1>2 DEF Words
  <2>2. Idx(GetHwCons) \in Slots /\ Idx(GetHwCons) % Page = GetHwCons % Page
    BY <2>1, Mods DEF Idx
  <2>3. N2K(Idx(GetHwCons)) = s /\ s \in Slots
    BY <1>1, <1>2, <1>4, SlotFree
  <2> QED
    BY <1>1, <1>2, <2>2, <2>3 DEF RingsOK
<1>11. e = 1 => Got + 2 <= Room
  <2>1. SUFFICES ASSUME e = 1 PROVE Got + 1 # Room
    BY <1>2, <1>4
  <2>2. (hw') % Page = Page - 1
    BY <1>7, <2>1
  <2> QED
    BY <1>1, <1>2, <1>6, <2>2 DEF Starts
<1> HIDE DEF t, e, s
<1>12. Got' = (Got + 1) + e
  <2> DEFINE g == (Got + 1) + e
  <2>1. g \in 0 .. Word - 1 /\ g \in Int /\ Got + 1 \in Int /\ e \in Int
    BY <1>1, <1>2, <1>4, <1>7, <1>11
  <2>2. GetHwCons' = Plus(rx_cons, g)
    <3>1. CASE e = 1
      <4>1. GetHwCons' = Plus(hw', 1)
        BY <1>7, <3>1 DEF GetHwCons, Chain
      <4>2. Plus(Plus(rx_cons, Got + 1), e) = Plus(rx_cons, (Got + 1) + e)
        <5>1. rx_cons \in Int /\ Got + 1 \in Int /\ e \in Int
          BY <1>1, <2>1
        <5> QED
          BY <5>1, PlusPlus, Zenon
      <4> QED
        BY <1>6, <3>1, <4>1, <4>2
    <3>2. CASE e = 0
      <4>1. GetHwCons' = hw'
        <5>1. (hw') % Page # Page - 1
          BY <1>7, <3>2
        <5> QED
          BY <5>1 DEF GetHwCons, Chain
      <4>2. g = Got + 1
        BY <2>1, <3>2
      <4> QED
        BY <1>6, <4>1, <4>2
    <3> QED
      BY <1>7, <3>1, <3>2
  <2> HIDE DEF g
  <2>3. (((rx_cons + g) % Word) - rx_cons) % Word = g
    BY <1>1, <2>1, UpSteps, Zenon
  <2>4. rx_cons' = rx_cons
    BY <1>3 DEF dvars
  <2> QED
    BY <2>2, <2>3, <2>4 DEF Got, Plus, g
<1>13. Got' \in Nat /\ Got' <= Room /\ Got <= Got' /\ hwavail + Got' = (t + 1) + e
  BY <1>1, <1>2, <1>4, <1>7, <1>11, <1>12 DEF t
<1>14. TypeOK'
  <2>1. mem' \in [Slots -> Words]
    BY <1>1, <1>3 DEF TypeOK
  <2>2. nextId' \in Words
    <3>1. nextId \in Int /\ 1 \in Int
      BY <1>1 DEF TypeOK, Words
    <3> QED
      BY <1>3, <3>1, PlusPlus
  <2> QED
    BY <1>1, <1>3, <1>6, <2>1, <2>2 DEF TypeOK, kvars, uvars, dvars, rvars, svars, lvars
<1>15. OffsetsOK' /\ ProcessOK'
  BY <1>3 DEF IInv, OffsetsOK, ProcessOK, kvars, uvars, lvars
<1>16. RingsOK'
  <2>1. Room' = Room
    BY <1>3 DEF Room, dvars
  <2>2. \A d : N2K(d)' = N2K(d)
    BY <1>3 DEF kvars, N2K
  <2> QED
    BY <1>1, <1>3, <1>13, <2>1, <2>2 DEF RingsOK, N2K, kvars, dvars
<1>17. SyncOK'
  <2>1. pc = "harvest" => HarvestOK'
    <3>1. SUFFICES ASSUME pc = "harvest" PROVE HarvestOK'
      OBVIOUS
    <3>2. HarvestOK
      BY <3>1 DEF IInv, SyncOK
    <3> DEFINE D == (hw_cons - rx_cons) % Word
    <3>3. D \in Int
      <4>1. hw_cons - rx_cons \in Int
        BY <1>1, Types
      <4> QED
        BY <1>1, <4>1, DivIs
    <3>4. D <= Got'
      BY <1>2, <1>13, <3>2, <3>3 DEF HarvestOK
    <3> QED
      BY <1>3, <3>2, <3>4 DEF HarvestOK, svars, dvars, kvars
  <2> QED
    BY <1>3, <2>1 DEF IInv, SyncOK, Syncing, uvars, svars
<1>18. DataOK'
  <2>1. First' = First /\ hwcur' = hwcur /\ hwavail' = hwavail /\ expected' = expected
    BY <1>3 DEF kvars, First
  <2>2. \A x : (Packet(x))' = Packet(x)
    BY <2>1 DEF Packet
  <2>3. Dist(hwcur, Reader)' = Dist(hwcur, Reader)
    BY <1>3 DEF Reader, uvars, lvars, kvars
  <2>4. nextId = Packet(t)
    BY DEF IInv, DataOK, t
  <2>5. Packet(t + 1) = Plus(Packet(t), 1)
    <3>1. Packet(t + 1) = IF Link(hwcur + t) = 1 THEN Packet(t) ELSE Plus(Packet(t), 1)
      BY <1>1, <1>5, PacketNext
    <3> QED
      BY <1>9, <3>1
  <2>6. Packet((t + 1) + e) = Plus(Packet(t), 1)
    <3>1. CASE e = 1
      <4>1. t + 1 \in Nat
        BY <1>5
      <4>2. Packet((t + 1) + 1) = IF Link(hwcur + (t + 1)) = 1 THEN Packet(t + 1) ELSE Plus(Packet(t + 1), 1)
        BY <1>1, <4>1, PacketNext
      <4> QED
        BY <1>9, <2>5, <3>1, <4>2
    <3>2. CASE e = 0
      <4>1. (t + 1) + e = t + 1
        BY <1>5, <3>2
      <4> QED
        BY <2>5, <4>1
    <3> QED
      BY <1>7, <3>1, <3>2
  <2>7. nextId' = Packet(hwavail' + Got')
    <3>1. nextId' = Packet(hwavail + Got')
      BY <1>3, <1>13, <2>4, <2>6
    <3> QED
      BY <2>1, <3>1
  <2>8. ASSUME NEW x \in 0 .. (t + 1) + e - 1, Link(hwcur + x) = 0
        PROVE  mem'[(hwcur + x) % Num] = Packet(x)
    <3>1. x \in Nat /\ x \in Int /\ (x < t \/ x = t \/ (x = t + 1 /\ e = 1))
      BY <1>5, <1>7, <2>8
    <3>2. ~(x = t + 1 /\ e = 1)
      BY <1>9, <2>8
    <3>3. CASE x = t
      BY <1>1, <1>3, <1>10, <2>4, <3>3 DEF s, TypeOK
    <3>4. CASE x < t
      <4>1. x \in 0 .. Num - 1
        BY <1>1, <1>5, <3>1, <3>4
      <4>2. (hwcur + x) % Num # s
        <5>1. Num \in Nat \ {0}
          BY <1>1
        <5>2. (hwcur + x) % Num = (hwcur + t) % Num => x = t
          BY <1>1, <1>5, <4>1, <5>1, Apart, Zenon
        <5> QED
          BY <1>5, <3>1, <3>4, <5>2 DEF s
      <4>3. (hwcur + x) % Num \in Slots
        BY <1>1, <4>1, DistOf
      <4>4. mem'[(hwcur + x) % Num] = mem[(hwcur + x) % Num]
        BY <1>1, <1>3, <1>10, <4>2, <4>3 DEF TypeOK
      <4>5. x \in 0 .. hwavail + Got - 1
        BY <1>1, <1>2, <3>1, <3>4 DEF t
      <4> QED
        BY <2>8, <4>4, <4>5 DEF IInv, DataOK
    <3> QED
      BY <3>1, <3>2, <3>3, <3>4
  <2> DEFINE g == (Got + 1) + e
  <2>9. Got' = g /\ g \in Int /\ hwavail + g = (t + 1) + e
    BY <1>1, <1>2, <1>7, <1>12 DEF t
  <2> HIDE DEF g
  <2>12. 0 .. hwavail' + Got' - 1 = 0 .. hwavail + g - 1
    BY <2>1, <2>9, Zenon
  <2>10. ASSUME NEW x, x \in 0 .. hwavail' + Got' - 1, Link(hwcur' + x) = 0
         PROVE  mem'[(hwcur' + x) % Num] = Packet(x)
    <3>1. x \in 0 .. hwavail + g - 1 /\ Link(hwcur + x) = 0 /\ hwcur' + x = hwcur + x
      BY <2>1, <2>10, <2>12, Zenon
    <3>2. x \in 0 .. (t + 1) + e - 1
      BY <1>1, <1>5, <1>7, <2>9, <3>1
    <3> QED
      BY <2>8, <3>1, <3>2
  <2>11. expected' = Packet(Dist(hwcur, Reader)')
    BY <2>1, <2>3 DEF IInv, DataOK
  <2> QED
    BY <2>1, <2>7, <2>10, <2>11 DEF DataOK, Packet
<1> QED
  BY <1>14, <1>15, <1>16, <1>17, <1>18 DEF IInv

LEMMA Between ==
    ASSUME Legal, NEW x \in Int, NEW n \in Nat, NEW m \in Nat, n <= m, m < Word
    PROVE  (Plus(x, m) - Plus(x, n)) % Word = m - n
<1> DEFINE d == m - n
           y == Plus(x, n)
<1>1. Word \in Nat \ {0} /\ d \in Int /\ d \in 0 .. Word - 1 /\ n \in Int /\ n + d = m
  BY Params
<1>2. y \in Int
  BY <1>1, PlusPlus, Params DEF Words
<1>3. Plus(Plus(x, n), d) = Plus(x, n + d)
  BY <1>1, PlusPlus, Zenon
<1> HIDE DEF d, y
<1>4. (((y + d) % Word) - y) % Word = d
  BY <1>1, <1>2, UpSteps, Zenon
<1>5. Plus(x, m) = (y + d) % Word
  BY <1>1, <1>3 DEF Plus, y
<1> QED
  BY <1>4, <1>5 DEF d, y

\* the buffers a rx_sync harvests, and the slots it passes
LEMMA Harvested ==
    ASSUME Legal, IInv, HarvestEnd,
           NEW n, n = i + Links(rx_cons % Page, i)
    PROVE  /\ n \in Nat /\ n <= Got /\ sw_cons = Plus(rx_cons, n) /\ i <= n
           /\ hwavail' = hwavail + n /\ hwavail + n < Num
           /\ (rx_cons % Page) + n \in Int /\ ((rx_cons % Page) + n) % Page \in Starts
<1> DEFINE a == rx_cons % Page
           L == Links(a, i)
           z == hwcur + hwavail
           k0 == z % Num
<1>1. /\ TypeOK /\ OffsetsOK /\ RingsOK /\ rx_cons \in Int /\ a \in Starts /\ i \in Nat /\ a \in Int
      /\ hwavail \in Nat /\ hwavail < Num /\ Num \in Nat /\ RingSize = Num - Pages /\ Pages \in Nat
      /\ z \in Int /\ hw_cons - rx_cons \in Int /\ Word \in Nat \ {0}
  <2>1. TypeOK /\ OffsetsOK /\ RingsOK /\ a \in Starts
    BY DEF IInv, RingsOK
  <2>2. /\ rx_cons \in Int /\ i \in Nat /\ hwavail \in Nat /\ hwavail < Num /\ z \in Int
        /\ hw_cons - rx_cons \in Int
    BY <2>1, Types
  <2>3. a \in Int
    BY <2>1, Params DEF Starts
  <2> QED
    BY <2>1, <2>2, <2>3, Params
<1>2. HarvestOK
  BY DEF IInv, SyncOK, HarvestEnd
<1>3. L \in Nat /\ Links(a, 0) = 0 /\ (a + (i + L)) % Page \in Starts
  BY <1>1, LinksAre
<1>4. n = i + L /\ n \in Nat /\ n \in Int /\ i <= n
  BY <1>1, <1>3
<1>5. n <= Got /\ sw_cons = Plus(rx_cons, n)
  <2> DEFINE D == (hw_cons - rx_cons) % Word
  <2>1. D \in Int
    BY <1>1, DivIs
  <2>2. n <= D /\ D <= Got /\ sw_cons = Plus(rx_cons, n)
    BY <1>2 DEF HarvestOK
  <2>3. Got \in Int
    BY <1>1, RoomIs
  <2> HIDE DEF D
  <2> QED
    BY <1>4, <2>1, <2>2, <2>3
<1>6. ASSUME i # 0
      PROVE  hwavail' = hwavail + n /\ hwavail + n < Num
  <2>1. i + hwavail <= RingSize - 1
    BY <1>2, <1>6 DEF HarvestOK
  <2>2. i \in 0 .. RingSize - 1
    BY <1>1, <2>1
  <2>3. N2K(Idx(rx_cons)) = k0 /\ N2K(Idx(sw_cons)) = (hwcur + (hwavail + n)) % Num /\ a = z % Page
    BY <1>1, <1>4, <1>5, SlotOf DEF RingsOK
  <2>4. hwcur + (hwavail + n) = z + n
    BY <1>1, <1>4, Types
  <2> HIDE DEF z
  <2>5. ((z % Num) + n) % Num = (z + n) % Num
    BY <1>1, <1>4, Wraps, Zenon
  <2>6. k0 \in Slots /\ k0 % Page = a
    BY <1>1, <2>3, Mods
  <2>7. N2K(Idx(sw_cons)) = (k0 + (i + L)) % Num
    BY <1>4, <2>3, <2>4, <2>5
  <2>8. L \in 0 .. Pages /\ Crossed(k0, (k0 + (i + L)) % Num) = L
    <3> HIDE DEF a, k0
    <3>1. k0 % Page \in Starts
      BY <1>1, <2>6
    <3>2. /\ Links(k0 % Page, i) \in 0 .. Pages
          /\ Crossed(k0, (k0 + (i + Links(k0 % Page, i))) % Num) = Links(k0 % Page, i)
      BY <2>2, <2>6, <3>1, CrossedIs
    <3> QED
      BY <2>6, <3>2
  <2>9. hwavail' = (hwavail + i) + L
    BY <1>6, <2>3, <2>7, <2>8 DEF HarvestEnd
  <2> HIDE DEF L
  <2> QED
    BY <1>1, <1>3, <1>4, <2>1, <2>8, <2>9
<1>7. ASSUME i = 0
      PROVE  hwavail' = hwavail + n /\ hwavail + n < Num
  <2>1. hwavail' = hwavail
    BY <1>7 DEF HarvestEnd
  <2>2. n = 0
    BY <1>3, <1>4, <1>7
  <2> QED
    BY <1>1, <2>1, <2>2
<1>8. hwavail' = hwavail + n /\ hwavail + n < Num
  BY <1>6, <1>7
<1>9. (rx_cons % Page) + n \in Int /\ ((rx_cons % Page) + n) % Page \in Starts
  BY <1>1, <1>3, <1>4
<1> QED
  BY <1>4, <1>5, <1>8, <1>9

LEMMA HarvestEndStep ==
    ASSUME Legal, IInv, HarvestEnd
    PROVE  IInv'
<1> DEFINE a == rx_cons % Page
           n == i + Links(a, i)
           A == hwcur % Page
           v == hwavail + n
           g == Got - n
<1>1. /\ n \in Nat /\ n <= Got /\ sw_cons = Plus(rx_cons, n) /\ i <= n
      /\ hwavail' = v /\ v < Num /\ a + n \in Int /\ (a + n) % Page \in Starts
  BY Harvested
<1>2. /\ TypeOK /\ OffsetsOK /\ RingsOK /\ hwcur \in Nat /\ hwavail \in Nat /\ avail \in Nat
      /\ i \in Nat /\ harvestId \in Int /\ A \in Offsets /\ rx_cons \in Int /\ a \in Starts
      /\ Num \in Nat /\ Num >= 8 /\ Word \in Nat \ {0} /\ Word >= 2 * Num
  BY Types, Params DEF IInv, RingsOK
<1>3. Got \in Nat /\ Room \in Nat /\ Got <= Room /\ hwavail + Room <= Num /\ Link(hwcur) \in {0, 1}
  BY <1>2, RoomIs
<1>4. GetHwCons = Plus(rx_cons, Got) /\ rx_prod = Plus(rx_cons, Room)
  BY <1>2, HwCons
<1>5. /\ rx_cons' = sw_cons /\ harvestId' = Plus(harvestId, i) /\ pc = "harvest" /\ pc' = "rearm"
      /\ UNCHANGED <<hwcur, hwofs, uvars, rx_prod, daddr, nvars, rvars, svars, lvars, expected>>
  BY DEF HarvestEnd
<1>6. v \in Nat /\ v \in 0 .. Num - 1 /\ g \in Nat /\ g <= Room - n /\ v + g = hwavail + Got /\ n \in Int
  BY <1>1, <1>2, <1>3
<1>7. A \in Int /\ a = (A + hwavail) % Page
  <2>1. a = (hwcur + hwavail) % Page
    BY <1>2, SlotOf DEF RingsOK
  <2>2. hwcur \in Int /\ hwavail \in Int
    BY <1>2
  <2>3. (A + hwavail) % Page = (hwcur + hwavail) % Page
    BY <2>2, Wraps, Zenon
  <2>4. A \in Int
    BY <1>2, Params DEF Offsets
  <2> QED
    BY <2>1, <2>3, <2>4
<1> HIDE DEF n, v, g
<1>8. Got' = g
  <2>1. (Plus(rx_cons, Got) - Plus(rx_cons, n)) % Word = Got - n
    BY <1>1, <1>2, <1>3, Between
  <2>2. GetHwCons' = GetHwCons
    BY <1>5 DEF GetHwCons, nvars
  <2> QED
    BY <1>1, <1>4, <1>5, <2>1, <2>2 DEF Got, g
<1>9. Room' = Room - n
  <2>1. (Plus(rx_cons, Room) - Plus(rx_cons, n)) % Word = Room - n
    BY <1>1, <1>2, <1>3, Between
  <2> QED
    BY <1>1, <1>4, <1>5, <2>1 DEF Room
<1>10. TypeOK'
  <2>1. harvestId' \in Words
    BY <1>2, <1>5, PlusPlus
  <2>2. sw_cons \in Words
    BY <1>2 DEF TypeOK
  <2> QED
    BY <1>1, <1>2, <1>5, <1>6, <2>1, <2>2 DEF TypeOK, uvars, nvars, rvars, svars, lvars
<1>11. OffsetsOK'
  BY <1>5 DEF IInv, OffsetsOK, uvars
<1>12. RingsOK'
  <2>1. N2K(Idx(rx_cons))' = (hwcur + v) % Num
    <3>1. N2K(Idx(Plus(rx_cons, n))) = (hwcur + (hwavail + n)) % Num
      BY <1>2, <1>6, SlotOf DEF RingsOK
    <3> QED
      BY <1>1, <1>5, <3>1 DEF N2K, Idx, v
  <2>2. (rx_cons') % Page \in Starts
    <3>1. Plus(rx_cons, n) % Page = (a + n) % Page
      BY <1>2, <1>6, OffsetOf, Zenon
    <3> QED
      BY <1>1, <1>5, <3>1
  <2>3. Room' = Num - v - Link(hwcur)
    <3>1. Room = Num - hwavail - Link(hwcur)
      BY <1>2 DEF RingsOK
    <3> QED
      BY <1>2, <1>3, <1>6, <1>9, <3>1 DEF v
  <2>4. Got' <= Room'
    BY <1>6, <1>8, <1>9
  <2>5. \A d \in Slots : d % Page \in Starts => daddr'[d] = (N2K(d))'
    BY <1>2, <1>5 DEF RingsOK, N2K
  <2>6. hwcur' = hwcur /\ Link(hwcur') = Link(hwcur)
    BY <1>5
  <2> QED
    BY <1>1, <2>1, <2>2, <2>3, <2>4, <2>5, <2>6 DEF RingsOK
<1>13. SyncOK'
  BY <1>5 DEF IInv, SyncOK, Syncing, uvars, svars
<1>14. ProcessOK'
  <2>1. Dist(hwcur, cur)' = Dist(hwcur, cur) /\ Dist(hwcur, cur) \in Int
    <3>1. hwcur \in Slots /\ cur \in Slots
      BY <1>2 DEF TypeOK
    <3>2. Dist(hwcur, cur) \in 0 .. Num - 1
      BY <3>1, Dists
    <3> QED
      BY <1>5, <3>2 DEF uvars
  <2>2. Dist(hwcur, cur) + avail <= v
    BY <1>1, <1>2, <2>1 DEF IInv, ProcessOK, v
  <2> QED
    BY <1>1, <1>5, <2>1, <2>2 DEF IInv, ProcessOK, uvars
<1>15. ASSUME NEW t \in Nat PROVE (Packet(t))' = Packet(t)
  <2> DEFINE d == Data(A, t)
             h == Data(A, hwavail)
             x == harvestId + i
             y == (0 - (h + i)) + d
  <2>1. Data(A, v) = h + i
    <3>1. Data(A, hwavail + n) = h + Data((A + hwavail) % Page, n)
      BY <1>1, <1>2, DataSum
    <3>2. Data(a, n) = i
      BY <1>2, DataLinks DEF n
    <3> QED
      BY <1>7, <3>1, <3>2 DEF v
  <2>2. d \in Int /\ h \in Int /\ x \in Int /\ y \in Int /\ i \in Int /\ harvestId \in Int
    BY <1>2, DataAre
  <2> HIDE DEF d, h
  <2>3. x + y = (harvestId - h) + d
    BY <2>2
  <2>4. ((x % Word) - (h + i)) + d = (x % Word) + y
    <3>1. x % Word \in Int
      BY <1>2, <2>2, DivIs
    <3> QED
      BY <2>2, <3>1
  <2> HIDE DEF x, y
  <2>5. ((x % Word) + y) % Word = (x + y) % Word
    BY <1>2, <2>2, Wraps, Zenon
  <2>6. First = harvestId - h
    BY DEF First, h
  <2>7. First' = (x % Word) - (h + i)
    BY <1>1, <1>5, <2>1 DEF First, Plus, x
  <2>8. Packet(t) = ((harvestId - h) + d) % Word
    BY <2>6 DEF Packet, d
  <2>9. hwcur' = hwcur
    BY <1>5
  <2>10. (Packet(t))' = (((x % Word) - (h + i)) + d) % Word
    BY <2>7, <2>9 DEF Packet, d
  <2> QED
    BY <2>3, <2>4, <2>5, <2>8, <2>10
<1>16. DataOK'
  <2>1. hwavail' + Got' = v + g /\ v + g = hwavail + Got
    BY <1>1, <1>6, <1>8, Zenon
  <2>2. 0 .. hwavail' + Got' - 1 = 0 .. v + g - 1
    BY <1>1, <1>8, Zenon
  <2>3. 0 .. v + g - 1 = 0 .. hwavail + Got - 1
    BY <1>2, <1>3, <1>6
  <2>4. hwavail + Got \in Nat
    BY <1>2, <1>3
  <2>5. nextId' = (Packet(hwavail + Got))'
    <3>1. nextId = Packet(hwavail + Got)
      BY DEF IInv, DataOK
    <3>2. \A t \in Nat : (Packet(t))' = Packet(t)
      BY <1>15
    <3>3. nextId' = nextId /\ hwavail' + Got' \in Nat
      BY <1>5, <2>1, <2>4 DEF nvars
    <3> QED
      BY <2>1, <2>4, <3>1, <3>2, <3>3 DEF Packet
  <2>6. expected' = (Packet(Dist(hwcur, Reader)))'
    <3> DEFINE r == Dist(hwcur, cur)
    <3>1. r \in Nat
      <4>1. hwcur \in Slots /\ cur \in Slots
        BY <1>2 DEF TypeOK
      <4>2. r \in 0 .. Num - 1
        BY <4>1, Dists
      <4> QED
        BY <4>2
    <3>2. Reader = cur /\ Reader' = cur
      BY <1>5 DEF Reader, uvars
    <3>3. Dist(hwcur, Reader)' = r
      BY <1>5, <3>2 DEF Dist
    <3>4. expected = Packet(r)
      BY <3>2 DEF IInv, DataOK
    <3>5. \A t \in Nat : (Packet(t))' = Packet(t)
      BY <1>15
    <3> HIDE DEF r
    <3> QED
      BY <1>5, <3>1, <3>3, <3>4, <3>5 DEF Packet
  <2>7. ASSUME NEW x, x \in 0 .. hwavail' + Got' - 1, Link(hwcur' + x) = 0
        PROVE  mem'[(hwcur' + x) % Num] = (Packet(x))'
    <3>1. x \in 0 .. hwavail + Got - 1 /\ x \in Nat
      <4>1. x \in 0 .. hwavail + Got - 1
        BY <2>2, <2>3, <2>7, Zenon
      <4> QED
        BY <4>1
    <3>2. hwcur' = hwcur /\ mem' = mem
      BY <1>5 DEF nvars
    <3>3. mem[(hwcur + x) % Num] = Packet(x)
      BY <2>7, <3>1, <3>2 DEF IInv, DataOK
    <3>4. (Packet(x))' = Packet(x)
      BY <1>15, <3>1
    <3> QED
      BY <3>2, <3>3, <3>4
  <2> QED
    BY <2>5, <2>6, <2>7 DEF DataOK
<1> QED
  BY <1>10, <1>11, <1>12, <1>13, <1>14, <1>16 DEF IInv

\* places counted from a slot k up from a, and from a
LEMMA Onward ==
    ASSUME Legal, NEW a \in Int, NEW k \in Int, NEW t \in Int
    PROVE  /\ (((a + k) % Num) + t) % Num = (a + (k + t)) % Num
           /\ (((a + k) % Num) + t) % Page = (a + (k + t)) % Page
           /\ Link(((a + k) % Num) + t) = Link(a + (k + t))
           /\ ((a + k) % Num) % Page = ((a % Page) + k) % Page
<1> DEFINE y == a + k
           z == y % Num
<1>1. y \in Int /\ y + t = a + (k + t)
  OBVIOUS
<1>2. z \in Int /\ z % Page = y % Page
  <2>1. z \in Slots /\ z % Page = y % Page
    BY <1>1, Mods
  <2> QED
    BY <2>1, Params DEF Slots
<1>3. (y % Page) = ((a % Page) + k) % Page
  BY Wraps
<1> HIDE DEF y
<1>4. (z + t) % Num = (y + t) % Num
  BY <1>1, Wraps, Zenon
<1> HIDE DEF z
<1>5. ((z % Page) + t) % Page = (z + t) % Page /\ ((y % Page) + t) % Page = (y + t) % Page
  BY <1>1, <1>2, Wraps, Zenon
<1>6. (z + t) % Page = (y + t) % Page
  BY <1>2, <1>5
<1>7. Link(z + t) = Link(y + t)
  BY <1>6 DEF Link
<1> QED
  BY <1>1, <1>2, <1>3, <1>4, <1>6, <1>7 DEF y, z

\* how far hwcur moves, and rx_prod with it
LEMMA Moving ==
    ASSUME Legal, IInv, Rearm
    PROVE  /\ Resvd = reserved /\ NewHwcur \in Slots
           /\ Count = Dist(hwcur, cur) - reserved /\ Count \in Nat
           /\ NewHwcur = (hwcur + Count) % Num
           /\ Dist(NewHwcur, cur) = reserved
           /\ Advance(rx_prod, Moves) = Plus(rx_prod, Count + Link(hwcur) - Link(hwcur + Count))
<1> DEFINE c == Dist(hwcur, cur)
           r == reserved
           k == c - r
<1>1. /\ TypeOK /\ OffsetsOK /\ RingsOK /\ hwcur \in Slots /\ cur \in Slots /\ hwcur \in Int /\ cur \in Int
      /\ r \in Nat /\ avail \in Nat /\ hwavail \in Nat /\ hwavail < Num /\ Num \in Nat \ {0}
      /\ rx_prod \in Words
  BY Types, Params DEF IInv, TypeOK
<1>2. c \in 0 .. Num - 1 /\ (hwcur + c) % Num = cur
  BY <1>1, Dists
<1>3. u = cur /\ resvd = r
  BY DEF Rearm, IInv, SyncOK, Syncing
<1>4. r <= c /\ c + avail <= hwavail
  BY DEF IInv, ProcessOK
<1>5. Resvd = r
  <2>1. ~(resvd + avail >= Num)
    BY <1>1, <1>2, <1>3, <1>4
  <2> QED
    BY <1>3, <2>1 DEF Resvd
<1>6. k \in 0 .. Num - 1 /\ k \in Nat /\ k \in Int /\ r \in 0 .. Num - 1 /\ k + r = c /\ r \in Int
  BY <1>1, <1>2, <1>4
<1>7. NewHwcur = (cur - r) % Num /\ NewHwcur \in Slots
  <2>1. NewHwcur = IF cur >= r THEN cur - r ELSE cur + Num - r
    BY <1>3, <1>5 DEF NewHwcur
  <2>2. CASE cur >= r
    <3>1. cur - r \in Slots
      BY <1>1, <1>6, <2>2 DEF Slots
    <3> QED
      BY <2>1, <2>2, <3>1, SmallMods
  <2>3. CASE ~(cur >= r)
    <3> DEFINE w == cur - r
    <3>1. w + 1 * Num \in Slots /\ NewHwcur = w + 1 * Num /\ w \in Int /\ 1 \in Int
      BY <1>1, <1>6, <2>1, <2>3 DEF Slots
    <3> HIDE DEF w
    <3>2. (w + 1 * Num) % Num = w % Num
      BY <1>1, <3>1, Turns, Zenon
    <3>3. (w + 1 * Num) % Num = w + 1 * Num
      BY <3>1, SmallMods, Zenon
    <3> QED
      BY <3>1, <3>2, <3>3 DEF w
  <2> QED
    BY <2>2, <2>3
<1> HIDE DEF c, k, r
<1>8. NewHwcur = (hwcur + k) % Num
  <2> DEFINE y == hwcur + c
             s == 0 - r
  <2>1. y \in Int /\ s \in Int /\ y + s = hwcur + k /\ cur - r = cur + s
    BY <1>1, <1>2, <1>6
  <2>2. y % Num = cur
    BY <1>2
  <2> HIDE DEF y, s
  <2>3. ((y % Num) + s) % Num = (y + s) % Num
    BY <2>1, Wraps, Zenon
  <2> QED
    BY <1>7, <2>1, <2>2, <2>3
<1>9. Count = k
  BY <1>1, <1>6, <1>8, DistOf DEF Count
<1>10. Dist(NewHwcur, cur) = r
  <2>1. (((hwcur + k) % Num) + r) % Num = (hwcur + (k + r)) % Num
    <3>1. hwcur \in Int /\ k \in Int /\ r \in Int
      BY <1>1, <1>6
    <3> QED
      BY <3>1, Onward, Zenon
  <2>2. (NewHwcur + r) % Num = cur
    BY <1>2, <1>6, <1>8, <2>1
  <2> QED
    BY <1>6, <1>7, <2>2, DistOf
<1>11. Moves = Cardinality({j \in 1 .. k : Link(hwcur + j) = 0})
  <2>1. ASSUME NEW j \in 1 .. k
        PROVE  ~Chain(K2N((hwcur + j) % Num)) <=> Link(hwcur + j) = 0
    <3> DEFINE s == (hwcur + j) % Num
    <3>1. hwcur + j \in Int
      BY <1>1, <1>6
    <3>6. s \in Slots /\ s % Page = (hwcur + j) % Page
      BY <3>1, Mods, Zenon
    <3>2. s \in Int /\ s % Page = (hwcur + j) % Page
      BY <1>1, <3>6 DEF Slots
    <3>3. Link(s) = Link(hwcur + j)
      BY <3>2 DEF Link
    <3>4. Chain(K2N(s)) <=> Link(s) = 1
      BY <1>1, <3>2, SlotLinks
    <3>5. Link(s) \in {0, 1}
      BY DEF Link
    <3> QED
      BY <3>3, <3>4, <3>5
  <2>2. {j \in 1 .. k : ~Chain(K2N((hwcur + j) % Num))} = {j \in 1 .. k : Link(hwcur + j) = 0}
    BY <2>1
  <2> QED
    BY <1>9, <2>2 DEF Moves
<1>12. Advance(rx_prod, Moves) = Plus(rx_prod, k + Link(hwcur) - Link(hwcur + k))
  <2>1. rx_prod % Page = (hwcur - Link(hwcur)) % Page
    BY <1>1, RoomIs
  <2> QED
    BY <1>1, <1>6, <1>11, <2>1, RearmAt
<1> QED
  BY <1>5, <1>6, <1>7, <1>8, <1>9, <1>10, <1>12 DEF c, r, k

LEMMA RearmStep ==
    ASSUME Legal, IInv, Rearm
    PROVE  IInv'
<1> DEFINE k == Count
           c == Dist(hwcur, cur)
           H == NewHwcur
           v == hwavail - k
           l == Link(hwcur)
           m == Link(hwcur + k)
           R == Num - v - m
           A == hwcur % Page
<1>1. /\ TypeOK /\ OffsetsOK /\ RingsOK /\ hwcur \in Slots /\ cur \in Slots /\ hwcur \in Int
      /\ reserved \in Nat /\ avail \in Nat /\ hwavail \in Nat /\ hwavail < Num /\ Num \in Nat \ {0} /\ Num >= 8
      /\ rx_cons \in Int /\ Word \in Nat \ {0} /\ Word >= 2 * Num /\ harvestId \in Int
      /\ A \in Offsets /\ RingSize \in Nat /\ Page \in Nat
  BY Types, Params DEF IInv, TypeOK
<1>2. /\ Got \in Nat /\ Room \in Nat /\ Got <= Room /\ l \in {0, 1}
      /\ Room = Num - hwavail - l /\ rx_prod = Plus(rx_cons, Room)
  BY <1>1, RoomIs, HwCons DEF RingsOK
<1>3. /\ Resvd = reserved /\ H \in Slots /\ k = c - reserved /\ k \in Nat
      /\ H = (hwcur + k) % Num /\ Dist(H, cur) = reserved
      /\ Advance(rx_prod, Moves) = Plus(rx_prod, k + l - m)
  BY Moving
<1>4. c \in Nat /\ reserved <= c /\ c + avail <= hwavail
  <2>1. c \in 0 .. Num - 1
    BY <1>1, Dists
  <2> QED
    BY <2>1 DEF IInv, ProcessOK
<1>5. /\ hwavail' = v /\ hwcur' = H /\ rx_prod' = Plus(rx_prod, k + l - m)
      /\ reserved' = reserved /\ avail' = v - reserved /\ pc = "rearm" /\ pc' = "user"
      /\ u' = 0 /\ resvd' = 0 /\ hw_cons' = 0 /\ sw_cons' = 0 /\ i' = 0
      /\ UNCHANGED <<hwofs, cur, hw_ofs, rx_cons, daddr, nvars, rvars, lvars, harvestId, expected>>
  BY <1>3 DEF Rearm, Published
<1>6. m \in {0, 1} /\ (k = 0 => m = l)
  <2>1. m \in {0, 1}
    BY DEF Link
  <2>2. k = 0 => hwcur + k = hwcur
    BY <1>1
  <2> QED
    BY <2>1, <2>2
<1>7. /\ v \in Nat /\ v < Num /\ v \in 0 .. Num - 1 /\ k \in Int /\ k + v = hwavail
      /\ v - reserved \in 0 .. Num - 1 /\ v - reserved = hwavail - c
  BY <1>1, <1>3, <1>4
<1>8. H \in Int /\ H % Page = (A + k) % Page /\ Link(H) = m
  <2>1. (((hwcur + k) % Num) + 0) % Page = (hwcur + (k + 0)) % Page /\ ((hwcur + k) % Num) % Page = (A + k) % Page
    <3>1. hwcur \in Int /\ k \in Int /\ 0 \in Int
      BY <1>1, <1>7
    <3>2. ((hwcur + k) % Num) % Page = ((hwcur % Page) + k) % Page
      BY <3>1, Onward, Zenon
    <3>3. (((hwcur + k) % Num) + 0) % Page = (hwcur + (k + 0)) % Page
      BY <3>1, Onward, Zenon
    <3> QED
      BY <3>2, <3>3
  <2>2. H + 0 = H /\ k + 0 = k /\ H \in Int
    BY <1>1, <1>3, <1>7 DEF Slots
  <2> QED
    BY <1>3, <2>1, <2>2 DEF Link
<1> HIDE DEF k, c, H, v, l, m, A
<1>9. R \in Nat /\ R <= Num /\ Got <= R /\ R \in Int /\ Room + (k + l - m) = R
  <2>1. R \in Int /\ R >= 0 /\ R <= Num /\ Room + (k + l - m) = R
    BY <1>1, <1>2, <1>6, <1>7
  <2>2. Room <= R
    <3>1. CASE k = 0
      BY <1>1, <1>2, <1>6, <1>7, <3>1
    <3>2. CASE k # 0
      BY <1>1, <1>2, <1>3, <1>6, <1>7, <3>2
    <3> QED
      BY <3>1, <3>2
  <2> QED
    BY <1>2, <2>1, <2>2
<1>10. rx_prod' = Plus(rx_cons, R)
  <2> DEFINE s == k + l - m
  <2>1. s \in Int /\ Room \in Int
    BY <1>2, <1>6, <1>7
  <2>2. Room + s = R
    BY <1>9
  <2> HIDE DEF s, R
  <2>3. Plus(Plus(rx_cons, Room), s) = Plus(rx_cons, Room + s)
    BY <1>1, <2>1, PlusPlus, Zenon
  <2> QED
    BY <1>2, <1>5, <2>2, <2>3 DEF s
<1> HIDE DEF R
<1>11. Room' = R
  <2>1. 0 \in Nat /\ 0 <= R /\ R < Word /\ R - 0 = R
    BY <1>1, <1>9
  <2>2. (Plus(rx_cons, R) - Plus(rx_cons, 0)) % Word = R - 0
    <3>1. rx_cons \in Int /\ R \in Nat
      BY <1>1, <1>9
    <3> QED
      BY <2>1, <3>1, Between, Zenon
  <2>3. Plus(rx_cons, 0) = rx_cons
    <3>1. rx_cons \in Words /\ rx_cons + 0 = rx_cons
      BY <1>1 DEF TypeOK
    <3>2. rx_cons % Word = rx_cons
      BY <3>1, SmallMods
    <3> QED
      BY <3>1, <3>2 DEF Plus
  <2> QED
    BY <1>5, <1>10, <2>1, <2>2, <2>3 DEF Room
<1>12. Got' = Got
  <2>1. GetHwCons' = GetHwCons
    BY <1>5 DEF GetHwCons, nvars
  <2> QED
    BY <1>5, <2>1 DEF Got
<1>13. TypeOK'
  <2>1. rx_prod' \in Words
    BY <1>1, <1>9, <1>10, PlusPlus
  <2>2. 0 \in Slots /\ 0 \in Words /\ 0 \in 0 .. MaxResvd /\ 0 \in 0 .. RingSize
    BY <1>1, Params DEF Slots, Words
  <2> QED
    BY <1>1, <1>3, <1>5, <1>7, <2>1, <2>2 DEF TypeOK, nvars, rvars, lvars
<1>14. OffsetsOK' /\ SyncOK'
  BY <1>5 DEF IInv, OffsetsOK, SyncOK, Syncing
<1>15. RingsOK'
  <2>1. N2K(Idx(rx_cons))' = (H + v) % Num
    <3>1. (((hwcur + k) % Num) + v) % Num = (hwcur + (k + v)) % Num
      <4>1. hwcur \in Int /\ k \in Int /\ v \in Int
        BY <1>1, <1>7
      <4> QED
        BY <4>1, Onward, Zenon
    <3>2. N2K(Idx(rx_cons)) = (hwcur + hwavail) % Num
      BY <1>1 DEF RingsOK
    <3> QED
      BY <1>3, <1>5, <1>7, <3>1, <3>2 DEF N2K
  <2>2. Room' = Num - v - Link(H) /\ Got' <= Room'
    BY <1>8, <1>9, <1>11, <1>12 DEF R
  <2>3. \A d \in Slots : d % Page \in Starts => daddr'[d] = (N2K(d))'
    BY <1>1, <1>5 DEF RingsOK, N2K
  <2>4. (rx_cons') % Page \in Starts
    BY <1>1, <1>5 DEF RingsOK
  <2> QED
    BY <1>5, <2>1, <2>2, <2>3, <2>4 DEF RingsOK
<1>16. ProcessOK'
  <2>1. Dist(hwcur, cur)' = reserved
    BY <1>3, <1>5
  <2>2. reserved <= reserved /\ reserved + (v - reserved) <= v
    BY <1>1, <1>7
  <2> QED
    BY <1>5, <2>1, <2>2 DEF ProcessOK
<1>17. ASSUME NEW t \in Nat PROVE (Packet(t))' = Packet(k + t)
  <2> DEFINE a1 == Data(A, k)
             h == Data(H % Page, v)
             d == Data(H % Page, t)
  <2>1. Data(A, k + v) = a1 + h /\ Data(A, k + t) = a1 + d
    <3>1. Data(A, k + v) = Data(A, k) + Data((A + k) % Page, v)
      BY <1>1, <1>3, <1>7, DataSum
    <3>2. Data(A, k + t) = Data(A, k) + Data((A + k) % Page, t)
      BY <1>1, <1>3, DataSum
    <3> QED
      BY <1>8, <3>1, <3>2
  <2>2. a1 \in Int /\ h \in Int /\ d \in Int
    <3>1. H % Page \in Offsets
      BY <1>8, Mods DEF Offsets
    <3> QED
      BY <1>1, <1>3, <1>7, <3>1, DataAre
  <2> HIDE DEF a1, h, d
  <2>3. First = harvestId - (a1 + h)
    BY <1>7, <2>1 DEF First, A
  <2>4. First' = harvestId - h
    BY <1>5 DEF First, h
  <2>5. (Packet(t))' = ((harvestId - h) + d) % Word
    BY <1>5, <2>4 DEF Packet, d
  <2>6. Packet(k + t) = ((harvestId - (a1 + h)) + (a1 + d)) % Word
    BY <2>1, <2>3 DEF Packet, A
  <2>7. (harvestId - (a1 + h)) + (a1 + d) = (harvestId - h) + d
    BY <1>1, <2>2
  <2> QED
    BY <2>5, <2>6, <2>7
<1>18. DataOK'
  <2>1. \A t \in Nat : (Packet(t))' = Packet(k + t)
    BY <1>17
  <2>2. nextId' = (Packet(hwavail + Got))'
    <3> DEFINE g == v + Got
    <3>1. hwavail' + Got' = g /\ g \in Nat /\ k + g = hwavail + Got
      <4>1. hwavail' + Got' = g
        BY <1>5, <1>12, Zenon
      <4> QED
        BY <1>1, <1>2, <1>7, <4>1
    <3> HIDE DEF g
    <3>2. nextId = Packet(hwavail + Got) /\ nextId' = nextId
      BY <1>5 DEF IInv, DataOK, nvars
    <3> QED
      BY <2>1, <3>1, <3>2 DEF Packet
  <2>3. expected' = (Packet(Dist(hwcur, Reader)))'
    <3>1. Reader = cur /\ Reader' = cur
      BY <1>5 DEF Reader
    <3>2. Dist(hwcur, Reader)' = reserved
      BY <1>3, <1>5, <3>1 DEF Dist
    <3>3. expected = Packet(c)
      BY <3>1 DEF IInv, DataOK, c
    <3>4. k + reserved = c
      BY <1>1, <1>3, <1>4
    <3> QED
      BY <1>1, <1>5, <2>1, <3>2, <3>3, <3>4 DEF Packet
  <2>4. ASSUME NEW x, x \in 0 .. hwavail' + Got' - 1, Link(hwcur' + x) = 0
        PROVE  mem'[(hwcur' + x) % Num] = (Packet(x))'
    <3>1. x \in 0 .. v + Got - 1 /\ Link(H + x) = 0
      BY <1>5, <1>12, <2>4, Zenon
    <3>2. x \in Nat /\ x \in Int /\ k + x \in 0 .. hwavail + Got - 1
      BY <1>1, <1>2, <1>3, <1>7, <3>1
    <3>3. (H + x) % Num = (hwcur + (k + x)) % Num /\ Link(H + x) = Link(hwcur + (k + x))
      BY <1>1, <1>3, <1>7, <3>2, Onward
    <3>4. mem[(hwcur + (k + x)) % Num] = Packet(k + x)
      BY <3>1, <3>2, <3>3 DEF IInv, DataOK
    <3>5. hwcur' = H /\ mem' = mem
      BY <1>5 DEF nvars
    <3>6. (Packet(x))' = Packet(k + x)
      BY <2>1, <3>2
    <3> QED
      BY <3>3, <3>4, <3>5, <3>6
  <2> QED
    BY <2>2, <2>3, <2>4 DEF DataOK
<1> QED
  BY <1>13, <1>14, <1>15, <1>16, <1>18 DEF IInv

LEMMA ResetStep ==
    ASSUME Legal, IInv, Reset
    PROVE  IInv'
<1>1. /\ TypeOK /\ OffsetsOK /\ RingsOK /\ hwcur \in Slots /\ hwcur \in Int /\ hwcur < Num /\ hwcur >= 0
      /\ Num \in Nat \ {0} /\ Num >= 8 /\ Word \in Nat \ {0} /\ Word >= 2 * Num
      /\ Page \in Nat \ {0} /\ Page >= 4 /\ harvestId \in Words /\ harvestId \in Int
      /\ hwcur % Page \in Offsets
  BY Types, Params DEF IInv, TypeOK
<1>2. hwavail = 0 /\ hwcur % Page = 0
  <2>1. Clean
    BY DEF Reset, Legal
  <2>2. K2N(hwcur) % Page = hwcur % Page
    BY <1>1, SlotLinks
  <2> QED
    BY <2>1, <2>2 DEF Clean
<1>3. NewHwofs = hwcur
  BY <1>1, <1>2 DEF NewHwofs
<1>4. rx_prod' = Num
  BY PostedEnd DEF Reset
<1>5. /\ hwofs' = hwcur /\ rx_cons' = 0 /\ hw' = 0 /\ nextId' = harvestId
      /\ daddr' = [d \in Slots |-> IF d \in Posted THEN (d + hwcur) % Num ELSE daddr[d]]
      /\ UNCHANGED <<hwcur, hwavail, uvars, mem, pc, svars, lvars, harvestId, expected>>
      /\ ~Syncing
  BY <1>3 DEF Reset
<1>6. /\ 0 \in Words /\ Num \in Words /\ 0 % Num = 0 /\ 0 % Page = 0 /\ 0 % Word = 0 /\ Num % Word = Num
      /\ hwcur % Num = hwcur
  <2>1. 0 \in Words /\ Num \in Words /\ 0 \in Slots /\ 0 \in 0 .. Page - 1
    BY <1>1 DEF Words, Slots
  <2> QED
    BY <1>1, <2>1, SmallMods
<1>7. Link(hwcur) = 0
  BY <1>1, <1>2 DEF Link
<1>8. Room' = Num /\ Got' = 0
  <2>1. GetHwCons' = 0
    BY <1>1, <1>5, <1>6 DEF GetHwCons, Chain
  <2>2. Num - 0 = Num /\ 0 - 0 = 0
    BY <1>1
  <2> QED
    BY <1>4, <1>5, <1>6, <2>1, <2>2 DEF Room, Got
<1>9. ASSUME NEW d \in Slots PROVE (d + hwcur) % Num \in Slots
  <2>1. d + hwcur \in Int
    BY <1>1 DEF Slots
  <2> QED
    BY <2>1, Mods
<1>10. TypeOK'
  <2>1. daddr' \in [Slots -> Slots \cup {NoSlot}]
    BY <1>1, <1>5, <1>9 DEF TypeOK
  <2>2. resets' \in 0 .. MaxResets
    BY Params DEF Reset, IInv, TypeOK
  <2>3. carrier' \in BOOLEAN
    BY DEF Reset
  <2> QED
    BY <1>1, <1>4, <1>5, <1>6, <2>1, <2>2, <2>3 DEF TypeOK, uvars, svars, lvars
<1>11. OffsetsOK'
  BY <1>1, <1>2, <1>5 DEF OffsetsOK, uvars
<1>12. RingsOK'
  <2>1. N2K(Idx(rx_cons))' = (hwcur' + hwavail') % Num
    <3>1. 0 + hwcur = hwcur /\ hwcur + 0 = hwcur
      BY <1>1
    <3> QED
      BY <1>2, <1>5, <1>6, <3>1 DEF N2K, Idx
  <2>2. Room' = Num - hwavail' - Link(hwcur') /\ Got' <= Room'
    BY <1>1, <1>2, <1>5, <1>7, <1>8
  <2>3. ASSUME NEW d \in Slots, d % Page \in Starts PROVE daddr'[d] = (N2K(d))'
    <3>1. d \in Posted
      BY <2>3, PostedIs
    <3> QED
      BY <1>5, <3>1 DEF N2K
  <2>4. (rx_cons') % Page \in Starts
    BY <1>1, <1>5, <1>6 DEF Starts
  <2> QED
    BY <2>1, <2>2, <2>3, <2>4 DEF RingsOK
<1>13. SyncOK'
  BY <1>5 DEF SyncOK, Syncing
<1>14. ProcessOK'
  BY <1>5 DEF IInv, ProcessOK, uvars, lvars
<1>15. DataOK'
  <2>1. First' = First
    BY <1>5 DEF First
  <2>2. \A x : (Packet(x))' = Packet(x)
    BY <1>5, <2>1 DEF Packet
  <2>3. Packet(0) = harvestId
    <3> DEFINE e == Data(hwcur % Page, 0)
    <3>1. e = 0
      BY <1>1, DataAre
    <3>2. (harvestId - 0) + 0 = harvestId /\ harvestId % Word = harvestId
      BY <1>1, SmallMods
    <3> QED
      BY <1>2, <3>1, <3>2 DEF Packet, First
  <2>4. hwavail' + Got' = 0
    <3>1. 0 + 0 = 0
      OBVIOUS
    <3> QED
      BY <1>2, <1>5, <1>8, <3>1, Zenon
  <2>5. nextId' = (Packet(hwavail + Got))'
    BY <1>5, <2>1, <2>3, <2>4 DEF Packet
  <2>6. expected' = (Packet(Dist(hwcur, Reader)))'
    <3>1. Dist(hwcur, Reader)' = Dist(hwcur, Reader) /\ hwcur' = hwcur
      BY <1>5 DEF Reader, uvars, lvars
    <3>2. expected' = expected /\ expected = Packet(Dist(hwcur, Reader))
      BY <1>5 DEF IInv, DataOK
    <3> QED
      BY <2>1, <3>1, <3>2 DEF Packet
  <2>7. 0 .. hwavail' + Got' - 1 = {}
    <3>1. 0 .. 0 + 0 - 1 = {}
      OBVIOUS
    <3> QED
      BY <1>2, <1>5, <1>8, <3>1, Zenon
  <2> QED
    BY <2>5, <2>6, <2>7 DEF DataOK
<1> QED
  BY <1>10, <1>11, <1>12, <1>13, <1>14, <1>15 DEF IInv

----------------------------------------------------------------------------
(* The theorems.                                                            *)

LEMMA NextIInv ==
    ASSUME Legal, IInv, [Next]_vars
    PROVE  IInv'
<1>1. CASE NicReceive
  BY <1>1, NicReceiveStep
<1>2. CASE SyncBegin
  BY <1>2, SyncBeginStep
<1>3. CASE HarvestPacket
  BY <1>3, HarvestPacketStep
<1>4. CASE HarvestReload
  BY <1>4, HarvestReloadStep
<1>5. CASE HarvestEnd
  BY <1>5, HarvestEndStep
<1>6. CASE Rearm
  BY <1>6, RearmStep
<1>7. CASE RecvBegin
  BY <1>7, RecvBeginStep
<1>8. CASE RecvSlot
  BY <1>8, RecvSlotStep
<1>9. CASE RecvAvail
  BY <1>9, RecvAvailStep
<1>10. CASE RecvCur
  BY <1>10, RecvCurStep
<1>11. CASE Reserve
  BY <1>11, ReserveStep
<1>12. CASE Reset
  BY <1>12, ResetStep
<1>13. CASE LinkUp
  BY <1>13, LinkUpStep
<1>14. CASE UNCHANGED vars
  BY <1>14, StutterStep
<1> QED
  BY <1>1, <1>2, <1>3, <1>4, <1>5, <1>6, <1>7, <1>8, <1>9, <1>10, <1>11, <1>12, <1>13, <1>14
     DEF Next, Sync, Receive

\* At every point of rx_sync, of the NIC's work and of the receive loop, all that both rings
\* hold is where hwcur and the number harvested say: buffers, links, limits and packets.
THEOREM Whereabouts ==
    ASSUME Legal
    PROVE  Spec => []IInv
<1>1. IInv /\ [Next]_vars => IInv'
  BY NextIInv
<1>2. Init => IInv
  BY Starting
<1> QED
  BY <1>1, <1>2, PTL DEF Spec

\* All indices stay in the ring, and what the process is shown never exceeds it: rx_sync
\* neither underflows avail nor posts more than the ring holds.
THEOREM Typing ==
    ASSUME Legal
    PROVE  Spec => []TypeOK
<1>1. IInv => TypeOK
  BY DEF IInv
<1> QED
  BY <1>1, Whereabouts, PTL

\* The kring's next empty slot is that of the descriptor the NIC fills next: however long a
\* rx_sync was, it has counted each link it passed (the kring comments of dpa_k.h).
THEOREM LinksCounted ==
    ASSUME Legal
    PROVE  Spec => []NextEmptyAgrees
<1>1. IInv => NextEmptyAgrees
  BY HasTheRest
<1> QED
  BY <1>1, Whereabouts, PTL

\* All that the process has released has been given back, and no more: rx_sync moves rx_prod
\* by one buffer for each slot that is not before a link's.
THEOREM AllGivenBack ==
    ASSUME Legal
    PROVE  Spec => []NicHasTheRest
<1>1. IInv => NicHasTheRest
  BY HasTheRest
<1> QED
  BY <1>1, Whereabouts, PTL

\* The NIC, which writes without asking, has no descriptor of a buffer that the process may
\* be reading: the zero-copy promise of bnx2_dpa.h's rx_sync.
THEOREM NoOverwriting ==
    ASSUME Legal
    PROVE  Spec => []NicNeverWritesInUse
<1>1. IInv => NicNeverWritesInUse
  BY NeverWrites
<1> QED
  BY <1>1, Whereabouts, PTL

\* The callback of raw_recv_proc_bnx2 is given each packet once, in the order of arrival, and
\* skips exactly the slots of links.
THEOREM Ordered ==
    ASSUME Legal
    PROVE  Spec => []InOrder
<1>1. IInv => InOrder
  BY GivenInOrder
<1> QED
  BY <1>1, Whereabouts, PTL
=============================================================================
