----------------------------- MODULE MapsProofs -----------------------------
(***************************************************************************)
(* Proofs about HashMap, for every set of keys and values, every hash and  *)
(* every capacity.                                                         *)
(***************************************************************************)
EXTENDS MCMaps, FiniteSetTheorems, NaturalsInduction, WellFoundedInduction, TLAPS

-----------------------------------------------------------------------------
(* Recursion over numbers                                                  *)

\* The least number of a set.
LEMMA LeastOf ==
  ASSUME NEW T, T \subseteq Nat, T # {}
  PROVE  \E x \in T : \A y \in T : x <= y
<1> DEFINE R == {p \in Nat \X Nat : p[1] < p[2]}
<1>1. IsWellFoundedOn(R, Nat)
  <2>1. R = OpToRel(<, Nat)
    BY Zenon DEF OpToRel
  <2> QED
    BY <2>1, NatLessThanWellFounded, Zenon
<1>2. \A x, y \in Nat : y < x => <<y, x>> \in R
  OBVIOUS
<1> HIDE DEF R
<1>3. PICK x \in T : \A y \in T : ~ (<<y, x>> \in R)
  BY <1>1, WFMin
<1>4. ASSUME NEW y \in T
      PROVE  x <= y
  <2>1. x \in Nat /\ y \in Nat
    OBVIOUS
  <2>2. ~(y < x)
    BY <1>2, <1>3, <2>1
  <2> QED
    BY <2>1, <2>2
<1> QED
  BY <1>4

\* A function that is defined by what comes next, step after step, exists.
Follows(g, N, start, step) ==
  g[0] = start /\ \A i \in 1 .. N : g[i] = step[<<i, g[i - 1]>>]

LEMMA RecursionExists ==
  ASSUME NEW N \in Nat, NEW T, NEW start \in T, NEW step \in [(1 .. N) \X T -> T]
  PROVE  \E g \in [0 .. N -> T] : Follows(g, N, start, step)
<1> DEFINE P(n) == \E g \in [0 .. n -> T] : Follows(g, n, start, step)
           Bad == {n \in 0 .. N : ~P(n)}
<1>1. SUFFICES ASSUME Bad # {} PROVE FALSE
  <2>1. N \in 0 .. N
    OBVIOUS
  <2> QED
    BY <2>1
<1>2. PICK x \in Bad : \A y \in Bad : x <= y
  <2>1. Bad \subseteq Nat
    OBVIOUS
  <2> HIDE DEF Bad
  <2> QED
    BY <1>1, <2>1, LeastOf
<1>3. CASE x = 0
  <2> DEFINE g == [i \in 0 .. 0 |-> start]
  <2>1. g \in [0 .. 0 -> T] /\ Follows(g, 0, start, step)
    BY DEF Follows
  <2> QED
    BY <1>2, <1>3, <2>1
<1>4. CASE x # 0
  <2>1. x - 1 \in 0 .. N /\ ~(x <= x - 1) /\ x \in 1 .. N
    BY <1>2, <1>4
  <2>2. x - 1 \notin Bad
    BY <1>2, <2>1
  <2>3. P(x - 1)
    BY <2>1, <2>2
  <2>4. PICK g \in [0 .. x - 1 -> T] : Follows(g, x - 1, start, step)
    BY <2>3
  <2> DEFINE h == [i \in 0 .. x |-> IF i = x THEN step[<<x, g[x - 1]>>] ELSE g[i]]
  <2>5. step[<<x, g[x - 1]>>] \in T
    <3>1. g[x - 1] \in T
      BY <2>1, <2>4
    <3> QED
      BY <2>1, <3>1
  <2>6. h \in [0 .. x -> T]
    <3>1. \A i \in 0 .. x : i # x => i \in 0 .. x - 1
      BY <2>1
    <3> QED
      BY <2>4, <2>5, <3>1
  <2>7. h[0] = start
    BY <2>1, <2>4 DEF Follows
  <2>8. ASSUME NEW i \in 1 .. x
        PROVE  h[i] = step[<<i, h[i - 1]>>]
    <3>1. i - 1 \in 0 .. x /\ i - 1 # x /\ i \in 0 .. x
      BY <2>1
    <3>2. h[i - 1] = g[i - 1]
      BY <3>1
    <3>3. CASE i = x
      BY <3>1, <3>2, <3>3
    <3>4. CASE i # x
      <4>1. i \in 1 .. x - 1
        BY <2>1, <3>4
      <4> QED
        BY <2>4, <3>1, <3>2, <3>4, <4>1 DEF Follows
    <3> QED
      BY <3>3, <3>4
  <2> HIDE DEF h
  <2>9. Follows(h, x, start, step)
    BY <2>7, <2>8 DEF Follows
  <2>10. P(x)
    BY <2>6, <2>9
  <2> QED
    BY <1>2, <2>10
<1> QED
  BY <1>3, <1>4

-----------------------------------------------------------------------------
(* Powers of two                                                           *)

Doubles(g, n) == g[0] = 1 /\ \A i \in 1 .. n : g[i] = 2 * g[i - 1]

LEMMA DoublesExist == \A n \in Nat : \E g \in [0 .. n -> Nat] : Doubles(g, n)
<1> SUFFICES ASSUME NEW n \in Nat PROVE \E g \in [0 .. n -> Nat] : Doubles(g, n)
  OBVIOUS
<1> DEFINE step == [p \in (1 .. n) \X Nat |-> 2 * p[2]]
<1>1. step \in [(1 .. n) \X Nat -> Nat]
  OBVIOUS
<1>2. \A i \in 1 .. n, m \in Nat : step[<<i, m>>] = 2 * m
  OBVIOUS
<1> HIDE DEF step
<1>3. PICK g \in [0 .. n -> Nat] : Follows(g, n, 1, step)
  BY <1>1, RecursionExists
<1>4. ASSUME NEW i \in 1 .. n
      PROVE  g[i] = 2 * g[i - 1]
  <2>1. i - 1 \in 0 .. n
    OBVIOUS
  <2>2. g[i - 1] \in Nat
    BY <2>1
  <2> QED
    BY <1>2, <1>3, <2>2 DEF Follows
<1>5. Doubles(g, n)
  BY <1>3, <1>4 DEF Follows, Doubles
<1> QED
  BY <1>5

LEMMA DoublesAgree ==
  ASSUME NEW m \in Nat, NEW n \in Nat, NEW g, NEW h, Doubles(g, m), Doubles(h, n),
         NEW i \in Nat, i <= m, i <= n
  PROVE  g[i] = h[i]
<1> DEFINE Bad == {j \in 0 .. i : g[j] # h[j]}
<1>1. SUFFICES ASSUME Bad # {} PROVE FALSE
  <2>1. i \in 0 .. i
    OBVIOUS
  <2> QED
    BY <2>1
<1>2. PICK x \in Bad : \A y \in Bad : x <= y
  <2>1. Bad \subseteq Nat
    OBVIOUS
  <2> HIDE DEF Bad
  <2> QED
    BY <1>1, <2>1, LeastOf
<1>3. x # 0
  BY <1>2 DEF Doubles
<1>4. x - 1 \in 0 .. i /\ ~(x <= x - 1) /\ x \in 1 .. m /\ x \in 1 .. n
  BY <1>2, <1>3
<1>5. g[x - 1] = h[x - 1]
  BY <1>2, <1>4
<1>6. g[x] = h[x]
  BY <1>4, <1>5 DEF Doubles
<1> QED
  BY <1>2, <1>6

LEMMA Pow2Is == Pow2 = [n \in Nat |-> IF n = 0 THEN 1 ELSE 2 * Pow2[n - 1]]
<1> DEFINE G(n) == CHOOSE g \in [0 .. n -> Nat] : Doubles(g, n)
           f == [n \in Nat |-> G(n)[n]]
<1>1. \A n \in Nat : Doubles(G(n), n)
  BY DoublesExist
<1>2. ASSUME NEW n \in Nat
      PROVE  f[n] = IF n = 0 THEN 1 ELSE 2 * f[n - 1]
  <2> HIDE DEF G
  <2>1. CASE n = 0
    BY <1>1, <2>1 DEF Doubles
  <2>2. CASE n # 0
    <3>1. n - 1 \in Nat /\ n \in 1 .. n /\ n - 1 <= n /\ n - 1 <= n - 1
      BY <2>2
    <3>2. G(n)[n] = 2 * G(n)[n - 1]
      BY <1>1, <3>1 DEF Doubles
    <3>3. G(n)[n - 1] = G(n - 1)[n - 1]
      BY <1>1, <3>1, DoublesAgree
    <3> QED
      BY <2>2, <3>1, <3>2, <3>3
  <2> QED
    BY <2>1, <2>2
<1>3. f = [n \in Nat |-> IF n = 0 THEN 1 ELSE 2 * f[n - 1]]
  <2> HIDE DEF G
  <2>1. f = [n \in Nat |-> f[n]]
    BY Zenon
  <2> HIDE DEF f
  <2> QED
    BY <1>2, <2>1
<1> HIDE DEF f
<1>4. \E h : h = [n \in Nat |-> IF n = 0 THEN 1 ELSE 2 * h[n - 1]]
  BY <1>3
<1> QED
  BY <1>4, Zenon DEF Pow2

LEMMA Pow2Facts ==
  /\ Pow2[0] = 1
  /\ \A n \in Nat : Pow2[n] \in Nat /\ n < Pow2[n] /\ Pow2[n + 1] = 2 * Pow2[n]
<1>1. Pow2[0] = 1 /\ \A n \in Nat : n # 0 => Pow2[n] = 2 * Pow2[n - 1]
  <2>1. 0 \in Nat
    OBVIOUS
  <2> QED
    BY <2>1, Pow2Is
<1> DEFINE Bad == {n \in Nat : ~(Pow2[n] \in Nat /\ n < Pow2[n])}
<1>2. Bad = {}
  <2>1. SUFFICES ASSUME Bad # {} PROVE FALSE
    OBVIOUS
  <2>2. PICK x \in Bad : \A y \in Bad : x <= y
    <3>1. Bad \subseteq Nat
      OBVIOUS
    <3> HIDE DEF Bad
    <3> QED
      BY <2>1, <3>1, LeastOf
  <2>3. x \in Nat /\ ~(Pow2[x] \in Nat /\ x < Pow2[x])
    BY <2>2
  <2>4. x # 0
    BY <1>1, <2>3
  <2>5. x - 1 \in Nat /\ ~(x <= x - 1)
    BY <2>3, <2>4
  <2>6. Pow2[x - 1] \in Nat /\ x - 1 < Pow2[x - 1]
    BY <2>2, <2>5
  <2>7. Pow2[x] = 2 * Pow2[x - 1]
    BY <1>1, <2>3, <2>4
  <2> QED
    BY <2>3, <2>4, <2>6, <2>7
<1>3. \A n \in Nat : Pow2[n + 1] = 2 * Pow2[n]
  <2>1. TAKE n \in Nat
  <2>2. n + 1 \in Nat /\ n + 1 # 0 /\ (n + 1) - 1 = n
    OBVIOUS
  <2> QED
    BY <1>1, <2>2
<1> QED
  BY <1>1, <1>2, <1>3

LEMMA Pow2Grows ==
  ASSUME NEW m \in Nat, NEW n \in Nat, m < n
  PROVE  2 * Pow2[m] <= Pow2[n]
<1> DEFINE Bad == {k \in Nat : m < k /\ ~(2 * Pow2[m] <= Pow2[k])}
<1>1. SUFFICES ASSUME Bad # {} PROVE FALSE
  BY DEF Bad
<1>2. PICK x \in Bad : \A y \in Bad : x <= y
  <2>1. Bad \subseteq Nat
    OBVIOUS
  <2> HIDE DEF Bad
  <2> QED
    BY <1>1, <2>1, LeastOf
<1>3. x \in Nat /\ m < x /\ ~(2 * Pow2[m] <= Pow2[x])
  BY <1>2
<1>4. x - 1 \in Nat /\ m <= x - 1 /\ ~(x <= x - 1) /\ (x - 1) + 1 = x
  BY <1>3
<1>5. /\ Pow2[x] = 2 * Pow2[x - 1] /\ Pow2[x - 1] \in Nat /\ Pow2[m] \in Nat
      /\ Pow2[x] \in Nat
  <2>1. Pow2[(x - 1) + 1] = 2 * Pow2[x - 1]
    BY <1>4, Pow2Facts
  <2> QED
    BY <1>3, <1>4, <2>1, Pow2Facts
<1>6. m # x - 1
  BY <1>3, <1>5
<1>7. 2 * Pow2[m] <= Pow2[x - 1]
  BY <1>2, <1>4, <1>6
<1> QED
  BY <1>3, <1>5, <1>7

\* cu_next_pow2 returns a power of two that is no smaller, and returns a power of
\* two unchanged.
LEMMA NextPow2Facts ==
  ASSUME NEW x \in Nat
  PROVE  /\ NextPow2(x) \in Nat /\ NextPow2(x) > 0 /\ x <= NextPow2(x)
         /\ NextPow2(NextPow2(x)) = NextPow2(x)
<1>1. \A n \in Nat : Pow2[n] \in Nat /\ n < Pow2[n] /\ Pow2[n + 1] = 2 * Pow2[n]
  BY Pow2Facts
<1>2. PICK n \in 0 .. x : x <= Pow2[n] /\ (Pow2[n] = 1 \/ Pow2[n] \div 2 < x)
  <2> DEFINE T == {n \in Nat : x <= Pow2[n]}
  <2>1. x \in T
    BY <1>1
  <2>2. PICK n \in T : \A y \in T : n <= y
    <3>1. T \subseteq Nat /\ T # {}
      BY <2>1
    <3> HIDE DEF T
    <3> QED
      BY <3>1, LeastOf
  <2>3. n \in 0 .. x
    BY <2>1, <2>2
  <2>4. CASE n = 0
    BY <2>2, <2>3, <2>4, Pow2Facts
  <2>5. CASE n # 0
    <3>1. n - 1 \in Nat /\ ~(n <= n - 1) /\ (n - 1) + 1 = n
      BY <2>3, <2>5
    <3>2. ~(x <= Pow2[n - 1])
      BY <2>2, <3>1
    <3>3. Pow2[n] = 2 * Pow2[n - 1] /\ Pow2[n - 1] \in Nat
      <4>1. Pow2[(n - 1) + 1] = 2 * Pow2[n - 1]
        BY <1>1, <3>1
      <4> QED
        BY <1>1, <3>1, <4>1
    <3>4. Pow2[n] \div 2 = Pow2[n - 1]
      BY <3>3
    <3> QED
      BY <2>2, <2>3, <3>2, <3>3, <3>4
  <2> QED
    BY <2>4, <2>5
<1> DEFINE p == NextPow2(x)
<1>3. PICK m \in 0 .. x : p = Pow2[m] /\ x <= p
  BY <1>2 DEF NextPow2
<1>4. p \in Nat /\ m < p /\ p > 0 /\ m \in Nat
  BY <1>1, <1>3
<1> HIDE DEF p
<1>5. NextPow2(p) = p
  <2>1. p \in {Pow2[i] : i \in 0 .. p} /\ p <= p /\ (p = 1 \/ p \div 2 < p)
    <3>1. m \in 0 .. p
      BY <1>4
    <3>2. p \div 2 < p
      BY <1>4
    <3> QED
      BY <1>3, <1>4, <3>1, <3>2
  <2>2. PICK q \in {Pow2[i] : i \in 0 .. p} :
          q = NextPow2(p) /\ p <= q /\ (q = 1 \/ q \div 2 < p)
    BY <2>1 DEF NextPow2
  <2>3. PICK i \in 0 .. p : q = Pow2[i]
    OBVIOUS
  <2>4. i \in Nat /\ q \in Nat
    BY <1>1, <1>4, <2>3
  <2>5. CASE i < m
    <3>1. 2 * q <= p
      BY <1>3, <1>4, <2>3, <2>4, <2>5, Pow2Grows
    <3> QED
      BY <1>4, <2>2, <2>4, <3>1
  <2>6. CASE m < i
    <3>1. 2 * p <= q
      BY <1>3, <1>4, <2>3, <2>4, <2>6, Pow2Grows
    <3>2. q # 1 /\ ~(q \div 2 < p)
      BY <1>4, <2>4, <3>1
    <3> QED
      BY <2>2, <3>2
  <2>7. CASE i = m
    BY <1>3, <2>2, <2>3, <2>7
  <2> QED
    BY <1>4, <2>4, <2>5, <2>6, <2>7
<1> QED
  BY <1>3, <1>4, <1>5 DEF p
-----------------------------------------------------------------------------
(* Probes                                                                  *)

Ix(c) == 0 .. c - 1

\* An index at most one turn beyond the end wraps to the bucket it names.
LEMMA Wrap ==
  ASSUME NEW c \in Nat \ {0}, NEW q \in Int, NEW r \in 0 .. c - 1
  PROVE  (c * q + r) % c = r
<1> DEFINE x == c * q + r
           p == x \div c
           s == x % c
<1>1. x \in Int
  OBVIOUS
<1>2. x = c * p + s /\ s \in 0 .. c - 1 /\ p \in Int
  BY <1>1
<1>3. x = c * q + r
  OBVIOUS
<1> HIDE DEF x, p, s
<1>4. c * (q - p) = s - r
  BY <1>2, <1>3
<1>5. CASE q - p >= 1
  BY <1>2, <1>4, <1>5
<1>6. CASE q - p <= -1
  BY <1>2, <1>4, <1>6
<1>7. CASE q - p = 0
  BY <1>2, <1>4, <1>7 DEF s, x
<1> QED
  BY <1>2, <1>5, <1>6, <1>7

\* A probe comes to every bucket, and to no other place.
LEMMA ProbeFacts ==
  ASSUME NEW c \in Nat \ {0}, NEW hash \in Nat
  PROVE  /\ \A n \in Ix(c) : Probe(c, hash, n) \in Ix(c)
         /\ \A i \in Ix(c) : \E n \in Ix(c) : Probe(c, hash, n) = i
<1>1. ASSUME NEW n \in Ix(c)
      PROVE  Probe(c, hash, n) \in Ix(c)
  <2>1. hash + n \in Nat
    BY DEF Ix
  <2> QED
    BY <2>1 DEF Probe, Ix
<1>2. ASSUME NEW i \in Ix(c)
      PROVE  \E n \in Ix(c) : Probe(c, hash, n) = i
  <2> DEFINE q == hash \div c
             r == hash % c
  <2>1. hash = c * q + r /\ q \in Int /\ r \in 0 .. c - 1 /\ i \in 0 .. c - 1
    BY DEF Ix
  <2> HIDE DEF q, r
  <2>2. CASE r <= i
    <3>1. hash + (i - r) = c * q + i /\ i - r \in 0 .. c - 1
      BY <2>1, <2>2
    <3>2. (c * q + i) % c = i
      BY <2>1, Wrap
    <3> QED
      BY <3>1, <3>2 DEF Probe, Ix
  <2>3. CASE ~(r <= i)
    <3>1. hash + (i + c - r) = c * (q + 1) + i /\ i + c - r \in 0 .. c - 1
      BY <2>1, <2>3
    <3>2. (c * (q + 1) + i) % c = i
      BY <2>1, Wrap
    <3> QED
      BY <3>1, <3>2 DEF Probe, Ix
  <2> QED
    BY <2>2, <2>3
<1> QED
  BY <1>1, <1>2

\* A bucket holds a key together with its value and its hash, or neither.
BucketOK(b) ==
  /\ b \in Bucket
  /\ ~b.used => b.key = None
  /\ b.key = None <=> b.value = None
  /\ b.key # None => b.hash = Hash[b.key]

TableOK(c, bs) ==
  /\ c \in Nat \ {0}
  /\ bs \in [Ix(c) -> Bucket]
  /\ \A i \in Ix(c) : BucketOK(bs[i])

\* A probe for the key ends at bucket i.
Leads(c, bs, key, hash, i) ==
  \E n \in Stops(bs, c, key, hash) :
    Probe(c, hash, n) = i /\ \A m \in Stops(bs, c, key, hash) : n <= m

\* Every pair is where a probe for its key ends.
Reach(c, bs) ==
  \A i \in Ix(c) : bs[i].key # None => Leads(c, bs, bs[i].key, bs[i].hash, i)

\* A step at which a probe may end.
LEMMA StopsAre ==
  ASSUME NEW c, NEW bs, NEW key, NEW hash, NEW n
  PROVE  n \in Stops(bs, c, key, hash)
           <=> /\ n \in Ix(c)
               /\ \/ ~bs[Probe(c, hash, n)].used
                  \/ Matches(bs[Probe(c, hash, n)], key, hash)
  BY DEF Stops, Ix

\* Where the probe leads is its slot.
LEMMA SlotIs ==
  ASSUME NEW c \in Nat \ {0}, NEW bs, NEW key, NEW hash \in Nat
  PROVE  /\ ~Endless(bs, c, key, hash)
              => Leads(c, bs, key, hash, Slot(bs, c, key, hash))
         /\ \A i : Leads(c, bs, key, hash, i)
              => ~Endless(bs, c, key, hash) /\ i = Slot(bs, c, key, hash)
<1> DEFINE T == Stops(bs, c, key, hash)
           least == CHOOSE n \in T : \A m \in T : n <= m
<1>1. T \subseteq Nat
  BY DEF Stops
<1>2. Slot(bs, c, key, hash) = Probe(c, hash, least) /\ (Endless(bs, c, key, hash) <=> T = {})
  BY DEF Slot, Endless
<1>3. ASSUME T # {}
      PROVE  least \in T /\ \A m \in T : least <= m
  <2> HIDE DEF T
  <2>1. \E n \in T : \A m \in T : n <= m
    BY <1>1, <1>3, LeastOf
  <2> QED
    BY <2>1
<1>4. ASSUME T # {}
      PROVE  Leads(c, bs, key, hash, Slot(bs, c, key, hash))
  <2> HIDE DEF least
  <2> QED
    BY <1>2, <1>3, <1>4 DEF Leads
<1>5. ASSUME NEW i, Leads(c, bs, key, hash, i)
      PROVE  T # {} /\ i = Slot(bs, c, key, hash)
  <2> HIDE DEF least
  <2>1. PICK n \in T : Probe(c, hash, n) = i /\ \A m \in T : n <= m
    BY <1>5 DEF Leads
  <2>2. least \in T /\ least <= n /\ n <= least
    BY <1>3, <2>1
  <2>3. n = least
    <3> HIDE DEF T
    <3> QED
      BY <1>1, <2>1, <2>2
  <2> QED
    BY <1>2, <2>1, <2>3
<1> QED
  BY <1>2, <1>4, <1>5

\* The bucket where a probe ends is unused or holds the key.
LEMMA LeadsFacts ==
  ASSUME NEW c \in Nat \ {0}, NEW bs, NEW key, NEW hash \in Nat, NEW i,
         Leads(c, bs, key, hash, i)
  PROVE  i \in Ix(c) /\ (~bs[i].used \/ Matches(bs[i], key, hash))
<1>1. PICK n \in Stops(bs, c, key, hash) : Probe(c, hash, n) = i
  BY DEF Leads
<1>2. n \in Ix(c) /\ (~bs[i].used \/ Matches(bs[i], key, hash))
  BY <1>1, StopsAre
<1> QED
  BY <1>1, <1>2, ProbeFacts

\* A probe ends as long as there is an unused bucket.
LEMMA RoomEndsProbes ==
  ASSUME NEW c \in Nat \ {0}, NEW bs, NEW key, NEW hash \in Nat,
         NEW i \in Ix(c), ~bs[i].used \/ Matches(bs[i], key, hash)
  PROVE  ~Endless(bs, c, key, hash)
<1>1. PICK n \in Ix(c) : Probe(c, hash, n) = i
  BY ProbeFacts
<1>2. n \in Stops(bs, c, key, hash)
  BY <1>1, StopsAre
<1> QED
  BY <1>2 DEF Endless

\* Putting bucket b where a probe for its key led keeps every other pair, and its
\* own, where probes lead.
LEMMA EnterReach ==
  ASSUME NEW c, NEW bs, TableOK(c, bs), Reach(c, bs),
         NEW key \in Key \cup {None}, NEW hash \in Nat, NEW i,
         Leads(c, bs, key, hash, i),
         NEW b, BucketOK(b), b.used, b.hash = hash, b.key \in {key, None},
         bs[i].used => b.key = key
  PROVE  LET bs2 == [bs EXCEPT ![i] = b]
         IN  TableOK(c, bs2) /\ Reach(c, bs2)
<1> DEFINE bs2 == [bs EXCEPT ![i] = b]
<1>1. i \in Ix(c) /\ (~bs[i].used \/ Matches(bs[i], key, hash)) /\ c \in Nat \ {0}
  BY LeadsFacts DEF TableOK
<1>2. bs2[i] = b /\ \A j \in Ix(c) : j # i => bs2[j] = bs[j]
  BY <1>1 DEF TableOK
<1>3. TableOK(c, bs2)
  <2>1. bs2 \in [Ix(c) -> Bucket]
    BY <1>1 DEF TableOK, BucketOK
  <2>2. ASSUME NEW j \in Ix(c)
        PROVE  BucketOK(bs2[j])
    <3> HIDE DEF bs2
    <3> QED
      BY <1>2 DEF TableOK
  <2> HIDE DEF bs2
  <2> QED
    BY <1>1, <2>1, <2>2 DEF TableOK
<1> HIDE DEF bs2
<1>4. CASE bs[i].used
  <2>1. bs2[i].used /\ bs2[i].key = bs[i].key /\ bs2[i].hash = bs[i].hash
    BY <1>1, <1>2, <1>4 DEF Matches
  <2>2. ASSUME NEW k, NEW h \in Nat
        PROVE  Stops(bs2, c, k, h) = Stops(bs, c, k, h)
    <3>1. ASSUME NEW j \in Ix(c)
          PROVE  ~bs2[j].used \/ Matches(bs2[j], k, h)
                   <=> ~bs[j].used \/ Matches(bs[j], k, h)
      BY <1>2, <1>4, <2>1 DEF Matches
    <3>2. \A n \in Ix(c) : Probe(c, h, n) \in Ix(c)
      BY <1>1, ProbeFacts
    <3>3. \A n : n \in Stops(bs2, c, k, h) <=> n \in Stops(bs, c, k, h)
      BY <3>1, <3>2, StopsAre
    <3> QED
      BY <3>3
  <2>3. ASSUME NEW j \in Ix(c), bs2[j].key # None
        PROVE  Leads(c, bs2, bs2[j].key, bs2[j].hash, j)
    <3>1. bs2[j].key = bs[j].key /\ bs2[j].hash = bs[j].hash /\ bs2[j].hash \in Nat
      BY <1>2, <1>3, <2>1 DEF TableOK, BucketOK, Bucket
    <3>2. Leads(c, bs, bs[j].key, bs[j].hash, j)
      BY <2>3, <3>1 DEF Reach
    <3> QED
      BY <2>2, <3>1, <3>2 DEF Leads
  <2> QED
    BY <1>3, <2>3 DEF Reach, bs2
<1>5. CASE ~bs[i].used
  <2>1. ASSUME NEW k, NEW h \in Nat, NEW j, Leads(c, bs, k, h, j),
               bs2[j].used, Matches(bs2[j], k, h)
        PROVE  Leads(c, bs2, k, h, j)
    <3>1. PICK n \in Stops(bs, c, k, h) :
            Probe(c, h, n) = j /\ \A m \in Stops(bs, c, k, h) : n <= m
      BY <2>1 DEF Leads
    <3>2. n \in Stops(bs2, c, k, h)
      BY <2>1, <3>1, StopsAre
    <3>3. ASSUME NEW m \in Stops(bs2, c, k, h), ~(n <= m)
          PROVE  FALSE
      <4>1. m \in Ix(c) /\ m \notin Stops(bs, c, k, h) /\ Probe(c, h, m) \in Ix(c)
        BY <1>1, <3>1, <3>3, StopsAre, ProbeFacts
      <4>2. bs[Probe(c, h, m)].used
        BY <4>1, StopsAre
      <4>3. Probe(c, h, m) # i
        BY <1>5, <4>2
      <4>4. bs2[Probe(c, h, m)] = bs[Probe(c, h, m)]
        BY <1>2, <4>1, <4>3
      <4> QED
        BY <3>3, <4>1, <4>4, StopsAre
    <3> QED
      BY <3>1, <3>2, <3>3 DEF Leads
  <2>2. ASSUME NEW j \in Ix(c), bs2[j].key # None
        PROVE  Leads(c, bs2, bs2[j].key, bs2[j].hash, j)
    <3>1. bs2[j].used /\ bs2[j].hash \in Nat /\ Matches(bs2[j], bs2[j].key, bs2[j].hash)
      BY <1>3, <2>2 DEF TableOK, BucketOK, Bucket, Matches
    <3>2. Leads(c, bs, bs2[j].key, bs2[j].hash, j)
      <4>1. CASE j = i
        BY <1>2, <2>2, <4>1
      <4>2. CASE j # i
        BY <1>2, <2>2, <4>2 DEF Reach
      <4> QED
        BY <4>1, <4>2
    <3> QED
      BY <2>1, <3>1, <3>2
  <2> QED
    BY <1>3, <2>2 DEF Reach, bs2
<1> QED
  BY <1>4, <1>5

\* A key has one bucket.
LEMMA KeysApart ==
  ASSUME NEW c, NEW bs, TableOK(c, bs), Reach(c, bs),
         NEW i \in Ix(c), NEW j \in Ix(c), bs[i].key # None, bs[j].key = bs[i].key
  PROVE  i = j
<1>1. bs[i].hash = bs[j].hash /\ bs[i].hash \in Nat /\ c \in Nat \ {0}
  BY DEF TableOK, BucketOK, Bucket
<1>2. Leads(c, bs, bs[i].key, bs[i].hash, i) /\ Leads(c, bs, bs[i].key, bs[i].hash, j)
  BY <1>1 DEF Reach
<1>3. ASSUME NEW k, NEW h \in Nat, Leads(c, bs, k, h, i), Leads(c, bs, k, h, j)
      PROVE  i = j
  <2>1. \A x : Leads(c, bs, k, h, x) => x = Slot(bs, c, k, h)
    BY <1>1, SlotIs
  <2> QED
    BY <1>3, <2>1, Zenon
<1> QED
  BY <1>1, <1>2, <1>3

-----------------------------------------------------------------------------
(* The pairs of a table, and how many there are                            *)

Occ(c, bs) == {i \in Ix(c) : bs[i].used}

Prs(c, bs) == {i \in Ix(c) : bs[i].key # None}

Holds(c, bs, k, v) == \E i \in Ix(c) : bs[i].key = k /\ bs[i].value = v

\* A bucket that a failed insert marked.
HasNull(c, bs) == \E i \in Ix(c) : bs[i].used /\ bs[i].key = None

Count(S) == Cardinality(S)

\* How many there are once one is added.
LEMMA CountAdd ==
  ASSUME NEW S, IsFiniteSet(S), NEW x
  PROVE  /\ IsFiniteSet(S \cup {x}) /\ Count(S) \in Nat
         /\ Count(S \cup {x}) = IF x \in S THEN Count(S) ELSE Count(S) + 1
<1>1. Cardinality(S) \in Nat
  BY FS_CardinalityType
<1>2. CASE x \in S
  <2>1. S \cup {x} = S
    BY <1>2
  <2> QED
    BY <1>1, <1>2, <2>1 DEF Count
<1>3. CASE x \notin S
  BY <1>1, <1>3, FS_AddElement DEF Count
<1> QED
  BY <1>2, <1>3

LEMMA IndicesCounted ==
  ASSUME NEW c \in Nat
  PROVE  IsFiniteSet(Ix(c)) /\ Count(Ix(c)) = c
<1>1. IsFiniteSet(0 .. c - 1) /\ Cardinality(0 .. c - 1) = IF 0 > c - 1 THEN 0 ELSE c - 1 - 0 + 1
  BY FS_Interval
<1> QED
  BY <1>1 DEF Ix, Count

\* A part of a finite set has no more members, and has as many only if it is all.
LEMMA CountPart ==
  ASSUME NEW S, NEW T, IsFiniteSet(T), S \subseteq T
  PROVE  /\ IsFiniteSet(S) /\ Count(S) \in Nat /\ Count(T) \in Nat /\ Count(S) <= Count(T)
         /\ Count(S) = Count(T) => S = T
  BY FS_Subset, FS_CardinalityType DEF Count

\* The buckets in use and the pairs can be counted.
LEMMA Countable ==
  ASSUME NEW c, NEW bs, TableOK(c, bs)
  PROVE  /\ IsFiniteSet(Occ(c, bs)) /\ Count(Occ(c, bs)) \in 0 .. c
         /\ IsFiniteSet(Prs(c, bs)) /\ Count(Prs(c, bs)) \in 0 .. c
         /\ Prs(c, bs) \subseteq Occ(c, bs)
         /\ Count(Occ(c, bs)) < c => \E i \in Ix(c) : ~bs[i].used
<1>1. c \in Nat /\ IsFiniteSet(Ix(c)) /\ Count(Ix(c)) = c
  BY IndicesCounted DEF TableOK
<1>2. Occ(c, bs) \subseteq Ix(c) /\ Prs(c, bs) \subseteq Occ(c, bs) /\ Prs(c, bs) \subseteq Ix(c)
  BY DEF Occ, Prs, TableOK, BucketOK
<1>3. /\ IsFiniteSet(Occ(c, bs)) /\ Count(Occ(c, bs)) \in Nat /\ Count(Occ(c, bs)) <= c
      /\ IsFiniteSet(Prs(c, bs)) /\ Count(Prs(c, bs)) \in Nat /\ Count(Prs(c, bs)) <= c
  BY <1>1, <1>2, CountPart
<1>4. Count(Occ(c, bs)) < c => Occ(c, bs) # Ix(c)
  BY <1>1
<1>5. Occ(c, bs) # Ix(c) => \E i \in Ix(c) : ~bs[i].used
  BY DEF Occ
<1> QED
  BY <1>1, <1>2, <1>3, <1>4, <1>5

\* Table bs2 is what bs becomes when bucket b is put at i.
Enters(c, bs, i, b, bs2) ==
  /\ TableOK(c, bs2) /\ Reach(c, bs2) /\ i \in Ix(c)
  /\ Occ(c, bs2) = Occ(c, bs) \cup {i}
  /\ Prs(c, bs2) = IF b.key = None THEN Prs(c, bs) ELSE Prs(c, bs) \cup {i}
  /\ HasNull(c, bs2) <=> HasNull(c, bs) \/ b.key = None
  /\ \A k \in Key, v \in Value :
       Holds(c, bs2, k, v) <=> IF k = b.key THEN v = b.value ELSE Holds(c, bs, k, v)

\* What putting bucket b where a probe for its key led changes.
LEMMA EnterFacts ==
  ASSUME NEW c, NEW bs, TableOK(c, bs), Reach(c, bs),
         NEW key \in Key \cup {None}, NEW hash \in Nat, NEW i,
         Leads(c, bs, key, hash, i),
         NEW b, BucketOK(b), b.used, b.hash = hash, b.key \in {key, None},
         bs[i].used => b.key = key
  PROVE  Enters(c, bs, i, b, [bs EXCEPT ![i] = b])
<1> DEFINE bs2 == [bs EXCEPT ![i] = b]
<1>1. TableOK(c, bs2) /\ Reach(c, bs2)
  BY EnterReach
<1>2. /\ i \in Ix(c) /\ (~bs[i].used \/ Matches(bs[i], key, hash)) /\ c \in Nat \ {0}
      /\ BucketOK(bs[i])
  BY LeadsFacts DEF TableOK
<1>3. bs2[i] = b /\ \A j \in Ix(c) : j # i => bs2[j] = bs[j]
  BY <1>2 DEF TableOK
<1> HIDE DEF bs2
<1>4. bs[i].key = b.key \/ (bs[i].key = None /\ ~bs[i].used)
  BY <1>2 DEF Matches, BucketOK
<1>5. Occ(c, bs2) = Occ(c, bs) \cup {i}
  BY <1>2, <1>3 DEF Occ
<1>6. Prs(c, bs2) = IF b.key = None THEN Prs(c, bs) ELSE Prs(c, bs) \cup {i}
  <2>1. CASE b.key = None
    BY <1>2, <1>3, <1>4, <2>1 DEF Prs
  <2>2. CASE b.key # None
    BY <1>2, <1>3, <1>4, <2>2 DEF Prs
  <2> QED
    BY <2>1, <2>2
<1>7. HasNull(c, bs2) <=> HasNull(c, bs) \/ b.key = None
  BY <1>2, <1>3, <1>4 DEF HasNull
<1>8. ASSUME NEW k \in Key, NEW v \in Value
      PROVE  Holds(c, bs2, k, v) <=> IF k = b.key THEN v = b.value ELSE Holds(c, bs, k, v)
  <2>1. k # None
    BY NoneAssumption
  <2>2. CASE k = b.key
    <3>1. \A j \in Ix(c) : bs2[j].key = k => j = i
      BY <1>1, <1>2, <1>3, <2>1, <2>2, KeysApart
    <3> QED
      BY <1>2, <1>3, <2>2, <3>1 DEF Holds
  <2>3. CASE k # b.key
    <3>1. bs[i].key # k /\ bs2[i].key # k
      BY <1>3, <1>4, <2>1, <2>3
    <3> QED
      BY <1>3, <2>3, <3>1 DEF Holds
  <2> QED
    BY <2>2, <2>3
<1> QED
  BY <1>1, <1>2, <1>5, <1>6, <1>7, <1>8 DEF bs2, Enters

\* A table without a pair.
LEMMA EmptyTable ==
  ASSUME NEW c \in Nat \ {0}
  PROVE  LET bs == [j \in 0 .. c - 1 |-> Unused]
         IN  /\ TableOK(c, bs) /\ Reach(c, bs) /\ Occ(c, bs) = {} /\ Prs(c, bs) = {}
             /\ ~HasNull(c, bs) /\ \A k \in Key, v \in Value : ~Holds(c, bs, k, v)
<1> DEFINE bs == [j \in 0 .. c - 1 |-> Unused]
<1>1. BucketOK(Unused) /\ ~Unused.used /\ Unused.key = None
  BY DEF Unused, BucketOK, Bucket
<1>2. \A i \in Ix(c) : bs[i] = Unused
  BY DEF Ix
<1>3. bs \in [Ix(c) -> Bucket]
  BY <1>1 DEF Ix, BucketOK
<1> HIDE DEF bs
<1>4. TableOK(c, bs)
  BY <1>1, <1>2, <1>3 DEF TableOK
<1>5. Reach(c, bs) /\ Occ(c, bs) = {} /\ Prs(c, bs) = {} /\ ~HasNull(c, bs)
  BY <1>1, <1>2 DEF Reach, Occ, Prs, HasNull
<1>6. \A k \in Key, v \in Value : ~Holds(c, bs, k, v)
  BY <1>1, <1>2, NoneAssumption DEF Holds
<1> QED
  BY <1>4, <1>5, <1>6 DEF bs

-----------------------------------------------------------------------------
(* cu_HashMap_rehash                                                       *)

Blank(c) == Table(c, [j \in 0 .. c - 1 |-> Unused], 0)

\* The new table after each bucket of the old one.
Entered(c) ==
  CHOOSE entered : entered = [i \in 0 .. capacity |->
    IF i = 0 THEN Blank(c) ELSE Reenter(entered[i - 1], buckets[i - 1])]

LEMMA RehashedIs == ASSUME NEW c PROVE Rehashed(c) = Entered(c)[capacity]
  BY Zenon DEF Rehashed, Entered, Blank

Tables(c) == [capacity : {c}, buckets : [Ix(c) -> Bucket], length : Nat]

LEMMA TableType ==
  ASSUME NEW c, NEW bs \in [Ix(c) -> Bucket], NEW n \in Nat
  PROVE  /\ Table(c, bs, n) \in Tables(c)
         /\ Table(c, bs, n).capacity = c /\ Table(c, bs, n).buckets = bs
         /\ Table(c, bs, n).length = n
  BY DEF Table, Tables

LEMMA ReenterType ==
  ASSUME NEW c, NEW t \in Tables(c), NEW b \in Bucket
  PROVE  Reenter(t, b) \in Tables(c)
<1>1. t.capacity = c /\ t.buckets \in [Ix(c) -> Bucket] /\ t.length \in Nat /\ t.length + 1 \in Nat
  BY DEF Tables
<1>2. \A x : [t.buckets EXCEPT ![x] = b] \in [Ix(c) -> Bucket]
  BY <1>1
<1>3. \A x : Table(c, [t.buckets EXCEPT ![x] = b], t.length + 1) \in Tables(c)
  BY <1>1, <1>2, TableType
<1> QED
  BY <1>1, <1>3 DEF Reenter

\* The new table is made bucket by bucket.
LEMMA EnteredSteps ==
  ASSUME NEW c \in Nat \ {0}, capacity \in Nat, buckets \in [Ix(capacity) -> Bucket]
  PROVE  /\ Entered(c)[0] = Blank(c)
         /\ \A i \in 1 .. capacity :
              Entered(c)[i] = Reenter(Entered(c)[i - 1], buckets[i - 1])
<1> DEFINE T == Tables(c)
           step == [p \in (1 .. capacity) \X T |-> Reenter(p[2], buckets[p[1] - 1])]
<1>1. Blank(c) \in T
  <2>1. [j \in 0 .. c - 1 |-> Unused] \in [Ix(c) -> Bucket]
    BY DEF Ix, Unused, Bucket
  <2> QED
    BY <2>1, TableType DEF Blank
<1>2. step \in [(1 .. capacity) \X T -> T]
  <2>1. ASSUME NEW i \in 1 .. capacity, NEW t \in T
        PROVE  Reenter(t, buckets[i - 1]) \in T
    <3>1. buckets[i - 1] \in Bucket
      BY DEF Ix
    <3> QED
      BY <3>1, ReenterType
  <2> HIDE DEF T
  <2> QED
    BY <2>1
<1>3. \A i \in 1 .. capacity, t \in T : step[<<i, t>>] = Reenter(t, buckets[i - 1])
  <2> HIDE DEF T
  <2> QED
    OBVIOUS
<1> HIDE DEF step, T
<1>4. PICK g \in [0 .. capacity -> T] : Follows(g, capacity, Blank(c), step)
  BY <1>1, <1>2, RecursionExists
<1>5. ASSUME NEW i \in 1 .. capacity
      PROVE  g[i] = Reenter(g[i - 1], buckets[i - 1])
  <2>1. i - 1 \in 0 .. capacity
    OBVIOUS
  <2> QED
    BY <1>3, <1>4, <2>1 DEF Follows
<1>6. g = [i \in 0 .. capacity |->
             IF i = 0 THEN Blank(c) ELSE Reenter(g[i - 1], buckets[i - 1])]
  <2>1. g = [i \in 0 .. capacity |-> g[i]]
    OBVIOUS
  <2>2. \A i \in 0 .. capacity :
          g[i] = IF i = 0 THEN Blank(c) ELSE Reenter(g[i - 1], buckets[i - 1])
    BY <1>4, <1>5 DEF Follows
  <2> QED
    BY <2>1, <2>2
<1>7. Entered(c) = [i \in 0 .. capacity |->
             IF i = 0 THEN Blank(c) ELSE Reenter(Entered(c)[i - 1], buckets[i - 1])]
  <2>1. \E h : h = [i \in 0 .. capacity |->
             IF i = 0 THEN Blank(c) ELSE Reenter(h[i - 1], buckets[i - 1])]
    BY <1>6
  <2> QED
    BY <2>1, Zenon DEF Entered
<1> HIDE DEF Entered
<1> QED
  BY <1>7

\* The buckets of the old table that come before i.
OldOcc(i) == {j \in Ix(capacity) : j < i /\ buckets[j].used}

OldNull(i) == \E j \in Ix(capacity) : j < i /\ buckets[j].used /\ buckets[j].key = None

OldHolds(i, k, v) ==
  \E j \in Ix(capacity) : j < i /\ buckets[j].key = k /\ buckets[j].value = v

\* A table of capacity c with buckets bs and length n holds what the old one holds
\* before i, each pair where a probe for its key ends, and is no fuller.
Carry(c, bs, n, i) ==
  /\ n \in Nat /\ TableOK(c, bs) /\ Reach(c, bs)
  /\ Count(Occ(c, bs)) <= Count(OldOcc(i))
  /\ Count(Prs(c, bs)) <= n
  /\ ~HasNull(c, bs) => n = Count(Occ(c, bs))
  /\ HasNull(c, bs) <=> OldNull(i)
  /\ \A k \in Key, v \in Value : Holds(c, bs, k, v) <=> OldHolds(i, k, v)

Carries(t, c, i) == t.capacity = c /\ Carry(c, t.buckets, t.length, i)

\* What the next bucket of the old table adds.
LEMMA OldNext ==
  ASSUME TableOK(capacity, buckets), NEW i \in 1 .. capacity
  PROVE  LET b == buckets[i - 1]
         IN  /\ i - 1 \in Ix(capacity) /\ BucketOK(b)
             /\ IsFiniteSet(OldOcc(i - 1)) /\ Count(OldOcc(i - 1)) \in 0 .. capacity
             /\ Count(OldOcc(i)) = Count(OldOcc(i - 1)) + (IF b.used THEN 1 ELSE 0)
             /\ OldNull(i) <=> OldNull(i - 1) \/ (b.used /\ b.key = None)
             /\ \A k \in Key, v \in Value :
                  OldHolds(i, k, v) <=> OldHolds(i - 1, k, v) \/ (b.key = k /\ b.value = v)
<1> DEFINE b == buckets[i - 1]
<1>1. i - 1 \in Ix(capacity) /\ capacity \in Nat
  BY DEF Ix, TableOK
<1>2. BucketOK(b)
  BY <1>1 DEF TableOK
<1>3. \A j \in Ix(capacity) : j < i <=> j < i - 1 \/ j = i - 1
  BY <1>1 DEF Ix
<1>4. ~(i - 1 < i - 1)
  BY <1>1 DEF Ix
<1>5. OldOcc(i) = IF b.used THEN OldOcc(i - 1) \cup {i - 1} ELSE OldOcc(i - 1)
  BY <1>1, <1>3 DEF OldOcc
<1>6. i - 1 \notin OldOcc(i - 1) /\ OldOcc(i - 1) \subseteq Ix(capacity)
  BY <1>4 DEF OldOcc
<1>7. IsFiniteSet(OldOcc(i - 1)) /\ Count(OldOcc(i - 1)) \in 0 .. capacity
  BY <1>1, <1>6, IndicesCounted, CountPart
<1>8. Count(OldOcc(i)) = Count(OldOcc(i - 1)) + (IF b.used THEN 1 ELSE 0)
  <2>1. CASE b.used
    BY <1>5, <1>6, <1>7, <2>1, CountAdd
  <2>2. CASE ~b.used
    BY <1>5, <1>7, <2>2
  <2> QED
    BY <2>1, <2>2
<1>9. OldNull(i) <=> OldNull(i - 1) \/ (b.used /\ b.key = None)
  BY <1>1, <1>3 DEF OldNull
<1>10. \A k \in Key, v \in Value :
         OldHolds(i, k, v) <=> OldHolds(i - 1, k, v) \/ (b.key = k /\ b.value = v)
  BY <1>1, <1>3 DEF OldHolds
<1> QED
  BY <1>1, <1>2, <1>7, <1>8, <1>9, <1>10

\* A bucket of the old table finds room in the new one, and its key none of the
\* same there.
LEMMA ReenterGood ==
  ASSUME TableOK(capacity, buckets), Reach(capacity, buckets),
         NEW c \in Nat \ {0}, capacity < c,
         NEW i \in 1 .. capacity, NEW t, Carries(t, c, i - 1)
  PROVE  Carries(Reenter(t, buckets[i - 1]), c, i)
<1> DEFINE b == buckets[i - 1]
           bs == t.buckets
<1>1. /\ i - 1 \in Ix(capacity) /\ BucketOK(b)
      /\ IsFiniteSet(OldOcc(i - 1)) /\ Count(OldOcc(i - 1)) \in 0 .. capacity
      /\ Count(OldOcc(i)) = Count(OldOcc(i - 1)) + (IF b.used THEN 1 ELSE 0)
      /\ OldNull(i) <=> OldNull(i - 1) \/ (b.used /\ b.key = None)
      /\ \A k \in Key, v \in Value :
           OldHolds(i, k, v) <=> OldHolds(i - 1, k, v) \/ (b.key = k /\ b.value = v)
  BY OldNext
<1>2. /\ t.capacity = c /\ t.length \in Nat
      /\ TableOK(c, bs) /\ Reach(c, bs)
      /\ Count(Occ(c, bs)) <= Count(OldOcc(i - 1))
      /\ Count(Prs(c, bs)) <= t.length
      /\ ~HasNull(c, bs) => t.length = Count(Occ(c, bs))
      /\ HasNull(c, bs) <=> OldNull(i - 1)
      /\ \A k \in Key, v \in Value : Holds(c, bs, k, v) <=> OldHolds(i - 1, k, v)
  BY DEF Carries, Carry
<1>3. /\ b.used \in BOOLEAN /\ b.hash \in Nat /\ b.key \in Key \cup {None}
      /\ b.value \in Value \cup {None} /\ (~b.used => b.key = None)
      /\ (b.key = None <=> b.value = None)
  BY <1>1 DEF BucketOK, Bucket
<1> HIDE DEF b, bs
<1>4. CASE ~b.used
  <2>1. Reenter(t, b) = t
    BY <1>4 DEF Reenter
  <2>2. \A k \in Key, v \in Value : OldHolds(i, k, v) <=> OldHolds(i - 1, k, v)
    BY <1>1, <1>3, <1>4, NoneAssumption
  <2>3. Count(OldOcc(i)) = Count(OldOcc(i - 1)) /\ (OldNull(i) <=> OldNull(i - 1))
    BY <1>1, <1>4
  <2> QED
    <3>1. Carry(c, bs, t.length, i)
      BY <1>2, <2>2, <2>3 DEF Carry
    <3> QED
      BY <1>2, <2>1, <3>1 DEF Carries, b, bs
<1>5. CASE b.used
  <2> DEFINE x == Slot(bs, c, b.key, b.hash)
             bs2 == [bs EXCEPT ![x] = b]
  <2>1. Leads(c, bs, b.key, b.hash, x)
    <3>1. /\ capacity \in Nat
          /\ Count(Occ(c, bs)) \in 0 .. c
          /\ (Count(Occ(c, bs)) < c => \E j \in Ix(c) : ~bs[j].used)
      BY <1>2, Countable DEF TableOK
    <3>2. Count(Occ(c, bs)) < c
      BY <1>1, <1>2, <3>1
    <3>3. ~Endless(bs, c, b.key, b.hash)
      BY <1>3, <3>1, <3>2, RoomEndsProbes
    <3> QED
      BY <1>3, <3>3, SlotIs
  <2> HIDE DEF x
  <2>2. /\ TableOK(c, bs2) /\ Reach(c, bs2) /\ x \in Ix(c)
        /\ Occ(c, bs2) = Occ(c, bs) \cup {x}
        /\ Prs(c, bs2) = IF b.key = None THEN Prs(c, bs) ELSE Prs(c, bs) \cup {x}
        /\ HasNull(c, bs2) <=> HasNull(c, bs) \/ b.key = None
        /\ \A k \in Key, v \in Value :
             Holds(c, bs2, k, v)
               <=> IF k = b.key THEN v = b.value ELSE Holds(c, bs, k, v)
    <3>1. Enters(c, bs, x, b, bs2)
      BY <1>1, <1>2, <1>3, <1>5, <2>1, EnterFacts
    <3> HIDE DEF bs2
    <3> QED
      BY <3>1 DEF Enters
  <2>3. /\ (Reenter(t, b)).capacity = c /\ (Reenter(t, b)).buckets = bs2
        /\ (Reenter(t, b)).length = t.length + 1
    BY <1>2, <1>5 DEF Reenter, Table, x, bs
  <2> HIDE DEF bs2
  <2>4. /\ IsFiniteSet(Occ(c, bs)) /\ IsFiniteSet(Prs(c, bs))
        /\ Count(Occ(c, bs)) \in Nat /\ Count(Prs(c, bs)) \in Nat
    BY <1>2, Countable, CountAdd
  <2>5. /\ Count(Occ(c, bs2)) = IF x \in Occ(c, bs) THEN Count(Occ(c, bs))
                                ELSE Count(Occ(c, bs)) + 1
        /\ Count(Prs(c, bs) \cup {x}) = IF x \in Prs(c, bs) THEN Count(Prs(c, bs))
                                        ELSE Count(Prs(c, bs)) + 1
    BY <2>2, <2>4, CountAdd
  <2>6. Count(Occ(c, bs2)) <= Count(OldOcc(i))
    BY <1>1, <1>2, <1>5, <2>4, <2>5
  <2>7. Count(Prs(c, bs2)) <= t.length + 1
    BY <1>2, <2>2, <2>4, <2>5
  <2>8. ASSUME b.key # None, NEW v \in Value
        PROVE  ~Holds(c, bs, b.key, v)
    <3>1. SUFFICES ASSUME OldHolds(i - 1, b.key, v) PROVE FALSE
      BY <1>2, <1>3, <2>8
    <3>2. PICK j \in Ix(capacity) : j < i - 1 /\ buckets[j].key = b.key
      BY <3>1 DEF OldHolds
    <3>3. j = i - 1
      BY <1>1, <2>8, <3>2, KeysApart DEF b
    <3> QED
      BY <3>2, <3>3 DEF Ix
  <2>9. ASSUME b.key # None
        PROVE  x \notin Occ(c, bs)
    <3>1. SUFFICES ASSUME bs[x].used PROVE FALSE
      BY DEF Occ
    <3>2. Matches(bs[x], b.key, b.hash)
      BY <1>2, <1>3, <2>1, <3>1, LeadsFacts
    <3>3. bs[x].value \in Value
      BY <1>2, <2>2, <2>9, <3>2 DEF Matches, TableOK, BucketOK, Bucket
    <3>4. Holds(c, bs, b.key, bs[x].value)
      BY <2>2, <3>2 DEF Holds, Matches
    <3> QED
      BY <2>8, <2>9, <3>3, <3>4
  <2>10. ~HasNull(c, bs2) => t.length + 1 = Count(Occ(c, bs2))
    BY <1>2, <2>2, <2>5, <2>9
  <2>11. HasNull(c, bs2) <=> OldNull(i)
    BY <1>1, <1>2, <1>5, <2>2
  <2>12. ASSUME NEW k \in Key, NEW v \in Value
         PROVE  Holds(c, bs2, k, v) <=> OldHolds(i, k, v)
    <3>1. CASE k = b.key
      <4>1. b.key # None
        BY <3>1, NoneAssumption
      <4>2. ~OldHolds(i - 1, k, v)
        BY <1>2, <2>8, <3>1, <4>1
      <4> QED
        BY <1>1, <2>2, <3>1, <4>2
    <3>2. CASE k # b.key
      BY <1>1, <1>2, <2>2, <3>2
    <3> QED
      BY <3>1, <3>2
  <2>13. Carries(Reenter(t, b), c, i)
    <3>1. Carry(c, bs2, t.length + 1, i)
      BY <1>2, <2>2, <2>6, <2>7, <2>10, <2>11, <2>12 DEF Carry
    <3> QED
      BY <2>3, <3>1 DEF Carries
  <2> QED
    BY <2>13 DEF b
<1> QED
  BY <1>3, <1>4, <1>5

\* A rehash carries every pair over to the larger table, where a probe for its key
\* finds it, and loses no mark of a failed insert.
LEMMA RehashCarries ==
  ASSUME TableOK(capacity, buckets), Reach(capacity, buckets),
         NEW c \in Nat \ {0}, capacity < c
  PROVE  Carries(Rehashed(c), c, capacity)
<1> DEFINE Bad == {i \in 0 .. capacity : ~Carries(Entered(c)[i], c, i)}
<1>1. capacity \in Nat /\ buckets \in [Ix(capacity) -> Bucket]
  BY DEF TableOK
<1>2. /\ Entered(c)[0] = Blank(c)
      /\ \A i \in 1 .. capacity :
           Entered(c)[i] = Reenter(Entered(c)[i - 1], buckets[i - 1])
  BY <1>1, EnteredSteps
<1>3. Carries(Blank(c), c, 0)
  <2> DEFINE bs == [j \in 0 .. c - 1 |-> Unused]
  <2>1. /\ TableOK(c, bs) /\ Reach(c, bs) /\ Occ(c, bs) = {} /\ Prs(c, bs) = {}
        /\ ~HasNull(c, bs) /\ \A k \in Key, v \in Value : ~Holds(c, bs, k, v)
    BY EmptyTable
  <2>2. Blank(c).capacity = c /\ Blank(c).buckets = bs /\ Blank(c).length = 0
    BY DEF Blank, Table
  <2> HIDE DEF bs
  <2>3. \A j \in Ix(capacity) : ~(j < 0)
    BY DEF Ix
  <2>4. OldOcc(0) = {} /\ ~OldNull(0) /\ \A k \in Key, v \in Value : ~OldHolds(0, k, v)
    BY <2>3 DEF OldOcc, OldNull, OldHolds
  <2>5. Count({}) = 0
    BY FS_EmptySet DEF Count
  <2> QED
    <3>1. Carry(c, bs, 0, 0)
      BY <2>1, <2>4, <2>5 DEF Carry
    <3> QED
      BY <2>2, <3>1 DEF Carries
<1>4. Bad = {}
  <2>1. SUFFICES ASSUME Bad # {} PROVE FALSE
    OBVIOUS
  <2>2. PICK x \in Bad : \A y \in Bad : x <= y
    <3>1. Bad \subseteq Nat
      OBVIOUS
    <3> HIDE DEF Bad
    <3> QED
      BY <2>1, <3>1, LeastOf
  <2>3. x \in 0 .. capacity /\ ~Carries(Entered(c)[x], c, x)
    BY <2>2
  <2>4. x # 0
    BY <1>2, <1>3, <2>3
  <2>5. x \in 1 .. capacity /\ x - 1 \in 0 .. capacity /\ ~(x <= x - 1)
    BY <1>1, <2>3, <2>4
  <2>6. Carries(Entered(c)[x - 1], c, x - 1)
    BY <2>2, <2>5
  <2>7. Carries(Reenter(Entered(c)[x - 1], buckets[x - 1]), c, x)
    BY <2>5, <2>6, ReenterGood
  <2> QED
    BY <1>2, <2>3, <2>5, <2>7
<1>5. capacity \in 0 .. capacity
  BY <1>1
<1> QED
  BY <1>4, <1>5, RehashedIs

-----------------------------------------------------------------------------
(* The invariant                                                           *)

\* As long as no insert failed, the length counts the buckets in use, and not all
\* are.
TableGood(c, bs, n) ==
  /\ TableOK(c, bs) /\ Reach(c, bs)
  /\ n \in Nat /\ c = NextPow2(c)
  /\ Count(Prs(c, bs)) <= n
  /\ HasNull(c, bs) \/ (n = Count(Occ(c, bs)) /\ n < c)

HInv ==
  /\ open \in BOOLEAN /\ hung \in BOOLEAN
  /\ open => TableGood(capacity, buckets, length)
  /\ ~open => capacity = 0 /\ buckets = <<>> /\ length = 0
  /\ hung => open /\ HasNull(capacity, buckets)

\* A table with room for one more holds what the old one holds.
Room(c, bs, n) ==
  /\ TableGood(c, bs, n)
  /\ HasNull(c, bs) \/ n + 1 < c
  /\ HasNull(c, bs) <=> HasNull(capacity, buckets)
  /\ \A k \in Key, v \in Value : Holds(c, bs, k, v) <=> Holds(capacity, buckets, k, v)

LEMMA RoomyGood ==
  ASSUME TableGood(capacity, buckets, length)
  PROVE  Room(Roomy.capacity, Roomy.buckets, Roomy.length)
<1>1. /\ TableOK(capacity, buckets) /\ Reach(capacity, buckets) /\ capacity \in Nat \ {0}
      /\ length \in Nat
      /\ HasNull(capacity, buckets) \/ (length = Count(Occ(capacity, buckets)) /\ length < capacity)
  BY DEF TableGood, TableOK
<1>2. CASE ~NeedsRehash
  <2>1. length + 1 < capacity
    BY <1>1, <1>2 DEF NeedsRehash
  <2>2. Roomy.capacity = capacity /\ Roomy.buckets = buckets /\ Roomy.length = length
    BY <1>2 DEF Roomy, Table
  <2> QED
    BY <2>1, <2>2 DEF Room
<1>3. CASE NeedsRehash
  <2> DEFINE c == RehashCapacity(capacity * 2)
             t == Rehashed(c)
  <2>1. c \in Nat \ {0} /\ capacity < c /\ c = NextPow2(c)
    <3> DEFINE w == IF capacity * 2 < MinCapacity THEN MinCapacity ELSE capacity * 2
    <3>1. w \in Nat /\ capacity < w
      BY <1>1, CapacityAssumption
    <3>2. c = NextPow2(w)
      BY DEF RehashCapacity
    <3> HIDE DEF w, c
    <3>3. c \in Nat /\ c > 0 /\ w <= c /\ NextPow2(c) = c
      BY <3>1, <3>2, NextPow2Facts
    <3> QED
      BY <1>1, <3>1, <3>3
  <2> HIDE DEF c
  <2>2. Carries(t, c, capacity)
    BY <1>1, <2>1, RehashCarries
  <2>3. Roomy = t
    BY <1>3 DEF Roomy, c
  <2> HIDE DEF t
  <2>4. t.capacity = c /\ Carry(c, t.buckets, t.length, capacity)
    BY <2>2 DEF Carries
  <2> DEFINE bs == t.buckets
             n == t.length
  <2>5. /\ n \in Nat /\ TableOK(c, bs) /\ Reach(c, bs)
        /\ Count(Occ(c, bs)) <= Count(OldOcc(capacity))
        /\ Count(Prs(c, bs)) <= n
        /\ ~HasNull(c, bs) => n = Count(Occ(c, bs))
        /\ HasNull(c, bs) <=> OldNull(capacity)
        /\ \A k \in Key, v \in Value : Holds(c, bs, k, v) <=> OldHolds(capacity, k, v)
    BY <2>4 DEF Carry
  <2> HIDE DEF bs, n
  <2>6. \A j \in Ix(capacity) : j < capacity
    BY <1>1 DEF Ix
  <2>7. /\ OldOcc(capacity) = Occ(capacity, buckets)
        /\ OldNull(capacity) <=> HasNull(capacity, buckets)
        /\ \A k, v : OldHolds(capacity, k, v) <=> Holds(capacity, buckets, k, v)
    BY <2>6 DEF OldOcc, OldNull, OldHolds, Occ, HasNull, Holds
  <2>8. HasNull(c, bs) \/ (n = Count(Occ(c, bs)) /\ n + 1 < c /\ n < c)
    <3>1. Count(Occ(c, bs)) \in Nat /\ Count(Occ(capacity, buckets)) \in Nat
      BY <1>1, <2>5, Countable, CountAdd
    <3> QED
      BY <1>1, <2>1, <2>5, <2>7, <3>1
  <2>9. TableGood(c, bs, n)
    BY <2>1, <2>5, <2>8 DEF TableGood
  <2>10. Room(c, bs, n)
    BY <2>5, <2>7, <2>8, <2>9 DEF Room
  <2> QED
    BY <2>3, <2>4, <2>10 DEF bs, n
<1> QED
  BY <1>2, <1>3

\* A probe that does not end needs the mark of a failed insert.
LEMMA EndlessNull ==
  ASSUME NEW c, NEW bs, NEW n, TableGood(c, bs, n),
         NEW key, NEW hash \in Nat, Endless(bs, c, key, hash)
  PROVE  HasNull(c, bs)
<1>1. SUFFICES ASSUME ~HasNull(c, bs) PROVE FALSE
  OBVIOUS
<1>2. TableOK(c, bs) /\ c \in Nat \ {0} /\ Count(Occ(c, bs)) < c
  BY <1>1 DEF TableGood, TableOK
<1>3. \E i \in Ix(c) : ~bs[i].used
  BY <1>2, Countable
<1> QED
  BY <1>2, <1>3, RoomEndsProbes

\* What a change to a table with room makes of what the map holds.
Puts(c, bs, k, v) ==
  \A l \in Key, w \in Value :
    Holds(c, bs, l, w) <=> IF l = k THEN w = v ELSE Holds(capacity, buckets, l, w)

\* Storing a pair.
LEMMA StoredGood ==
  ASSUME NEW t, Room(t.capacity, t.buckets, t.length), NEW k \in Key, NEW v \in Value,
         ~Endless(t.buckets, t.capacity, k, Hash[k])
  PROVE  LET u == Stored(t, k, v)
         IN  /\ TableGood(u.capacity, u.buckets, u.length)
             /\ Puts(u.capacity, u.buckets, k, v)
<1> DEFINE c == t.capacity
           bs == t.buckets
           n == t.length
           i == Slot(bs, c, k, Hash[k])
           b == IF bs[i].used THEN [bs[i] EXCEPT !.value = v]
                ELSE [used |-> TRUE, hash |-> Hash[k], key |-> k, value |-> v]
           bs2 == [bs EXCEPT ![i] = b]
           m == IF bs[i].used THEN n ELSE n + 1
           u == Stored(t, k, v)
<1>1. u.capacity = c /\ u.buckets = bs2 /\ u.length = m
  BY DEF Stored, Table
<1>2. /\ TableOK(c, bs) /\ Reach(c, bs) /\ n \in Nat /\ c = NextPow2(c)
      /\ Count(Prs(c, bs)) <= n
      /\ HasNull(c, bs) \/ (n = Count(Occ(c, bs)) /\ n < c)
      /\ HasNull(c, bs) \/ n + 1 < c
      /\ \A l \in Key, w \in Value :
           Holds(c, bs, l, w) <=> Holds(capacity, buckets, l, w)
  BY DEF Room, TableGood
<1>3. c \in Nat \ {0} /\ Hash[k] \in Nat /\ k # None /\ v # None
  BY <1>2, HashAssumption, NoneAssumption DEF TableOK
<1> HIDE DEF c, bs, n, u
<1>4. Leads(c, bs, k, Hash[k], i)
  BY <1>3, SlotIs DEF c, bs
<1> HIDE DEF i
<1>5. i \in Ix(c) /\ (~bs[i].used \/ Matches(bs[i], k, Hash[k])) /\ BucketOK(bs[i])
  BY <1>2, <1>3, <1>4, LeadsFacts DEF TableOK
<1>6. BucketOK(b) /\ b.used /\ b.hash = Hash[k] /\ b.key = k /\ b.value = v
  <2>1. CASE bs[i].used
    BY <1>3, <1>5, <2>1 DEF BucketOK, Bucket, Matches
  <2>2. CASE ~bs[i].used
    BY <1>3, <2>2 DEF BucketOK, Bucket
  <2> QED
    BY <2>1, <2>2
<1> HIDE DEF b
<1>7. Enters(c, bs, i, b, bs2)
  BY <1>2, <1>3, <1>4, <1>6, EnterFacts
<1> HIDE DEF bs2
<1>8. /\ TableOK(c, bs2) /\ Reach(c, bs2)
      /\ Occ(c, bs2) = Occ(c, bs) \cup {i}
      /\ Prs(c, bs2) = Prs(c, bs) \cup {i}
      /\ HasNull(c, bs2) <=> HasNull(c, bs)
      /\ \A l \in Key, w \in Value :
           Holds(c, bs2, l, w) <=> IF l = k THEN w = v ELSE Holds(c, bs, l, w)
  BY <1>3, <1>6, <1>7 DEF Enters
<1>9. /\ IsFiniteSet(Occ(c, bs)) /\ IsFiniteSet(Prs(c, bs))
      /\ Count(Occ(c, bs)) \in Nat /\ Count(Prs(c, bs)) \in Nat
  BY <1>2, Countable, CountAdd
<1>10. /\ Count(Occ(c, bs2)) = IF i \in Occ(c, bs) THEN Count(Occ(c, bs))
                               ELSE Count(Occ(c, bs)) + 1
       /\ Count(Prs(c, bs2)) = IF i \in Prs(c, bs) THEN Count(Prs(c, bs))
                               ELSE Count(Prs(c, bs)) + 1
  BY <1>8, <1>9, CountAdd
<1>11. (i \in Occ(c, bs) <=> bs[i].used) /\ (bs[i].used => i \in Prs(c, bs))
  BY <1>3, <1>5 DEF Occ, Prs, Matches
<1>12. m \in Nat /\ Count(Prs(c, bs2)) <= m
  BY <1>2, <1>9, <1>10, <1>11
<1>13. HasNull(c, bs2) \/ (m = Count(Occ(c, bs2)) /\ m < c)
  BY <1>2, <1>3, <1>8, <1>9, <1>10, <1>11
<1> HIDE DEF m
<1>14. TableGood(c, bs2, m)
  BY <1>2, <1>8, <1>12, <1>13 DEF TableGood
<1>15. Puts(c, bs2, k, v)
  BY <1>2, <1>8 DEF Puts
<1> QED
  BY <1>1, <1>14, <1>15 DEF u

\* Marking a bucket for which there is no memory.
LEMMA MarkedGood ==
  ASSUME NEW t, Room(t.capacity, t.buckets, t.length), NEW k \in Key,
         ~Endless(t.buckets, t.capacity, k, Hash[k]),
         ~t.buckets[Slot(t.buckets, t.capacity, k, Hash[k])].used
  PROVE  LET u == Marked(t, k)
         IN  /\ TableGood(u.capacity, u.buckets, u.length)
             /\ HasNull(u.capacity, u.buckets)
             /\ \A l \in Key, w \in Value :
                  Holds(u.capacity, u.buckets, l, w) <=> Holds(capacity, buckets, l, w)
<1> DEFINE c == t.capacity
           bs == t.buckets
           n == t.length
           i == Slot(bs, c, k, Hash[k])
           b == [bs[i] EXCEPT !.used = TRUE, !.hash = Hash[k]]
           bs2 == [bs EXCEPT ![i] = b]
           u == Marked(t, k)
<1>1. /\ TableOK(c, bs) /\ Reach(c, bs) /\ n \in Nat /\ c = NextPow2(c)
      /\ Count(Prs(c, bs)) <= n
      /\ \A l \in Key, w \in Value :
           Holds(c, bs, l, w) <=> Holds(capacity, buckets, l, w)
  BY DEF Room, TableGood
<1>2. c \in Nat \ {0} /\ Hash[k] \in Nat /\ k # None /\ ~bs[i].used
  BY <1>1, HashAssumption, NoneAssumption DEF TableOK
<1>3. u.capacity = c /\ u.length = n /\
      u.buckets = [bs EXCEPT ![i].used = TRUE, ![i].hash = Hash[k]]
  BY DEF Marked, Table
<1> HIDE DEF c, bs, n, u
<1>4. Leads(c, bs, k, Hash[k], i)
  BY <1>2, SlotIs DEF c, bs
<1> HIDE DEF i
<1>5. i \in Ix(c) /\ BucketOK(bs[i]) /\ bs \in [Ix(c) -> Bucket]
  BY <1>1, <1>2, <1>4, LeadsFacts DEF TableOK
<1>6. u.buckets = bs2
  BY <1>3, <1>5
<1>7. BucketOK(b) /\ b.used /\ b.hash = Hash[k] /\ b.key = None
  BY <1>2, <1>5 DEF BucketOK, Bucket
<1> HIDE DEF b
<1>8. Enters(c, bs, i, b, bs2)
  BY <1>1, <1>2, <1>4, <1>7, EnterFacts
<1> HIDE DEF bs2
<1>9. /\ TableOK(c, bs2) /\ Reach(c, bs2) /\ Prs(c, bs2) = Prs(c, bs) /\ HasNull(c, bs2)
      /\ \A l \in Key, w \in Value : Holds(c, bs2, l, w) <=> Holds(c, bs, l, w)
  BY <1>7, <1>8, NoneAssumption DEF Enters
<1>10. TableGood(c, bs2, n)
  BY <1>1, <1>9 DEF TableGood
<1> QED
  BY <1>1, <1>3, <1>6, <1>9, <1>10 DEF u

LEMMA InitHolds == Init => HInv
  BY DEF Init, HInv

\* A new table.
LEMMA CreateHolds ==
  ASSUME HInv, NEW c \in InitialCaps, ~hung, Create(c)
  PROVE  HInv' /\ \A k \in Key, v \in Value : ~Holds(capacity', buckets', k, v)
<1> DEFINE p == NextPow2(c)
           bs == [j \in 0 .. p - 1 |-> Unused]
<1>1. p \in Nat \ {0} /\ p = NextPow2(p)
  <2>1. c \in Nat
    BY CapacityAssumption
  <2>2. p \in Nat /\ p > 0 /\ NextPow2(p) = p
    BY <2>1, NextPow2Facts
  <2> HIDE DEF p
  <2> QED
    BY <2>2
<1>2. capacity' = p /\ buckets' = bs /\ length' = 0 /\ open' = TRUE /\ hung' = hung
  BY DEF Create
<1> HIDE DEF p
<1>3. /\ TableOK(p, bs) /\ Reach(p, bs) /\ Occ(p, bs) = {} /\ Prs(p, bs) = {}
      /\ ~HasNull(p, bs) /\ \A k \in Key, v \in Value : ~Holds(p, bs, k, v)
  BY <1>1, EmptyTable
<1> HIDE DEF bs
<1>4. Count({}) = 0
  BY FS_EmptySet DEF Count
<1>5. TableGood(p, bs, 0)
  BY <1>1, <1>3, <1>4 DEF TableGood
<1> QED
  BY <1>2, <1>3, <1>5 DEF HInv

\* What an insert does to the map.
LEMMA InsertHolds ==
  ASSUME HInv, ~hung, NEW k \in Key, NEW v \in Value, Insert(k, v)
  PROVE  HInv' /\ open' /\ Puts(capacity', buckets', k, v)
<1> DEFINE u == Stored(Roomy, k, v)
<1>1. TableGood(capacity, buckets, length) /\ open /\ ~hung
  BY DEF HInv, Insert
<1>2. Room(Roomy.capacity, Roomy.buckets, Roomy.length)
  BY <1>1, RoomyGood
<1>3. ~Endless(Roomy.buckets, Roomy.capacity, k, Hash[k])
  BY DEF Insert
<1>4. TableGood(u.capacity, u.buckets, u.length) /\ Puts(u.capacity, u.buckets, k, v)
  BY <1>2, <1>3, StoredGood
<1>5. /\ capacity' = u.capacity /\ buckets' = u.buckets /\ length' = u.length
      /\ open' = open /\ hung' = hung
  BY DEF Insert, Becomes
<1> HIDE DEF u
<1> QED
  BY <1>1, <1>4, <1>5 DEF HInv

Keeps(c, bs) ==
  \A k \in Key, v \in Value : Holds(c, bs, k, v) <=> Holds(capacity, buckets, k, v)

LEMMA InsertFailsHolds ==
  ASSUME HInv, ~hung, NEW k \in Key, InsertFails(k)
  PROVE  HInv' /\ open' /\ Keeps(capacity', buckets')
<1> DEFINE u == Marked(Roomy, k)
<1>1. TableGood(capacity, buckets, length) /\ open /\ ~hung
  BY DEF HInv, InsertFails
<1>2. Room(Roomy.capacity, Roomy.buckets, Roomy.length)
  BY <1>1, RoomyGood
<1>3. /\ ~Endless(Roomy.buckets, Roomy.capacity, k, Hash[k])
      /\ ~Roomy.buckets[Slot(Roomy.buckets, Roomy.capacity, k, Hash[k])].used
  BY DEF InsertFails
<1>4. /\ TableGood(u.capacity, u.buckets, u.length) /\ HasNull(u.capacity, u.buckets)
      /\ Keeps(u.capacity, u.buckets)
  BY <1>2, <1>3, MarkedGood DEF Keeps
<1>5. /\ capacity' = u.capacity /\ buckets' = u.buckets /\ length' = u.length
      /\ open' = open /\ hung' = hung
  BY DEF InsertFails, Becomes
<1> HIDE DEF u
<1> QED
  BY <1>1, <1>4, <1>5 DEF HInv

\* A probe hangs only where a failed insert left its mark.
LEMMA HangHolds ==
  ASSUME HInv, ~hung, NEW k \in Key, InsertHangs(k) \/ GetHangs(k)
  PROVE  HInv'
<1>1. /\ TableGood(capacity, buckets, length) /\ open /\ hung' = TRUE
      /\ UNCHANGED <<open, capacity, buckets, length>>
  BY DEF HInv, InsertHangs, GetHangs
<1>2. Hash[k] \in Nat
  BY HashAssumption
<1>3. HasNull(capacity, buckets)
  <2>1. CASE InsertHangs(k)
    <3>1. Room(Roomy.capacity, Roomy.buckets, Roomy.length)
      BY <1>1, RoomyGood
    <3>2. Endless(Roomy.buckets, Roomy.capacity, k, Hash[k])
      BY <2>1 DEF InsertHangs
    <3>3. TableGood(Roomy.capacity, Roomy.buckets, Roomy.length)
      BY <3>1 DEF Room
    <3>4. HasNull(Roomy.capacity, Roomy.buckets)
      BY <1>2, <3>2, <3>3, EndlessNull
    <3> QED
      BY <3>1, <3>4 DEF Room
  <2>2. CASE GetHangs(k)
    <3>1. Endless(buckets, capacity, k, Hash[k])
      BY <2>2 DEF GetHangs
    <3> QED
      BY <1>1, <1>2, <3>1, EndlessNull
  <2> QED
    BY <2>1, <2>2
<1> QED
  BY <1>1, <1>3 DEF HInv

LEMMA StutterHolds == HInv /\ UNCHANGED vars => HInv'
  BY DEF HInv, vars

LEMMA DestroyHolds == HInv /\ ~hung /\ Destroy => HInv'
<1> SUFFICES ASSUME HInv, ~hung, Destroy PROVE HInv'
  OBVIOUS
<1>1. /\ open' = FALSE /\ capacity' = 0 /\ buckets' = <<>> /\ length' = 0
      /\ hung' \in BOOLEAN /\ ~hung'
  BY DEF HInv, Destroy
<1> QED
  BY <1>1 DEF HInv

LEMMA NextHolds == HInv /\ [Next]_vars => HInv'
<1> SUFFICES ASSUME HInv, [Next]_vars PROVE HInv'
  OBVIOUS
<1>1. CASE ~hung /\ \E c \in InitialCaps : Create(c)
  BY <1>1, CreateHolds
<1>2. CASE ~hung /\ \E k \in Key, v \in Value : Insert(k, v)
  BY <1>2, InsertHolds
<1>3. CASE ~hung /\ \E k \in Key : InsertFails(k) \/ InsertHangs(k) \/ GetHangs(k)
  BY <1>3, InsertFailsHolds, HangHolds
<1>4. CASE ~hung /\ RehashFails
  BY <1>4, StutterHolds DEF RehashFails
<1>5. CASE ~hung /\ Destroy
  BY <1>5, DestroyHolds
<1>6. CASE Spin
  BY <1>6, StutterHolds DEF Spin
<1>7. CASE UNCHANGED vars
  BY <1>7, StutterHolds
<1> QED
  BY <1>1, <1>2, <1>3, <1>4, <1>5, <1>6, <1>7 DEF Next

\* Whatever is inserted, in tables of whatever capacities, pairs stay where probes
\* find them, the length counts them, and probes can hang only once an insert failed.
THEOREM HashMapInvariant == Spec => []HInv
  BY InitHolds, NextHolds, PTL DEF Spec

LEMMA InvType == HInv => TypeOK
<1> SUFFICES ASSUME HInv PROVE TypeOK
  OBVIOUS
<1>1. CASE open
  <2>1. /\ TableOK(capacity, buckets) /\ length \in Nat /\ capacity = NextPow2(capacity)
        /\ open \in BOOLEAN /\ hung \in BOOLEAN
    BY <1>1 DEF HInv, TableGood
  <2> QED
    BY <2>1 DEF TypeOK, TableOK, BucketOK, Ix, Indices
<1>2. CASE ~open
  <2>1. capacity = 0 /\ buckets = <<>> /\ length = 0 /\ hung = FALSE /\ open = FALSE
    BY <1>2 DEF HInv
  <2>2. Indices = {}
    BY <2>1 DEF Indices
  <2>3. buckets \in [Indices -> Bucket]
    BY <2>1, <2>2
  <2> QED
    BY <2>1, <2>2, <2>3 DEF TypeOK
<1> QED
  BY <1>1, <1>2

\* The buckets of the properties are those of the proofs.
LEMMA SetsAre ==
  ASSUME HInv
  PROVE  /\ Occupied = Occ(capacity, buckets)
         /\ open => Paired = Prs(capacity, buckets)
         /\ ~open => Occupied = {} /\ Paired = {}
         /\ Occupied = Paired => ~HasNull(capacity, buckets)
<1>1. Occupied = Occ(capacity, buckets)
  BY DEF Occupied, Occ, Indices, Ix
<1>2. ASSUME open
      PROVE  Paired = Prs(capacity, buckets)
  BY <1>2 DEF HInv, TableGood, TableOK, BucketOK, Paired, Occupied, Indices, Ix, Prs
<1>3. ASSUME ~open
      PROVE  Occupied = {} /\ Paired = {}
  BY <1>3 DEF HInv, Paired, Occupied, Indices
<1>4. ASSUME Occupied = Paired
      PROVE  ~HasNull(capacity, buckets)
  BY <1>4 DEF Paired, Occupied, HasNull, Indices, Ix
<1> QED
  BY <1>1, <1>2, <1>3, <1>4

\* Every pair is where a probe for its key ends.
THEOREM HashMapPairsReachable == Spec => []PairsReachable
<1>1. HInv => PairsReachable
  <2> SUFFICES ASSUME HInv, NEW i \in Paired
               PROVE  Slot(buckets, capacity, buckets[i].key, buckets[i].hash) = i
    BY DEF PairsReachable
  <2>1. open
    BY SetsAre
  <2>2. /\ TableOK(capacity, buckets) /\ Reach(capacity, buckets) /\ i \in Ix(capacity)
        /\ buckets[i].key # None
    BY <2>1, SetsAre DEF HInv, TableGood, Prs
  <2>3. Leads(capacity, buckets, buckets[i].key, buckets[i].hash, i)
    BY <2>2 DEF Reach
  <2>4. capacity \in Nat \ {0} /\ buckets[i].hash \in Nat
    BY <2>2 DEF TableOK, Bucket
  <2> HIDE DEF Paired
  <2>5. \A x : Leads(capacity, buckets, buckets[i].key, buckets[i].hash, x)
                 => x = Slot(buckets, capacity, buckets[i].key, buckets[i].hash)
    BY <2>4, SlotIs
  <2> QED
    BY <2>3, <2>5
<1> QED
  BY <1>1, HashMapInvariant, PTL

\* The length is no less than the number of pairs, and that number as long as no
\* insert failed.
THEOREM HashMapLengthCounts == Spec => []LengthCounts
<1>1. HInv => LengthCounts
  <2> SUFFICES ASSUME HInv PROVE LengthCounts
    OBVIOUS
  <2>1. CASE open
    <3>1. /\ TableGood(capacity, buckets, length) /\ Paired = Prs(capacity, buckets)
          /\ Occupied = Occ(capacity, buckets)
          /\ Occupied = Paired => ~HasNull(capacity, buckets)
      BY <2>1, SetsAre DEF HInv
    <3> QED
      BY <3>1, InvType DEF TableGood, LengthCounts, Count
  <2>2. CASE ~open
    <3>1. Paired = {} /\ length = 0
      BY <2>2, SetsAre DEF HInv
    <3> QED
      BY <3>1, InvType, FS_EmptySet DEF LengthCounts
  <2> QED
    BY <2>1, <2>2
<1> QED
  BY <1>1, HashMapInvariant, PTL

\* As long as no insert failed there is an unused bucket, and no probe hangs.
THEOREM HashMapProbesEnd == Spec => []ProbesEnd
<1>1. HInv => ProbesEnd
  <2> SUFFICES ASSUME HInv, open, Occupied = Paired
               PROVE  Occupied # Indices /\ ~hung
    BY DEF ProbesEnd
  <2>1. /\ TableGood(capacity, buckets, length) /\ ~HasNull(capacity, buckets)
        /\ Occupied = Occ(capacity, buckets)
    BY SetsAre DEF HInv
  <2>2. ~hung
    BY <2>1 DEF HInv
  <2>3. /\ TableOK(capacity, buckets) /\ capacity \in Nat
        /\ Count(Occ(capacity, buckets)) < capacity
    BY <2>1 DEF TableGood, TableOK
  <2>4. \E i \in Ix(capacity) : ~buckets[i].used
    BY <2>3, Countable
  <2> QED
    BY <2>2, <2>4 DEF Occupied, Indices, Ix
<1> QED
  BY <1>1, HashMapInvariant, PTL

-----------------------------------------------------------------------------
(* The map that clients see                                                *)

\* What get returns is the value of the pair with the key, if there is one.
LEMMA GetIs ==
  ASSUME HInv, NEW k \in Key
  PROVE  /\ Get(k) \in Value \cup {None}
         /\ \A v \in Value : Get(k) = v <=> open /\ Holds(capacity, buckets, k, v)
<1>1. CASE ~open
  <2>1. capacity = 0
    BY <1>1 DEF HInv
  <2> QED
    BY <1>1, <2>1, NoneAssumption DEF Get
<1>2. CASE open
  <2>1. /\ TableOK(capacity, buckets) /\ Reach(capacity, buckets)
        /\ capacity \in Nat \ {0} /\ Hash[k] \in Nat /\ k # None /\ capacity # 0
    BY <1>2, HashAssumption, NoneAssumption DEF HInv, TableGood, TableOK
  <2>2. ASSUME NEW i \in Ix(capacity), buckets[i].key = k
        PROVE  ~Endless(buckets, capacity, k, Hash[k]) /\ i = Slot(buckets, capacity, k, Hash[k])
    <3>1. buckets[i].hash = Hash[k] /\ Leads(capacity, buckets, k, buckets[i].hash, i)
      BY <2>1, <2>2 DEF TableOK, BucketOK, Reach
    <3>2. \A x : Leads(capacity, buckets, k, Hash[k], x)
            => ~Endless(buckets, capacity, k, Hash[k]) /\ x = Slot(buckets, capacity, k, Hash[k])
      BY <2>1, SlotIs
    <3> QED
      BY <3>1, <3>2
  <2>3. CASE Endless(buckets, capacity, k, Hash[k])
    BY <1>2, <2>2, <2>3, NoneAssumption DEF Get, Holds
  <2>4. CASE ~Endless(buckets, capacity, k, Hash[k])
    <3> DEFINE i == Slot(buckets, capacity, k, Hash[k])
    <3>1. Get(k) = buckets[i].value
      BY <2>1, <2>4 DEF Get
    <3>2. Leads(capacity, buckets, k, Hash[k], i)
      BY <2>1, <2>4, SlotIs
    <3>3. \A j \in Ix(capacity) : buckets[j].key = k => j = i
      BY <2>2
    <3> HIDE DEF i
    <3>4. i \in Ix(capacity) /\ (~buckets[i].used \/ Matches(buckets[i], k, Hash[k]))
      BY <2>1, <3>2, LeadsFacts
    <3>5. /\ buckets[i].value \in Value \cup {None}
          /\ buckets[i].value # None => buckets[i].key = k
      BY <2>1, <3>4 DEF TableOK, BucketOK, Bucket, Matches
    <3> QED
      BY <1>2, <3>1, <3>3, <3>4, <3>5, NoneAssumption DEF Holds
  <2> QED
    BY <2>3, <2>4
<1> QED
  BY <1>1, <1>2

Shown == [k \in Key |-> Get(k)]

ShownIs ==
  \A k \in Key :
    /\ Shown[k] \in Value \cup {None}
    /\ \A v \in Value : Shown[k] = v <=> open /\ Holds(capacity, buckets, k, v)

LEMMA ShownFacts == HInv => ShownIs
  BY GetIs DEF ShownIs, Shown

LEMMA ShownFactsNext == HInv' => ShownIs'
  BY ShownFacts, PTL

LEMMA ShownDomain == Shown = [k \in Key |-> Shown[k]] /\ Shown' = [k \in Key |-> Shown'[k]]
  BY DEF Shown

\* A map that shows the same pairs is the same.
LEMMA KeptShown ==
  ASSUME HInv, HInv', open, open', Keeps(capacity', buckets')
  PROVE  Shown' = Shown
<1>1. ShownIs /\ ShownIs'
  BY ShownFacts, ShownFactsNext
<1>2. ASSUME NEW k \in Key
      PROVE  Shown'[k] = Shown[k]
  <2>1. /\ Shown[k] \in Value \cup {None} /\ Shown'[k] \in Value \cup {None}
        /\ \A v \in Value : Shown[k] = v <=> Holds(capacity, buckets, k, v)
        /\ \A v \in Value : Shown'[k] = v <=> Holds(capacity', buckets', k, v)
    BY <1>1 DEF ShownIs
  <2>2. \A v \in Value : Shown[k] = v <=> Shown'[k] = v
    BY <2>1 DEF Keeps
  <2> HIDE DEF Shown
  <2> QED
    BY <2>1, <2>2, Zenon
<1> QED
  BY <1>2, ShownDomain, Zenon

\* After an insert the map shows the new pair in place of any with its key.
LEMMA PutShown ==
  ASSUME HInv, HInv', open, open', NEW k \in Key, NEW v \in Value,
         Puts(capacity', buckets', k, v)
  PROVE  Shown' = [Shown EXCEPT ![k] = v]
<1>1. ShownIs /\ ShownIs'
  BY ShownFacts, ShownFactsNext
<1>2. ASSUME NEW l \in Key
      PROVE  Shown'[l] = IF l = k THEN v ELSE Shown[l]
  <2>1. /\ Shown[l] \in Value \cup {None} /\ Shown'[l] \in Value \cup {None}
        /\ \A w \in Value : Shown[l] = w <=> Holds(capacity, buckets, l, w)
        /\ \A w \in Value : Shown'[l] = w <=> Holds(capacity', buckets', l, w)
    BY <1>1 DEF ShownIs
  <2>2. \A w \in Value : Holds(capacity', buckets', l, w)
                 <=> IF l = k THEN w = v ELSE Holds(capacity, buckets, l, w)
    BY DEF Puts
  <2>3. CASE l = k
    BY <2>1, <2>2, <2>3
  <2>4. CASE l # k
    <3>1. \A w \in Value : Shown'[l] = w <=> Shown[l] = w
      BY <2>1, <2>2, <2>4
    <3> HIDE DEF Shown
    <3> QED
      BY <2>1, <2>4, <3>1, Zenon
  <2> QED
    BY <2>3, <2>4
<1>3. DOMAIN Shown = Key
  BY DEF Shown
<1> DEFINE put == [Shown EXCEPT ![k] = v]
<1>4. put = [l \in Key |-> put[l]] /\ \A l \in Key : put[l] = IF l = k THEN v ELSE Shown[l]
  <2>1. put = [l \in DOMAIN Shown |-> IF l = k THEN v ELSE Shown[l]]
    BY DEF Shown
  <2> QED
    BY <1>3, <2>1
<1> HIDE DEF put
<1>5. Shown' = put
  BY <1>2, <1>4, ShownDomain
<1> QED
  BY <1>5 DEF put

\* A map that holds nothing, or is not there, shows nothing.
LEMMA EmptyShown ==
  ASSUME HInv', ~open' \/ \A k \in Key, v \in Value : ~Holds(capacity', buckets', k, v)
  PROVE  Shown' = [k \in Key |-> None]
<1>1. ShownIs'
  BY ShownFactsNext
<1>2. ASSUME NEW k \in Key
      PROVE  Shown'[k] = None
  BY <1>1 DEF ShownIs
<1> QED
  BY <1>2, ShownDomain, Zenon

LEMMA InitShown == Init => Map!Init
  BY DEF Init, Map!Init, Map!Empty, Get

LEMMA StepShown == HInv /\ HInv' /\ [Next]_vars => [Map!Next]_Shown
<1> SUFFICES ASSUME HInv, HInv', [Next]_vars PROVE [Map!Next]_Shown
  OBVIOUS
<1>1. ASSUME NEW c \in InitialCaps, ~hung, Create(c)
      PROVE  Map!Discard
  <2>1. Shown' = [k \in Key |-> None]
    BY <1>1, CreateHolds, EmptyShown
  <2> QED
    BY <2>1 DEF Map!Discard, Map!Empty, Shown
<1>2. ASSUME NEW k \in Key, NEW v \in Value, ~hung, Insert(k, v)
      PROVE  Map!Put
  <2>1. open
    BY <1>2 DEF Insert
  <2>2. Shown' = [Shown EXCEPT ![k] = v]
    BY <1>2, <2>1, InsertHolds, PutShown
  <2> QED
    BY <2>2 DEF Map!Put, Shown
<1>3. ASSUME NEW k \in Key, ~hung, InsertFails(k)
      PROVE  Shown' = Shown
  <2>1. open
    BY <1>3 DEF InsertFails
  <2> QED
    BY <1>3, <2>1, InsertFailsHolds, KeptShown
<1>4. ASSUME UNCHANGED <<open, capacity, buckets>>
      PROVE  Shown' = Shown
  BY <1>4 DEF Shown, Get, Endless, Stops, Slot
<1>5. CASE ~hung /\ \E k \in Key : InsertHangs(k) \/ GetHangs(k)
  BY <1>4, <1>5 DEF InsertHangs, GetHangs
<1>6. CASE RehashFails \/ Spin \/ UNCHANGED vars
  BY <1>4, <1>6 DEF RehashFails, Spin, vars
<1>7. CASE ~hung /\ Destroy
  <2>1. Shown' = [k \in Key |-> None]
    BY <1>7, EmptyShown DEF Destroy
  <2> QED
    BY <2>1 DEF Map!Next, Map!Discard, Map!Empty, Shown
<1>8. CASE ~hung /\ \E c \in InitialCaps : Create(c)
  BY <1>1, <1>8 DEF Map!Next
<1>9. CASE ~hung /\ \E k \in Key, v \in Value : Insert(k, v)
  BY <1>2, <1>9 DEF Map!Next
<1>10. CASE ~hung /\ \E k \in Key : InsertFails(k)
  BY <1>3, <1>10
<1> QED
  BY <1>5, <1>6, <1>7, <1>8, <1>9, <1>10 DEF Next

\* What get returns is a map, in which a failed insert changes nothing.
THEOREM HashMapImplementsMap == Spec => ImplementsMap
<1>1. [Map!Next]_Shown <=> [Map!Next]_[k \in Key |-> Get(k)]
  BY DEF Shown
<1>2. HInv /\ HInv' /\ [Next]_vars => [Map!Next]_[k \in Key |-> Get(k)]
  BY <1>1, StepShown
<1> QED
  BY <1>2, InitShown, HashMapInvariant, PTL DEF Spec, ImplementsMap, Map!Spec

-----------------------------------------------------------------------------
(* The skip list: its lanes                                                *)

Nd == List!Nodes \cup {0}

\* The nodes of level i, the head among them.
Lane(i) == {n \in Nd : i \in DOMAIN forward[n]}

\* The nodes of level i that come after n.
After(n, i) == {m \in Lane(i) : n < m}

\* x is the first of the nodes in S, or the null pointer if there are none.
FirstOf(S, x) == IF S = {} THEN x = None ELSE x \in S /\ \A m \in S : x <= m

\* Every pointer leads to the next node of its level, and no level in use is above
\* the list's.
LInv ==
  /\ listOpen \in BOOLEAN
  /\ List!Nodes \subseteq ListKey /\ listValue \in [List!Nodes -> Value]
  /\ IF listOpen
     THEN /\ level \in 1 .. MaxLevel /\ DOMAIN forward = Nd
          /\ DOMAIN forward[0] = 0 .. MaxLevel - 1
          /\ \A n \in List!Nodes : \E t \in 1 .. level : DOMAIN forward[n] = 0 .. t - 1
          /\ \A i \in 0 .. MaxLevel - 1 : \A n \in Lane(i) :
               FirstOf(After(n, i), forward[n][i])
     ELSE level = 0 /\ forward = <<>> /\ listValue = <<>>

LEMMA ListConstants ==
  /\ ListKey \subseteq Nat \ {0} /\ IsFiniteSet(ListKey)
  /\ None \notin Value /\ None \notin ListKey /\ MaxLevel \in Nat \ {0}
<1>1. List!IsFiniteSet(ListKey) => IsFiniteSet(ListKey)
  BY Zenon DEF List!IsFiniteSet, IsFiniteSet
<1> QED
  BY <1>1, InstancesOK DEF List!ConstantsOK, List!Head

\* Counting in the list's module is counting.
LEMMA SameCardinality == ASSUME NEW S PROVE List!Cardinality(S) = Cardinality(S)
  BY Zenon DEF List!Cardinality, Cardinality

\* A lane's nodes.
LEMMA LaneFacts ==
  ASSUME LInv, listOpen
  PROVE  /\ Nd \subseteq ListKey \cup {0} /\ Nd \subseteq Nat /\ 0 \in Nd
         /\ \A i \in 0 .. MaxLevel - 1 : 0 \in Lane(i)
         /\ \A i : Lane(i) \subseteq Nd
         /\ \A i \in Nat : i >= level => Lane(i) \subseteq {0}
         /\ \A i \in Nat : Lane(i + 1) \subseteq Lane(i)
         /\ level \in Nat /\ level <= MaxLevel /\ level >= 1
<1>1. /\ List!Nodes \subseteq ListKey /\ level \in 1 .. MaxLevel
      /\ DOMAIN forward[0] = 0 .. MaxLevel - 1
      /\ \A n \in List!Nodes : \E t \in 1 .. level : DOMAIN forward[n] = 0 .. t - 1
  BY DEF LInv
<1>2. Nd \subseteq ListKey \cup {0} /\ Nd \subseteq Nat /\ 0 \in Nd
  BY <1>1, ListConstants DEF Nd
<1>3. level \in Nat /\ level <= MaxLevel /\ level >= 1
  BY <1>1, ListConstants
<1>4. \A i \in 0 .. MaxLevel - 1 : 0 \in Lane(i)
  BY <1>1, <1>2 DEF Lane
<1>5. ASSUME NEW i \in Nat, i >= level, NEW n \in Lane(i)
      PROVE  n = 0
  <2>1. n \in Nd /\ i \in DOMAIN forward[n]
    BY DEF Lane
  <2>2. SUFFICES ASSUME n \in List!Nodes PROVE FALSE
    BY <2>1 DEF Nd
  <2>3. PICK t \in 1 .. level : DOMAIN forward[n] = 0 .. t - 1
    BY <1>1, <2>2
  <2> QED
    BY <1>3, <1>5, <2>1, <2>3
<1>6. ASSUME NEW i \in Nat, NEW n \in Lane(i + 1)
      PROVE  n \in Lane(i)
  <2>1. n \in Nd /\ i + 1 \in DOMAIN forward[n]
    BY DEF Lane
  <2>2. PICK t \in Nat : DOMAIN forward[n] = 0 .. t - 1
    <3>1. CASE n = 0
      BY <1>1, <3>1, ListConstants
    <3>2. CASE n \in List!Nodes
      BY <1>1, <1>3, <3>2
    <3> QED
      BY <2>1, <3>1, <3>2 DEF Nd
  <2> QED
    BY <2>1, <2>2 DEF Lane
<1> QED
  BY <1>2, <1>3, <1>4, <1>5, <1>6 DEF Lane

\* n is the last node of level i before k.
IsPred(n, k, i) == n \in Lane(i) /\ n < k /\ \A m \in Lane(i) : m < k => m <= n

\* Where a step of a search for k goes: not beyond k, and on unless it cannot.
LEMMA OnwardFacts ==
  ASSUME LInv, listOpen, NEW i \in 0 .. MaxLevel - 1, NEW k \in ListKey,
         NEW n \in Lane(i), n < k
  PROVE  LET x == List!Onward(i, k)[n]
         IN  /\ x \in Lane(i) /\ x < k /\ n <= x
             /\ x = n => IsPred(n, k, i)
<1> DEFINE f == forward[n][i]
           x == List!Onward(i, k)[n]
<1>1. n \in DOMAIN forward /\ i \in DOMAIN forward[n]
  BY DEF Lane, LInv
<1>2. x = IF f # None /\ f < k THEN f ELSE n
  BY <1>1 DEF List!Onward, List!Before
<1>3. FirstOf(After(n, i), f)
  BY DEF LInv
<1>4. k \in Nat /\ n \in Nat /\ Lane(i) \subseteq Nat
  BY ListConstants, LaneFacts
<1> HIDE DEF x, f
<1>5. CASE After(n, i) = {}
  <2>1. x = n
    BY <1>2, <1>3, <1>5 DEF FirstOf
  <2>2. \A m \in Lane(i) : m <= n
    BY <1>4, <1>5 DEF After
  <2> QED
    BY <1>4, <2>1, <2>2 DEF IsPred, x
<1>6. CASE After(n, i) # {}
  <2>1. f \in Lane(i) /\ n < f /\ \A m \in Lane(i) : n < m => f <= m
    BY <1>3, <1>6 DEF FirstOf, After
  <2>2. f # None
    <3>1. f # 0 /\ f \in Nd
      BY <1>4, <2>1 DEF Lane
    <3> QED
      BY <3>1, LaneFacts, ListConstants
  <2>3. CASE f < k
    BY <1>2, <1>4, <2>1, <2>2, <2>3 DEF x
  <2>4. CASE ~(f < k)
    <3>1. x = n
      BY <1>2, <2>4
    <3>2. \A m \in Lane(i) : m < k => m <= n
      BY <1>4, <2>1, <2>4
    <3> QED
      BY <1>4, <3>1, <3>2 DEF IsPred, x
  <2> QED
    BY <2>3, <2>4
<1> QED
  BY <1>5, <1>6

-----------------------------------------------------------------------------
(* Searching the skip list                                                 *)

Steps == Cardinality(ListKey)

\* The nodes a search for k comes to on level i, from node n.
Path(n, i, k) ==
  CHOOSE at : at = [step \in 0 .. Steps |->
    IF step = 0 THEN n ELSE List!Onward(i, k)[at[step - 1]]]

LEMMA WalkIsPath ==
  ASSUME NEW n, NEW i, NEW k
  PROVE  List!Walk(n, i, k) = Path(n, i, k)[Steps]
<1>1. List!Cardinality(ListKey) = Cardinality(ListKey)
  BY SameCardinality
<1> QED
  BY <1>1, Zenon DEF List!Walk, Path, Steps

\* The nodes of level i before k.
Ahead(i, k) == {m \in Lane(i) : m < k}

LEMMA PathSteps ==
  ASSUME LInv, listOpen, NEW i \in 0 .. MaxLevel - 1, NEW k \in ListKey,
         NEW n \in Ahead(i, k), Steps \in Nat
  PROVE  /\ Path(n, i, k)[0] = n
         /\ \A s \in 1 .. Steps :
              Path(n, i, k)[s] = List!Onward(i, k)[Path(n, i, k)[s - 1]]
<1> DEFINE T == Ahead(i, k)
           F == List!Onward(i, k)
           step == [p \in (1 .. Steps) \X T |-> F[p[2]]]
<1>1. \A m \in T : F[m] \in T
  BY OnwardFacts DEF Ahead
<1> HIDE DEF T, F
<1>2. step \in [(1 .. Steps) \X T -> T]
  BY <1>1
<1>3. \A s \in 1 .. Steps, m \in T : step[<<s, m>>] = F[m]
  OBVIOUS
<1> HIDE DEF step
<1>4. PICK g \in [0 .. Steps -> T] : Follows(g, Steps, n, step)
  BY <1>2, RecursionExists DEF T
<1>5. ASSUME NEW s \in 1 .. Steps
      PROVE  g[s] = F[g[s - 1]]
  <2>1. s - 1 \in 0 .. Steps
    OBVIOUS
  <2> QED
    BY <1>3, <1>4, <2>1 DEF Follows
<1>6. g = [s \in 0 .. Steps |-> IF s = 0 THEN n ELSE F[g[s - 1]]]
  <2>1. g = [s \in 0 .. Steps |-> g[s]]
    OBVIOUS
  <2>2. \A s \in 0 .. Steps : g[s] = IF s = 0 THEN n ELSE F[g[s - 1]]
    BY <1>4, <1>5 DEF Follows
  <2> QED
    BY <2>1, <2>2
<1> DEFINE at == Path(n, i, k)
<1>7. at = [s \in 0 .. Steps |-> IF s = 0 THEN n ELSE F[at[s - 1]]]
  <2>1. \E h : h = [s \in 0 .. Steps |-> IF s = 0 THEN n ELSE F[h[s - 1]]]
    BY <1>6
  <2> QED
    BY <2>1, Zenon DEF Path, F
<1> HIDE DEF at
<1>8. at[0] = n /\ \A s \in 1 .. Steps : at[s] = F[at[s - 1]]
  BY <1>7
<1> QED
  BY <1>8 DEF at, F

\* The keys between node m and k.
Between(m, k) == {x \in ListKey : m < x /\ x < k}

\* A step of a search that does not end there leaves fewer keys to pass.
LEMMA Nearer ==
  ASSUME LInv, listOpen, NEW i \in 0 .. MaxLevel - 1, NEW k \in ListKey,
         NEW n \in Ahead(i, k), NEW x \in Ahead(i, k), n < x
  PROVE  /\ Count(Between(n, k)) \in Nat /\ Count(Between(x, k)) \in Nat
         /\ Count(Between(x, k)) + 1 <= Count(Between(n, k))
<1>1. n \in Nat /\ x \in Nat /\ x \in ListKey /\ x < k /\ k \in Nat
  BY LaneFacts, ListConstants DEF Ahead
<1>2. Between(x, k) \subseteq Between(n, k) /\ Between(n, k) \subseteq ListKey
  <2>1. ASSUME NEW m \in ListKey, x < m
        PROVE  n < m
    <3>1. m \in Nat
      BY ListConstants
    <3> QED
      BY <1>1, <2>1, <3>1
  <2> QED
    BY <2>1 DEF Between
<1>3. x \in Between(n, k) /\ x \notin Between(x, k)
  BY <1>1 DEF Between
<1>4. IsFiniteSet(Between(n, k))
  BY <1>2, ListConstants, CountPart
<1>5. /\ Count(Between(n, k)) \in Nat /\ Count(Between(x, k)) \in Nat
      /\ Count(Between(x, k)) <= Count(Between(n, k))
      /\ Count(Between(x, k)) # Count(Between(n, k))
  BY <1>2, <1>3, <1>4, CountPart
<1> QED
  BY <1>5

\* A level is left from its last node before the key that is searched for, if it is
\* entered before that.
LEMMA WalkIs ==
  ASSUME LInv, listOpen, NEW i \in 0 .. MaxLevel - 1, NEW k \in ListKey,
         NEW n \in Ahead(i, k)
  PROVE  IsPred(List!Walk(n, i, k), k, i)
<1> DEFINE at == Path(n, i, k)
<1>1. Steps \in Nat /\ IsFiniteSet(ListKey) /\ ListKey \subseteq Nat \ {0} /\ Count(ListKey) = Steps
  BY ListConstants, FS_CardinalityType DEF Steps, Count
<1>2. at[0] = n /\ \A s \in 1 .. Steps : at[s] = List!Onward(i, k)[at[s - 1]]
  BY <1>1, PathSteps
<1> HIDE DEF at
<1> DEFINE Ok(s) == /\ at[s] \in Ahead(i, k)
                    /\ IsPred(at[s], k, i) \/ Count(Between(at[s], k)) + s <= Steps
           Bad == {s \in 0 .. Steps : ~Ok(s)}
<1>3. Bad = {}
  <2>1. SUFFICES ASSUME Bad # {} PROVE FALSE
    OBVIOUS
  <2>2. PICK s \in Bad : \A y \in Bad : s <= y
    <3>1. Bad \subseteq Nat
      BY <1>1
    <3> HIDE DEF Bad
    <3> QED
      BY <2>1, <3>1, LeastOf
  <2>3. s \in 0 .. Steps /\ ~Ok(s)
    BY <2>2
  <2>4. s # 0
    <3>1. Count(Between(n, k)) \in Nat /\ Count(Between(n, k)) <= Steps
      <4>1. Between(n, k) \subseteq ListKey
        BY DEF Between
      <4> QED
        BY <1>1, <4>1, CountPart
    <3>2. Ok(0)
      BY <1>1, <1>2, <3>1
    <3> QED
      BY <2>3, <3>2
  <2>5. s - 1 \in 0 .. Steps /\ s \in 1 .. Steps /\ ~(s <= s - 1)
    BY <1>1, <2>3, <2>4
  <2>6. Ok(s - 1)
    BY <2>2, <2>5
  <2> DEFINE m == at[s - 1]
             x == List!Onward(i, k)[m]
  <2>7. at[s] = x
    BY <1>2, <2>5
  <2>8. m \in Ahead(i, k) /\ (IsPred(m, k, i) \/ Count(Between(m, k)) + (s - 1) <= Steps)
    BY <2>6
  <2> HIDE DEF m
  <2>9. x \in Lane(i) /\ x < k /\ m <= x /\ (x = m => IsPred(m, k, i))
    BY <2>8, OnwardFacts DEF Ahead
  <2> HIDE DEF x
  <2>10. m \in Nat /\ x \in Nat /\ x \in Ahead(i, k)
    BY <2>8, <2>9, LaneFacts DEF Ahead
  <2>11. CASE x = m
    BY <2>3, <2>7, <2>9, <2>10, <2>11
  <2>12. CASE x # m
    <3>1. m < x
      BY <2>9, <2>10, <2>12
    <3>2. ~IsPred(m, k, i)
      BY <2>9, <2>10, <3>1 DEF IsPred
    <3>3. /\ Count(Between(m, k)) \in Nat /\ Count(Between(x, k)) \in Nat
          /\ Count(Between(x, k)) + 1 <= Count(Between(m, k))
      BY <2>8, <2>10, <3>1, Nearer
    <3>4. Count(Between(x, k)) + s <= Steps
      BY <1>1, <2>5, <2>8, <3>2, <3>3
    <3> QED
      BY <2>3, <2>7, <2>10, <3>4
  <2> QED
    BY <2>11, <2>12
<1>4. Ok(Steps)
  BY <1>1, <1>3
<1>5. IsPred(at[Steps], k, i)
  <2> DEFINE x == at[Steps]
  <2>1. SUFFICES ASSUME Count(Between(x, k)) + Steps <= Steps PROVE IsPred(x, k, i)
    BY <1>4
  <2>2. x \in Ahead(i, k)
    BY <1>4
  <2> HIDE DEF x
  <2>3. Between(x, k) = {}
    <3>1. Between(x, k) \subseteq ListKey
      BY DEF Between
    <3>2. IsFiniteSet(Between(x, k)) /\ Count(Between(x, k)) \in Nat
      BY <1>1, <3>1, CountPart
    <3>3. Count(Between(x, k)) = 0
      BY <1>1, <2>1, <3>2
    <3> QED
      BY <3>2, <3>3, FS_EmptySet DEF Count
  <2>4. ASSUME NEW m \in Lane(i), m < k
        PROVE  m <= x
    <3>1. m \in Nat /\ x \in Nat /\ (m = 0 \/ m \in ListKey)
      BY <2>2, LaneFacts DEF Ahead
    <3> QED
      BY <2>3, <2>4, <3>1 DEF Between
  <2> QED
    BY <2>2, <2>4 DEF IsPred, Ahead
<1> QED
  BY <1>5, WalkIsPath DEF at

LEMMA PredUnique ==
  ASSUME LInv, listOpen, NEW i, NEW k, NEW n, NEW m, IsPred(n, k, i), IsPred(m, k, i)
  PROVE  n = m
<1>1. n \in Nat /\ m \in Nat /\ n <= m /\ m <= n
  BY LaneFacts DEF IsPred
<1> QED
  BY <1>1

\* What update comes to, level after level from the top.
Pred(i, k) == IF i >= level THEN 0 ELSE CHOOSE n : IsPred(n, k, i)

LEMMA PredIs ==
  ASSUME LInv, listOpen, NEW k \in ListKey
  PROVE  /\ \A i \in 0 .. MaxLevel - 1 : IsPred(Pred(i, k), k, i)
         /\ \A i \in 0 .. level - 1 : Pred(i, k) = List!Walk(Pred(i + 1, k), i, k)
         /\ Pred(MaxLevel, k) = 0
<1>1. /\ k \in Nat /\ k > 0 /\ level \in Nat /\ level <= MaxLevel /\ MaxLevel \in Nat
      /\ \A i \in 0 .. MaxLevel - 1 : 0 \in Lane(i)
  BY ListConstants, LaneFacts
<1>2. ASSUME NEW i \in 0 .. MaxLevel - 1
      PROVE  IsPred(Pred(i, k), k, i)
  <2>1. CASE i >= level
    <3>1. Lane(i) \subseteq {0} /\ Pred(i, k) = 0
      BY <2>1, LaneFacts DEF Pred
    <3> QED
      BY <1>1, <3>1 DEF IsPred
  <2>2. CASE ~(i >= level)
    <3>1. 0 \in Ahead(i, k)
      BY <1>1 DEF Ahead
    <3>2. \E n : IsPred(n, k, i)
      BY <3>1, WalkIs
    <3> QED
      BY <2>2, <3>2, Zenon DEF Pred
  <2> QED
    BY <2>1, <2>2
<1>3. ASSUME NEW i \in 0 .. level - 1
      PROVE  Pred(i, k) = List!Walk(Pred(i + 1, k), i, k)
  <2>1. i \in 0 .. MaxLevel - 1 /\ i \in Nat
    BY <1>1
  <2>2. Pred(i + 1, k) \in Ahead(i, k)
    <3>1. CASE i + 1 >= level
      BY <1>1, <2>1, <3>1 DEF Pred, Ahead
    <3>2. CASE ~(i + 1 >= level)
      <4>1. i + 1 \in 0 .. MaxLevel - 1
        BY <1>1, <3>2
      <4>2. Pred(i + 1, k) \in Lane(i + 1) /\ Pred(i + 1, k) < k
        BY <1>2, <4>1 DEF IsPred
      <4> QED
        BY <2>1, <4>2, LaneFacts DEF Ahead
    <3> QED
      BY <3>1, <3>2
  <2>3. IsPred(List!Walk(Pred(i + 1, k), i, k), k, i)
    BY <2>1, <2>2, WalkIs
  <2>4. IsPred(Pred(i, k), k, i)
    BY <1>2, <2>1
  <2> QED
    BY <2>3, <2>4, PredUnique
<1>4. Pred(MaxLevel, k) = 0
  BY <1>1 DEF Pred
<1> QED
  BY <1>2, <1>3, <1>4

\* update[i] is the last node of level i before the key.
LEMMA UpdateIs ==
  ASSUME LInv, listOpen, NEW k \in ListKey
  PROVE  \A i \in 0 .. MaxLevel - 1 : IsPred(List!Update(k)[i], k, i)
<1> DEFINE W(n, i) == List!Walk(n, i, k)
           U == List!Update(k)
           u == [i \in 0 .. MaxLevel |-> Pred(i, k)]
<1>1. /\ \A i \in 0 .. MaxLevel - 1 : IsPred(Pred(i, k), k, i)
      /\ \A i \in 0 .. level - 1 : Pred(i, k) = W(Pred(i + 1, k), i)
      /\ level \in Nat /\ level <= MaxLevel /\ MaxLevel \in Nat
  BY PredIs, LaneFacts, ListConstants
<1>2. U = CHOOSE g : g = [i \in 0 .. MaxLevel |-> IF i >= level THEN 0 ELSE W(g[i + 1], i)]
  BY Zenon DEF List!Update, List!Head
<1> HIDE DEF U, W
<1>3. u = [i \in 0 .. MaxLevel |-> IF i >= level THEN 0 ELSE W(u[i + 1], i)]
  <2>1. ASSUME NEW i \in 0 .. MaxLevel
        PROVE  u[i] = IF i >= level THEN 0 ELSE W(u[i + 1], i)
    <3>1. CASE i >= level
      BY <3>1 DEF Pred
    <3>2. CASE ~(i >= level)
      <4>1. i + 1 \in 0 .. MaxLevel /\ i \in 0 .. level - 1
        BY <1>1, <3>2
      <4>2. u[i] = Pred(i, k) /\ u[i + 1] = Pred(i + 1, k)
        BY <4>1
      <4> QED
        BY <1>1, <3>2, <4>1, <4>2
    <3> QED
      BY <3>1, <3>2
  <2>2. u = [i \in 0 .. MaxLevel |-> u[i]]
    OBVIOUS
  <2> HIDE DEF u
  <2> QED
    BY <2>1, <2>2
<1>4. \A i \in 0 .. MaxLevel : u[i] = Pred(i, k)
  OBVIOUS
<1> HIDE DEF u
<1>5. U = [i \in 0 .. MaxLevel |-> IF i >= level THEN 0 ELSE W(U[i + 1], i)]
  <2>1. \E g : g = [i \in 0 .. MaxLevel |-> IF i >= level THEN 0 ELSE W(g[i + 1], i)]
    BY <1>3
  <2> QED
    BY <1>2, <2>1, Zenon
<1>6. \A i \in 0 .. MaxLevel : U[i] = IF i >= level THEN 0 ELSE W(U[i + 1], i)
  BY <1>5
<1>7. \A i \in 0 .. MaxLevel : u[i] = IF i >= level THEN 0 ELSE W(u[i + 1], i)
  BY <1>3
<1> DEFINE Bad == {j \in 0 .. MaxLevel : U[MaxLevel - j] # u[MaxLevel - j]}
<1>8. Bad = {}
  <2>1. SUFFICES ASSUME Bad # {} PROVE FALSE
    OBVIOUS
  <2>2. PICK j \in Bad : \A y \in Bad : j <= y
    <3>1. Bad \subseteq Nat
      BY <1>1
    <3> HIDE DEF Bad
    <3> QED
      BY <2>1, <3>1, LeastOf
  <2> DEFINE i == MaxLevel - j
  <2>3. i \in 0 .. MaxLevel /\ U[i] # u[i] /\ j \in 0 .. MaxLevel
    BY <1>1, <2>2
  <2>4. ~(i >= level)
    BY <1>6, <1>7, <2>3
  <2>5. j - 1 \in 0 .. MaxLevel /\ ~(j <= j - 1) /\ MaxLevel - (j - 1) = i + 1
    BY <1>1, <2>3, <2>4
  <2>6. U[i + 1] = u[i + 1]
    BY <2>2, <2>5
  <2> QED
    BY <1>6, <1>7, <2>3, <2>6
<1>9. ASSUME NEW i \in 0 .. MaxLevel - 1
      PROVE  IsPred(U[i], k, i)
  <2>1. MaxLevel - i \in 0 .. MaxLevel /\ MaxLevel - (MaxLevel - i) = i /\ i \in 0 .. MaxLevel
    BY <1>1
  <2>2. U[i] = u[i]
    BY <1>8, <2>1
  <2> QED
    BY <1>1, <1>4, <2>1, <2>2
<1> QED
  BY <1>9 DEF U

\* What the last node before a key leads to.
LEMMA PredLeads ==
  ASSUME LInv, listOpen, NEW k \in ListKey, NEW i \in 0 .. MaxLevel - 1, NEW n,
         IsPred(n, k, i)
  PROVE  /\ n \in Nat /\ n < k /\ n \in Lane(i)
         /\ forward[n][i] = k <=> k \in Lane(i)
         /\ k \notin Lane(i) => FirstOf(After(k, i), forward[n][i])
<1>1. n \in Lane(i) /\ n < k /\ n \in Nat /\ k \in Nat /\ Lane(i) \subseteq Nat
  BY ListConstants, LaneFacts DEF IsPred
<1>2. FirstOf(After(n, i), forward[n][i])
  BY <1>1 DEF LInv
<1>3. \A m \in Lane(i) : n < m <=> m = k \/ k < m
  BY <1>1 DEF IsPred
<1>4. CASE k \in Lane(i)
  BY <1>1, <1>2, <1>3, <1>4 DEF FirstOf, After
<1>5. CASE k \notin Lane(i)
  <2>1. After(n, i) = After(k, i)
    BY <1>3, <1>5 DEF After
  <2>2. forward[n][i] # k
    BY <1>2, <1>5, ListConstants DEF FirstOf, After
  <2> QED
    BY <1>1, <1>2, <1>5, <2>1, <2>2
<1> QED
  BY <1>4, <1>5

\* A search finds the keys that are there.
LEMMA FoundIs ==
  ASSUME LInv, listOpen, NEW k \in ListKey
  PROVE  List!Found(k) <=> k \in List!Nodes
<1>1. 0 \in 0 .. MaxLevel - 1
  BY ListConstants
<1>2. List!Found(k) <=> k \in Lane(0)
  BY <1>1, UpdateIs, PredLeads DEF List!Found
<1>3. k # 0 /\ k \in Nat
  BY ListConstants
<1>4. k \in List!Nodes => k \in Lane(0)
  <2>1. SUFFICES ASSUME k \in List!Nodes PROVE k \in Lane(0)
    OBVIOUS
  <2>2. PICK t \in 1 .. level : DOMAIN forward[k] = 0 .. t - 1
    BY <2>1 DEF LInv
  <2> QED
    BY <2>1, <2>2, LaneFacts DEF Lane, Nd
<1> QED
  BY <1>2, <1>3, <1>4 DEF Lane, Nd

-----------------------------------------------------------------------------
(* The operations of the skip list                                         *)

\* What makes the lanes of the next state right.
NextLanes ==
  /\ DOMAIN forward' = Nd' /\ DOMAIN forward'[0] = 0 .. MaxLevel - 1
  /\ \A n \in List!Nodes' : \E t \in 1 .. level' : DOMAIN forward'[n] = 0 .. t - 1
  /\ \A i \in 0 .. MaxLevel - 1 : \A n \in Lane(i)' : FirstOf(After(n, i)', forward'[n][i])

LEMMA NextLInv ==
  ASSUME listOpen' = TRUE, List!Nodes' \subseteq ListKey, listValue' \in [List!Nodes' -> Value],
         level' \in 1 .. MaxLevel, NextLanes
  PROVE  LInv'
  BY DEF LInv, NextLanes

\* The lanes once node k has come in with lvl levels.
LEMMA InsertLanes ==
  ASSUME LInv, listOpen, NEW k \in ListKey, NEW lvl \in 1 .. MaxLevel, k \notin List!Nodes,
         List!Nodes' = List!Nodes \cup {k}, forward' = List!Linked(k, lvl),
         level' \in Nat, level <= level', lvl <= level'
  PROVE  NextLanes
<1> DEFINE U == List!Update(k)
<1>1. \A i \in 0 .. MaxLevel - 1 : IsPred(U[i], k, i)
  BY UpdateIs
<1>2. /\ forward' = [n \in DOMAIN forward \cup {k} |->
           IF n = k THEN [i \in 0 .. lvl - 1 |-> forward[U[i]][i]]
           ELSE [i \in DOMAIN forward[n] |-> IF i < lvl /\ U[i] = n THEN k ELSE forward[n][i]]]
  BY Zenon DEF List!Linked
<1> HIDE DEF U
<1>3. /\ k \in Nat /\ k # 0 /\ k \notin Nd /\ MaxLevel \in Nat /\ lvl \in Nat /\ lvl <= MaxLevel
      /\ DOMAIN forward = Nd /\ Nd' = Nd \cup {k} /\ 0 \in Nd
      /\ DOMAIN forward[0] = 0 .. MaxLevel - 1
      /\ \A n \in List!Nodes : \E t \in 1 .. level : DOMAIN forward[n] = 0 .. t - 1
      /\ \A i \in 0 .. MaxLevel - 1 : \A n \in Lane(i) : FirstOf(After(n, i), forward[n][i])
  BY ListConstants, LaneFacts DEF LInv, Nd
<1>4. /\ DOMAIN forward' = Nd'
      /\ DOMAIN forward'[k] = 0 .. lvl - 1
      /\ \A i \in 0 .. lvl - 1 : forward'[k][i] = forward[U[i]][i]
      /\ \A n \in Nd : /\ DOMAIN forward'[n] = DOMAIN forward[n]
                       /\ \A i \in DOMAIN forward[n] :
                            forward'[n][i] = IF i < lvl /\ U[i] = n THEN k ELSE forward[n][i]
  BY <1>2, <1>3
<1>5. \A i : Lane(i)' = IF i \in 0 .. lvl - 1 THEN Lane(i) \cup {k} ELSE Lane(i)
  BY <1>3, <1>4 DEF Lane
<1>6. ASSUME NEW i \in 0 .. MaxLevel - 1, NEW n \in Lane(i)'
      PROVE  FirstOf(After(n, i)', forward'[n][i])
  <2> DEFINE p == U[i]
             new == forward'[n][i]
             A == After(n, i)
             A2 == After(n, i)'
  <2>1. IsPred(p, k, i) /\ k \notin Lane(i)
    BY <1>1, <1>3 DEF Lane
  <2>2. /\ p \in Nat /\ p < k /\ p \in Lane(i) /\ FirstOf(After(k, i), forward[p][i])
        /\ \A m \in Lane(i) : m < k => m <= p
    BY <2>1, PredLeads DEF IsPred
  <2>3. /\ A2 = {m \in Lane(i)' : n < m} /\ A = {m \in Lane(i) : n < m}
    BY DEF After
  <2>4. Lane(i) \subseteq Nat /\ i \in Nat
    BY LaneFacts
  <2>5. n \in Lane(i) \/ (n = k /\ i \in 0 .. lvl - 1)
    BY <1>5
  <2>6. n \in Lane(i) => FirstOf(A, forward[n][i]) /\ n \in Nd /\ i \in DOMAIN forward[n]
    BY <1>3 DEF Lane
  <2>7. CASE n = k
    <3>1. i \in 0 .. lvl - 1 /\ new = forward[p][i]
      BY <1>4, <2>1, <2>5, <2>7
    <3>2. A2 = After(k, i)
      BY <1>3, <1>5, <2>3, <2>7, <3>1 DEF After
    <3> QED
      BY <2>2, <3>1, <3>2
  <2>8. CASE n # k /\ i >= lvl
    <3>1. A2 = A /\ n \in Lane(i)
      BY <1>3, <1>5, <2>3, <2>5, <2>8
    <3>2. new = forward[n][i]
      BY <1>3, <1>4, <2>4, <2>6, <2>8, <3>1
    <3> QED
      BY <2>6, <3>1, <3>2
  <2>9. CASE n # k /\ i < lvl
    <3>1. n \in Lane(i) /\ n \in Nat /\ Lane(i)' = Lane(i) \cup {k}
      BY <1>3, <1>5, <2>4, <2>5, <2>9
    <3>2. new = IF p = n THEN k ELSE forward[n][i]
      BY <1>4, <2>6, <2>9, <3>1
    <3> HIDE DEF new, p
    <3>3. CASE n = p
      <4>1. k \in A2 /\ \A m \in A2 : k <= m
        BY <1>3, <2>2, <2>3, <2>4, <3>1, <3>3
      <4> QED
        BY <3>2, <3>3, <4>1 DEF FirstOf, new
    <3>4. CASE k < n
      <4>1. A2 = A
        BY <1>3, <2>3, <3>1, <3>4
      <4>2. new = forward[n][i]
        BY <1>3, <2>2, <3>1, <3>2, <3>4
      <4> QED
        BY <2>6, <3>1, <4>1, <4>2 DEF new
    <3>5. CASE n # p /\ ~(k < n)
      <4>1. n < k /\ n < p /\ p \in A
        BY <1>3, <2>2, <2>3, <2>9, <3>1, <3>5
      <4>2. A2 = A \cup {k}
        BY <2>3, <3>1, <4>1
      <4>3. new \in A /\ \A m \in A : new <= m
        BY <2>6, <3>1, <3>2, <3>5, <4>1 DEF FirstOf
      <4>4. new <= k
        BY <1>3, <2>2, <2>3, <2>4, <4>1, <4>3
      <4> QED
        BY <4>2, <4>3, <4>4 DEF FirstOf, new
    <3> QED
      BY <3>3, <3>4, <3>5
  <2> QED
    BY <1>3, <2>4, <2>7, <2>8, <2>9
<1>7. \A n \in List!Nodes' : \E t \in 1 .. level' : DOMAIN forward'[n] = 0 .. t - 1
  <2>1. ASSUME NEW n \in List!Nodes
        PROVE  \E t \in 1 .. level' : DOMAIN forward'[n] = 0 .. t - 1
    <3>1. PICK t \in 1 .. level : DOMAIN forward[n] = 0 .. t - 1
      BY <1>3
    <3>2. t \in 1 .. level' /\ n \in Nd
      BY LaneFacts DEF Nd
    <3> QED
      BY <1>4, <3>1, <3>2
  <2>2. \E t \in 1 .. level' : DOMAIN forward'[k] = 0 .. t - 1
    BY <1>4
  <2> QED
    BY <2>1, <2>2
<1>8. DOMAIN forward'[0] = 0 .. MaxLevel - 1
  BY <1>3, <1>4
<1> QED
  BY <1>4, <1>6, <1>7, <1>8 DEF NextLanes

\* cu_SkipList_remove takes the node out of every level of its tower.
LEMMA UnlinkedLevelsAre ==
  ASSUME LInv, listOpen, NEW k \in List!Nodes
  PROVE  List!UnlinkedLevels(k) = DOMAIN forward[k]
<1>1. k \in ListKey /\ k \in Nd /\ level \in Nat /\ level <= MaxLevel /\ MaxLevel \in Nat
  BY LaneFacts, ListConstants DEF LInv, Nd
<1>2. PICK t \in 1 .. level : DOMAIN forward[k] = 0 .. t - 1
  BY DEF LInv
<1>3. \A j \in 0 .. MaxLevel - 1 : forward[List!Update(k)[j]][j] = k <=> j \in 0 .. t - 1
  <2>1. \A j \in 0 .. MaxLevel - 1 : k \in Lane(j) <=> j \in 0 .. t - 1
    BY <1>1, <1>2 DEF Lane
  <2> QED
    BY <1>1, <2>1, UpdateIs, PredLeads
<1> DEFINE out(j) == forward[List!Update(k)[j]][j] = k
<1>4. List!UnlinkedLevels(k) = {i \in 0 .. level - 1 : \A j \in 0 .. i : out(j)}
  BY DEF List!UnlinkedLevels
<1>5. \A j \in 0 .. MaxLevel - 1 : out(j) <=> j \in 0 .. t - 1
  BY <1>3
<1> HIDE DEF out
<1>6. ASSUME NEW i \in 0 .. level - 1
      PROVE  (\A j \in 0 .. i : out(j)) <=> i \in 0 .. t - 1
  <2>1. i \in 0 .. i /\ i \in 0 .. MaxLevel - 1
    BY <1>1
  <2>2. \A j \in 0 .. i : j \in 0 .. MaxLevel - 1 /\ (i \in 0 .. t - 1 => j \in 0 .. t - 1)
    BY <1>1
  <2> QED
    BY <1>5, <2>1, <2>2
<1>7. 0 .. t - 1 \subseteq 0 .. level - 1
  BY <1>1
<1> QED
  BY <1>2, <1>4, <1>6, <1>7

\* The lanes once node k is taken out.
LEMMA RemoveLanes ==
  ASSUME LInv, listOpen, NEW k \in List!Nodes,
         List!Nodes' = List!Nodes \ {k}, forward' = List!Unlinked(k)
  PROVE  /\ DOMAIN forward' = Nd' /\ DOMAIN forward'[0] = 0 .. MaxLevel - 1
         /\ \A n \in List!Nodes' : n \in List!Nodes /\ DOMAIN forward'[n] = DOMAIN forward[n]
         /\ \A i \in 0 .. MaxLevel - 1 : \A n \in Lane(i)' :
              FirstOf(After(n, i)', forward'[n][i])
<1> DEFINE U == List!Update(k)
<1>1. k \in ListKey
  BY DEF LInv
<1>2. \A i \in 0 .. MaxLevel - 1 : IsPred(U[i], k, i)
  BY <1>1, UpdateIs
<1>3. forward' = [n \in DOMAIN forward \ {k} |->
        [i \in DOMAIN forward[n] |->
           IF i \in DOMAIN forward[k] /\ U[i] = n THEN forward[k][i] ELSE forward[n][i]]]
  <2>1. forward' = [n \in DOMAIN forward \ {k} |->
          [i \in DOMAIN forward[n] |->
             IF i \in List!UnlinkedLevels(k) /\ U[i] = n THEN forward[k][i] ELSE forward[n][i]]]
    BY Zenon DEF List!Unlinked
  <2> HIDE DEF U
  <2> QED
    BY <2>1, UnlinkedLevelsAre
<1> HIDE DEF U
<1>4. /\ k \in Nat /\ k # 0 /\ k \in Nd /\ MaxLevel \in Nat
      /\ DOMAIN forward = Nd /\ Nd' = Nd \ {k} /\ 0 \in Nd
      /\ DOMAIN forward[0] = 0 .. MaxLevel - 1
      /\ \A i \in 0 .. MaxLevel - 1 : \A n \in Lane(i) : FirstOf(After(n, i), forward[n][i])
  BY <1>1, ListConstants, LaneFacts DEF LInv, Nd
<1>5. /\ DOMAIN forward' = Nd'
      /\ \A n \in Nd' : /\ n \in Nd /\ n # k /\ DOMAIN forward'[n] = DOMAIN forward[n]
                        /\ \A i \in DOMAIN forward[n] :
                             forward'[n][i] = IF i \in DOMAIN forward[k] /\ U[i] = n
                                              THEN forward[k][i] ELSE forward[n][i]
  BY <1>3, <1>4
<1>6. \A i : Lane(i)' = Lane(i) \ {k}
  BY <1>4, <1>5 DEF Lane
<1>7. ASSUME NEW i \in 0 .. MaxLevel - 1, NEW n \in Lane(i)'
      PROVE  FirstOf(After(n, i)', forward'[n][i])
  <2> DEFINE p == U[i]
             new == forward'[n][i]
             A == After(n, i)
             A2 == After(n, i)'
  <2>1. /\ IsPred(p, k, i) /\ p \in Nat /\ p < k /\ p \in Lane(i)
        /\ \A m \in Lane(i) : m < k => m <= p
    BY <1>1, <1>2, PredLeads DEF IsPred
  <2>2. A2 = {m \in Lane(i)' : n < m} /\ A = {m \in Lane(i) : n < m}
    BY DEF After
  <2>3. /\ n \in Lane(i) /\ n # k /\ n \in Nat /\ n \in Nd' /\ i \in DOMAIN forward[n]
        /\ Lane(i) \subseteq Nat
    BY <1>5, <1>6, LaneFacts DEF Lane
  <2>4. A2 = A \ {k} /\ FirstOf(A, forward[n][i])
    BY <1>4, <1>6, <2>2, <2>3
  <2>5. new = IF i \in DOMAIN forward[k] /\ p = n THEN forward[k][i] ELSE forward[n][i]
    BY <1>5, <2>3
  <2>6. k \in Lane(i) <=> i \in DOMAIN forward[k]
    BY <1>4 DEF Lane
  <2> HIDE DEF new, p
  <2>7. CASE k \notin Lane(i)
    <3>1. A2 = A
      BY <2>2, <2>4, <2>7
    <3> QED
      BY <2>4, <2>5, <2>6, <2>7, <3>1 DEF new
  <2>8. CASE k \in Lane(i) /\ p = n
    <3>1. A2 = After(k, i)
      BY <1>4, <2>1, <2>2, <2>3, <2>4, <2>8 DEF After
    <3>2. FirstOf(After(k, i), forward[k][i])
      BY <1>4, <2>8
    <3> QED
      BY <2>5, <2>6, <2>8, <3>1, <3>2 DEF new
  <2>9. CASE k \in Lane(i) /\ p # n /\ k < n
    <3>1. A2 = A
      BY <1>4, <2>2, <2>3, <2>4, <2>9
    <3> QED
      BY <2>4, <2>5, <2>9, <3>1 DEF new
  <2>10. CASE k \in Lane(i) /\ p # n /\ ~(k < n)
    <3>1. n < p /\ p \in A
      BY <1>4, <2>1, <2>2, <2>3, <2>10
    <3>2. new \in A /\ \A m \in A : new <= m
      BY <2>4, <2>5, <2>10, <3>1 DEF FirstOf
    <3>3. new # k
      BY <1>4, <2>1, <3>1, <3>2
    <3> QED
      BY <2>4, <3>2, <3>3 DEF FirstOf, new
  <2> QED
    BY <2>7, <2>8, <2>9, <2>10
<1>8. \A n \in List!Nodes' : n \in List!Nodes /\ DOMAIN forward'[n] = DOMAIN forward[n]
  BY <1>5 DEF Nd
<1>9. DOMAIN forward'[0] = 0 .. MaxLevel - 1
  BY <1>4, <1>5
<1> QED
  BY <1>5, <1>7, <1>8, <1>9

\* The list's level is lowered no further than the highest tower.
LEMMA LoweredIs ==
  ASSUME NEW fwd, level \in Nat, level >= 1
  PROVE  /\ List!Lowered(fwd) \in 1 .. level
         /\ \A i \in 1 .. level : fwd[0][i - 1] # None => i <= List!Lowered(fwd)
<1> DEFINE full == {1} \cup {i \in 1 .. level : fwd[0][i - 1] # None}
           down == {level - i : i \in full}
<1>1. full \subseteq 1 .. level /\ 1 \in full
  OBVIOUS
<1>2. List!Lowered(fwd) = CHOOSE i \in full : \A j \in full : j <= i
  BY Zenon DEF List!Lowered, List!Head
<1>3. \A i \in 1 .. level : fwd[0][i - 1] # None => i \in full
  OBVIOUS
<1> HIDE DEF full
<1>4. \E i \in full : \A j \in full : j <= i
  <2>1. down \subseteq Nat /\ down # {}
    BY <1>1
  <2> HIDE DEF down
  <2>2. PICK d \in down : \A e \in down : d <= e
    BY <2>1, LeastOf
  <2>3. PICK i \in full : d = level - i
    BY DEF down
  <2>4. \A j \in full : level - i <= level - j
    BY <2>2, <2>3 DEF down
  <2>5. ASSUME NEW j \in full
        PROVE  j <= i
    <3>1. i \in Nat /\ j \in Nat /\ level - i <= level - j
      BY <1>1, <2>4
    <3> QED
      BY <3>1
  <2> QED
    BY <2>5
<1> DEFINE top == List!Lowered(fwd)
<1>5. top \in full /\ \A j \in full : j <= top
  BY <1>2, <1>4
<1> HIDE DEF top
<1> QED
  BY <1>1, <1>3, <1>5 DEF top

LEMMA ListInit == List!Init => LInv
<1> SUFFICES ASSUME List!Init PROVE LInv
  OBVIOUS
<1>1. listOpen = FALSE /\ level = 0 /\ forward = <<>> /\ listValue = <<>>
  BY DEF List!Init
<1>2. List!Nodes = {} /\ listValue \in [List!Nodes -> Value]
  BY <1>1 DEF List!Nodes
<1> QED
  BY <1>1, <1>2 DEF LInv

LEMMA ListKeeps == LInv /\ UNCHANGED listVars => LInv'
<1> SUFFICES ASSUME LInv, UNCHANGED listVars PROVE LInv'
  OBVIOUS
<1>1. listOpen' = listOpen /\ level' = level /\ forward' = forward /\ listValue' = listValue
  BY DEF listVars
<1>2. /\ List!Nodes' = List!Nodes /\ Nd' = Nd /\ \A i : Lane(i)' = Lane(i)
      /\ \A n, i : After(n, i)' = After(n, i)
  BY <1>1 DEF List!Nodes, Nd, Lane, After
<1> QED
  BY <1>1, <1>2 DEF LInv

LEMMA ListCreate ==
  ASSUME LInv, List!Create
  PROVE  LInv' /\ listOpen' /\ List!Nodes = {} /\ List!Nodes' = {}
<1>1. /\ listOpen' = TRUE /\ level' = 1 /\ listValue' = listValue /\ listValue = <<>>
      /\ forward' = [n \in {0} |-> [i \in 0 .. MaxLevel - 1 |-> None]]
  BY DEF List!Create, List!Head, LInv
<1>2. List!Nodes = {} /\ List!Nodes' = {} /\ Nd' = {0}
  BY <1>1 DEF List!Nodes, Nd
<1>3. MaxLevel \in Nat \ {0}
  BY ListConstants
<1>4. DOMAIN forward' = Nd' /\ DOMAIN forward'[0] = 0 .. MaxLevel - 1
  BY <1>1, <1>2
<1>5. ASSUME NEW i \in 0 .. MaxLevel - 1, NEW n \in Lane(i)'
      PROVE  FirstOf(After(n, i)', forward'[n][i])
  <2>1. n = 0 /\ After(n, i)' = {}
    BY <1>2 DEF Lane, After
  <2>2. forward'[0][i] = None
    BY <1>1
  <2> QED
    BY <2>1, <2>2 DEF FirstOf
<1>6. NextLanes
  BY <1>2, <1>4, <1>5 DEF NextLanes
<1>7. listValue' \in [List!Nodes' -> Value] /\ level' \in 1 .. MaxLevel
  BY <1>1, <1>2, <1>3
<1> QED
  BY <1>1, <1>2, <1>6, <1>7, NextLInv

LEMMA ListInsert ==
  ASSUME LInv, NEW k \in ListKey, NEW v \in Value, NEW lvl \in 1 .. MaxLevel,
         List!Insert(k, v, lvl)
  PROVE  /\ LInv' /\ listOpen /\ listOpen' /\ List!Nodes' = List!Nodes \cup {k}
         /\ \A l \in List!Nodes' : listValue'[l] = IF l = k THEN v ELSE listValue[l]
<1>1. /\ listOpen /\ listOpen' = listOpen /\ ~List!Found(k)
      /\ level' = List!Raised(lvl) /\ forward' = List!Linked(k, lvl)
      /\ listValue' = [n \in List!Nodes \cup {k} |-> IF n = k THEN v ELSE listValue[n]]
  BY DEF List!Insert
<1>2. k \notin List!Nodes /\ level \in 1 .. MaxLevel /\ MaxLevel \in Nat
  BY <1>1, FoundIs, ListConstants DEF LInv
<1>3. level' \in 1 .. MaxLevel /\ level' \in Nat /\ level <= level' /\ lvl <= level'
  BY <1>1, <1>2 DEF List!Raised
<1>4. List!Nodes' = List!Nodes \cup {k}
  BY <1>1 DEF List!Nodes
<1>5. NextLanes
  BY <1>1, <1>2, <1>3, <1>4, InsertLanes
<1>6. listValue' \in [List!Nodes' -> Value] /\ List!Nodes' \subseteq ListKey
  BY <1>1, <1>4 DEF LInv
<1>7. LInv'
  BY <1>1, <1>3, <1>5, <1>6, NextLInv DEF LInv
<1> QED
  BY <1>1, <1>4, <1>7

LEMMA ListInsertFails ==
  ASSUME LInv, NEW k \in ListKey, NEW lvl \in 1 .. MaxLevel, List!InsertFails(k, lvl)
  PROVE  LInv'
<1>1. /\ listOpen /\ listOpen' = listOpen /\ level' = List!Raised(lvl)
      /\ forward' = forward /\ listValue' = listValue
  BY DEF List!InsertFails
<1>2. level \in 1 .. MaxLevel /\ MaxLevel \in Nat
  BY <1>1, ListConstants DEF LInv
<1>3. level' \in 1 .. MaxLevel /\ level <= level'
  BY <1>1, <1>2 DEF List!Raised
<1>4. /\ List!Nodes' = List!Nodes /\ Nd' = Nd /\ \A i : Lane(i)' = Lane(i)
      /\ \A n, i : After(n, i)' = After(n, i)
  BY <1>1 DEF List!Nodes, Nd, Lane, After
<1>5. \A n \in List!Nodes : \E t \in 1 .. level' : DOMAIN forward[n] = 0 .. t - 1
  <2>1. 1 .. level \subseteq 1 .. level'
    BY <1>2, <1>3
  <2> QED
    BY <1>1, <2>1 DEF LInv
<1>6. NextLanes
  BY <1>1, <1>4, <1>5 DEF NextLanes, LInv
<1> QED
  BY <1>1, <1>3, <1>4, <1>6, NextLInv DEF LInv

LEMMA ListOverwrite ==
  ASSUME LInv, NEW k \in ListKey, NEW v \in Value, List!Overwrite(k, v)
  PROVE  /\ LInv' /\ listOpen /\ listOpen' /\ k \in List!Nodes /\ List!Nodes' = List!Nodes
         /\ \A l \in List!Nodes' : listValue'[l] = IF l = k THEN v ELSE listValue[l]
<1>1. /\ listOpen /\ listOpen' = listOpen /\ level' = level /\ forward' = forward
      /\ listValue' = [listValue EXCEPT ![k] = v] /\ List!Found(k)
  BY DEF List!Overwrite
<1>2. listValue \in [List!Nodes -> Value] /\ k \in List!Nodes /\ level \in 1 .. MaxLevel
  BY <1>1, FoundIs DEF LInv
<1>3. listValue' \in [List!Nodes -> Value] /\ List!Nodes' = List!Nodes
  BY <1>1, <1>2 DEF List!Nodes
<1>4. Nd' = Nd /\ (\A i : Lane(i)' = Lane(i)) /\ (\A n, i : After(n, i)' = After(n, i))
  BY <1>1, <1>3 DEF Nd, Lane, After
<1>5. NextLanes
  BY <1>1, <1>3, <1>4 DEF NextLanes, LInv
<1>6. LInv'
  BY <1>1, <1>2, <1>3, <1>5, NextLInv DEF LInv
<1> QED
  BY <1>1, <1>2, <1>3, <1>6

LEMMA ListRemove ==
  ASSUME LInv, NEW k \in ListKey, List!Remove(k)
  PROVE  /\ LInv' /\ listOpen /\ listOpen' /\ k \in List!Nodes /\ List!Nodes' = List!Nodes \ {k}
         /\ \A l \in List!Nodes' : listValue'[l] = listValue[l]
<1>1. /\ listOpen /\ listOpen' = listOpen /\ List!Found(k)
      /\ forward' = List!Unlinked(k) /\ level' = List!Lowered(forward')
      /\ listValue' = [n \in List!Nodes \ {k} |-> listValue[n]]
  BY DEF List!Remove
<1>2. /\ k \in List!Nodes /\ level \in Nat /\ level >= 1 /\ level <= MaxLevel /\ MaxLevel \in Nat
      /\ listValue \in [List!Nodes -> Value]
  BY <1>1, FoundIs, LaneFacts, ListConstants DEF LInv
<1>3. List!Nodes' = List!Nodes \ {k}
  BY <1>1 DEF List!Nodes
<1>4. /\ DOMAIN forward' = Nd' /\ DOMAIN forward'[0] = 0 .. MaxLevel - 1
      /\ \A n \in List!Nodes' : n \in List!Nodes /\ DOMAIN forward'[n] = DOMAIN forward[n]
      /\ \A i \in 0 .. MaxLevel - 1 : \A n \in Lane(i)' : FirstOf(After(n, i)', forward'[n][i])
  BY <1>1, <1>2, <1>3, RemoveLanes
<1>5. /\ level' \in 1 .. level
      /\ \A i \in 1 .. level : forward'[0][i - 1] # None => i <= level'
  BY <1>1, <1>2, LoweredIs
<1>6. ASSUME NEW n \in List!Nodes'
      PROVE  \E t \in 1 .. level' : DOMAIN forward'[n] = 0 .. t - 1
  <2>1. PICK t \in 1 .. level : DOMAIN forward[n] = 0 .. t - 1
    BY <1>1, <1>4 DEF LInv
  <2>2. t - 1 \in 0 .. MaxLevel - 1 /\ t - 1 \in DOMAIN forward'[n] /\ t \in Nat
    BY <1>2, <1>4, <2>1
  <2>3. n \in Nat /\ n > 0 /\ 0 \in Lane(t - 1)' /\ n \in Lane(t - 1)'
    <3>1. n \in ListKey
      BY <1>4 DEF LInv
    <3>2. 0 \in Nd' /\ n \in Nd'
      BY DEF Nd
    <3>3. t - 1 \in DOMAIN forward'[0]
      BY <1>4, <2>2
    <3> QED
      BY <2>2, <3>1, <3>2, <3>3, ListConstants DEF Lane
  <2>4. n \in After(0, t - 1)'
    BY <2>3 DEF After
  <2>5. forward'[0][t - 1] \in After(0, t - 1)'
    BY <1>4, <2>2, <2>3, <2>4 DEF FirstOf
  <2>6. forward'[0][t - 1] \in ListKey
    <3>1. /\ forward'[0][t - 1] \in Nd' /\ 0 < forward'[0][t - 1]
      BY <2>5 DEF After, Lane
    <3>2. forward'[0][t - 1] # 0
      BY <3>1
    <3> QED
      BY <1>3, <3>1, <3>2 DEF Nd, LInv
  <2>7. t \in 1 .. level'
    BY <1>5, <2>2, <2>6, ListConstants
  <2> QED
    BY <1>4, <2>1, <2>7
<1>7. NextLanes
  BY <1>4, <1>6 DEF NextLanes
<1>8. level' \in 1 .. MaxLevel /\ listValue' \in [List!Nodes' -> Value] /\ List!Nodes' \subseteq ListKey
  BY <1>1, <1>2, <1>3, <1>5 DEF LInv
<1>9. LInv'
  BY <1>1, <1>7, <1>8, NextLInv DEF LInv
<1> QED
  BY <1>1, <1>2, <1>3, <1>9

LEMMA ListDestroy ==
  ASSUME LInv, List!Destroy
  PROVE  LInv' /\ ~listOpen'
<1>1. listOpen' = FALSE /\ level' = 0 /\ forward' = <<>> /\ listValue' = <<>>
  BY DEF List!Destroy
<1>2. List!Nodes' = {} /\ listValue' \in [List!Nodes' -> Value]
  BY <1>1 DEF List!Nodes
<1> QED
  BY <1>1, <1>2 DEF LInv

LEMMA ListNext == LInv /\ List!Next => LInv'
<1> SUFFICES ASSUME LInv, List!Next PROVE LInv'
  OBVIOUS
<1>1. CASE List!Create
  BY <1>1, ListCreate
<1>2. CASE \E k \in ListKey, lvl \in 1 .. MaxLevel :
             List!InsertFails(k, lvl) \/ \E v \in Value : List!Insert(k, v, lvl)
  BY <1>2, ListInsert, ListInsertFails
<1>3. CASE \E k \in ListKey, v \in Value : List!Overwrite(k, v)
  BY <1>3, ListOverwrite
<1>4. CASE \E k \in ListKey : List!Remove(k) \/ List!RemoveFails(k)
  <2>1. CASE \E k \in ListKey : List!Remove(k)
    BY <2>1, ListRemove
  <2>2. CASE \E k \in ListKey : List!RemoveFails(k)
    BY <2>2, ListKeeps DEF List!RemoveFails, List!vars, listVars
  <2> QED
    BY <1>4, <2>1, <2>2
<1>5. CASE List!Destroy
  BY <1>5, ListDestroy
<1> QED
  BY <1>1, <1>2, <1>3, <1>4, <1>5 DEF List!Next

LEMMA MCListNext == LInv /\ [MCNext]_<<active, vars, listVars>> => LInv'
  BY ListNext, ListKeeps DEF MCNext

\* Whatever is inserted and removed, with towers of whatever height, every pointer
\* of the skip list leads to the next node of its level.
THEOREM SkipListInvariant == MCSpec => []LInv
  BY ListInit, MCListNext, PTL DEF MCSpec, MCInit

\* The height of a tower.
LEMMA TowerIs ==
  ASSUME NEW n, NEW t \in Nat, DOMAIN forward[n] = 0 .. t - 1
  PROVE  List!Tower(n) = t
<1>1. Cardinality(0 .. t - 1) = t
  <2>1. Cardinality(0 .. t - 1) = IF 0 > t - 1 THEN 0 ELSE t - 1 - 0 + 1
    BY FS_Interval
  <2> QED
    BY <2>1
<1> QED
  BY <1>1, SameCardinality DEF List!Tower

\* On every level a node leads to the next higher key whose tower is that high, and
\* no tower is higher than the levels searches start from.
THEOREM SkipListTowersLinked == MCSpec => []TowersLinked
<1>1. LInv => TowersLinked
  <2> SUFFICES ASSUME LInv PROVE TowersLinked
    OBVIOUS
  <2>1. CASE listOpen
    <3>1. /\ List!Nodes \subseteq ListKey /\ listValue \in [List!Nodes -> Value]
          /\ level \in 1 .. MaxLevel /\ DOMAIN forward = Nd
          /\ DOMAIN forward[0] = 0 .. MaxLevel - 1
          /\ \A n \in List!Nodes : \E t \in 1 .. level : DOMAIN forward[n] = 0 .. t - 1
          /\ \A i \in 0 .. MaxLevel - 1 : \A n \in Lane(i) :
               FirstOf(After(n, i), forward[n][i])
          /\ MaxLevel \in Nat \ {0} /\ ListKey \subseteq Nat \ {0}
      <4>1. MaxLevel \in Nat \ {0} /\ ListKey \subseteq Nat \ {0}
        BY ListConstants
      <4> QED
        BY <2>1, <4>1, Zenon DEF LInv
    <3>2. ASSUME NEW n \in List!Nodes
          PROVE  /\ List!Tower(n) \in 1 .. level /\ List!Tower(n) \in Nat
                 /\ DOMAIN forward[n] = 0 .. List!Tower(n) - 1
      <4>1. PICK t \in 1 .. level : DOMAIN forward[n] = 0 .. t - 1
        BY <3>1
      <4>2. t \in Nat
        BY <3>1
      <4>3. List!Tower(n) = t
        BY <4>1, <4>2, TowerIs
      <4> QED
        BY <4>1, <4>2, <4>3
    <3>3. List!Tower(0) = MaxLevel
      BY <3>1, TowerIs
    <3>4. ASSUME NEW n \in Nd
          PROVE  List!Tower(n) \in 1 .. MaxLevel /\ DOMAIN forward[n] = 0 .. List!Tower(n) - 1
      <4>1. CASE n = 0
        BY <3>1, <3>3, <4>1
      <4>2. CASE n \in List!Nodes
        BY <3>1, <3>2, <4>2
      <4> QED
        BY <4>1, <4>2 DEF Nd
    <3>5. ASSUME NEW n \in Nd, NEW i \in DOMAIN forward[n]
          PROVE  /\ i \in 0 .. MaxLevel - 1 /\ FirstOf(After(n, i), forward[n][i])
                 /\ After(n, i) = {k \in List!Nodes : k > n /\ List!Tower(k) > i}
      <4>1. i \in 0 .. MaxLevel - 1 /\ n \in Lane(i) /\ n \in Nat
        <5>1. n \in Lane(i)
          BY DEF Lane
        <5>2. n \in Nat
          BY <3>1 DEF Nd
        <5>3. i \in 0 .. List!Tower(n) - 1 /\ List!Tower(n) \in 1 .. MaxLevel
          BY <3>4
        <5> HIDE DEF Nd
        <5>4. i \in 0 .. MaxLevel - 1
          BY <3>1, <5>3
        <5> QED
          BY <5>1, <5>2, <5>4
      <4>2. \A k \in List!Nodes : List!Tower(k) > i <=> i \in DOMAIN forward[k]
        BY <3>2, <4>1
      <4>3. After(n, i) = {k \in List!Nodes : k > n /\ List!Tower(k) > i}
        <5>1. After(n, i) = {m \in Nd : i \in DOMAIN forward[m] /\ n < m}
          BY DEF After, Lane
        <5>2. ~(n < 0) /\ Nd = List!Nodes \cup {0}
          BY <4>1 DEF Nd
        <5>3. \A m \in List!Nodes : n < m <=> m > n
          BY <3>1, <4>1
        <5> QED
          BY <4>2, <5>1, <5>2, <5>3
      <4> QED
        BY <3>1, <4>1, <4>3
    <3>6. ASSUME NEW n \in Nd, NEW i \in DOMAIN forward[n]
          PROVE  forward[n][i] \in ListKey \cup {None}
      <4>1. FirstOf(After(n, i), forward[n][i]) /\ After(n, i) \subseteq List!Nodes
        BY <3>5
      <4> QED
        BY <3>1, <4>1 DEF FirstOf
    <3>7. List!TypeOK
      BY <2>1, <3>1, <3>4, <3>6 DEF List!TypeOK, Nd, List!Head
    <3>8. ASSUME NEW n \in Nd, NEW i \in DOMAIN forward[n]
          PROVE  LET after == {k \in List!Nodes : k > n /\ List!Tower(k) > i}
                 IN  IF after = {} THEN forward[n][i] = None
                     ELSE forward[n][i] \in after /\ \A k \in after : forward[n][i] <= k
      BY <3>5 DEF FirstOf
    <3>9. \A n \in List!Nodes : List!Tower(n) <= level
      BY <3>1, <3>2
    <3> QED
      BY <3>1, <3>7, <3>8, <3>9, Zenon DEF TowersLinked, List!TowersLinked
  <2>2. CASE ~listOpen
    <3>1. listOpen = FALSE /\ level = 0 /\ forward = <<>> /\ listValue = <<>>
      <4>1. listOpen \in BOOLEAN
        BY Zenon DEF LInv
      <4>2. level = 0 /\ forward = <<>> /\ listValue = <<>>
        BY <2>2, Zenon DEF LInv
      <4> QED
        BY <2>2, <4>1, <4>2
    <3>2. List!Nodes = {} /\ DOMAIN forward = {}
      BY <3>1 DEF List!Nodes
    <3> QED
      BY <3>1, <3>2 DEF TowersLinked, List!TowersLinked, List!TypeOK
  <2> QED
    BY <2>1, <2>2
<1> QED
  BY <1>1, SkipListInvariant, PTL

-----------------------------------------------------------------------------
(* The map that clients of the skip list see                               *)

ListShown == [k \in ListKey |-> List!Find(k)]

LEMMA ListShownIs ==
  LInv => ListShown = [k \in ListKey |->
            IF listOpen /\ k \in List!Nodes THEN listValue[k] ELSE None]
<1> SUFFICES ASSUME LInv, NEW k \in ListKey
             PROVE  List!Find(k) = IF listOpen /\ k \in List!Nodes THEN listValue[k] ELSE None
  BY DEF ListShown
<1> QED
  BY FoundIs DEF List!Find

LEMMA ListShownIsNext ==
  LInv' => ListShown' = [k \in ListKey |->
             IF listOpen' /\ k \in List!Nodes' THEN listValue'[k] ELSE None]
<1>1. (LInv => ListShown = [k \in ListKey |->
            IF listOpen /\ k \in List!Nodes THEN listValue[k] ELSE None])'
  BY ListShownIs, PTL
<1> QED
  BY <1>1

\* A search for a key that was given a value returns it, and the others are as before.
LEMMA ListPut ==
  ASSUME LInv, LInv', NEW k \in ListKey, NEW v \in Value, listOpen, listOpen',
         List!Nodes' = List!Nodes \cup {k},
         \A l \in List!Nodes' : listValue'[l] = IF l = k THEN v ELSE listValue[l]
  PROVE  ListShown' = [ListShown EXCEPT ![k] = v]
  BY ListShownIs, ListShownIsNext

LEMMA ListStepShown ==
  LInv /\ LInv' /\ List!Next => [List!Map!Next \/ List!Map!Remove]_ListShown
<1> SUFFICES ASSUME LInv, LInv', List!Next
             PROVE  [List!Map!Next \/ List!Map!Remove]_ListShown
  OBVIOUS
<1> DEFINE Value0(k) == IF listOpen /\ k \in List!Nodes THEN listValue[k] ELSE None
           Value1(k) == IF listOpen' /\ k \in List!Nodes' THEN listValue'[k] ELSE None
<1>1. /\ ListShown = [k \in ListKey |-> Value0(k)]
      /\ ListShown' = [k \in ListKey |-> Value1(k)]
  BY ListShownIs, ListShownIsNext
<1> HIDE DEF ListShown
<1>2. ASSUME List!Create \/ List!Destroy
      PROVE  List!Map!Discard
  <2>1. ~listOpen' \/ List!Nodes' = {}
    BY <1>2, ListCreate, ListDestroy
  <2>2. ListShown' = [k \in ListKey |-> None]
    BY <1>1, <2>1
  <2> QED
    BY <2>2 DEF List!Map!Discard, List!Map!Empty, ListShown
<1>3. ASSUME NEW k \in ListKey, NEW v \in Value, ListShown' = [ListShown EXCEPT ![k] = v]
      PROVE  List!Map!Put
  BY <1>3 DEF List!Map!Put, ListShown
<1>4. ASSUME NEW k \in ListKey, NEW v \in Value, NEW lvl \in 1 .. MaxLevel,
             List!Insert(k, v, lvl)
      PROVE  List!Map!Put
  <2>1. ListShown' = [ListShown EXCEPT ![k] = v]
    BY <1>4, ListInsert, ListPut
  <2> QED
    BY <1>3, <2>1
<1>5. ASSUME NEW k \in ListKey, NEW v \in Value, List!Overwrite(k, v)
      PROVE  List!Map!Put
  <2>1. /\ listOpen /\ listOpen' /\ List!Nodes' = List!Nodes \cup {k}
        /\ \A l \in List!Nodes' : listValue'[l] = IF l = k THEN v ELSE listValue[l]
    BY <1>5, ListOverwrite
  <2>2. ListShown' = [ListShown EXCEPT ![k] = v]
    BY <2>1, ListPut
  <2> QED
    BY <1>3, <2>2
<1>6. ASSUME NEW k \in ListKey, List!Remove(k)
      PROVE  List!Map!Remove
  <2>1. /\ listOpen /\ listOpen' /\ k \in List!Nodes /\ List!Nodes' = List!Nodes \ {k}
        /\ \A l \in List!Nodes' : listValue'[l] = listValue[l]
    BY <1>6, ListRemove
  <2>2. ListShown' = [ListShown EXCEPT ![k] = None]
    BY <1>1, <2>1
  <2>3. ListShown[k] # None
    <3>1. listValue[k] \in Value
      BY <2>1 DEF LInv
    <3> QED
      BY <1>1, <2>1, <3>1, ListConstants
  <2> QED
    BY <2>2, <2>3 DEF List!Map!Remove, ListShown
<1>7. ASSUME listOpen' = listOpen, listValue' = listValue
      PROVE  ListShown' = ListShown
  BY <1>1, <1>7 DEF List!Nodes
<1>8. CASE \E k \in ListKey, lvl \in 1 .. MaxLevel :
             List!InsertFails(k, lvl) \/ \E v \in Value : List!Insert(k, v, lvl)
  BY <1>4, <1>7, <1>8 DEF List!InsertFails, List!Map!Next
<1>9. CASE \E k \in ListKey, v \in Value : List!Overwrite(k, v)
  BY <1>5, <1>9 DEF List!Map!Next
<1>10. CASE \E k \in ListKey : List!Remove(k) \/ List!RemoveFails(k)
  BY <1>6, <1>7, <1>10 DEF List!RemoveFails, List!vars
<1>11. CASE List!Create \/ List!Destroy
  BY <1>2, <1>11 DEF List!Map!Next
<1> QED
  BY <1>8, <1>9, <1>10, <1>11 DEF List!Next

LEMMA ListInitShown == List!Init => List!Map!Init
  BY DEF List!Init, List!Map!Init, List!Map!Empty, List!Find

\* What find returns is a map, for searches that start from any level.
THEOREM SkipListImplementsMap == MCSpec => ListImplementsMap
<1>1. LInv /\ LInv' /\ [MCNext]_<<active, vars, listVars>>
        => [List!Map!Next \/ List!Map!Remove]_ListShown
  <2> SUFFICES ASSUME LInv, LInv', [MCNext]_<<active, vars, listVars>>
               PROVE  [List!Map!Next \/ List!Map!Remove]_ListShown
    OBVIOUS
  <2>1. CASE UNCHANGED listVars
    <3>1. listOpen' = listOpen /\ listValue' = listValue
      BY <2>1 DEF listVars
    <3>2. ListShown' = ListShown
      BY <3>1, ListShownIs, ListShownIsNext DEF List!Nodes
    <3> QED
      BY <3>2
  <2>2. CASE List!Next
    BY <2>2, ListStepShown
  <2> QED
    BY <2>1, <2>2 DEF MCNext
<1>2. [List!Map!Next \/ List!Map!Remove]_ListShown
        <=> [List!Map!Next \/ List!Map!Remove]_[k \in ListKey |-> List!Find(k)]
  BY DEF ListShown
<1>3. LInv /\ LInv' /\ [MCNext]_<<active, vars, listVars>>
        => [List!Map!Next \/ List!Map!Remove]_[k \in ListKey |-> List!Find(k)]
  BY <1>1, <1>2
<1> QED
  BY <1>3, ListInitShown, SkipListInvariant, PTL
     DEF MCSpec, MCInit, ListImplementsMap, List!ImplementsMap, List!Map!RemovingSpec
=============================================================================
