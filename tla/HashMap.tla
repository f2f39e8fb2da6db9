------------------------------ MODULE HashMap ------------------------------
(***************************************************************************)
(* lib/collection/hashmap.c: a hash table with open addressing and linear  *)
(* probing.  The "deleted" flag of a bucket is left out: nothing in the    *)
(* library sets it.  Keys are compared with the default predicate, for     *)
(* which a null key equals a null key only.                                *)
(*                                                                         *)
(* An insert marks its bucket used before it has memory for the key and    *)
(* the value; if the allocator then refuses, the bucket stays used, with a *)
(* null key and value, and is not counted in "length".                     *)
(***************************************************************************)
EXTENDS Integers, FiniteSets

CONSTANTS
  Key, Value,
  None,          \* the null pointer
  Hash,          \* Hash[k]: hash_fn of k, xor the seed
  InitialCaps,   \* the capacities clients ask for
  MinCapacity,   \* the least capacity a rehash makes, 16 in the code
  MaxCapacity,   \* bound: the largest table considered
  OOM            \* whether the allocator may refuse

ASSUME NoneAssumption == None \notin Key \cup Value
ASSUME HashAssumption == Hash \in [Key -> Nat]
ASSUME CapacityAssumption == MinCapacity \in Nat \ {0} /\ InitialCaps \subseteq Nat
ASSUME OomAssumption == OOM \in BOOLEAN

VARIABLES
  open,      \* there is a map
  capacity,  \* map->capacity
  buckets,   \* map->buckets, from 0
  length,    \* map->length
  hung       \* a probe found neither its key nor an unused bucket

vars == <<open, capacity, buckets, length, hung>>

\* The powers of two.
Pow2[n \in Nat] == IF n = 0 THEN 1 ELSE 2 * Pow2[n - 1]

\* cu_next_pow2.
NextPow2(x) == CHOOSE p \in {Pow2[n] : n \in 0 .. x} : x <= p /\ (p = 1 \/ p \div 2 < x)

Unused == [used |-> FALSE, hash |-> 0, key |-> None, value |-> None]

\* cu_HashMap_find_slot and cu_HashMap_lookup_bucket look at buckets[hash & mask]
\* first, then at the next, around the table.
Probe(c, hash, n) == (hash + n) % c

Matches(b, key, hash) == b.used /\ b.hash = hash /\ b.key = key

\* The steps of a probe at which it may end.
Stops(bs, c, key, hash) ==
  {n \in 0 .. c - 1 : LET b == bs[Probe(c, hash, n)] IN ~b.used \/ Matches(b, key, hash)}

\* The bucket where the probe ends.
Slot(bs, c, key, hash) ==
  LET stops == Stops(bs, c, key, hash)
  IN  Probe(c, hash, CHOOSE n \in stops : \A m \in stops : n <= m)

\* The probe goes around for ever.
Endless(bs, c, key, hash) == Stops(bs, c, key, hash) = {}

-----------------------------------------------------------------------------
(* cu_HashMap_rehash                                                       *)

Table(c, bs, n) == [capacity |-> c, buckets |-> bs, length |-> n]

\* Bucket b of the old table is entered in the new one.
Reenter(t, b) ==
  IF ~b.used THEN t
  ELSE Table(t.capacity,
             [t.buckets EXCEPT ![Slot(t.buckets, t.capacity, b.key, b.hash)] = b],
             t.length + 1)

RehashCapacity(wanted) ==
  NextPow2(IF wanted < MinCapacity THEN MinCapacity ELSE wanted)

\* Mutant of Rehashed: the last bucket is left behind.
Rehashed_SkipsLast(c) ==
  LET entered[i \in 0 .. capacity] ==
        IF i = 0 THEN Table(c, [j \in 0 .. c - 1 |-> Unused], 0)
        ELSE IF i = capacity THEN entered[i - 1]
        ELSE Reenter(entered[i - 1], buckets[i - 1])
  IN  entered[capacity]

\* Mutant of Rehashed: buckets keep their place.
Rehashed_InPlace(c) ==
  Table(c, [j \in 0 .. c - 1 |-> IF j < capacity THEN buckets[j] ELSE Unused], length)

\* The buckets of the old table, entered in order in a new one of capacity c.
Rehashed(c) ==
  LET entered[i \in 0 .. capacity] ==
        IF i = 0 THEN Table(c, [j \in 0 .. c - 1 |-> Unused], 0)
        ELSE Reenter(entered[i - 1], buckets[i - 1])
  IN  entered[capacity]

-----------------------------------------------------------------------------
(* Operations                                                              *)

Init ==
  /\ open = FALSE /\ capacity = 0 /\ buckets = <<>> /\ length = 0
  /\ hung = FALSE

\* cu_HashMap_create; if the allocator refuses, there is no map.
Create(c) ==
  /\ ~open
  /\ open' = TRUE /\ capacity' = NextPow2(c) /\ length' = 0
  /\ buckets' = [i \in 0 .. NextPow2(c) - 1 |-> Unused]
  /\ UNCHANGED hung

\* Mutant of NeedsRehash: the table may fill up.
NeedsRehash_WhenFull == length >= capacity

NeedsRehash == (length + 1) * 2 >= capacity

\* The table the key goes into.
Roomy == IF NeedsRehash THEN Rehashed(RehashCapacity(capacity * 2))
         ELSE Table(capacity, buckets, length)

\* Mutant of Stored: the length counts updates too.
Stored_CountsUpdates(t, k, v) ==
  LET i == Slot(t.buckets, t.capacity, k, Hash[k])
  IN  Table(t.capacity,
            [t.buckets EXCEPT ![i] = [used |-> TRUE, hash |-> Hash[k], key |-> k, value |-> v]],
            t.length + 1)

\* The table once k is stored, or its value overwritten.
Stored(t, k, v) ==
  LET i == Slot(t.buckets, t.capacity, k, Hash[k])
  IN  IF t.buckets[i].used
      THEN Table(t.capacity, [t.buckets EXCEPT ![i].value = v], t.length)
      ELSE Table(t.capacity,
                 [t.buckets EXCEPT ![i] = [used |-> TRUE, hash |-> Hash[k],
                                           key |-> k, value |-> v]],
                 t.length + 1)

\* The table when there is no memory for a new key or its value.
Marked(t, k) ==
  LET i == Slot(t.buckets, t.capacity, k, Hash[k])
  IN  Table(t.capacity,
            [t.buckets EXCEPT ![i].used = TRUE, ![i].hash = Hash[k]],
            t.length)

Becomes(t) == capacity' = t.capacity /\ buckets' = t.buckets /\ length' = t.length

\* cu_HashMap_insert that succeeds.
Insert(k, v) ==
  LET t == Roomy IN
  /\ open /\ t.capacity <= MaxCapacity
  /\ ~Endless(t.buckets, t.capacity, k, Hash[k])
  /\ Becomes(Stored(t, k, v))
  /\ UNCHANGED <<open, hung>>

\* There is no memory for the key, or for the value.
InsertFails(k) ==
  LET t == Roomy IN
  /\ OOM /\ open /\ t.capacity <= MaxCapacity
  /\ ~Endless(t.buckets, t.capacity, k, Hash[k])
  /\ ~t.buckets[Slot(t.buckets, t.capacity, k, Hash[k])].used
  /\ Becomes(Marked(t, k))
  /\ UNCHANGED <<open, hung>>

\* There is no memory for a larger table.
RehashFails == OOM /\ open /\ NeedsRehash /\ UNCHANGED vars

\* The probe does not end.
InsertHangs(k) ==
  LET t == Roomy IN
  /\ open /\ t.capacity <= MaxCapacity
  /\ Endless(t.buckets, t.capacity, k, Hash[k])
  /\ hung' = TRUE
  /\ UNCHANGED <<open, capacity, buckets, length>>

\* What cu_HashMap_get returns: the value of the bucket where the probe ends.
Get(k) ==
  IF capacity = 0 \/ Endless(buckets, capacity, k, Hash[k]) THEN None
  ELSE buckets[Slot(buckets, capacity, k, Hash[k])].value

\* A probe of cu_HashMap_get that does not end.
GetHangs(k) ==
  /\ open /\ Endless(buckets, capacity, k, Hash[k])
  /\ hung' = TRUE
  /\ UNCHANGED <<open, capacity, buckets, length>>

\* cu_HashMap_destroy.
Destroy ==
  /\ open
  /\ open' = FALSE /\ capacity' = 0 /\ buckets' = <<>> /\ length' = 0
  /\ UNCHANGED hung

Spin == hung /\ UNCHANGED vars

Next ==
  \/ /\ ~hung
     /\ \/ \E c \in InitialCaps : Create(c)
        \/ \E k \in Key, v \in Value : Insert(k, v)
        \/ \E k \in Key : InsertFails(k) \/ InsertHangs(k) \/ GetHangs(k)
        \/ RehashFails
        \/ Destroy
  \/ Spin

Spec == Init /\ [][Next]_vars

-----------------------------------------------------------------------------
(* Properties                                                              *)

Indices == 0 .. capacity - 1

Occupied == {i \in Indices : buckets[i].used}

\* The buckets that hold a pair.
Paired == {i \in Occupied : buckets[i].key # None}

Bucket == [used : BOOLEAN, hash : Nat, key : Key \cup {None}, value : Value \cup {None}]

\* The capacity is a power of two, and a bucket holds a key together with its
\* value and its hash, or neither.
TypeOK ==
  /\ open \in BOOLEAN /\ hung \in BOOLEAN /\ length \in Nat
  /\ capacity = 0 \/ capacity = NextPow2(capacity)
  /\ buckets \in [Indices -> Bucket]
  /\ \A i \in Indices :
       LET b == buckets[i]
       IN  /\ ~b.used => b.key = None
           /\ b.key = None <=> b.value = None
           /\ b.key # None => b.hash = Hash[b.key]

\* Every pair is where a probe for its key ends: no unused bucket opens between
\* the key's first bucket and its own, whatever was inserted or moved since.
PairsReachable ==
  \A i \in Paired : LET b == buckets[i] IN Slot(buckets, capacity, b.key, b.hash) = i

\* The length counts the pairs; a rehash makes it count the buckets marked by
\* failed inserts as well.
LengthCounts ==
  /\ TypeOK
  /\ Cardinality(Paired) <= length
  /\ Occupied = Paired => length = Cardinality(Paired)

\* As long as no insert failed for want of memory, there is an unused bucket, so
\* that every probe ends.
ProbesEnd == open /\ Occupied = Paired => Occupied # Indices /\ ~hung

\* What get returns is a map: an insert adds or overwrites one pair, moves to a
\* larger table lose or mix up none, and a failed insert changes nothing.
Map == INSTANCE KeyValueMap WITH map <- [k \in Key |-> Get(k)]

ImplementsMap == Map!Spec

\* hashmap.h:17 says of a used bucket that it "contains a value".
UsedHoldsValue == \A i \in Occupied : buckets[i].value # None
=============================================================================
