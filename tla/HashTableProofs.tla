--------------------------- MODULE HashTableProofs ---------------------------
(***************************************************************************)
(* Lemmas about HashTable, for every hash function and every capacity, and *)
(* about remainders and powers of two, which the proofs about the sets     *)
(* rest on.  No induction is needed for the powers of two: they count      *)
(* subsets, and the library has a theorem about those.                     *)
(***************************************************************************)
EXTENDS HashTable, FiniteSetTheorems, TLAPS

\* What \div and % are.
LEMMA DivMod ==
  ASSUME NEW h \in Int, NEW m \in Nat \ {0}
  PROVE  /\ h \div m \in Int
         /\ h \in Nat => h \div m \in Nat
         /\ h % m \in 0 .. m - 1
         /\ h = m * (h \div m) + (h % m)
  <1>1. h \div m \in Int /\ (h \in Nat => h \div m \in Nat)
    OBVIOUS
  <1>2. h % m \in 0 .. m - 1
    OBVIOUS
  <1>3. h = m * (h \div m) + (h % m)
    OBVIOUS
  <1> QED
    BY <1>1, <1>2, <1>3

\* A remainder is what is left over from a multiple.
LEMMA Remainder ==
  ASSUME NEW h \in Int, NEW m \in Nat \ {0}, NEW q \in Int, NEW r \in 0 .. m - 1,
         h = m * q + r
  PROVE  h % m = r
  <1> DEFINE p == h \div m
  <1> DEFINE s == h % m
  <1>1. h = m * p + s /\ s \in 0 .. m - 1 /\ p \in Int
    BY DivMod
  <1> HIDE DEF p, s
  <1>2. m * (q - p) = s - r
    BY <1>1
  <1>3. q - p >= 1 => m * (q - p) >= m
    BY <1>1
  <1>4. q - p <= -1 => m * (q - p) <= -m
    BY <1>1
  <1>5. q = p
    BY <1>1, <1>2, <1>3, <1>4
  <1>6. s = r
    BY <1>1, <1>5
  <1> QED
    BY <1>6 DEF s

\* Remainders add up to what the sum leaves,
LEMMA RemainderOfSum ==
  ASSUME NEW h \in Int, NEW d \in Int, NEW m \in Nat \ {0}
  PROVE  ((h % m) + d) % m = (h + d) % m
  <1> DEFINE p == h \div m
             s == h % m
             n == s + d
             q == n \div m
             r == n % m
  <1>1. h = m * p + s /\ s \in 0 .. m - 1 /\ p \in Int
    BY DivMod
  <1>2. n \in Int
    BY <1>1
  <1>3. n = m * q + r /\ r \in 0 .. m - 1 /\ q \in Int
    BY <1>2, DivMod
  <1> HIDE DEF p, s, q, r
  <1>4. h + d = m * (p + q) + r
    BY <1>1, <1>3
  <1>5. h + d \in Int /\ p + q \in Int
    BY <1>1, <1>3
  <1>6. (h + d) % m = r
    BY <1>3, <1>4, <1>5, Remainder
  <1> QED
    BY <1>6 DEF n, r, s

\* and stay the same for what they were the same for.
LEMMA SameRemainder ==
  ASSUME NEW h \in Int, NEW g \in Int, NEW d \in Int, NEW m \in Nat \ {0}, h % m = g % m
  PROVE  (h + d) % m = (g + d) % m
  <1>1. (h + d) % m = ((h % m) + d) % m /\ (g + d) % m = ((g % m) + d) % m
    BY RemainderOfSum
  <1> QED
    BY <1>1

-----------------------------------------------------------------------------
\* A power of two is the number of subsets.
LEMMA PowerCounts ==
  ASSUME NEW n \in Nat
  PROVE  /\ IsFiniteSet(SUBSET (1 .. n))
         /\ Cardinality(SUBSET (1 .. n)) = 2 ^ n
         /\ 2 ^ n \in Nat
  <1>1. IsFiniteSet(1 .. n) /\ Cardinality(1 .. n) = n
    BY FS_Interval
  <1> QED
    BY <1>1, FS_SUBSET, FS_CardinalityType

\* Doubling: each subset with and without one more member.
LEMMA PowerDoubles ==
  ASSUME NEW n \in Nat
  PROVE  2 ^ (n + 1) = 2 * 2 ^ n
  <1> DEFINE A == SUBSET (1 .. n)
             B == {s \cup {n + 1} : s \in A}
             f == [s \in A |-> s \cup {n + 1}]
  <1>1. IsFiniteSet(A) /\ Cardinality(A) = 2 ^ n /\ 2 ^ n \in Nat
    BY PowerCounts
  <1>2. f \in Bijection(A, B)
    <2>1. f \in Surjection(A, B)
      BY DEF Surjection
    <2>2. ASSUME NEW s \in A, NEW r \in A, s \cup {n + 1} = r \cup {n + 1}
          PROVE  s = r
      <3>1. n + 1 \notin s /\ n + 1 \notin r
        OBVIOUS
      <3> QED
        BY <2>2, <3>1
    <2>3. f \in Injection(A, B)
      <3>1. f \in [A -> B]
        OBVIOUS
      <3>2. \A s, r \in A : f[s] = f[r] => s = r
        BY <2>2
      <3> QED
        BY <3>1, <3>2 DEF Injection, IsInjective
    <2> QED
      BY <2>1, <2>3 DEF Bijection
  <1>3. IsFiniteSet(B) /\ Cardinality(B) = 2 ^ n
    BY <1>1, <1>2, FS_Bijection DEF ExistsBijection
  <1>4. A \cap B = {}
    <2> SUFFICES ASSUME NEW s \in A, s \in B PROVE FALSE
      OBVIOUS
    <2>1. n + 1 \in s
      OBVIOUS
    <2> QED
      BY <2>1
  <1>5. SUBSET (1 .. (n + 1)) = A \cup B
    <2>1. ASSUME NEW s \in SUBSET (1 .. (n + 1)) PROVE s \in A \cup B
      <3>1. CASE n + 1 \in s
        <4>1. s \ {n + 1} \in A
          OBVIOUS
        <4>2. s = (s \ {n + 1}) \cup {n + 1}
          BY <3>1
        <4> QED
          BY <4>1, <4>2
      <3>2. CASE n + 1 \notin s
        BY <3>2
      <3> QED
        BY <3>1, <3>2
    <2>2. \A s \in A : s \in SUBSET (1 .. (n + 1)) /\ s \cup {n + 1} \in SUBSET (1 .. (n + 1))
      OBVIOUS
    <2>3. \A s \in A \cup B : s \in SUBSET (1 .. (n + 1))
      <3>1. ASSUME NEW b \in B PROVE b \in SUBSET (1 .. (n + 1))
        <4>1. PICK s \in A : b = s \cup {n + 1}
          OBVIOUS
        <4> QED
          BY <2>2, <4>1
      <3> QED
        BY <2>2, <3>1
    <2> HIDE DEF A, B
    <2> QED
      BY <2>1, <2>3
  <1>6. 2 ^ (n + 1) = Cardinality(A \cup B)
    <2>1. n + 1 \in Nat
      OBVIOUS
    <2>2. Cardinality(SUBSET (1 .. (n + 1))) = 2 ^ (n + 1)
      BY <2>1, PowerCounts
    <2> QED
      BY <1>5, <2>2
  <1> HIDE DEF A, B
  <1>7. Cardinality(A \cup B) = Cardinality(A) + Cardinality(B) - 0
    BY <1>1, <1>3, <1>4, FS_Union, FS_EmptySet
  <1> QED
    BY <1>1, <1>3, <1>6, <1>7

\* The powers are in order, and they outgrow their exponents.
LEMMA PowersGrow ==
  ASSUME NEW m \in Nat, NEW n \in Nat, m <= n
  PROVE  2 ^ m <= 2 ^ n
  <1>1. SUBSET (1 .. m) \subseteq SUBSET (1 .. n)
    OBVIOUS
  <1> QED
    <2>1. Cardinality(SUBSET (1 .. m)) <= Cardinality(SUBSET (1 .. n))
      <3>1. IsFiniteSet(SUBSET (1 .. n))
        BY PowerCounts
      <3>2. SUBSET (1 .. m) \subseteq SUBSET (1 .. n)
        BY <1>1
      <3> QED
        BY <3>1, <3>2, FS_Subset
    <2> QED
      BY <2>1, PowerCounts

LEMMA PowerIsMore ==
  ASSUME NEW n \in Nat
  PROVE  n < 2 ^ n
  <1> DEFINE f == [i \in 0 .. n |-> 1 .. i]
  <1>1. f \in Injection(0 .. n, SUBSET (1 .. n))
    <2>1. ASSUME NEW i \in 0 .. n, NEW j \in 0 .. n, (1 .. i) = (1 .. j)
          PROVE  i = j
      <3>1. CASE i < j
        BY <2>1, <3>1
      <3>2. CASE j < i
        BY <2>1, <3>2
      <3> QED
        BY <3>1, <3>2
    <2>2. \A i \in 0 .. n : 1 .. i \in SUBSET (1 .. n)
      OBVIOUS
    <2> QED
      BY <2>1, <2>2 DEF Injection, IsInjective
  <1>2. IsFiniteSet(0 .. n) /\ Cardinality(0 .. n) = n + 1
    BY FS_Interval
  <1>3. Cardinality(0 .. n) <= Cardinality(SUBSET (1 .. n))
    BY <1>1, <1>2, PowerCounts, FS_Injection
  <1>4. Cardinality(SUBSET (1 .. n)) = 2 ^ n /\ 2 ^ n \in Nat
    BY PowerCounts
  <1> HIDE DEF f
  <1> QED
    BY <1>2, <1>3, <1>4

-----------------------------------------------------------------------------
\* An element has a bucket in every table.
LEMMA BucketIsThere ==
  ASSUME NEW e \in Elem, NEW c \in Nat \ {0}
  PROVE  BucketIndex(e, c) \in 0 .. c - 1
  BY HashAssumption DEF BucketIndex

\* Each element is where its hash says.
InPlace(table, c) ==
  /\ table \in Table(c)
  /\ \A i \in 0 .. c - 1 : \A e \in table[i] : BucketIndex(e, c) = i

\* An element is in the table when it is in its bucket.
LEMMA FoundInItsBucket ==
  ASSUME NEW c \in Nat \ {0}, NEW table, InPlace(table, c), NEW e \in Elem
  PROVE  e \in Members(table) <=> e \in table[BucketIndex(e, c)]
  BY BucketIsThere DEF InPlace, Members, Table

\* Moving the elements into a table of another capacity loses none, makes up
\* none and puts each in its bucket.
LEMMA RehashedHoldsTheSame ==
  ASSUME NEW c \in Nat \ {0}, NEW n \in Nat \ {0}, NEW table \in Table(c)
  PROVE  /\ InPlace(Rehashed(table, n), n)
         /\ Members(Rehashed(table, n)) = Members(table)
  <1>1. Members(table) \subseteq Elem
    BY DEF Members, Table
  <1>2. InPlace(Rehashed(table, n), n)
    BY <1>1 DEF InPlace, Rehashed, Table
  <1>3. Members(Rehashed(table, n)) = Members(table)
    <2>1. ASSUME NEW e \in Members(table)
          PROVE  e \in Rehashed(table, n)[BucketIndex(e, n)]
      BY <1>1, BucketIsThere DEF Rehashed
    <2>2. Members(table) \subseteq Members(Rehashed(table, n))
      BY <1>1, <2>1, BucketIsThere DEF Members, Rehashed
    <2>3. Members(Rehashed(table, n)) \subseteq Members(table)
      BY DEF Members, Rehashed
    <2> QED BY <2>2, <2>3
  <1> QED BY <1>2, <1>3

\* Putting an element into its bucket, or taking it out, changes nothing else.
LEMMA OneElementChanges ==
  ASSUME NEW c \in Nat \ {0}, NEW table, InPlace(table, c), NEW e \in Elem,
         NEW changed \in Table(c),
         \A j \in 0 .. c - 1 : changed[j] \ {e} = table[j] \ {e},
         \A j \in 0 .. c - 1 : e \in changed[j] => j = BucketIndex(e, c)
  PROVE  /\ InPlace(changed, c)
         /\ Members(changed) \ {e} = Members(table) \ {e}
         /\ e \in Members(changed) <=> e \in changed[BucketIndex(e, c)]
  <1>1. InPlace(changed, c)
    <2> SUFFICES ASSUME NEW j \in 0 .. c - 1, NEW x \in changed[j]
                 PROVE  BucketIndex(x, c) = j
      BY DEF InPlace
    <2>1. CASE x = e
      BY <2>1
    <2>2. CASE x # e
      BY <2>2 DEF InPlace
    <2> QED BY <2>1, <2>2
  <1>2. /\ Members(changed) = UNION {changed[j] : j \in 0 .. c - 1}
        /\ Members(table) = UNION {table[j] : j \in 0 .. c - 1}
    BY DEF Members, InPlace, Table
  <1>3. Members(changed) \ {e} = Members(table) \ {e}
    BY <1>2
  <1> QED BY <1>1, <1>3, FoundInItsBucket

-----------------------------------------------------------------------------
\* Elements that share a bucket shared one in a table of half the capacity.
LEMMA HalfAsManyBuckets ==
  ASSUME NEW h \in Nat, NEW c \in Nat \ {0}
  PROVE  h % c = (h % (2 * c)) % c
  <1> DEFINE n == 2 * c
  <1> DEFINE r == h % n
  <1> DEFINE q == h \div n
  <1>0. n = 2 * c /\ n \in Nat \ {0}
    OBVIOUS
  <1> HIDE DEF n
  <1>1. h = n * q + r /\ r \in 0 .. n - 1 /\ q \in Nat
    <2>1. h \in Int
      OBVIOUS
    <2>2. /\ h \div n \in Int /\ (h \in Nat => h \div n \in Nat)
          /\ h % n \in 0 .. n - 1 /\ h = n * (h \div n) + (h % n)
      BY <1>0, <2>1, DivMod
    <2> QED
      BY <2>2
  <1> HIDE DEF r, q
  <1>2. CASE r < c
    <2>1. h = c * (2 * q) + r /\ r = c * 0 + r /\ 2 * q \in Nat /\ r \in 0 .. c - 1
      BY <1>0, <1>1, <1>2
    <2> QED
      BY <2>1, Remainder DEF r, n
  <1>3. CASE r >= c
    <2> DEFINE s == r - c
    <2> DEFINE one == 1
    <2>1. h = c * (2 * q + one) + s /\ r = c * one + s
      BY <1>0, <1>1, <1>3
    <2>2. 2 * q + one \in Int /\ one \in Int /\ s \in 0 .. c - 1 /\ r \in Int /\ h \in Int
      BY <1>0, <1>1, <1>3
    <2> HIDE DEF one, s
    <2>3. h % c = s /\ r % c = s
      BY <2>1, <2>2, Remainder
    <2> QED
      BY <2>3 DEF r, n
  <1> QED
    BY <1>1, <1>2, <1>3
=============================================================================
