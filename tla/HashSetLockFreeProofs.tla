------------------------ MODULE HashSetLockFreeProofs ------------------------
(***************************************************************************)
(* Proofs about HashSetLockFree, for any finite number of threads and      *)
(* elements, every hash function, all capacities and every width of a      *)
(* word: that the keys are in split order, that whatever capacity a thread *)
(* has read, its operation starts before its element, that the set is      *)
(* linearizable, and that calls are short, but for what they do in the     *)
(* list.                                                                   *)
(***************************************************************************)
EXTENDS HashSetLockFree, HashTableProofs, SequenceTheorems, WellFoundedInduction

-----------------------------------------------------------------------------
\* Any numbers there are have a smallest among them,
LEMMA Smallest ==
  ASSUME NEW S \in SUBSET Nat, S # {}
  PROVE  \E x \in S : \A y \in S : x <= y
  <1>1. PICK x \in S : \A y \in S : ~(<<y, x>> \in OpToRel(<, Nat))
    BY NatLessThanWellFounded, WFMin
  <1>2. \A y \in S : ~(y < x)
    BY <1>1 DEF OpToRel
  <1> QED
    BY <1>2

\* and a largest, if they are bounded.
LEMMA Largest ==
  ASSUME NEW n \in Nat, NEW S \in SUBSET (0 .. n), S # {}
  PROVE  \E x \in S : \A y \in S : y <= x
  <1> DEFINE T == {n - x : x \in S}
  <1>1. T \subseteq Nat
    OBVIOUS
  <1>2. PICK z \in T : \A y \in T : z <= y
    <2>1. T # {}
      OBVIOUS
    <2> HIDE DEF T
    <2> QED
      BY <1>1, <2>1, Smallest
  <1>3. PICK x \in S : z = n - x
    OBVIOUS
  <1>4. \A y \in S : n - y \in T
    OBVIOUS
  <1> HIDE DEF T
  <1>5. \A y \in S : y <= x
    BY <1>2, <1>3, <1>4
  <1> QED
    BY <1>5

LEMMA PowerOfZero == 2 ^ 0 = 1
  <1>1. Cardinality(SUBSET (1 .. 0)) = 2 ^ 0
    <2>1. 0 \in Nat
      OBVIOUS
    <2> QED
      BY <2>1, PowerCounts
  <1>2. SUBSET (1 .. 0) = {{}}
    OBVIOUS
  <1> QED
    BY <1>1, <1>2, FS_Singleton

\* Powers of two are multiplied by adding exponents.
LEMMA PowerOfSum ==
  ASSUME NEW m \in Nat
  PROVE  \A n \in Nat : 2 ^ (m + n) = 2 ^ m * 2 ^ n
  <1> DEFINE S == {n \in Nat : 2 ^ (m + n) # 2 ^ m * 2 ^ n}
  <1>1. ASSUME S # {} PROVE FALSE
    <2>1. PICK n \in S : \A k \in S : n <= k
      <3>1. S \in SUBSET Nat
        OBVIOUS
      <3> HIDE DEF S
      <3> QED
        BY <1>1, <3>1, Smallest
    <2>2. n # 0
      <3> DEFINE a == 2 ^ m
      <3>1. a \in Nat /\ 2 ^ 0 = 1
        BY PowerCounts, PowerOfZero
      <3>2. m + 0 = m
        OBVIOUS
      <3>3. 2 ^ (m + 0) = a
        BY <3>2
      <3> HIDE DEF a
      <3>4. 2 ^ (m + 0) = a * 2 ^ 0
        BY <3>1, <3>3
      <3> QED
        BY <2>1, <3>4 DEF a
    <2>3. n - 1 \in Nat /\ n - 1 \notin S
      BY <2>1, <2>2
    <2> DEFINE k == n - 1
               a == 2 ^ m
               b == 2 ^ k
               c == 2 ^ (m + k)
    <2>4. c = a * b
      BY <2>3
    <2>5. a \in Nat /\ b \in Nat /\ c \in Nat /\ m + k \in Nat
      <3>1. m + k \in Nat
        BY <2>3
      <3> QED
        BY <2>3, <3>1, PowerCounts
    <2>6. 2 ^ (m + k + 1) = 2 * c /\ 2 ^ (k + 1) = 2 * b
      BY <2>3, <2>5, PowerDoubles
    <2>7. m + k + 1 = m + n /\ k + 1 = n
      BY <2>1
    <2>8. 2 ^ (m + n) = 2 * c /\ 2 ^ n = 2 * b
      BY <2>6, <2>7
    <2> HIDE DEF a, b, c
    <2>9. 2 * c = a * (2 * b)
      BY <2>4, <2>5
    <2> QED
      BY <2>1, <2>8, <2>9 DEF a
  <1> QED
    BY <1>1

-----------------------------------------------------------------------------
\* Words.

LEMMA Width ==
  /\ kKeyBits \in Nat /\ kKeyBits >= 8
  /\ \E bytes \in Nat : kKeyBits = 8 * bytes
  BY WidthAssumption

\* Bits are numbered byte by byte.
LEMMA InItsByte ==
  ASSUME NEW i \in Bit
  PROVE  \E q \in Nat, r \in 0 .. 7 : i = 8 * q + r /\ 8 * q + 7 \in Bit
  <1>1. PICK bytes \in Nat : kKeyBits = 8 * bytes
    BY Width
  <1>2. i = 8 * (i \div 8) + (i % 8) /\ i \div 8 \in Nat /\ i % 8 \in 0 .. 7
    <2>1. i \in Nat
      BY Width DEF Bit
    <2> QED
      BY <2>1
  <1>3. 8 * (i \div 8) + 7 \in Bit
    BY <1>1, <1>2 DEF Bit
  <1> QED
    BY <1>2, <1>3

\* Swapping fields of one, two and four bits:
LEMMA SwapFieldsAt ==
  ASSUME NEW w \in Word, NEW k \in {1, 2, 4}, NEW i \in Bit, i + k \in Bit, (i \div k) % 2 = 0
  PROVE  /\ i \in SwapFields(w, k) <=> i + k \in w
         /\ i + k \in SwapFields(w, k) <=> i \in w
  <1>1. i \in Nat /\ i + k - k = i
    BY Width DEF Bit
  <1>2. ((i + k) \div k) % 2 = 1 /\ ((i - k) \div k) % 2 = 1
    <2>1. CASE k = 1
      BY <1>1, <2>1
    <2>2. CASE k = 2
      BY <1>1, <2>2
    <2>3. CASE k = 4
      BY <1>1, <2>3
    <2> QED
      BY <2>1, <2>2, <2>3
  <1>3. ASSUME NEW j \in Bit
        PROVE  j \in SwapFields(w, k) <=>
                 \/ j + k \in w /\ (j \div k) % 2 = 0
                 \/ j - k \in w /\ ((j - k) \div k) % 2 = 0
    BY DEF SwapFields, ShiftRight, ShiftLeft, Mask, Word
  <1>4. i \in SwapFields(w, k) <=> i + k \in w
    BY <1>1, <1>2, <1>3
  <1>5. i + k \in SwapFields(w, k) <=> i \in w
    <2> DEFINE j == i + k
    <2>1. j \in Bit /\ j - k = i /\ (j \div k) % 2 = 1
      BY <1>1, <1>2
    <2> HIDE DEF j
    <2>2. j \in SwapFields(w, k) <=> i \in w
      BY <1>3, <2>1
    <2> QED
      BY <2>2 DEF j
  <1> QED
    BY <1>4, <1>5

\* the bits change places within the byte that starts at s.
LEMMA SwapFieldsSwaps ==
  ASSUME NEW w \in Word, NEW q \in Nat, 8 * q + 7 \in Bit, NEW s, s = 8 * q
  PROVE  /\ \A i \in 0 .. 7 : s + i \in Bit
         /\ \A i \in {0, 2, 4, 6} :
              /\ s + i \in SwapFields(w, 1) <=> s + i + 1 \in w
              /\ s + i + 1 \in SwapFields(w, 1) <=> s + i \in w
         /\ \A i \in {0, 1, 4, 5} :
              /\ s + i \in SwapFields(w, 2) <=> s + i + 2 \in w
              /\ s + i + 2 \in SwapFields(w, 2) <=> s + i \in w
         /\ \A i \in {0, 1, 2, 3} :
              /\ s + i \in SwapFields(w, 4) <=> s + i + 4 \in w
              /\ s + i + 4 \in SwapFields(w, 4) <=> s + i \in w
  <1>1. \A i \in 0 .. 7 : s + i \in Bit
    BY Width DEF Bit
  <1>2. ASSUME NEW i \in {0, 2, 4, 6}
        PROVE  /\ s + i \in SwapFields(w, 1) <=> s + i + 1 \in w
               /\ s + i + 1 \in SwapFields(w, 1) <=> s + i \in w
    <2>1. s + i \in Bit /\ s + i + 1 \in Bit
      BY Width DEF Bit
    <2>2. ((s + i) \div 1) % 2 = 0
      OBVIOUS
    <2> QED
      BY <2>1, <2>2, SwapFieldsAt
  <1>3. ASSUME NEW i \in {0, 1, 4, 5}
        PROVE  /\ s + i \in SwapFields(w, 2) <=> s + i + 2 \in w
               /\ s + i + 2 \in SwapFields(w, 2) <=> s + i \in w
    <2>1. s + i \in Bit /\ s + i + 2 \in Bit
      BY Width DEF Bit
    <2>2. ((s + i) \div 2) % 2 = 0
      OBVIOUS
    <2> QED
      BY <2>1, <2>2, SwapFieldsAt
  <1>4. ASSUME NEW i \in {0, 1, 2, 3}
        PROVE  /\ s + i \in SwapFields(w, 4) <=> s + i + 4 \in w
               /\ s + i + 4 \in SwapFields(w, 4) <=> s + i \in w
    <2>1. s + i \in Bit /\ s + i + 4 \in Bit
      BY Width DEF Bit
    <2>2. ((s + i) \div 4) % 2 = 0
      OBVIOUS
    <2> QED
      BY <2>1, <2>2, SwapFieldsAt
  <1> QED
    BY <1>1, <1>2, <1>3, <1>4

\* All of them together reverse the byte,
LEMMA BytesAreReversed ==
  ASSUME NEW w \in Word, NEW q \in Nat, 8 * q + 7 \in Bit, NEW r \in 0 .. 7
  PROVE  8 * q + r \in ReverseBitsOfBytes(w) <=> 8 * q + 7 - r \in w
  <1> DEFINE s == 8 * q
             v == SwapFields(w, 1)
             u == SwapFields(v, 2)
             x == SwapFields(u, 4)
  <1>1. v \in Word /\ u \in Word
    BY DEF SwapFields, ShiftRight, ShiftLeft, Word
  <1>2. s \in Nat /\ x = ReverseBitsOfBytes(w)
    BY DEF ReverseBitsOfBytes
  <1>3. \A i \in {0, 2, 4, 6} :
          /\ s + i \in v <=> s + i + 1 \in w
          /\ s + i + 1 \in v <=> s + i \in w
    BY SwapFieldsSwaps
  <1>4. \A i \in {0, 1, 4, 5} :
          /\ s + i \in u <=> s + i + 2 \in v
          /\ s + i + 2 \in u <=> s + i \in v
    BY <1>1, SwapFieldsSwaps
  <1>5. \A i \in {0, 1, 2, 3} :
          /\ s + i \in x <=> s + i + 4 \in u
          /\ s + i + 4 \in x <=> s + i \in u
    BY <1>1, SwapFieldsSwaps
  <1> HIDE DEF s, v, u, x
  <1>6. /\ s + 0 \in x <=> s + 7 \in w
        /\ s + 1 \in x <=> s + 6 \in w
        /\ s + 2 \in x <=> s + 5 \in w
        /\ s + 3 \in x <=> s + 4 \in w
        /\ s + 4 \in x <=> s + 3 \in w
        /\ s + 5 \in x <=> s + 2 \in w
        /\ s + 6 \in x <=> s + 1 \in w
        /\ s + 7 \in x <=> s + 0 \in w
    BY <1>2, <1>3, <1>4, <1>5
  <1>7. s + r \in x <=> s + 7 - r \in w
    BY <1>2, <1>6
  <1> QED
    BY <1>2, <1>7 DEF s

\* and swapping the bytes then reverses the word.
LEMMA WordsAreReversed ==
  ASSUME NEW w \in Word
  PROVE  /\ ReversesBits(w)
         /\ ReverseBits(w) \in Word
         /\ \A i \in Bit : i \in ReverseBits(w) <=> kKeyBits - 1 - i \in w
  <1>1. ASSUME NEW i \in Bit
        PROVE  i \in ReverseBits(w) <=> kKeyBits - 1 - i \in w
    <2>1. PICK q \in Nat, r \in 0 .. 7 : i = 8 * q + r /\ 8 * q + 7 \in Bit
      BY InItsByte
    <2>2. PICK bytes \in Nat : kKeyBits = 8 * bytes
      BY Width
    <2>3. i \div 8 = q /\ i % 8 = r
      BY <2>1
    <2> DEFINE p == bytes - 1 - q
    <2>4. p \in Nat /\ 8 * p + 7 \in Bit
      BY <2>1, <2>2 DEF Bit
    <2>5. kKeyBits - 8 - 8 * q + r = 8 * p + r /\ 8 * p + 7 - r = kKeyBits - 1 - i
      BY <2>1, <2>2
    <2>6. i \in ReverseBits(w) <=> 8 * p + r \in ReverseBitsOfBytes(w)
      BY <2>3, <2>5 DEF ReverseBits, ByteSwap, ReverseBitsOfBytes
    <2> HIDE DEF p
    <2> QED
      BY <2>4, <2>5, <2>6, BytesAreReversed
  <1>2. ReverseBits(w) \in Word
    BY DEF ReverseBits, ByteSwap, Word
  <1>3. ReverseBits(w) = {kKeyBits - 1 - i : i \in w}
    <2>1. ASSUME NEW i \in ReverseBits(w) PROVE i \in {kKeyBits - 1 - j : j \in w}
      <3>1. i \in Bit /\ kKeyBits - 1 - i \in w /\ i = kKeyBits - 1 - (kKeyBits - 1 - i)
        BY <1>1, <1>2, Width DEF Word, Bit
      <3> QED
        BY <3>1
    <2>2. ASSUME NEW i \in w PROVE kKeyBits - 1 - i \in ReverseBits(w)
      <3>1. kKeyBits - 1 - i \in Bit /\ i = kKeyBits - 1 - (kKeyBits - 1 - i)
        BY Width DEF Word, Bit
      <3> QED
        BY <1>1, <3>1
    <2> QED
      BY <2>1, <2>2
  <1> QED
    BY <1>1, <1>2, <1>3 DEF ReversesBits

-----------------------------------------------------------------------------
\* Words are in a strict order,
LEMMA LessIsStrict ==
  ASSUME NEW v \in Word, NEW w \in Word, Less(v, w)
  PROVE  v # w /\ ~Less(w, v)
  <1>1. PICK i \in w \ v : \A j \in i + 1 .. kKeyBits - 1 : j \in v <=> j \in w
    BY DEF Less
  <1>2. ASSUME Less(w, v) PROVE FALSE
    <2>1. PICK k \in v \ w : \A j \in k + 1 .. kKeyBits - 1 : j \in w <=> j \in v
      BY <1>2 DEF Less
    <2>2. i \in 0 .. kKeyBits - 1 /\ k \in 0 .. kKeyBits - 1
      BY DEF Word, Bit
    <2> QED
      BY <1>1, <2>1, <2>2, Width
  <1> QED
    BY <1>1, <1>2

LEMMA LessIsTransitive ==
  ASSUME NEW u \in Word, NEW v \in Word, NEW w \in Word, Less(u, v), Less(v, w)
  PROVE  Less(u, w)
  <1>1. PICK i \in v \ u : \A j \in i + 1 .. kKeyBits - 1 : j \in u <=> j \in v
    BY DEF Less
  <1>2. PICK k \in w \ v : \A j \in k + 1 .. kKeyBits - 1 : j \in v <=> j \in w
    BY DEF Less
  <1>3. i \in 0 .. kKeyBits - 1 /\ k \in 0 .. kKeyBits - 1 /\ kKeyBits \in Nat
    BY Width DEF Word, Bit
  <1>4. CASE i < k
    <2>1. k \in w \ u
      BY <1>1, <1>2, <1>3, <1>4
    <2>2. \A j \in k + 1 .. kKeyBits - 1 : j \in u <=> j \in w
      BY <1>1, <1>2, <1>3, <1>4
    <2> QED
      BY <2>1, <2>2 DEF Less
  <1>5. CASE i > k
    <2>1. i \in w \ u
      BY <1>1, <1>2, <1>3, <1>5
    <2>2. \A j \in i + 1 .. kKeyBits - 1 : j \in u <=> j \in w
      BY <1>1, <1>2, <1>3, <1>5
    <2> QED
      BY <2>1, <2>2 DEF Less
  <1> QED
    BY <1>1, <1>2, <1>3, <1>4, <1>5

LEMMA LessIsTotal ==
  ASSUME NEW v \in Word, NEW w \in Word, v # w
  PROVE  Less(v, w) \/ Less(w, v)
  <1> DEFINE D == {i \in Bit : (i \in v) # (i \in w)}
  <1>1. D # {}
    BY DEF Word
  <1>2. PICK i \in D : \A j \in D : j <= i
    <2>1. D \subseteq 0 .. kKeyBits - 1 /\ kKeyBits - 1 \in Nat
      BY Width DEF Bit
    <2> HIDE DEF D
    <2> QED
      BY <1>1, <2>1, Largest
  <1>3. \A j \in i + 1 .. kKeyBits - 1 : j \in v <=> j \in w
    <2> SUFFICES ASSUME NEW j \in i + 1 .. kKeyBits - 1 PROVE j \in v <=> j \in w
      OBVIOUS
    <2>1. j \in Bit /\ ~(j <= i)
      BY Width DEF Bit
    <2> QED
      BY <1>2, <2>1
  <1>4. CASE i \in w
    BY <1>3, <1>4 DEF Less
  <1>5. CASE i \notin w
    BY <1>3, <1>5 DEF Less
  <1> QED
    BY <1>4, <1>5

\* and so are their numbers.
LEMMA NumberGrows ==
  ASSUME NEW v \in Word, NEW w \in Word
  PROVE  /\ Number(w) \in Nat
         /\ Less(v, w) => Number(v) < Number(w)
  <1> DEFINE V == {u \in Word : Less(u, v)}
             W == {u \in Word : Less(u, w)}
  <1>1. IsFiniteSet(Word)
    <2>1. IsFiniteSet(Bit)
      BY Width, FS_Interval DEF Bit
    <2> QED
      BY <2>1, FS_SUBSET DEF Word
  <1>2. IsFiniteSet(W) /\ Cardinality(W) \in Nat /\ IsFiniteSet(V) /\ Cardinality(V) \in Nat
    BY <1>1, FS_Subset, FS_CardinalityType
  <1>3. ASSUME Less(v, w) PROVE Cardinality(V) < Cardinality(W)
    <2>1. V \subseteq W /\ v \in W /\ v \notin V
      BY <1>3, LessIsTransitive, LessIsStrict
    <2> HIDE DEF V, W
    <2>2. Cardinality(V) <= Cardinality(W) /\ Cardinality(V) # Cardinality(W)
      BY <1>2, <2>1, FS_Subset
    <2> QED
      BY <1>2, <2>2
  <1> QED
    BY <1>2, <1>3 DEF Number

\* The lowest bit in which two words differ decides which is less when they are
\* reversed.
LEMMA ReversedOrder ==
  ASSUME NEW v \in Word, NEW w \in Word, NEW i \in w \ v,
         \A j \in Bit : j < i => (j \in v <=> j \in w)
  PROVE  Less(ReverseBits(v), ReverseBits(w))
  <1> DEFINE k == kKeyBits - 1 - i
  <1>1. i \in Bit /\ k \in Bit /\ kKeyBits - 1 - k = i
    BY Width DEF Word, Bit
  <1>2. k \in ReverseBits(w) \ ReverseBits(v)
    BY <1>1, WordsAreReversed
  <1>3. ASSUME NEW j \in k + 1 .. kKeyBits - 1
        PROVE  j \in ReverseBits(v) <=> j \in ReverseBits(w)
    <2>1. j \in Bit /\ kKeyBits - 1 - j \in Bit /\ kKeyBits - 1 - j < i
      BY <1>1, Width DEF Bit
    <2> QED
      BY <2>1, WordsAreReversed
  <1> HIDE DEF k
  <1> QED
    BY <1>2, <1>3 DEF Less

-----------------------------------------------------------------------------
\* Numbers as words.

LEMMA Division ==
  ASSUME NEW h \in Nat, NEW m \in Nat \ {0}
  PROVE  /\ h = m * (h \div m) + (h % m)
         /\ h % m \in 0 .. m - 1
         /\ h \div m \in Nat
  <1>1. h \in Int
    OBVIOUS
  <1> QED
    BY <1>1, DivMod

\* A quotient is how often a number goes.
LEMMA Quotient ==
  ASSUME NEW h \in Nat, NEW m \in Nat \ {0}, NEW q \in Int, NEW r \in 0 .. m - 1,
         h = m * q + r
  PROVE  h \div m = q
  <1> DEFINE p == h \div m
             s == h % m
  <1>1. h = m * p + s /\ s \in 0 .. m - 1 /\ p \in Nat
    BY Division
  <1> HIDE DEF p, s
  <1>2. m * (q - p) = s - r
    BY <1>1
  <1>3. q - p >= 1 => m * (q - p) >= m
    BY <1>1
  <1>4. q - p <= -1 => m * (q - p) <= -m
    BY <1>1
  <1>5. q = p
    BY <1>1, <1>2, <1>3, <1>4
  <1> QED
    BY <1>5 DEF p

\* It is larger for a larger number, or the same.
LEMMA QuotientGrows ==
  ASSUME NEW g \in Nat, NEW h \in Nat, NEW m \in Nat \ {0}, g <= h
  PROVE  g \div m <= h \div m
  <1> DEFINE p == g \div m
             q == h \div m
             s == g % m
             r == h % m
  <1>1. g = m * p + s /\ s \in 0 .. m - 1 /\ p \in Nat
    BY Division
  <1>2. h = m * q + r /\ r \in 0 .. m - 1 /\ q \in Nat
    BY Division
  <1> HIDE DEF p, q, r, s
  <1>3. p - q >= 1 => m * (p - q) >= m
    BY <1>1, <1>2
  <1>4. m * (p - q) <= r - s
    BY <1>1, <1>2
  <1>5. p <= q
    BY <1>1, <1>2, <1>3, <1>4
  <1> QED
    BY <1>5 DEF p, q

LEMMA PowerTypes ==
  ASSUME NEW i \in Nat
  PROVE  2 ^ i \in Nat \ {0} /\ 2 ^ (i + 1) = 2 * 2 ^ i
  BY PowerCounts, PowerIsMore, PowerDoubles

\* A bit of a number is what is left over of the next power of two.
LEMMA Halved ==
  ASSUME NEW n \in Nat, NEW i \in Nat
  PROVE  \E b \in {0, 1} : /\ n \div 2 ^ i = 2 * (n \div 2 ^ (i + 1)) + b
                           /\ (n \div 2 ^ i) % 2 = b
  <1> DEFINE p == 2 ^ i
             m == 2 ^ (i + 1)
             q == n \div m
             r == n % m
  <1>1. p \in Nat \ {0} /\ m = 2 * p /\ m \in Nat \ {0}
    BY PowerTypes
  <1>2. n = m * q + r /\ r \in 0 .. m - 1 /\ q \in Nat
    BY <1>1, Division
  <1> HIDE DEF p, m, q, r
  <1>3. CASE r < p
    <2>1. n = p * (2 * q) + r /\ 2 * q \in Int /\ r \in 0 .. p - 1
      BY <1>1, <1>2, <1>3
    <2>2. n \div p = 2 * q
      BY <1>1, <2>1, Quotient
    <2>3. (2 * q) % 2 = 0 /\ 2 * q = 2 * q + 0
      BY <1>2
    <2> QED
      BY <2>2, <2>3 DEF p, q, m
  <1>4. CASE r >= p
    <2> DEFINE one == 1
    <2>1. n = p * (2 * q + one) + (r - p)
      BY <1>1, <1>2, <1>4
    <2>2. 2 * q + one \in Int /\ r - p \in 0 .. p - 1
      BY <1>1, <1>2, <1>4
    <2> HIDE DEF one
    <2>3. n \div p = 2 * q + one
      BY <1>1, <2>1, <2>2, Quotient
    <2>4. (2 * q + 1) % 2 = 1
      BY <1>2
    <2> QED
      BY <2>3, <2>4 DEF p, q, m, one
  <1>5. r < p \/ r >= p
    BY <1>1, <1>2
  <1> QED
    BY <1>3, <1>4, <1>5

\* The remainder of a power of two is the lower bits.
LEMMA BinaryOfRemainder ==
  ASSUME NEW n \in Nat, NEW k \in Nat
  PROVE  Binary(n % 2 ^ k) = Binary(n) \cap (0 .. k - 1)
  <1> DEFINE c == 2 ^ k
             q == n \div c
             r == n % c
  <1>1. c \in Nat \ {0}
    BY PowerTypes
  <1>2. n = c * q + r /\ r \in 0 .. c - 1 /\ q \in Nat
    BY <1>1, Division
  <1> HIDE DEF c, q, r
  <1>3. ASSUME NEW i \in Bit, i < k
        PROVE  (r \div 2 ^ i) % 2 = (n \div 2 ^ i) % 2
    <2> DEFINE p == 2 ^ i
               m == 2 ^ (k - i - 1)
               s == r \div p
               t == r % p
               a == s \div 2
               b == s % 2
    <2>0. i \in Nat /\ k - i - 1 \in Nat /\ i + (k - i - 1) + 1 = k
      BY <1>3, Width DEF Bit
    <2>1. p \in Nat \ {0} /\ m \in Nat \ {0}
      BY <2>0, PowerTypes
    <2>2. c = 2 * (p * m)
      <3>1. 2 ^ (i + (k - i - 1)) = p * m
        BY <2>0, PowerOfSum
      <3>2. 2 ^ (i + (k - i - 1) + 1) = 2 * 2 ^ (i + (k - i - 1))
        BY <2>0, PowerTypes
      <3> QED
        BY <2>0, <3>1, <3>2 DEF c
    <2> HIDE DEF p, m
    <2>3. r = p * s + t /\ t \in 0 .. p - 1 /\ s \in Nat
      <3>1. r \in Nat
        BY <1>1, <1>2
      <3> QED
        BY <2>1, <3>1, Division
    <2>4. s = 2 * a + b /\ b \in 0 .. 1 /\ a \in Nat
      <3> HIDE DEF s
      <3> QED
        BY <2>3
    <2> HIDE DEF s, t, a, b
    <2> DEFINE d == m * q
    <2>5. d \in Nat
      BY <1>2, <2>1
    <2>6. c * q = p * (2 * d)
      BY <1>1, <1>2, <2>1, <2>2
    <2> HIDE DEF d
    <2>7. n = p * (2 * d + s) + t
      BY <1>2, <2>1, <2>3, <2>5, <2>6
    <2>8. n \div p = 2 * d + s
      <3>1. 2 * d + s \in Int
        BY <2>3, <2>5
      <3> QED
        BY <2>1, <2>3, <2>7, <3>1, Quotient
    <2>9. 2 * d + s = 2 * (d + a) + b
      BY <2>3, <2>4, <2>5
    <2>10. (2 * d + s) % 2 = b
      <3>1. d + a \in Int /\ 2 * d + s \in Int /\ b \in 0 .. 2 - 1
        BY <2>3, <2>4, <2>5
      <3> QED
        BY <2>9, <3>1, Remainder
    <2> QED
      BY <2>8, <2>10 DEF p, s, b
  <1>4. ASSUME NEW i \in Bit, ~(i < k)
        PROVE  (r \div 2 ^ i) % 2 = 0
    <2>0. i \in Nat /\ k <= i
      BY <1>4, Width DEF Bit
    <2> DEFINE p == 2 ^ i
    <2>1. p \in Nat \ {0} /\ c <= p
      BY <2>0, PowerTypes, PowersGrow DEF c
    <2> HIDE DEF p
    <2>2. r = p * 0 + r /\ r \in 0 .. p - 1
      BY <1>1, <1>2, <2>1
    <2>3. r \div p = 0
      BY <2>1, <2>2, Quotient
    <2> QED
      BY <2>3 DEF p
  <1>5. \A i \in Bit : i < k <=> i \in 0 .. k - 1
    BY Width DEF Bit
  <1>6. Binary(r) = Binary(n) \cap (0 .. k - 1)
    BY <1>3, <1>4, <1>5 DEF Binary
  <1> QED
    BY <1>6 DEF r, c

LEMMA BinaryIsBelow ==
  ASSUME NEW k \in Nat, NEW n \in 0 .. 2 ^ k - 1
  PROVE  Binary(n) \subseteq 0 .. k - 1
  <1> DEFINE c == 2 ^ k
  <1>1. c \in Nat \ {0}
    BY PowerTypes
  <1> HIDE DEF c
  <1>2. n = c * 0 + n /\ n \in 0 .. c - 1 /\ n \in Nat
    BY <1>1 DEF c
  <1>3. n % c = n
    BY <1>1, <1>2, Remainder
  <1> QED
    BY <1>2, <1>3, BinaryOfRemainder DEF c

\* The order of words is that of numbers.
LEMMA BinaryGrows ==
  ASSUME NEW m \in Nat, NEW n \in 0 .. 2 ^ kKeyBits - 1, m < n
  PROVE  Less(Binary(m), Binary(n))
  <1> DEFINE A(i) == m \div 2 ^ i
             B(i) == n \div 2 ^ i
             D == {i \in 0 .. kKeyBits : A(i) # B(i)}
  <1>0. kKeyBits \in Nat /\ n \in Nat /\ 2 ^ kKeyBits \in Nat \ {0}
    BY Width, PowerTypes
  <1>1. 0 \in D
    <2>1. A(0) = m /\ B(0) = n
      BY <1>0, PowerOfZero
    <2> QED
      BY <1>0, <2>1
  <1>2. kKeyBits \notin D
    <2> DEFINE p == 2 ^ kKeyBits
    <2>1. p \in Nat \ {0} /\ m \in 0 .. p - 1 /\ n \in 0 .. p - 1
      BY <1>0
    <2> HIDE DEF p
    <2>2. m = p * 0 + m /\ n = p * 0 + n
      BY <1>0, <2>1
    <2>3. m \div p = 0 /\ n \div p = 0
      BY <1>0, <2>1, <2>2, Quotient
    <2> QED
      BY <2>3 DEF p
  <1>3. PICK i \in D : \A j \in D : j <= i
    <2>1. D \subseteq 0 .. kKeyBits
      OBVIOUS
    <2> HIDE DEF D
    <2> QED
      BY <1>0, <1>1, <2>1, Largest
  <1>4. i \in Bit /\ i \in Nat
    BY <1>0, <1>2, <1>3 DEF Bit
  <1>5. \A j \in i + 1 .. kKeyBits : A(j) = B(j)
    <2> SUFFICES ASSUME NEW j \in i + 1 .. kKeyBits, j \in D PROVE FALSE
      BY <1>0, <1>4
    <2> HIDE DEF D
    <2> QED
      BY <1>0, <1>3, <1>4
  <1>6. A(i) # B(i) /\ A(i) \in Nat /\ B(i) \in Nat /\ A(i) <= B(i)
    <2>1. 2 ^ i \in Nat \ {0}
      BY <1>4, PowerTypes
    <2>2. A(i) # B(i)
      BY <1>3
    <2>3. A(i) \in Nat /\ B(i) \in Nat
      BY <1>0, <2>1, Division
    <2>4. A(i) <= B(i)
      BY <1>0, <2>1, QuotientGrows
    <2> QED
      BY <2>2, <2>3, <2>4
  <1>7. /\ \E b \in {0, 1} : A(i) = 2 * A(i + 1) + b /\ A(i) % 2 = b
        /\ \E b \in {0, 1} : B(i) = 2 * B(i + 1) + b /\ B(i) % 2 = b
    BY <1>0, <1>4, Halved
  <1>8. A(i + 1) = B(i + 1) /\ A(i + 1) \in Int
    <2>1. i + 1 \in i + 1 .. kKeyBits /\ i + 1 \in Nat
      BY <1>0, <1>4 DEF Bit
    <2>2. 2 ^ (i + 1) \in Nat \ {0}
      BY <2>1, PowerTypes
    <2> QED
      BY <1>5, <2>1, <2>2, Division
  <1> HIDE DEF A, B, D
  <1>9. A(i) % 2 = 0 /\ B(i) % 2 = 1
    BY <1>6, <1>7, <1>8
  <1>10. i \in Binary(n) \ Binary(m)
    BY <1>4, <1>9 DEF Binary, A, B
  <1>11. \A j \in i + 1 .. kKeyBits - 1 : j \in Binary(m) <=> j \in Binary(n)
    <2> SUFFICES ASSUME NEW j \in i + 1 .. kKeyBits - 1
                 PROVE  j \in Binary(m) <=> j \in Binary(n)
      OBVIOUS
    <2>1. j \in Bit /\ j \in i + 1 .. kKeyBits
      BY <1>0, <1>4 DEF Bit
    <2>2. A(j) = B(j)
      BY <1>5, <2>1
    <2> QED
      BY <2>1, <2>2 DEF Binary, A, B
  <1> QED
    BY <1>10, <1>11 DEF Less

\* The bits of a number and its highest one.
LEMMA BitFloorIs ==
  ASSUME NEW n \in 1 .. 2 ^ kKeyBits - 1
  PROVE  \E k \in Bit :
           /\ BitFloor(n) = 2 ^ k /\ 2 ^ k <= n /\ n < 2 ^ (k + 1)
           /\ n % 2 ^ k = n - 2 ^ k
           /\ Binary(n) = Binary(n - 2 ^ k) \cup {k}
           /\ Binary(n - 2 ^ k) \subseteq 0 .. k - 1
  <1>0. kKeyBits \in Nat /\ n \in Nat /\ 2 ^ kKeyBits \in Nat \ {0}
    BY Width, PowerTypes
  <1> DEFINE D == {k \in 0 .. kKeyBits : 2 ^ k <= n}
  <1>1. 0 \in D
    BY <1>0, PowerOfZero
  <1>2. PICK i \in D : \A j \in D : j <= i
    <2>1. D \subseteq 0 .. kKeyBits
      OBVIOUS
    <2> HIDE DEF D
    <2> QED
      BY <1>0, <1>1, <2>1, Largest
  <1>3. i \in Bit /\ i + 1 \notin D
    BY <1>0, <1>2 DEF Bit
  <1>4. i + 1 \in 0 .. kKeyBits /\ i \in Nat
    BY <1>0, <1>3 DEF Bit
  <1>5. 2 ^ i <= n /\ n < 2 * 2 ^ i /\ 2 ^ i \in {2 ^ j : j \in Bit}
    <2>1. ~(2 ^ (i + 1) <= n)
      BY <1>3, <1>4
    <2>2. 2 ^ i \in Nat \ {0} /\ 2 ^ (i + 1) = 2 * 2 ^ i
      BY <1>4, PowerTypes
    <2>3. 2 ^ i <= n
      BY <1>2
    <2> QED
      BY <1>0, <1>3, <2>1, <2>2, <2>3
  <1> DEFINE f == BitFloor(n)
  <1>6. f \in {2 ^ j : j \in Bit} /\ f <= n /\ n < 2 * f
    <2> DEFINE S == {2 ^ j : j \in Bit}
               P(g) == g <= n /\ n < 2 * g
    <2>1. n # 0
      OBVIOUS
    <2>2. f = CHOOSE g \in S : P(g)
      BY <2>1 DEF BitFloor
    <2>3. 2 ^ i \in S /\ P(2 ^ i)
      BY <1>5
    <2> HIDE DEF f, S, P
    <2>4. f \in S /\ P(f)
      BY <2>2, <2>3
    <2> QED
      BY <2>4 DEF S, P
  <1>7. PICK k \in Bit : f = 2 ^ k
    BY <1>6
  <1>8. k \in Nat /\ f \in Nat \ {0} /\ 2 ^ (k + 1) = 2 * f
    <2>1. k \in Nat
      BY <1>0 DEF Bit
    <2> QED
      BY <1>7, <2>1, PowerTypes
  <1> HIDE DEF f
  <1>9. n = f * 1 + (n - f) /\ n - f \in 0 .. f - 1
    BY <1>0, <1>6, <1>8
  <1>10. n % f = n - f /\ n \div f = 1
    BY <1>0, <1>8, <1>9, Remainder, Quotient
  <1>11. k \in Binary(n)
    BY <1>7, <1>10 DEF Binary
  <1>12. Binary(n - f) = Binary(n) \cap (0 .. k - 1)
    BY <1>0, <1>7, <1>8, <1>10, BinaryOfRemainder
  <1>13. Binary(n) \subseteq 0 .. k
    <2> DEFINE j == k + 1
    <2>1. n \in 0 .. 2 ^ j - 1 /\ j \in Nat /\ j - 1 = k
      BY <1>0, <1>6, <1>8
    <2> HIDE DEF j
    <2>2. Binary(n) \subseteq 0 .. j - 1
      BY <2>1, BinaryIsBelow
    <2> QED
      BY <2>1, <2>2
  <1>14. Binary(n) = Binary(n - f) \cup {k}
    BY <1>8, <1>11, <1>12, <1>13
  <1> QED
    BY <1>6, <1>7, <1>8, <1>10, <1>12, <1>14 DEF f
-----------------------------------------------------------------------------
\* The keys.

LEMMA SmallerWord ==
  ASSUME NEW v \in Word, NEW w \in Word, v \subseteq w, v # w
  PROVE  Less(ReverseBits(v), ReverseBits(w))
  <1>1. PICK i \in w \ v : \A j \in w \ v : i <= j
    <2> DEFINE D == w \ v
    <2>1. w \subseteq Nat
      BY Width DEF Word, Bit
    <2>2. D \in SUBSET Nat /\ D # {}
      BY <2>1
    <2> HIDE DEF D
    <2>3. \E i \in D : \A j \in D : i <= j
      BY <2>2, Smallest
    <2> QED
      BY <2>3 DEF D
  <1>2. \A j \in Bit : j < i => (j \in v <=> j \in w)
    <2>1. i \in Nat
      BY Width DEF Word, Bit
    <2> QED
      BY <1>1, <2>1, Width DEF Bit
  <1> QED
    BY <1>2, ReversedOrder

\* Of two words within the lowest k bits, the reversal of the one is not between
\* that of the other and any that only has more bits above.
LEMMA NothingBetween ==
  ASSUME NEW u \in Word, NEW v \in Word, NEW w \in Word, NEW k \in Nat,
         v \subseteq 0 .. k - 1, v # u, u = w \cap (0 .. k - 1)
  PROVE  Less(ReverseBits(v), ReverseBits(u)) \/ Less(ReverseBits(w), ReverseBits(v))
  <1> DEFINE D == {j \in Nat : (j \in u) # (j \in v)}
  <1>1. D # {}
    <2>1. u \subseteq Nat /\ v \subseteq Nat
      BY Width DEF Word, Bit
    <2>2. PICK j : (j \in u) # (j \in v)
      OBVIOUS
    <2> QED
      BY <2>1, <2>2
  <1>2. PICK i \in D : \A j \in D : i <= j
    <2>1. D \in SUBSET Nat
      OBVIOUS
    <2> HIDE DEF D
    <2> QED
      BY <1>1, <2>1, Smallest
  <1>3. i \in 0 .. k - 1 /\ \A j \in Nat : j < i => (j \in u <=> j \in v)
    <2>1. i \in 0 .. k - 1
      OBVIOUS
    <2>2. \A j \in Nat : j < i => ~(i <= j)
      BY <2>1
    <2> QED
      BY <1>2, <2>1, <2>2
  <1>4. Bit \subseteq Nat
    BY Width DEF Bit
  <1>5. CASE i \in u
    <2>1. i \in u \ v /\ \A j \in Bit : j < i => (j \in v <=> j \in u)
      BY <1>3, <1>4, <1>5
    <2> QED
      BY <2>1, ReversedOrder
  <1>6. CASE i \in v
    <2>1. i \in v \ w
      BY <1>3, <1>6
    <2>2. \A j \in Nat : j < i => (j \in u <=> j \in w)
      BY <1>3
    <2>3. \A j \in Bit : j < i => (j \in w <=> j \in v)
      BY <1>3, <1>4, <2>2
    <2> QED
      BY <2>1, <2>3, ReversedOrder
  <1> QED
    BY <1>5, <1>6

\* The words that are reversed.
LEMMA Words ==
  /\ \A n \in Nat : Binary(n) \in Word /\ Binary(n) \cap kKeyMask \in Word
  /\ kOrdinaryKeyBit \in Word /\ {} \in Word /\ Bit \in Word
  /\ \A v \in Word, w \in Word : v \cup w \in Word
  BY Width DEF Binary, kOrdinaryKeyBit, Word, Bit

\* The index of a bucket is within the mask.
LEMMA IndexWord ==
  ASSUME NEW n \in 0 .. kMaxBuckets - 1
  PROVE  /\ Binary(n) \in Word /\ Binary(n) \subseteq kKeyMask
         /\ MakeSentinelKey(n) = ReverseBits(Binary(n))
  <1> DEFINE k == kKeyBits - 2
  <1>1. k \in Nat /\ n \in 0 .. 2 ^ k - 1 /\ k - 1 = kKeyBits - 3
    BY Width DEF kMaxBuckets
  <1> HIDE DEF k
  <1>2. Binary(n) \subseteq 0 .. k - 1
    BY <1>1, BinaryIsBelow
  <1>3. Binary(n) \subseteq kKeyMask
    BY <1>1, <1>2 DEF kKeyMask
  <1>4. Binary(n) \cap kKeyMask = Binary(n)
    BY <1>3
  <1>5. n \in Nat
    <2>1. kMaxBuckets \in Nat
      BY Width, PowerTypes DEF kMaxBuckets
    <2> QED
      BY <2>1
  <1> QED
    BY <1>3, <1>4, <1>5, Words DEF MakeSentinelKey

\* Different numbers are different words.
LEMMA BinaryDiffers ==
  ASSUME NEW m \in 0 .. 2 ^ kKeyBits - 1, NEW n \in 0 .. 2 ^ kKeyBits - 1, m # n
  PROVE  Binary(m) # Binary(n)
  <1>1. m \in Nat /\ n \in Nat
    BY Width, PowerTypes
  <1>2. CASE m < n
    BY <1>1, <1>2, BinaryGrows, LessIsStrict, Words
  <1>3. CASE n < m
    BY <1>1, <1>3, BinaryGrows, LessIsStrict, Words
  <1> QED
    BY <1>1, <1>2, <1>3

LEMMA kMaxBucketsIsBelow ==
  /\ kMaxBuckets \in Nat \ {0} /\ 2 ^ kKeyBits \in Nat /\ kMaxBuckets <= 2 ^ kKeyBits
  BY Width, PowerTypes, PowersGrow DEF kMaxBuckets

\* The mirror image of all ones and of none.
LEMMA Ends == ReverseBits(Bit) = kTailKey /\ ReverseBits({}) = {}
  <1>1. Bit \in Word /\ {} \in Word /\ \A i \in Bit : kKeyBits - 1 - i \in Bit
    BY Width DEF Word, Bit
  <1>2. ReverseBits(Bit) \in Word /\ \A i \in Bit : i \in ReverseBits(Bit)
    BY <1>1, WordsAreReversed
  <1>3. ReverseBits({}) \in Word /\ \A i \in Bit : i \notin ReverseBits({})
    BY <1>1, WordsAreReversed
  <1> QED
    BY <1>2, <1>3 DEF Word, kTailKey

\* At every capacity, an element comes after the sentinel of its own bucket and
\* before that of the next one.
LEMMA ElementsAreInTheirBuckets ==
  ASSUME NEW code \in Nat, NEW k \in Nat, NEW c, c = 2 ^ k, c <= kMaxBuckets
  PROVE  InItsBucket(code, c)
  <1> DEFINE b == code % c
             u == Binary(b)
             w == (Binary(code) \cap kKeyMask) \cup kOrdinaryKeyBit
  <1>1. c \in Nat \ {0} /\ b \in 0 .. c - 1 /\ k \in 0 .. kKeyBits - 2
    <2>1. c \in Nat \ {0}
      BY PowerTypes
    <2>2. b \in 0 .. c - 1
      BY <2>1, Division
    <2>3. k \in 0 .. kKeyBits - 2
      <3>1. ASSUME k >= kKeyBits - 1 PROVE FALSE
        <4> DEFINE j == kKeyBits - 2
        <4>1. j \in Nat /\ j + 1 <= k
          BY <3>1, Width
        <4>2. 2 ^ (j + 1) <= c /\ 2 ^ (j + 1) = 2 * 2 ^ j /\ 2 ^ j \in Nat \ {0}
          BY <4>1, PowerTypes, PowersGrow
        <4>3. kMaxBuckets = 2 ^ j
          BY DEF kMaxBuckets
        <4> HIDE DEF j
        <4> QED
          BY <2>1, <4>2, <4>3
      <3> QED
        BY <3>1, Width
    <2> QED
      BY <2>1, <2>2, <2>3
  <1>2. u \in Word /\ w \in Word /\ b \in Nat
    <2>1. b \in Nat /\ c \in Nat
      BY <1>1
    <2>2. Binary(code) \cap kKeyMask \in Word /\ kOrdinaryKeyBit \in Word
      BY Words
    <2> HIDE DEF b
    <2> QED
      BY <2>1, <2>2, Words
  <1>3. u = Binary(code) \cap (0 .. k - 1)
    BY BinaryOfRemainder
  <1>4. u = w \cap (0 .. k - 1)
    BY <1>1, <1>3, Width DEF kKeyMask, kOrdinaryKeyBit
  <1>5. b \in 0 .. kMaxBuckets - 1 /\ kMaxBuckets \in Nat
    BY <1>1, kMaxBucketsIsBelow
  <1>6. MakeSentinelKey(b) = ReverseBits(u) /\ MakeOrdinaryKey(code) = ReverseBits(w)
    BY <1>5, IndexWord DEF MakeOrdinaryKey
  <1> HIDE DEF u, w
  <1>7. Less(ReverseBits(u), ReverseBits(w))
    <2>1. kKeyBits - 1 \in w /\ kKeyBits - 1 \notin 0 .. k - 1
      BY <1>1, Width DEF w, kOrdinaryKeyBit
    <2> QED
      BY <1>2, <1>4, <2>1, SmallerWord
  <1>8. Less(ReverseBits(w), kTailKey)
    <2>1. kKeyBits - 2 \in Bit \ w
      BY Width DEF w, kOrdinaryKeyBit, kKeyMask, Bit
    <2>2. w \subseteq Bit /\ w # Bit /\ Bit \in Word
      BY <1>2, <2>1 DEF Word
    <2> QED
      BY <1>2, <2>2, SmallerWord, Ends
  <1>9. ASSUME NEW a \in (0 .. c - 1) \ {b}
        PROVE  Less(MakeSentinelKey(a), ReverseBits(u)) \/ Less(ReverseBits(w), MakeSentinelKey(a))
    <2>1. a \in 0 .. kMaxBuckets - 1 /\ a \in 0 .. 2 ^ kKeyBits - 1 /\ b \in 0 .. 2 ^ kKeyBits - 1
      BY <1>1, kMaxBucketsIsBelow
    <2>2. MakeSentinelKey(a) = ReverseBits(Binary(a)) /\ Binary(a) \in Word
      BY <2>1, IndexWord
    <2>3. Binary(a) # u
      BY <2>1, BinaryDiffers DEF u
    <2>4. Binary(a) \subseteq 0 .. k - 1
      BY BinaryIsBelow
    <2> HIDE DEF b
    <2> QED
      BY <1>2, <1>4, <2>2, <2>3, <2>4, NothingBetween
  <1> QED
    BY <1>6, <1>7, <1>8, <1>9 DEF InItsBucket

\* A bucket's sentinel comes next after that of its parent, among the buckets of
\* the capacity at which the parent's was split.
LEMMA SentinelsAreBehindTheirParents ==
  ASSUME NEW index \in 1 .. kMaxBuckets - 1
  PROVE  BehindItsParent(index) /\ GetParentIndex(index) \in 0 .. index - 1
  <1>1. index \in 1 .. 2 ^ kKeyBits - 1 /\ index \in 0 .. kMaxBuckets - 1 /\ index \in Nat
    BY kMaxBucketsIsBelow
  <1>2. PICK k \in Bit :
          /\ BitFloor(index) = 2 ^ k /\ 2 ^ k <= index /\ index < 2 ^ (k + 1)
          /\ index % 2 ^ k = index - 2 ^ k
          /\ Binary(index) = Binary(index - 2 ^ k) \cup {k}
          /\ Binary(index - 2 ^ k) \subseteq 0 .. k - 1
    BY <1>1, BitFloorIs
  <1> DEFINE half == 2 ^ k
             parent == index - half
             u == Binary(parent)
             w == Binary(index)
  <1>3. k \in Nat /\ half \in Nat \ {0} /\ half <= index
    <2>1. k \in Nat
      BY Width DEF Bit
    <2> QED
      BY <1>2, <2>1, PowerTypes
  <1>4. BitFloor(index) = half /\ GetParentIndex(index) = parent /\ parent = index % half
    BY <1>2 DEF GetParentIndex
  <1>5. parent \in 0 .. index - 1 /\ parent \in 0 .. kMaxBuckets - 1 /\ parent \in 0 .. half - 1
    <2>1. index % half \in 0 .. half - 1
      BY <1>1, <1>3, Division
    <2> HIDE DEF half
    <2> QED
      BY <1>1, <1>3, <1>4, <2>1, kMaxBucketsIsBelow
  <1>6. w = u \cup {k} /\ u \subseteq 0 .. k - 1
    BY <1>2
  <1>7. /\ u \in Word /\ w \in Word /\ w \subseteq kKeyMask
        /\ MakeSentinelKey(parent) = ReverseBits(u)
        /\ MakeSentinelKey(index) = ReverseBits(w)
    BY <1>1, <1>5, IndexWord
  <1>8. u = w \cap (0 .. k - 1) /\ k \in w \ u
    BY <1>3, <1>6
  <1> HIDE DEF u, w
  <1>9. Less(ReverseBits(u), ReverseBits(w))
    BY <1>6, <1>7, <1>8, SmallerWord
  <1>10. Less(ReverseBits(w), kTailKey)
    <2>1. kKeyBits - 1 \in Bit \ w
      BY <1>7, Width DEF kKeyMask, Bit
    <2>2. w \subseteq Bit /\ w # Bit /\ Bit \in Word
      BY <1>7, <2>1 DEF Word
    <2> QED
      BY <1>7, <2>2, SmallerWord, Ends
  <1>11. ASSUME NEW b \in (0 .. half - 1) \ {parent}
         PROVE  \/ Less(MakeSentinelKey(b), MakeSentinelKey(parent))
                \/ Less(MakeSentinelKey(index), MakeSentinelKey(b))
    <2>1. /\ b \in 0 .. kMaxBuckets - 1 /\ b \in 0 .. 2 ^ kKeyBits - 1
          /\ parent \in 0 .. 2 ^ kKeyBits - 1
      <3> HIDE DEF half, parent
      <3> QED
        BY <1>1, <1>3, <1>5, kMaxBucketsIsBelow
    <2>2. MakeSentinelKey(b) = ReverseBits(Binary(b)) /\ Binary(b) \in Word
      BY <2>1, IndexWord
    <2>3. Binary(b) # u
      BY <2>1, BinaryDiffers DEF u
    <2>4. Binary(b) \subseteq 0 .. k - 1
      BY <1>3, BinaryIsBelow
    <2> HIDE DEF half, parent
    <2> QED
      BY <1>3, <1>7, <1>8, <2>2, <2>3, <2>4, NothingBetween
  <1> QED
    BY <1>4, <1>5, <1>7, <1>9, <1>10, <1>11 DEF BehindItsParent

\* The word of a number is numbered by it: as many words are less.
LEMMA NumberOfBinary ==
  ASSUME NEW n \in 0 .. 2 ^ kKeyBits - 1
  PROVE  Number(Binary(n)) = n
  <1> DEFINE c == 2 ^ kKeyBits
             C == 0 .. c - 1
             f == [m \in C |-> Binary(m)]
             N == 0 .. n - 1
             V == {v \in Word : Less(v, Binary(n))}
             g == [m \in N |-> Binary(m)]
  <1>1. c \in Nat \ {0} /\ n \in C /\ n \in Nat
    BY Width, PowerTypes
  <1>2. \A m \in C : Binary(m) \in Word /\ m \in Nat
    <2> HIDE DEF c
    <2>1. C \subseteq Nat
      BY <1>1
    <2> QED
      BY <2>1, Words
  <1>3. \A a, b \in C : a # b => Binary(a) # Binary(b)
    BY BinaryDiffers
  <1>4. IsFiniteSet(C) /\ Cardinality(C) = c
    <2> HIDE DEF c
    <2> QED
      BY <1>1, FS_Interval
  <1>5. IsFiniteSet(Word) /\ Cardinality(Word) = c
    <2>1. IsFiniteSet(Bit) /\ Cardinality(Bit) = kKeyBits
      BY Width, FS_Interval DEF Bit
    <2> QED
      BY <2>1, FS_SUBSET DEF Word
  <1>6. \A v \in Word : \E m \in C : v = Binary(m)
    <2> HIDE DEF C, c
    <2>1. f \in Injection(C, Word)
      BY <1>2, <1>3 DEF Injection, IsInjective
    <2> HIDE DEF f
    <2>2. f \in Surjection(C, Word)
      BY <1>4, <1>5, <2>1, FS_Injection
    <2> QED
      BY <2>2 DEF Surjection, f
  <1>7. \A m \in C : m < n => Less(Binary(m), Binary(n))
    BY <1>2, BinaryGrows
  <1>8. \A m \in C : Less(Binary(m), Binary(n)) => m < n
    <2> SUFFICES ASSUME NEW m \in C, Less(Binary(m), Binary(n)), ~(m < n) PROVE FALSE
      OBVIOUS
    <2>1. m = n \/ n < m
      BY <1>1, <1>2
    <2>2. m # n
      BY <1>1, <1>2, LessIsStrict
    <2>3. Less(Binary(n), Binary(m))
      BY <1>1, <2>1, <2>2, BinaryGrows
    <2> QED
      BY <1>1, <1>2, <2>3, LessIsStrict
  <1>9. g \in Bijection(N, V)
    <2>1. N \subseteq C /\ \A m \in C : m < n <=> m \in N
      <3> HIDE DEF c
      <3> QED
        BY <1>1
    <2> HIDE DEF C, N
    <2>2. g \in [N -> V]
      BY <1>2, <1>7, <2>1
    <2>3. \A a, b \in N : g[a] = g[b] => a = b
      BY <1>3, <2>1
    <2>4. \A v \in V : \E m \in N : g[m] = v
      BY <1>6, <1>8, <2>1
    <2> HIDE DEF V, g
    <2> QED
      BY <2>2, <2>3, <2>4 DEF Bijection, Injection, IsInjective, Surjection
  <1>10. IsFiniteSet(N) /\ Cardinality(N) = n
    <2>1. n - 1 \in Int /\ 0 \in Int /\ (0 > n - 1 => n = 0) /\ n - 1 - 0 + 1 = n
      BY <1>1
    <2> QED
      BY <2>1, FS_Interval
  <1> HIDE DEF N, V, g
  <1>11. Cardinality(V) = n
    BY <1>9, <1>10, FS_Bijection DEF ExistsBijection
  <1> QED
    BY <1>11 DEF Number, V

LEMMA IndexIsBelow ==
  /\ max_capacity_ \in Nat /\ max_capacity_ <= kMaxBuckets
  /\ \A i \in Index : i \in Nat /\ i \in 0 .. kMaxBuckets - 1 /\ i <= max_capacity_ - 1
  <1>1. max_capacity_ \in Nat /\ max_capacity_ <= kMaxBuckets
    BY CapacityAssumption, PowerTypes
  <1> QED
    BY <1>1, kMaxBucketsIsBelow DEF Index

LEMMA KeyTypes ==
  /\ OrdinaryKey \in [Elem -> Nat]
  /\ SentinelKey \in [Index -> Nat]
  /\ ParentIndex \in [Index \ {0} -> Index]
  /\ \A n \in Nat : MakeOrdinaryKey(n) \in Word /\ MakeSentinelKey(n) \in Word
  <1>1. \A n \in Nat : MakeOrdinaryKey(n) \in Word /\ MakeSentinelKey(n) \in Word
    BY Words, WordsAreReversed DEF MakeOrdinaryKey, MakeSentinelKey
  <1>2. OrdinaryKey \in [Elem -> Nat]
    BY <1>1, HashAssumption, NumberGrows DEF OrdinaryKey
  <1>3. SentinelKey \in [Index -> Nat]
    BY <1>1, IndexIsBelow, NumberGrows DEF SentinelKey
  <1>4. ASSUME NEW i \in Index \ {0} PROVE GetParentIndex(i) \in Index
    <2>1. i \in 1 .. kMaxBuckets - 1
      BY IndexIsBelow
    <2>2. GetParentIndex(i) \in 0 .. i - 1
      BY <2>1, SentinelsAreBehindTheirParents
    <2> QED
      BY <2>1, <2>2, IndexIsBelow DEF Index
  <1> QED
    BY <1>1, <1>2, <1>3, <1>4 DEF ParentIndex

LEMMA CapacityIsAPower ==
  ASSUME NEW c \in Capacities
  PROVE  c <= kMaxBuckets /\ \E k \in Nat : c = 2 ^ k
  <1>1. PICK k \in 0 .. max_capacity_ : c = 2 ^ k
    BY DEF Capacities
  <1>2. max_capacity_ \in Nat
    BY CapacityAssumption, PowerTypes
  <1>3. c \in Nat /\ c <= max_capacity_
    BY <1>1, <1>2, PowerTypes DEF Capacities
  <1> QED
    BY <1>1, <1>2, <1>3, IndexIsBelow, kMaxBucketsIsBelow

\* An element is behind the sentinel of its bucket at each capacity the set may
\* have, and each sentinel behind that of its parent.
LEMMA KeysInOrder ==
  /\ \A e \in Elem, c \in Capacities : SentinelKey[BucketIndex(e, c)] < OrdinaryKey[e]
  /\ \A i \in Index \ {0} :
       ParentIndex[i] < i /\ SentinelKey[ParentIndex[i]] < SentinelKey[i]
  <1>1. ASSUME NEW e \in Elem, NEW c \in Capacities
        PROVE  SentinelKey[BucketIndex(e, c)] < OrdinaryKey[e]
    <2> DEFINE b == Hash[e] % c
    <2>1. PICK k \in Nat : c = 2 ^ k /\ c <= kMaxBuckets
      BY CapacityIsAPower
    <2>2. Hash[e] \in Nat /\ c \in Nat \ {0}
      BY <2>1, PowerTypes, HashAssumption
    <2>3. Less(MakeSentinelKey(b), MakeOrdinaryKey(Hash[e]))
      BY <2>1, <2>2, ElementsAreInTheirBuckets DEF InItsBucket
    <2>4. b \in Index /\ b \in Nat
      <3>1. b \in 0 .. c - 1
        BY <2>2, Division
      <3>2. c <= max_capacity_ /\ max_capacity_ \in Nat
        BY CapacityAssumption, PowerTypes DEF Capacities
      <3> HIDE DEF b
      <3> QED
        BY <2>2, <3>1, <3>2 DEF Index
    <2> HIDE DEF b
    <2>5. SentinelKey[b] < OrdinaryKey[e]
      BY <2>2, <2>3, <2>4, KeyTypes, NumberGrows DEF SentinelKey, OrdinaryKey
    <2> QED
      BY <2>5 DEF b, BucketIndex
  <1>2. ASSUME NEW i \in Index \ {0}
        PROVE  ParentIndex[i] < i /\ SentinelKey[ParentIndex[i]] < SentinelKey[i]
    <2> DEFINE p == GetParentIndex(i)
    <2>1. i \in 1 .. kMaxBuckets - 1 /\ i \in Nat /\ i \in Index
      BY IndexIsBelow
    <2>2. p \in 0 .. i - 1 /\ Less(MakeSentinelKey(p), MakeSentinelKey(i))
      BY <2>1, SentinelsAreBehindTheirParents DEF BehindItsParent
    <2>3. p = ParentIndex[i] /\ p \in Index
      BY KeyTypes DEF ParentIndex
    <2> HIDE DEF p
    <2>4. p \in Nat
      BY <2>2
    <2>5. SentinelKey[p] < SentinelKey[i]
      BY <2>1, <2>2, <2>3, <2>4, KeyTypes, NumberGrows DEF SentinelKey
    <2> QED
      BY <2>1, <2>2, <2>3, <2>5
  <1> QED
    BY <1>1, <1>2

\* The keys are in split order, whatever the width of a word, the hash function
\* and the capacities: of every hash code the word is reversed, an element is in
\* the part of the list that starts at its bucket's sentinel, and a sentinel is
\* next behind that of its parent.
THEOREM KeysAreInSplitOrder == Spec => []KeysAreSplitOrdered
  <1>1. ASSUME NEW code \in 0 .. 2 ^ kKeyBits - 1
        PROVE  /\ ReversesBits(Binary(code))
               /\ \A c \in Capacities : InItsBucket(code, c)
    <2>1. code \in Nat
      BY kMaxBucketsIsBelow
    <2>2. ReversesBits(Binary(code))
      BY <2>1, Words, WordsAreReversed
    <2>3. ASSUME NEW c \in Capacities PROVE InItsBucket(code, c)
      BY <2>1, CapacityIsAPower, ElementsAreInTheirBuckets
    <2> QED
      BY <2>2, <2>3
  <1>2. ASSUME NEW i \in Index \ {0} PROVE BehindItsParent(i)
    <2>1. i \in 1 .. kMaxBuckets - 1
      BY IndexIsBelow
    <2> QED
      BY <2>1, SentinelsAreBehindTheirParents
  <1>3. KeysAreSplitOrdered
    BY <1>1, <1>2, KeysInOrder DEF KeysAreSplitOrdered
  <1> QED
    BY <1>3, PTL

\* Different words have different numbers,
LEMMA NumbersDiffer ==
  ASSUME NEW v \in Word, NEW w \in Word, v # w
  PROVE  Number(v) # Number(w)
  <1>1. Less(v, w) \/ Less(w, v)
    BY LessIsTotal
  <1>2. Number(v) \in Nat /\ Number(w) \in Nat
    BY NumberGrows
  <1> QED
    BY <1>1, <1>2, NumberGrows

\* and different mirror images.
LEMMA ReversalsDiffer ==
  ASSUME NEW v \in Word, NEW w \in Word, NEW i \in v \ w
  PROVE  ReverseBits(v) # ReverseBits(w)
  <1> DEFINE j == kKeyBits - 1 - i
  <1>1. j \in Bit /\ kKeyBits - 1 - j = i
    BY Width DEF Word, Bit
  <1> HIDE DEF j
  <1> QED
    BY <1>1, WordsAreReversed

\* The keys are as the list takes them to be: the sentinel of the first bucket
\* has the smallest, those of two buckets differ, and from an element's, and all
\* are less than that of the tail.
THEOREM KeysSuitTheList ==
  /\ OrdinaryKey \in [Elem -> 0 .. Number(kTailKey) - 1]
  /\ SentinelKey \in [Index -> 0 .. Number(kTailKey) - 1]
  /\ SentinelKey[0] = 0 /\ \A e \in Elem : 0 < OrdinaryKey[e]
  /\ \A i, j \in Index : SentinelKey[i] = SentinelKey[j] => i = j
  /\ \A i \in Index, e \in Elem : SentinelKey[i] # OrdinaryKey[e]
  <1>0. 0 \in Index /\ Number(kTailKey) \in Nat /\ kTailKey \in Word
    <2>1. 0 \in Index
      BY CapacityAssumption, PowerTypes DEF Index
    <2> QED
      BY <2>1, Words, NumberGrows DEF kTailKey
  <1>1. ASSUME NEW e \in Elem
        PROVE  OrdinaryKey[e] \in 0 .. Number(kTailKey) - 1
    <2>1. Hash[e] \in Nat /\ 2 ^ 0 = 1 /\ 1 <= kMaxBuckets
      BY HashAssumption, PowerOfZero, kMaxBucketsIsBelow
    <2>2. Less(MakeOrdinaryKey(Hash[e]), kTailKey)
      BY <2>1, ElementsAreInTheirBuckets DEF InItsBucket
    <2>3. OrdinaryKey[e] < Number(kTailKey) /\ OrdinaryKey[e] \in Nat
      BY <1>0, <2>1, <2>2, KeyTypes, NumberGrows DEF OrdinaryKey
    <2> QED
      BY <1>0, <2>3
  <1>2. ASSUME NEW i \in Index
        PROVE  /\ SentinelKey[i] \in 0 .. Number(kTailKey) - 1
               /\ SentinelKey[i] = Number(ReverseBits(Binary(i)))
               /\ Binary(i) \in Word /\ Binary(i) \subseteq kKeyMask
    <2>1. /\ Binary(i) \in Word /\ Binary(i) \subseteq kKeyMask
          /\ MakeSentinelKey(i) = ReverseBits(Binary(i))
      BY IndexIsBelow, IndexWord
    <2>2. Binary(i) \subseteq Bit /\ Binary(i) # Bit /\ Bit \in Word
      <3>1. kKeyBits - 1 \in Bit \ kKeyMask
        BY Width DEF Bit, kKeyMask
      <3> QED
        BY <2>1, <3>1 DEF Word
    <2>3. Less(MakeSentinelKey(i), kTailKey)
      BY <2>1, <2>2, SmallerWord, Ends
    <2>4. SentinelKey[i] = Number(MakeSentinelKey(i)) /\ SentinelKey[i] \in Nat
      BY KeyTypes DEF SentinelKey
    <2>5. SentinelKey[i] < Number(kTailKey)
      BY <1>0, <2>3, <2>4, IndexIsBelow, KeyTypes, NumberGrows
    <2> QED
      BY <1>0, <2>1, <2>4, <2>5
  <1>3. SentinelKey[0] = 0
    <2>1. 0 \in 0 .. 2 ^ kKeyBits - 1
      BY kMaxBucketsIsBelow
    <2>3. Binary(0) = {}
      <3>1. 0 \in 0 .. 2 ^ 0 - 1 /\ 0 \in Nat
        BY PowerOfZero
      <3>2. Binary(0) \subseteq 0 .. 0 - 1
        BY <3>1, BinaryIsBelow
      <3> QED
        BY <3>2
    <2>2. ReverseBits(Binary(0)) = Binary(0)
      BY <2>3, Ends
    <2> QED
      BY <1>0, <1>2, <2>1, <2>2, NumberOfBinary
  <1>4. ASSUME NEW i \in Index, NEW j \in Index, i # j
        PROVE  SentinelKey[i] # SentinelKey[j]
    <2>1. i \in 0 .. 2 ^ kKeyBits - 1 /\ j \in 0 .. 2 ^ kKeyBits - 1
      BY IndexIsBelow, kMaxBucketsIsBelow
    <2>2. Binary(i) # Binary(j)
      BY <1>4, <2>1, BinaryDiffers
    <2>5. \E k : k \in Binary(i) \ Binary(j) \/ k \in Binary(j) \ Binary(i)
      BY <2>2
    <2>3. ReverseBits(Binary(i)) # ReverseBits(Binary(j))
      BY <1>2, <2>5, ReversalsDiffer
    <2>4. ReverseBits(Binary(i)) \in Word /\ ReverseBits(Binary(j)) \in Word
      BY <1>2, WordsAreReversed
    <2> QED
      BY <1>2, <2>3, <2>4, NumbersDiffer
  <1>5. ASSUME NEW i \in Index, NEW e \in Elem
        PROVE  SentinelKey[i] # OrdinaryKey[e]
    <2> DEFINE w == (Binary(Hash[e]) \cap kKeyMask) \cup kOrdinaryKeyBit
    <2>1. Hash[e] \in Nat
      BY HashAssumption
    <2>2. Binary(Hash[e]) \cap kKeyMask \in Word /\ kOrdinaryKeyBit \in Word
      BY <2>1, Words
    <2>3. w \in Word /\ kKeyBits - 1 \in w \ Binary(i)
      BY <1>2, <2>2, Words, Width DEF kOrdinaryKeyBit, kKeyMask
    <2>4. OrdinaryKey[e] = Number(ReverseBits(w))
      BY DEF OrdinaryKey, MakeOrdinaryKey
    <2> HIDE DEF w
    <2>5. ReverseBits(w) # ReverseBits(Binary(i))
      BY <1>2, <2>3, ReversalsDiffer
    <2>6. ReverseBits(w) \in Word /\ ReverseBits(Binary(i)) \in Word
      BY <1>2, <2>3, WordsAreReversed
    <2> QED
      BY <1>2, <2>4, <2>5, <2>6, NumbersDiffer
  <1>6. \A e \in Elem : 0 < OrdinaryKey[e]
    BY <1>0, <1>3, <1>5, KeyTypes
  <1>7. OrdinaryKey \in [Elem -> 0 .. Number(kTailKey) - 1]
    BY <1>1, KeyTypes
  <1>8. SentinelKey \in [Index -> 0 .. Number(kTailKey) - 1]
    BY <1>2, KeyTypes
  <1> QED
    BY <1>3, <1>4, <1>5, <1>6, <1>7, <1>8

-----------------------------------------------------------------------------
\* The places before it is settled what the call does.
Unsettled == {"hash", "bucket", "splice", "publish", "operate"}

\* The places in GetBucketList().
OnTheWay == {"bucket", "splice", "publish"}

-----------------------------------------------------------------------------
\* The inductive invariant, part by part.
Calls ==
  \A t \in Thread :
    /\ IF pc[t] = "idle" THEN op[t] = "none" /\ arg[t] = None /\ answer[t] = {}
                         ELSE op[t] \in Operation /\ arg[t] \in Elem
    /\ pc[t] \in Unsettled => answer[t] = {}
    /\ pc[t] = "count" => op[t] \in {"Add", "Remove"}
    /\ pc[t] \notin Unsettled \cup {"idle"} => answer[t] # {} \/ Failures # {}

\* The buckets a thread has yet to find initialized, each the parent of the
\* next; the last is its element's, at the capacity it read.
Trail(t) ==
  LET s == indices[t] IN
  /\ s # <<>>
  /\ \A k \in 1 .. Len(s) : s[k] < capacity_
  /\ \A k \in 1 .. Len(s) - 1 : s[k + 1] # 0 /\ s[k] = ParentIndex[s[k + 1]]
  /\ SentinelKey[s[Len(s)]] < OrdinaryKey[arg[t]]

\* A thread that initializes a bucket has its parent's, and then its own
\* sentinel; a parent is published first.
Initializing(t) ==
  LET i == indices[t][1] IN
  /\ i # 0
  /\ buckets_[ParentIndex[i]] # None
  /\ sentinel[t] = (IF pc[t] = "splice" THEN ParentIndex[i] ELSE i)
  /\ sentinel[t] \in sentinels

Way(t) ==
  /\ pc[t] \in OnTheWay => Trail(t)
  /\ pc[t] \in {"splice", "publish"} => Initializing(t)
  /\ pc[t] = "operate" =>
       sentinel[t] \in sentinels /\ SentinelKey[sentinel[t]] < OrdinaryKey[arg[t]]
  /\ pc[t] \in {"compare", "double"} => capacity[t] \in Capacities
  /\ pc[t] = "double" => capacity[t] < max_capacity_

Ways == \A t \in Thread : Way(t)

\* The first bucket is there from the start.
Buckets == capacity_ \in Capacities /\ buckets_[0] # None /\ PublishedInOrder

\* A thread in a call has seen what is the case now.
Sees ==
  \A t \in Thread :
    op[t] # "none" =>
      /\ arg[t] \in set => TRUE \in seen[t]
      /\ arg[t] \notin set => FALSE \in seen[t]

IInv == TypeOK /\ Calls /\ Ways /\ Buckets /\ Sees /\ SizeAgrees

\* A step of a thread, the call of an operation among them.
Act(t) == Step(t) \/ \E o \in Operation, e \in Elem : Call(t, o, e)

-----------------------------------------------------------------------------
\* The capacities are the powers of two there are between the first and the last.
LEMMA CapacityFacts ==
  /\ initial_capacity \in Capacities
  /\ max_capacity_ \in Nat \ {0}
  /\ \A c \in Capacities : c \in 1 .. max_capacity_
  /\ \A c \in Capacities : c < max_capacity_ => 2 * c \in Capacities
  <1>1. PICK i \in 0 .. max_capacity_, j \in 0 .. max_capacity_ :
          initial_capacity = 2 ^ i /\ i >= 1 /\ max_capacity_ = 2 ^ j /\ j >= i
    BY CapacityAssumption
  <1>2. /\ i \in Nat /\ j \in Nat
        /\ initial_capacity \in Nat /\ max_capacity_ \in Nat
        /\ i < initial_capacity /\ j < max_capacity_ /\ initial_capacity <= max_capacity_
    BY <1>1, PowerCounts, PowerIsMore, PowersGrow
  <1>3. initial_capacity \in Capacities
    BY <1>1, <1>2 DEF Capacities
  <1>4. \A c \in Capacities : c \in 1 .. max_capacity_
    <2> SUFFICES ASSUME NEW c \in Capacities
                 PROVE  c \in 1 .. max_capacity_
      OBVIOUS
    <2>1. PICK k \in 0 .. max_capacity_ : c = 2 ^ k
      BY DEF Capacities
    <2>2. c \in Nat /\ k < c /\ k \in Nat
      BY <1>2, <2>1, PowerCounts, PowerIsMore
    <2> QED
      BY <1>2, <2>2 DEF Capacities
  <1>5. ASSUME NEW c \in Capacities, c < max_capacity_
        PROVE  2 * c \in Capacities
    <2>1. PICK k \in 0 .. max_capacity_ : c = 2 ^ k
      BY DEF Capacities
    <2>2. k \in Nat /\ c \in Nat
      <3>1. k \in Nat
        BY <1>2
      <3> QED
        BY <2>1, <3>1, PowerCounts
    <2>3. k < j
      <3>1. j <= k => 2 ^ j <= 2 ^ k
        BY <1>2, <2>2, PowersGrow
      <3> QED
        BY <1>1, <1>2, <1>5, <2>1, <2>2, <3>1
    <2>4. k + 1 \in Nat /\ 2 ^ (k + 1) = 2 * c /\ 2 ^ (k + 1) <= 2 ^ j
      BY <1>2, <2>1, <2>2, <2>3, PowerDoubles, PowersGrow
    <2>5. initial_capacity <= 2 * c /\ 2 * c <= max_capacity_ /\ k + 1 \in 0 .. max_capacity_
      BY <1>1, <1>2, <2>2, <2>3, <2>4 DEF Capacities
    <2> QED
      BY <2>4, <2>5 DEF Capacities
  <1> QED
    BY <1>2, <1>3, <1>4, <1>5

\* A size_t counts modulo a number that is not 0.
LEMMA LimitFacts == SizeLimit \in Nat \ {0}
  BY SizeAssumption, FiniteAssumption, FS_CardinalityType

\* What the steps need of the types.
LEMMA Types ==
  ASSUME TypeOK
  PROVE  /\ pc \in [Thread -> Label] /\ op \in [Thread -> Operation \cup {"none"}]
         /\ arg \in [Thread -> Elem \cup {None}] /\ indices \in [Thread -> Seq(Index)]
         /\ sentinel \in [Thread -> Index \cup {None}]
         /\ capacity \in [Thread -> 0 .. max_capacity_]
         /\ answer \in [Thread -> SUBSET BOOLEAN] /\ seen \in [Thread -> SUBSET BOOLEAN]
         /\ buckets_ \in [Index -> Index \cup {None}]
         /\ capacity_ \in Nat \ {0} /\ set_size_ \in Nat
         /\ None \notin Elem /\ None \notin Index
  BY CapacityFacts, LimitFacts, NoneAssumption DEF TypeOK

\* There are finitely many elements and threads to count.
LEMMA FiniteSets ==
  ASSUME IInv
  PROVE  /\ IsFiniteSet(set) /\ Cardinality(set) \in Nat
         /\ \A T \in SUBSET Thread : IsFiniteSet(T) /\ Cardinality(T) \in Nat
         /\ \A o \in {"Add", "Remove"} : Counting(o) \in Nat
  <1>1. set \subseteq Elem
    BY DEF IInv, TypeOK
  <1> QED
    BY <1>1, FiniteAssumption, FS_Subset, FS_CardinalityType DEF Counting

-----------------------------------------------------------------------------
\* What is left of a sequence of indices, and what a longer one has.
LEMMA Popped ==
  ASSUME NEW s \in Seq(Index), s # <<>>
  PROVE  /\ Len(s) \in Nat \ {0} /\ Head(s) = s[1] /\ s[1] \in Index
         /\ Tail(s) \in Seq(Index) /\ Len(Tail(s)) = Len(s) - 1
         /\ \A k \in 1 .. Len(s) - 1 : Tail(s)[k] = s[k + 1]
  <1>1. Len(s) \in Nat \ {0}
    BY EmptySeq, LenProperties
  <1>2. Head(s) = s[1] /\ s[1] \in Index
    BY <1>1, HeadTailProperties, ElementOfSeq
  <1> QED
    BY <1>1, <1>2, HeadTailProperties

LEMMA Pushed ==
  ASSUME NEW s \in Seq(Index), NEW i \in Index
  PROVE  /\ <<i>> \o s \in Seq(Index) /\ <<i>> \o s # <<>>
         /\ Len(<<i>> \o s) = Len(s) + 1
         /\ (<<i>> \o s)[1] = i
         /\ \A k \in 1 .. Len(s) : (<<i>> \o s)[k + 1] = s[k]
  <1>1. <<i>> \in Seq(Index) /\ Len(<<i>>) = 1 /\ <<i>>[1] = i
    OBVIOUS
  <1>2. /\ <<i>> \o s \in Seq(Index) /\ Len(<<i>> \o s) = 1 + Len(s)
        /\ \A k \in 1 .. 1 + Len(s) :
             (<<i>> \o s)[k] = IF k <= 1 THEN <<i>>[k] ELSE s[k - 1]
    BY <1>1, ConcatProperties
  <1>3. Len(s) \in Nat
    BY LenProperties
  <1>4. \A k \in 1 .. Len(s) : (<<i>> \o s)[k + 1] = s[k]
    BY <1>2, <1>3
  <1>5. (<<i>> \o s)[1] = i /\ <<i>> \o s # <<>>
    BY <1>1, <1>2, <1>3, EmptySeq
  <1> QED
    BY <1>2, <1>3, <1>4, <1>5

-----------------------------------------------------------------------------
\* What a step leaves alone, and what only grows.
LEMMA OthersStay ==
  ASSUME IInv, NEW t \in Thread, Act(t), NEW u \in Thread \ {t}
  PROVE  /\ pc'[u] = pc[u] /\ op'[u] = op[u] /\ arg'[u] = arg[u] /\ answer'[u] = answer[u]
         /\ indices'[u] = indices[u] /\ sentinel'[u] = sentinel[u] /\ capacity'[u] = capacity[u]
  <1>0. /\ pc \in [Thread -> Label] /\ op \in [Thread -> Operation \cup {"none"}]
        /\ arg \in [Thread -> Elem \cup {None}] /\ answer \in [Thread -> SUBSET BOOLEAN]
        /\ indices \in [Thread -> Seq(Index)] /\ sentinel \in [Thread -> Index \cup {None}]
        /\ capacity \in [Thread -> 0 .. max_capacity_]
    BY Types DEF IInv
  <1>1. CASE \/ \E o \in Operation, e \in Elem : Call(t, o, e)
             \/ LoadCapacity(t) \/ Initialized(t) \/ NeedsParent(t)
    BY <1>0, <1>1 DEF Call, LoadCapacity, Initialized, NeedsParent, Goto, call, locals
  <1>2. CASE SentinelFor(t) \/ Publish(t) \/ ListThrows(t) \/ Count(t)
    BY <1>0, <1>2 DEF SentinelFor, Publish, ListThrows, Count, Goto, call, locals
  <1>3. CASE Operate(t) \/ OperateInVain(t) \/ RemoveThrows(t)
    BY <1>0, <1>3 DEF Operate, OperateInVain, RemoveThrows, Goto, Settle, call, locals
  <1>4. CASE ResizeIfNecessary(t) \/ Return(t)
    BY <1>0, <1>4 DEF ResizeIfNecessary, LoadForResize, Compare, Double, Return, Goto, call,
                      locals
  <1> QED
    BY <1>1, <1>2, <1>3, <1>4 DEF Act, Step, GetBucketList

LEMMA OnlyGrows ==
  ASSUME IInv, NEW t \in Thread, Act(t)
  PROVE  /\ capacity_' \in Capacities /\ capacity_ <= capacity_'
         /\ sentinels \subseteq sentinels' /\ sentinels' \subseteq Index
         /\ buckets_' \in [Index -> Index \cup {None}]
         /\ \A i \in Index : buckets_[i] # None => buckets_'[i] = buckets_[i]
  <1>1. capacity_' \in Capacities /\ capacity_ <= capacity_'
    <2>1. CASE Double(t)
      <3>1. capacity[t] \in Capacities /\ capacity[t] < max_capacity_ /\ capacity_ \in Capacities
        BY <2>1 DEF Double, IInv, Ways, Way, Buckets
      <3>2. capacity_ \in Nat
        BY <3>1, CapacityFacts
      <3> QED
        BY <2>1, <3>1, <3>2, CapacityFacts DEF Double
    <2>2. CASE ~Double(t)
      <3>1. capacity_' = capacity_
        BY <2>2 DEF Act, Step, GetBucketList, ResizeIfNecessary, Call, LoadCapacity, Initialized,
               NeedsParent, SentinelFor, Publish, Operate, OperateInVain, ListThrows,
               RemoveThrows, Count, LoadForResize, Compare, Return, counters
      <3> QED
        BY <3>1, Types DEF IInv, Buckets
    <2> QED
      BY <2>1, <2>2
  <1>2. /\ sentinels \subseteq sentinels' /\ sentinels' \subseteq Index
        /\ buckets_' \in [Index -> Index \cup {None}]
        /\ \A i \in Index : buckets_[i] # None => buckets_'[i] = buckets_[i]
    <2>0. /\ sentinels \subseteq Index /\ buckets_ \in [Index -> Index \cup {None}]
          /\ indices[t] \in Seq(Index) /\ sentinel[t] \in Index \cup {None}
      BY Types DEF IInv, TypeOK
    <2>1. pc[t] \in {"splice", "publish"} => Head(indices[t]) \in Index
      <3>1. pc[t] \in {"splice", "publish"} => indices[t] # <<>>
        BY DEF IInv, Ways, Way, Trail, OnTheWay
      <3> QED
        BY <2>0, <3>1, Popped
    <2>2. CASE SentinelFor(t)
      BY <2>0, <2>1, <2>2 DEF SentinelFor
    <2>3. CASE Publish(t)
      BY <2>0, <2>1, <2>3 DEF Publish, list
    <2>4. CASE ~SentinelFor(t) /\ ~Publish(t)
      <3>1. sentinels' = sentinels /\ buckets_' = buckets_
        BY <2>4 DEF Act, Step, GetBucketList, ResizeIfNecessary, Call, LoadCapacity, Initialized,
               NeedsParent, Operate, OperateInVain, ListThrows, RemoveThrows, Count,
               LoadForResize, Compare, Double, Return, list
      <3> QED
        BY <2>0, <3>1
    <2> QED
      BY <2>2, <2>3, <2>4
  <1> QED
    BY <1>1, <1>2

\* The types are kept,
LEMMA TypesStay ==
  ASSUME IInv, NEW t \in Thread, Act(t)
  PROVE  TypeOK'
  <1>0. /\ set \subseteq Elem /\ set_size_ \in 0 .. SizeLimit - 1
        /\ pc \in [Thread -> Label] /\ op \in [Thread -> Operation \cup {"none"}]
        /\ arg \in [Thread -> Elem \cup {None}] /\ answer \in [Thread -> SUBSET BOOLEAN]
        /\ indices \in [Thread -> Seq(Index)] /\ sentinel \in [Thread -> Index \cup {None}]
        /\ capacity \in [Thread -> 0 .. max_capacity_] /\ seen \in [Thread -> SUBSET BOOLEAN]
        /\ uncounted \in 0 .. SizeLimit - 1 /\ buckets_ \in [Index -> Index \cup {None}]
    BY Types DEF IInv, TypeOK
  <1>1. /\ capacity_ \in 1 .. max_capacity_ /\ max_capacity_ \in Nat \ {0}
        /\ SizeLimit \in Nat \ {0}
    BY CapacityFacts, LimitFacts DEF IInv, Buckets
  <1>2. /\ capacity_' \in 1 .. max_capacity_ /\ sentinels' \subseteq Index
        /\ buckets_' \in [Index -> Index \cup {None}]
    BY OnlyGrows, CapacityFacts
  <1>3. set' \subseteq Elem
    <2>1. pc[t] # "idle" => arg[t] \in Elem
      BY DEF IInv, Calls
    <2>2. set' = set \/ (pc[t] # "idle" /\ set' \subseteq set \cup {arg[t]})
      BY DEF Act, Step, GetBucketList, ResizeIfNecessary, Call, LoadCapacity, Initialized,
             NeedsParent, SentinelFor, Publish, Operate, OperateInVain, ListThrows,
             RemoveThrows, Count, LoadForResize, Compare, Double, Return, list
    <2> QED
      BY <1>0, <2>1, <2>2
  <1>4. set_size_' \in 0 .. SizeLimit - 1 /\ uncounted' \in 0 .. SizeLimit - 1
    <2>1. CASE Count(t)
      <3>1. (IF op[t] = "Add" THEN set_size_ + 1 ELSE set_size_ - 1) \in Int
        BY <1>0
      <3> QED
        BY <1>0, <1>1, <2>1, <3>1, DivMod DEF Count
    <2>2. CASE RemoveThrows(t)
      <3>1. uncounted + 1 \in Int
        BY <1>0
      <3> QED
        BY <1>0, <1>1, <2>2, <3>1, DivMod DEF RemoveThrows, counters
    <2>3. CASE ~Count(t) /\ ~RemoveThrows(t)
      <3>1. set_size_' = set_size_ /\ uncounted' = uncounted
        BY <2>3 DEF Act, Step, GetBucketList, ResizeIfNecessary, Call, LoadCapacity, Initialized,
               NeedsParent, SentinelFor, Publish, Operate, OperateInVain, ListThrows,
               LoadForResize, Compare, Double, Return, counters
      <3> QED
        BY <1>0, <3>1
    <2> QED
      BY <2>1, <2>2, <2>3
  <1>5. pc' \in [Thread -> Label]
    <2>1. \E l \in Label : pc' = [pc EXCEPT ![t] = l]
      <3>1. CASE NeedsParent(t)
        BY <1>0, <3>1 DEF NeedsParent
      <3>2. CASE ~NeedsParent(t)
        BY <3>2 DEF Act, Step, GetBucketList, ResizeIfNecessary, Call, LoadCapacity, Initialized,
               SentinelFor, Publish, Operate, OperateInVain, ListThrows, RemoveThrows, Count,
               LoadForResize, Compare, Double, Return, Goto, Label
      <3> QED
        BY <3>1, <3>2
    <2> QED
      BY <1>0, <2>1
  <1>6. indices' \in [Thread -> Seq(Index)]
    <2>1. indices[t] \in Seq(Index)
      BY <1>0
    <2>2. CASE LoadCapacity(t)
      <3>1. arg[t] \in Elem /\ capacity_ \in Nat \ {0}
        BY <1>1, <2>2 DEF LoadCapacity, IInv, Calls
      <3>2. BucketIndex(arg[t], capacity_) \in Index
        BY <1>1, <3>1, BucketIsThere DEF Index
      <3>3. <<BucketIndex(arg[t], capacity_)>> \in Seq(Index)
        BY <3>2
      <3> QED
        BY <1>0, <2>2, <3>3 DEF LoadCapacity
    <2>3. CASE Initialized(t) \/ Publish(t)
      <3>1. indices[t] # <<>>
        BY <2>3 DEF Initialized, Publish, IInv, Ways, Way, Trail, OnTheWay
      <3>2. Tail(indices[t]) \in Seq(Index)
        BY <2>1, <3>1, Popped
      <3> QED
        BY <1>0, <2>3, <3>2 DEF Initialized, Publish
    <2>4. CASE NeedsParent(t)
      <3> DEFINE i == Head(indices[t])
      <3>1. indices[t] # <<>>
        BY <2>4 DEF NeedsParent, IInv, Ways, Way, Trail, OnTheWay
      <3>2. i \in Index /\ i # 0
        BY <2>1, <2>4, <3>1, Popped DEF NeedsParent, IInv, Buckets
      <3>3. ParentIndex[i] \in Index
        BY <3>2, KeyTypes
      <3>4. <<ParentIndex[i]>> \o indices[t] \in Seq(Index)
        BY <2>1, <3>3, Pushed
      <3> QED
        BY <1>0, <2>4, <3>4 DEF NeedsParent
    <2>5. CASE Return(t)
      <3>1. <<>> \in Seq(Index)
        BY EmptySeq
      <3> QED
        BY <1>0, <2>5, <3>1 DEF Return
    <2>6. CASE ~LoadCapacity(t) /\ ~Initialized(t) /\ ~Publish(t) /\ ~NeedsParent(t) /\ ~Return(t)
      <3>1. indices' = indices
        BY <2>6 DEF Act, Step, GetBucketList, ResizeIfNecessary, Call, SentinelFor, Operate,
               OperateInVain, ListThrows, RemoveThrows, Count, LoadForResize, Compare, Double,
               locals
      <3> QED
        BY <1>0, <3>1
    <2> QED
      BY <2>2, <2>3, <2>4, <2>5, <2>6
  <1>7. sentinel' \in [Thread -> Index \cup {None}]
    <2>1. pc[t] \in OnTheWay => Head(indices[t]) \in Index
      <3>1. pc[t] \in OnTheWay => indices[t] # <<>> /\ indices[t] \in Seq(Index)
        BY <1>0 DEF IInv, Ways, Way, Trail
      <3> QED
        BY <3>1, Popped
    <2>2. \E i \in Index \cup {None} : sentinel' = [sentinel EXCEPT ![t] = i]
      <3>1. CASE Initialized(t)
        BY <1>0, <2>1, <3>1 DEF Initialized, OnTheWay
      <3>2. CASE SentinelFor(t)
        BY <2>1, <3>2 DEF SentinelFor, OnTheWay
      <3>3. CASE Return(t)
        BY <3>3 DEF Return
      <3>4. CASE ~Initialized(t) /\ ~SentinelFor(t) /\ ~Return(t)
        <4>1. sentinel' = sentinel
          BY <3>4 DEF Act, Step, GetBucketList, ResizeIfNecessary, Call, LoadCapacity,
                 NeedsParent, Publish, Operate, OperateInVain, ListThrows, RemoveThrows, Count,
                 LoadForResize, Compare, Double, locals
        <4> QED
          BY <1>0, <4>1
      <3> QED
        BY <3>1, <3>2, <3>3, <3>4
    <2> QED
      BY <1>0, <2>2
  <1>8. capacity' \in [Thread -> 0 .. max_capacity_]
    <2>1. \/ capacity' = capacity
          \/ capacity' = [capacity EXCEPT ![t] = capacity_]
          \/ capacity' = [capacity EXCEPT ![t] = 0]
      BY DEF Act, Step, GetBucketList, ResizeIfNecessary, Call, LoadCapacity, Initialized,
             NeedsParent, SentinelFor, Publish, Operate, OperateInVain, ListThrows,
             RemoveThrows, Count, LoadForResize, Compare, Double, Return, locals
    <2>2. capacity_ \in 0 .. max_capacity_ /\ 0 \in 0 .. max_capacity_
      BY <1>1
    <2> QED
      BY <1>0, <2>1, <2>2
  <1>9. /\ op' \in [Thread -> Operation \cup {"none"}] /\ arg' \in [Thread -> Elem \cup {None}]
        /\ answer' \in [Thread -> SUBSET BOOLEAN] /\ seen' \in [Thread -> SUBSET BOOLEAN]
    <2>1. CASE \E o \in Operation, e \in Elem : Call(t, o, e)
      BY <1>0, <2>1 DEF Call
    <2>2. CASE OperateInVain(t)
      <3>1. {op[t] = "Contains" /\ Found(t)} \in SUBSET BOOLEAN
        BY DEF Found
      <3> QED
        BY <1>0, <2>2, <3>1 DEF OperateInVain, Settle, call
    <2>3. CASE Operate(t) \/ RemoveThrows(t)
      <3>1. op' = op /\ arg' = arg /\ answer' = [answer EXCEPT ![t] = {TRUE}]
        BY <2>3 DEF Operate, RemoveThrows, Settle, call
      <3>2. \E b \in BOOLEAN :
              seen' = [u \in Thread |-> IF arg[u] = arg[t] THEN seen[u] \cup {b} ELSE seen[u]]
        <4>1. (op[t] = "Add") \in BOOLEAN
          OBVIOUS
        <4> QED
          BY <2>3, <4>1 DEF Operate, RemoveThrows, Observe
      <3> QED
        BY <1>0, <3>1, <3>2
    <2>4. CASE Return(t)
      BY <1>0, <2>4 DEF Return
    <2>5. CASE Step(t) /\ ~OperateInVain(t) /\ ~Operate(t) /\ ~RemoveThrows(t) /\ ~Return(t)
      <3>1. op' = op /\ arg' = arg /\ answer' = answer /\ seen' = seen
        BY <2>5 DEF Step, GetBucketList, ResizeIfNecessary, LoadCapacity, Initialized,
               NeedsParent, SentinelFor, Publish, ListThrows, Count, LoadForResize, Compare,
               Double, call
      <3> QED
        BY <1>0, <3>1
    <2> QED
      BY <2>1, <2>2, <2>3, <2>4, <2>5 DEF Act
  <1> QED
    BY <1>2, <1>3, <1>4, <1>5, <1>6, <1>7, <1>8, <1>9 DEF TypeOK

\* what a thread is in a call for, and that a call ends with an answer unless it
\* throws,
LEMMA CallsStay ==
  ASSUME IInv, NEW t \in Thread, Act(t)
  PROVE  Calls'
  <1> DEFINE Keeps ==
        /\ IF pc'[t] = "idle" THEN op'[t] = "none" /\ arg'[t] = None /\ answer'[t] = {}
                              ELSE op'[t] \in Operation /\ arg'[t] \in Elem
        /\ pc'[t] \in Unsettled => answer'[t] = {}
        /\ pc'[t] = "count" => op'[t] \in {"Add", "Remove"}
        /\ pc'[t] \notin Unsettled \cup {"idle"} => answer'[t] # {} \/ Failures # {}
  <1> SUFFICES Keeps
    BY OthersStay DEF Calls, IInv, Unsettled
  <1>0. /\ pc \in [Thread -> Label] /\ op \in [Thread -> Operation \cup {"none"}]
        /\ arg \in [Thread -> Elem \cup {None}] /\ answer \in [Thread -> SUBSET BOOLEAN]
        /\ IF pc[t] = "idle" THEN op[t] = "none" /\ arg[t] = None /\ answer[t] = {}
                             ELSE op[t] \in Operation /\ arg[t] \in Elem
        /\ pc[t] \in Unsettled => answer[t] = {}
        /\ pc[t] = "count" => op[t] \in {"Add", "Remove"}
        /\ pc[t] \notin Unsettled \cup {"idle"} => answer[t] # {} \/ Failures # {}
    BY Types DEF IInv, Calls
  <1>1. CASE \E o \in Operation, e \in Elem : Call(t, o, e)
    BY <1>0, <1>1 DEF Call, Goto, Unsettled
  <1>2. CASE LoadCapacity(t) \/ GetBucketList(t)
    <2>1. op' = op /\ arg' = arg /\ answer' = answer
      BY <1>2 DEF LoadCapacity, GetBucketList, Initialized, NeedsParent, SentinelFor, Publish,
             call
    <2>2. pc[t] \in Unsettled /\ pc'[t] \in Unsettled
      BY <1>0, <1>2 DEF LoadCapacity, GetBucketList, Initialized, NeedsParent, SentinelFor,
             Publish, Goto, Unsettled
    <2> QED
      BY <1>0, <2>1, <2>2 DEF Unsettled
  <1>3. CASE Operate(t) \/ RemoveThrows(t)
    BY <1>0, <1>3 DEF Operate, RemoveThrows, Settle, Goto, call, Unsettled
  <1>4. CASE OperateInVain(t)
    <2>1. {op[t] = "Contains" /\ Found(t)} # {}
      OBVIOUS
    <2>2. /\ op' = op /\ arg' = arg /\ pc[t] = "operate" /\ pc'[t] = "done"
          /\ answer'[t] # {}
      BY <1>0, <1>4, <2>1 DEF OperateInVain, Settle, Goto, call
    <2> QED
      BY <1>0, <2>2 DEF Unsettled
  <1>5. CASE ListThrows(t)
    BY <1>0, <1>5 DEF ListThrows, Goto, call, Unsettled
  <1>6. CASE Count(t) \/ ResizeIfNecessary(t)
    <2>1. op' = op /\ arg' = arg /\ answer' = answer
      BY <1>6 DEF Count, ResizeIfNecessary, LoadForResize, Compare, Double, call
    <2>2. /\ pc[t] \notin Unsettled \cup {"idle"}
          /\ pc'[t] \in {"resize", "compare", "double", "done"}
      BY <1>0, <1>6 DEF Count, ResizeIfNecessary, LoadForResize, Compare, Double, Goto,
             Unsettled
    <2> QED
      BY <1>0, <2>1, <2>2 DEF Unsettled
  <1>7. CASE Return(t)
    BY <1>0, <1>7 DEF Return, Goto, Unsettled
  <1> QED
    BY <1>1, <1>2, <1>3, <1>4, <1>5, <1>6, <1>7 DEF Act, Step

\* and that buckets are published in order,
LEMMA BucketsStay ==
  ASSUME IInv, NEW t \in Thread, Act(t)
  PROVE  Buckets'
  <1>0. /\ capacity_' \in Capacities /\ capacity_ <= capacity_' /\ capacity_ \in Nat
        /\ sentinels \subseteq sentinels' /\ capacity_' \in Nat
        /\ buckets_ \in [Index -> Index \cup {None}]
        /\ \A i \in Index : buckets_[i] # None => buckets_'[i] = buckets_[i]
        /\ 0 \in Index /\ buckets_[0] # None
    BY OnlyGrows, Types, CapacityFacts DEF IInv, Buckets, Index
  <1>1. PublishedInOrder'
    <2> SUFFICES ASSUME NEW i \in Index, buckets_'[i] # None
                 PROVE  /\ buckets_'[i] = i /\ i \in sentinels'
                        /\ i # 0 => buckets_'[ParentIndex[i]] # None
                        /\ i < capacity_'
      BY DEF PublishedInOrder
    <2>0. i # 0 => ParentIndex[i] \in Index
      BY KeyTypes
    <2>1. CASE buckets_[i] # None
      <3>1. /\ buckets_[i] = i /\ i \in sentinels /\ i < capacity_
            /\ i # 0 => buckets_[ParentIndex[i]] # None
        BY <2>1 DEF IInv, Buckets, PublishedInOrder
      <3>2. i \in Nat
        BY CapacityFacts DEF Index
      <3>3. i < capacity_'
        BY <1>0, <3>1, <3>2
      <3>4. buckets_'[i] = i /\ i \in sentinels'
        BY <1>0, <2>1, <3>1
      <3>5. i # 0 => buckets_'[ParentIndex[i]] # None
        BY <1>0, <2>0, <3>1
      <3> QED
        BY <3>3, <3>4, <3>5
    <2>2. CASE buckets_[i] = None
      <3>1. Publish(t) /\ i = Head(indices[t])
        <4>1. CASE ~Publish(t)
          <5>1. buckets_' = buckets_
            BY <4>1 DEF Act, Step, GetBucketList, ResizeIfNecessary, Call, LoadCapacity,
                   Initialized, NeedsParent, SentinelFor, Operate, OperateInVain, ListThrows,
                   RemoveThrows, Count, LoadForResize, Compare, Double, Return
          <5> QED
            BY <2>2, <5>1
        <4>2. CASE Publish(t)
          BY <1>0, <2>2, <4>2 DEF Publish
        <4> QED
          BY <4>1, <4>2
      <3>2. indices[t] \in Seq(Index) /\ indices[t] # <<>> /\ pc[t] = "publish"
        BY <3>1, Types DEF Publish, IInv, Ways, Way, Trail, OnTheWay
      <3>3. /\ i = indices[t][1] /\ Len(indices[t]) \in Nat \ {0}
            /\ Trail(t) /\ Initializing(t)
        BY <3>1, <3>2, Popped DEF IInv, Ways, Way, OnTheWay
      <3>4. i < capacity_ /\ i # 0 /\ sentinel[t] = i /\ i \in sentinels
            /\ buckets_[ParentIndex[i]] # None
        BY <3>2, <3>3 DEF Trail, Initializing
      <3>5. buckets_'[i] = sentinel[t]
        BY <1>0, <2>2, <3>1 DEF Publish
      <3>6. i \in Nat
        BY CapacityFacts DEF Index
      <3>7. i < capacity_'
        BY <1>0, <3>4, <3>6
      <3>8. buckets_'[ParentIndex[i]] # None
        BY <1>0, <2>0, <3>4
      <3> QED
        BY <1>0, <3>4, <3>5, <3>7, <3>8
    <2> QED
      BY <2>1, <2>2
  <1> QED
    BY <1>0, <1>1 DEF Buckets

\* The way of a thread goes on when others move.
LEMMA OthersGoOn ==
  ASSUME IInv, NEW t \in Thread, Act(t), NEW u \in Thread \ {t}
  PROVE  Way(u)'
  <1>0. /\ pc'[u] = pc[u] /\ arg'[u] = arg[u] /\ indices'[u] = indices[u]
        /\ sentinel'[u] = sentinel[u] /\ capacity'[u] = capacity[u]
        /\ capacity_ <= capacity_' /\ capacity_ \in Nat /\ capacity_' \in Nat
        /\ sentinels \subseteq sentinels' /\ indices[u] \in Seq(Index)
        /\ \A i \in Index : buckets_[i] # None => buckets_'[i] # None
    BY OthersStay, OnlyGrows, Types, CapacityFacts DEF IInv
  <1>1. Way(u)
    BY DEF IInv, Ways
  <1>2. Trail(u) => Trail(u)'
    <2>1. \A k \in 1 .. Len(indices[u]) : indices[u][k] \in Nat
      <3>1. \A k \in 1 .. Len(indices[u]) : indices[u][k] \in Index
        BY <1>0, ElementOfSeq
      <3> QED
        BY <3>1, CapacityFacts DEF Index
    <2>2. Trail(u) => \A k \in 1 .. Len(indices[u]) : indices[u][k] < capacity_'
      BY <1>0, <2>1 DEF Trail
    <2> QED
      BY <1>0, <2>2 DEF Trail
  <1>3. Trail(u) /\ Initializing(u) => Initializing(u)'
    <2>1. Trail(u) => indices[u][1] \in Index
      BY <1>0, Popped DEF Trail
    <2>2. Trail(u) /\ Initializing(u) => ParentIndex[indices[u][1]] \in Index
      BY <2>1, KeyTypes DEF Initializing
    <2> QED
      BY <1>0, <2>2 DEF Initializing
  <1> QED
    BY <1>0, <1>1, <1>2, <1>3 DEF Way, OnTheWay

\* A thread goes its way: from its element's bucket up to one that is there,
\* and back down, initializing each.
LEMMA GoesOn ==
  ASSUME IInv, NEW t \in Thread, Act(t)
  PROVE  Way(t)'
  <1>0. /\ pc \in [Thread -> Label] /\ arg \in [Thread -> Elem \cup {None}]
        /\ indices \in [Thread -> Seq(Index)] /\ sentinel \in [Thread -> Index \cup {None}]
        /\ capacity \in [Thread -> 0 .. max_capacity_]
        /\ capacity_ \in Nat \ {0} /\ capacity_ \in Capacities /\ max_capacity_ \in Nat
        /\ buckets_ \in [Index -> Index \cup {None}]
        /\ indices[t] \in Seq(Index) /\ Way(t)
    BY Types, CapacityFacts DEF IInv, Buckets, Ways
  <1>a. pc[t] \in OnTheWay =>
          /\ Trail(t) /\ indices[t] # <<>>
          /\ Len(indices[t]) \in Nat \ {0} /\ Head(indices[t]) = indices[t][1]
          /\ indices[t][1] \in Index
          /\ Tail(indices[t]) \in Seq(Index) /\ Len(Tail(indices[t])) = Len(indices[t]) - 1
          /\ \A k \in 1 .. Len(indices[t]) - 1 : Tail(indices[t])[k] = indices[t][k + 1]
    <2>1. pc[t] \in OnTheWay => Trail(t) /\ indices[t] # <<>>
      BY <1>0 DEF Way, Trail
    <2> QED
      BY <1>0, <2>1, Popped
  <1>1. CASE \E o \in Operation, e \in Elem : Call(t, o, e)
    <2>1. pc'[t] = "hash"
      BY <1>0, <1>1 DEF Call, Goto
    <2> QED
      BY <2>1 DEF Way, OnTheWay
  <1>2. CASE LoadCapacity(t)
    <2> DEFINE i == BucketIndex(arg[t], capacity_)
    <2>1. arg[t] \in Elem /\ arg' = arg /\ pc'[t] = "bucket" /\ indices'[t] = <<i>>
          /\ capacity_' = capacity_
      BY <1>0, <1>2 DEF LoadCapacity, Goto, call, counters, IInv, Calls
    <2>3. i \in 0 .. capacity_ - 1 /\ SentinelKey[i] < OrdinaryKey[arg[t]]
      BY <1>0, <2>1, BucketIsThere, KeysInOrder
    <2> HIDE DEF i
    <2>4. Len(<<i>>) = 1 /\ <<i>>[1] = i /\ <<i>> # <<>> /\ i < capacity_
      BY <1>0, <2>3
    <2>5. Trail(t)'
      BY <2>1, <2>3, <2>4 DEF Trail
    <2> QED
      BY <2>1, <2>5 DEF Way, OnTheWay
  <1>3. CASE NeedsParent(t)
    <2> DEFINE s == indices[t]
               i == s[1]
               p == ParentIndex[i]
    <2>1. /\ pc[t] = "bucket" /\ pc'[t] = "bucket" /\ arg' = arg /\ capacity_' = capacity_
          /\ indices'[t] = <<p>> \o s /\ buckets_[i] = None
      BY <1>0, <1>3, <1>a DEF NeedsParent, call, counters, OnTheWay
    <2>2. Trail(t) /\ i \in Index /\ Len(s) \in Nat \ {0} /\ s \in Seq(Index)
      BY <1>0, <1>a, <2>1 DEF OnTheWay
    <2>3. i # 0
      BY <2>1 DEF IInv, Buckets
    <2>4. p \in Index /\ p < i
      BY <2>2, <2>3, KeyTypes, KeysInOrder
    <2>5. i < capacity_
      BY <2>2 DEF Trail
    <2>6. p < capacity_
      <3>1. p \in Nat /\ i \in Nat
        BY <1>0, <2>2, <2>4 DEF Index
      <3> QED
        BY <1>0, <2>4, <2>5, <3>1
    <2> HIDE DEF p
    <2> DEFINE r == <<p>> \o s
    <2>7. /\ r # <<>> /\ Len(r) = Len(s) + 1 /\ r[1] = p
          /\ \A k \in 1 .. Len(s) : r[k + 1] = s[k]
      BY <2>2, <2>4, Pushed
    <2> HIDE DEF r
    <2>8. \A k \in 1 .. Len(r) : k = 1 \/ (k - 1 \in 1 .. Len(s) /\ r[k] = s[k - 1])
      <3> SUFFICES ASSUME NEW k \in 1 .. Len(r), k # 1
                   PROVE  k - 1 \in 1 .. Len(s) /\ r[k] = s[k - 1]
        OBVIOUS
      <3>1. k - 1 \in 1 .. Len(s) /\ (k - 1) + 1 = k
        BY <2>2, <2>7
      <3> QED
        BY <2>7, <3>1
    <2>9. \A k \in 1 .. Len(r) : r[k] < capacity_
      BY <2>2, <2>6, <2>7, <2>8 DEF Trail
    <2>10. \A k \in 1 .. Len(r) - 1 : r[k + 1] # 0 /\ r[k] = ParentIndex[r[k + 1]]
      <3> SUFFICES ASSUME NEW k \in 1 .. Len(r) - 1
                   PROVE  r[k + 1] # 0 /\ r[k] = ParentIndex[r[k + 1]]
        OBVIOUS
      <3>1. k \in 1 .. Len(s) /\ r[k + 1] = s[k]
        BY <2>2, <2>7
      <3>2. CASE k = 1
        BY <2>3, <2>7, <3>1, <3>2 DEF p
      <3>3. CASE k # 1
        <4>1. k - 1 \in 1 .. Len(s) - 1 /\ (k - 1) + 1 = k /\ r[k] = s[k - 1]
          BY <2>2, <2>7, <2>8, <3>1, <3>3
        <4>2. s[(k - 1) + 1] # 0 /\ s[k - 1] = ParentIndex[s[(k - 1) + 1]]
          BY <2>2, <4>1 DEF Trail
        <4> QED
          BY <3>1, <4>1, <4>2
      <3> QED
        BY <3>2, <3>3
    <2>11. r[Len(r)] = s[Len(s)]
      BY <2>2, <2>7
    <2>12. Trail(t)'
      <3>1. indices'[t] = r
        BY <2>1 DEF r
      <3> QED
        BY <2>1, <2>2, <2>7, <2>9, <2>10, <2>11, <3>1 DEF Trail
    <2> QED
      BY <2>1, <2>12 DEF Way, OnTheWay
  <1>4. CASE Initialized(t) \/ Publish(t)
    <2> DEFINE s == indices[t]
               i == s[1]
    <2>1. /\ pc[t] \in {"bucket", "publish"} /\ arg' = arg /\ capacity_' = capacity_
          /\ sentinels' = sentinels
          /\ indices'[t] = Tail(s)
          /\ pc'[t] = (IF Len(s) = 1 THEN "operate" ELSE "splice")
      BY <1>0, <1>4 DEF Initialized, Publish, Goto, call, counters, list
    <2>2. /\ Trail(t) /\ i \in Index /\ Len(s) \in Nat \ {0} /\ s \in Seq(Index)
          /\ Len(Tail(s)) = Len(s) - 1 /\ Tail(s) \in Seq(Index)
          /\ \A k \in 1 .. Len(s) - 1 : Tail(s)[k] = s[k + 1]
          /\ Head(s) = i
      BY <1>0, <1>a, <2>1 DEF OnTheWay
    <2>3. /\ sentinel'[t] = i /\ i \in sentinels /\ buckets_'[i] # None
          /\ \A j \in Index : buckets_[j] # None => buckets_'[j] # None
      <3>1. CASE Initialized(t)
        <4>1. buckets_[i] # None /\ buckets_' = buckets_ /\ sentinel'[t] = buckets_[i]
          BY <1>0, <2>2, <3>1 DEF Initialized
        <4>2. buckets_[i] = i /\ i \in sentinels
          BY <2>2, <4>1 DEF IInv, Buckets, PublishedInOrder
        <4> QED
          BY <4>1, <4>2
      <3>2. CASE Publish(t)
        <4>1. sentinel[t] = i /\ sentinel[t] \in sentinels /\ sentinel' = sentinel
          BY <1>0, <3>2 DEF Publish, Way, Initializing
        <4>2. i # None /\ buckets_'[i] = IF buckets_[i] = None THEN sentinel[t] ELSE buckets_[i]
          BY <1>0, <2>2, <3>2, NoneAssumption DEF Publish
        <4>3. \A j \in Index : buckets_[j] # None => buckets_'[j] # None
          BY OnlyGrows
        <4> QED
          BY <4>1, <4>2, <4>3
      <3> QED
        BY <1>4, <3>1, <3>2
    <2>4. CASE Len(s) = 1
      <3>1. pc'[t] = "operate" /\ SentinelKey[i] < OrdinaryKey[arg[t]]
        BY <2>1, <2>2, <2>4 DEF Trail
      <3> QED
        BY <2>1, <2>3, <3>1 DEF Way, OnTheWay
    <2>5. CASE Len(s) # 1
      <3> DEFINE r == Tail(s)
      <3>1. pc'[t] = "splice" /\ Len(s) \in Nat /\ Len(s) > 1
        <4>1. pc'[t] = "splice"
          BY <2>1, <2>5
        <4>2. Len(s) \in Nat \ {0}
          BY <2>2
        <4>3. \A n \in Nat \ {0} : n # 1 => n > 1
          OBVIOUS
        <4> QED
          BY <2>5, <4>1, <4>2, <4>3
      <3>2. 1 \in 1 .. Len(s) - 1 /\ r[1] = s[1 + 1] /\ r # <<>>
        <4>1. 1 \in 1 .. Len(s) - 1 /\ Len(r) # 0
          <5> DEFINE n == Len(s)
                     m == Len(r)
          <5>1. n \in Nat /\ n > 1
            BY <3>1
          <5>2. m = n - 1
            BY <2>2
          <5> HIDE DEF n, m
          <5>3. 1 \in 1 .. n - 1 /\ m # 0
            BY <5>1, <5>2
          <5> QED
            BY <5>3 DEF n, m
        <4>2. r # <<>>
          BY <2>2, <4>1, EmptySeq
        <4> QED
          BY <2>2, <4>1, <4>2
      <3>3. s[1 + 1] # 0 /\ i = ParentIndex[s[1 + 1]]
        BY <2>2, <3>2 DEF Trail
      <3>4. Initializing(t)'
        BY <2>1, <2>3, <3>1, <3>2, <3>3 DEF Initializing
      <3>5. \A k \in 1 .. Len(r) : k + 1 \in 1 .. Len(s) /\ r[k] = s[k + 1]
        BY <2>2, <3>1
      <3>6. \A k \in 1 .. Len(r) : r[k] < capacity_
        BY <2>2, <3>5 DEF Trail
      <3>7. \A k \in 1 .. Len(r) - 1 : r[k + 1] # 0 /\ r[k] = ParentIndex[r[k + 1]]
        <4> SUFFICES ASSUME NEW k \in 1 .. Len(r) - 1
                     PROVE  r[k + 1] # 0 /\ r[k] = ParentIndex[r[k + 1]]
          OBVIOUS
        <4>1. /\ k \in 1 .. Len(r) /\ k + 1 \in 1 .. Len(r) /\ k + 1 \in 1 .. Len(s) - 1
          BY <2>2, <3>1
        <4>2. r[k] = s[k + 1] /\ r[k + 1] = s[(k + 1) + 1]
          BY <3>5, <4>1
        <4>3. s[(k + 1) + 1] # 0 /\ s[k + 1] = ParentIndex[s[(k + 1) + 1]]
          BY <2>2, <4>1 DEF Trail
        <4> QED
          BY <4>2, <4>3
      <3>8. r[Len(r)] = s[Len(s)]
        <4>1. Len(r) \in 1 .. Len(r) /\ Len(r) + 1 = Len(s)
          BY <2>2, <3>1
        <4> QED
          BY <3>5, <4>1
      <3> HIDE DEF r
      <3>9. Trail(t)'
        <4>1. indices'[t] = r
          BY <2>1 DEF r
        <4> QED
          BY <2>1, <2>2, <3>2, <3>6, <3>7, <3>8, <4>1 DEF Trail
      <3> QED
        BY <3>1, <3>4, <3>9 DEF Way, OnTheWay
    <2> QED
      BY <2>4, <2>5
  <1>5. CASE SentinelFor(t)
    <2>1. /\ pc[t] = "splice" /\ pc'[t] = "publish" /\ indices' = indices /\ arg' = arg
          /\ capacity_' = capacity_ /\ buckets_' = buckets_
          /\ sentinel'[t] = indices[t][1] /\ indices[t][1] \in sentinels'
      BY <1>0, <1>5, <1>a DEF SentinelFor, Goto, call, counters, OnTheWay
    <2>2. Trail(t)'
      BY <1>a, <2>1 DEF Trail, OnTheWay
    <2>3. Initializing(t)'
      BY <1>0, <2>1 DEF Way, Initializing
    <2> QED
      BY <2>1, <2>2, <2>3 DEF Way, OnTheWay
  <1>6. CASE Operate(t) \/ OperateInVain(t) \/ ListThrows(t) \/ RemoveThrows(t) \/ Count(t)
             \/ Return(t)
    <2>1. pc'[t] \in {"count", "done", "resize", "idle"}
      BY <1>0, <1>6 DEF Operate, OperateInVain, ListThrows, RemoveThrows, Count, Return, Goto
    <2> QED
      BY <2>1 DEF Way, OnTheWay
  <1>7. CASE LoadForResize(t)
    <2>1. pc'[t] = "compare" /\ capacity'[t] = capacity_
      BY <1>0, <1>7 DEF LoadForResize, Goto
    <2> QED
      BY <1>0, <2>1 DEF Way, OnTheWay
  <1>8. CASE Compare(t) \/ Double(t)
    <2>1. /\ pc[t] = "compare" \/ pc'[t] = "done"
          /\ capacity' = capacity /\ pc'[t] \in {"double", "done"}
          /\ pc'[t] = "double" => capacity[t] < max_capacity_
      BY <1>0, <1>8 DEF Compare, Double, Goto, locals
    <2> QED
      BY <1>0, <2>1 DEF Way, OnTheWay
  <1> QED
    BY <1>1, <1>2, <1>3, <1>4, <1>5, <1>6, <1>7, <1>8 DEF Act, Step, GetBucketList,
       ResizeIfNecessary

LEMMA WaysStay ==
  ASSUME IInv, NEW t \in Thread, Act(t)
  PROVE  Ways'
  BY OthersGoOn, GoesOn DEF Ways

-----------------------------------------------------------------------------
\* The operation on the list finds its element if and only if it is there.
LEMMA FoundIfThere ==
  ASSUME IInv, NEW t \in Thread, pc[t] = "operate"
  PROVE  Found(t) <=> arg[t] \in set
  BY DEF Found, IInv, Ways, Way

\* What the steps do to the set.
LEMMA SetChanges ==
  ASSUME IInv, NEW t \in Thread, Act(t)
  PROVE  /\ Operate(t) /\ op[t] = "Add" => arg[t] \notin set /\ set' = set \cup {arg[t]}
         /\ Operate(t) /\ op[t] # "Add" =>
              op[t] = "Remove" /\ arg[t] \in set /\ set' = set \ {arg[t]}
         /\ RemoveThrows(t) => op[t] = "Remove" /\ arg[t] \in set /\ set' = set \ {arg[t]}
         /\ ~Operate(t) /\ ~RemoveThrows(t) => set' = set
  <1>1. CASE Operate(t) \/ RemoveThrows(t)
    <2>1. /\ Found(t) <=> arg[t] \in set
          /\ Operate(t) => op[t] = "Add" \/ op[t] = "Remove"
          /\ Operate(t) /\ op[t] = "Add" => ~Found(t) /\ set' = set \cup {arg[t]}
          /\ Operate(t) /\ op[t] = "Remove" => Found(t) /\ set' = set \ {arg[t]}
          /\ RemoveThrows(t) => op[t] = "Remove" /\ Found(t) /\ set' = set \ {arg[t]}
      BY <1>1, FoundIfThere DEF Operate, RemoveThrows
    <2> QED
      BY <1>1, <2>1
  <1>2. CASE ~Operate(t) /\ ~RemoveThrows(t)
    <2>1. set' = set
      BY <1>2 DEF Act, Step, GetBucketList, ResizeIfNecessary, Call, LoadCapacity, Initialized,
             NeedsParent, SentinelFor, Publish, OperateInVain, ListThrows, Count,
             LoadForResize, Compare, Double, Return, list
    <2> QED
      BY <1>2, <2>1
  <1> QED
    BY <1>1, <1>2

LEMMA SeesStay ==
  ASSUME IInv, NEW t \in Thread, Act(t)
  PROVE  Sees'
  <1> SUFFICES ASSUME NEW u \in Thread, op'[u] # "none"
               PROVE  /\ arg'[u] \in set' => TRUE \in seen'[u]
                      /\ arg'[u] \notin set' => FALSE \in seen'[u]
    BY DEF Sees
  <1>1. ASSUME NEW o \in Operation, NEW e \in Elem, Call(t, o, e)
        PROVE  /\ arg'[u] \in set' => TRUE \in seen'[u]
               /\ arg'[u] \notin set' => FALSE \in seen'[u]
    <2>0. set' = set
      BY <1>1 DEF Call, list
    <2>1. CASE u = t
      <3>1. arg'[u] = e /\ seen'[u] = {(e \in set)}
        BY <1>1, <2>1, Types DEF Call, IInv
      <3>2. CASE e \in set
        BY <2>0, <3>1, <3>2
      <3>3. CASE e \notin set
        <4>1. (e \in set) = FALSE
          BY <3>3
        <4>2. {(e \in set)} = {FALSE}
          BY ONLY <4>1
        <4> QED
          BY <2>0, <3>1, <3>3, <4>2
      <3> QED
        BY <3>2, <3>3
    <2>2. CASE u # t
      BY <1>1, <2>0, <2>2, Types DEF Call, IInv, Sees
    <2> QED
      BY <2>1, <2>2
  <1>2. CASE Operate(t) /\ op[t] = "Add"
    <2>1. arg' = arg /\ op' = op /\ set' = set \cup {arg[t]}
      BY <1>2, SetChanges DEF Operate, call
    <2>2. (op[t] = "Add") = TRUE
      BY <1>2
    <2>3. seen'[u] = IF arg[u] = arg[t] THEN seen[u] \cup {TRUE} ELSE seen[u]
      <3>1. seen'[u] = IF arg[u] = arg[t] THEN seen[u] \cup {(op[t] = "Add")} ELSE seen[u]
        BY <1>2 DEF Operate, Observe
      <3>2. {(op[t] = "Add")} = {TRUE}
        BY ONLY <2>2
      <3> QED
        BY <3>1, <3>2
    <2> QED
      BY <2>1, <2>3 DEF IInv, Sees
  <1>3. CASE (Operate(t) /\ op[t] # "Add") \/ RemoveThrows(t)
    <2>1. arg' = arg /\ op' = op /\ set' = set \ {arg[t]}
      BY <1>3, SetChanges DEF Operate, RemoveThrows, call
    <2>2. (op[t] = "Add") = FALSE
      BY <1>3, SetChanges
    <2>3. seen'[u] = IF arg[u] = arg[t] THEN seen[u] \cup {FALSE} ELSE seen[u]
      <3>1. CASE Operate(t)
        <4>1. seen'[u] = IF arg[u] = arg[t] THEN seen[u] \cup {(op[t] = "Add")} ELSE seen[u]
          BY <3>1 DEF Operate, Observe
        <4>2. {(op[t] = "Add")} = {FALSE}
          BY ONLY <2>2
        <4> QED
          BY <4>1, <4>2
      <3>2. CASE RemoveThrows(t)
        BY <3>2 DEF RemoveThrows, Observe
      <3> QED
        BY <1>3, <3>1, <3>2
    <2> QED
      BY <2>1, <2>3 DEF IInv, Sees
  <1>4. CASE Return(t)
    <2>1. set' = set /\ u # t /\ arg'[u] = arg[u] /\ op'[u] = op[u] /\ seen'[u] = seen[u]
      BY <1>4, Types DEF Return, list, IInv
    <2> QED
      BY <2>1 DEF IInv, Sees
  <1>5. CASE Step(t) /\ ~Operate(t) /\ ~RemoveThrows(t) /\ ~Return(t)
    <2>1. set' = set
      BY <1>5, SetChanges
    <2>2. arg' = arg /\ op' = op /\ seen' = seen
      BY <1>5 DEF Step, GetBucketList, ResizeIfNecessary, LoadCapacity, Initialized,
             NeedsParent, SentinelFor, Publish, OperateInVain, ListThrows, Count,
             LoadForResize, Compare, Double, call
    <2> QED
      BY <2>1, <2>2 DEF IInv, Sees
  <1> QED
    BY <1>1, <1>2, <1>3, <1>4, <1>5 DEF Act

-----------------------------------------------------------------------------
\* How many threads are counting is one more, one less or as before.
LEMMA CountingChanges ==
  ASSUME IInv, NEW t \in Thread, Act(t)
  PROVE  /\ pc[t] # "count" /\ pc'[t] = "count" /\ op' = op =>
              \A o \in {"Add", "Remove"} :
                Counting(o)' = IF o = op[t] THEN Counting(o) + 1 ELSE Counting(o)
         /\ pc[t] = "count" /\ pc'[t] # "count" /\ op' = op =>
              \A o \in {"Add", "Remove"} :
                Counting(o)' = IF o = op[t] THEN Counting(o) - 1 ELSE Counting(o)
         /\ pc[t] # "count" /\ pc'[t] # "count" =>
              \A o \in {"Add", "Remove"} : Counting(o)' = Counting(o)
  <1> DEFINE T(o) == {u \in Thread : pc[u] = "count" /\ op[u] = o}
             N(o) == {u \in Thread : pc'[u] = "count" /\ op'[u] = o}
  <1>0. \A u \in Thread \ {t} : pc'[u] = pc[u] /\ op'[u] = op[u]
    BY OthersStay
  <1>1. \A o \in {"Add", "Remove"} :
          IsFiniteSet(T(o)) /\ Counting(o) = Cardinality(T(o)) /\ Counting(o)' = Cardinality(N(o))
    BY FiniteSets DEF Counting
  <1>2. ASSUME pc[t] # "count", pc'[t] = "count", op' = op, NEW o \in {"Add", "Remove"}
        PROVE  Counting(o)' = IF o = op[t] THEN Counting(o) + 1 ELSE Counting(o)
    <2>1. N(o) = IF o = op[t] THEN T(o) \cup {t} ELSE T(o)
      BY <1>0, <1>2
    <2>2. t \notin T(o)
      BY <1>2
    <2> HIDE DEF T, N
    <2>3. Cardinality(T(o) \cup {t}) = Cardinality(T(o)) + 1
      BY <1>1, <2>2, FS_AddElement
    <2> QED
      BY <1>1, <2>1, <2>3
  <1>3. ASSUME pc[t] = "count", pc'[t] # "count", op' = op, NEW o \in {"Add", "Remove"}
        PROVE  Counting(o)' = IF o = op[t] THEN Counting(o) - 1 ELSE Counting(o)
    <2>1. N(o) = IF o = op[t] THEN T(o) \ {t} ELSE T(o)
      BY <1>0, <1>3
    <2>2. o = op[t] => t \in T(o)
      BY <1>3
    <2> HIDE DEF T, N
    <2>3. o = op[t] => Cardinality(T(o) \ {t}) = Cardinality(T(o)) - 1
      BY <1>1, <2>2, FS_RemoveElement
    <2> QED
      BY <1>1, <2>1, <2>3
  <1>4. ASSUME pc[t] # "count", pc'[t] # "count", NEW o \in {"Add", "Remove"}
        PROVE  Counting(o)' = Counting(o)
    <2>1. N(o) = T(o)
      BY <1>0, <1>4
    <2> HIDE DEF T, N
    <2> QED
      BY <1>1, <2>1
  <1> QED
    BY <1>2, <1>3, <1>4

\* The counter follows the elements, modulo its width.
LEMMA SizeStaysRight ==
  ASSUME IInv, NEW t \in Thread, Act(t)
  PROVE  SizeAgrees'
  <1> DEFINE L == SizeLimit
             A == Counting("Add")
             R == Counting("Remove")
             C == Cardinality(set)
             S == set_size_
             U == uncounted
  <1>0. /\ L \in Nat \ {0} /\ A \in Int /\ R \in Int /\ C \in Int /\ S \in Int /\ U \in Int
        /\ (S + A) % L = (C + R + U) % L
        /\ pc \in [Thread -> Label] /\ IsFiniteSet(set)
    BY LimitFacts, FiniteSets, Types DEF IInv, SizeAgrees, TypeOK
  <1>l. L \in Nat \ {0}
    BY <1>0
  <1>f. IsFiniteSet(set)
    BY <1>0
  <1>1. SizeAgrees' <=> (S' + A') % L = (C' + R' + U') % L
    BY DEF SizeAgrees
  <1>2. CASE Operate(t)
    <2>1. /\ pc[t] # "count" /\ pc'[t] = "count" /\ op' = op /\ S' = S /\ U' = U
          /\ op[t] \in {"Add", "Remove"}
      BY <1>0, <1>2 DEF Operate, Goto, call, counters
    <2>2. \A o \in {"Add", "Remove"} :
            Counting(o)' = IF o = op[t] THEN Counting(o) + 1 ELSE Counting(o)
      BY <2>1, CountingChanges
    <2>3. CASE op[t] = "Add"
      <3>1. C' = C + 1
        BY <1>2, <1>f, <2>3, SetChanges, FS_AddElement
      <3>2. A' = A + 1 /\ R' = R
        BY <2>2, <2>3
      <3> HIDE DEF L, A, R, C, S, U
      <3> DEFINE h == S + A
                 g == C + R + U
      <3>3. h \in Int /\ g \in Int /\ h % L = g % L
        BY <1>0
      <3>5. S' + A' = h + 1 /\ C' + R' + U' = g + 1
        BY <1>0, <2>1, <3>1, <3>2
      <3> HIDE DEF h, g
      <3>4. (h + 1) % L = (g + 1) % L
        <4>1. ASSUME NEW d \in Int PROVE (h + d) % L = (g + d) % L
          BY <1>l, <3>3, SameRemainder, Zenon
        <4> QED
          BY <4>1
      <3> QED
        BY <1>1, <3>4, <3>5
    <2>4. CASE op[t] = "Remove"
      <3>1. C' = C - 1
        BY <1>2, <1>f, <2>4, SetChanges, FS_RemoveElement
      <3>2. A' = A /\ R' = R + 1
        BY <2>2, <2>4
      <3> HIDE DEF L, A, R, C, S, U
      <3>3. S' + A' = S + A /\ C' + R' + U' = C + R + U
        BY <1>0, <2>1, <3>1, <3>2
      <3> QED
        BY <1>0, <1>1, <3>3
    <2> QED
      BY <2>1, <2>3, <2>4
  <1>3. CASE RemoveThrows(t)
    <2>1. /\ pc[t] # "count" /\ pc'[t] # "count" /\ S' = S /\ U' = (U + 1) % L
      BY <1>0, <1>3 DEF RemoveThrows, Goto, counters
    <2>2. A' = A /\ R' = R
      BY <2>1, CountingChanges
    <2>3. C' = C - 1
      BY <1>3, <1>f, SetChanges, FS_RemoveElement
    <2> HIDE DEF L, A, R, C, S, U
    <2>4. U + 1 \in Int /\ C - 1 + R \in Int /\ (U + 1) % L \in Int
      BY <1>0, DivMod
    <2>5. (((U + 1) % L) + (C - 1 + R)) % L = ((U + 1) + (C - 1 + R)) % L
      BY <1>0, <2>4, RemainderOfSum
    <2>6. /\ C' + R' + U' = ((U + 1) % L) + (C - 1 + R)
          /\ (U + 1) + (C - 1 + R) = C + R + U
      BY <1>0, <2>1, <2>2, <2>3, <2>4
    <2> QED
      BY <1>0, <1>1, <2>1, <2>2, <2>5, <2>6
  <1>4. CASE Count(t)
    <2>1. /\ pc[t] = "count" /\ pc'[t] # "count" /\ op' = op /\ U' = U /\ C' = C
          /\ op[t] \in {"Add", "Remove"}
          /\ S' = (IF op[t] = "Add" THEN S + 1 ELSE S - 1) % L
      BY <1>0, <1>4 DEF Count, Goto, call, list, IInv, Calls
    <2>2. \A o \in {"Add", "Remove"} :
            Counting(o)' = IF o = op[t] THEN Counting(o) - 1 ELSE Counting(o)
      BY <2>1, CountingChanges
    <2>3. CASE op[t] = "Add"
      <3>1. A' = A - 1 /\ R' = R /\ S' = (S + 1) % L
        BY <2>1, <2>2, <2>3
      <3> HIDE DEF L, A, R, C, S, U
      <3>2. S + 1 \in Int /\ A - 1 \in Int
        BY <1>0
      <3>3. (((S + 1) % L) + (A - 1)) % L = ((S + 1) + (A - 1)) % L
        BY <1>0, <3>2, RemainderOfSum
      <3>4. (S + 1) + (A - 1) = S + A
        BY <1>0
      <3> QED
        BY <1>0, <1>1, <2>1, <3>1, <3>3, <3>4
    <2>4. CASE op[t] = "Remove"
      <3>1. A' = A /\ R' = R - 1 /\ S' = (S - 1) % L
        BY <2>1, <2>2, <2>4
      <3> HIDE DEF L, A, R, C, S, U
      <3> DEFINE h == S + A
                 g == C + R + U
      <3>2. S - 1 \in Int /\ h \in Int /\ g \in Int /\ h % L = g % L
        BY <1>0
      <3>3. (((S - 1) % L) + A) % L = ((S - 1) + A) % L
        BY <1>0, <3>2, RemainderOfSum
      <3>5. (S - 1) + A = h - 1 /\ C' + R' + U' = g - 1
        BY <1>0, <2>1, <3>1
      <3> HIDE DEF h, g
      <3>4. (h - 1) % L = (g - 1) % L
        <4>1. ASSUME NEW d \in Int PROVE (h + d) % L = (g + d) % L
          BY <1>l, <3>2, SameRemainder, Zenon
        <4>2. (h + -1) % L = (g + -1) % L
          BY <4>1
        <4> QED
          BY <3>2, <4>2
      <3> QED
        BY <1>1, <3>1, <3>3, <3>4, <3>5
    <2> QED
      BY <2>1, <2>3, <2>4
  <1>5. CASE ~Operate(t) /\ ~RemoveThrows(t) /\ ~Count(t)
    <2>1. S' = S /\ U' = U /\ set' = set
      BY <1>5, SetChanges DEF Act, Step, GetBucketList, ResizeIfNecessary, Call, LoadCapacity,
             Initialized, NeedsParent, SentinelFor, Publish, OperateInVain, ListThrows,
             LoadForResize, Compare, Double, Return, counters
    <2>2. pc[t] # "count" /\ pc'[t] # "count"
      <3>1. CASE NeedsParent(t)
        BY <1>0, <3>1 DEF NeedsParent
      <3>2. CASE ~NeedsParent(t)
        BY <1>0, <1>5, <3>2 DEF Act, Step, GetBucketList, ResizeIfNecessary, Call, LoadCapacity,
               Initialized, SentinelFor, Publish, OperateInVain, ListThrows, LoadForResize,
               Compare, Double, Return, Goto
      <3> QED
        BY <3>1, <3>2
    <2>3. A' = A /\ R' = R
      BY <2>2, CountingChanges
    <2> QED
      BY <1>0, <1>1, <2>1, <2>3
  <1> QED
    BY <1>2, <1>3, <1>4, <1>5

-----------------------------------------------------------------------------
LEMMA InitIInv == Init => IInv
  <1> SUFFICES ASSUME Init PROVE IInv
    OBVIOUS
  <1>0. /\ initial_capacity \in Capacities /\ initial_capacity \in 1 .. max_capacity_
        /\ max_capacity_ \in Nat \ {0} /\ 0 \in Index /\ None \notin Index
    BY CapacityFacts, NoneAssumption DEF Index
  <1>1. TypeOK
    <2>1. 0 \in 0 .. SizeLimit - 1
      BY LimitFacts
    <2>2. <<>> \in Seq(Index)
      OBVIOUS
    <2> QED
      BY <1>0, <2>1, <2>2 DEF Init, TypeOK, Label
  <1>2. Calls /\ Ways /\ Sees
    BY DEF Init, Calls, Ways, Way, Sees, Unsettled, OnTheWay
  <1>3. Buckets
    BY <1>0 DEF Init, Buckets, PublishedInOrder
  <1>4. SizeAgrees
    <2>1. Counting("Add") = Cardinality({}) /\ Counting("Remove") = Cardinality({})
      BY DEF Init, Counting
    <2> QED
      BY <2>1, FS_EmptySet DEF SizeAgrees, Init
  <1> QED
    BY <1>1, <1>2, <1>3, <1>4 DEF IInv

LEMMA Inductive == IInv /\ [Next]_vars => IInv'
  <1>1. ASSUME IInv, Next
        PROVE  IInv'
    <2>1. PICK t \in Thread : Act(t)
      BY <1>1 DEF Next, Act
    <2> QED
      BY <1>1, <2>1, TypesStay, CallsStay, WaysStay, BucketsStay, SeesStay, SizeStaysRight
         DEF IInv
  <1>2. ASSUME IInv, UNCHANGED vars
        PROVE  IInv'
    <2> USE <1>2 DEF IInv, vars, list, counters, call, locals
    <2>1. TypeOK' /\ Calls'
      BY DEF TypeOK, Calls
    <2>2. Ways'
      BY DEF Ways, Way, Trail, Initializing
    <2>3. Buckets' /\ Sees' /\ SizeAgrees'
      BY DEF Buckets, PublishedInOrder, Sees, SizeAgrees, Counting
    <2> QED
      BY <2>1, <2>2, <2>3
  <1> QED
    BY <1>1, <1>2

LEMMA Invariant == Spec => []IInv
  BY InitIInv, Inductive, PTL DEF Spec

-----------------------------------------------------------------------------
\* Every variable has its type: the capacity never exceeds the last, and no index
\* that a thread goes to is beyond it.
THEOREM TypeCorrect == Spec => []TypeOK
  <1>1. IInv => TypeOK
    BY DEF IInv
  <1> QED
    BY <1>1, Invariant, PTL

\* Whatever capacity a thread has read, and however often it has doubled since:
\* an operation starts from a sentinel before its element, and a sentinel is
\* spliced in after its parent's.
THEOREM StartsBeforeItsPlace == Spec => []StartsBefore
  <1>1. IInv => StartsBefore
    <2> SUFFICES ASSUME IInv, NEW t \in Thread
                 PROVE  /\ pc[t] = "operate" =>
                             /\ sentinel[t] \in sentinels
                             /\ SentinelKey[sentinel[t]] < OrdinaryKey[arg[t]]
                        /\ pc[t] = "splice" =>
                             /\ sentinel[t] \in sentinels
                             /\ SentinelKey[sentinel[t]] <= SentinelKey[Head(indices[t])]
      BY DEF StartsBefore
    <2>1. Way(t) /\ indices[t] \in Seq(Index)
      BY Types DEF IInv, Ways
    <2>2. CASE pc[t] = "splice"
      <3>1. /\ indices[t] # <<>> /\ indices[t][1] # 0 /\ sentinel[t] \in sentinels
            /\ sentinel[t] = ParentIndex[indices[t][1]]
        BY <2>1, <2>2 DEF Way, OnTheWay, Trail, Initializing
      <3>2. Head(indices[t]) = indices[t][1] /\ indices[t][1] \in Index
        BY <2>1, <3>1, Popped
      <3>3. \A j \in Index \ {0} : SentinelKey[ParentIndex[j]] <= SentinelKey[j]
        <4> SUFFICES ASSUME NEW j \in Index \ {0}
                     PROVE  SentinelKey[ParentIndex[j]] <= SentinelKey[j]
          OBVIOUS
        <4>1. SentinelKey[ParentIndex[j]] \in Nat /\ SentinelKey[j] \in Nat
          BY KeyTypes
        <4>2. SentinelKey[ParentIndex[j]] < SentinelKey[j]
          BY KeysInOrder
        <4> QED
          BY <4>1, <4>2
      <3> QED
        BY <2>2, <3>1, <3>2, <3>3
    <2> QED
      BY <2>1, <2>2 DEF Way
  <1> QED
    BY <1>1, Invariant, PTL

\* A bucket is published once its sentinel is linked in, its parent's before it,
\* and only if an element of the current capacity needs it.
THEOREM BucketsArePublishedInOrder == Spec => []PublishedInOrder
  <1>1. IInv => PublishedInOrder
    BY DEF IInv, Buckets
  <1> QED
    BY <1>1, Invariant, PTL

\* Size() is off by the changes not yet counted, and by those whose Remove()
\* threw, and by nothing else.
THEOREM SizeIsTheNumberOfElements == Spec => []SizeAgrees
  <1>1. IInv => SizeAgrees
    BY DEF IInv
  <1> QED
    BY <1>1, Invariant, PTL

-----------------------------------------------------------------------------
\* An operation that changes the list takes effect at that moment, whether or
\* not Remove() throws after it,
LEMMA ChangesTakeEffect ==
  ASSUME IInv, NEW t \in Thread, Operate(t) \/ RemoveThrows(t)
  PROVE  Base!TakeEffect(t)
  <1>1. /\ pc[t] = "operate" /\ answer' = [answer EXCEPT ![t] = {TRUE}]
        /\ op' = op /\ arg' = arg
    BY DEF Operate, RemoveThrows, Settle, call
  <1>2. answer[t] = {} /\ arg[t] \in Elem /\ op[t] \in Operation
    BY <1>1 DEF IInv, Calls, Unsettled
  <1>3. \A u \in Thread : arg[u] = arg[t] <=> u \in Base!Asking(arg[t])
    BY <1>2, Types DEF IInv, Calls, Base!Asking, Operation
  <1>4. ASSUME NEW b \in BOOLEAN, Observe(arg[t], b), (arg[t] \in set') = b
        PROVE  seen' = [u \in Thread |-> IF u \in Base!Asking(arg[t])
                                           THEN seen[u] \cup {(arg[t] \in set')} ELSE seen[u]]
    <2>1. {(arg[t] \in set')} = {b}
      BY ONLY <1>4
    <2> QED
      BY <1>3, <1>4, <2>1 DEF Observe
  <1>5. Act(t)
    BY DEF Act, Step
  <1>6. CASE Operate(t) /\ op[t] = "Add"
    <2>1. arg[t] \notin set /\ set' = set \cup {arg[t]}
      BY <1>5, <1>6, SetChanges
    <2>2. (arg[t] \in set') = TRUE
      BY <2>1
    <2>3. (op[t] = "Add") = TRUE
      BY <1>6
    <2>4. Observe(arg[t], op[t] = "Add")
      BY <1>6 DEF Operate
    <2>5. seen' = [u \in Thread |-> IF u \in Base!Asking(arg[t])
                                      THEN seen[u] \cup {(arg[t] \in set')} ELSE seen[u]]
      BY <1>4, <2>2, <2>3, <2>4
    <2> QED
      BY <1>1, <1>2, <1>6, <2>1, <2>5 DEF Base!TakeEffect
  <1>7. CASE (Operate(t) /\ op[t] # "Add") \/ RemoveThrows(t)
    <2>1. op[t] = "Remove" /\ arg[t] \in set /\ set' = set \ {arg[t]}
      BY <1>5, <1>7, SetChanges
    <2>2. (arg[t] \in set') = FALSE
      BY <2>1
    <2>3. (op[t] = "Add") = FALSE
      BY <2>1
    <2>4. Observe(arg[t], FALSE)
      <3>1. CASE Operate(t)
        BY <2>3, <3>1 DEF Operate
      <3>2. CASE RemoveThrows(t)
        BY <3>2 DEF RemoveThrows
      <3> QED
        BY <3>1, <3>2
    <2>5. seen' = [u \in Thread |-> IF u \in Base!Asking(arg[t])
                                      THEN seen[u] \cup {(arg[t] \in set')} ELSE seen[u]]
      BY <1>4, <2>2, <2>4
    <2> QED
      BY <1>1, <1>2, <2>1, <2>5 DEF Base!TakeEffect
  <1> QED
    BY <1>6, <1>7

\* one that does not answers what it has just seen,
LEMMA OthersAnswer ==
  ASSUME IInv, NEW t \in Thread, OperateInVain(t)
  PROVE  Base!Answer(t)
  <1>1. /\ pc[t] = "operate" /\ set' = set /\ op' = op /\ arg' = arg /\ seen' = seen
        /\ answer' = [answer EXCEPT ![t] = {(op[t] = "Contains" /\ Found(t))}]
    BY DEF OperateInVain, Settle, list, call
  <1>2. /\ answer[t] = {} /\ op[t] \in Operation
        /\ Found(t) <=> arg[t] \in set
        /\ arg[t] \in set => TRUE \in seen[t]
        /\ arg[t] \notin set => FALSE \in seen[t]
    BY <1>1, FoundIfThere DEF IInv, Calls, Unsettled, Sees, Operation
  <1>3. /\ op[t] = "Add" => Found(t)
        /\ op[t] = "Remove" => ~Found(t)
    BY DEF OperateInVain
  <1> DEFINE found == op[t] = "Contains" /\ Found(t)
  <1>4. CASE found
    <2>1. found = TRUE
      BY <1>4
    <2>2. {found} = {TRUE}
      BY ONLY <2>1
    <2>3. answer' = [answer EXCEPT ![t] = {TRUE}]
      BY <1>1, <2>2
    <2> QED
      BY <1>1, <1>2, <1>4, <2>3 DEF Base!Answer
  <1>5. CASE ~found
    <2>1. found = FALSE
      BY <1>5
    <2>2. {found} = {FALSE}
      BY ONLY <2>1
    <2>3. answer' = [answer EXCEPT ![t] = {FALSE}]
      BY <1>1, <2>2
    <2> QED
      BY <1>1, <1>2, <1>3, <1>5, <2>3 DEF Base!Answer, Operation
  <1> QED
    BY <1>4, <1>5

\* calls and returns are calls and returns,
LEMMA CallsAndReturns ==
  ASSUME IInv, NEW t \in Thread
  PROVE  /\ \A o \in Operation, e \in Elem : Call(t, o, e) => Base!Call(t, o, e)
         /\ Return(t) => Base!Return(t)
  <1>1. ASSUME NEW o \in Operation, NEW e \in Elem, Call(t, o, e)
        PROVE  Base!Call(t, o, e)
    BY <1>1 DEF Call, Base!Call, list, IInv, Calls
  <1>2. ASSUME Return(t)
        PROVE  Base!Return(t)
    <2>1. set' = set /\ op[t] \in Operation /\ (answer[t] # {} \/ Failures # {})
      BY <1>2 DEF Return, list, IInv, Calls, Unsettled
    <2> QED
      BY <1>2, <2>1 DEF Return, Base!Return, Operation
  <1> QED
    BY <1>1, <1>2

\* and nothing else can be noticed, the initialization of a bucket included.
LEMMA StepsAreSteps == IInv /\ [Next]_vars => [Base!Next]_Base!vars
  <1>1. ASSUME IInv, NEW t \in Thread, Act(t)
        PROVE  Base!Next \/ UNCHANGED Base!vars
    <2>1. CASE \E o \in Operation, e \in Elem : Call(t, o, e)
      BY <1>1, <2>1, CallsAndReturns DEF Base!Next, Operation, Base!Operation
    <2>2. CASE Operate(t) \/ RemoveThrows(t)
      BY <1>1, <2>2, ChangesTakeEffect DEF Base!Next
    <2>3. CASE OperateInVain(t)
      BY <1>1, <2>3, OthersAnswer DEF Base!Next
    <2>4. CASE Return(t)
      BY <1>1, <2>4, CallsAndReturns DEF Base!Next
    <2>5. CASE /\ Step(t) /\ ~Operate(t) /\ ~RemoveThrows(t) /\ ~OperateInVain(t)
               /\ ~Return(t)
      <3>1. set' = set
        BY <1>1, <2>5, SetChanges
      <3>2. op' = op /\ arg' = arg /\ answer' = answer /\ seen' = seen
        BY <2>5 DEF Step, GetBucketList, ResizeIfNecessary, LoadCapacity, Initialized,
               NeedsParent, SentinelFor, Publish, ListThrows, Count, LoadForResize,
               Compare, Double, call
      <3> QED
        BY <3>1, <3>2 DEF Base!vars
    <2> QED
      BY <1>1, <2>1, <2>2, <2>3, <2>4, <2>5 DEF Act
  <1>2. ASSUME UNCHANGED vars
        PROVE  UNCHANGED Base!vars
    BY <1>2 DEF vars, list, call, Base!vars
  <1> QED
    BY <1>1, <1>2 DEF Next, Act

\* Whatever the threads, the elements, their hashes and the capacities, of keys
\* that are in order: every operation takes effect at one moment of its call,
\* or, when it changes nothing, answers what was right at some such moment.
THEOREM LockFreeIsASet == Spec => IsASet
  <1>1. Init => Base!Init
    BY DEF Init, Base!Init
  <1> QED
    BY <1>1, Invariant, StepsAreSteps, PTL DEF Spec, IsASet, Base!Spec

-----------------------------------------------------------------------------
\* How much a call has still to do.

\* The bits of the largest index and one more: the capacity is a power of two.
Depth == CHOOSE d \in Nat : 2 ^ d = 2 * max_capacity_

\* The steps that a thread has at most still to do.  Of those in GetBucketList()
\* one is for each parent that is needed, and two are for each that is initialized.
StepsLeft(t) ==
  CASE pc[t] = "hash" -> 3 * Depth + 5
    [] pc[t] = "bucket" -> 3 * Depth - Len(indices[t]) + 5
    [] pc[t] = "splice" -> 2 * Len(indices[t]) + 6
    [] pc[t] = "publish" -> 2 * Len(indices[t]) + 5
    [] pc[t] = "operate" -> 6
    [] pc[t] = "count" -> 5
    [] pc[t] = "resize" -> 4
    [] pc[t] = "compare" -> 3
    [] pc[t] = "double" -> 2
    [] pc[t] = "done" -> 1
    [] OTHER -> 0

\* GetBucketList() has called itself no more often than an index has bits.
Shallow == \A t \in Thread : pc[t] \in OnTheWay => Len(indices[t]) <= Depth

StepsAreFew == \A t \in Thread : StepsLeft(t) \in 0 .. 3 * Depth + 5

\* A step takes its thread nearer to the end of its call, and no other further
\* from its own.
EveryStepCounts ==
  [][\A t \in Thread :
       /\ Step(t) => StepsLeft(t)' < StepsLeft(t)
       /\ Act(t) => \A u \in Thread \ {t} : StepsLeft(u)' = StepsLeft(u)]_vars

-----------------------------------------------------------------------------
\* Every parent is less than half of its child.
Halving(t) ==
  \A k \in 1 .. Len(indices[t]) :
    indices[t][k] * 2 ^ (Len(indices[t]) - k) < max_capacity_

\* The logarithm of the largest capacity, and one.
LEMMA DepthIs == Depth \in Nat \ {0} /\ 2 ^ Depth = 2 * max_capacity_
  <1>1. PICK j \in 0 .. max_capacity_ : max_capacity_ = 2 ^ j
    BY CapacityAssumption
  <1>2. j + 1 \in Nat /\ 2 ^ (j + 1) = 2 * max_capacity_
    BY <1>1, CapacityFacts, PowerDoubles
  <1>3. Depth \in Nat /\ 2 ^ Depth = 2 * max_capacity_
    BY <1>2 DEF Depth
  <1>4. Depth # 0
    <2>1. max_capacity_ \in Nat \ {0}
      BY CapacityFacts
    <2>2. Depth = 0 => 2 ^ 0 = 2 * max_capacity_
      BY <1>3
    <2> QED
      BY <2>1, <2>2, PowerOfZero
  <1> QED
    BY <1>3, <1>4

\* What is left without the highest bit is less than that bit.
LEMMA ParentIsLessThanHalf ==
  ASSUME NEW i \in Index \ {0}
  PROVE  ParentIndex[i] \in Index /\ 2 * ParentIndex[i] < i
  <1>1. i \in Nat /\ i \in 1 .. 2 ^ kKeyBits - 1 /\ kKeyBits \in Nat
    BY IndexIsBelow, kMaxBucketsIsBelow, Width
  <1>2. PICK k \in Bit : BitFloor(i) = 2 ^ k /\ 2 ^ k <= i /\ i < 2 ^ (k + 1)
    BY <1>1, BitFloorIs
  <1>3. k \in Nat
    BY <1>1, <1>2 DEF Bit
  <1>4. 2 ^ k \in Nat /\ 2 ^ (k + 1) = 2 * 2 ^ k
    BY <1>3, PowerTypes
  <1>5. ParentIndex[i] = i - 2 ^ k
    BY <1>2 DEF ParentIndex, GetParentIndex
  <1>6. 2 * (i - 2 ^ k) < i
    BY <1>1, <1>2, <1>4
  <1> QED
    BY <1>5, <1>6, KeyTypes

LEMMA Multiplied ==
  ASSUME NEW i \in Nat, NEW p \in Nat, 2 * p < i, NEW n \in Nat, NEW m \in Nat,
         i * 2 ^ n < m
  PROVE  p * 2 ^ (n + 1) < m
  <1>1. 2 ^ n \in Nat \ {0} /\ 2 ^ (n + 1) = 2 * 2 ^ n
    BY PowerTypes
  <1> DEFINE q == 2 ^ n
  <1>2. p * 2 ^ (n + 1) = (2 * p) * q
    BY <1>1
  <1>3. q \in Nat \ {0} /\ i * q < m
    BY <1>1
  <1> HIDE DEF q
  <1>4. (2 * p) * q <= i * q
    BY <1>3
  <1>5. (2 * p) * q \in Nat /\ i * q \in Nat
    BY <1>3
  <1> QED
    BY <1>2, <1>3, <1>4, <1>5

\* A thread that is in GetBucketList() has a bucket to initialize or to find.
LEMMA OnTheWayFacts ==
  ASSUME IInv, NEW t \in Thread, pc[t] \in OnTheWay
  PROVE  /\ Trail(t) /\ indices[t] \in Seq(Index)
         /\ Len(indices[t]) \in Nat \ {0} /\ Head(indices[t]) = indices[t][1]
         /\ indices[t][1] \in Index
         /\ Tail(indices[t]) \in Seq(Index) /\ Len(Tail(indices[t])) = Len(indices[t]) - 1
         /\ \A k \in 1 .. Len(indices[t]) - 1 : Tail(indices[t])[k] = indices[t][k + 1]
  <1>1. indices[t] \in Seq(Index) /\ Trail(t)
    BY Types DEF IInv, Ways, Way
  <1>2. indices[t] # <<>>
    BY <1>1 DEF Trail
  <1> QED
    BY <1>1, <1>2, Popped

\* A parent is put in front, and what is behind it stays as far from the end.
LEMMA HalvingStay ==
  ASSUME IInv, NEW t \in Thread, Halving(t), Act(t)
  PROVE  Halving(t)'
  <1>0. /\ pc \in [Thread -> Label] /\ indices \in [Thread -> Seq(Index)]
        /\ indices[t] \in Seq(Index) /\ Len(indices[t]) \in Nat
        /\ max_capacity_ \in Nat \ {0} /\ capacity_ \in Capacities
        /\ capacity_ \in 1 .. max_capacity_
    <2>1. indices[t] \in Seq(Index)
      BY Types DEF IInv
    <2> QED
      BY <2>1, Types, CapacityFacts, LenProperties DEF IInv, Buckets
  <1>1. CASE indices' = indices
    BY <1>1 DEF Halving
  <1>2. CASE LoadCapacity(t)
    <2> DEFINE i == BucketIndex(arg[t], capacity_)
    <2>1. indices'[t] = <<i>> /\ arg[t] \in Elem
      BY <1>0, <1>2 DEF LoadCapacity, IInv, Calls
    <2>2. i \in Nat /\ i < max_capacity_
      BY <1>0, <2>1, BucketIsThere
    <2> HIDE DEF i
    <2>3. Len(<<i>>) = 1 /\ <<i>>[1] = i /\ i * 2 ^ 0 = i
      BY <2>2, PowerOfZero
    <2>4. ASSUME NEW k \in 1 .. Len(<<i>>)
          PROVE  <<i>>[k] * 2 ^ (Len(<<i>>) - k) < max_capacity_
      <3>1. k = 1 /\ Len(<<i>>) - k = 0
        BY <2>3
      <3> QED
        BY <2>2, <2>3, <3>1
    <2> QED
      BY <2>1, <2>4 DEF Halving
  <1>3. CASE Initialized(t) \/ Publish(t)
    <2>1. indices'[t] = Tail(indices[t]) /\ pc[t] \in OnTheWay
      BY <1>0, <1>3 DEF Initialized, Publish, OnTheWay
    <2>2. SUFFICES ASSUME NEW k \in 1 .. Len(indices[t]) - 1
                   PROVE  indices[t][k + 1] * 2 ^ (Len(indices[t]) - 1 - k) < max_capacity_
      BY <2>1, OnTheWayFacts DEF Halving
    <2>3. k + 1 \in 1 .. Len(indices[t])
          /\ Len(indices[t]) - (k + 1) = Len(indices[t]) - 1 - k
      BY <1>0
    <2> QED
      BY <2>3 DEF Halving
  <1>4. CASE NeedsParent(t)
    <2> DEFINE s == indices[t]
               i == s[1]
               p == ParentIndex[i]
               r == <<p>> \o s
    <2>1. /\ pc[t] \in OnTheWay /\ buckets_[Head(s)] = None
          /\ indices'[t] = <<ParentIndex[Head(s)]>> \o s
      BY <1>0, <1>4 DEF NeedsParent, OnTheWay
    <2>2. i \in Index /\ s \in Seq(Index) /\ Len(s) \in Nat \ {0} /\ indices'[t] = r /\ i # 0
      BY <2>1, OnTheWayFacts DEF IInv, Buckets
    <2>3. p \in Index /\ 2 * p < i /\ p \in Nat /\ i \in Nat
      BY <2>2, ParentIsLessThanHalf, IndexIsBelow
    <2> HIDE DEF p
    <2>4. /\ Len(r) = Len(s) + 1 /\ r[1] = p
          /\ \A k \in 1 .. Len(s) : r[k + 1] = s[k]
      BY <2>2, <2>3, Pushed
    <2> HIDE DEF r
    <2>5. p * 2 ^ (Len(s) - 1 + 1) < max_capacity_
      <3> DEFINE n == Len(s) - 1
      <3>1. n \in Nat /\ i * 2 ^ n < max_capacity_ /\ max_capacity_ \in Nat
        BY <1>0, <2>2 DEF Halving
      <3> HIDE DEF n, i
      <3>2. p * 2 ^ (n + 1) < max_capacity_
        BY <2>3, <3>1, Multiplied
      <3> QED
        BY <3>2 DEF n
    <2>6. ASSUME NEW k \in 1 .. Len(r)
          PROVE  r[k] * 2 ^ (Len(r) - k) < max_capacity_
      <3>1. CASE k = 1
        <4>1. Len(r) - k = Len(s) - 1 + 1
          BY <2>2, <2>4, <3>1
        <4> QED
          BY <2>4, <2>5, <3>1, <4>1
      <3>2. CASE k # 1
        <4>1. /\ k - 1 \in 1 .. Len(s) /\ (k - 1) + 1 = k
              /\ Len(r) - k = Len(s) - (k - 1)
          BY <2>2, <2>4, <3>2
        <4>2. s[k - 1] * 2 ^ (Len(s) - (k - 1)) < max_capacity_
          BY <4>1 DEF Halving
        <4> QED
          BY <2>4, <4>1, <4>2
      <3> QED
        BY <3>1, <3>2
    <2> QED
      BY <2>2, <2>6 DEF Halving
  <1>5. CASE Return(t)
    <2>1. indices'[t] = <<>>
      BY <1>0, <1>5 DEF Return
    <2> QED
      BY <2>1 DEF Halving
  <1>6. CASE \/ \E o \in Operation, e \in Elem : Call(t, o, e)
             \/ SentinelFor(t) \/ Operate(t) \/ OperateInVain(t) \/ ListThrows(t)
             \/ RemoveThrows(t) \/ Count(t) \/ ResizeIfNecessary(t)
    <2>1. indices' = indices
      BY <1>6 DEF Call, SentinelFor, Operate, OperateInVain, ListThrows, RemoveThrows, Count,
                  ResizeIfNecessary, LoadForResize, Compare, Double, locals
    <2> QED
      BY <1>1, <2>1
  <1> QED
    BY <1>2, <1>3, <1>4, <1>5, <1>6 DEF Act, Step, GetBucketList

\* What is halved that often is soon 0, which has no parent.
LEMMA DeepEnough ==
  ASSUME IInv, NEW t \in Thread, Halving(t), pc[t] \in OnTheWay
  PROVE  /\ Len(indices[t]) \in 1 .. Depth
         /\ pc[t] \in {"splice", "publish"} => Len(indices[t]) < Depth
  <1> DEFINE s == indices[t]
  <1>0. /\ Len(s) \in Nat \ {0} /\ s \in Seq(Index) /\ Trail(t)
        /\ max_capacity_ \in Nat \ {0} /\ Depth \in Nat \ {0}
    BY OnTheWayFacts, CapacityFacts, DepthIs
  <1>1. ASSUME NEW k \in 1 .. Len(s), s[k] # 0
        PROVE  Len(s) - k + 1 < Depth
    <2>1. s[k] \in Nat /\ s[k] >= 1 /\ Len(s) - k \in Nat
      <3>1. s[k] \in Index
        BY <1>0, ElementOfSeq
      <3> QED
        BY <1>0, <1>1, <3>1, IndexIsBelow
    <2> DEFINE n == Len(s) - k
               q == 2 ^ n
    <2>2. s[k] * q < max_capacity_ /\ q \in Nat \ {0}
      BY <2>1, PowerTypes DEF Halving
    <2> HIDE DEF q
    <2>3. q <= s[k] * q
      BY <2>1, <2>2
    <2>4. q < max_capacity_
      BY <1>0, <2>1, <2>2, <2>3
    <2>5. 2 ^ (n + 1) < 2 ^ Depth
      BY <1>0, <2>1, <2>2, <2>4, PowerTypes, DepthIs DEF q
    <2>6. Depth <= n + 1 => 2 ^ Depth <= 2 ^ (n + 1)
      BY <1>0, <2>1, PowersGrow
    <2> QED
      <3>1. 2 ^ (n + 1) \in Nat /\ 2 ^ Depth \in Nat
        BY <1>0, <2>1, PowerTypes
      <3> QED
        BY <1>0, <2>1, <2>5, <2>6, <3>1
  <1>2. CASE Len(s) = 1
    <2>1. pc[t] \in {"splice", "publish"} => s[1] # 0
      BY DEF IInv, Ways, Way, Initializing
    <2> QED
      BY <1>0, <1>1, <1>2, <2>1
  <1>3. CASE Len(s) # 1
    <2>1. s[1 + 1] # 0
      <3>1. 1 \in 1 .. Len(s) - 1
        <4>1. \A n \in Nat \ {0} : n # 1 => 1 \in 1 .. n - 1
          OBVIOUS
        <4> QED
          BY <1>0, <1>3, <4>1
      <3> QED
        BY <1>0, <3>1 DEF Trail
    <2>2. Len(s) - 2 + 1 < Depth
      BY <1>0, <1>1, <1>3, <2>1
    <2>3. pc[t] \in {"splice", "publish"} => s[1] # 0
      BY DEF IInv, Ways, Way, Initializing
    <2>4. pc[t] \in {"splice", "publish"} => Len(s) - 1 + 1 < Depth
      BY <1>0, <1>1, <2>3
    <2> QED
      BY <1>0, <2>2, <2>4
  <1> QED
    BY <1>2, <1>3

LEMMA StepsAreCounted ==
  ASSUME IInv, NEW t \in Thread, Halving(t)
  PROVE  StepsLeft(t) \in 0 .. 3 * Depth + 5
  <1>1. Depth \in Nat \ {0}
    BY DepthIs
  <1>2. CASE pc[t] \in OnTheWay
    <2>1. Len(indices[t]) \in 1 .. Depth
          /\ (pc[t] \in {"splice", "publish"} => Len(indices[t]) < Depth)
      BY <1>2, DeepEnough
    <2> QED
      BY <1>1, <1>2, <2>1 DEF StepsLeft, OnTheWay
  <1>3. CASE pc[t] \notin OnTheWay
    BY <1>1, <1>3 DEF StepsLeft, OnTheWay
  <1> QED
    BY <1>2, <1>3

LEMMA StepsGetFewer ==
  ASSUME IInv, NEW t \in Thread, Halving(t), Step(t)
  PROVE  StepsLeft(t)' < StepsLeft(t)
  <1>0. Depth \in Nat \ {0} /\ Depth' = Depth /\ pc \in [Thread -> Label]
        /\ indices \in [Thread -> Seq(Index)]
    BY DepthIs, Types DEF IInv, Depth
  <1>a. pc[t] \in OnTheWay =>
          /\ Len(indices[t]) \in 1 .. Depth
          /\ Len(Tail(indices[t])) = Len(indices[t]) - 1
    BY DeepEnough, OnTheWayFacts
  <1>1. CASE LoadCapacity(t)
    <2>1. pc[t] = "hash" /\ pc'[t] = "bucket" /\ \E i : indices'[t] = <<i>>
      BY <1>0, <1>1 DEF LoadCapacity, Goto
    <2>2. Len(indices'[t]) = 1
      BY <2>1
    <2> QED
      BY <1>0, <2>1, <2>2 DEF StepsLeft
  <1>2. CASE Initialized(t) \/ Publish(t)
    <2>1. /\ pc[t] \in {"bucket", "publish"}
          /\ pc'[t] = (IF Len(indices[t]) = 1 THEN "operate" ELSE "splice")
          /\ indices'[t] = Tail(indices[t])
      BY <1>0, <1>2 DEF Initialized, Publish, Goto
    <2>2. Len(indices[t]) \in 1 .. Depth /\ Len(indices'[t]) = Len(indices[t]) - 1
      BY <1>a, <2>1 DEF OnTheWay
    <2> DEFINE n == Len(indices[t])
    <2>3. CASE n = 1
      BY <1>0, <2>1, <2>2, <2>3 DEF StepsLeft
    <2>4. CASE n # 1
      <3>1. StepsLeft(t)' = 2 * (n - 1) + 6
        BY <2>1, <2>2, <2>4 DEF StepsLeft
      <3>2. StepsLeft(t) = IF pc[t] = "bucket" THEN 3 * Depth - n + 5 ELSE 2 * n + 5
        BY <2>1 DEF StepsLeft
      <3> QED
        BY <1>0, <2>2, <3>1, <3>2
    <2> QED
      BY <2>3, <2>4
  <1>3. CASE NeedsParent(t)
    <2>1. pc[t] = "bucket" /\ pc'[t] = "bucket"
          /\ indices'[t] = <<ParentIndex[Head(indices[t])]>> \o indices[t]
          /\ buckets_[Head(indices[t])] = None
      BY <1>0, <1>3 DEF NeedsParent
    <2>2. indices[t] \in Seq(Index) /\ ParentIndex[Head(indices[t])] \in Index
      <3>1. Head(indices[t]) \in Index \ {0}
        BY <2>1, OnTheWayFacts DEF OnTheWay, IInv, Buckets
      <3> QED
        BY <1>0, <3>1, KeyTypes
    <2>3. Len(indices'[t]) = Len(indices[t]) + 1
      BY <2>1, <2>2, Pushed
    <2>4. Len(indices[t]) \in Nat
      BY <1>a, <2>1 DEF OnTheWay
    <2> QED
      BY <1>0, <2>1, <2>3, <2>4 DEF StepsLeft
  <1>4. CASE SentinelFor(t)
    <2>1. pc[t] = "splice" /\ pc'[t] = "publish" /\ indices' = indices
      BY <1>0, <1>4 DEF SentinelFor, Goto
    <2>2. Len(indices[t]) \in Nat
      BY <1>a, <2>1 DEF OnTheWay
    <2> QED
      BY <2>1, <2>2 DEF StepsLeft
  <1>5. CASE ListThrows(t)
    <2>1. pc[t] \in {"splice", "operate"} /\ pc'[t] = "done"
      BY <1>0, <1>5 DEF ListThrows, Goto
    <2>2. pc[t] = "splice" => Len(indices[t]) \in Nat
      BY <1>a DEF OnTheWay
    <2> QED
      BY <2>1, <2>2 DEF StepsLeft
  <1>6. CASE Operate(t) \/ OperateInVain(t) \/ RemoveThrows(t)
    <2>1. pc[t] = "operate" /\ pc'[t] \in {"count", "done"}
      BY <1>0, <1>6 DEF Operate, OperateInVain, RemoveThrows, Goto
    <2> QED
      BY <2>1 DEF StepsLeft
  <1>7. CASE Count(t) \/ ResizeIfNecessary(t) \/ Return(t)
    <2>1. \/ pc[t] = "count" /\ pc'[t] \in {"resize", "done"}
          \/ pc[t] = "resize" /\ pc'[t] = "compare"
          \/ pc[t] = "compare" /\ pc'[t] \in {"double", "done"}
          \/ pc[t] = "double" /\ pc'[t] = "done"
          \/ pc[t] = "done" /\ pc'[t] = "idle"
      BY <1>0, <1>7 DEF Count, ResizeIfNecessary, LoadForResize, Compare, Double, Return, Goto
    <2> QED
      BY <2>1 DEF StepsLeft
  <1> QED
    BY <1>1, <1>2, <1>3, <1>4, <1>5, <1>6, <1>7 DEF Step, GetBucketList

LEMMA HalvingInvariant == Spec => [](IInv /\ \A t \in Thread : Halving(t))
  <1>1. Init => \A t \in Thread : Halving(t)
    BY DEF Init, Halving
  <1>2. ASSUME IInv, \A t \in Thread : Halving(t), [Next]_vars
        PROVE  (\A t \in Thread : Halving(t))'
    <2>1. CASE UNCHANGED vars
      BY <1>2, <2>1 DEF vars, locals, Halving
    <2>2. CASE Next
      <3>1. PICK t \in Thread : Act(t)
        BY <2>2 DEF Next, Act
      <3>2. ASSUME NEW u \in Thread \ {t}
            PROVE  Halving(u)'
        BY <1>2, <3>1, <3>2, OthersStay DEF Halving
      <3> QED
        BY <1>2, <3>1, <3>2, HalvingStay
    <2> QED
      BY <1>2, <2>1, <2>2
  <1> QED
    BY <1>1, <1>2, InitIInv, Inductive, PTL DEF Spec

\* For every capacity and however buckets are initialized and the capacity grows
\* meanwhile: outside the list, each call ends within three times as many steps of
\* its own as an index has bits, and a few; no other thread can delay it, as
\* none of its compare-and-swaps is tried again.  GetBucketList() (line 124) calls
\* itself no more often than an index has bits.
THEOREM CallsAreShort ==
  /\ Spec => [](Shallow /\ StepsAreFew)
  /\ Spec => EveryStepCounts
  <1>1. ASSUME IInv, \A t \in Thread : Halving(t)
        PROVE  Shallow /\ StepsAreFew
    <2>1. ASSUME NEW t \in Thread
          PROVE  StepsLeft(t) \in 0 .. 3 * Depth + 5
      BY <1>1, StepsAreCounted
    <2>2. ASSUME NEW t \in Thread, pc[t] \in OnTheWay
          PROVE  Len(indices[t]) <= Depth
      <3>1. Len(indices[t]) \in 1 .. Depth
        BY <1>1, <2>2, DeepEnough
      <3> QED
        BY <3>1, DepthIs
    <2> QED
      BY <2>1, <2>2 DEF Shallow, StepsAreFew
  <1> DEFINE Counts(t) ==
        /\ Step(t) => StepsLeft(t)' < StepsLeft(t)
        /\ Act(t) => \A u \in Thread \ {t} : StepsLeft(u)' = StepsLeft(u)
  <1>2. ASSUME IInv, NEW t \in Thread, Halving(t)
        PROVE  Counts(t)
    <2>1. Step(t) => StepsLeft(t)' < StepsLeft(t)
      BY <1>2, StepsGetFewer
    <2>2. ASSUME Act(t), NEW u \in Thread \ {t}
          PROVE  StepsLeft(u)' = StepsLeft(u)
      <3>1. pc'[u] = pc[u] /\ indices'[u] = indices[u]
        BY <1>2, <2>2, OthersStay
      <3> QED
        BY <3>1 DEF StepsLeft, Depth
    <2> QED
      BY <2>1, <2>2
  <1>3. (IInv /\ \A t \in Thread : Halving(t)) => \A t \in Thread : Counts(t)
    BY <1>2
  <1>4. Spec => [][\A t \in Thread : Counts(t)]_vars
    BY <1>3, HalvingInvariant, PTL DEF Spec
  <1> QED
    BY <1>1, <1>4, HalvingInvariant, PTL DEF EveryStepCounts
=============================================================================
