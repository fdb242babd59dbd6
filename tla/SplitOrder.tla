----------------------------- MODULE SplitOrder -----------------------------
(***************************************************************************)
(* The split-order keys of src/BucketList.h and the bucket arithmetic of   *)
(* src/HashSetLockFree.h, on words of kKeyBits bits.                       *)
(*                                                                         *)
(* A word is the set of the positions of its ones, so that & is \cap and | *)
(* is \cup; Binary(n) is the word of a number, modulo the width, and       *)
(* Number(w) that of a word.                                               *)
(***************************************************************************)
EXTENDS Integers, FiniteSets

CONSTANT kKeyBits   \* 64 in the code

\* ReverseBits needs whole bytes.
ASSUME WidthAssumption == \E bytes \in 1 .. kKeyBits : kKeyBits = 8 * bytes

Bit == 0 .. kKeyBits - 1
Word == SUBSET Bit

Binary(n) == {i \in Bit : (n \div 2 ^ i) % 2 = 1}

\* The order of the numbers: the highest bit in which two words differ decides.
Less(v, w) == \E i \in w \ v : \A j \in i + 1 .. kKeyBits - 1 : j \in v <=> j \in w

\* As many words are less than w as there are numbers less than it.
Number(w) == Cardinality({v \in Word : Less(v, w)})

ShiftRight(w, k) == {i \in Bit : i + k \in w}
ShiftLeft(w, k) == {i \in Bit : i - k \in w}

\* The masks m1, m2 and m4: every other field of k bits.
Mask(k) == {i \in Bit : (i \div k) % 2 = 0}

\* Neighbouring fields of k bits change places.
SwapFields(w, k) == (ShiftRight(w, k) \cap Mask(k)) \cup ShiftLeft(w \cap Mask(k), k)

\* std::byteswap
ByteSwap(w) == {i \in Bit : kKeyBits - 8 - 8 * (i \div 8) + (i % 8) \in w}

\* Mutant of ReverseBits: the bits of each byte are reversed and the bytes not.
ReverseBitsOfBytes(w) == SwapFields(SwapFields(SwapFields(w, 1), 2), 4)

ReverseBits(w) == ByteSwap(SwapFields(SwapFields(SwapFields(w, 1), 2), 4))

kKeyMask == 0 .. kKeyBits - 3
kMaxBuckets == 2 ^ (kKeyBits - 2)
kTailKey == Bit
kOrdinaryKeyBit == {kKeyBits - 1}

\* Mutant of MakeOrdinaryKey: it is the key of a sentinel.
MakeKeyWithoutBit(code) == ReverseBits(Binary(code) \cap kKeyMask)

MakeOrdinaryKey(code) == ReverseBits((Binary(code) \cap kKeyMask) \cup kOrdinaryKeyBit)

MakeSentinelKey(code) == ReverseBits(Binary(code) \cap kKeyMask)

\* std::bit_floor
BitFloor(n) ==
  IF n = 0 THEN 0
  ELSE CHOOSE f \in {2 ^ i : i \in Bit} : f <= n /\ n < 2 * f

GetParentIndex(index) == index - BitFloor(index)

-----------------------------------------------------------------------------
\* Swapping ever larger fields, and then the bytes, reverses the whole word.
ReversesBits(w) == ReverseBits(w) = {kKeyBits - 1 - i : i \in w}

\* The comment at MakeOrdinaryKey (BucketList.h:184): an element comes after the
\* sentinel of its own bucket and before that of the next one, so a scan from
\* the sentinel of a smaller capacity, which comes before it, gets to it too;
\* nothing comes after the tail.
InItsBucket(code, capacity) ==
  LET key == MakeOrdinaryKey(code)
      own == MakeSentinelKey(code % capacity)
  IN  /\ Less(own, key) /\ Less(key, kTailKey)
      /\ \A b \in (0 .. capacity - 1) \ {code % capacity} :
           Less(MakeSentinelKey(b), own) \/ Less(key, MakeSentinelKey(b))

\* A bucket's sentinel is spliced in behind that of its parent (the assertion
\* at BucketList.h:140), which is the bucket it was a part of at half the
\* capacity: between the two there is no other sentinel of that capacity.
BehindItsParent(index) ==
  LET parent == GetParentIndex(index)
      half == BitFloor(index)
      key == MakeSentinelKey(index)
  IN  /\ parent = index % half
      /\ Less(MakeSentinelKey(parent), key) /\ Less(key, kTailKey)
      /\ \A b \in (0 .. half - 1) \ {parent} :
           Less(MakeSentinelKey(b), MakeSentinelKey(parent)) \/ Less(key, MakeSentinelKey(b))
=============================================================================
