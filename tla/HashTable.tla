----------------------------- MODULE HashTable -----------------------------
(***************************************************************************)
(* The closed-addressing table that the sequential, coarse-grained,        *)
(* striped and refinable sets all keep in table_, and the arithmetic they  *)
(* share, some of it with the lock-free set: where an element goes, when   *)
(* there are too few buckets, and what moving it into a larger table does. *)
(*                                                                         *)
(* A bucket is the set of its elements: their order in the vector shows    *)
(* only in how long a search takes.                                        *)
(***************************************************************************)
EXTENDS Integers, FiniteSets

CONSTANTS
  Elem,
  Hash   \* std::hash of every element

ASSUME HashAssumption == Hash \in [Elem -> Nat]

kLoadFactorNumerator == 3
kLoadFactorDenominator == 4

\* Policy(): the set has outgrown a table of this capacity.
TooSmall(capacity, size) ==
  size > (capacity * kLoadFactorNumerator) \div kLoadFactorDenominator

BucketIndex(e, capacity) == Hash[e] % capacity

Table(capacity) == [0 .. capacity - 1 -> SUBSET Elem]

EmptyTable(capacity) == [i \in 0 .. capacity - 1 |-> {}]

Members(table) == UNION {table[i] : i \in DOMAIN table}

\* Mutant of Rehashed: the elements keep the index they had.
RehashedInPlace(table, new_capacity) ==
  [i \in 0 .. new_capacity - 1 |-> IF i \in DOMAIN table THEN table[i] ELSE {}]

\* Every element of the table, moved to its bucket in one of new_capacity.
Rehashed(table, new_capacity) ==
  [i \in 0 .. new_capacity - 1 |->
     {e \in Members(table) : BucketIndex(e, new_capacity) = i}]
=============================================================================
