------------------------- MODULE HashSetSequential -------------------------
(***************************************************************************)
(* The set for a single thread, src/HashSetSequential.h: each call is one  *)
(* step.  (Its specification has names of its own, so that one module can  *)
(* extend this one and Benchmark.)                                         *)
(***************************************************************************)
EXTENDS HashTable

CONSTANTS
  initial_capacity,
  Failures   \* the exceptions that may be thrown

ASSUME CapacityAssumption == initial_capacity \in Nat
ASSUME FailuresAssumption == Failures \subseteq {"bad_alloc"}

VARIABLES
  table_,
  capacity,   \* table_.size()
  set_size_

sequential_vars == <<table_, capacity, set_size_>>

\* Mutant of Bucket: the bucket is that of the initial capacity.
BucketAtFirst(e) == table_[BucketIndex(e, IF initial_capacity = 0 THEN 1 ELSE initial_capacity)]

Bucket(e) == table_[BucketIndex(e, capacity)]

Pushed(e) == [table_ EXCEPT ![BucketIndex(e, capacity)] = @ \cup {e}]

SequentialInit ==
  /\ capacity = IF initial_capacity < 1 THEN 1 ELSE initial_capacity
  /\ table_ = EmptyTable(capacity)
  /\ set_size_ = 0

\* Mutant of Add: the capacity grows by one bucket.
AddGrowingByOne(e) ==
  /\ e \notin Bucket(e)
  /\ set_size_' = set_size_ + 1
  /\ IF TooSmall(capacity, set_size_ + 1)
       THEN capacity' = capacity + 1 /\ table_' = Rehashed(Pushed(e), capacity')
       ELSE capacity' = capacity /\ table_' = Pushed(e)

Add(e) ==
  /\ e \notin Bucket(e)
  /\ set_size_' = set_size_ + 1
  /\ IF TooSmall(capacity, set_size_ + 1)
       THEN capacity' = 2 * capacity /\ table_' = Rehashed(Pushed(e), capacity')
       ELSE capacity' = capacity /\ table_' = Pushed(e)

\* Resize() throws when the element is already there.  The table is as it was:
\* this is so for elements that moving does not change, as numbers are.  (A
\* push_back() that throws changes nothing.)
ResizeThrows(e) ==
  /\ "bad_alloc" \in Failures
  /\ e \notin Bucket(e)
  /\ TooSmall(capacity, set_size_ + 1)
  /\ table_' = Pushed(e)
  /\ set_size_' = set_size_ + 1
  /\ UNCHANGED capacity

Remove(e) ==
  /\ e \in Bucket(e)
  /\ table_' = [table_ EXCEPT ![BucketIndex(e, capacity)] = @ \ {e}]
  /\ set_size_' = set_size_ - 1
  /\ UNCHANGED capacity

\* Contains(), and an Add() or a Remove() that returns false.
Unsuccessful == UNCHANGED sequential_vars

SequentialNext ==
  \/ \E e \in Elem : Add(e) \/ ResizeThrows(e) \/ Remove(e)
  \/ Unsuccessful

SequentialSpec == SequentialInit /\ [][SequentialNext]_sequential_vars

-----------------------------------------------------------------------------
\* The table has as many buckets as capacity says, each with its own elements.
TypeOK ==
  /\ capacity \in Nat \ {0}
  /\ table_ \in Table(capacity)
  /\ \A i \in 0 .. capacity - 1 : \A e \in table_[i] : BucketIndex(e, capacity) = i
  /\ set_size_ \in Nat

\* Size() counts the elements: none is lost or found twice when the table grows,
\* and a resize that fails leaves the element counted that it failed for.
SizeAgrees == set_size_ = Cardinality(Members(table_))

\* One doubling is enough: an Add() to a table that is not above its load factor
\* does not leave it above, whatever the initial capacity, 0 and odd included.
LoadBounded ==
  [][(\E e \in Elem : Add(e)) /\ ~TooSmall(capacity, set_size_)
       => ~TooSmall(capacity, set_size_)']_sequential_vars
=============================================================================
