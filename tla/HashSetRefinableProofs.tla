------------------------ MODULE HashSetRefinableProofs ------------------------
(***************************************************************************)
(* Proofs about HashSetRefinable, for any finite number of threads and     *)
(* elements, every hash function and every initial capacity: that a resize *)
(* that holds no mutex has the table to itself all the same, that every    *)
(* bucket has a mutex at every capacity, and that it is a linearizable     *)
(* set.                                                                    *)
(***************************************************************************)
EXTENDS HashSetRefinable, HashTableProofs, FiniteSetTheorems, TLAPS

\* The arena of mutexes at every capacity: a block as large as all before it
\* holds just the mutexes of the buckets that a doubling adds, one for each.

\* What std::bit_width and std::bit_floor return between two powers of two.
LEMMA WidthBetweenPowers ==
  ASSUME NEW k \in Nat, NEW n \in Nat, 2 ^ k <= n, n < 2 ^ (k + 1)
  PROVE  BitWidth(n) = k + 1 /\ BitFloor(n) = 2 ^ k
  <1> DEFINE Is(w) == n < 2 ^ w /\ \A v \in 0 .. w - 1 : 2 ^ v <= n
  <1>1. \A v \in Nat : 2 ^ v \in Nat
    BY PowerCounts
  <1>2. k + 1 \in 0 .. n
    BY <1>1, PowerIsMore
  <1>3. \A v \in 0 .. k : 2 ^ v <= n
    <2>1. \A v \in 0 .. k : 2 ^ v <= 2 ^ k
      BY PowersGrow
    <2> QED
      BY <1>1, <2>1
  <1>4. Is(k + 1)
    BY <1>3
  <1>5. ASSUME NEW w \in 0 .. n, Is(w)
        PROVE  w = k + 1
    <2>1. CASE w <= k
      <3>1. w \in 0 .. k
        BY <2>1
      <3>2. 2 ^ w <= n /\ n < 2 ^ w /\ 2 ^ w \in Nat
        BY <1>1, <1>3, <1>5, <3>1
      <3> QED
        BY <3>2
    <2>2. CASE w > k + 1
      <3>1. k + 1 \in 0 .. w - 1
        BY <2>2
      <3>2. 2 ^ (k + 1) <= n /\ 2 ^ (k + 1) \in Nat
        BY <1>1, <1>5, <3>1
      <3> QED
        BY <3>2
    <2> QED
      BY <2>1, <2>2
  <1>6. BitWidth(n) = k + 1
    <2>1. BitWidth(n) = CHOOSE w \in 0 .. n : Is(w)
      BY DEF BitWidth
    <2> HIDE DEF Is
    <2> QED
      BY <1>2, <1>4, <1>5, <2>1
  <1>7. n # 0
    BY <1>2
  <1> QED
    BY <1>6, <1>7 DEF BitFloor

LEMMA WidthOfZero == BitWidth(0) = 0 /\ BitFloor(0) = 0
  <1>1. 0 \in 0 .. 0 /\ 0 < 2 ^ 0 /\ \A v \in 0 .. 0 - 1 : 2 ^ v <= 0
    OBVIOUS
  <1>2. BitWidth(0) \in 0 .. 0
    BY <1>1 DEF BitWidth
  <1> QED
    BY <1>2 DEF BitFloor

\* The initial capacity is a power of two.
LEMMA InitialCapacity == initial_capacity \in Nat \ {0}
  BY PowerCounts, PowerIsMore, ShiftAssumption DEF initial_capacity

\* Block 0 has a mutex for each of the first buckets.
LEMMA FirstBlock ==
  ASSUME NEW i \in 0 .. initial_capacity - 1
  PROVE  GetMutex(i) = <<0, i>> /\ GetMutex(i) \in Block(0)
  <1>1. i \div initial_capacity = 0
    <2>1. /\ i \div initial_capacity \in Nat /\ i % initial_capacity \in Nat
          /\ i = initial_capacity * (i \div initial_capacity) + (i % initial_capacity)
      BY InitialCapacity, DivMod
    <2> DEFINE q == i \div initial_capacity
    <2>2. q >= 1 => initial_capacity * q >= initial_capacity
      BY <2>1, InitialCapacity
    <2> QED
      BY <2>1, <2>2, InitialCapacity
  <1>2. 0 * initial_capacity = 0
    BY InitialCapacity
  <1>3. GetMutex(i) = <<0, i>>
    BY <1>1, <1>2, WidthOfZero DEF GetMutex, BlockIndex, BlockOffset
  <1>4. BlockSize(0) = initial_capacity
    BY DEF BlockSize, initial_capacity
  <1> QED
    BY <1>3, <1>4 DEF Block

\* The capacity after k doublings, both ways the code computes it.
Doubled(k, c) == c = initial_capacity * 2 ^ k /\ c = 2 ^ (initial_shift_ + k)

\* Block k + 1 has a mutex for each bucket that doubling adds.
LEMMA NextBlock ==
  ASSUME NEW k \in Nat, NEW c \in Nat \ {0}, Doubled(k, c), NEW i \in c .. 2 * c - 1
  PROVE  GetMutex(i) = <<k + 1, i - c>> /\ GetMutex(i) \in Block(k + 1)
  <1> DEFINE q == i \div initial_capacity
             r == i % initial_capacity
             p == 2 ^ k
  <1>1. /\ initial_capacity \in Nat \ {0} /\ i \in Nat /\ p \in Nat
        /\ 2 ^ (k + 1) = 2 * p /\ c = initial_capacity * p
    BY InitialCapacity, PowerCounts, PowerDoubles DEF Doubled
  <1>2. q \in Nat /\ r \in 0 .. initial_capacity - 1 /\ i = initial_capacity * q + r
    <2>1. i \in Int /\ i \in Nat
      BY <1>1
    <2> QED
      BY <1>1, <2>1, DivMod
  <1> HIDE DEF q, r, p
  <1>3. p <= q
    <2>1. q + 1 <= p => initial_capacity * (q + 1) <= initial_capacity * p
      BY <1>1, <1>2
    <2>2. initial_capacity * (q + 1) = initial_capacity * q + initial_capacity
      BY <1>1, <1>2
    <2> QED
      BY <1>1, <1>2, <2>1, <2>2
  <1>4. q < 2 * p
    <2>1. 2 * p <= q => initial_capacity * (2 * p) <= initial_capacity * q
      BY <1>1, <1>2
    <2>2. initial_capacity * (2 * p) = 2 * (initial_capacity * p)
      BY <1>1
    <2> QED
      BY <1>1, <1>2, <2>1, <2>2
  <1>5. BitWidth(q) = k + 1 /\ BitFloor(q) = p
    BY <1>1, <1>2, <1>3, <1>4, WidthBetweenPowers DEF p
  <1>6. p * initial_capacity = c
    BY <1>1
  <1>7. GetMutex(i) = <<k + 1, i - c>>
    BY <1>5, <1>6 DEF GetMutex, BlockIndex, BlockOffset, q
  <1>8. BlockSize(k + 1) = c
    <2>1. k + 1 # 0 /\ initial_shift_ + (k + 1) - 1 = initial_shift_ + k
      BY ShiftAssumption
    <2> QED
      BY <2>1 DEF BlockSize, Doubled
  <1> QED
    BY <1>7, <1>8 DEF Block

\* It is the block that a resize from this capacity allocates.
LEMMA NextBlockIndex ==
  ASSUME NEW k \in Nat, NEW c \in Nat \ {0}, Doubled(k, c)
  PROVE  BlockIndex(c) = k + 1
  <1>1. c \in c .. 2 * c - 1
    OBVIOUS
  <1>2. GetMutex(c) = <<k + 1, c - c>>
    BY <1>1, NextBlock
  <1> QED
    BY <1>2 DEF GetMutex

\* One more doubling.
LEMMA DoubledAgain ==
  ASSUME NEW k \in Nat, NEW c \in Nat \ {0}, Doubled(k, c)
  PROVE  Doubled(k + 1, 2 * c)
  <1> DEFINE p == 2 ^ k
  <1>1. 2 ^ (k + 1) = 2 * p /\ p \in Nat /\ initial_capacity \in Nat
    BY PowerDoubles, PowerCounts, InitialCapacity
  <1>2. /\ initial_shift_ + k \in Nat
        /\ initial_shift_ + (k + 1) = (initial_shift_ + k) + 1
    BY ShiftAssumption
  <1>3. 2 ^ (initial_shift_ + (k + 1)) = 2 * 2 ^ (initial_shift_ + k)
    BY <1>2, PowerDoubles
  <1>4. c = initial_capacity * p
    BY DEF Doubled
  <1> HIDE DEF p
  <1>5. 2 * (initial_capacity * p) = initial_capacity * (2 * p)
    BY <1>1
  <1> QED
    BY <1>1, <1>3, <1>4, <1>5 DEF Doubled, p

\* The mutexes of c buckets: they are there, in the blocks up to the k-th, and
\* each bucket has its own.
Covered(k, c, mutexes) ==
  /\ \A i \in 0 .. c - 1 : GetMutex(i) \in mutexes /\ BlockIndex(i) \in 0 .. k
  /\ \A i, j \in 0 .. c - 1 : GetMutex(i) = GetMutex(j) => i = j

LEMMA CoveredAtFirst == Covered(0, initial_capacity, Block(0))
  <1>1. \A i \in 0 .. initial_capacity - 1 :
          GetMutex(i) = <<0, i>> /\ GetMutex(i) \in Block(0)
    BY FirstBlock
  <1>2. \A i \in 0 .. initial_capacity - 1 : BlockIndex(i) = 0
    BY <1>1 DEF GetMutex
  <1> QED
    BY <1>1, <1>2 DEF Covered

LEMMA CoveredAgain ==
  ASSUME NEW k \in Nat, NEW c \in Nat \ {0}, Doubled(k, c), NEW mutexes,
         Covered(k, c, mutexes), Block(k + 1) \subseteq mutexes
  PROVE  Covered(k + 1, 2 * c, mutexes)
  <1>1. \A i \in c .. 2 * c - 1 :
          /\ GetMutex(i) = <<k + 1, i - c>> /\ GetMutex(i) \in mutexes
          /\ BlockIndex(i) = k + 1
    <2> SUFFICES ASSUME NEW i \in c .. 2 * c - 1
                 PROVE  /\ GetMutex(i) = <<k + 1, i - c>> /\ GetMutex(i) \in mutexes
                        /\ BlockIndex(i) = k + 1
      OBVIOUS
    <2>1. GetMutex(i) = <<k + 1, i - c>> /\ GetMutex(i) \in mutexes
      BY NextBlock
    <2> QED
      BY <2>1 DEF GetMutex
  <1>2. \A i \in 0 .. c - 1 :
          GetMutex(i) \in mutexes /\ BlockIndex(i) \in 0 .. k /\ GetMutex(i)[1] \in 0 .. k
    BY DEF Covered, GetMutex
  <1>3. \A i \in 0 .. 2 * c - 1 : i \in 0 .. c - 1 \/ i \in c .. 2 * c - 1
    OBVIOUS
  <1>4. \A i \in 0 .. 2 * c - 1 : GetMutex(i) \in mutexes /\ BlockIndex(i) \in 0 .. k + 1
    BY <1>1, <1>2, <1>3
  <1>5. ASSUME NEW i \in 0 .. 2 * c - 1, NEW j \in 0 .. 2 * c - 1, GetMutex(i) = GetMutex(j)
        PROVE  i = j
    <2>1. CASE i \in 0 .. c - 1 /\ j \in 0 .. c - 1
      BY <1>5, <2>1 DEF Covered
    <2>2. CASE i \in c .. 2 * c - 1 /\ j \in c .. 2 * c - 1
      <3>1. i - c = j - c
        BY <1>1, <1>5, <2>2
      <3> QED
        BY <3>1
    <2>3. ASSUME NEW x \in 0 .. c - 1, NEW y \in c .. 2 * c - 1
          PROVE  GetMutex(x) # GetMutex(y)
      <3>1. GetMutex(x)[1] \in 0 .. k /\ GetMutex(y)[1] = k + 1
        BY <1>1, <1>2
      <3> QED
        BY <3>1
    <2> QED
      BY <1>3, <1>5, <2>1, <2>2, <2>3
  <1> QED
    BY <1>4, <1>5 DEF Covered

-----------------------------------------------------------------------------
\* The places of a thread that holds the mutex of its bucket, of one that has
\* found resizing_ false with it in hand, and of one in its element's bucket.
Inside == InTheTable \cup {"check_resizing", "check_capacity", "retry", "count", "unlock"}
Passed == InTheTable \cup {"check_capacity", "count", "unlock"}
InBucket == InTheTable \cup {"count"}

\* The places where it has the capacity it hashed with, or means to double.
Hashing == {"lock", "check_resizing", "check_capacity"}
Planning == {"quiesce", "enlarge", "rehash", "publish"}

\* The places before it is settled what the call does.
Unsettled == InTheTable \cup {"spin", "hash", "lock", "check_resizing", "check_capacity", "retry"}

-----------------------------------------------------------------------------
\* The inductive invariant, part by part.
Calls ==
  \A t \in Thread :
    /\ IF pc[t] = "idle" THEN op[t] = "none" /\ arg[t] = None /\ answer[t] = {}
                         ELSE op[t] \in Operation /\ arg[t] \in Elem
    /\ pc[t] \in Unsettled => answer[t] = {}
    /\ pc[t] \in {"change", "count"} => op[t] \in {"Add", "Remove"}
    /\ pc[t] \notin Unsettled \cup {"idle"} => answer[t] # {} \/ Failures # {}

\* Each bucket has its mutex, also those a resize is about to add.
Arena ==
  \E k \in Nat :
    /\ Doubled(k, capacity_)
    /\ Covered(k, capacity_, DOMAIN arena_)
    /\ \A t \in Thread : pc[t] \in {"rehash", "publish"} => Block(k + 1) \subseteq DOMAIN arena_

\* Which bucket a thread has hashed its element to, and that it holds its mutex.
Hashed(t) ==
  /\ pc[t] \in Inside \cup {"lock"} => hash[t] \in 0 .. capacity_ - 1
  /\ pc[t] \in Inside => arena_[GetMutex(hash[t])] = t
  /\ pc[t] \in Hashing => hash[t] = BucketIndex(arg[t], capacity[t])
  /\ pc[t] \in InBucket => hash[t] = BucketIndex(arg[t], capacity_)

Locks == \A t \in Thread : Hashed(t)

\* There is one resize at a time.
OneResize ==
  \A t \in Thread :
    /\ pc[t] \in Resizing => resizing_ /\ \A u \in Thread \ {t} : pc[u] \notin Resizing
    /\ pc[t] \in Planning => capacity[t] = capacity_
    /\ IF pc[t] = "quiesce" THEN index[t] \in 0 .. capacity_ - 1 ELSE index[t] = 0

\* Once its thread has found a mutex free, nobody who takes that mutex passes.
Quiet ==
  \A t, u \in Thread :
    pc[u] \in Passed =>
      /\ pc[t] = "quiesce" => index[t] <= hash[u]
      /\ pc[t] \notin Rehashing

\* The elements are in their buckets, in table_ or, from when the new capacity is
\* stored, in the table that is about to replace it.
Placed ==
  /\ \A t \in Thread : pc[t] \notin {"publish", "move"} => new_table[t] = EmptyTable(0)
  /\ \A t \in Thread : pc[t] = "publish" => new_table[t] = Rehashed(table_, 2 * capacity_)
  /\ \A t \in Thread : pc[t] = "move" =>
       \E c \in Nat \ {0} :
         /\ capacity_ = 2 * c /\ InPlace(table_, c)
         /\ new_table[t] = Rehashed(table_, capacity_)
  /\ (\A t \in Thread : pc[t] # "move") => InPlace(table_, capacity_)

\* What a thread knows of its element while it holds the mutex.
Knows ==
  \A t \in Thread :
    /\ pc[t] = "change" => (arg[t] \in Set <=> op[t] = "Remove")
    /\ pc[t] = "count" => (arg[t] \in Set <=> op[t] = "Add")

\* A thread in a call has seen what is the case now.
Sees ==
  \A t \in Thread :
    op[t] # "none" =>
      /\ arg[t] \in Set => TRUE \in seen[t]
      /\ arg[t] \notin Set => FALSE \in seen[t]

IInv ==
  /\ TypeOK /\ Calls /\ Arena /\ Locks /\ OneResize /\ Quiet /\ Placed /\ Knows /\ Sees
  /\ SizeAgrees

\* A step of a thread, the call of an operation among them.
Act(t) == Step(t) \/ \E o \in Operation, e \in Elem : Call(t, o, e)

-----------------------------------------------------------------------------
\* What the steps need of the types.
LEMMA Types ==
  ASSUME TypeOK
  PROVE  /\ pc \in [Thread -> Label] /\ op \in [Thread -> Operation \cup {"none"}]
         /\ arg \in [Thread -> Elem \cup {None}] /\ hash \in [Thread -> Nat]
         /\ capacity \in [Thread -> Nat] /\ index \in [Thread -> Nat]
         /\ new_table \in [Thread -> Table(0) \cup Table(capacity_) \cup Table(2 * capacity_)]
         /\ answer \in [Thread -> SUBSET BOOLEAN] /\ seen \in [Thread -> SUBSET BOOLEAN]
         /\ arena_ \in [DOMAIN arena_ -> Thread \cup {None}]
         /\ None \notin Thread /\ None \notin Elem
         /\ capacity_ \in Nat \ {0} /\ set_size_ \in Nat /\ resizing_ \in BOOLEAN
  BY NoneAssumption DEF TypeOK

\* Every bucket has a mutex.
LEMMA MutexIsThere ==
  ASSUME IInv
  PROVE  \A i \in 0 .. capacity_ - 1 : GetMutex(i) \in DOMAIN arena_
  BY DEF IInv, Arena, Covered

\* No two threads hold one mutex, nor two with the same element.
LEMMA Exclusion ==
  ASSUME IInv, NEW t \in Thread, NEW u \in Thread \ {t}
  PROVE  /\ pc[t] \in Inside /\ pc[u] \in Inside => GetMutex(hash[t]) # GetMutex(hash[u])
         /\ pc[t] \in InBucket /\ pc[u] \in InBucket => arg[t] # arg[u]
  <1>1. pc[t] \in Inside /\ pc[u] \in Inside => GetMutex(hash[t]) # GetMutex(hash[u])
    BY DEF IInv, Locks, Hashed
  <1>2. pc[t] \in InBucket /\ pc[u] \in InBucket /\ arg[t] = arg[u] => hash[t] = hash[u]
    BY DEF IInv, Locks, Hashed
  <1>3. \A v \in Thread : pc[v] \in InBucket => pc[v] \in Inside
    BY DEF InBucket, Inside
  <1> QED
    BY <1>1, <1>2, <1>3

\* While a thread is past the checks, nobody replaces the table.
LEMMA NotMoved ==
  ASSUME IInv, NEW t \in Thread, pc[t] \in Passed
  PROVE  /\ \A u \in Thread : pc[u] \notin Rehashing
         /\ InPlace(table_, capacity_)
  BY DEF IInv, Quiet, Placed, Rehashing

\* There are finitely many elements and threads to count.
LEMMA FiniteSets ==
  ASSUME IInv
  PROVE  /\ Set \subseteq Elem /\ IsFiniteSet(Set) /\ Cardinality(Set) \in Nat
         /\ \A T \in SUBSET Thread : IsFiniteSet(T) /\ Cardinality(T) \in Nat
  <1>1. \A i \in DOMAIN table_ : table_[i] \subseteq Elem
    BY DEF IInv, TypeOK, Table
  <1>2. Set \subseteq Elem
    BY <1>1 DEF Set, Members
  <1> QED
    BY <1>2, FiniteAssumption, FS_Subset, FS_CardinalityType

-----------------------------------------------------------------------------
\* What the search finds is what is in the set.
LEMMA SearchIsRight ==
  ASSUME IInv, NEW t \in Thread, pc[t] \in InTheTable
  PROVE  /\ InPlace(table_, capacity_)
         /\ hash[t] = BucketIndex(arg[t], capacity_)
         /\ hash[t] \in 0 .. capacity_ - 1
         /\ arg[t] \in Elem
         /\ arg[t] \in Set <=> arg[t] \in table_[hash[t]]
  <1>1. arg[t] \in Elem /\ InPlace(table_, capacity_)
    BY NotMoved DEF IInv, Passed, InTheTable, Calls
  <1>2. hash[t] = BucketIndex(arg[t], capacity_)
    BY DEF IInv, Locks, Hashed, InBucket
  <1> QED
    BY <1>1, <1>2, Types, BucketIsThere, FoundInItsBucket DEF IInv, Set

\* Push() adds its element to the set,
LEMMA PushAdds ==
  ASSUME IInv, NEW t \in Thread, Push(t)
  PROVE  /\ InPlace(table_', capacity_)
         /\ arg[t] \notin Set
         /\ Set' = Set \cup {arg[t]}
  <1>1. pc[t] = "change" /\ op[t] = "Add"
        /\ table_' = [table_ EXCEPT ![hash[t]] = @ \cup {arg[t]}]
    BY DEF Push
  <1>2. /\ InPlace(table_, capacity_) /\ hash[t] = BucketIndex(arg[t], capacity_)
        /\ hash[t] \in 0 .. capacity_ - 1 /\ arg[t] \in Elem
        /\ arg[t] \notin Set /\ capacity_ \in Nat \ {0}
    BY <1>1, SearchIsRight, Types DEF InTheTable, IInv, Knows
  <1>3. /\ table_' \in Table(capacity_)
        /\ arg[t] \in table_'[hash[t]]
        /\ \A j \in 0 .. capacity_ - 1 : table_'[j] \ {arg[t]} = table_[j] \ {arg[t]}
        /\ \A j \in 0 .. capacity_ - 1 :
             arg[t] \in table_'[j] => j = BucketIndex(arg[t], capacity_)
    BY <1>1, <1>2 DEF InPlace, Table
  <1>4. /\ InPlace(table_', capacity_)
        /\ Members(table_') \ {arg[t]} = Members(table_) \ {arg[t]}
        /\ arg[t] \in Members(table_')
    BY <1>2, <1>3, OneElementChanges
  <1> QED
    BY <1>2, <1>4 DEF Set

\* Erase() takes its element out,
LEMMA EraseRemoves ==
  ASSUME IInv, NEW t \in Thread, Erase(t)
  PROVE  /\ InPlace(table_', capacity_)
         /\ arg[t] \in Set
         /\ Set' = Set \ {arg[t]}
  <1>1. pc[t] = "change" /\ op[t] = "Remove"
        /\ table_' = [table_ EXCEPT ![hash[t]] = @ \ {arg[t]}]
    BY DEF Erase
  <1>2. /\ InPlace(table_, capacity_) /\ hash[t] = BucketIndex(arg[t], capacity_)
        /\ hash[t] \in 0 .. capacity_ - 1 /\ arg[t] \in Elem
        /\ arg[t] \in Set /\ capacity_ \in Nat \ {0}
    BY <1>1, SearchIsRight, Types DEF InTheTable, IInv, Knows
  <1>3. /\ table_' \in Table(capacity_)
        /\ \A j \in 0 .. capacity_ - 1 : table_'[j] \ {arg[t]} = table_[j] \ {arg[t]}
        /\ \A j \in 0 .. capacity_ - 1 : arg[t] \notin table_'[j]
    BY <1>1, <1>2 DEF InPlace, Table
  <1>4. /\ InPlace(table_', capacity_)
        /\ Members(table_') \ {arg[t]} = Members(table_) \ {arg[t]}
        /\ arg[t] \notin Members(table_')
    BY <1>2, <1>3, OneElementChanges
  <1> QED
    BY <1>2, <1>4 DEF Set

\* and replacing the table leaves the set as it is.
LEMMA MoveKeepsAll ==
  ASSUME IInv, NEW t \in Thread, Move(t)
  PROVE  InPlace(table_', capacity_) /\ Set' = Set
  <1>1. PICK c \in Nat \ {0} : InPlace(table_, c) /\ table_' = Rehashed(table_, capacity_)
    BY DEF Move, IInv, Placed
  <1>2. table_ \in Table(c)
    BY <1>1 DEF InPlace
  <1> QED
    BY <1>1, <1>2, Types, RehashedHoldsTheSame DEF Set, IInv

\* Nothing else touches the table.
LEMMA OthersLeaveTheTable ==
  ASSUME NEW t \in Thread, Act(t), ~Push(t), ~Erase(t), ~Move(t)
  PROVE  table_' = table_ /\ Set' = Set
  <1>1. table_' = table_
    BY DEF Act, Step, ScopedLock, TryResize, Call, Spin, LoadCapacity, Lock, CheckResizing,
           CheckCapacity, Retry, Find, PushThrows, Count, Unlock, PolicyCapacity, Compare,
           Exchange, NoResize, BeginResize, Quiesce, Enlarge, Rehash, ResizeThrows, Publish,
           EndResize, Return, shared
  <1> QED
    BY <1>1 DEF Set

\* What becomes of the elements, in all.
LEMMA SetChanges ==
  ASSUME IInv, NEW t \in Thread, Act(t)
  PROVE  /\ Push(t) => arg[t] \notin Set /\ Set' = Set \cup {arg[t]}
         /\ Erase(t) => arg[t] \in Set /\ Set' = Set \ {arg[t]}
         /\ ~Push(t) /\ ~Erase(t) => Set' = Set
  BY PushAdds, EraseRemoves, MoveKeepsAll, OthersLeaveTheTable

-----------------------------------------------------------------------------
\* How many threads are counting is one more, one less or as before.
LEMMA OneMoreCounts ==
  ASSUME IInv, NEW t \in Thread, pc[t] # "count",
         pc' = [pc EXCEPT ![t] = "count"], op' = op
  PROVE  \A o \in {"Add", "Remove"} :
           Counting(o)' = IF o = op[t] THEN Counting(o) + 1 ELSE Counting(o)
  <1> SUFFICES ASSUME NEW o \in {"Add", "Remove"}
               PROVE  Counting(o)' = IF o = op[t] THEN Counting(o) + 1 ELSE Counting(o)
    OBVIOUS
  <1> DEFINE T == {u \in Thread : pc[u] = "count" /\ op[u] = o}
  <1>1. {u \in Thread : pc'[u] = "count" /\ op'[u] = o} = IF o = op[t] THEN T \cup {t} ELSE T
    BY Types DEF IInv
  <1>2. t \notin T /\ IsFiniteSet(T)
    BY FiniteSets
  <1>3. Cardinality(T \cup {t}) = Cardinality(T) + 1
    BY <1>2, FS_AddElement
  <1> QED
    BY <1>1, <1>3 DEF Counting

LEMMA OneLessCounts ==
  ASSUME IInv, NEW t \in Thread, pc[t] = "count",
         pc' = [pc EXCEPT ![t] = "unlock"], op' = op
  PROVE  \A o \in {"Add", "Remove"} :
           Counting(o)' = IF o = op[t] THEN Counting(o) - 1 ELSE Counting(o)
  <1> SUFFICES ASSUME NEW o \in {"Add", "Remove"}
               PROVE  Counting(o)' = IF o = op[t] THEN Counting(o) - 1 ELSE Counting(o)
    OBVIOUS
  <1> DEFINE T == {u \in Thread : pc[u] = "count" /\ op[u] = o}
  <1>1. {u \in Thread : pc'[u] = "count" /\ op'[u] = o} = IF o = op[t] THEN T \ {t} ELSE T
    BY Types DEF IInv
  <1>2. (t \in T <=> o = op[t]) /\ IsFiniteSet(T)
    BY FiniteSets
  <1>3. o = op[t] => Cardinality(T \ {t}) = Cardinality(T) - 1
    BY <1>2, FS_RemoveElement
  <1> QED
    BY <1>1, <1>3 DEF Counting

\* The elements that are yet to be counted are in the set, each with a thread
\* of its own.
LEMMA CountedAreThere ==
  ASSUME IInv
  PROVE  /\ Counting("Add") \in Nat /\ Counting("Remove") \in Nat
         /\ Counting("Add") <= Cardinality(Set)
  <1> DEFINE T == {u \in Thread : pc[u] = "count" /\ op[u] = "Add"}
  <1> DEFINE f == [u \in T |-> arg[u]]
  <1>1. \A u \in T : arg[u] \in Set
    BY DEF IInv, Knows
  <1>2. \A u, v \in T : arg[u] = arg[v] => u = v
    BY Exclusion DEF InBucket
  <1>3. f \in Injection(T, Set)
    BY <1>1, <1>2 DEF Injection, IsInjective
  <1>4. Cardinality(T) <= Cardinality(Set)
    BY <1>3, FiniteSets, FS_Injection
  <1> QED
    BY <1>4, FiniteSets DEF Counting

-----------------------------------------------------------------------------
\* What a step leaves alone, and where it goes.
LEMMA OthersStay ==
  ASSUME IInv, NEW t \in Thread, Act(t), NEW u \in Thread \ {t}
  PROVE  /\ pc'[u] = pc[u] /\ op'[u] = op[u] /\ arg'[u] = arg[u] /\ answer'[u] = answer[u]
         /\ hash'[u] = hash[u] /\ capacity'[u] = capacity[u] /\ index'[u] = index[u]
         /\ new_table'[u] = new_table[u]
  <1>0. /\ pc \in [Thread -> Label] /\ op \in [Thread -> Operation \cup {"none"}]
        /\ arg \in [Thread -> Elem \cup {None}] /\ answer \in [Thread -> SUBSET BOOLEAN]
        /\ hash \in [Thread -> Nat] /\ capacity \in [Thread -> Nat] /\ index \in [Thread -> Nat]
        /\ DOMAIN new_table = Thread
    BY Types DEF IInv
  <1>1. CASE \/ \E o \in Operation, e \in Elem : Call(t, o, e)
             \/ Spin(t) \/ Lock(t) \/ CheckResizing(t) \/ PushThrows(t) \/ Count(t)
    BY <1>0, <1>1 DEF Call, Spin, Lock, CheckResizing, PushThrows, Count, Goto, call, locals,
                      answers
  <1>2. CASE LoadCapacity(t) \/ CheckCapacity(t) \/ Retry(t) \/ Unlock(t)
    BY <1>0, <1>2 DEF LoadCapacity, CheckCapacity, Retry, Unlock, ReleaseMutex, Goto, call,
                      answers
  <1>3. CASE Find(t)
    BY <1>0, <1>3 DEF Find, Goto, Settle, call, locals
  <1>4. CASE Push(t) \/ Erase(t)
    BY <1>0, <1>4 DEF Push, Erase, Goto, Settle, call, locals
  <1>5. CASE PolicyCapacity(t) \/ Compare(t) \/ Exchange(t) \/ NoResize(t) \/ BeginResize(t)
    BY <1>0, <1>5 DEF PolicyCapacity, Compare, Exchange, NoResize, BeginResize, Goto, call,
                      locals, answers
  <1>6. CASE Quiesce(t) \/ Enlarge(t) \/ Rehash(t) \/ ResizeThrows(t)
    BY <1>0, <1>6 DEF Quiesce, Enlarge, Rehash, ResizeThrows, Goto, call, locals, answers
  <1>7. CASE Publish(t) \/ Move(t) \/ EndResize(t) \/ Return(t)
    BY <1>0, <1>7 DEF Publish, Move, EndResize, Return, Goto, call, locals, answers
  <1> QED
    BY <1>1, <1>2, <1>3, <1>4, <1>5, <1>6, <1>7 DEF Act, Step, ScopedLock, TryResize

\* Only Publish() changes the capacity.
LEMMA CapacityStays ==
  ASSUME NEW t \in Thread, Act(t), ~Publish(t)
  PROVE  capacity_' = capacity_
  BY DEF Act, Step, ScopedLock, TryResize, Call, Spin, LoadCapacity, Lock, CheckResizing,
         CheckCapacity, Retry, Find, Push, PushThrows, Erase, Count, Unlock, PolicyCapacity,
         Compare, Exchange, NoResize, BeginResize, Quiesce, Enlarge, Rehash, ResizeThrows,
         Move, EndResize, Return, shared

-----------------------------------------------------------------------------
\* Every step keeps the invariant, part by part: the types of the shared variables,
LEMMA CounterStaysNatural ==
  ASSUME IInv, NEW t \in Thread, Count(t)
  PROVE  set_size_' \in Nat
  <1>1. /\ set_size_ + Counting("Add") = Cardinality(Set) + Counting("Remove")
        /\ Counting("Add") \in Nat /\ Counting("Remove") \in Nat /\ Cardinality(Set) \in Nat
        /\ Counting("Add") <= Cardinality(Set) /\ set_size_ \in Nat
    BY CountedAreThere, FiniteSets, Types DEF IInv, SizeAgrees
  <1>2. op[t] \in {"Add", "Remove"}
    BY DEF Count, IInv, Calls
  <1>3. CASE op[t] = "Add"
    BY <1>1, <1>3 DEF Count
  <1>4. CASE op[t] = "Remove"
    <2>1. Counting("Remove") >= 1
      <3> DEFINE T == {u \in Thread : pc[u] = "count" /\ op[u] = "Remove"}
      <3>1. t \in T /\ IsFiniteSet(T) /\ IsFiniteSet(T \ {t})
        BY <1>4, FiniteSets DEF Count
      <3>2. Cardinality(T \ {t}) = Cardinality(T) - 1 /\ Cardinality(T \ {t}) \in Nat
        BY <3>1, FiniteSets, FS_RemoveElement
      <3> QED
        BY <1>1, <3>2 DEF Counting
    <2>2. set_size_' = set_size_ - 1
      BY <1>4 DEF Count
    <2> QED
      BY <1>1, <2>1, <2>2
  <1> QED
    BY <1>2, <1>3, <1>4

\* of the versions a thread acquires and passes on,
LEMMA OrderStays ==
  ASSUME IInv, NEW t \in Thread, Act(t)
  PROVE  /\ view' \in [Thread -> Nat]
         /\ released' \in [{"resizing_", "capacity_"} -> Nat]
  <1>0. /\ view \in [Thread -> Nat] /\ released \in [{"resizing_", "capacity_"} -> Nat]
        /\ unlocked \in [DOMAIN arena_ -> Nat] /\ capacity_ \in Nat
    BY DEF IInv, TypeOK
  <1>1. ASSUME NEW v \in Nat, Synchronise(t, v)
        PROVE  view' \in [Thread -> Nat]
    BY <1>0, <1>1 DEF Synchronise, Later
  <1>2. CASE Spin(t) \/ CheckResizing(t) \/ Exchange(t) \/ LoadCapacity(t)
    <2>1. view' \in [Thread -> Nat]
      BY <1>0, <1>1, <1>2 DEF Spin, CheckResizing, Exchange, LoadCapacity, Acquire
    <2> QED
      BY <1>0, <1>2, <2>1 DEF Spin, CheckResizing, Exchange, LoadCapacity
  <1>3. CASE Lock(t) \/ Quiesce(t)
    <2>1. CASE Lock(t)
      <3>1. unlocked[GetMutex(hash[t])] \in Nat
        BY <1>0, <2>1, MutexIsThere DEF Lock, IInv, Locks, Hashed
      <3> QED
        BY <1>0, <1>1, <2>1, <3>1 DEF Lock
    <2>2. CASE Quiesce(t)
      <3>1. unlocked[GetMutex(index[t])] \in Nat
        BY <1>0, <2>2, MutexIsThere DEF Quiesce, IInv, OneResize
      <3> QED
        BY <1>0, <1>1, <2>2, <3>1 DEF Quiesce
    <2> QED
      BY <1>3, <2>1, <2>2
  <1>4. CASE NoResize(t) \/ Publish(t) \/ EndResize(t) \/ Move(t)
    BY <1>0, <1>4 DEF NoResize, Publish, EndResize, Move, Release
  <1>5. CASE ~(\/ Spin(t) \/ CheckResizing(t) \/ Exchange(t) \/ LoadCapacity(t) \/ Lock(t)
               \/ Quiesce(t) \/ NoResize(t) \/ Publish(t) \/ EndResize(t) \/ Move(t))
    <2>1. view' = view /\ released' = released
      BY <1>5 DEF Act, Step, ScopedLock, TryResize, Call, CheckCapacity, Retry, Find, Push,
             PushThrows, Erase, Count, Unlock, PolicyCapacity, Compare, BeginResize, Enlarge,
             Rehash, ResizeThrows, Return, order
    <2> QED
      BY <1>0, <2>1
  <1> QED
    BY <1>2, <1>3, <1>4, <1>5

\* of the mutexes,
LEMMA MutexesStay ==
  ASSUME IInv, NEW t \in Thread, Act(t)
  PROVE  /\ DOMAIN arena_ \subseteq DOMAIN arena_'
         /\ arena_' \in [DOMAIN arena_' -> Thread \cup {None}]
         /\ unlocked' \in [DOMAIN arena_' -> Nat]
  <1>0. /\ arena_ \in [DOMAIN arena_ -> Thread \cup {None}]
        /\ unlocked \in [DOMAIN arena_ -> Nat] /\ view \in [Thread -> Nat]
    BY DEF IInv, TypeOK
  <1>1. view' \in [Thread -> Nat]
    BY OrderStays
  <1>2. CASE Lock(t) \/ Retry(t) \/ Unlock(t)
    BY <1>0, <1>2 DEF Lock, Retry, Unlock, ReleaseMutex
  <1>3. CASE Quiesce(t)
    BY <1>0, <1>1, <1>3 DEF Quiesce
  <1>4. CASE Enlarge(t)
    <2> DEFINE b == BlockIndex(capacity[t])
    <2>1. /\ arena_' = [m \in DOMAIN arena_ \cup Block(b) |->
                          IF m \in Block(b) THEN EnlargeMutexArena(b)[m] ELSE arena_[m]]
          /\ unlocked' = [m \in DOMAIN arena_ \cup Block(b) |->
                            IF m \in Block(b) THEN 0 ELSE unlocked[m]]
      BY <1>4 DEF Enlarge
    <2>2. \A m \in Block(b) : EnlargeMutexArena(b)[m] = None
      BY DEF EnlargeMutexArena
    <2> HIDE DEF b
    <2> QED
      BY <1>0, <2>1, <2>2
  <1>5. CASE ~Lock(t) /\ ~Retry(t) /\ ~Unlock(t) /\ ~Quiesce(t) /\ ~Enlarge(t)
    <2>1. arena_' = arena_ /\ unlocked' = unlocked
      BY <1>5 DEF Act, Step, ScopedLock, TryResize, Call, Spin, LoadCapacity, CheckResizing,
             CheckCapacity, Find, Push, PushThrows, Erase, Count, PolicyCapacity, Compare,
             Exchange, NoResize, BeginResize, Rehash, ResizeThrows, Publish, Move, EndResize,
             Return, order
    <2> QED
      BY <1>0, <2>1
  <1> QED
    BY <1>2, <1>3, <1>4, <1>5

\* While a thread rehashes, publishes or moves, no other does.
LEMMA OneRehashes ==
  ASSUME IInv, NEW t \in Thread, pc[t] \in Resizing, NEW u \in Thread \ {t}
  PROVE  pc[u] \notin Resizing /\ new_table[u] = EmptyTable(0)
  BY DEF IInv, OneResize, Placed, Resizing, Rehashing

\* of the tables,
LEMMA TablesStay ==
  ASSUME IInv, NEW t \in Thread, Act(t)
  PROVE  /\ capacity_' \in Nat \ {0}
         /\ table_' \in Table(capacity_') \cup Table(capacity_' \div 2)
         /\ new_table' \in
              [Thread -> Table(0) \cup Table(capacity_') \cup Table(2 * capacity_')]
  <1>0. /\ capacity_ \in Nat \ {0} /\ table_ \in Table(capacity_) \cup Table(capacity_ \div 2)
        /\ new_table \in [Thread -> Table(0) \cup Table(capacity_) \cup Table(2 * capacity_)]
        /\ 2 * capacity_ \in Nat \ {0} /\ (2 * capacity_) \div 2 = capacity_
    BY DEF IInv, TypeOK
  <1>1. EmptyTable(0) \in Table(0)
    BY DEF EmptyTable, Table
  <1>2. CASE Push(t) \/ Erase(t)
    <2>1. capacity_' = capacity_ /\ new_table' = new_table
      BY <1>2 DEF Push, Erase, locals
    <2> QED
      BY <1>0, <1>2, <2>1, PushAdds, EraseRemoves DEF InPlace
  <1>3. CASE Move(t)
    <2>1. capacity_' = capacity_ /\ new_table' = [new_table EXCEPT ![t] = EmptyTable(0)]
      BY <1>3 DEF Move
    <2> QED
      BY <1>0, <1>1, <1>3, <2>1, MoveKeepsAll DEF InPlace
  <1>4. CASE Rehash(t)
    <2>1. /\ capacity_' = capacity_ /\ table_' = table_ /\ capacity[t] = capacity_
          /\ new_table' = [new_table EXCEPT ![t] = Rehashed(table_, 2 * capacity_)]
      BY <1>4 DEF Rehash, shared, IInv, OneResize, Planning
    <2>2. InPlace(table_, capacity_)
      BY <1>4, OneRehashes DEF Rehash, IInv, Placed, Resizing, Rehashing
    <2>3. Rehashed(table_, 2 * capacity_) \in Table(2 * capacity_)
      BY <1>0, <2>2, RehashedHoldsTheSame DEF InPlace
    <2> QED
      BY <1>0, <2>1, <2>3
  <1>5. CASE Publish(t)
    <2>1. /\ capacity_' = 2 * capacity_ /\ table_' = table_ /\ new_table' = new_table
      BY <1>5 DEF Publish, IInv, OneResize, Planning
    <2>2. InPlace(table_, capacity_) /\ new_table[t] = Rehashed(table_, 2 * capacity_)
      BY <1>5, OneRehashes DEF Publish, IInv, Placed, Resizing, Rehashing
    <2>3. new_table[t] \in Table(2 * capacity_)
      BY <1>0, <2>2, RehashedHoldsTheSame DEF InPlace
    <2>4. \A u \in Thread \ {t} : new_table[u] \in Table(0)
      BY <1>1, <1>5, OneRehashes DEF Publish, Resizing, Rehashing
    <2>5. \A u \in Thread : new_table[u] \in Table(0) \cup Table(2 * capacity_)
      BY <2>3, <2>4
    <2>6. new_table' \in [Thread -> Table(0) \cup Table(2 * capacity_)]
      BY <1>0, <2>1, <2>5
    <2> QED
      BY <1>0, <2>1, <2>2, <2>6 DEF InPlace
  <1>6. CASE ~Push(t) /\ ~Erase(t) /\ ~Move(t) /\ ~Rehash(t) /\ ~Publish(t)
    <2>1. capacity_' = capacity_ /\ table_' = table_
      BY <1>6, CapacityStays, OthersLeaveTheTable
    <2>2. new_table' = new_table
      BY <1>6 DEF Act, Step, ScopedLock, TryResize, Call, Spin, LoadCapacity, Lock,
             CheckResizing, CheckCapacity, Retry, Find, PushThrows, Count, Unlock,
             PolicyCapacity, Compare, Exchange, NoResize, BeginResize, Quiesce, Enlarge,
             ResizeThrows, EndResize, Return, locals
    <2> QED
      BY <1>0, <2>1, <2>2
  <1> QED
    BY <1>2, <1>3, <1>4, <1>5, <1>6

\* of what a thread has at hand,
LEMMA LocalsStay ==
  ASSUME IInv, NEW t \in Thread, Act(t)
  PROVE  /\ hash' \in [Thread -> Nat] /\ capacity' \in [Thread -> Nat]
         /\ index' \in [Thread -> Nat]
  <1>0. /\ hash \in [Thread -> Nat] /\ capacity \in [Thread -> Nat]
        /\ index \in [Thread -> Nat] /\ capacity_ \in Nat \ {0}
    BY Types DEF IInv
  <1>1. CASE LoadCapacity(t)
    <2>1. BucketIndex(arg[t], capacity_) \in Nat
      <3>1. arg[t] \in Elem
        BY <1>1 DEF LoadCapacity, IInv, Calls
      <3> QED
        BY <1>0, <3>1, BucketIsThere
    <2> QED
      BY <1>0, <1>1, <2>1 DEF LoadCapacity
  <1>2. CASE Retry(t) \/ Unlock(t) \/ CheckCapacity(t)
    <2>1. /\ hash' \in {hash, [hash EXCEPT ![t] = 0]} /\ index' = index
          /\ capacity' \in {capacity, [capacity EXCEPT ![t] = 0]}
      BY <1>2 DEF Retry, Unlock, CheckCapacity, ReleaseMutex
    <2> QED
      BY <1>0, <2>1
  <1>3. CASE PolicyCapacity(t) \/ Compare(t) \/ BeginResize(t) \/ Quiesce(t)
    BY <1>0, <1>3 DEF PolicyCapacity, Compare, BeginResize, Quiesce
  <1>4. CASE ResizeThrows(t) \/ Publish(t)
    BY <1>0, <1>4 DEF ResizeThrows, Publish
  <1>5. CASE ~(\/ LoadCapacity(t) \/ Retry(t) \/ Unlock(t) \/ CheckCapacity(t)
               \/ PolicyCapacity(t) \/ Compare(t) \/ BeginResize(t) \/ Quiesce(t)
               \/ ResizeThrows(t) \/ Publish(t))
    <2>1. hash' = hash /\ capacity' = capacity /\ index' = index
      BY <1>5 DEF Act, Step, ScopedLock, TryResize, Call, Spin, Lock, CheckResizing, Find,
             Push, PushThrows, Erase, Count, Exchange, NoResize, Enlarge, Rehash, Move,
             EndResize, Return, locals
    <2> QED
      BY <1>0, <2>1
  <1> QED
    BY <1>1, <1>2, <1>3, <1>4, <1>5

\* of where it is and what it has seen,
LEMMA PlacesStay ==
  ASSUME IInv, NEW t \in Thread, Act(t)
  PROVE  pc' \in [Thread -> Label]
  <1>0. pc \in [Thread -> Label]
    BY Types DEF IInv
  <1>1. ASSUME NEW l \in Label, Goto(t, l)
        PROVE  pc' \in [Thread -> Label]
    BY <1>0, <1>1 DEF Goto
  <1> USE DEF Label
  <1>2. CASE ScopedLock(t)
    BY <1>0, <1>1, <1>2 DEF ScopedLock, Spin, LoadCapacity, Lock, CheckResizing,
       CheckCapacity, Retry
  <1>3. CASE TryResize(t)
    BY <1>0, <1>1, <1>3 DEF TryResize, PolicyCapacity, Compare, Exchange, NoResize,
       BeginResize, Quiesce, Enlarge, Rehash, ResizeThrows, Publish, Move, EndResize
  <1>4. CASE ~ScopedLock(t) /\ ~TryResize(t)
    BY <1>0, <1>1, <1>4 DEF Act, Step, Call, Find, Push, PushThrows, Erase, Count, Unlock,
       Return
  <1> QED
    BY <1>2, <1>3, <1>4

LEMMA AnswersStay ==
  ASSUME IInv, NEW t \in Thread, Act(t)
  PROVE  /\ op' \in [Thread -> Operation \cup {"none"}]
         /\ arg' \in [Thread -> Elem \cup {None}]
         /\ answer' \in [Thread -> SUBSET BOOLEAN]
         /\ seen' \in [Thread -> SUBSET BOOLEAN]
  <1>0. /\ op \in [Thread -> Operation \cup {"none"}] /\ arg \in [Thread -> Elem \cup {None}]
        /\ answer \in [Thread -> SUBSET BOOLEAN] /\ seen \in [Thread -> SUBSET BOOLEAN]
    BY Types DEF IInv
  <1>1. CASE \E o \in Operation, e \in Elem : Call(t, o, e)
    BY <1>0, <1>1 DEF Call
  <1>2. CASE Find(t)
    <2>1. {op[t] = "Contains" /\ arg[t] \in table_[hash[t]]} \in SUBSET BOOLEAN
      OBVIOUS
    <2>2. answer' \in [Thread -> SUBSET BOOLEAN]
      BY <1>0, <1>2, <2>1 DEF Find, Settle
    <2> QED
      BY <1>0, <1>2, <2>2 DEF Find, call
  <1>3. CASE Push(t) \/ Erase(t)
    <2>1. op' = op /\ arg' = arg /\ answer' = [answer EXCEPT ![t] = {TRUE}]
      BY <1>3 DEF Push, Erase, call, Settle
    <2>2. \E b \in BOOLEAN :
            seen' = [u \in Thread |-> IF arg[u] = arg[t] THEN seen[u] \cup {b} ELSE seen[u]]
      BY <1>3 DEF Push, Erase, Observe
    <2> QED
      BY <1>0, <2>1, <2>2
  <1>4. CASE Return(t)
    BY <1>0, <1>4 DEF Return
  <1>5. CASE ~(\E o \in Operation, e \in Elem : Call(t, o, e)) /\ ~Find(t) /\ ~Push(t)
             /\ ~Erase(t) /\ ~Return(t)
    <2>1. op' = op /\ arg' = arg /\ answer' = answer /\ seen' = seen
      BY <1>5 DEF Act, Step, ScopedLock, TryResize, Spin, LoadCapacity, Lock, CheckResizing,
             CheckCapacity, Retry, PushThrows, Count, Unlock, PolicyCapacity, Compare,
             Exchange, NoResize, BeginResize, Quiesce, Enlarge, Rehash, ResizeThrows,
             Publish, Move, EndResize, call, answers
    <2> QED
      BY <1>0, <2>1
  <1> QED
    BY <1>1, <1>2, <1>3, <1>4, <1>5

\* and with them of everything.
LEMMA TypesStay ==
  ASSUME IInv, NEW t \in Thread, Act(t)
  PROVE  TypeOK'
  <1>1. set_size_' \in Nat
    <2>1. CASE Count(t)
      BY <2>1, CounterStaysNatural
    <2>2. CASE ~Count(t)
      <3>1. set_size_' = set_size_
        BY <2>2 DEF Act, Step, ScopedLock, TryResize, Call, Spin, LoadCapacity, Lock,
               CheckResizing, CheckCapacity, Retry, Find, Push, PushThrows, Erase, Unlock,
               PolicyCapacity, Compare, Exchange, NoResize, BeginResize, Quiesce, Enlarge,
               Rehash, ResizeThrows, Publish, Move, EndResize, Return, shared
      <3> QED
        BY <3>1, Types DEF IInv
    <2> QED
      BY <2>1, <2>2
  <1>2. resizing_' \in BOOLEAN
    <2>1. resizing_' \in {resizing_, TRUE, FALSE}
      BY DEF Act, Step, ScopedLock, TryResize, Call, Spin, LoadCapacity, Lock, CheckResizing,
             CheckCapacity, Retry, Find, Push, PushThrows, Erase, Count, Unlock,
             PolicyCapacity, Compare, Exchange, NoResize, BeginResize, Quiesce, Enlarge,
             Rehash, ResizeThrows, Publish, Move, EndResize, Return, shared
    <2> QED
      BY <2>1, Types DEF IInv
  <1> QED
    BY <1>1, <1>2, OrderStays, MutexesStay, TablesStay, LocalsStay, PlacesStay, AnswersStay
       DEF TypeOK

\* What a thread is in a call for, and that a call ends with an answer unless it throws.
LEMMA CallsStay ==
  ASSUME IInv, NEW t \in Thread, Act(t)
  PROVE  Calls'
  <1> DEFINE Keeps ==
        /\ IF pc'[t] = "idle" THEN op'[t] = "none" /\ arg'[t] = None /\ answer'[t] = {}
                              ELSE op'[t] \in Operation /\ arg'[t] \in Elem
        /\ pc'[t] \in Unsettled => answer'[t] = {}
        /\ pc'[t] \in {"change", "count"} => op'[t] \in {"Add", "Remove"}
        /\ pc'[t] \notin Unsettled \cup {"idle"} => answer'[t] # {} \/ Failures # {}
  <1> SUFFICES Keeps
    BY OthersStay DEF Calls, IInv, Unsettled
  <1>0. /\ pc \in [Thread -> Label] /\ op \in [Thread -> Operation \cup {"none"}]
        /\ arg \in [Thread -> Elem \cup {None}] /\ answer \in [Thread -> SUBSET BOOLEAN]
        /\ IF pc[t] = "idle" THEN op[t] = "none" /\ arg[t] = None /\ answer[t] = {}
                             ELSE op[t] \in Operation /\ arg[t] \in Elem
        /\ pc[t] \in Unsettled => answer[t] = {}
        /\ pc[t] \in {"change", "count"} => op[t] \in {"Add", "Remove"}
        /\ pc[t] \notin Unsettled \cup {"idle"} => answer[t] # {} \/ Failures # {}
    BY Types DEF IInv, Calls
  <1>1. CASE \E o \in Operation, e \in Elem : Call(t, o, e)
    BY <1>0, <1>1 DEF Call, Goto, Unsettled, InTheTable
  <1>2. CASE ScopedLock(t)
    <2>1. op' = op /\ arg' = arg /\ answer' = answer
      BY <1>2 DEF ScopedLock, Spin, LoadCapacity, Lock, CheckResizing, CheckCapacity, Retry,
             call, answers
    <2>2. /\ pc[t] \in Unsettled
          /\ pc'[t] \in {"hash", "lock", "check_resizing", "retry", "check_capacity", "find",
                         "spin"}
      BY <1>0, <1>2 DEF ScopedLock, Spin, LoadCapacity, Lock, CheckResizing, CheckCapacity,
             Retry, Goto, Unsettled
    <2> QED
      BY <1>0, <2>1, <2>2 DEF Unsettled, InTheTable
  <1>3. CASE Find(t)
    <2>1. {op[t] = "Contains" /\ arg[t] \in table_[hash[t]]} # {}
      OBVIOUS
    <2>2. op' = op /\ arg' = arg /\ pc[t] = "find" /\ pc'[t] \in {"change", "unlock"}
      BY <1>0, <1>3 DEF Find, Goto, call
    <2>3. IF pc'[t] = "change" THEN op[t] \in {"Add", "Remove"} /\ answer'[t] = answer[t]
                               ELSE answer'[t] # {}
      BY <1>0, <1>3, <2>1 DEF Find, Goto, Settle
    <2> QED
      BY <1>0, <2>2, <2>3 DEF Unsettled, InTheTable
  <1>4. CASE Push(t) \/ Erase(t)
    BY <1>0, <1>4 DEF Push, Erase, Goto, Settle, call, Unsettled, InTheTable
  <1>5. CASE PushThrows(t)
    BY <1>0, <1>5 DEF PushThrows, Goto, call, answers, Unsettled, InTheTable
  <1>6. CASE Count(t) \/ Unlock(t) \/ TryResize(t)
    <2>1. op' = op /\ arg' = arg /\ answer' = answer
      BY <1>6 DEF Count, Unlock, TryResize, PolicyCapacity, Compare, Exchange, NoResize,
             BeginResize, Quiesce, Enlarge, Rehash, ResizeThrows, Publish, Move, EndResize,
             call, answers
    <2>2. /\ pc[t] \notin Unsettled \cup {"idle"}
          /\ pc'[t] \notin Unsettled \cup {"idle", "change", "count"}
      BY <1>0, <1>6 DEF Count, Unlock, TryResize, PolicyCapacity, Compare, Exchange, NoResize,
             BeginResize, Quiesce, Enlarge, Rehash, ResizeThrows, Publish, Move, EndResize,
             Goto, Unsettled, InTheTable
    <2> QED
      BY <1>0, <2>1, <2>2
  <1>7. CASE Return(t)
    BY <1>0, <1>7 DEF Return, Goto, Unsettled, InTheTable
  <1> QED
    BY <1>1, <1>2, <1>3, <1>4, <1>5, <1>6, <1>7 DEF Act, Step

-----------------------------------------------------------------------------
\* By which steps a thread gets to the places the other parts are about.
LEMMA WaysIn ==
  ASSUME IInv, NEW t \in Thread, Act(t)
  PROVE  /\ pc'[t] \in Hashing => pc[t] \in Hashing \/ LoadCapacity(t)
         /\ pc'[t] \in Inside => pc[t] \in Inside \/ Lock(t)
         /\ pc'[t] \in Passed => pc[t] \in Passed \/ (CheckResizing(t) /\ ~resizing_)
         /\ pc'[t] \in InBucket =>
              pc[t] \in InBucket \/ (CheckCapacity(t) /\ capacity_ = capacity[t])
         /\ pc'[t] \in Resizing => pc[t] \in Resizing \/ (Exchange(t) /\ ~resizing_)
         /\ pc'[t] \in Planning => pc[t] \in Planning \/ BeginResize(t)
         /\ pc'[t] \in Rehashing =>
              pc[t] \in Rehashing \/ (Quiesce(t) /\ index[t] = capacity[t] - 1)
         /\ pc'[t] = "rehash" => Enlarge(t)
         /\ pc'[t] = "publish" => Rehash(t)
         /\ pc'[t] = "move" => Publish(t)
         /\ pc'[t] = "quiesce" => pc[t] = "quiesce" \/ BeginResize(t)
         /\ pc'[t] = "lock" => LoadCapacity(t)
  <1>0. pc \in [Thread -> Label]
    BY Types DEF IInv
  <1>1. /\ Spin(t) => pc[t] = "spin" /\ pc'[t] = "hash"
        /\ LoadCapacity(t) => pc[t] = "hash" /\ pc'[t] = "lock"
        /\ Lock(t) => pc[t] = "lock" /\ pc'[t] = "check_resizing"
        /\ CheckResizing(t) =>
             /\ pc[t] = "check_resizing"
             /\ pc'[t] = IF resizing_ THEN "retry" ELSE "check_capacity"
        /\ CheckCapacity(t) =>
             /\ pc[t] = "check_capacity"
             /\ pc'[t] = IF capacity_ = capacity[t] THEN "find" ELSE "retry"
        /\ Retry(t) => pc[t] = "retry" /\ pc'[t] = "spin"
    BY <1>0 DEF Spin, LoadCapacity, Lock, CheckResizing, CheckCapacity, Retry, Goto
  <1>2. /\ Find(t) => pc[t] = "find" /\ pc'[t] \in {"change", "unlock"}
        /\ Push(t) => pc[t] = "change" /\ pc'[t] = "count"
        /\ PushThrows(t) => pc[t] = "change" /\ pc'[t] = "unlock"
        /\ Erase(t) => pc[t] = "change" /\ pc'[t] = "count"
        /\ Count(t) => pc[t] = "count" /\ pc'[t] = "unlock"
        /\ Unlock(t) => pc[t] = "unlock" /\ pc'[t] \in {"policy", "done"}
    BY <1>0 DEF Find, Push, PushThrows, Erase, Count, Unlock, Goto
  <1>3. /\ PolicyCapacity(t) => pc[t] = "policy" /\ pc'[t] = "compare"
        /\ Compare(t) => pc[t] = "compare" /\ pc'[t] \in {"exchange", "done"}
        /\ Exchange(t) =>
             pc[t] = "exchange" /\ pc'[t] = IF resizing_ THEN "done" ELSE "resize"
        /\ NoResize(t) => pc[t] = "resize" /\ pc'[t] = "done"
        /\ BeginResize(t) => pc[t] = "resize" /\ pc'[t] = "quiesce"
        /\ Quiesce(t) =>
             /\ pc[t] = "quiesce"
             /\ pc'[t] = IF index[t] = capacity[t] - 1 THEN "enlarge" ELSE "quiesce"
    BY <1>0 DEF PolicyCapacity, Compare, Exchange, NoResize, BeginResize, Quiesce, Goto
  <1>4. /\ Enlarge(t) => pc[t] = "enlarge" /\ pc'[t] = "rehash"
        /\ Rehash(t) => pc[t] = "rehash" /\ pc'[t] = "publish"
        /\ ResizeThrows(t) => pc[t] \in {"enlarge", "rehash"} /\ pc'[t] = "done"
        /\ Publish(t) => pc[t] = "publish" /\ pc'[t] = "move"
        /\ Move(t) => pc[t] = "move" /\ pc'[t] = "end"
        /\ EndResize(t) => pc[t] = "end" /\ pc'[t] = "done"
    BY <1>0 DEF Enlarge, Rehash, ResizeThrows, Publish, Move, EndResize, Goto
  <1>5. /\ Return(t) => pc[t] = "done" /\ pc'[t] = "idle"
        /\ (\E o \in Operation, e \in Elem : Call(t, o, e)) => pc[t] = "idle" /\ pc'[t] = "spin"
    BY <1>0 DEF Return, Call, Goto
  <1> USE DEF Hashing, Inside, Passed, InBucket, InTheTable, Resizing, Planning, Rehashing
  <1>6. CASE ScopedLock(t)
    BY <1>1, <1>6 DEF ScopedLock
  <1>7. CASE TryResize(t)
    BY <1>3, <1>4, <1>7 DEF TryResize
  <1>8. CASE ~ScopedLock(t) /\ ~TryResize(t)
    BY <1>2, <1>5, <1>8 DEF Act, Step
  <1> QED
    BY <1>6, <1>7, <1>8

\* A new block covers the buckets of the table a resize publishes.
LEMMA ArenaStays ==
  ASSUME IInv, NEW t \in Thread, Act(t)
  PROVE  Arena'
  <1>1. PICK k \in Nat :
          /\ Doubled(k, capacity_)
          /\ Covered(k, capacity_, DOMAIN arena_)
          /\ \A u \in Thread : pc[u] \in {"rehash", "publish"} =>
               Block(k + 1) \subseteq DOMAIN arena_
    BY DEF IInv, Arena
  <1>2. capacity_ \in Nat \ {0} /\ DOMAIN arena_ \subseteq DOMAIN arena_'
    BY Types, MutexesStay DEF IInv
  <1>3. CASE Publish(t)
    <2>1. capacity_' = 2 * capacity_ /\ DOMAIN arena_' = DOMAIN arena_ /\ pc[t] = "publish"
      BY <1>3 DEF Publish, IInv, OneResize, Planning
    <2>2. Covered(k + 1, 2 * capacity_, DOMAIN arena_) /\ Doubled(k + 1, 2 * capacity_)
      BY <1>1, <1>2, <2>1, CoveredAgain, DoubledAgain
    <2>3. \A u \in Thread : pc'[u] \notin {"rehash", "publish"}
      <3>1. \A u \in Thread \ {t} : pc'[u] \notin {"rehash", "publish"}
        BY <2>1, OneRehashes, OthersStay DEF Resizing, Rehashing
      <3>2. pc'[t] \notin {"rehash", "publish"}
        BY <1>3, Types DEF Publish, Goto, IInv
      <3> QED
        BY <3>1, <3>2
    <2>4. k + 1 \in Nat
      OBVIOUS
    <2> QED
      BY <2>1, <2>2, <2>3, <2>4 DEF Arena
  <1>4. CASE ~Publish(t)
    <2>1. capacity_' = capacity_
      BY <1>4, CapacityStays
    <2>2. Covered(k, capacity_, DOMAIN arena_')
      BY <1>1, <1>2 DEF Covered
    <2>3. ASSUME NEW u \in Thread, pc'[u] \in {"rehash", "publish"}
          PROVE  Block(k + 1) \subseteq DOMAIN arena_'
      <3>1. CASE Enlarge(t)
        <4>1. capacity[t] = capacity_
          BY <3>1 DEF Enlarge, IInv, OneResize, Planning
        <4>2. BlockIndex(capacity[t]) = k + 1
          BY <1>1, <1>2, <4>1, NextBlockIndex
        <4>3. DOMAIN arena_' = DOMAIN arena_ \cup Block(k + 1)
          BY <3>1, <4>2 DEF Enlarge
        <4> QED
          BY <4>3
      <3>2. CASE ~Enlarge(t)
        <4>1. \E v \in Thread : pc[v] \in {"rehash", "publish"}
          BY <2>3, <3>2, WaysIn, OthersStay DEF Rehash
        <4> QED
          BY <1>1, <1>2, <4>1
      <3> QED
        BY <3>1, <3>2
    <2> QED
      BY <1>1, <2>1, <2>2, <2>3 DEF Arena
  <1> QED
    BY <1>3, <1>4

\* A resize waits for the others, and there is one at a time.
LEMMA OneResizeStays ==
  ASSUME IInv, NEW t \in Thread, Act(t)
  PROVE  OneResize'
  <1>0. /\ pc \in [Thread -> Label] /\ capacity \in [Thread -> Nat]
        /\ index \in [Thread -> Nat] /\ capacity_ \in Nat \ {0}
    BY Types DEF IInv
  <1>1. ASSUME NEW u \in Thread, pc'[u] \in Resizing
        PROVE  /\ resizing_'
               /\ \A v \in Thread \ {u} : pc'[v] \notin Resizing
    <2>1. CASE Exchange(t)
      <3>1. resizing_'
        BY <2>1 DEF Exchange
      <3>2. CASE resizing_
        <4>1. pc'[t] \notin Resizing
          BY <1>0, <2>1, <3>2 DEF Exchange, Goto, Resizing, Rehashing
        <4> QED
          BY <1>1, <3>1, <4>1, OthersStay DEF IInv, OneResize
      <3>3. CASE ~resizing_
        BY <1>1, <3>1, <3>3, OthersStay DEF IInv, OneResize
      <3> QED
        BY <3>2, <3>3
    <2>2. CASE NoResize(t) \/ EndResize(t)
      <3>1. pc[t] \in Resizing /\ pc'[t] = "done"
        BY <1>0, <2>2 DEF NoResize, EndResize, Goto, Resizing, Rehashing
      <3>2. u # t
        BY <1>1, <3>1 DEF Resizing, Rehashing
      <3> QED
        BY <1>1, <3>1, <3>2, OthersStay, OneRehashes
    <2>3. CASE ~Exchange(t) /\ ~NoResize(t) /\ ~EndResize(t)
      <3>1. resizing_' = resizing_
        BY <2>3 DEF Act, Step, ScopedLock, TryResize, Call, Spin, LoadCapacity, Lock,
               CheckResizing, CheckCapacity, Retry, Find, Push, PushThrows, Erase, Count,
               Unlock, PolicyCapacity, Compare, BeginResize, Quiesce, Enlarge, Rehash,
               ResizeThrows, Publish, Move, Return, shared
      <3>2. \A v \in Thread : pc'[v] \in Resizing => pc[v] \in Resizing
        BY <2>3, WaysIn, OthersStay
      <3> QED
        BY <1>1, <3>1, <3>2 DEF IInv, OneResize
    <2> QED
      BY <2>1, <2>2, <2>3
  <1>2. ASSUME NEW u \in Thread, pc'[u] \in Planning
        PROVE  capacity'[u] = capacity_'
    <2>1. CASE BeginResize(t)
      <3>1. u = t
        BY <1>2, <2>1, OthersStay, OneRehashes
           DEF BeginResize, Planning, Resizing, Rehashing
      <3> QED
        BY <1>0, <2>1, <3>1 DEF BeginResize, shared
    <2>2. CASE ~BeginResize(t)
      <3>1. pc[u] \in Planning
        BY <1>2, <2>2, WaysIn, OthersStay
      <3>2. capacity[u] = capacity_
        BY <3>1 DEF IInv, OneResize
      <3>3. ~Publish(t)
        <4>1. ASSUME Publish(t)
              PROVE  u = t /\ pc'[t] = "move"
          BY <1>0, <3>1, <4>1, OneRehashes DEF Publish, Goto, Planning, Resizing, Rehashing
        <4> QED
          BY <1>2, <4>1 DEF Planning
      <3>4. CASE u = t
        <4>1. Quiesce(t) \/ Enlarge(t) \/ Rehash(t)
          BY <1>2, <3>1, <3>3, <3>4, <1>0
             DEF Planning, Act, Step, ScopedLock, TryResize, Call, Spin, LoadCapacity, Lock,
                 CheckResizing, CheckCapacity, Retry, Find, Push, PushThrows, Erase, Count,
                 Unlock, PolicyCapacity, Compare, Exchange, NoResize, BeginResize,
                 ResizeThrows, Move, EndResize, Return, Goto
        <4> QED
          BY <3>2, <3>3, <3>4, <4>1, CapacityStays DEF Quiesce, Enlarge, Rehash, locals
      <3>5. CASE u # t
        BY <3>2, <3>3, <3>5, CapacityStays, OthersStay
      <3> QED
        BY <3>4, <3>5
    <2> QED
      BY <2>1, <2>2
  <1>3. ASSUME NEW u \in Thread
        PROVE  IF pc'[u] = "quiesce" THEN index'[u] \in 0 .. capacity_' - 1 ELSE index'[u] = 0
    <2>0. IF pc[u] = "quiesce" THEN index[u] \in 0 .. capacity_ - 1 ELSE index[u] = 0
      BY DEF IInv, OneResize
    <2>1. CASE u # t
      <3>1. pc'[u] = pc[u] /\ index'[u] = index[u]
        BY <2>1, OthersStay
      <3>2. pc[u] = "quiesce" => ~Publish(t)
        BY <2>1, OneRehashes DEF Publish, Resizing, Rehashing
      <3> QED
        BY <2>0, <3>1, <3>2, CapacityStays
    <2>2. CASE u = t /\ Quiesce(t)
      <3>1. pc[t] = "quiesce" /\ capacity[t] = capacity_ /\ capacity_' = capacity_
        BY <2>2 DEF Quiesce, shared, IInv, OneResize, Planning
      <3>2. CASE index[t] = capacity[t] - 1
        <4>1. pc'[t] = "enlarge" /\ index'[t] = 0
          BY <1>0, <2>2, <3>2 DEF Quiesce, Goto
        <4> QED
          BY <2>2, <4>1
      <3>3. CASE index[t] # capacity[t] - 1
        <4>1. index'[t] = index[t] + 1 /\ pc'[t] = "quiesce"
          BY <1>0, <2>2, <3>1, <3>3 DEF Quiesce
        <4> QED
          BY <1>0, <2>0, <2>2, <3>1, <3>3, <4>1
      <3> QED
        BY <3>2, <3>3
    <2>3. CASE u = t /\ ~Quiesce(t)
      <3>1. index' = index
        BY <2>3 DEF Act, Step, ScopedLock, TryResize, Call, Spin, LoadCapacity, Lock,
               CheckResizing, CheckCapacity, Retry, Find, Push, PushThrows, Erase, Count,
               Unlock, PolicyCapacity, Compare, Exchange, NoResize, BeginResize, Enlarge,
               Rehash, ResizeThrows, Publish, Move, EndResize, Return, locals
      <3>2. pc[t] # "quiesce"
        BY <2>3 DEF Act, Step, ScopedLock, TryResize, Call, Spin, LoadCapacity, Lock,
               CheckResizing, CheckCapacity, Retry, Find, Push, PushThrows, Erase, Count,
               Unlock, PolicyCapacity, Compare, Exchange, NoResize, BeginResize, Enlarge,
               Rehash, ResizeThrows, Publish, Move, EndResize, Return
      <3>3. 0 \in 0 .. capacity_' - 1
        BY TypesStay, Types DEF TypeOK
      <3> QED
        BY <2>0, <2>3, <3>1, <3>2, <3>3
    <2> QED
      BY <2>1, <2>2, <2>3
  <1> QED
    BY <1>1, <1>2, <1>3 DEF OneResize

-----------------------------------------------------------------------------
\* A step takes only a mutex that nobody holds, gives up only its own, and adds
\* only ones that did not exist.
LEMMA MutexesAreTheirOwners ==
  ASSUME IInv, NEW t \in Thread, Act(t), NEW u \in Thread \ {t}, pc[u] \in Inside
  PROVE  arena_'[GetMutex(hash[u])] = u
  <1>0. /\ arena_ \in [DOMAIN arena_ -> Thread \cup {None}] /\ None \notin Thread
        /\ hash[u] \in 0 .. capacity_ - 1 /\ arena_[GetMutex(hash[u])] = u
        /\ GetMutex(hash[u]) \in DOMAIN arena_
    BY Types, MutexIsThere DEF IInv, Locks, Hashed
  <1>1. CASE Lock(t)
    BY <1>0, <1>1 DEF Lock
  <1>2. CASE Retry(t) \/ Unlock(t)
    <2>1. GetMutex(hash[t]) # GetMutex(hash[u])
      BY <1>2, Exclusion DEF Retry, Unlock, Inside
    <2>2. arena_' = [arena_ EXCEPT ![GetMutex(hash[t])] = None]
      BY <1>2 DEF Retry, Unlock, ReleaseMutex
    <2> QED
      BY <1>0, <2>1, <2>2
  <1>3. CASE Enlarge(t)
    <2>1. PICK k \in Nat : Doubled(k, capacity_) /\ Covered(k, capacity_, DOMAIN arena_)
      BY DEF IInv, Arena
    <2>2. BlockIndex(capacity[t]) = k + 1
      <3>1. capacity[t] = capacity_ /\ capacity_ \in Nat \ {0}
        BY <1>3, Types DEF Enlarge, IInv, OneResize, Planning
      <3> QED
        BY <2>1, <3>1, NextBlockIndex
    <2>3. GetMutex(hash[u]) \notin Block(k + 1)
      <3>1. BlockIndex(hash[u]) \in 0 .. k
        BY <1>0, <2>1 DEF Covered
      <3> QED
        BY <3>1 DEF GetMutex, Block
    <2>4. arena_' = [m \in DOMAIN arena_ \cup Block(k + 1) |->
                       IF m \in Block(k + 1) THEN EnlargeMutexArena(k + 1)[m] ELSE arena_[m]]
      BY <1>3, <2>2 DEF Enlarge
    <2> QED
      BY <1>0, <2>3, <2>4
  <1>4. CASE ~Lock(t) /\ ~Retry(t) /\ ~Unlock(t) /\ ~Enlarge(t)
    <2>1. arena_' = arena_
      BY <1>4 DEF Act, Step, ScopedLock, TryResize, Call, Spin, LoadCapacity, CheckResizing,
             CheckCapacity, Find, Push, PushThrows, Erase, Count, PolicyCapacity, Compare,
             Exchange, NoResize, BeginResize, Quiesce, Rehash, ResizeThrows, Publish, Move,
             EndResize, Return
    <2> QED
      BY <1>0, <2>1
  <1> QED
    BY <1>1, <1>2, <1>3, <1>4

\* The capacity only grows, and not while a thread is past the checks.
LEMMA CapacityGrows ==
  ASSUME IInv, NEW t \in Thread, Act(t)
  PROVE  /\ 0 .. capacity_ - 1 \subseteq 0 .. capacity_' - 1
         /\ \A u \in Thread : pc[u] \in Passed \/ pc'[u] \in Passed => capacity_' = capacity_
  <1>1. CASE Publish(t)
    <2>1. capacity_' = 2 * capacity_ /\ capacity_ \in Nat /\ pc[t] = "publish"
      BY <1>1, Types DEF Publish, IInv, OneResize, Planning
    <2>2. \A u \in Thread : pc[u] \notin Passed
      BY <2>1 DEF IInv, Quiet, Rehashing
    <2>3. \A u \in Thread : pc'[u] \notin Passed
      BY <1>1, <2>1, <2>2, WaysIn, OthersStay DEF CheckResizing
    <2> QED
      BY <2>1, <2>2, <2>3
  <1>2. CASE ~Publish(t)
    BY <1>2, CapacityStays
  <1> QED
    BY <1>1, <1>2

\* Each thread that is inside holds the mutex of its bucket.
LEMMA LocksStay ==
  ASSUME IInv, NEW t \in Thread, Act(t)
  PROVE  Locks'
  <1>0. /\ pc \in [Thread -> Label] /\ hash \in [Thread -> Nat]
        /\ capacity \in [Thread -> Nat] /\ capacity_ \in Nat \ {0}
        /\ arena_ \in [DOMAIN arena_ -> Thread \cup {None}]
        /\ \A v \in Thread : Hashed(v)
    BY Types DEF IInv, Locks
  <1>1. ASSUME NEW u \in Thread \ {t}
        PROVE  Hashed(u)'
    <2>1. /\ pc'[u] = pc[u] /\ hash'[u] = hash[u] /\ arg'[u] = arg[u]
          /\ capacity'[u] = capacity[u]
      BY OthersStay
    <2>2. pc[u] \in InBucket => capacity_' = capacity_
      BY CapacityGrows DEF InBucket, Passed
    <2> QED
      BY <1>0, <2>1, <2>2, MutexesAreTheirOwners, CapacityGrows
         DEF Hashed, GetMutex, BlockIndex, BlockOffset, BucketIndex
  <1> DEFINE Keeps ==
        /\ pc'[t] \in Inside \cup {"lock"} => hash'[t] \in 0 .. capacity_' - 1
        /\ pc'[t] \in Inside => arena_'[GetMutex(hash'[t])] = t
        /\ pc'[t] \in Hashing => hash'[t] = BucketIndex(arg'[t], capacity'[t])
        /\ pc'[t] \in InBucket => hash'[t] = BucketIndex(arg'[t], capacity_')
  <1>2. Keeps
    <2>1. CASE LoadCapacity(t)
      <3>1. /\ pc'[t] = "lock" /\ capacity'[t] = capacity_ /\ capacity_' = capacity_
            /\ hash'[t] = BucketIndex(arg[t], capacity_) /\ arg' = arg /\ arg[t] \in Elem
        BY <1>0, <2>1 DEF LoadCapacity, Goto, shared, call, IInv, Calls
      <3> QED
        BY <1>0, <3>1, BucketIsThere DEF Inside, InTheTable, InBucket
    <2>2. CASE Lock(t)
      <3>1. /\ pc[t] = "lock" /\ pc'[t] = "check_resizing" /\ hash' = hash /\ arg' = arg
            /\ capacity' = capacity /\ capacity_' = capacity_
            /\ arena_' = [arena_ EXCEPT ![GetMutex(hash[t])] = t]
        BY <1>0, <2>2 DEF Lock, Goto, shared, call, locals
      <3>2. hash[t] \in 0 .. capacity_ - 1 /\ GetMutex(hash[t]) \in DOMAIN arena_
        BY <1>0, <3>1, MutexIsThere DEF Hashed
      <3>3. arena_'[GetMutex(hash[t])] = t
        BY <1>0, <3>1, <3>2
      <3>4. hash[t] = BucketIndex(arg[t], capacity[t])
        BY <1>0, <3>1 DEF Hashed, Hashing
      <3> QED
        BY <3>1, <3>2, <3>3, <3>4 DEF InBucket, InTheTable
    <2>3. CASE Retry(t) \/ Unlock(t)
      <3>1. pc'[t] \in {"spin", "policy", "done"}
        BY <1>0, <2>3 DEF Retry, Unlock, Goto
      <3> QED
        BY <3>1 DEF Inside, InTheTable, InBucket, Hashing
    <2>4. CASE CheckCapacity(t)
      <3>1. /\ pc[t] = "check_capacity" /\ hash' = hash /\ arg' = arg /\ arena_' = arena_
            /\ capacity_' = capacity_ /\ pc'[t] \in {"find", "retry"}
            /\ pc'[t] = "find" => capacity_ = capacity[t]
        BY <1>0, <2>4 DEF CheckCapacity, Goto, shared, call
      <3> QED
        BY <1>0, <3>1 DEF Hashed, Inside, InTheTable, InBucket, Hashing
    <2>5. CASE CheckResizing(t) \/ Find(t) \/ Push(t) \/ PushThrows(t) \/ Erase(t) \/ Count(t)
      <3>1. /\ hash' = hash /\ arg' = arg /\ arena_' = arena_ /\ capacity' = capacity
            /\ capacity_' = capacity_ /\ pc[t] \in Inside
        BY <2>5 DEF CheckResizing, Find, Push, PushThrows, Erase, Count, shared, call, locals,
               Inside, InTheTable
      <3>2. /\ pc'[t] \in Hashing => pc[t] \in Hashing
            /\ pc'[t] \in InBucket => pc[t] \in InBucket
        BY <2>5, WaysIn DEF CheckResizing, Find, Push, PushThrows, Erase, Count,
           LoadCapacity, CheckCapacity
      <3> QED
        BY <1>0, <3>1, <3>2 DEF Hashed
    <2>6. CASE ~(\/ LoadCapacity(t) \/ Lock(t) \/ Retry(t) \/ Unlock(t) \/ CheckCapacity(t)
                 \/ CheckResizing(t) \/ Find(t) \/ Push(t) \/ PushThrows(t) \/ Erase(t)
                 \/ Count(t))
      <3>1. pc'[t] \notin Inside \cup {"lock"}
        BY <1>0, <2>6 DEF Act, Step, ScopedLock, TryResize, Call, Spin, PolicyCapacity,
               Compare, Exchange, NoResize, BeginResize, Quiesce, Enlarge, Rehash,
               ResizeThrows, Publish, Move, EndResize, Return, Goto, Inside, InTheTable
      <3> QED
        BY <3>1 DEF Hashing, InBucket, Inside
    <2> QED
      BY <2>1, <2>2, <2>3, <2>4, <2>5, <2>6
  <1> HIDE DEF Keeps
  <1>3. Hashed(t)'
    BY <1>2 DEF Keeps, Hashed, GetMutex, BlockIndex, BlockOffset, BucketIndex
  <1> QED
    BY <1>1, <1>3 DEF Locks

\* A mutex that was free when Quiesce() came to it is in the way of nobody who
\* has passed the checks since: nobody has.
LEMMA QuietStays ==
  ASSUME IInv, NEW t \in Thread, Act(t)
  PROVE  Quiet'
  <1>0. /\ pc \in [Thread -> Label] /\ index \in [Thread -> Nat] /\ hash \in [Thread -> Nat]
        /\ capacity_ \in Nat \ {0}
    BY Types DEF IInv
  <1> SUFFICES ASSUME NEW r \in Thread, NEW u \in Thread, pc'[u] \in Passed
               PROVE  /\ pc'[r] = "quiesce" => index'[r] <= hash'[u]
                      /\ pc'[r] \notin Rehashing
    BY DEF Quiet
  <1>1. CASE CheckResizing(t)
    <2>1. \A v \in Thread : pc'[v] \in Resizing => pc'[v] = pc[v] /\ index'[v] = index[v]
      <3>1. pc'[t] \notin Resizing
        BY <1>0, <1>1 DEF CheckResizing, Goto, Resizing, Rehashing
      <3> QED
        BY <3>1, OthersStay
    <2>2. CASE resizing_
      <3>1. u # t
        BY <1>0, <1>1, <2>2 DEF CheckResizing, Goto, Passed, InTheTable
      <3>2. pc[u] \in Passed /\ hash'[u] = hash[u]
        BY <3>1, OthersStay
      <3> QED
        BY <2>1, <3>2 DEF IInv, Quiet, Resizing, Rehashing
    <2>3. CASE ~resizing_
      <3>1. \A v \in Thread : pc'[v] \notin Resizing
        BY <2>1, <2>3 DEF IInv, OneResize
      <3> QED
        BY <3>1 DEF Resizing, Rehashing
    <2> QED
      BY <2>2, <2>3
  <1>2. CASE ~CheckResizing(t)
    <2>1. pc[u] \in Passed
      BY <1>2, WaysIn, OthersStay
    <2>2. /\ hash'[u] = hash[u] /\ hash[u] \in 0 .. capacity_ - 1
          /\ arena_[GetMutex(hash[u])] = u
      <3>1. pc[u] \in Inside
        BY <2>1 DEF Passed, Inside
      <3>2. CASE u = t
        <4>1. ~Retry(t) /\ ~Unlock(t) /\ ~LoadCapacity(t)
          BY <1>0, <2>1, <3>2 DEF Retry, Unlock, LoadCapacity, Passed, InTheTable, Goto
        <4>2. hash' = hash
          BY <4>1 DEF Act, Step, ScopedLock, TryResize, Call, Spin, Lock, CheckResizing,
                 CheckCapacity, Find, Push, PushThrows, Erase, Count, PolicyCapacity, Compare,
                 Exchange, NoResize, BeginResize, Quiesce, Enlarge, Rehash, ResizeThrows,
                 Publish, Move, EndResize, Return, locals
        <4> QED
          BY <3>1, <4>2 DEF IInv, Locks, Hashed
      <3>3. CASE u # t
        BY <3>1, <3>3, OthersStay DEF IInv, Locks, Hashed
      <3> QED
        BY <3>2, <3>3
    <2>3. CASE r # t
      BY <2>1, <2>2, <2>3, OthersStay DEF IInv, Quiet
    <2>4. CASE r = t /\ BeginResize(t)
      <3>1. pc'[t] = "quiesce" /\ index'[t] = 0
        BY <1>0, <2>4 DEF BeginResize, Goto, IInv, OneResize
      <3> QED
        BY <2>2, <2>4, <3>1 DEF Rehashing
    <2>5. CASE r = t /\ Quiesce(t)
      <3>1. /\ index[t] <= hash[u] /\ index[t] # hash[u] /\ capacity[t] = capacity_
        <4>1. /\ pc[t] = "quiesce" /\ arena_[GetMutex(index[t])] = None
              /\ capacity[t] = capacity_
          BY <2>5 DEF Quiesce, IInv, OneResize, Planning
        <4> QED
          BY <2>1, <2>2, <4>1, Types DEF IInv, Quiet
      <3>2. index[t] # capacity[t] - 1
        BY <1>0, <2>2, <3>1
      <3>3. index'[t] = index[t] + 1 /\ pc'[t] = "quiesce"
        BY <1>0, <2>5, <3>2 DEF Quiesce
      <3> QED
        BY <1>0, <2>2, <2>5, <3>1, <3>3 DEF Rehashing
    <2>6. CASE r = t /\ ~BeginResize(t) /\ ~Quiesce(t)
      <3>1. /\ pc'[t] = "quiesce" => pc[t] = "quiesce"
            /\ pc'[t] \in Rehashing => pc[t] \in Rehashing
        BY <2>6, WaysIn
      <3>2. pc[t] # "quiesce"
        BY <2>6 DEF Act, Step, ScopedLock, TryResize, Call, Spin, LoadCapacity, Lock,
               CheckResizing, CheckCapacity, Retry, Find, Push, PushThrows, Erase, Count,
               Unlock, PolicyCapacity, Compare, Exchange, NoResize, BeginResize, Enlarge,
               Rehash, ResizeThrows, Publish, Move, EndResize, Return
      <3> QED
        BY <2>1, <2>6, <3>1, <3>2 DEF IInv, Quiet
    <2> QED
      BY <2>3, <2>4, <2>5, <2>6
  <1> QED
    BY <1>1, <1>2

\* How a thread leaves the last two places of a resize before the table is replaced.
LEMMA WaysOut ==
  ASSUME NEW t \in Thread, Act(t)
  PROVE  /\ pc[t] = "publish" => Publish(t)
         /\ pc[t] = "move" => Move(t)
  <1>1. pc[t] \in {"publish", "move"} => Publish(t) \/ Move(t)
    BY DEF Act, Step, ScopedLock, TryResize, Call, Spin, LoadCapacity, Lock, CheckResizing,
       CheckCapacity, Retry, Find, Push, PushThrows, Erase, Count, Unlock, PolicyCapacity,
       Compare, Exchange, NoResize, BeginResize, Quiesce, Enlarge, Rehash, ResizeThrows,
       EndResize, Return
  <1> QED
    BY <1>1 DEF Publish, Move

\* While a thread rehashes, nobody else touches what it rehashes.
LEMMA TableIsItsOwn ==
  ASSUME IInv, NEW t \in Thread, Act(t), NEW u \in Thread \ {t}, pc[u] \in Rehashing
  PROVE  table_' = table_ /\ capacity_' = capacity_ /\ new_table'[u] = new_table[u]
  <1>1. ~Push(t) /\ ~Erase(t)
    BY DEF Push, Erase, IInv, Quiet, Passed, InTheTable
  <1>2. ~Move(t) /\ ~Publish(t)
    BY OneRehashes DEF Move, Publish, Resizing, Rehashing
  <1> QED
    BY <1>1, <1>2, OthersLeaveTheTable, CapacityStays, OthersStay

\* Every element stays in its bucket.
LEMMA PlacedStays ==
  ASSUME IInv, NEW t \in Thread, Act(t)
  PROVE  Placed'
  <1>0. /\ pc \in [Thread -> Label] /\ capacity_ \in Nat \ {0}
        /\ DOMAIN new_table = Thread
    BY Types DEF IInv
  <1>1. ASSUME NEW u \in Thread, pc'[u] \notin {"publish", "move"}
        PROVE  new_table'[u] = EmptyTable(0)
    <2>1. CASE u # t
      BY <1>1, <2>1, OthersStay DEF IInv, Placed
    <2>2. CASE u = t /\ Move(t)
      BY <1>0, <2>2 DEF Move
    <2>3. CASE u = t /\ ~Move(t)
      <3>1. ~Rehash(t) /\ ~Publish(t)
        BY <1>0, <1>1, <2>3 DEF Rehash, Publish, Goto
      <3>2. new_table' = new_table
        BY <2>3, <3>1 DEF Act, Step, ScopedLock, TryResize, Call, Spin, LoadCapacity, Lock,
               CheckResizing, CheckCapacity, Retry, Find, Push, PushThrows, Erase, Count,
               Unlock, PolicyCapacity, Compare, Exchange, NoResize, BeginResize, Quiesce,
               Enlarge, ResizeThrows, EndResize, Return, locals
      <3>3. pc[t] \notin {"publish", "move"}
        BY <2>3, <3>1, WaysOut
      <3> QED
        BY <2>3, <3>2, <3>3 DEF IInv, Placed
    <2> QED
      BY <2>1, <2>2, <2>3
  <1>2. ASSUME NEW u \in Thread, pc'[u] = "publish"
        PROVE  new_table'[u] = Rehashed(table_', 2 * capacity_')
    <2>1. CASE u = t
      <3>1. Rehash(t)
        BY <1>2, <2>1, WaysIn
      <3> QED
        BY <1>0, <2>1, <3>1 DEF Rehash, shared, IInv, OneResize, Planning
    <2>2. CASE u # t
      <3>1. pc[u] = "publish"
        BY <1>2, <2>2, OthersStay
      <3> QED
        BY <2>2, <3>1, TableIsItsOwn DEF Rehashing, IInv, Placed
    <2> QED
      BY <2>1, <2>2
  <1>3. ASSUME NEW u \in Thread, pc'[u] = "move"
        PROVE  \E c \in Nat \ {0} :
                 /\ capacity_' = 2 * c /\ InPlace(table_', c)
                 /\ new_table'[u] = Rehashed(table_', capacity_')
    <2>1. CASE u = t
      <3>1. Publish(t)
        BY <1>3, <2>1, WaysIn
      <3>2. capacity_' = 2 * capacity_ /\ table_' = table_ /\ new_table' = new_table
        BY <3>1 DEF Publish, IInv, OneResize, Planning
      <3>3. InPlace(table_, capacity_) /\ new_table[t] = Rehashed(table_, 2 * capacity_)
        BY <3>1, OneRehashes DEF Publish, IInv, Placed, Resizing, Rehashing
      <3> QED
        BY <1>0, <2>1, <3>2, <3>3
    <2>2. CASE u # t
      <3>1. pc[u] = "move"
        BY <1>3, <2>2, OthersStay
      <3>2. PICK c \in Nat \ {0} :
              /\ capacity_ = 2 * c /\ InPlace(table_, c)
              /\ new_table[u] = Rehashed(table_, capacity_)
        BY <3>1 DEF IInv, Placed
      <3>3. table_' = table_ /\ capacity_' = capacity_ /\ new_table'[u] = new_table[u]
        BY <2>2, <3>1, TableIsItsOwn DEF Rehashing
      <3> QED
        BY <3>2, <3>3
    <2> QED
      BY <2>1, <2>2
  <1>4. ASSUME \A u \in Thread : pc'[u] # "move"
        PROVE  InPlace(table_', capacity_')
    <2>1. CASE Push(t) \/ Erase(t) \/ Move(t)
      <3>1. capacity_' = capacity_
        BY <2>1, CapacityStays DEF Push, Erase, Move, Publish
      <3> QED
        BY <2>1, <3>1, PushAdds, EraseRemoves, MoveKeepsAll
    <2>2. CASE ~Push(t) /\ ~Erase(t) /\ ~Move(t)
      <3>1. ~Publish(t)
        BY <1>0, <1>4 DEF Publish, Goto
      <3>2. table_' = table_ /\ capacity_' = capacity_
        BY <2>2, <3>1, OthersLeaveTheTable, CapacityStays
      <3>3. \A u \in Thread : pc[u] # "move"
        BY <1>4, <2>2, WaysOut, OthersStay
      <3> QED
        BY <3>2, <3>3 DEF IInv, Placed
    <2> QED
      BY <2>1, <2>2
  <1> QED
    BY <1>1, <1>2, <1>3, <1>4 DEF Placed

\* What a thread knows of its element is not changed under it.
LEMMA KnowsStay ==
  ASSUME IInv, NEW t \in Thread, Act(t)
  PROVE  Knows'
  <1>0. pc \in [Thread -> Label]
    BY Types DEF IInv
  <1> SUFFICES ASSUME NEW u \in Thread
               PROVE  /\ pc'[u] = "change" => (arg'[u] \in Set' <=> op'[u] = "Remove")
                      /\ pc'[u] = "count" => (arg'[u] \in Set' <=> op'[u] = "Add")
    BY DEF Knows
  <1>1. CASE u # t
    <2>1. pc'[u] = pc[u] /\ op'[u] = op[u] /\ arg'[u] = arg[u]
      BY <1>1, OthersStay
    <2>2. Push(t) \/ Erase(t) => pc[t] \in InBucket
      BY DEF Push, Erase, InBucket, InTheTable
    <2>3. pc[u] \in InBucket => (arg[u] \in Set' <=> arg[u] \in Set)
      BY <1>1, <2>2, Exclusion, SetChanges
    <2> QED
      BY <2>1, <2>3 DEF IInv, Knows, InBucket, InTheTable
  <1>2. CASE u = t /\ Find(t)
    <2>1. /\ pc[t] = "find" /\ pc'[t] \in {"change", "unlock"} /\ arg' = arg /\ op' = op
          /\ Set' = Set
      BY <1>0, <1>2, SetChanges DEF Find, Push, Erase, Goto, call
    <2>2. pc'[t] = "change" => (arg[t] \in table_[hash[t]] <=> op[t] = "Remove")
      BY <1>0, <1>2 DEF Find, Goto
    <2> QED
      BY <1>2, <2>1, <2>2, SearchIsRight DEF InTheTable
  <1>3. CASE u = t /\ (Push(t) \/ Erase(t))
    <2>1. /\ pc'[t] = "count" /\ arg' = arg /\ op' = op
      BY <1>0, <1>3 DEF Push, Erase, Goto, call
    <2>2. (Push(t) => op[t] = "Add") /\ (Erase(t) => op[t] = "Remove")
      BY DEF Push, Erase
    <2> QED
      BY <1>3, <2>1, <2>2, SetChanges
  <1>4. CASE u = t /\ ~Find(t) /\ ~Push(t) /\ ~Erase(t)
    <2>1. pc'[t] \notin {"change", "count"}
      BY <1>0, <1>4 DEF Act, Step, ScopedLock, TryResize, Call, Spin, LoadCapacity, Lock,
             CheckResizing, CheckCapacity, Retry, PushThrows, Count, Unlock, PolicyCapacity,
             Compare, Exchange, NoResize, BeginResize, Quiesce, Enlarge, Rehash,
             ResizeThrows, Publish, Move, EndResize, Return, Goto
    <2> QED
      BY <1>4, <2>1
  <1> QED
    BY <1>1, <1>2, <1>3, <1>4

\* Every thread in a call learns of every change.
LEMMA SeesStay ==
  ASSUME IInv, NEW t \in Thread, Act(t)
  PROVE  Sees'
  <1> SUFFICES ASSUME NEW u \in Thread, op'[u] # "none"
               PROVE  /\ arg'[u] \in Set' => TRUE \in seen'[u]
                      /\ arg'[u] \notin Set' => FALSE \in seen'[u]
    BY DEF Sees
  <1>1. ASSUME NEW o \in Operation, NEW e \in Elem, Call(t, o, e)
        PROVE  /\ arg'[u] \in Set' => TRUE \in seen'[u]
               /\ arg'[u] \notin Set' => FALSE \in seen'[u]
    <2>0. Set' = Set
      BY <1>1, SetChanges DEF Call, Push, Erase
    <2>1. CASE u = t
      <3>1. arg'[u] = e /\ seen'[u] = {(e \in Set)}
        BY <1>1, <2>1, Types DEF Call, IInv
      <3>2. CASE e \in Set
        BY <2>0, <3>1, <3>2
      <3>3. CASE e \notin Set
        <4>1. (e \in Set) = FALSE
          BY <3>3
        <4>2. {(e \in Set)} = {FALSE}
          BY ONLY <4>1
        <4> QED
          BY <2>0, <3>1, <3>3, <4>2
      <3> QED
        BY <3>2, <3>3
    <2>2. CASE u # t
      BY <1>1, <2>0, <2>2, Types DEF Call, IInv, Sees
    <2> QED
      BY <2>1, <2>2
  <1>2. CASE Push(t)
    <2>1. arg' = arg /\ op' = op /\ Set' = Set \cup {arg[t]}
      BY <1>2, SetChanges DEF Push, call
    <2>2. seen'[u] = IF arg[u] = arg[t] THEN seen[u] \cup {TRUE} ELSE seen[u]
      BY <1>2 DEF Push, Observe
    <2> QED
      BY <2>1, <2>2 DEF IInv, Sees
  <1>3. CASE Erase(t)
    <2>1. arg' = arg /\ op' = op /\ Set' = Set \ {arg[t]}
      BY <1>3, SetChanges DEF Erase, call
    <2>2. seen'[u] = IF arg[u] = arg[t] THEN seen[u] \cup {FALSE} ELSE seen[u]
      BY <1>3 DEF Erase, Observe
    <2> QED
      BY <2>1, <2>2 DEF IInv, Sees
  <1>4. CASE Return(t)
    <2>1. Set' = Set /\ u # t /\ arg'[u] = arg[u] /\ op'[u] = op[u] /\ seen'[u] = seen[u]
      BY <1>4, SetChanges, Types DEF Return, Push, Erase, IInv
    <2> QED
      BY <2>1 DEF IInv, Sees
  <1>5. CASE Step(t) /\ ~Push(t) /\ ~Erase(t) /\ ~Return(t)
    <2>1. Set' = Set
      BY <1>5, SetChanges
    <2>2. arg' = arg /\ op' = op /\ seen' = seen
      BY <1>5 DEF Step, ScopedLock, TryResize, Spin, LoadCapacity, Lock, CheckResizing,
             CheckCapacity, Retry, Find, PushThrows, Count, Unlock, PolicyCapacity, Compare,
             Exchange, NoResize, BeginResize, Quiesce, Enlarge, Rehash, ResizeThrows,
             Publish, Move, EndResize, call, answers
    <2> QED
      BY <2>1, <2>2 DEF IInv, Sees
  <1> QED
    BY <1>1, <1>2, <1>3, <1>4, <1>5 DEF Act

\* A step from and to elsewhere leaves the threads that are counting as they are.
LEMMA SameCounts ==
  ASSUME IInv, NEW t \in Thread, Act(t), pc[t] # "count", pc'[t] # "count"
  PROVE  \A o \in {"Add", "Remove"} : Counting(o)' = Counting(o)
  <1>1. ASSUME NEW u \in Thread, NEW o \in {"Add", "Remove"}
        PROVE  pc'[u] = "count" /\ op'[u] = o <=> pc[u] = "count" /\ op[u] = o
    BY OthersStay
  <1> QED
    BY <1>1 DEF Counting

\* The counter follows the elements.
LEMMA SizeStaysRight ==
  ASSUME IInv, NEW t \in Thread, Act(t)
  PROVE  SizeAgrees'
  <1>0. /\ set_size_ + Counting("Add") = Cardinality(Set) + Counting("Remove")
        /\ set_size_ \in Nat /\ Cardinality(Set) \in Nat /\ IsFiniteSet(Set)
        /\ Counting("Add") \in Nat /\ Counting("Remove") \in Nat
    BY CountedAreThere, FiniteSets, Types DEF IInv, SizeAgrees
  <1>1. CASE Push(t) \/ Erase(t)
    <2>1. /\ pc[t] # "count" /\ pc' = [pc EXCEPT ![t] = "count"] /\ op' = op
          /\ set_size_' = set_size_
          /\ Push(t) => op[t] = "Add"
          /\ Erase(t) => op[t] = "Remove"
      BY <1>1 DEF Push, Erase, Goto, call
    <2>2. /\ Push(t) => Cardinality(Set') = Cardinality(Set) + 1
          /\ Erase(t) => Cardinality(Set') = Cardinality(Set) - 1
      BY <1>0, SetChanges, FS_AddElement, FS_RemoveElement
    <2>3. \A o \in {"Add", "Remove"} :
             Counting(o)' = IF o = op[t] THEN Counting(o) + 1 ELSE Counting(o)
      BY <2>1, OneMoreCounts
    <2>4. CASE Push(t)
      BY <1>0, <2>1, <2>2, <2>3, <2>4 DEF SizeAgrees
    <2>5. CASE Erase(t)
      BY <1>0, <2>1, <2>2, <2>3, <2>5 DEF SizeAgrees
    <2> QED
      BY <1>1, <2>4, <2>5
  <1>2. CASE Count(t)
    <2>1. /\ pc[t] = "count" /\ pc' = [pc EXCEPT ![t] = "unlock"] /\ op' = op
          /\ op[t] \in {"Add", "Remove"}
          /\ set_size_' = IF op[t] = "Add" THEN set_size_ + 1 ELSE set_size_ - 1
      BY <1>2 DEF Count, Goto, call, IInv, Calls
    <2>2. Set' = Set
      BY <1>2, SetChanges DEF Count, Push, Erase
    <2>3. \A o \in {"Add", "Remove"} :
             Counting(o)' = IF o = op[t] THEN Counting(o) - 1 ELSE Counting(o)
      BY <2>1, OneLessCounts
    <2> QED
      BY <1>0, <2>1, <2>2, <2>3 DEF SizeAgrees
  <1>3. CASE ~Push(t) /\ ~Erase(t) /\ ~Count(t)
    <2>1. pc[t] # "count" /\ pc'[t] # "count" /\ set_size_' = set_size_
      <3>1. pc \in [Thread -> Label]
        BY Types DEF IInv
      <3> QED
        BY <1>3, <3>1 DEF Act, Step, ScopedLock, TryResize, Call, Spin, LoadCapacity, Lock,
               CheckResizing, CheckCapacity, Retry, Find, PushThrows, Unlock,
               PolicyCapacity, Compare, Exchange, NoResize, BeginResize, Quiesce, Enlarge,
               Rehash, ResizeThrows, Publish, Move, EndResize, Return, Goto, shared
    <2>2. Set' = Set /\ \A o \in {"Add", "Remove"} : Counting(o)' = Counting(o)
      BY <1>3, <2>1, SetChanges, SameCounts
    <2> QED
      BY <1>0, <2>1, <2>2 DEF SizeAgrees
  <1> QED
    BY <1>1, <1>2, <1>3

\* The invariant holds at the start, and every step keeps it.
LEMMA InitIInv == Init => IInv
  <1> SUFFICES ASSUME Init PROVE IInv
    OBVIOUS
  <1>1. /\ capacity_ = initial_capacity /\ initial_capacity \in Nat \ {0}
        /\ table_ = EmptyTable(initial_capacity) /\ \A t \in Thread : pc[t] = "idle"
        /\ arena_ = [m \in Block(0) |-> None]
    BY InitialCapacity DEF Init, EnlargeMutexArena
  <1>2. Set = {} /\ InPlace(table_, capacity_)
    BY <1>1 DEF EmptyTable, Set, Members, InPlace, Table
  <1>3. TypeOK
    <2>1. table_ \in Table(capacity_)
      BY <1>2 DEF InPlace
    <2>2. new_table \in [Thread -> Table(0)]
      BY DEF Init, EmptyTable, Table
    <2> QED
      BY <1>1, <2>1, <2>2 DEF Init, TypeOK, Label
  <1>4. Calls /\ Locks /\ OneResize /\ Quiet /\ Knows /\ Sees
    BY DEF Init, Calls, Locks, Hashed, OneResize, Quiet, Knows, Sees, Unsettled, Inside, Passed,
           InTheTable, InBucket, Hashing, Planning, Resizing, Rehashing
  <1>5. Arena
    <2>1. Doubled(0, initial_capacity)
      <3>1. 2 ^ 0 = 1 /\ initial_shift_ + 0 = initial_shift_
        BY ShiftAssumption
      <3>2. initial_capacity * 1 = initial_capacity
        BY <1>1
      <3> QED
        BY <3>1, <3>2 DEF Doubled, initial_capacity
    <2>2. DOMAIN arena_ = Block(0)
      BY <1>1
    <2> QED
      BY <1>1, <2>1, <2>2, CoveredAtFirst DEF Arena
  <1>6. Placed
    <2>1. \A t \in Thread : new_table[t] = EmptyTable(0)
      BY DEF Init
    <2> QED
      BY <1>1, <1>2, <2>1 DEF Placed
  <1>7. SizeAgrees
    <2>1. Counting("Add") = Cardinality({}) /\ Counting("Remove") = Cardinality({})
      BY <1>1 DEF Counting
    <2> QED
      BY <1>2, <2>1, FS_EmptySet DEF SizeAgrees, Init
  <1> QED
    BY <1>3, <1>4, <1>5, <1>6, <1>7 DEF IInv

LEMMA Inductive == IInv /\ [Next]_vars => IInv'
  <1>1. ASSUME IInv, Next
        PROVE  IInv'
    <2>1. PICK t \in Thread : Act(t)
      BY <1>1 DEF Next, Act
    <2> QED
      BY <1>1, <2>1, TypesStay, CallsStay, ArenaStays, LocksStay, OneResizeStays, QuietStays,
         PlacedStays, KnowsStay, SeesStay, SizeStaysRight DEF IInv
  <1>2. ASSUME IInv, UNCHANGED vars
        PROVE  IInv'
    <2> USE <1>2 DEF IInv, vars, shared, call, locals, answers, order
    <2>1. TypeOK' /\ Calls' /\ Arena'
      BY DEF TypeOK, Calls, Arena
    <2>2. Locks'
      BY DEF Locks, Hashed
    <2>3. OneResize' /\ Quiet'
      BY DEF OneResize, Quiet
    <2>4. Placed' /\ Knows' /\ Sees' /\ SizeAgrees'
      BY DEF Placed, Knows, Sees, Set, SizeAgrees, Counting
    <2> QED
      BY <2>1, <2>2, <2>3, <2>4
  <1> QED
    BY <1>1, <1>2

LEMMA Invariant == Spec => []IInv
  BY InitIInv, Inductive, PTL DEF Spec

-----------------------------------------------------------------------------
\* Every variable has its type, and the table is of the capacity stored, or of half
\* of it until it is replaced.
THEOREM TypeCorrect == Spec => []TypeOK
  <1>1. IInv => TypeOK
    BY DEF IInv
  <1> QED
    BY <1>1, Invariant, PTL

\* Every bucket has a mutex of its own, at every capacity the table grows to:
\* the block that a resize allocates is indexed as GetMutex() indexes it.
THEOREM EveryBucketHasItsMutex == Spec => []ArenaCoversTheTable
  <1>1. IInv => ArenaCoversTheTable
    BY DEF IInv, Arena, Covered, ArenaCoversTheTable
  <1> QED
    BY <1>1, Invariant, PTL

\* A thread that has passed the checks holds the mutex of the bucket its element
\* is in, and what it finds there is still so when it changes the bucket.
THEOREM SearchStaysTrue == Spec => []FindStillHolds
  <1>1. IInv => FindStillHolds
    <2> SUFFICES ASSUME IInv, NEW t \in Thread, pc[t] \in InTheTable
                 PROVE  /\ DOMAIN table_ = 0 .. capacity_ - 1
                        /\ hash[t] = BucketIndex(arg[t], capacity_)
                        /\ arena_[GetMutex(hash[t])] = t
                        /\ pc[t] = "change" => (arg[t] \in table_[hash[t]] <=> op[t] = "Remove")
      BY DEF FindStillHolds
    <2>1. /\ InPlace(table_, capacity_) /\ hash[t] = BucketIndex(arg[t], capacity_)
          /\ arg[t] \in Set <=> arg[t] \in table_[hash[t]]
      BY SearchIsRight
    <2>2. arena_[GetMutex(hash[t])] = t
      BY DEF IInv, Locks, Hashed, Inside
    <2>3. pc[t] = "change" => (arg[t] \in Set <=> op[t] = "Remove")
      BY DEF IInv, Knows
    <2> QED
      BY <2>1, <2>2, <2>3 DEF InPlace, Table
  <1> QED
    BY <1>1, Invariant, PTL

\* Quiesce() is enough: the thread that rehashes shares the table with nobody,
\* though it holds no mutex while it does.
THEOREM QuiesceIsEnough == Spec => []ResizeAlone
  <1>1. IInv => ResizeAlone
    <2> SUFFICES ASSUME IInv, NEW t \in Thread, pc[t] \in Rehashing, NEW u \in Thread \ {t}
                 PROVE  resizing_ /\ pc[u] \notin InTheTable \cup Resizing
      BY DEF ResizeAlone, IInv, OneResize, Resizing
    <2>1. pc[u] \notin InTheTable
      BY DEF IInv, Quiet, Passed
    <2>2. resizing_ /\ pc[u] \notin Resizing
      BY DEF IInv, OneResize, Resizing
    <2> QED
      BY <2>1, <2>2
  <1> QED
    BY <1>1, Invariant, PTL

\* Size() is off by the changes not yet counted and by nothing else.
THEOREM SizeIsTheNumberOfElements == Spec => []SizeAgrees
  <1>1. IInv => SizeAgrees
    BY DEF IInv
  <1> QED
    BY <1>1, Invariant, PTL

-----------------------------------------------------------------------------
\* The mutexes and who waits for whom.  A thread has at most the one mutex of the
\* bucket it is in.
Owned ==
  \A t \in Thread : \A m \in DOMAIN arena_ :
    arena_[m] = t => pc[t] \in Inside /\ m = GetMutex(hash[t])

\* Whenever it is not in a bucket or looking whether it may be, a thread has no
\* mutex: also when it starts over, spins, resizes, or returns or throws.
GivenBack ==
  \A t \in Thread : pc[t] \notin Inside => \A m \in DOMAIN arena_ : arena_[m] # t

\* A thread waits for the one that has the mutex it wants, or, while it spins, for
\* the one that resizes.
Behind(t, u) ==
  \/ pc[t] = "lock" /\ arena_[GetMutex(hash[t])] = u
  \/ pc[t] = "quiesce" /\ arena_[GetMutex(index[t])] = u
  \/ pc[t] = "spin" /\ pc[u] \in Resizing

Blocked(t) ==
  \/ pc[t] = "lock" /\ arena_[GetMutex(hash[t])] # None
  \/ pc[t] = "quiesce" /\ arena_[GetMutex(index[t])] # None
  \/ pc[t] = "spin" /\ resizing_

\* Whoever is waited for by a thread that is waited for itself can go on.
LinesAreShort ==
  \A t, u, v \in Thread : Behind(t, u) /\ Behind(u, v) => ~Blocked(v)

\* While there are calls, some thread in a call can go on.
SomeoneCanGo ==
  \/ Abandoned
  \/ (\E t \in Thread : pc[t] # "idle") => \E t \in Thread : pc[t] # "idle" /\ ~Blocked(t)

\* With memory enough, resizing_ is up only while a thread is there to lower it.
Attended == "bad_alloc" \notin Failures => ~Abandoned

\* A step takes a mutex for its own thread only.
LEMMA NobodyIsGivenOne ==
  ASSUME IInv, NEW t \in Thread, Act(t), NEW m \in DOMAIN arena_', arena_'[m] # None
  PROVE  m \in DOMAIN arena_ /\ arena_'[m] \in {arena_[m], t}
  <1>1. CASE Lock(t) \/ Retry(t) \/ Unlock(t)
    BY <1>1, Types DEF Lock, Retry, Unlock, ReleaseMutex, IInv
  <1>2. CASE Enlarge(t)
    BY <1>2 DEF Enlarge, EnlargeMutexArena
  <1>3. CASE arena_' = arena_
    BY <1>3
  <1> QED
    BY <1>1, <1>2, <1>3 DEF Act, Step, ScopedLock, TryResize, Call, Spin, LoadCapacity,
       CheckResizing, CheckCapacity, Find, Push, PushThrows, Erase, Count, PolicyCapacity,
       Compare, Exchange, NoResize, BeginResize, Quiesce, Rehash, ResizeThrows, Publish, Move,
       EndResize, Return

LEMMA OwnedStays ==
  ASSUME IInv, Owned, NEW t \in Thread, Act(t)
  PROVE  Owned'
  <1>1. ASSUME NEW u \in Thread \ {t}, NEW m \in DOMAIN arena_', arena_'[m] = u
        PROVE  pc'[u] \in Inside /\ m = GetMutex(hash'[u])
    <2>1. m \in DOMAIN arena_ /\ arena_[m] = u
      BY <1>1, NobodyIsGivenOne, NoneAssumption
    <2>2. pc'[u] = pc[u] /\ hash'[u] = hash[u]
      BY OthersStay
    <2> QED
      BY <2>1, <2>2 DEF Owned
  <1>2. ASSUME NEW m \in DOMAIN arena_', arena_'[m] = t
        PROVE  pc'[t] \in Inside /\ m = GetMutex(hash'[t])
    <2>0. /\ m \in DOMAIN arena_ /\ t # None
          /\ arena_[m] = t => pc[t] \in Inside /\ m = GetMutex(hash[t])
      BY <1>2, NobodyIsGivenOne, NoneAssumption DEF Owned
    <2>1. CASE Lock(t)
      <3>1. /\ pc[t] = "lock" /\ pc'[t] = "check_resizing" /\ hash' = hash
            /\ arena_' = [arena_ EXCEPT ![GetMutex(hash[t])] = t]
        BY <2>1, Types DEF Lock, Goto, locals, IInv
      <3>2. arena_[m] # t
        BY <2>0, <3>1 DEF Inside, InTheTable
      <3>3. m = GetMutex(hash[t])
        BY <1>2, <2>0, <3>1, <3>2
      <3> QED
        BY <3>1, <3>3 DEF Inside
    <2>2. CASE Retry(t) \/ Unlock(t)
      <3>1. arena_' = [arena_ EXCEPT ![GetMutex(hash[t])] = None]
        BY <2>2 DEF Retry, Unlock, ReleaseMutex
      <3>2. m # GetMutex(hash[t]) /\ arena_[m] = t
        BY <1>2, <2>0, <3>1
      <3> QED
        BY <2>0, <3>2
    <2>3. CASE \/ CheckResizing(t) \/ CheckCapacity(t) \/ Find(t) \/ Push(t)
               \/ PushThrows(t) \/ Erase(t) \/ Count(t)
      <3>1. arena_' = arena_ /\ hash' = hash
        BY <2>3 DEF CheckResizing, CheckCapacity, Find, Push, PushThrows, Erase, Count, locals
      <3>2. pc'[t] \in Inside
        BY <2>3, Types DEF CheckResizing, CheckCapacity, Find, Push, PushThrows, Erase, Count,
           Goto, Inside, InTheTable, IInv
      <3> QED
        BY <1>2, <2>0, <3>1, <3>2
    <2>4. CASE ~(\/ Lock(t) \/ Retry(t) \/ Unlock(t) \/ CheckResizing(t) \/ CheckCapacity(t)
                 \/ Find(t) \/ Push(t) \/ PushThrows(t) \/ Erase(t) \/ Count(t))
      <3>1. pc[t] \notin Inside
        BY <2>4 DEF Act, Step, ScopedLock, TryResize, Call, Spin, LoadCapacity, PolicyCapacity,
               Compare, Exchange, NoResize, BeginResize, Quiesce, Enlarge, Rehash,
               ResizeThrows, Publish, Move, EndResize, Return, Inside, InTheTable
      <3>2. arena_'[m] = arena_[m]
        <4>1. CASE Enlarge(t)
          BY <1>2, <2>0, <4>1 DEF Enlarge, EnlargeMutexArena
        <4>2. CASE ~Enlarge(t)
          BY <2>4, <4>2 DEF Act, Step, ScopedLock, TryResize, Call, Spin, LoadCapacity,
             PolicyCapacity, Compare, Exchange, NoResize, BeginResize, Quiesce, Rehash,
             ResizeThrows, Publish, Move, EndResize, Return
        <4> QED
          BY <4>1, <4>2
      <3> QED
        BY <1>2, <2>0, <3>1, <3>2
    <2> QED
      BY <2>1, <2>2, <2>3, <2>4
  <1>3. ASSUME NEW u \in Thread, NEW m \in DOMAIN arena_', arena_'[m] = u
        PROVE  pc'[u] \in Inside /\ m = GetMutex(hash'[u])
    BY <1>1, <1>2, <1>3
  <1> HIDE DEF Inside
  <1> QED
    BY <1>3 DEF Owned, GetMutex, BlockIndex, BlockOffset

\* Only the thread that raised resizing_ lowers it, and it does unless Resize()
\* throws.
LEMMA AttendedStays ==
  ASSUME IInv, Attended, NEW t \in Thread, Act(t)
  PROVE  Attended'
  <1> SUFFICES ASSUME "bad_alloc" \notin Failures, resizing_'
               PROVE  \E u \in Thread : pc'[u] \in Resizing
    BY DEF Attended, Abandoned
  <1>0. resizing_ => \E u \in Thread : pc[u] \in Resizing
    BY DEF Attended, Abandoned
  <1>1. CASE Exchange(t)
    <2>1. CASE resizing_
      <3>1. PICK u \in Thread : pc[u] \in Resizing
        BY <1>0, <2>1
      <3>2. u # t
        BY <1>1, <3>1 DEF Exchange, Resizing, Rehashing
      <3> QED
        BY <3>1, <3>2, OthersStay
    <2>2. CASE ~resizing_
      BY <1>1, <2>2, Types DEF Exchange, Goto, IInv, Resizing
    <2> QED
      BY <2>1, <2>2
  <1>2. CASE NoResize(t) \/ EndResize(t)
    BY <1>2 DEF NoResize, EndResize
  <1>3. CASE ~Exchange(t) /\ ~NoResize(t) /\ ~EndResize(t)
    <2>1. resizing_' = resizing_
      BY <1>3 DEF Act, Step, ScopedLock, TryResize, Call, Spin, LoadCapacity, Lock,
         CheckResizing, CheckCapacity, Retry, Find, Push, PushThrows, Erase, Count, Unlock,
         PolicyCapacity, Compare, BeginResize, Quiesce, Enlarge, Rehash, ResizeThrows, Publish,
         Move, Return, shared
    <2>2. PICK u \in Thread : pc[u] \in Resizing
      BY <1>0, <2>1
    <2>3. CASE u # t
      BY <2>2, <2>3, OthersStay
    <2>4. CASE u = t
      <3>1. \/ BeginResize(t) \/ Quiesce(t) \/ Enlarge(t) \/ Rehash(t) \/ Publish(t) \/ Move(t)
        BY <1>3, <2>2, <2>4 DEF Act, Step, ScopedLock, TryResize, Call, Spin, LoadCapacity,
           Lock, CheckResizing, CheckCapacity, Retry, Find, Push, PushThrows, Erase, Count,
           Unlock, PolicyCapacity, Compare, ResizeThrows, Return, Resizing, Rehashing
      <3>2. pc'[t] \in Resizing
        <4>1. CASE Quiesce(t)
          BY <4>1, Types DEF Quiesce, Goto, IInv, Resizing, Rehashing
        <4>2. CASE ~Quiesce(t)
          BY <3>1, <4>2, Types DEF BeginResize, Enlarge, Rehash, Publish, Move, Goto, IInv,
                                   Resizing, Rehashing
        <4> QED
          BY <4>1, <4>2
      <3> QED
        BY <3>2
    <2> QED
      BY <2>3, <2>4
  <1> QED
    BY <1>1, <1>2, <1>3

LEMMA WaitingInvariant == Spec => [](IInv /\ Owned /\ Attended)
  <1>1. Init => Owned /\ Attended
    BY NoneAssumption DEF Init, Owned, EnlargeMutexArena, Attended, Abandoned
  <1>2. IInv /\ Owned /\ Attended /\ [Next]_vars => Owned' /\ Attended'
    <2>1. ASSUME UNCHANGED vars, Owned, Attended
          PROVE  Owned' /\ Attended'
      BY <2>1 DEF vars, shared, locals, Owned, Attended, Abandoned
    <2> QED
      BY <2>1, OwnedStays, AttendedStays DEF Next, Act
  <1> QED
    BY <1>1, <1>2, InitIInv, Inductive, PTL DEF Spec

\* No mutex is left locked: not by a thread that finds a resize under way and
\* starts over, not by a call that has nothing to change, not by one that throws.
THEOREM MutexesAreGivenBack == Spec => []GivenBack
  <1>1. Owned => GivenBack
    BY DEF Owned, GivenBack
  <1> QED
    BY <1>1, WaitingInvariant, PTL

\* Without an exception the flag that makes all threads spin is never left up.
THEOREM FlagIsAttended == Spec => []Attended
  BY WaitingInvariant, PTL

\* A thread with a mutex waits for nobody, and the one that resizes, for whom the
\* others spin, waits only for such threads: none ever waits behind itself.  Only
\* a resize that was cut short by an exception can leave all waiting.
THEOREM NoCircularWait == Spec => [](LinesAreShort /\ SomeoneCanGo)
  <1>1. ASSUME IInv, NEW t \in Thread, NEW i \in 0 .. capacity_ - 1
        PROVE  /\ GetMutex(i) \in DOMAIN arena_
               /\ arena_[GetMutex(i)] \in Thread \cup {None}
    BY <1>1, MutexIsThere, Types DEF IInv
  <1>2. ASSUME IInv, NEW t \in Thread
        PROVE  /\ pc[t] = "lock" => hash[t] \in 0 .. capacity_ - 1
               /\ pc[t] = "quiesce" => index[t] \in 0 .. capacity_ - 1
    BY <1>2 DEF IInv, Locks, Hashed, OneResize
  <1>3. ASSUME IInv, Owned, NEW t \in Thread, NEW u \in Thread, Behind(t, u)
        PROVE  \/ pc[u] \in Inside
               \/ pc[t] = "spin" /\ pc[u] \in Resizing
    BY <1>1, <1>2, <1>3 DEF Behind, Owned
  <1>4. ASSUME IInv, Owned, NEW u \in Thread, NEW v \in Thread, Behind(u, v),
               pc[u] \in Inside \cup Resizing
        PROVE  pc[v] \in Inside
    BY <1>3, <1>4 DEF Inside, InTheTable, Resizing, Rehashing
  <1>5. \A v \in Thread : pc[v] \in Inside => ~Blocked(v) /\ pc[v] # "idle"
    BY DEF Inside, InTheTable, Blocked
  <1>6. ASSUME IInv, Owned
        PROVE  LinesAreShort
    BY <1>3, <1>4, <1>5, <1>6 DEF LinesAreShort
  <1>7. ASSUME IInv, ~Abandoned, NEW t \in Thread, Blocked(t)
        PROVE  \E u \in Thread : Behind(t, u)
    BY <1>1, <1>2, <1>7 DEF Blocked, Behind, Abandoned
  <1>8. ASSUME IInv, Owned
        PROVE  SomeoneCanGo
    <2> SUFFICES ASSUME ~Abandoned, NEW t \in Thread, pc[t] # "idle"
                 PROVE  \E u \in Thread : pc[u] # "idle" /\ ~Blocked(u)
      BY DEF SomeoneCanGo
    <2>1. CASE ~Blocked(t)
      BY <2>1
    <2>2. CASE Blocked(t)
      <3>1. PICK u \in Thread : Behind(t, u)
        BY <1>7, <1>8, <2>2
      <3>2. pc[u] \in Inside \cup Resizing
        BY <1>3, <1>8, <3>1
      <3>3. CASE ~Blocked(u)
        BY <3>2, <3>3 DEF Inside, InTheTable, Resizing, Rehashing
      <3>4. CASE Blocked(u)
        BY <1>4, <1>5, <1>7, <1>8, <3>2, <3>4
      <3> QED
        BY <3>3, <3>4
    <2> QED
      BY <2>1, <2>2
  <1>9. IInv /\ Owned => LinesAreShort /\ SomeoneCanGo
    BY <1>6, <1>8
  <1> QED
    BY <1>9, WaitingInvariant, PTL

-----------------------------------------------------------------------------
\* The set starts as an empty one.
LEMMA InitIsInit == Init => Base!Init
  <1> SUFFICES ASSUME Init PROVE Base!Init
    OBVIOUS
  <1>1. \A i \in DOMAIN table_ : table_[i] = {}
    BY DEF Init, EmptyTable
  <1>2. Set = {}
    BY <1>1 DEF Set, Members
  <1> QED
    BY <1>2 DEF Init, Base!Init

\* A change of a bucket is the moment an Add() or Remove() takes effect,
LEMMA ChangesTakeEffect ==
  ASSUME IInv, NEW t \in Thread, Push(t) \/ Erase(t)
  PROVE  Base!TakeEffect(t)
  <1>1. /\ answer[t] = {} /\ answer' = [answer EXCEPT ![t] = {TRUE}]
        /\ op' = op /\ arg' = arg /\ arg[t] \in Elem
    BY DEF Push, Erase, Settle, call, IInv, Calls, Unsettled, InTheTable
  <1>2. \A u \in Thread : arg[u] = arg[t] <=> u \in Base!Asking(arg[t])
    BY <1>1, Types DEF IInv, Calls, Base!Asking, Operation
  <1>3. CASE Push(t)
    <2>1. op[t] = "Add" /\ arg[t] \notin Set /\ Set' = Set \cup {arg[t]}
      BY <1>3, PushAdds DEF Push
    <2>2. (arg[t] \in Set') = TRUE
      BY <2>1
    <2>3. {(arg[t] \in Set')} = {TRUE}
      BY ONLY <2>2
    <2>4. seen' = [u \in Thread |-> IF arg[u] = arg[t] THEN seen[u] \cup {TRUE} ELSE seen[u]]
      BY <1>3 DEF Push, Observe
    <2>5. seen' = [u \in Thread |-> IF u \in Base!Asking(arg[t])
                                      THEN seen[u] \cup {(arg[t] \in Set')} ELSE seen[u]]
      BY <1>2, <2>3, <2>4
    <2> QED
      BY <1>1, <2>1, <2>5 DEF Base!TakeEffect
  <1>4. CASE Erase(t)
    <2>1. op[t] = "Remove" /\ arg[t] \in Set /\ Set' = Set \ {arg[t]}
      BY <1>4, EraseRemoves DEF Erase
    <2>2. (arg[t] \in Set') = FALSE
      BY <2>1
    <2>3. {(arg[t] \in Set')} = {FALSE}
      BY ONLY <2>2
    <2>4. seen' = [u \in Thread |-> IF arg[u] = arg[t] THEN seen[u] \cup {FALSE} ELSE seen[u]]
      BY <1>4 DEF Erase, Observe
    <2>5. seen' = [u \in Thread |-> IF u \in Base!Asking(arg[t])
                                      THEN seen[u] \cup {(arg[t] \in Set')} ELSE seen[u]]
      BY <1>2, <2>3, <2>4
    <2> QED
      BY <1>1, <2>1, <2>5 DEF Base!TakeEffect
  <1> QED
    BY <1>3, <1>4

\* a search that leaves nothing to do settles for what it has just seen,
LEMMA SearchesAnswer ==
  ASSUME IInv, NEW t \in Thread, Find(t)
  PROVE  Base!Answer(t) \/ UNCHANGED Base!vars
  <1>0. /\ pc[t] = "find" /\ answer[t] = {} /\ op[t] \in Operation
        /\ table_' = table_ /\ op' = op /\ arg' = arg /\ seen' = seen
    BY DEF Find, shared, call, IInv, Calls, Unsettled, InTheTable
  <1>1. Set' = Set
    BY <1>0 DEF Set
  <1>2. /\ arg[t] \in Set <=> arg[t] \in table_[hash[t]]
        /\ arg[t] \in Set => TRUE \in seen[t]
        /\ arg[t] \notin Set => FALSE \in seen[t]
    BY <1>0, SearchIsRight DEF InTheTable, IInv, Sees, Operation
  <1> DEFINE found == op[t] = "Contains" /\ arg[t] \in table_[hash[t]]
  <1>3. \/ answer' = answer
        \/ /\ answer' = [answer EXCEPT ![t] = {found}]
           /\ op[t] = "Add" => arg[t] \in Set
           /\ op[t] = "Remove" => arg[t] \notin Set
    BY <1>2 DEF Find, Settle
  <1>4. CASE answer' = answer
    BY <1>0, <1>1, <1>4 DEF Base!vars
  <1>5. CASE /\ answer' = [answer EXCEPT ![t] = {found}]
             /\ op[t] = "Add" => arg[t] \in Set
             /\ op[t] = "Remove" => arg[t] \notin Set
    <2>1. CASE found
      <3>1. found = TRUE
        BY <2>1
      <3>2. {found} = {TRUE}
        BY ONLY <3>1
      <3> QED
        BY <1>0, <1>1, <1>2, <1>5, <2>1, <3>2 DEF Base!Answer
    <2>2. CASE ~found
      <3>1. found = FALSE
        BY <2>2
      <3> HIDE DEF found
      <3>2. {found} = {FALSE}
        BY ONLY <3>1
      <3>3. answer' = [answer EXCEPT ![t] = {FALSE}]
        BY <1>5, <3>2
      <3>4. op[t] = "Contains" => FALSE \in seen[t]
        BY <1>2, <2>2 DEF found
      <3> QED
        BY <1>0, <1>1, <1>2, <1>5, <3>3, <3>4 DEF Base!Answer, Operation
    <2> QED
      BY <2>1, <2>2
  <1> QED
    BY <1>3, <1>4, <1>5

\* calls and returns are calls and returns,
LEMMA CallsAndReturns ==
  ASSUME IInv, NEW t \in Thread
  PROVE  /\ \A o \in Operation, e \in Elem : Call(t, o, e) => Base!Call(t, o, e)
         /\ Return(t) => Base!Return(t)
  <1>1. ASSUME NEW o \in Operation, NEW e \in Elem, Call(t, o, e)
        PROVE  Base!Call(t, o, e)
    <2>1. Set' = Set /\ op[t] = "none"
      BY <1>1 DEF Call, shared, Set, IInv, Calls
    <2> QED
      BY <1>1, <2>1 DEF Call, Base!Call
  <1>2. ASSUME Return(t)
        PROVE  Base!Return(t)
    <2>1. Set' = Set /\ op[t] \in Operation /\ (answer[t] # {} \/ Failures # {})
      BY <1>2 DEF Return, shared, Set, IInv, Calls, Unsettled, InTheTable
    <2> QED
      BY <1>2, <2>1 DEF Return, Base!Return, Operation
  <1> QED
    BY <1>1, <1>2

\* and nothing else can be noticed, a resize included.
LEMMA StepsAreSteps == IInv /\ [Next]_vars => [Base!Next]_Base!vars
  <1>1. ASSUME IInv, NEW t \in Thread, Act(t)
        PROVE  Base!Next \/ UNCHANGED Base!vars
    <2>1. CASE \E o \in Operation, e \in Elem : Call(t, o, e)
      BY <1>1, <2>1, CallsAndReturns DEF Base!Next, Operation, Base!Operation
    <2>2. CASE Push(t) \/ Erase(t)
      BY <1>1, <2>2, ChangesTakeEffect DEF Base!Next
    <2>3. CASE Find(t)
      BY <1>1, <2>3, SearchesAnswer DEF Base!Next
    <2>4. CASE Return(t)
      BY <1>1, <2>4, CallsAndReturns DEF Base!Next
    <2>5. CASE Step(t) /\ ~Push(t) /\ ~Erase(t) /\ ~Find(t) /\ ~Return(t)
      <3>1. Set' = Set
        BY <1>1, <2>5, SetChanges
      <3>2. op' = op /\ arg' = arg /\ answer' = answer /\ seen' = seen
        BY <2>5 DEF Step, ScopedLock, TryResize, Spin, LoadCapacity, Lock, CheckResizing,
               CheckCapacity, Retry, PushThrows, Count, Unlock, PolicyCapacity, Compare,
               Exchange, NoResize, BeginResize, Quiesce, Enlarge, Rehash, ResizeThrows,
               Publish, Move, EndResize, call, answers
      <3> QED
        BY <3>1, <3>2 DEF Base!vars
    <2> QED
      BY <1>1, <2>1, <2>2, <2>3, <2>4, <2>5 DEF Act
  <1>2. ASSUME UNCHANGED vars
        PROVE  UNCHANGED Base!vars
    BY <1>2 DEF vars, shared, call, answers, Set, Base!vars
  <1> QED
    BY <1>1, <1>2 DEF Next, Act

\* Whatever the threads, the elements, their hashes and the initial capacity:
\* every operation takes effect at one moment of its call, or, when it changes
\* nothing, answers what was right at some such moment, resizes or not.
THEOREM RefinableIsASet == Spec => IsASet
  BY Invariant, InitIsInit, StepsAreSteps, PTL DEF Spec, IsASet, Base!Spec
=============================================================================
