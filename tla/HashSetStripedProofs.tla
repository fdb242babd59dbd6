------------------------- MODULE HashSetStripedProofs -------------------------
(***************************************************************************)
(* Proofs about HashSetStriped, for any finite number of threads and       *)
(* elements, every hash function, every initial capacity, and as many      *)
(* mutexes or one: that it is a linearizable set, among others.            *)
(***************************************************************************)
EXTENDS HashSetStriped, HashTableProofs, FiniteSetTheorems, TLAPS

\* The places of a thread that holds the mutex of its element, and of one that
\* holds all of them.
Inside == InTheTable \cup {"get", "count", "unlock"}
Alone == {"resize", "publish"}

\* The places before it is settled what the call does.
Unsettled == InTheTable \cup {"lock", "get"}

-----------------------------------------------------------------------------
\* The inductive invariant, part by part.
Calls ==
  \A t \in Thread :
    /\ IF pc[t] = "idle" THEN op[t] = "none" /\ arg[t] = None /\ answer[t] = {}
                         ELSE op[t] \in Operation /\ arg[t] \in Elem
    /\ pc[t] \in Unsettled => answer[t] = {}
    /\ pc[t] \in {"change", "count"} => op[t] \in {"Add", "Remove"}
    /\ pc[t] \notin Unsettled \cup {"idle"} => answer[t] # {} \/ Failures # {}

\* Which mutexes a thread holds.
Holds(t) ==
  /\ pc[t] \in Inside => owner[GetMutex(arg[t])] = t
  /\ pc[t] = "lock_all" => \A m \in Mutex : m < stripe[t] => owner[m] = t
  /\ pc[t] \in Alone => \A m \in Mutex : owner[m] = t
  /\ pc[t] = "unlock_all" => \A m \in Mutex : m >= stripe[t] => owner[m] = t
  /\ pc[t] \notin {"lock_all", "unlock_all"} => stripe[t] = 0

Locks == \A t \in Thread : Holds(t)

\* Elements that share a bucket share a mutex.
Stripes ==
  \A e, f \in Elem :
    BucketIndex(e, capacity_) = BucketIndex(f, capacity_) => GetMutex(e) = GetMutex(f)

\* The elements are in their buckets, by the new capacity from when they have
\* been moved.
Moved == \E t \in Thread : pc[t] = "publish"

Placed ==
  /\ Moved => InPlace(table_, 2 * capacity_)
  /\ ~Moved => InPlace(table_, capacity_)

\* What a thread knows of its element while it holds the mutex.
Knows ==
  \A t \in Thread :
    /\ pc[t] \in InTheTable => bucket[t] = BucketIndex(arg[t], capacity_)
    /\ pc[t] = "change" => (arg[t] \in Set <=> op[t] = "Remove")
    /\ pc[t] = "count" => (arg[t] \in Set <=> op[t] = "Add")

\* A thread in a call has seen what is the case now.
Sees ==
  \A t \in Thread :
    op[t] # "none" =>
      /\ arg[t] \in Set => TRUE \in seen[t]
      /\ arg[t] \notin Set => FALSE \in seen[t]

\* The table is as large as the set has been.
Peaked ==
  /\ Cardinality(Set) <= peak
  /\ \A t \in Thread : pc[t] = "publish" => TooSmall(capacity_, peak)

IInv ==
  /\ TypeOK /\ Calls /\ Locks /\ Stripes /\ Placed /\ Knows /\ Sees
  /\ SizeAgrees /\ Peaked /\ DoubledOnce

-----------------------------------------------------------------------------
\* Every element has a mutex.
LEMMA MutexIsThere ==
  ASSUME TypeOK
  PROVE  /\ mutexes \in Nat \ {0}
         /\ \A e \in Elem : GetMutex(e) \in Mutex
         /\ 0 \in Mutex /\ mutexes - 1 \in Mutex /\ Mutex \subseteq Nat
  BY CapacityAssumption, HashAssumption DEF TypeOK, GetMutex, Mutex

\* What the steps need of the types.
LEMMA Types ==
  ASSUME TypeOK
  PROVE  /\ pc \in [Thread -> Label] /\ op \in [Thread -> Operation \cup {"none"}]
         /\ arg \in [Thread -> Elem \cup {None}] /\ bucket \in [Thread -> Nat]
         /\ capacity \in [Thread -> Nat] /\ stripe \in [Thread -> Mutex]
         /\ answer \in [Thread -> SUBSET BOOLEAN] /\ seen \in [Thread -> SUBSET BOOLEAN]
         /\ owner \in [Mutex -> Thread \cup {None}]
         /\ None \notin Thread /\ None \notin Elem
         /\ capacity_ \in Nat \ {0} /\ set_size_ \in Nat /\ peak \in Nat
  BY NoneAssumption DEF TypeOK

\* A mutex is held by one thread at a time.
LEMMA Exclusion ==
  ASSUME TypeOK, Calls, Locks, NEW t \in Thread, NEW u \in Thread \ {t}
  PROVE  /\ pc[t] \in Inside /\ pc[u] \in Inside => GetMutex(arg[t]) # GetMutex(arg[u])
         /\ pc[t] \in Inside /\ pc[u] \in Inside => arg[t] # arg[u]
         /\ pc[t] \in Alone => pc[u] \notin Inside \cup Alone
  <1>1. /\ pc[t] \in Inside => GetMutex(arg[t]) \in Mutex
        /\ pc[u] \in Inside => GetMutex(arg[u]) \in Mutex
    BY MutexIsThere DEF Calls, Inside, InTheTable
  <1>2. pc[t] \in Inside /\ pc[u] \in Inside => GetMutex(arg[t]) # GetMutex(arg[u])
    BY DEF Locks, Holds
  <1>3. pc[t] \in Alone => pc[u] \notin Inside \cup Alone
    BY <1>1, MutexIsThere DEF Locks, Holds
  <1> QED
    BY <1>2, <1>3

\* While a thread is where it holds the mutex of its element, nothing is moved.
LEMMA NotMoved ==
  ASSUME TypeOK, Calls, Locks, NEW t \in Thread, pc[t] \in Inside \cup {"resize"}
  PROVE  ~Moved
  <1>1. pc[t] # "publish"
    BY DEF Inside, InTheTable
  <1>2. ASSUME NEW u \in Thread \ {t}, pc[u] = "publish"
        PROVE  FALSE
    BY <1>2, Exclusion DEF Alone
  <1> QED
    BY <1>1, <1>2 DEF Moved

\* There are finitely many elements and threads to count.
LEMMA FiniteSets ==
  ASSUME IInv
  PROVE  /\ Set \subseteq Elem /\ IsFiniteSet(Set) /\ Cardinality(Set) \in Nat
         /\ \A T \in SUBSET Thread : IsFiniteSet(T) /\ Cardinality(T) \in Nat
  <1>1. \A i \in DOMAIN table_ : table_[i] \subseteq Elem
    BY DEF IInv, TypeOK, Table
  <1>2. Set \subseteq Elem
    BY <1>1 DEF Set, Members
  <1> QED
    BY <1>2, FiniteAssumption, FS_Subset, FS_CardinalityType

-----------------------------------------------------------------------------
\* What the search finds is what is in the set.
LEMMA SearchIsRight ==
  ASSUME IInv, NEW t \in Thread, pc[t] \in InTheTable
  PROVE  /\ InPlace(table_, capacity_)
         /\ bucket[t] = BucketIndex(arg[t], capacity_)
         /\ bucket[t] \in 0 .. capacity_ - 1
         /\ arg[t] \in Elem
         /\ arg[t] \in Set <=> arg[t] \in table_[bucket[t]]
  <1>1. ~Moved /\ arg[t] \in Elem
    BY NotMoved DEF IInv, Inside, InTheTable, Calls
  <1>2. InPlace(table_, capacity_) /\ bucket[t] = BucketIndex(arg[t], capacity_)
    BY <1>1 DEF IInv, Placed, Knows
  <1> QED
    BY <1>1, <1>2, Types, BucketIsThere, FoundInItsBucket DEF IInv, Set

\* Push() adds its element to the set,
LEMMA PushAdds ==
  ASSUME IInv, NEW t \in Thread, Push(t)
  PROVE  /\ InPlace(table_', capacity_)
         /\ arg[t] \notin Set
         /\ Set' = Set \cup {arg[t]}
  <1>1. pc[t] = "change" /\ op[t] = "Add"
        /\ table_' = [table_ EXCEPT ![bucket[t]] = @ \cup {arg[t]}]
    BY DEF Push
  <1>2. /\ InPlace(table_, capacity_) /\ bucket[t] = BucketIndex(arg[t], capacity_)
        /\ bucket[t] \in 0 .. capacity_ - 1 /\ arg[t] \in Elem
        /\ arg[t] \notin Set /\ capacity_ \in Nat \ {0}
    BY <1>1, SearchIsRight, Types DEF InTheTable, IInv, Knows
  <1>3. /\ table_' \in Table(capacity_)
        /\ arg[t] \in table_'[bucket[t]]
        /\ \A j \in 0 .. capacity_ - 1 : table_'[j] \ {arg[t]} = table_[j] \ {arg[t]}
        /\ \A j \in 0 .. capacity_ - 1 :
             arg[t] \in table_'[j] => j = BucketIndex(arg[t], capacity_)
    BY <1>1, <1>2 DEF InPlace, Table
  <1>4. /\ InPlace(table_', capacity_)
        /\ Members(table_') \ {arg[t]} = Members(table_) \ {arg[t]}
        /\ arg[t] \in Members(table_')
    BY <1>2, <1>3, OneElementChanges
  <1> QED
    BY <1>2, <1>4 DEF Set

\* Erase() takes its element out,
LEMMA EraseRemoves ==
  ASSUME IInv, NEW t \in Thread, Erase(t)
  PROVE  /\ InPlace(table_', capacity_)
         /\ arg[t] \in Set
         /\ Set' = Set \ {arg[t]}
  <1>1. pc[t] = "change" /\ op[t] = "Remove"
        /\ table_' = [table_ EXCEPT ![bucket[t]] = @ \ {arg[t]}]
    BY DEF Erase
  <1>2. /\ InPlace(table_, capacity_) /\ bucket[t] = BucketIndex(arg[t], capacity_)
        /\ bucket[t] \in 0 .. capacity_ - 1 /\ arg[t] \in Elem
        /\ arg[t] \in Set /\ capacity_ \in Nat \ {0}
    BY <1>1, SearchIsRight, Types DEF InTheTable, IInv, Knows
  <1>3. /\ table_' \in Table(capacity_)
        /\ \A j \in 0 .. capacity_ - 1 : table_'[j] \ {arg[t]} = table_[j] \ {arg[t]}
        /\ \A j \in 0 .. capacity_ - 1 : arg[t] \notin table_'[j]
    BY <1>1, <1>2 DEF InPlace, Table
  <1>4. /\ InPlace(table_', capacity_)
        /\ Members(table_') \ {arg[t]} = Members(table_) \ {arg[t]}
        /\ arg[t] \notin Members(table_')
    BY <1>2, <1>3, OneElementChanges
  <1> QED
    BY <1>2, <1>4 DEF Set

\* and Resize() leaves the set as it is.
LEMMA ResizeKeepsAll ==
  ASSUME IInv, NEW t \in Thread, Resize(t)
  PROVE  InPlace(table_', 2 * capacity_) /\ Set' = Set
  <1>1. /\ capacity_ \in Nat \ {0} /\ 2 * capacity_ \in Nat \ {0}
        /\ table_ \in Table(capacity_) /\ table_' = Rehashed(table_, 2 * capacity_)
    BY NotMoved, Types DEF Resize, IInv, Placed, InPlace
  <1> QED
    BY <1>1, RehashedHoldsTheSame DEF Set

\* Nothing else touches the table.
LEMMA OthersLeaveTheTable ==
  ASSUME NEW t \in Thread, Step(t) \/ (\E o \in Operation, e \in Elem : Call(t, o, e)),
         ~Push(t), ~Erase(t), ~Resize(t)
  PROVE  table_' = table_ /\ Set' = Set
  <1>1. table_' = table_
    BY DEF Step, TryResize, Call, Lock, GetBucket, Find, PushThrows, Count, Unlock,
           LoadCapacity, Compare, LockNext, NoResize, ResizeThrows, Publish, UnlockNext,
           Return, shared
  <1> QED
    BY <1>1 DEF Set

-----------------------------------------------------------------------------
\* How many threads are counting is one more, one less or as before.
LEMMA OneMoreCounts ==
  ASSUME IInv, NEW t \in Thread, pc[t] # "count",
         pc' = [pc EXCEPT ![t] = "count"], op' = op
  PROVE  \A o \in {"Add", "Remove"} :
           Counting(o)' = IF o = op[t] THEN Counting(o) + 1 ELSE Counting(o)
  <1> SUFFICES ASSUME NEW o \in {"Add", "Remove"}
               PROVE  Counting(o)' = IF o = op[t] THEN Counting(o) + 1 ELSE Counting(o)
    OBVIOUS
  <1> DEFINE T == {u \in Thread : pc[u] = "count" /\ op[u] = o}
  <1>1. {u \in Thread : pc'[u] = "count" /\ op'[u] = o} = IF o = op[t] THEN T \cup {t} ELSE T
    BY Types DEF IInv
  <1>2. t \notin T /\ IsFiniteSet(T)
    BY FiniteSets
  <1>3. Cardinality(T \cup {t}) = Cardinality(T) + 1
    BY <1>2, FS_AddElement
  <1> QED
    BY <1>1, <1>3 DEF Counting

LEMMA OneLessCounts ==
  ASSUME IInv, NEW t \in Thread, pc[t] = "count",
         pc' = [pc EXCEPT ![t] = "unlock"], op' = op
  PROVE  \A o \in {"Add", "Remove"} :
           Counting(o)' = IF o = op[t] THEN Counting(o) - 1 ELSE Counting(o)
  <1> SUFFICES ASSUME NEW o \in {"Add", "Remove"}
               PROVE  Counting(o)' = IF o = op[t] THEN Counting(o) - 1 ELSE Counting(o)
    OBVIOUS
  <1> DEFINE T == {u \in Thread : pc[u] = "count" /\ op[u] = o}
  <1>1. {u \in Thread : pc'[u] = "count" /\ op'[u] = o} = IF o = op[t] THEN T \ {t} ELSE T
    BY Types DEF IInv
  <1>2. (t \in T <=> o = op[t]) /\ IsFiniteSet(T)
    BY FiniteSets
  <1>3. o = op[t] => Cardinality(T \ {t}) = Cardinality(T) - 1
    BY <1>2, FS_RemoveElement
  <1> QED
    BY <1>1, <1>3 DEF Counting

\* The elements that are yet to be counted are in the set, each with a thread
\* of its own.
LEMMA CountedAreThere ==
  ASSUME IInv
  PROVE  /\ Counting("Add") \in Nat /\ Counting("Remove") \in Nat
         /\ Counting("Add") <= Cardinality(Set)
  <1> DEFINE T == {u \in Thread : pc[u] = "count" /\ op[u] = "Add"}
  <1> DEFINE f == [u \in T |-> arg[u]]
  <1>1. \A u \in T : arg[u] \in Set
    BY DEF IInv, Knows
  <1>2. \A u, v \in T : arg[u] = arg[v] => u = v
    BY Exclusion DEF IInv, Inside
  <1>3. f \in Injection(T, Set)
    BY <1>1, <1>2 DEF Injection, IsInjective
  <1>4. Cardinality(T) <= Cardinality(Set)
    BY <1>3, FiniteSets, FS_Injection
  <1> QED
    BY <1>4, FiniteSets DEF Counting

-----------------------------------------------------------------------------
\* Every step keeps the invariant, part by part.
LEMMA TypesStay ==
  ASSUME IInv, NEW t \in Thread,
         Step(t) \/ \E o \in Operation, e \in Elem : Call(t, o, e)
  PROVE  TypeOK'
  <1>1. CASE Push(t)
    <2>1. InPlace(table_', capacity_)
      BY <1>1, PushAdds
    <2>2. /\ pc' \in [Thread -> Label] /\ answer' \in [Thread -> SUBSET BOOLEAN]
          /\ seen' \in [Thread -> SUBSET BOOLEAN]
      BY <1>1, Types DEF Push, IInv, Label, Goto, Settle, Observe
    <2>3. peak' \in Nat
      BY <1>1, Types DEF Push, IInv
    <2> QED
      BY <1>1, <2>1, <2>2, <2>3 DEF Push, IInv, TypeOK, InPlace, call, locals, Mutex
  <1>2. CASE Erase(t)
    <2>1. InPlace(table_', capacity_)
      BY <1>2, EraseRemoves
    <2>2. /\ pc' \in [Thread -> Label] /\ answer' \in [Thread -> SUBSET BOOLEAN]
          /\ seen' \in [Thread -> SUBSET BOOLEAN]
      BY <1>2, Types DEF Erase, IInv, Label, Goto, Settle, Observe
    <2> QED
      BY <1>2, <2>1, <2>2 DEF Erase, IInv, TypeOK, InPlace, call, locals, Mutex
  <1>3. CASE Resize(t)
    <2>1. InPlace(table_', 2 * capacity_)
      BY <1>3, ResizeKeepsAll
    <2>2. pc' \in [Thread -> Label]
      BY <1>3, Types DEF Resize, IInv, Label, Goto
    <2> QED
      BY <1>3, <2>1, <2>2 DEF Resize, IInv, TypeOK, InPlace, call, locals, history, Mutex
  <1>4. CASE Publish(t)
    <2>1. table_ \in Table(2 * capacity_) /\ 2 * capacity_ \in Nat \ {0}
      BY <1>4, Types DEF Publish, IInv, Placed, Moved, InPlace
    <2>2. pc' \in [Thread -> Label]
      BY <1>4, Types DEF Publish, IInv, Label, Goto
    <2> QED
      BY <1>4, <2>1, <2>2 DEF Publish, IInv, TypeOK, call, locals, history, Mutex
  <1>5. CASE Count(t)
    <2>1. /\ set_size_ + Counting("Add") = Cardinality(Set) + Counting("Remove")
          /\ Counting("Add") \in Nat /\ Counting("Remove") \in Nat /\ Cardinality(Set) \in Nat
          /\ Counting("Add") <= Cardinality(Set)
      BY CountedAreThere, FiniteSets DEF IInv, SizeAgrees
    <2>2. pc' = [pc EXCEPT ![t] = "unlock"] /\ op' = op /\ op[t] \in {"Add", "Remove"}
      BY <1>5 DEF Count, Goto, call, IInv, Calls
    <2>3. set_size_' \in Nat
      <3>1. CASE op[t] = "Add"
        BY <1>5, <3>1, Types DEF Count, IInv
      <3>2. CASE op[t] = "Remove"
        <4>1. Counting("Remove") >= 1
          <5> DEFINE T == {u \in Thread : pc[u] = "count" /\ op[u] = "Remove"}
          <5>1. t \in T /\ IsFiniteSet(T) /\ IsFiniteSet(T \ {t})
            BY <1>5, <3>2, FiniteSets DEF Count
          <5>2. Cardinality(T \ {t}) = Cardinality(T) - 1 /\ Cardinality(T \ {t}) \in Nat
            BY <5>1, FiniteSets, FS_RemoveElement
          <5> QED
            BY <2>1, <5>2 DEF Counting
        <4>2. set_size_' = set_size_ - 1 /\ set_size_ \in Nat
          BY <1>5, <3>2, Types DEF Count, IInv
        <4> QED
          BY <2>1, <4>1, <4>2
      <3> QED
        BY <2>2, <3>1, <3>2
    <2>4. pc' \in [Thread -> Label]
      BY <2>2, Types DEF IInv, Label
    <2> QED
      BY <1>5, <2>3, <2>4 DEF Count, IInv, TypeOK, call, locals, history, Mutex
  <1>6. CASE Find(t)
    <2>1. pc' \in [Thread -> Label]
      BY <1>6, Types DEF Find, IInv, Label, Goto
    <2>2. answer' \in [Thread -> SUBSET BOOLEAN]
      <3>1. {op[t] = "Contains" /\ arg[t] \in table_[bucket[t]]} \in SUBSET BOOLEAN
        OBVIOUS
      <3> QED
        BY <1>6, <3>1, Types DEF Find, IInv, Settle
    <2> QED
      BY <1>6, <2>1, <2>2 DEF Find, IInv, TypeOK, shared, call, locals, history, Mutex
  <1>7. CASE Lock(t)
    <2>1. owner' \in [Mutex -> Thread \cup {None}]
      BY <1>7, Types DEF Lock, IInv
    <2>2. pc' \in [Thread -> Label]
      BY <1>7, Types DEF Lock, IInv, Label, Goto
    <2> QED
      BY <1>7, <2>1, <2>2 DEF Lock, IInv, TypeOK, shared, call, locals, history, Mutex
  <1>8. CASE \E o \in Operation, e \in Elem : Call(t, o, e)
    <2>1. /\ op' \in [Thread -> Operation \cup {"none"}] /\ arg' \in [Thread -> Elem \cup {None}]
          /\ seen' \in [Thread -> SUBSET BOOLEAN] /\ pc' \in [Thread -> Label]
      BY <1>8, Types DEF Call, IInv, Label, Goto
    <2> QED
      BY <1>8, <2>1 DEF Call, IInv, TypeOK, shared, locals, Mutex
  <1>9. CASE GetBucket(t)
    <2>1. BucketIndex(arg[t], capacity_) \in Nat
      <3>1. arg[t] \in Elem
        BY <1>9 DEF GetBucket, IInv, Calls
      <3> QED
        BY <3>1, BucketIsThere, Types DEF IInv
    <2> QED
      BY <1>9, <2>1, Types DEF GetBucket, IInv, TypeOK, Label, Goto, shared, call, history,
                               Mutex
  <1>10. CASE LockNext(t)
    <2>1. /\ stripe[t] \in Mutex /\ Mutex = 0 .. mutexes - 1 /\ mutexes \in Nat \ {0}
          /\ stripe[t] # mutexes - 1 => stripe[t] + 1 \in Mutex
      BY MutexIsThere, Types DEF IInv, Mutex
    <2>2. owner' \in [Mutex -> Thread \cup {None}]
      BY <1>10, <2>1, Types DEF LockNext, IInv
    <2>3. stripe' \in [Thread -> Mutex]
      BY <1>10, <2>1, MutexIsThere, Types DEF LockNext, IInv
    <2>4. pc' \in [Thread -> Label]
      BY <1>10, Types DEF LockNext, IInv, Label, Goto
    <2> QED
      BY <1>10, <2>2, <2>3, <2>4 DEF LockNext, IInv, TypeOK, shared, call, history, Mutex
  <1>11. CASE UnlockNext(t)
    <2>1. /\ stripe[t] \in Mutex /\ Mutex = 0 .. mutexes - 1 /\ mutexes \in Nat \ {0}
          /\ stripe[t] # mutexes - 1 => stripe[t] + 1 \in Mutex
      BY MutexIsThere, Types DEF IInv, Mutex
    <2>2. owner' \in [Mutex -> Thread \cup {None}]
      BY <1>11, <2>1, Types DEF UnlockNext, IInv
    <2>3. stripe' \in [Thread -> Mutex]
      BY <1>11, <2>1, MutexIsThere, Types DEF UnlockNext, IInv
    <2>4. pc' \in [Thread -> Label]
      BY <1>11, Types DEF UnlockNext, IInv, Label, Goto
    <2> QED
      BY <1>11, <2>2, <2>3, <2>4 DEF UnlockNext, IInv, TypeOK, shared, call, history, Mutex
  <1>12. CASE Unlock(t)
    <2>1. /\ owner' \in [Mutex -> Thread \cup {None}] /\ bucket' \in [Thread -> Nat]
          /\ pc' \in [Thread -> Label]
      BY <1>12, Types DEF Unlock, IInv, Label, Goto
    <2> QED
      BY <1>12, <2>1 DEF Unlock, IInv, TypeOK, shared, call, history, Mutex
  <1>13. CASE LoadCapacity(t) \/ Compare(t)
    <2>1. capacity' \in [Thread -> Nat] /\ pc' \in [Thread -> Label]
      BY <1>13, Types DEF LoadCapacity, Compare, IInv, Label, Goto
    <2> QED
      BY <1>13, <2>1 DEF LoadCapacity, Compare, IInv, TypeOK, shared, call, history, Mutex
  <1>14. CASE PushThrows(t) \/ NoResize(t) \/ ResizeThrows(t)
    <2>1. pc' \in [Thread -> Label]
      BY <1>14, Types DEF PushThrows, NoResize, ResizeThrows, IInv, Label, Goto
    <2> QED
      BY <1>14, <2>1 DEF PushThrows, NoResize, ResizeThrows, IInv, TypeOK, shared, call,
                         locals, history, Mutex
  <1>15. CASE Return(t)
    <2>1. /\ op' \in [Thread -> Operation \cup {"none"}] /\ arg' \in [Thread -> Elem \cup {None}]
          /\ seen' \in [Thread -> SUBSET BOOLEAN] /\ answer' \in [Thread -> SUBSET BOOLEAN]
          /\ pc' \in [Thread -> Label]
      BY <1>15, Types DEF Return, IInv, Label, Goto
    <2> QED
      BY <1>15, <2>1 DEF Return, IInv, TypeOK, shared, locals, Mutex
  <1> QED
    BY <1>1, <1>2, <1>3, <1>4, <1>5, <1>6, <1>7, <1>8, <1>9, <1>10, <1>11, <1>12, <1>13,
       <1>14, <1>15 DEF Step, TryResize

\* What a thread is in a call for, and that a call ends with an answer unless it throws.
LEMMA CallsStay ==
  ASSUME IInv, NEW t \in Thread,
         Step(t) \/ \E o \in Operation, e \in Elem : Call(t, o, e)
  PROVE  Calls'
  <1>1. CASE Find(t)
    <2>1. {op[t] = "Contains" /\ arg[t] \in table_[bucket[t]]} # {}
      OBVIOUS
    <2>2. \A u \in Thread \ {t} : pc'[u] = pc[u] /\ answer'[u] = answer[u]
      BY <1>1, Types DEF Find, IInv, Goto, Settle
    <2>3. op' = op /\ arg' = arg /\ pc[t] = "find" /\ pc'[t] \in {"change", "unlock"}
      BY <1>1, Types DEF Find, IInv, Goto, call
    <2>4. IF pc'[t] = "change" THEN op[t] \in {"Add", "Remove"} /\ answer'[t] = answer[t]
                               ELSE answer'[t] # {}
      BY <1>1, <2>1, Types DEF Find, IInv, Goto, Settle
    <2> QED
      BY <2>2, <2>3, <2>4 DEF IInv, Calls, Unsettled, InTheTable
  <1>2. CASE Lock(t) \/ GetBucket(t) \/ Count(t) \/ Unlock(t)
    BY <1>2, Types DEF Lock, GetBucket, Count, Unlock, IInv, Calls, Unsettled, InTheTable,
                       Goto, Settle, shared, call, locals, history
  <1>3. CASE LoadCapacity(t) \/ Compare(t) \/ LockNext(t) \/ UnlockNext(t)
    BY <1>3, Types DEF LoadCapacity, Compare, LockNext, UnlockNext, IInv, Calls, Unsettled,
                       InTheTable, Goto, Settle, shared, call, locals, history
  <1>4. CASE NoResize(t) \/ Resize(t) \/ ResizeThrows(t) \/ Publish(t)
    BY <1>4, Types DEF NoResize, Resize, ResizeThrows, Publish, IInv, Calls, Unsettled,
                       InTheTable, Goto, Settle, shared, call, locals, history
  <1>5. CASE \E o \in Operation, e \in Elem : Call(t, o, e)
    BY <1>5, Types DEF Call, IInv, Calls, Unsettled, InTheTable, Goto, Settle, shared, call,
                       locals, history
  <1>6. CASE Push(t)
    BY <1>6, Types DEF Push, IInv, Calls, Unsettled, InTheTable, Goto, Settle, shared, call,
                       locals, history
  <1>7. CASE PushThrows(t)
    BY <1>7, Types DEF PushThrows, IInv, Calls, Unsettled, InTheTable, Goto, Settle, shared,
                       call, locals, history
  <1>8. CASE Erase(t)
    BY <1>8, Types DEF Erase, IInv, Calls, Unsettled, InTheTable, Goto, Settle, shared,
                       call, locals, history
  <1>9. CASE Return(t)
    BY <1>9, Types DEF Return, IInv, Calls, Unsettled, InTheTable, Goto, Settle, shared,
                       call, locals, history
  <1> QED
    BY <1>1, <1>2, <1>3, <1>4, <1>5, <1>6, <1>7, <1>8, <1>9 DEF Step, TryResize

\* A step leaves the other threads where they are.
LEMMA OthersStay ==
  ASSUME IInv, NEW t \in Thread,
         Step(t) \/ \E o \in Operation, e \in Elem : Call(t, o, e)
  PROVE  /\ mutexes' = mutexes
         /\ \A u \in Thread \ {t} :
              /\ pc'[u] = pc[u] /\ op'[u] = op[u] /\ arg'[u] = arg[u]
              /\ answer'[u] = answer[u] /\ bucket'[u] = bucket[u] /\ stripe'[u] = stripe[u]
  <1>1. CASE \/ \E o \in Operation, e \in Elem : Call(t, o, e)
            \/ Lock(t)
            \/ GetBucket(t)
            \/ Count(t)
            \/ Unlock(t)
    BY <1>1, Types DEF Call, Lock, GetBucket, Count, Unlock, IInv, Goto, Settle, shared,
                       call, locals
  <1>2. CASE Find(t)
    BY <1>2, Types DEF Find, IInv, Goto, Settle, shared, call, locals
  <1>3. CASE Push(t) \/ PushThrows(t) \/ Erase(t)
    BY <1>3, Types DEF Push, PushThrows, Erase, IInv, Goto, Settle, shared, call, locals
  <1>4. CASE LoadCapacity(t) \/ Compare(t) \/ LockNext(t) \/ UnlockNext(t)
    BY <1>4, Types DEF LoadCapacity, Compare, LockNext, UnlockNext, IInv, Goto, Settle,
                       shared, call, locals
  <1>5. CASE NoResize(t) \/ Resize(t) \/ ResizeThrows(t) \/ Publish(t)
    BY <1>5, Types DEF NoResize, Resize, ResizeThrows, Publish, IInv, Goto, Settle, shared,
                       call, locals
  <1>6. CASE Return(t)
    BY <1>6, Types DEF Return, IInv, Goto, Settle, shared, call, locals
  <1> QED
    BY <1>1, <1>2, <1>3, <1>4, <1>5, <1>6 DEF Step, TryResize

\* A step takes only a mutex that nobody holds, and gives up only its own.
LEMMA MutexesAreTheirOwners ==
  ASSUME IInv, NEW t \in Thread,
         Step(t) \/ \E o \in Operation, e \in Elem : Call(t, o, e)
  PROVE  \A m \in Mutex : \A u \in Thread \ {t} : owner[m] = u => owner'[m] = u
  <1>1. CASE \/ \E o \in Operation, e \in Elem : Call(t, o, e)
            \/ GetBucket(t)
            \/ Find(t)
            \/ Push(t)
            \/ PushThrows(t)
            \/ Erase(t)
            \/ Count(t)
    BY <1>1 DEF Call, GetBucket, Find, Push, PushThrows, Erase, Count
  <1>2. CASE Lock(t)
    BY <1>2, Types DEF Lock, IInv
  <1>3. CASE Unlock(t)
    <2>1. owner[GetMutex(arg[t])] = t
      BY <1>3 DEF Unlock, IInv, Locks, Holds, Inside
    <2> QED
      BY <1>3, <2>1, Types DEF Unlock, IInv
  <1>4. CASE LockNext(t)
    BY <1>4, Types DEF LockNext, IInv
  <1>5. CASE UnlockNext(t)
    <2>1. owner[stripe[t]] = t
      BY <1>5, MutexIsThere, Types DEF UnlockNext, IInv, Locks, Holds
    <2> QED
      BY <1>5, <2>1, Types DEF UnlockNext, IInv
  <1>6. CASE \/ LoadCapacity(t)
            \/ Compare(t)
            \/ NoResize(t)
            \/ Resize(t)
            \/ ResizeThrows(t)
            \/ Publish(t)
            \/ Return(t)
    BY <1>6 DEF LoadCapacity, Compare, NoResize, Resize, ResizeThrows, Publish, Return
  <1> QED
    BY <1>1, <1>2, <1>3, <1>4, <1>5, <1>6 DEF Step, TryResize

\* Each place holds the mutexes it should.
LEMMA LocksStay ==
  ASSUME IInv, NEW t \in Thread,
         Step(t) \/ \E o \in Operation, e \in Elem : Call(t, o, e)
  PROVE  Locks'
  <1> DEFINE Keeps ==
        /\ pc'[t] \in Inside => owner'[GetMutex(arg'[t])] = t
        /\ pc'[t] = "lock_all" => \A m \in Mutex : m < stripe'[t] => owner'[m] = t
        /\ pc'[t] \in Alone => \A m \in Mutex : owner'[m] = t
        /\ pc'[t] = "unlock_all" => \A m \in Mutex : m >= stripe'[t] => owner'[m] = t
        /\ pc'[t] \notin {"lock_all", "unlock_all"} => stripe'[t] = 0
  <1> SUFFICES Keeps
    <2>0. Holds(t)'
      BY OthersStay DEF Holds, Mutex, GetMutex
    <2> SUFFICES ASSUME NEW u \in Thread \ {t} PROVE Holds(u)'
      BY <2>0 DEF Locks
    <2>1. pc[u] \in Inside => GetMutex(arg[u]) \in Mutex
      BY MutexIsThere DEF IInv, Calls, Inside, InTheTable
    <2>2. Mutex' = Mutex /\ \A e : GetMutex(e)' = Hash[e] % mutexes
      BY OthersStay DEF Mutex, GetMutex
    <2>3. pc'[u] = pc[u] /\ arg'[u] = arg[u] /\ stripe'[u] = stripe[u]
      BY OthersStay
    <2>4. Holds(u)
      BY DEF IInv, Locks
    <2> QED
      BY <2>1, <2>2, <2>3, <2>4, MutexesAreTheirOwners DEF Holds, GetMutex
  <1> HIDE DEF Keeps
  <1>1. CASE (\E o \in Operation, e \in Elem : Call(t, o, e)) \/ Lock(t)
    <2>1. arg'[t] \in Elem /\ stripe'[t] = 0
      BY <1>1, Types DEF Call, Lock, IInv, Calls, Locks, Holds, call, locals
    <2> QED
      BY <1>1, <2>1, MutexIsThere, Types DEF Call, Lock, IInv, Keeps, Inside, Alone,
                                             InTheTable, Goto, call
  <1>2. CASE GetBucket(t) \/ Find(t) \/ PushThrows(t)
    BY <1>2, Types DEF GetBucket, Find, PushThrows, IInv, Locks, Holds, Inside, Alone,
                       InTheTable, Goto, call, locals, Keeps
  <1>3. CASE Push(t) \/ Erase(t)
    <2>1. pc[t] = "change" /\ pc'[t] = "count" /\ stripe'[t] = stripe[t]
          /\ owner' = owner /\ arg' = arg
      BY <1>3, Types DEF Push, Erase, IInv, Goto, call, locals
    <2> QED
      BY <2>1 DEF IInv, Locks, Holds, Inside, InTheTable, Alone, Keeps
  <1>4. CASE \/ LoadCapacity(t)
            \/ Compare(t)
            \/ NoResize(t)
            \/ Resize(t)
            \/ ResizeThrows(t)
            \/ Publish(t)
    <2>1. /\ pc'[t] \notin Inside
          /\ stripe'[t] = stripe[t] /\ owner' = owner
          /\ \A m \in Mutex : m >= 0 /\ ~(m < 0)
      BY <1>4, MutexIsThere, Types DEF LoadCapacity, Compare, NoResize, Resize,
                                       ResizeThrows, Publish, IInv, Inside, InTheTable,
                                       Goto, call, locals
    <2> QED
      BY <1>4, <2>1, Types DEF LoadCapacity, Compare, NoResize, Resize, ResizeThrows,
                               Publish, IInv, Locks, Holds, Keeps, Alone, Goto
  <1>5. CASE LockNext(t)
    <2>1. /\ \A m \in Mutex : m <= mutexes - 1 /\ m \in Nat
          /\ stripe[t] \in Mutex /\ mutexes \in Nat
          /\ \A m \in Mutex : m < stripe[t] => owner[m] = t
      BY <1>5, Types, MutexIsThere DEF LockNext, IInv, Mutex, Locks, Holds
    <2>2. \A m \in Mutex : m <= stripe[t] => owner'[m] = t
      BY <1>5, <2>1, Types DEF LockNext, IInv
    <2>3. CASE stripe[t] = mutexes - 1
      <3>1. pc'[t] = "resize" /\ stripe'[t] = 0
        BY <1>5, <2>3, Types DEF LockNext, IInv, Goto
      <3> QED
        BY <2>1, <2>2, <2>3, <3>1 DEF Keeps, Inside, InTheTable, Alone
    <2>4. CASE stripe[t] # mutexes - 1
      <3>1. pc'[t] = "lock_all" /\ stripe'[t] = stripe[t] + 1
        BY <1>5, <2>4, Types DEF LockNext, IInv
      <3>2. \A m \in Mutex : m < stripe'[t] => m <= stripe[t]
        BY <2>1, <3>1
      <3> QED
        BY <2>2, <3>1, <3>2 DEF Keeps, Inside, InTheTable, Alone
    <2> QED
      BY <2>3, <2>4
  <1>6. CASE UnlockNext(t)
    <2>1. /\ \A m \in Mutex : m <= mutexes - 1 /\ m \in Nat
          /\ stripe[t] \in Mutex /\ mutexes \in Nat
          /\ \A m \in Mutex : m >= stripe[t] => owner[m] = t
      BY <1>6, Types, MutexIsThere DEF UnlockNext, IInv, Mutex, Locks, Holds
    <2>2. \A m \in Mutex : m > stripe[t] => owner'[m] = t
      BY <1>6, <2>1, Types DEF UnlockNext, IInv
    <2>3. CASE stripe[t] = mutexes - 1
      <3>1. pc'[t] = "done" /\ stripe'[t] = 0
        BY <1>6, <2>3, Types DEF UnlockNext, IInv, Goto
      <3> QED
        BY <3>1 DEF Keeps, Inside, InTheTable, Alone
    <2>4. CASE stripe[t] # mutexes - 1
      <3>1. pc'[t] = "unlock_all" /\ stripe'[t] = stripe[t] + 1
        BY <1>6, <2>4, Types DEF UnlockNext, IInv
      <3>2. \A m \in Mutex : m >= stripe'[t] => m > stripe[t]
        BY <2>1, <3>1
      <3> QED
        BY <2>2, <3>1, <3>2 DEF Keeps, Inside, InTheTable, Alone
    <2> QED
      BY <2>3, <2>4
  <1>7. CASE Count(t)
    BY <1>7, Types DEF Count, IInv, Locks, Holds, Inside, Alone, InTheTable, Goto, call,
                       locals, Keeps
  <1>8. CASE Unlock(t)
    BY <1>8, Types DEF Unlock, IInv, Locks, Holds, Inside, Alone, InTheTable, Goto, call,
                       locals, Keeps
  <1>9. CASE Return(t)
    BY <1>9, Types DEF Return, IInv, Locks, Holds, Inside, Alone, InTheTable, Goto, call,
                       locals, Keeps
  <1> QED
    BY <1>1, <1>2, <1>3, <1>4, <1>5, <1>6, <1>7, <1>8, <1>9 DEF Step, TryResize

\* Only Publish() changes the capacity.
LEMMA CapacityStays ==
  ASSUME IInv, NEW t \in Thread,
         Step(t) \/ \E o \in Operation, e \in Elem : Call(t, o, e)
  PROVE  ~Publish(t) => capacity_' = capacity_
  <1>1. CASE \/ \E o \in Operation, e \in Elem : Call(t, o, e)
            \/ Lock(t)
            \/ GetBucket(t)
            \/ Find(t)
            \/ Push(t)
            \/ PushThrows(t)
            \/ Erase(t)
            \/ Count(t)
            \/ Unlock(t)
    BY <1>1 DEF Call, Lock, GetBucket, Find, Push, PushThrows, Erase, Count, Unlock, shared
  <1>2. CASE \/ LoadCapacity(t)
            \/ Compare(t)
            \/ LockNext(t)
            \/ NoResize(t)
            \/ Resize(t)
            \/ ResizeThrows(t)
            \/ UnlockNext(t)
            \/ Return(t)
    BY <1>2 DEF LoadCapacity, Compare, LockNext, NoResize, Resize, ResizeThrows, UnlockNext,
                Return, shared
  <1>3. CASE Publish(t)
    BY <1>3
  <1> QED
    BY <1>1, <1>2, <1>3 DEF Step, TryResize

\* Where a step goes that the other parts depend on.
LEMMA WhereItMoves ==
  ASSUME IInv, NEW t \in Thread,
         Step(t) \/ \E o \in Operation, e \in Elem : Call(t, o, e)
  PROVE  /\ pc[t] = "publish" <=> Publish(t)
         /\ pc'[t] = "publish" <=> Resize(t)
         /\ pc[t] \in Inside \/ pc'[t] \in Inside => ~Publish(t) /\ ~Resize(t)
  <1>1. CASE \/ \E o \in Operation, e \in Elem : Call(t, o, e)
            \/ Lock(t)
            \/ GetBucket(t)
            \/ Find(t)
            \/ PushThrows(t)
            \/ Count(t)
            \/ Unlock(t)
    BY <1>1, Types DEF Call, Lock, GetBucket, Find, PushThrows, Count, Unlock, Publish,
                       Resize, IInv, Goto, Inside, InTheTable
  <1>2. CASE Push(t) \/ Erase(t)
    BY <1>2, Types DEF Push, Erase, Publish, Resize, IInv, Goto, Inside, InTheTable
  <1>3. CASE LoadCapacity(t) \/ Compare(t) \/ LockNext(t)
    BY <1>3, Types DEF LoadCapacity, Compare, LockNext, Publish, Resize, IInv, Goto, Inside,
                       InTheTable
  <1>4. CASE NoResize(t) \/ ResizeThrows(t) \/ UnlockNext(t) \/ Return(t)
    BY <1>4, Types DEF NoResize, ResizeThrows, UnlockNext, Return, Publish, Resize, IInv,
                       Goto, Inside, InTheTable
  <1>5. CASE Resize(t)
    BY <1>5, Types DEF Resize, Publish, Resize, IInv, Goto, Inside, InTheTable
  <1>6. CASE Publish(t)
    BY <1>6, Types DEF Publish, Publish, Resize, IInv, Goto, Inside, InTheTable
  <1> QED
    BY <1>1, <1>2, <1>3, <1>4, <1>5, <1>6 DEF Step, TryResize

\* Doubling the buckets never puts elements of two mutexes into one bucket.
LEMMA StripesStay ==
  ASSUME IInv, NEW t \in Thread,
         Step(t) \/ \E o \in Operation, e \in Elem : Call(t, o, e)
  PROVE  Stripes'
  <1>1. \A e \in Elem : GetMutex(e)' = GetMutex(e)
    BY OthersStay DEF GetMutex
  <1>2. CASE Publish(t)
    <2>1. /\ capacity_' = 2 * capacity_ /\ capacity_ \in Nat \ {0}
      BY <1>2, Types DEF Publish, IInv
    <2> SUFFICES ASSUME NEW e \in Elem, NEW f \in Elem,
                        BucketIndex(e, 2 * capacity_) = BucketIndex(f, 2 * capacity_)
                 PROVE  GetMutex(e) = GetMutex(f)
      BY <1>1, <2>1 DEF Stripes
    <2>2. BucketIndex(e, capacity_) = BucketIndex(f, capacity_)
      <3>1. Hash[e] \in Nat /\ Hash[f] \in Nat
        BY HashAssumption
      <3>2. /\ Hash[e] % capacity_ = (Hash[e] % (2 * capacity_)) % capacity_
            /\ Hash[f] % capacity_ = (Hash[f] % (2 * capacity_)) % capacity_
        BY <2>1, <3>1, HalfAsManyBuckets
      <3> QED
        BY <3>2 DEF BucketIndex
    <2> QED
      BY <2>2 DEF IInv, Stripes
  <1>3. CASE ~Publish(t)
    BY <1>1, <1>3, CapacityStays DEF IInv, Stripes
  <1> QED
    BY <1>2, <1>3

\* Every element stays in its bucket.
LEMMA PlacedStays ==
  ASSUME IInv, NEW t \in Thread,
         Step(t) \/ \E o \in Operation, e \in Elem : Call(t, o, e)
  PROVE  Placed'
  <1>1. \A u \in Thread \ {t} : pc'[u] = pc[u]
    BY OthersStay
  <1>2. CASE Push(t) \/ Erase(t)
    <2>1. pc[t] \in Inside
      BY <1>2 DEF Push, Erase, Inside, InTheTable
    <2>2. ~Moved /\ ~Moved'
      BY <1>1, <2>1, NotMoved, WhereItMoves DEF IInv, Moved
    <2> QED
      BY <1>2, <2>1, <2>2, PushAdds, EraseRemoves, CapacityStays, WhereItMoves DEF Placed
  <1>3. CASE Resize(t)
    <2>1. Moved' /\ capacity_' = capacity_
      BY <1>3, WhereItMoves, CapacityStays DEF Moved, Publish, Resize
    <2> QED
      BY <1>3, <2>1, ResizeKeepsAll DEF Placed
  <1>4. CASE Publish(t)
    <2>1. Moved /\ capacity_' = 2 * capacity_ /\ table_' = table_
      BY <1>4 DEF Publish, Moved
    <2>2. \A u \in Thread \ {t} : pc[u] # "publish"
      BY <1>4, Exclusion DEF Publish, Alone, IInv
    <2>3. pc'[t] # "publish"
      BY <1>4, Types DEF Publish, IInv, Goto
    <2> QED
      BY <1>1, <2>1, <2>2, <2>3 DEF Placed, Moved, IInv
  <1>5. CASE ~Push(t) /\ ~Erase(t) /\ ~Resize(t) /\ ~Publish(t)
    <2>1. (Moved' <=> Moved) /\ capacity_' = capacity_ /\ table_' = table_
      BY <1>1, <1>5, WhereItMoves, CapacityStays, OthersLeaveTheTable DEF Moved
    <2> QED
      BY <2>1 DEF IInv, Placed
  <1> QED
    BY <1>2, <1>3, <1>4, <1>5

\* The elements present change only by Push() and Erase().
LEMMA SetChanges ==
  ASSUME IInv, NEW t \in Thread,
         Step(t) \/ \E o \in Operation, e \in Elem : Call(t, o, e)
  PROVE  /\ Push(t) => arg[t] \notin Set /\ Set' = Set \cup {arg[t]}
         /\ Erase(t) => arg[t] \in Set /\ Set' = Set \ {arg[t]}
         /\ ~Push(t) /\ ~Erase(t) => Set' = Set
  BY PushAdds, EraseRemoves, ResizeKeepsAll, OthersLeaveTheTable

\* What a thread knows of its element is not changed under it.
LEMMA KnowsStay ==
  ASSUME IInv, NEW t \in Thread,
         Step(t) \/ \E o \in Operation, e \in Elem : Call(t, o, e)
  PROVE  Knows'
  <1> DEFINE Keeps ==
        /\ pc'[t] \in InTheTable => bucket'[t] = BucketIndex(arg'[t], capacity_')
        /\ pc'[t] = "change" => (arg'[t] \in Set' <=> op'[t] = "Remove")
        /\ pc'[t] = "count" => (arg'[t] \in Set' <=> op'[t] = "Add")
  <1> SUFFICES Keeps
    <2> SUFFICES ASSUME NEW u \in Thread \ {t}
                 PROVE  /\ pc'[u] \in InTheTable => bucket'[u] = BucketIndex(arg'[u], capacity_')
                        /\ pc'[u] = "change" => (arg'[u] \in Set' <=> op'[u] = "Remove")
                        /\ pc'[u] = "count" => (arg'[u] \in Set' <=> op'[u] = "Add")
      BY DEF Knows
    <2>1. /\ pc'[u] = pc[u] /\ op'[u] = op[u] /\ arg'[u] = arg[u] /\ bucket'[u] = bucket[u]
      BY OthersStay
    <2>2. pc[u] \in Inside => ~Publish(t)
      BY Exclusion DEF IInv, Publish, Alone
    <2>3. Push(t) \/ Erase(t) => pc[t] \in Inside
      BY DEF Push, Erase, Inside, InTheTable
    <2>4. pc[u] \in Inside => (arg[u] \in Set' <=> arg[u] \in Set)
      BY <2>3, Exclusion, SetChanges DEF IInv
    <2> QED
      BY <2>1, <2>2, <2>4, CapacityStays DEF IInv, Knows, Inside, InTheTable
  <1> HIDE DEF Keeps
  <1>1. CASE \/ \E o \in Operation, e \in Elem : Call(t, o, e)
            \/ Lock(t)
            \/ PushThrows(t)
            \/ Count(t)
            \/ Unlock(t)
    BY <1>1, Types DEF Call, Lock, PushThrows, Count, Unlock, IInv, Keeps, InTheTable, Goto
  <1>2. CASE LoadCapacity(t) \/ Compare(t) \/ LockNext(t) \/ UnlockNext(t)
    BY <1>2, Types DEF LoadCapacity, Compare, LockNext, UnlockNext, IInv, Keeps, InTheTable,
                       Goto
  <1>3. CASE NoResize(t) \/ Resize(t) \/ ResizeThrows(t) \/ Publish(t) \/ Return(t)
    BY <1>3, Types DEF NoResize, Resize, ResizeThrows, Publish, Return, IInv, Keeps,
                       InTheTable, Goto
  <1>4. CASE GetBucket(t)
    BY <1>4, CapacityStays, WhereItMoves, Types
       DEF GetBucket, IInv, Keeps, Inside, InTheTable, Goto, call
  <1>5. CASE Find(t)
    <2>1. /\ pc[t] = "find" /\ pc'[t] \in {"change", "unlock"} /\ capacity_' = capacity_
          /\ arg' = arg /\ op' = op /\ bucket' = bucket /\ Set' = Set
      BY <1>5, Types, SetChanges DEF Find, Push, Erase, IInv, Goto, shared, call, locals
    <2>2. pc'[t] = "change" => (arg[t] \in table_[bucket[t]] <=> op[t] = "Remove")
      BY <1>5, Types DEF Find, IInv, Goto
    <2> QED
      BY <2>1, <2>2, SearchIsRight DEF Keeps, InTheTable
  <1>6. CASE Push(t) \/ Erase(t)
    <2>1. /\ pc[t] = "change" /\ pc'[t] = "count" /\ arg' = arg /\ op' = op
      BY <1>6, Types DEF Push, Erase, IInv, Goto, call
    <2>2. Push(t) => op[t] = "Add"
      BY DEF Push
    <2>3. Erase(t) => op[t] = "Remove"
      BY DEF Erase
    <2> QED
      BY <1>6, <2>1, <2>2, <2>3, SetChanges DEF Keeps, InTheTable
  <1> QED
    BY <1>1, <1>2, <1>3, <1>4, <1>5, <1>6 DEF Step, TryResize

\* Every thread in a call learns of every change.
LEMMA SeesStay ==
  ASSUME IInv, NEW t \in Thread,
         Step(t) \/ \E o \in Operation, e \in Elem : Call(t, o, e)
  PROVE  Sees'
  <1> SUFFICES ASSUME NEW u \in Thread, op'[u] # "none"
               PROVE  /\ arg'[u] \in Set' => TRUE \in seen'[u]
                      /\ arg'[u] \notin Set' => FALSE \in seen'[u]
    BY DEF Sees
  <1>1. ASSUME NEW o \in Operation, NEW e \in Elem, Call(t, o, e)
        PROVE  /\ arg'[u] \in Set' => TRUE \in seen'[u]
               /\ arg'[u] \notin Set' => FALSE \in seen'[u]
    <2>0. Set' = Set
      BY <1>1, SetChanges DEF Call, Push, Erase
    <2>1. CASE u = t
      <3>1. arg'[u] = e /\ seen'[u] = {(e \in Set)}
        BY <1>1, <2>1, Types DEF Call, IInv
      <3>2. CASE e \in Set
        BY <2>0, <3>1, <3>2
      <3>3. CASE e \notin Set
        <4>1. (e \in Set) = FALSE
          BY <3>3
        <4>2. {(e \in Set)} = {FALSE}
          BY ONLY <4>1
        <4> QED
          BY <2>0, <3>1, <3>3, <4>2
      <3> QED
        BY <3>2, <3>3
    <2>2. CASE u # t
      BY <1>1, <2>0, <2>2, Types DEF Call, IInv, Sees
    <2> QED
      BY <2>1, <2>2
  <1>2. CASE Push(t)
    <2>1. arg' = arg /\ op' = op /\ Set' = Set \cup {arg[t]}
      BY <1>2, SetChanges DEF Push, call
    <2>2. seen'[u] = IF arg[u] = arg[t] THEN seen[u] \cup {TRUE} ELSE seen[u]
      BY <1>2 DEF Push, Observe
    <2> QED
      BY <2>1, <2>2 DEF IInv, Sees
  <1>3. CASE Erase(t)
    <2>1. arg' = arg /\ op' = op /\ Set' = Set \ {arg[t]}
      BY <1>3, SetChanges DEF Erase, call
    <2>2. seen'[u] = IF arg[u] = arg[t] THEN seen[u] \cup {FALSE} ELSE seen[u]
      BY <1>3 DEF Erase, Observe
    <2> QED
      BY <2>1, <2>2 DEF IInv, Sees
  <1>4. CASE Return(t)
    <2>1. Set' = Set /\ u # t /\ arg'[u] = arg[u] /\ op'[u] = op[u] /\ seen'[u] = seen[u]
      BY <1>4, SetChanges, Types DEF Return, Push, Erase, IInv
    <2> QED
      BY <2>1 DEF IInv, Sees
  <1>5. CASE Step(t) /\ ~Push(t) /\ ~Erase(t) /\ ~Return(t)
    <2>1. Set' = Set
      BY <1>5, SetChanges
    <2>2. arg' = arg /\ op' = op /\ seen' = seen
      BY <1>5 DEF Step, TryResize, Lock, GetBucket, Find, PushThrows, Count, Unlock,
                  LoadCapacity, Compare, LockNext, NoResize, Resize, ResizeThrows, Publish,
                  UnlockNext, call, history
    <2> QED
      BY <2>1, <2>2 DEF IInv, Sees
  <1> QED
    BY <1>1, <1>2, <1>3, <1>4, <1>5

\* A step from and to elsewhere leaves the threads that are counting as they are.
LEMMA SameCounts ==
  ASSUME IInv, NEW t \in Thread,
         Step(t) \/ \E o \in Operation, e \in Elem : Call(t, o, e),
         pc[t] # "count", pc'[t] # "count"
  PROVE  \A o \in {"Add", "Remove"} : Counting(o)' = Counting(o)
  <1>1. ASSUME NEW u \in Thread, NEW o \in {"Add", "Remove"}
        PROVE  pc'[u] = "count" /\ op'[u] = o <=> pc[u] = "count" /\ op[u] = o
    BY OthersStay
  <1> QED
    BY <1>1 DEF Counting

\* The counter follows the elements.
LEMMA SizeStaysRight ==
  ASSUME IInv, NEW t \in Thread,
         Step(t) \/ \E o \in Operation, e \in Elem : Call(t, o, e)
  PROVE  SizeAgrees'
  <1>0. /\ set_size_ + Counting("Add") = Cardinality(Set) + Counting("Remove")
        /\ set_size_ \in Nat /\ Cardinality(Set) \in Nat /\ IsFiniteSet(Set)
        /\ Counting("Add") \in Nat /\ Counting("Remove") \in Nat
    BY CountedAreThere, FiniteSets, Types DEF IInv, SizeAgrees
  <1>1. CASE Push(t) \/ Erase(t)
    <2>1. /\ pc[t] # "count" /\ pc' = [pc EXCEPT ![t] = "count"] /\ op' = op
          /\ set_size_' = set_size_
          /\ Push(t) => op[t] = "Add"
          /\ Erase(t) => op[t] = "Remove"
      BY <1>1 DEF Push, Erase, Goto, call
    <2>2. /\ Push(t) => Cardinality(Set') = Cardinality(Set) + 1
          /\ Erase(t) => Cardinality(Set') = Cardinality(Set) - 1
      BY <1>0, SetChanges, FS_AddElement, FS_RemoveElement
    <2>3. \A o \in {"Add", "Remove"} :
             Counting(o)' = IF o = op[t] THEN Counting(o) + 1 ELSE Counting(o)
      BY <2>1, OneMoreCounts
    <2>4. CASE Push(t)
      BY <1>0, <2>1, <2>2, <2>3, <2>4 DEF SizeAgrees
    <2>5. CASE Erase(t)
      BY <1>0, <2>1, <2>2, <2>3, <2>5 DEF SizeAgrees
    <2> QED
      BY <1>1, <2>4, <2>5
  <1>2. CASE Count(t)
    <2>1. /\ pc[t] = "count" /\ pc' = [pc EXCEPT ![t] = "unlock"] /\ op' = op
          /\ op[t] \in {"Add", "Remove"}
          /\ set_size_' = IF op[t] = "Add" THEN set_size_ + 1 ELSE set_size_ - 1
      BY <1>2 DEF Count, Goto, call, IInv, Calls
    <2>2. Set' = Set
      BY <1>2, SetChanges DEF Count, Push, Erase
    <2>3. \A o \in {"Add", "Remove"} :
             Counting(o)' = IF o = op[t] THEN Counting(o) - 1 ELSE Counting(o)
      BY <2>1, OneLessCounts
    <2> QED
      BY <1>0, <2>1, <2>2, <2>3 DEF SizeAgrees
  <1>3. CASE ~Push(t) /\ ~Erase(t) /\ ~Count(t)
    <2>1. pc[t] # "count" /\ pc'[t] # "count" /\ set_size_' = set_size_
      BY <1>3, Types DEF Step, TryResize, Call, Lock, GetBucket, Find, PushThrows, Unlock,
                  LoadCapacity, Compare, LockNext, NoResize, Resize, ResizeThrows, Publish,
                  UnlockNext, Return, IInv, Goto, shared
    <2>2. Set' = Set /\ \A o \in {"Add", "Remove"} : Counting(o)' = Counting(o)
      BY <1>3, <2>1, SetChanges, SameCounts
    <2> QED
      BY <1>0, <2>1, <2>2 DEF SizeAgrees
  <1> QED
    BY <1>1, <1>2, <1>3

\* A table too small for some elements is too small for more.
LEMMA TooSmallForMore ==
  ASSUME NEW c \in Nat, NEW m \in Nat, NEW n \in Nat, m <= n, TooSmall(c, m)
  PROVE  TooSmall(c, n)
  <1>1. (c * kLoadFactorNumerator) \div kLoadFactorDenominator \in Nat
    BY DEF kLoadFactorNumerator, kLoadFactorDenominator
  <1> QED
    BY <1>1 DEF TooSmall

\* With all mutexes held, the counter is exact.
LEMMA NothingToCount ==
  ASSUME IInv, NEW t \in Thread, pc[t] \in Alone
  PROVE  set_size_ = Cardinality(Set)
  <1>1. \A u \in Thread : pc[u] # "count"
    BY Exclusion DEF IInv, Inside, Alone
  <1>2. Counting("Add") = Cardinality({}) /\ Counting("Remove") = Cardinality({})
    BY <1>1 DEF Counting
  <1> QED
    BY <1>2, FS_EmptySet, FiniteSets, Types DEF IInv, SizeAgrees

\* The table is doubled only when the set has outgrown it.
LEMMA PeakStays ==
  ASSUME IInv, NEW t \in Thread,
         Step(t) \/ \E o \in Operation, e \in Elem : Call(t, o, e)
  PROVE  Peaked' /\ DoubledOnce'
  <1>0. /\ Cardinality(Set) \in Nat /\ IsFiniteSet(Set) /\ Cardinality(Set) <= peak
        /\ peak \in Nat /\ capacity_ \in Nat \ {0} /\ capacity_ \div 2 \in Nat
    BY FiniteSets, Types DEF IInv, Peaked
  <1>1. \A u \in Thread : pc'[u] = "publish" /\ ~Resize(t) => pc[u] = "publish"
    BY OthersStay, WhereItMoves
  <1>2. CASE Push(t)
    <2>1. /\ capacity_' = capacity_
          /\ peak' = IF Cardinality(Set \cup {arg[t]}) > peak THEN peak + 1 ELSE peak
      BY <1>2 DEF Push
    <2>2. Cardinality(Set') = Cardinality(Set) + 1 /\ Set' = Set \cup {arg[t]}
      BY <1>0, <1>2, SetChanges, FS_AddElement
    <2>3. peak' \in Nat /\ peak <= peak' /\ Cardinality(Set') <= peak'
      BY <1>0, <2>1, <2>2
    <2>4. ~Resize(t)
      BY <1>2 DEF Push, Resize
    <2> QED
      BY <1>0, <1>1, <2>1, <2>3, <2>4, TooSmallForMore DEF IInv, Peaked, DoubledOnce
  <1>3. CASE Erase(t)
    <2>1. /\ capacity_' = capacity_ /\ peak' = peak /\ ~Resize(t)
      BY <1>3 DEF Erase, Resize
    <2>2. Cardinality(Set') = Cardinality(Set) - 1
      BY <1>0, <1>3, SetChanges, FS_RemoveElement
    <2> QED
      BY <1>0, <1>1, <2>1, <2>2 DEF IInv, Peaked, DoubledOnce
  <1>4. CASE Resize(t)
    <2>1. /\ capacity_' = capacity_ /\ peak' = peak /\ Set' = Set
          /\ TooSmall(capacity_, set_size_)
      BY <1>4, SetChanges DEF Resize, Push, Erase, history
    <2>2. TooSmall(capacity_, peak)
      BY <1>0, <1>4, <2>1, NothingToCount, TooSmallForMore DEF Resize, Alone
    <2> QED
      BY <1>0, <2>1, <2>2 DEF IInv, Peaked, DoubledOnce
  <1>5. CASE Publish(t)
    <2>1. /\ capacity_' = 2 * capacity_ /\ peak' = peak /\ Set' = Set
          /\ TooSmall(capacity_, peak)
      BY <1>5, SetChanges DEF Publish, Push, Erase, history, IInv, Peaked
    <2>2. \A u \in Thread : pc'[u] # "publish"
      BY <1>5, OthersStay, Exclusion, WhereItMoves DEF Publish, Resize, Alone, IInv
    <2>3. capacity_' \div 2 = capacity_
      BY <1>0, <2>1
    <2> QED
      BY <1>0, <2>1, <2>2, <2>3 DEF Peaked, DoubledOnce
  <1>6. CASE ~Push(t) /\ ~Erase(t) /\ ~Resize(t) /\ ~Publish(t)
    <2>1. capacity_' = capacity_ /\ Set' = Set
      BY <1>6, CapacityStays, SetChanges
    <2>2. peak' = peak
      BY <1>6 DEF Step, TryResize, Call, Lock, GetBucket, Find, PushThrows, Count, Unlock,
                  LoadCapacity, Compare, LockNext, NoResize, ResizeThrows, UnlockNext,
                  Return, history
    <2> QED
      BY <1>1, <1>6, <2>1, <2>2 DEF IInv, Peaked, DoubledOnce
  <1> QED
    BY <1>2, <1>3, <1>4, <1>5, <1>6

\* The invariant holds at the start, and every step keeps it.
LEMMA InitIInv == Init => IInv
  <1> SUFFICES ASSUME Init PROVE IInv
    OBVIOUS
  <1>1. /\ capacity_ = initial_capacity /\ initial_capacity \in Nat \ {0}
        /\ table_ = EmptyTable(initial_capacity) /\ \A t \in Thread : pc[t] = "idle"
    BY CapacityAssumption DEF Init
  <1>2. Set = {} /\ InPlace(table_, capacity_)
    BY <1>1 DEF EmptyTable, Set, Members, InPlace, Table
  <1>3. TypeOK
    <2>1. 0 \in Mutex
      BY <1>1 DEF Init, Mutex
    <2> QED
      BY <1>1, <1>2, <2>1 DEF Init, TypeOK, InPlace, Label
  <1>4. Calls /\ Locks /\ Knows /\ Sees
    BY DEF Init, Calls, Locks, Holds, Knows, Sees, Unsettled, Inside, InTheTable, Alone
  <1>5. Stripes
    BY <1>1, HashAssumption DEF Init, Stripes, BucketIndex, GetMutex
  <1>6. Placed
    BY <1>1, <1>2 DEF Placed, Moved
  <1>7. SizeAgrees
    <2>1. Counting("Add") = Cardinality({}) /\ Counting("Remove") = Cardinality({})
      BY <1>1 DEF Counting
    <2> QED
      BY <1>2, <2>1, FS_EmptySet DEF SizeAgrees, Init
  <1>8. Peaked /\ DoubledOnce
    BY <1>1, <1>2, FS_EmptySet DEF Init, Peaked, DoubledOnce
  <1> QED
    BY <1>3, <1>4, <1>5, <1>6, <1>7, <1>8 DEF IInv

LEMMA Inductive == IInv /\ [Next]_vars => IInv'
  <1>1. ASSUME IInv, Next
        PROVE  IInv'
    <2>1. PICK t \in Thread : (\E o \in Operation, e \in Elem : Call(t, o, e)) \/ Step(t)
      BY <1>1 DEF Next
    <2> QED
      BY <1>1, <2>1, TypesStay, CallsStay, LocksStay, StripesStay, PlacedStays, KnowsStay,
         SeesStay, SizeStaysRight, PeakStays DEF IInv
  <1>2. ASSUME IInv, UNCHANGED vars
        PROVE  IInv'
    <2> USE <1>2 DEF IInv, vars, shared, call, locals, history
    <2>1. TypeOK' /\ Calls' /\ Stripes'
      BY DEF TypeOK, Mutex, Calls, Stripes, GetMutex
    <2>2. Locks'
      BY DEF Locks, Holds, GetMutex, Mutex
    <2>3. Placed' /\ Knows' /\ Sees' /\ SizeAgrees' /\ Peaked' /\ DoubledOnce'
      BY DEF Placed, Moved, Knows, Sees, Set, SizeAgrees, Counting, Peaked, DoubledOnce
    <2> QED
      BY <2>1, <2>2, <2>3
  <1> QED
    BY <1>1, <1>2

LEMMA Invariant == Spec => []IInv
  BY InitIInv, Inductive, PTL DEF Spec

-----------------------------------------------------------------------------
\* Every variable has its type, and the table is of the capacity stored, or of
\* twice that until it is.
THEOREM TypeCorrect == Spec => []TypeOK
  <1>1. IInv => TypeOK
    BY DEF IInv
  <1> QED
    BY <1>1, Invariant, PTL

\* The locks of the stripes protect the buckets, whatever the hash function and
\* however often the table has been doubled since the stripes were made.
THEOREM StripesProtectBuckets == Spec => []BucketsApart
  <1>1. IInv => BucketsApart
    <2> SUFFICES ASSUME IInv, NEW t \in Thread, NEW u \in Thread \ {t}, pc[t] \in InTheTable
                 PROVE  /\ pc[u] \in InTheTable => bucket[u] # bucket[t]
                        /\ pc[u] \notin {"resize", "publish"}
      BY DEF BucketsApart
    <2>1. pc[u] \notin {"resize", "publish"}
      BY Exclusion DEF IInv, Inside, Alone
    <2>2. ASSUME pc[u] \in InTheTable, bucket[u] = bucket[t]
          PROVE  FALSE
      <3>1. /\ arg[t] \in Elem /\ bucket[t] = BucketIndex(arg[t], capacity_)
            /\ arg[u] \in Elem /\ bucket[u] = BucketIndex(arg[u], capacity_)
        BY <2>2, SearchIsRight
      <3>2. GetMutex(arg[t]) = GetMutex(arg[u])
        BY <2>2, <3>1 DEF IInv, Stripes
      <3> QED
        BY <2>2, <3>2, Exclusion DEF IInv, Inside
    <2> QED
      BY <2>1, <2>2
  <1> QED
    BY <1>1, Invariant, PTL

\* What an operation found in its bucket is still so when it changes the bucket.
THEOREM SearchStaysTrue == Spec => []FindStillHolds
  <1>1. IInv => FindStillHolds
    <2> SUFFICES ASSUME IInv, NEW t \in Thread, pc[t] = "change"
                 PROVE  /\ DOMAIN table_ = 0 .. capacity_ - 1
                        /\ bucket[t] = BucketIndex(arg[t], capacity_)
                        /\ arg[t] \in table_[bucket[t]] <=> op[t] = "Remove"
      BY DEF FindStillHolds
    <2>1. /\ InPlace(table_, capacity_) /\ bucket[t] = BucketIndex(arg[t], capacity_)
          /\ arg[t] \in Set <=> arg[t] \in table_[bucket[t]]
      BY SearchIsRight DEF InTheTable
    <2>2. arg[t] \in Set <=> op[t] = "Remove"
      BY DEF IInv, Knows
    <2> QED
      BY <2>1, <2>2 DEF InPlace, Table
  <1> QED
    BY <1>1, Invariant, PTL

\* Size() is off by the changes not yet counted and by nothing else.
THEOREM SizeIsTheNumberOfElements == Spec => []SizeAgrees
  <1>1. IInv => SizeAgrees
    BY DEF IInv
  <1> QED
    BY <1>1, Invariant, PTL

\* The table never grows past the first capacity that the largest number of
\* elements there has been called for.
THEOREM NeverDoubledTwice == Spec => []DoubledOnce
  <1>1. IInv => DoubledOnce
    BY DEF IInv
  <1> QED
    BY <1>1, Invariant, PTL

-----------------------------------------------------------------------------
\* The mutexes and who waits for whom.  HeldBy(t, m) is where a thread may have
\* mutex m; Owned says that it has it nowhere else.
HeldBy(t, m) ==
  \/ pc[t] \in Inside /\ m = GetMutex(arg[t])
  \/ pc[t] = "lock_all" /\ m < stripe[t]
  \/ pc[t] \in Alone
  \/ pc[t] = "unlock_all" /\ m >= stripe[t]

Owned == \A t \in Thread : \A m \in Mutex : owner[m] = t => HeldBy(t, m)

\* Between calls, while it waits for the mutex of its element, from when it has
\* released that, and when it returns or throws, a thread has no mutex.
GivenBack ==
  \A t \in Thread :
    pc[t] \in {"idle", "lock", "policy", "compare", "done"} =>
      \A m \in Mutex : owner[m] # t

WaitsFor(t, m) ==
  \/ pc[t] = "lock" /\ m = GetMutex(arg[t])
  \/ pc[t] = "lock_all" /\ m = stripe[t]

Behind(t, u) == \E m \in Mutex : WaitsFor(t, m) /\ owner[m] = u

Blocked(t) == \E u \in Thread : Behind(t, u)

\* Whoever is waited for by a thread that is waited for itself can go on.
LinesAreShort ==
  \A t, u, v \in Thread : Behind(t, u) /\ Behind(u, v) => ~Blocked(v)

\* While there are calls, some thread in a call can go on.
SomeoneCanGo ==
  (\E t \in Thread : pc[t] # "idle") => \E t \in Thread : pc[t] # "idle" /\ ~Blocked(t)

\* A step takes mutexes for its own thread only.
LEMMA NobodyIsGivenOne ==
  ASSUME IInv, NEW t \in Thread,
         Step(t) \/ \E o \in Operation, e \in Elem : Call(t, o, e)
  PROVE  \A m \in Mutex : owner'[m] \in {owner[m], t, None}
  <1>1. CASE Lock(t) \/ Unlock(t) \/ LockNext(t) \/ UnlockNext(t)
    BY <1>1, Types DEF Lock, Unlock, LockNext, UnlockNext, IInv
  <1>2. CASE owner' = owner
    BY <1>2
  <1> QED
    BY <1>1, <1>2 DEF Step, TryResize, Call, GetBucket, Find, Push, PushThrows, Erase, Count,
                      LoadCapacity, Compare, NoResize, Resize, ResizeThrows, Publish, Return

\* A thread whose mutexes stay as they are keeps none at a place where it should
\* have none.
LEMMA OwnedStays ==
  ASSUME IInv, Owned, NEW t \in Thread,
         Step(t) \/ \E o \in Operation, e \in Elem : Call(t, o, e)
  PROVE  Owned'
  <1>0. Mutex' = Mutex /\ \A e : GetMutex(e)' = Hash[e] % mutexes
    BY OthersStay DEF Mutex, GetMutex
  <1>1. ASSUME NEW u \in Thread \ {t}, NEW m \in Mutex, owner'[m] = u
        PROVE  HeldBy(u, m)'
    <2>1. owner[m] = u /\ pc'[u] = pc[u] /\ arg'[u] = arg[u] /\ stripe'[u] = stripe[u]
      BY <1>1, NobodyIsGivenOne, OthersStay, NoneAssumption
    <2>2. HeldBy(u, m)
      BY <2>1 DEF Owned
    <2> QED
      BY <1>0, <2>1, <2>2 DEF HeldBy, GetMutex
  <1> DEFINE Has(m) ==
        \/ pc'[t] \in Inside /\ m = Hash[arg'[t]] % mutexes
        \/ pc'[t] = "lock_all" /\ m < stripe'[t]
        \/ pc'[t] \in Alone
        \/ pc'[t] = "unlock_all" /\ m >= stripe'[t]
  <1>2. ASSUME NEW m \in Mutex, owner'[m] = t
        PROVE  Has(m)
    <2>0. /\ owner[m] = t => HeldBy(t, m)
          /\ m \in Nat /\ stripe[t] \in Nat /\ m <= mutexes - 1
          /\ stripe[t] <= mutexes - 1 /\ t # None
      BY MutexIsThere, Types DEF Owned, IInv, Mutex
    <2>1. CASE \E o \in Operation, e \in Elem : Call(t, o, e)
      <3>1. owner[m] = t /\ pc[t] = "idle"
        BY <1>2, <2>1 DEF Call
      <3> QED
        BY <2>0, <3>1 DEF HeldBy, Inside, InTheTable, Alone
    <2>2. CASE Lock(t)
      <3>1. pc'[t] = "get" /\ arg' = arg /\ pc[t] = "lock"
        BY <2>2, Types DEF Lock, Goto, call, IInv
      <3>2. m = GetMutex(arg[t])
        <4>1. owner[m] # t
          BY <2>0, <3>1 DEF HeldBy, Inside, InTheTable, Alone
        <4> QED
          BY <1>2, <2>2, <4>1, Types DEF Lock, IInv
      <3> QED
        BY <3>1, <3>2 DEF Inside, GetMutex
    <2>3. CASE GetBucket(t) \/ Find(t) \/ Push(t) \/ PushThrows(t) \/ Erase(t) \/ Count(t)
      <3>1. owner' = owner /\ arg' = arg
        BY <2>3 DEF GetBucket, Find, Push, PushThrows, Erase, Count, call
      <3>2. pc[t] \in Inside /\ pc'[t] \in Inside
        BY <2>3, Types DEF GetBucket, Find, Push, PushThrows, Erase, Count, Goto, IInv,
                           Inside, InTheTable
      <3>3. m = GetMutex(arg[t])
        BY <1>2, <2>0, <3>1, <3>2 DEF HeldBy, Inside, InTheTable, Alone
      <3> QED
        BY <3>1, <3>2, <3>3 DEF GetMutex
    <2>4. CASE Unlock(t)
      <3>1. owner[m] = t /\ m # GetMutex(arg[t]) /\ pc[t] = "unlock"
        BY <1>2, <2>0, <2>4, Types DEF Unlock, IInv
      <3> QED
        BY <2>0, <3>1 DEF HeldBy, Inside, InTheTable, Alone
    <2>5. CASE LoadCapacity(t) \/ Compare(t) \/ Return(t)
      <3>1. owner[m] = t /\ pc[t] \in {"policy", "compare", "done"}
        BY <1>2, <2>5 DEF LoadCapacity, Compare, Return
      <3> QED
        BY <2>0, <3>1 DEF HeldBy, Inside, InTheTable, Alone
    <2>6. CASE LockNext(t)
      <3>1. pc[t] = "lock_all" /\ m <= stripe[t]
        <4>1. pc[t] = "lock_all" /\ (m = stripe[t] \/ owner[m] = t)
          BY <1>2, <2>6, Types DEF LockNext, IInv
        <4> QED
          BY <2>0, <4>1 DEF HeldBy, Inside, InTheTable, Alone
      <3>2. CASE stripe[t] = mutexes - 1
        BY <2>6, <3>2, Types DEF LockNext, IInv, Goto, Alone
      <3>3. CASE stripe[t] # mutexes - 1
        <4>1. pc'[t] = "lock_all" /\ stripe'[t] = stripe[t] + 1
          BY <2>6, <3>1, <3>3, Types DEF LockNext, IInv
        <4> QED
          BY <2>0, <3>1, <4>1
      <3> QED
        BY <3>2, <3>3
    <2>7. CASE NoResize(t) \/ ResizeThrows(t)
      <3>1. pc'[t] = "unlock_all" /\ stripe'[t] = 0
        BY <2>7, Types DEF NoResize, ResizeThrows, IInv, Goto, locals, Locks, Holds
      <3> QED
        BY <2>0, <3>1
    <2>8. CASE Resize(t)
      BY <2>8, Types DEF Resize, IInv, Goto, Alone
    <2>9. CASE Publish(t)
      <3>1. pc'[t] = "unlock_all" /\ stripe'[t] = 0
        BY <2>9, Types DEF Publish, IInv, Goto, locals, Locks, Holds
      <3> QED
        BY <2>0, <3>1
    <2>10. CASE UnlockNext(t)
      <3>1. pc[t] = "unlock_all" /\ owner[m] = t /\ m # stripe[t]
        BY <1>2, <2>0, <2>10, Types DEF UnlockNext, IInv
      <3>2. m > stripe[t]
        BY <2>0, <3>1 DEF HeldBy, Inside, InTheTable, Alone
      <3>3. pc'[t] = "unlock_all" /\ stripe'[t] = stripe[t] + 1
        BY <2>0, <2>10, <3>1, <3>2, Types DEF UnlockNext, IInv
      <3> QED
        BY <2>0, <3>2, <3>3
    <2> QED
      BY <2>1, <2>2, <2>3, <2>4, <2>5, <2>6, <2>7, <2>8, <2>9, <2>10 DEF Step, TryResize
  <1>3. ASSUME NEW m \in Mutex, owner'[m] = t
        PROVE  HeldBy(t, m)'
    BY <1>0, <1>2, <1>3 DEF HeldBy
  <1> QED
    BY <1>0, <1>1, <1>3 DEF Owned

LEMMA OwnedInvariant == Spec => [](IInv /\ Owned)
  <1>1. Init => Owned
    BY NoneAssumption DEF Init, Owned
  <1>2. IInv /\ Owned /\ [Next]_vars => Owned'
    <2>1. ASSUME UNCHANGED vars, Owned
          PROVE  Owned'
      BY <2>1 DEF vars, call, locals, Owned, HeldBy, Mutex, GetMutex
    <2> QED
      BY <2>1, OwnedStays DEF Next
  <1> QED
    BY <1>1, <1>2, InitIInv, Inductive, PTL DEF Spec

\* No mutex is left locked: not by a call that has nothing to change, and not by
\* one that throws, inside the lock of its element or with all of them.
THEOREM MutexesAreGivenBack == Spec => []GivenBack
  <1>1. Owned => GivenBack
    BY DEF Owned, GivenBack, HeldBy, Inside, InTheTable, Alone
  <1> QED
    BY <1>1, OwnedInvariant, PTL

\* Only a thread that takes all mutexes waits while it has some; and as all such
\* threads begin with the first, one at most gets further.
LEMMA WaitingInLine ==
  ASSUME IInv, Owned, NEW t \in Thread, NEW u \in Thread, NEW v \in Thread,
         Behind(t, u), Behind(u, v)
  PROVE  pc[v] \notin {"idle", "lock", "lock_all"}
  <1>1. PICK m \in Mutex : owner[m] = u /\ HeldBy(u, m)
    BY DEF Behind, Owned
  <1>2. PICK n \in Mutex : WaitsFor(u, n) /\ owner[n] = v
    BY DEF Behind
  <1>3. m \in Nat /\ stripe[u] \in Nat /\ stripe[v] \in Nat /\ 0 \in Mutex
    BY MutexIsThere, Types DEF IInv
  <1>4. pc[u] = "lock_all" /\ m < stripe[u] /\ n = stripe[u]
    BY <1>1, <1>2 DEF HeldBy, WaitsFor, Inside, InTheTable, Alone
  <1>5. owner[0] = u
    BY <1>3, <1>4 DEF IInv, Locks, Holds
  <1>6. HeldBy(v, n)
    BY <1>2 DEF Owned
  <1>7. ASSUME pc[v] = "lock_all"
        PROVE  FALSE
    <2>1. n < stripe[v]
      BY <1>6, <1>7 DEF HeldBy, Inside, InTheTable, Alone
    <2>2. owner[0] = v
      BY <1>3, <1>4, <1>7, <2>1 DEF IInv, Locks, Holds
    <2>3. v = u
      BY <1>5, <2>2
    <2> QED
      BY <1>3, <1>4, <2>1, <2>3
  <1> QED
    BY <1>6, <1>7 DEF HeldBy, Inside, InTheTable, Alone

\* However many threads resize at once, none ever waits behind itself, directly
\* or through others, and no line of threads that wait is longer than two.
THEOREM NoCircularWait == Spec => [](LinesAreShort /\ SomeoneCanGo)
  <1>1. ASSUME IInv, Owned
        PROVE  LinesAreShort
    BY <1>1, WaitingInLine DEF LinesAreShort, Blocked, Behind, WaitsFor
  <1>2. ASSUME IInv, Owned
        PROVE  SomeoneCanGo
    <2> SUFFICES ASSUME NEW t \in Thread, pc[t] # "idle"
                 PROVE  \E u \in Thread : pc[u] # "idle" /\ ~Blocked(u)
      BY DEF SomeoneCanGo
    <2>1. ASSUME NEW u \in Thread, NEW v \in Thread, Behind(u, v)
          PROVE  pc[v] # "idle"
      BY <1>2, <2>1 DEF Behind, Owned, HeldBy, Inside, InTheTable, Alone
    <2>2. CASE ~Blocked(t)
      BY <2>2
    <2>3. CASE Blocked(t)
      <3>1. PICK u \in Thread : Behind(t, u)
        BY <2>3 DEF Blocked
      <3>2. CASE ~Blocked(u)
        BY <2>1, <3>1, <3>2
      <3>3. CASE Blocked(u)
        <4>1. PICK v \in Thread : Behind(u, v)
          BY <3>3 DEF Blocked
        <4>2. ~Blocked(v)
          BY <1>1, <1>2, <3>1, <4>1 DEF LinesAreShort
        <4> QED
          BY <2>1, <4>1, <4>2
      <3> QED
        BY <3>2, <3>3
    <2> QED
      BY <2>2, <2>3
  <1>3. IInv /\ Owned => LinesAreShort /\ SomeoneCanGo
    BY <1>1, <1>2
  <1> QED
    BY <1>3, OwnedInvariant, PTL

-----------------------------------------------------------------------------
\* The set starts as an empty one.
LEMMA InitIsInit == Init => Base!Init
  <1> SUFFICES ASSUME Init PROVE Base!Init
    OBVIOUS
  <1>1. \A i \in DOMAIN table_ : table_[i] = {}
    BY DEF Init, EmptyTable
  <1>2. Set = {}
    BY <1>1 DEF Set, Members
  <1> QED
    BY <1>2 DEF Init, Base!Init

\* A change of a bucket is the moment an Add() or Remove() takes effect,
LEMMA ChangesTakeEffect ==
  ASSUME IInv, NEW t \in Thread, Push(t) \/ Erase(t)
  PROVE  Base!TakeEffect(t)
  <1>1. /\ answer[t] = {} /\ answer' = [answer EXCEPT ![t] = {TRUE}]
        /\ op' = op /\ arg' = arg /\ arg[t] \in Elem
    BY DEF Push, Erase, Settle, call, IInv, Calls, Unsettled, InTheTable
  <1>2. \A u \in Thread : arg[u] = arg[t] <=> u \in Base!Asking(arg[t])
    BY <1>1, Types DEF IInv, Calls, Base!Asking, Operation
  <1>3. CASE Push(t)
    <2>1. op[t] = "Add" /\ arg[t] \notin Set /\ Set' = Set \cup {arg[t]}
      BY <1>3, PushAdds DEF Push
    <2>2. (arg[t] \in Set') = TRUE
      BY <2>1
    <2>3. {(arg[t] \in Set')} = {TRUE}
      BY ONLY <2>2
    <2>4. seen' = [u \in Thread |-> IF arg[u] = arg[t] THEN seen[u] \cup {TRUE} ELSE seen[u]]
      BY <1>3 DEF Push, Observe
    <2>5. seen' = [u \in Thread |-> IF u \in Base!Asking(arg[t])
                                      THEN seen[u] \cup {(arg[t] \in Set')} ELSE seen[u]]
      BY <1>2, <2>3, <2>4
    <2> QED
      BY <1>1, <2>1, <2>5 DEF Base!TakeEffect
  <1>4. CASE Erase(t)
    <2>1. op[t] = "Remove" /\ arg[t] \in Set /\ Set' = Set \ {arg[t]}
      BY <1>4, EraseRemoves DEF Erase
    <2>2. (arg[t] \in Set') = FALSE
      BY <2>1
    <2>3. {(arg[t] \in Set')} = {FALSE}
      BY ONLY <2>2
    <2>4. seen' = [u \in Thread |-> IF arg[u] = arg[t] THEN seen[u] \cup {FALSE} ELSE seen[u]]
      BY <1>4 DEF Erase, Observe
    <2>5. seen' = [u \in Thread |-> IF u \in Base!Asking(arg[t])
                                      THEN seen[u] \cup {(arg[t] \in Set')} ELSE seen[u]]
      BY <1>2, <2>3, <2>4
    <2> QED
      BY <1>1, <2>1, <2>5 DEF Base!TakeEffect
  <1> QED
    BY <1>3, <1>4

\* a search that leaves nothing to do settles for what it has just seen,
LEMMA SearchesAnswer ==
  ASSUME IInv, NEW t \in Thread, Find(t)
  PROVE  Base!Answer(t) \/ UNCHANGED Base!vars
  <1>0. /\ pc[t] = "find" /\ answer[t] = {} /\ op[t] \in Operation
        /\ table_' = table_ /\ op' = op /\ arg' = arg /\ seen' = seen
    BY DEF Find, shared, call, history, IInv, Calls, Unsettled, InTheTable
  <1>1. Set' = Set
    BY <1>0 DEF Set
  <1>2. /\ arg[t] \in Set <=> arg[t] \in table_[bucket[t]]
        /\ arg[t] \in Set => TRUE \in seen[t]
        /\ arg[t] \notin Set => FALSE \in seen[t]
    BY <1>0, SearchIsRight DEF InTheTable, IInv, Sees, Operation
  <1> DEFINE answers == op[t] = "Contains" /\ arg[t] \in table_[bucket[t]]
  <1>3. \/ answer' = answer
        \/ /\ answer' = [answer EXCEPT ![t] = {answers}]
           /\ op[t] = "Add" => arg[t] \in Set
           /\ op[t] = "Remove" => arg[t] \notin Set
    BY <1>2 DEF Find, Settle
  <1>4. CASE answer' = answer
    BY <1>0, <1>1, <1>4 DEF Base!vars
  <1>5. CASE /\ answer' = [answer EXCEPT ![t] = {answers}]
             /\ op[t] = "Add" => arg[t] \in Set
             /\ op[t] = "Remove" => arg[t] \notin Set
    <2>1. CASE answers
      <3>1. answers = TRUE
        BY <2>1
      <3>2. {answers} = {TRUE}
        BY ONLY <3>1
      <3> QED
        BY <1>0, <1>1, <1>2, <1>5, <2>1, <3>2 DEF Base!Answer
    <2>2. CASE ~answers
      <3>1. answers = FALSE
        BY <2>2
      <3> HIDE DEF answers
      <3>2. {answers} = {FALSE}
        BY ONLY <3>1
      <3>3. answer' = [answer EXCEPT ![t] = {FALSE}]
        BY <1>5, <3>2
      <3>4. op[t] = "Contains" => FALSE \in seen[t]
        BY <1>2, <2>2 DEF answers
      <3> QED
        BY <1>0, <1>1, <1>2, <1>5, <3>3, <3>4 DEF Base!Answer, Operation
    <2> QED
      BY <2>1, <2>2
  <1> QED
    BY <1>3, <1>4, <1>5

\* calls and returns are calls and returns,
LEMMA CallsAndReturns ==
  ASSUME IInv, NEW t \in Thread
  PROVE  /\ \A o \in Operation, e \in Elem : Call(t, o, e) => Base!Call(t, o, e)
         /\ Return(t) => Base!Return(t)
  <1>1. ASSUME NEW o \in Operation, NEW e \in Elem, Call(t, o, e)
        PROVE  Base!Call(t, o, e)
    <2>1. Set' = Set /\ op[t] = "none"
      BY <1>1 DEF Call, shared, Set, IInv, Calls
    <2> QED
      BY <1>1, <2>1 DEF Call, Base!Call
  <1>2. ASSUME Return(t)
        PROVE  Base!Return(t)
    <2>1. Set' = Set /\ op[t] \in Operation /\ (answer[t] # {} \/ Failures # {})
      BY <1>2 DEF Return, shared, Set, IInv, Calls, Unsettled, InTheTable
    <2> QED
      BY <1>2, <2>1 DEF Return, Base!Return, Operation
  <1> QED
    BY <1>1, <1>2

\* and nothing else can be noticed.
LEMMA StepsAreSteps == IInv /\ [Next]_vars => [Base!Next]_Base!vars
  <1>1. ASSUME IInv, NEW t \in Thread, Step(t) \/ \E o \in Operation, e \in Elem : Call(t, o, e)
        PROVE  Base!Next \/ UNCHANGED Base!vars
    <2>1. CASE \E o \in Operation, e \in Elem : Call(t, o, e)
      BY <1>1, <2>1, CallsAndReturns DEF Base!Next, Operation, Base!Operation
    <2>2. CASE Push(t) \/ Erase(t)
      BY <1>1, <2>2, ChangesTakeEffect DEF Base!Next
    <2>3. CASE Find(t)
      BY <1>1, <2>3, SearchesAnswer DEF Base!Next
    <2>4. CASE Return(t)
      BY <1>1, <2>4, CallsAndReturns DEF Base!Next
    <2>5. CASE Step(t) /\ ~Push(t) /\ ~Erase(t) /\ ~Find(t) /\ ~Return(t)
      <3>1. Set' = Set
        BY <1>1, <2>5, SetChanges
      <3>2. op' = op /\ arg' = arg /\ answer' = answer /\ seen' = seen
        BY <2>5 DEF Step, TryResize, Lock, GetBucket, PushThrows, Count, Unlock, LoadCapacity,
                    Compare, LockNext, NoResize, Resize, ResizeThrows, Publish, UnlockNext,
                    call, history
      <3> QED
        BY <3>1, <3>2 DEF Base!vars
    <2> QED
      BY <1>1, <2>1, <2>2, <2>3, <2>4, <2>5
  <1>2. ASSUME UNCHANGED vars
        PROVE  UNCHANGED Base!vars
    BY <1>2 DEF vars, shared, call, history, Set, Base!vars
  <1> QED
    BY <1>1, <1>2 DEF Next

\* Whatever the threads, the elements, their hashes, the capacity and the number
\* of mutexes: every operation takes effect at one moment of its call, or, when it
\* changes nothing, answers what was right at some such moment.
THEOREM StripedIsASet == Spec => IsASet
  BY Invariant, InitIsInit, StepsAreSteps, PTL DEF Spec, IsASet, Base!Spec
=============================================================================
