-------------------------- MODULE HashSetLockFree --------------------------
(***************************************************************************)
(* The lock-free set, src/HashSetLockFree.h: a BucketList and an array of  *)
(* pointers into it, one per bucket, each set the first time it is needed. *)
(*                                                                         *)
(* An operation of the list is one step here, the moment at which it takes *)
(* effect: that there is one is what BucketListProofs has of the list.  It *)
(* sees the part of the list that comes after the sentinel it starts from. *)
(* A sentinel node is named by the index it was made for.  Of HashTable it *)
(* takes which bucket an element is in and when there are too few, of      *)
(* SplitOrder the keys.                                                    *)
(***************************************************************************)
EXTENDS HashTable, SplitOrder, Sequences

CONSTANTS
  Thread,
  None,             \* no element, the null pointer
  initial_capacity,
  max_capacity_,
  SizeLimit,        \* a size_t counts modulo this
  Failures          \* the exceptions that may be thrown by the list

Index == 0 .. max_capacity_ - 1

\* What HashSetLockFree() insists on, and throws invalid_argument otherwise.
ASSUME CapacityAssumption ==
  \E i, j \in 0 .. max_capacity_ :
    /\ initial_capacity = 2 ^ i /\ i >= 1
    /\ max_capacity_ = 2 ^ j /\ j >= i
    /\ max_capacity_ <= kMaxBuckets
ASSUME NoneAssumption == None \notin Elem \cup Index
ASSUME SizeAssumption == SizeLimit \in Nat /\ SizeLimit > Cardinality(Elem)
ASSUME FailuresAssumption == Failures \subseteq {"new", "membarrier"}
ASSUME FiniteAssumption == IsFiniteSet(Thread) /\ IsFiniteSet(Elem)

\* The capacities the set may have.
Capacities ==
  {c \in {2 ^ k : k \in 0 .. max_capacity_} : initial_capacity <= c /\ c <= max_capacity_}

\* The keys of the nodes, as numbers.
OrdinaryKey == [e \in Elem |-> Number(MakeOrdinaryKey(Hash[e]))]
SentinelKey == [i \in Index |-> Number(MakeSentinelKey(i))]

ParentIndex == [i \in Index \ {0} |-> GetParentIndex(i)]

VARIABLES
  set,        \* the elements in the list
  sentinels,  \* the indices that have a sentinel in the list
  buckets_,   \* per index: the sentinel, or the null pointer
  capacity_, set_size_,
  pc,         \* what each thread does next
  op, arg,    \* per thread: the operation it is in and its element
  indices,    \* per thread: the bucket asked for, after those to initialize
              \* before it
  sentinel,   \* per thread: the sentinel it has been given
  capacity,   \* per thread: its local of that name
  answer      \* per thread: {} until it is settled what it returns

\* History: the answers that were right at some moment of a thread's call, and
\* how many elements went uncounted (modulo SizeLimit) when Remove() threw.
VARIABLES seen, uncounted

list == <<set, sentinels>>
counters == <<capacity_, set_size_>>
call == <<op, arg>>
locals == <<indices, sentinel, capacity>>
vars == <<list, buckets_, counters, pc, call, locals, answer, seen, uncounted>>

Operation == {"Add", "Remove", "Contains"}

Goto(t, label) == pc' = [pc EXCEPT ![t] = label]

Settle(t, value) == answer' = [answer EXCEPT ![t] = {value}]

\* Every thread in a call about e has now seen whether e is there.
Observe(e, present) ==
  seen' = [t \in Thread |-> IF arg[t] = e THEN seen[t] \cup {present} ELSE seen[t]]

Init ==
  /\ set = {}
  /\ sentinels = {0}
  /\ buckets_ = [i \in Index |-> IF i = 0 THEN 0 ELSE None]
  /\ capacity_ = initial_capacity
  /\ set_size_ = 0
  /\ pc = [t \in Thread |-> "idle"]
  /\ op = [t \in Thread |-> "none"]
  /\ arg = [t \in Thread |-> None]
  /\ indices = [t \in Thread |-> <<>>]
  /\ sentinel = [t \in Thread |-> None]
  /\ capacity = [t \in Thread |-> 0]
  /\ answer = [t \in Thread |-> {}]
  /\ seen = [t \in Thread |-> {}]
  /\ uncounted = 0

-----------------------------------------------------------------------------
Call(t, o, e) ==
  /\ pc[t] = "idle"
  /\ op' = [op EXCEPT ![t] = o]
  /\ arg' = [arg EXCEPT ![t] = e]
  /\ seen' = [seen EXCEPT ![t] = {(e \in set)}]
  /\ Goto(t, "hash")
  /\ UNCHANGED <<list, buckets_, counters, locals, answer, uncounted>>

LoadCapacity(t) ==
  /\ pc[t] = "hash"
  /\ indices' = [indices EXCEPT ![t] = <<BucketIndex(arg[t], capacity_)>>]
  /\ Goto(t, "bucket")
  /\ UNCHANGED <<list, buckets_, counters, call, sentinel, capacity, answer, seen, uncounted>>

\* GetBucketList() finds the sentinel there, and the caller goes on with it:
\* to initialize the bucket it wanted a parent for, or to the operation;
Initialized(t) ==
  LET i == Head(indices[t])
  IN
  /\ pc[t] = "bucket"
  /\ buckets_[i] # None
  /\ sentinel' = [sentinel EXCEPT ![t] = buckets_[i]]
  /\ indices' = [indices EXCEPT ![t] = Tail(@)]
  /\ Goto(t, IF Len(indices[t]) = 1 THEN "operate" ELSE "splice")
  /\ UNCHANGED <<list, buckets_, counters, call, capacity, answer, seen, uncounted>>

\* or InitializeBucket() needs that of the parent first.
NeedsParent(t) ==
  LET i == Head(indices[t])
  IN
  /\ pc[t] = "bucket"
  /\ buckets_[i] = None
  /\ indices' = [indices EXCEPT ![t] = <<ParentIndex[i]>> \o @]
  /\ UNCHANGED <<list, buckets_, counters, pc, call, sentinel, capacity, answer,
                 seen, uncounted>>

\* SentinelFor() is called on the list of the parent,
SentinelFor(t) ==
  LET i == Head(indices[t])
  IN
  /\ pc[t] = "splice"
  /\ sentinels' = sentinels \cup {i}
  /\ sentinel' = [sentinel EXCEPT ![t] = i]
  /\ Goto(t, "publish")
  /\ UNCHANGED <<set, buckets_, counters, call, indices, capacity, answer, seen, uncounted>>

\* Mutant of Publish: the parent's sentinel is stored.
PublishParent(t) ==
  LET i == Head(indices[t])
  IN
  /\ pc[t] = "publish"
  /\ buckets_' = [buckets_ EXCEPT ![i] = IF @ = None THEN buckets_[ParentIndex[i]] ELSE @]
  /\ indices' = [indices EXCEPT ![t] = Tail(@)]
  /\ Goto(t, IF Len(indices[t]) = 1 THEN "operate" ELSE "splice")
  /\ UNCHANGED <<list, counters, call, sentinel, capacity, answer, seen, uncounted>>

\* and what it returns is stored, unless another thread did so.
Publish(t) ==
  LET i == Head(indices[t])
  IN
  /\ pc[t] = "publish"
  /\ buckets_' = [buckets_ EXCEPT ![i] = IF @ = None THEN sentinel[t] ELSE @]
  /\ indices' = [indices EXCEPT ![t] = Tail(@)]
  /\ Goto(t, IF Len(indices[t]) = 1 THEN "operate" ELSE "splice")
  /\ UNCHANGED <<list, counters, call, sentinel, capacity, answer, seen, uncounted>>

-----------------------------------------------------------------------------
\* The element is in the list, from the sentinel on.
Found(t) == arg[t] \in set /\ SentinelKey[sentinel[t]] < OrdinaryKey[arg[t]]

\* The operation on the list has an effect,
Operate(t) ==
  /\ pc[t] = "operate"
  /\ \/ op[t] = "Add" /\ ~Found(t) /\ set' = set \cup {arg[t]}
     \/ op[t] = "Remove" /\ Found(t) /\ set' = set \ {arg[t]}
  /\ Settle(t, TRUE)
  /\ Observe(arg[t], op[t] = "Add")
  /\ Goto(t, "count")
  /\ UNCHANGED <<sentinels, buckets_, counters, call, locals, uncounted>>

\* or none,
OperateInVain(t) ==
  /\ pc[t] = "operate"
  /\ \/ op[t] = "Add" /\ Found(t)
     \/ op[t] = "Remove" /\ ~Found(t)
     \/ op[t] = "Contains"
  /\ Settle(t, op[t] = "Contains" /\ Found(t))
  /\ Goto(t, "done")
  /\ UNCHANGED <<list, buckets_, counters, call, locals, seen, uncounted>>

\* or throws before it has one, as SentinelFor() may,
ListThrows(t) ==
  /\ Failures # {}
  /\ \/ pc[t] = "splice"
     \/ pc[t] = "operate" /\ op[t] \in (IF "membarrier" \in Failures THEN {"Add", "Remove"}
                                                              ELSE {"Add"})
  /\ Goto(t, "done")
  /\ UNCHANGED <<list, buckets_, counters, call, locals, answer, seen, uncounted>>

\* or, in Remove(), after it.
RemoveThrows(t) ==
  /\ "membarrier" \in Failures
  /\ pc[t] = "operate"
  /\ op[t] = "Remove"
  /\ Found(t)
  /\ set' = set \ {arg[t]}
  /\ Settle(t, TRUE)
  /\ Observe(arg[t], FALSE)
  /\ uncounted' = (uncounted + 1) % SizeLimit
  /\ Goto(t, "done")
  /\ UNCHANGED <<sentinels, buckets_, counters, call, locals>>

\* Mutant of Count: only the elements that are added are counted.
CountAdds(t) ==
  /\ pc[t] = "count"
  /\ set_size_' = IF op[t] = "Add" THEN (set_size_ + 1) % SizeLimit ELSE set_size_
  /\ Goto(t, IF op[t] = "Add" THEN "resize" ELSE "done")
  /\ UNCHANGED <<list, buckets_, capacity_, call, locals, answer, seen, uncounted>>

\* set_size_ follows; an Add() then looks whether to resize.
Count(t) ==
  /\ pc[t] = "count"
  /\ set_size_' = (IF op[t] = "Add" THEN set_size_ + 1 ELSE set_size_ - 1) % SizeLimit
  /\ Goto(t, IF op[t] = "Add" THEN "resize" ELSE "done")
  /\ UNCHANGED <<list, buckets_, capacity_, call, locals, answer, seen, uncounted>>

\* ResizeIfNecessary() loads capacity_,
LoadForResize(t) ==
  /\ pc[t] = "resize"
  /\ capacity' = [capacity EXCEPT ![t] = capacity_]
  /\ Goto(t, "compare")
  /\ UNCHANGED <<list, buckets_, counters, call, indices, sentinel, answer, seen, uncounted>>

\* Mutant of Compare: the largest capacity is not looked at.
CompareUnlimited(t) ==
  /\ pc[t] = "compare"
  /\ Goto(t, IF TooSmall(capacity[t], set_size_) THEN "double" ELSE "done")
  /\ UNCHANGED <<list, buckets_, counters, call, locals, answer, seen, uncounted>>

\* then set_size_,
Compare(t) ==
  /\ pc[t] = "compare"
  /\ Goto(t, IF capacity[t] < max_capacity_ /\ TooSmall(capacity[t], set_size_)
               THEN "double" ELSE "done")
  /\ UNCHANGED <<list, buckets_, counters, call, locals, answer, seen, uncounted>>

\* and doubles the capacity, unless another thread did so.
Double(t) ==
  /\ pc[t] = "double"
  /\ capacity_' = IF capacity_ = capacity[t] THEN 2 * capacity[t] ELSE capacity_
  /\ Goto(t, "done")
  /\ UNCHANGED <<list, buckets_, set_size_, call, locals, answer, seen, uncounted>>

\* The call returns or throws.
Return(t) ==
  /\ pc[t] = "done"
  /\ op' = [op EXCEPT ![t] = "none"]
  /\ arg' = [arg EXCEPT ![t] = None]
  /\ indices' = [indices EXCEPT ![t] = <<>>]
  /\ sentinel' = [sentinel EXCEPT ![t] = None]
  /\ capacity' = [capacity EXCEPT ![t] = 0]
  /\ answer' = [answer EXCEPT ![t] = {}]
  /\ seen' = [seen EXCEPT ![t] = {}]
  /\ Goto(t, "idle")
  /\ UNCHANGED <<list, buckets_, counters, uncounted>>

GetBucketList(t) ==
  \/ Initialized(t)
  \/ NeedsParent(t)
  \/ SentinelFor(t)
  \/ Publish(t)

ResizeIfNecessary(t) == LoadForResize(t) \/ Compare(t) \/ Double(t)

Step(t) ==
  \/ LoadCapacity(t)
  \/ GetBucketList(t)
  \/ Operate(t)
  \/ OperateInVain(t)
  \/ ListThrows(t)
  \/ RemoveThrows(t)
  \/ Count(t)
  \/ ResizeIfNecessary(t)
  \/ Return(t)

Next ==
  \E t \in Thread : (\E o \in Operation, e \in Elem : Call(t, o, e)) \/ Step(t)

Spec == Init /\ [][Next]_vars

-----------------------------------------------------------------------------
Label == {"idle", "hash", "bucket", "splice", "publish", "operate", "count",
          "resize", "compare", "double", "done"}

\* Every variable has its type.
TypeOK ==
  /\ set \subseteq Elem
  /\ sentinels \subseteq Index
  /\ buckets_ \in [Index -> Index \cup {None}]
  /\ capacity_ \in 1 .. max_capacity_
  /\ set_size_ \in 0 .. SizeLimit - 1
  /\ pc \in [Thread -> Label]
  /\ op \in [Thread -> Operation \cup {"none"}]
  /\ arg \in [Thread -> Elem \cup {None}]
  /\ indices \in [Thread -> Seq(Index)]
  /\ sentinel \in [Thread -> Index \cup {None}]
  /\ capacity \in [Thread -> 0 .. max_capacity_]
  /\ answer \in [Thread -> SUBSET BOOLEAN]
  /\ seen \in [Thread -> SUBSET BOOLEAN]
  /\ uncounted \in 0 .. SizeLimit - 1

\* Every operation on the list starts from a node of the list that comes before
\* the place it is about, with whatever capacity the thread has read, stale or
\* not: no element that is there is missed, and no sentinel is spliced in out
\* of order (the assertion at BucketList.h:140).
StartsBefore ==
  \A t \in Thread :
    /\ pc[t] = "operate" =>
         /\ sentinel[t] \in sentinels
         /\ SentinelKey[sentinel[t]] < OrdinaryKey[arg[t]]
    /\ pc[t] = "splice" =>
         /\ sentinel[t] \in sentinels
         /\ SentinelKey[sentinel[t]] <= SentinelKey[Head(indices[t])]

\* A bucket is published with its own sentinel, after that is linked in and
\* after the bucket it was split from, and is never initialized without need.
PublishedInOrder ==
  \A i \in Index :
    buckets_[i] # None =>
      /\ buckets_[i] = i /\ i \in sentinels
      /\ i # 0 => buckets_[ParentIndex[i]] # None
      /\ i < capacity_

Counting(o) == Cardinality({t \in Thread : pc[t] = "count" /\ op[t] = o})

\* Modulo the width of size_t, Size() differs from the number of elements by the
\* threads that have changed the list and not yet counted it, and by those whose
\* Remove() threw in between; with no call under way and no exception before it
\* is exact (what benchmarks.cc:258 compares at the end of a run).
SizeAgrees ==
  (set_size_ + Counting("Add")) % SizeLimit
    = (Cardinality(set) + Counting("Remove") + uncounted) % SizeLimit

\* A set that no call has got as far into as to initialize a bucket.
IsNew == (\A t \in Thread : pc[t] = "idle") /\ (\A i \in Index \ {0} : buckets_[i] = None)

\* The keys are what a new set takes them for at each of the capacities it may
\* grow to: in bit-reversed order, which puts each element behind the sentinel
\* of its bucket and each sentinel behind that of its parent (BucketList.h:184),
\* whatever the hash.  No step changes a key, so they are looked at while the
\* set is new.
KeysAreSplitOrdered ==
  IsNew =>
    /\ \A e \in Elem, c \in Capacities : SentinelKey[BucketIndex(e, c)] < OrdinaryKey[e]
    /\ \A code \in 0 .. 2 ^ kKeyBits - 1 :
         /\ ReversesBits(Binary(code))
         /\ \A c \in Capacities : InItsBucket(code, c)
    /\ \A i \in Index \ {0} : BehindItsParent(i)

\* The set is one of elements whose operations take effect at one moment.
Base == INSTANCE HashSetBase WITH MayThrow <- Failures # {}

IsASet == Base!Spec
=============================================================================
