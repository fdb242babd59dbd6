--------------------------- MODULE HashSetStriped ---------------------------
(***************************************************************************)
(* The set with one mutex per stripe of the table, src/HashSetStriped.h.   *)
(* With a single mutex it is src/HashSetCoarseGrained.h, whose code is the *)
(* same line by line otherwise; Init chooses one or the other.             *)
(*                                                                         *)
(* Every access to shared state that another thread could come between is  *)
(* a step: taking and releasing each mutex, searching and changing a       *)
(* bucket, and each access of the atomics.                                 *)
(***************************************************************************)
EXTENDS HashTable

CONSTANTS
  Thread,
  None,              \* no thread, no element
  initial_capacity,
  Failures           \* as in HashSetSequential

ASSUME CapacityAssumption == initial_capacity \in Nat \ {0}
ASSUME NoneAssumption == None \notin Thread \cup Elem
ASSUME FailuresAssumption == Failures \subseteq {"bad_alloc"}
ASSUME FiniteAssumption == IsFiniteSet(Thread) /\ IsFiniteSet(Elem)

VARIABLES
  table_, capacity_, set_size_,
  mutexes,    \* mutexes_.size(), or 1 for the one mutex_ of the coarse-grained set
  owner,      \* per mutex: the thread that holds it
  pc,         \* what each thread does next
  op, arg,    \* per thread: the operation it is in and its element
  bucket,     \* per thread: the index of the bucket it has a reference to
  capacity,   \* per thread: Policy()'s local of that name
  stripe,     \* per thread: the mutex it takes or releases next in Resize()
  answer      \* per thread: {} until it is settled what it returns

\* History: the answers that were right at some moment of a thread's call, and
\* the largest number of elements there has been.
VARIABLES seen, peak

shared == <<table_, capacity_, set_size_>>
call == <<op, arg>>
locals == <<bucket, capacity, stripe>>
history == <<seen, peak>>
vars == <<shared, mutexes, owner, pc, call, locals, answer, history>>

Operation == {"Add", "Remove", "Contains"}

Mutex == 0 .. mutexes - 1

\* Mutant of GetMutex: other bits of the hash choose the mutex than the bucket.
GetMutexByHighBits(e) == (Hash[e] \div mutexes) % mutexes

GetMutex(e) == Hash[e] % mutexes

Set == Members(table_)

Goto(t, label) == pc' = [pc EXCEPT ![t] = label]

Settle(t, value) == answer' = [answer EXCEPT ![t] = {value}]

\* Every thread in a call about e has now seen whether e is there.
Observe(e, present) ==
  seen' = [t \in Thread |-> IF arg[t] = e THEN seen[t] \cup {present} ELSE seen[t]]

Init ==
  /\ table_ = EmptyTable(initial_capacity)
  /\ capacity_ = initial_capacity
  /\ set_size_ = 0
  /\ mutexes \in {1, initial_capacity}
  /\ owner = [m \in Mutex |-> None]
  /\ pc = [t \in Thread |-> "idle"]
  /\ op = [t \in Thread |-> "none"]
  /\ arg = [t \in Thread |-> None]
  /\ bucket = [t \in Thread |-> 0]
  /\ capacity = [t \in Thread |-> 0]
  /\ stripe = [t \in Thread |-> 0]
  /\ answer = [t \in Thread |-> {}]
  /\ seen = [t \in Thread |-> {}]
  /\ peak = 0

-----------------------------------------------------------------------------
Call(t, o, e) ==
  /\ pc[t] = "idle"
  /\ op' = [op EXCEPT ![t] = o]
  /\ arg' = [arg EXCEPT ![t] = e]
  /\ seen' = [seen EXCEPT ![t] = {(e \in Set)}]
  /\ Goto(t, "lock")
  /\ UNCHANGED <<mutexes, shared, owner, locals, answer, peak>>

Lock(t) ==
  /\ pc[t] = "lock"
  /\ owner[GetMutex(arg[t])] = None
  /\ owner' = [owner EXCEPT ![GetMutex(arg[t])] = t]
  /\ Goto(t, "get")
  /\ UNCHANGED <<mutexes, shared, call, locals, answer, history>>

\* Mutant of GetBucket: the bucket is that of the initial capacity.
GetBucketAtFirst(t) ==
  /\ pc[t] = "get"
  /\ bucket' = [bucket EXCEPT ![t] = BucketIndex(arg[t], initial_capacity)]
  /\ Goto(t, "find")
  /\ UNCHANGED <<mutexes, shared, owner, call, capacity, stripe, answer, history>>

\* GetBucket() hashes with the capacity of the moment.
GetBucket(t) ==
  /\ pc[t] = "get"
  /\ bucket' = [bucket EXCEPT ![t] = BucketIndex(arg[t], capacity_)]
  /\ Goto(t, "find")
  /\ UNCHANGED <<mutexes, shared, owner, call, capacity, stripe, answer, history>>

\* The bucket is searched: there may be nothing more to do than to answer.
Find(t) ==
  LET found == arg[t] \in table_[bucket[t]]
  IN
  /\ pc[t] = "find"
  /\ IF \/ op[t] = "Add" /\ ~found
        \/ op[t] = "Remove" /\ found
       THEN Goto(t, "change") /\ UNCHANGED answer
       ELSE Goto(t, "unlock") /\ Settle(t, op[t] = "Contains" /\ found)
  /\ UNCHANGED <<mutexes, shared, owner, call, locals, history>>

\* push_back()
Push(t) ==
  /\ pc[t] = "change"
  /\ op[t] = "Add"
  /\ table_' = [table_ EXCEPT ![bucket[t]] = @ \cup {arg[t]}]
  /\ Settle(t, TRUE)
  /\ Observe(arg[t], TRUE)
  /\ peak' = IF Cardinality(Set \cup {arg[t]}) > peak THEN peak + 1 ELSE peak
  /\ Goto(t, "count")
  /\ UNCHANGED <<mutexes, capacity_, set_size_, owner, call, locals>>

PushThrows(t) ==
  /\ "bad_alloc" \in Failures
  /\ pc[t] = "change"
  /\ op[t] = "Add"
  /\ Goto(t, "unlock")
  /\ UNCHANGED <<mutexes, shared, owner, call, locals, answer, history>>

\* erase()
Erase(t) ==
  /\ pc[t] = "change"
  /\ op[t] = "Remove"
  /\ table_' = [table_ EXCEPT ![bucket[t]] = @ \ {arg[t]}]
  /\ Settle(t, TRUE)
  /\ Observe(arg[t], FALSE)
  /\ Goto(t, "count")
  /\ UNCHANGED <<mutexes, capacity_, set_size_, owner, call, locals, peak>>

\* Mutant of Count: the counter only counts up.
CountAdds(t) ==
  /\ pc[t] = "count"
  /\ set_size_' = IF op[t] = "Add" THEN set_size_ + 1 ELSE set_size_
  /\ Goto(t, "unlock")
  /\ UNCHANGED <<mutexes, table_, capacity_, owner, call, locals, answer, history>>

Count(t) ==
  /\ pc[t] = "count"
  /\ set_size_' = IF op[t] = "Add" THEN set_size_ + 1 ELSE set_size_ - 1
  /\ Goto(t, "unlock")
  /\ UNCHANGED <<mutexes, table_, capacity_, owner, call, locals, answer, history>>

\* The lock is released, on return or while an exception unwinds; an Add()
\* that added something goes on to see whether the table is too small.
Unlock(t) ==
  /\ pc[t] = "unlock"
  /\ owner' = [owner EXCEPT ![GetMutex(arg[t])] = None]
  /\ bucket' = [bucket EXCEPT ![t] = 0]
  /\ Goto(t, IF op[t] = "Add" /\ answer[t] = {TRUE} THEN "policy" ELSE "done")
  /\ UNCHANGED <<mutexes, shared, call, capacity, stripe, answer, history>>

-----------------------------------------------------------------------------
\* Policy() outside any lock: one atomic is read after the other.
LoadCapacity(t) ==
  /\ pc[t] = "policy"
  /\ capacity' = [capacity EXCEPT ![t] = capacity_]
  /\ Goto(t, "compare")
  /\ UNCHANGED <<mutexes, shared, owner, call, bucket, stripe, answer, history>>

Compare(t) ==
  /\ pc[t] = "compare"
  /\ capacity' = [capacity EXCEPT ![t] = 0]
  /\ Goto(t, IF TooSmall(capacity[t], set_size_) THEN "lock_all" ELSE "done")
  /\ UNCHANGED <<mutexes, shared, owner, call, bucket, stripe, answer, history>>

\* Mutants of LockNext: the first mutex is enough, or each thread takes them in
\* an order of its own.
LockFirst(t) ==
  /\ pc[t] = "lock_all"
  /\ owner[0] = None
  /\ owner' = [owner EXCEPT ![0] = t]
  /\ Goto(t, "resize")
  /\ UNCHANGED <<mutexes, shared, call, locals, answer, history>>

LockAny(t) ==
  /\ pc[t] = "lock_all"
  /\ \E m \in Mutex :
       /\ owner[m] = None
       /\ owner' = [owner EXCEPT ![m] = t]
       /\ Goto(t, IF \A n \in Mutex \ {m} : owner[n] = t THEN "resize" ELSE "lock_all")
  /\ UNCHANGED <<mutexes, shared, call, locals, answer, history>>

\* ScopedVectorLock takes the mutexes in ascending order.
LockNext(t) ==
  /\ pc[t] = "lock_all"
  /\ owner[stripe[t]] = None
  /\ owner' = [owner EXCEPT ![stripe[t]] = t]
  /\ IF stripe[t] = mutexes - 1
       THEN Goto(t, "resize") /\ stripe' = [stripe EXCEPT ![t] = 0]
       ELSE stripe' = [stripe EXCEPT ![t] = @ + 1] /\ UNCHANGED pc
  /\ UNCHANGED <<mutexes, shared, call, bucket, capacity, answer, history>>

\* Mutant of Resize: Policy() is not checked again.
ResizeUnchecked(t) ==
  /\ pc[t] = "resize"
  /\ table_' = Rehashed(table_, 2 * capacity_)
  /\ Goto(t, "publish")
  /\ UNCHANGED <<mutexes, capacity_, set_size_, owner, call, locals, answer, history>>

\* Resize() checks Policy() again: another thread may have resized.
NoResize(t) ==
  /\ pc[t] = "resize"
  /\ ~TooSmall(capacity_, set_size_)
  /\ Goto(t, "unlock_all")
  /\ UNCHANGED <<mutexes, shared, owner, call, locals, answer, history>>

\* The elements are moved into a table of twice the capacity,
Resize(t) ==
  /\ pc[t] = "resize"
  /\ TooSmall(capacity_, set_size_)
  /\ table_' = Rehashed(table_, 2 * capacity_)
  /\ Goto(t, "publish")
  /\ UNCHANGED <<mutexes, capacity_, set_size_, owner, call, locals, answer, history>>

\* (for which there may be no memory: the table stays as it was)
ResizeThrows(t) ==
  /\ "bad_alloc" \in Failures
  /\ pc[t] = "resize"
  /\ TooSmall(capacity_, set_size_)
  /\ Goto(t, "unlock_all")
  /\ UNCHANGED <<mutexes, shared, owner, call, locals, answer, history>>

\* and the new capacity is stored.
Publish(t) ==
  /\ pc[t] = "publish"
  /\ capacity_' = 2 * capacity_
  /\ Goto(t, "unlock_all")
  /\ UNCHANGED <<mutexes, table_, set_size_, owner, call, locals, answer, history>>

UnlockNext(t) ==
  /\ pc[t] = "unlock_all"
  /\ owner' = [owner EXCEPT ![stripe[t]] = None]
  /\ IF stripe[t] = mutexes - 1
       THEN Goto(t, "done") /\ stripe' = [stripe EXCEPT ![t] = 0]
       ELSE stripe' = [stripe EXCEPT ![t] = @ + 1] /\ UNCHANGED pc
  /\ UNCHANGED <<mutexes, shared, call, bucket, capacity, answer, history>>

\* The call returns or throws.
Return(t) ==
  /\ pc[t] = "done"
  /\ op' = [op EXCEPT ![t] = "none"]
  /\ arg' = [arg EXCEPT ![t] = None]
  /\ answer' = [answer EXCEPT ![t] = {}]
  /\ seen' = [seen EXCEPT ![t] = {}]
  /\ Goto(t, "idle")
  /\ UNCHANGED <<mutexes, shared, owner, locals, peak>>

TryResize(t) ==
  \/ LoadCapacity(t)
  \/ Compare(t)
  \/ LockNext(t)
  \/ NoResize(t)
  \/ Resize(t)
  \/ ResizeThrows(t)
  \/ Publish(t)
  \/ UnlockNext(t)

Step(t) ==
  \/ Lock(t)
  \/ GetBucket(t)
  \/ Find(t)
  \/ Push(t)
  \/ PushThrows(t)
  \/ Erase(t)
  \/ Count(t)
  \/ Unlock(t)
  \/ TryResize(t)
  \/ Return(t)

Next ==
  \E t \in Thread : (\E o \in Operation, e \in Elem : Call(t, o, e)) \/ Step(t)

Spec == Init /\ [][Next]_vars

\* Every thread keeps running; a mutex that is contended may pass it by.
FairSpec == Spec /\ \A t \in Thread : WF_vars(Step(t))

-----------------------------------------------------------------------------
Label == {"idle", "lock", "get", "find", "change", "count", "unlock", "policy",
          "compare", "lock_all", "resize", "publish", "unlock_all", "done"}

\* Every variable has its type; the table is of the capacity that is stored,
\* or of twice that until it is.
TypeOK ==
  /\ mutexes \in {1, initial_capacity}
  /\ capacity_ \in Nat \ {0}
  /\ table_ \in Table(capacity_) \cup Table(2 * capacity_)
  /\ set_size_ \in Nat
  /\ owner \in [Mutex -> Thread \cup {None}]
  /\ pc \in [Thread -> Label]
  /\ op \in [Thread -> Operation \cup {"none"}]
  /\ arg \in [Thread -> Elem \cup {None}]
  /\ bucket \in [Thread -> Nat]
  /\ capacity \in [Thread -> Nat]
  /\ stripe \in [Thread -> Mutex]
  /\ answer \in [Thread -> SUBSET BOOLEAN]
  /\ seen \in [Thread -> SUBSET BOOLEAN]
  /\ peak \in Nat

\* The places where a bucket is read or written under its mutex.
InTheTable == {"find", "change"}

\* However often the table has grown past the number of mutexes, no two threads
\* are in one bucket at once: elements that share a bucket share a mutex.  And
\* none is in any bucket while all of them are moved.
BucketsApart ==
  \A t \in Thread : \A u \in Thread \ {t} :
    pc[t] \in InTheTable =>
      /\ pc[u] \in InTheTable => bucket[u] # bucket[t]
      /\ pc[u] \notin {"resize", "publish"}

\* From the search of a bucket to the change made to it, the reference to it
\* stays that of the element's bucket, and what was found stays true: no
\* resize and no other thread comes in between.
FindStillHolds ==
  \A t \in Thread :
    pc[t] = "change" =>
      /\ DOMAIN table_ = 0 .. capacity_ - 1
      /\ bucket[t] = BucketIndex(arg[t], capacity_)
      /\ arg[t] \in table_[bucket[t]] <=> op[t] = "Remove"

Counting(o) == Cardinality({t \in Thread : pc[t] = "count" /\ op[t] = o})

\* Size() differs from the number of elements only by the threads that have
\* changed a bucket and not yet counted it; with no call under way it is exact.
SizeAgrees ==
  set_size_ + Counting("Add") = Cardinality(Set) + Counting("Remove")

\* However many threads find the table too small at once, it is doubled only
\* once for that: no capacity beyond the first is reached before the one
\* before it was outgrown.
DoubledOnce ==
  capacity_ > initial_capacity => TooSmall(capacity_ \div 2, peak)

\* Whoever waits for a mutex, some call completes: there is no deadlock, also
\* between several resizes that each take every mutex.
DeadlockFree ==
  (\E t \in Thread : op[t] # "none") ~> (\E t \in Thread : pc[t] = "done")

\* The set is one of elements whose operations take effect at one moment.
Base == INSTANCE HashSetBase WITH MayThrow <- Failures # {}, set <- Set

IsASet == Base!Spec
=============================================================================
