-------------------------- MODULE HashSetRefinable --------------------------
(***************************************************************************)
(* The set that has a mutex for every bucket and more of them whenever it  *)
(* grows, src/HashSetRefinable.h.                                          *)
(*                                                                         *)
(* A resize takes no mutex for good: it raises resizing_, waits once for   *)
(* every mutex to be free, and relies on every other thread to look at     *)
(* resizing_ and capacity_ again after it has taken its mutex.             *)
(*                                                                         *)
(* Values are sequentially consistent.  What the memory orders in the code *)
(* add, the happens-before relation, is in history variables: how recent a *)
(* write of table_ each thread has synchronised with, and how recent a one *)
(* each atomic and each mutex passes on to the thread that reads it.       *)
(***************************************************************************)
EXTENDS HashTable

CONSTANTS
  Thread,
  None,            \* no thread, no element
  initial_shift_,  \* log2 of the initial capacity
  Failures         \* as in HashSetSequential

ASSUME ShiftAssumption == initial_shift_ \in Nat \ {0}
ASSUME NoneAssumption == None \notin Thread \cup Elem
ASSUME FailuresAssumption == Failures \subseteq {"bad_alloc"}
ASSUME FiniteAssumption == IsFiniteSet(Thread) /\ IsFiniteSet(Elem)

VARIABLES
  table_, capacity_, resizing_, set_size_,
  arena_,     \* of each mutex allocated so far: the thread that holds it
  pc,         \* what each thread does next
  op, arg,    \* per thread: the operation it is in and its element
  hash,       \* per thread: the index of its bucket and of its mutex
  capacity,   \* per thread: old_capacity, or Policy()'s local
  index,      \* per thread: the mutex Quiesce() waits for
  new_table,  \* per thread: the table being built
  answer      \* per thread: {} until it is settled what it returns

\* History: the answers that were right at some moment of a thread's call, and
\* the versions of table_ (its capacity) that happen before what each thread
\* does and what it may acquire.
VARIABLES
  seen,
  view,       \* per thread: the latest version it has synchronised with
  released,   \* per atomic: the version a thread that reads it acquires
  unlocked    \* per mutex: the version a thread that takes it acquires

shared == <<table_, capacity_, resizing_, set_size_>>
call == <<op, arg>>
locals == <<hash, capacity, index, new_table>>
answers == <<answer, seen>>
order == <<view, released, unlocked>>
vars == <<shared, arena_, pc, call, locals, answers, order>>

Operation == {"Add", "Remove", "Contains"}

Set == Members(table_)

-----------------------------------------------------------------------------
\* The arena: block 0 has the mutexes of the initial capacity, and each other
\* block as many as all before it.

\* std::bit_width and std::bit_floor
BitWidth(n) ==
  CHOOSE w \in 0 .. n : n < 2 ^ w /\ \A v \in 0 .. w - 1 : 2 ^ v <= n

BitFloor(n) == IF n = 0 THEN 0 ELSE 2 ^ (BitWidth(n) - 1)

initial_capacity == 2 ^ initial_shift_

BlockIndex(i) == BitWidth(i \div initial_capacity)

\* Mutant of BlockOffset: the mutexes of the blocks before are not subtracted.
BlockOffsetFromStart(i) == i

BlockOffset(i) == i - BitFloor(i \div initial_capacity) * initial_capacity

BlockSize(b) == 2 ^ (IF b = 0 THEN initial_shift_ ELSE initial_shift_ + b - 1)

GetMutex(i) == <<BlockIndex(i), BlockOffset(i)>>

Block(b) == {b} \X (0 .. BlockSize(b) - 1)

EnlargeMutexArena(b) == [m \in Block(b) |-> None]

-----------------------------------------------------------------------------
Goto(t, label) == pc' = [pc EXCEPT ![t] = label]

Settle(t, value) == answer' = [answer EXCEPT ![t] = {value}]

\* Every thread in a call about e has now seen whether e is there.
Observe(e, present) ==
  seen' = [t \in Thread |-> IF arg[t] = e THEN seen[t] \cup {present} ELSE seen[t]]

Later(v, w) == IF v < w THEN w ELSE v

Synchronise(t, version) == view' = [view EXCEPT ![t] = Later(@, version)]

\* Acquiring reads and releasing writes of an atomic.
Acquire(t, x) == Synchronise(t, released[x])

Release(t, x) == released' = [released EXCEPT ![x] = view[t]]

Init ==
  /\ table_ = EmptyTable(initial_capacity)
  /\ capacity_ = initial_capacity
  /\ resizing_ = FALSE
  /\ set_size_ = 0
  /\ arena_ = EnlargeMutexArena(0)
  /\ pc = [t \in Thread |-> "idle"]
  /\ op = [t \in Thread |-> "none"]
  /\ arg = [t \in Thread |-> None]
  /\ hash = [t \in Thread |-> 0]
  /\ capacity = [t \in Thread |-> 0]
  /\ index = [t \in Thread |-> 0]
  /\ new_table = [t \in Thread |-> EmptyTable(0)]
  /\ answer = [t \in Thread |-> {}]
  /\ seen = [t \in Thread |-> {}]
  /\ view = [t \in Thread |-> initial_capacity]
  /\ released = [x \in {"resizing_", "capacity_"} |-> 0]
  /\ unlocked = [m \in Block(0) |-> 0]

Call(t, o, e) ==
  /\ pc[t] = "idle"
  /\ op' = [op EXCEPT ![t] = o]
  /\ arg' = [arg EXCEPT ![t] = e]
  /\ seen' = [seen EXCEPT ![t] = {(e \in Set)}]
  /\ Goto(t, "spin")
  /\ UNCHANGED <<shared, arena_, locals, answer, order>>

-----------------------------------------------------------------------------
\* RefinableScopedLock spins until no resize is under way,
Spin(t) ==
  /\ pc[t] = "spin"
  /\ ~resizing_
  /\ Acquire(t, "resizing_")
  /\ Goto(t, "hash")
  /\ UNCHANGED <<shared, arena_, call, locals, answers, released, unlocked>>

\* hashes with the capacity it loads,
LoadCapacity(t) ==
  /\ pc[t] = "hash"
  /\ capacity' = [capacity EXCEPT ![t] = capacity_]
  /\ hash' = [hash EXCEPT ![t] = BucketIndex(arg[t], capacity_)]
  /\ Acquire(t, "capacity_")
  /\ Goto(t, "lock")
  /\ UNCHANGED <<shared, arena_, call, index, new_table, answers, released, unlocked>>

\* takes the mutex,
Lock(t) ==
  /\ pc[t] = "lock"
  /\ arena_[GetMutex(hash[t])] = None
  /\ arena_' = [arena_ EXCEPT ![GetMutex(hash[t])] = t]
  /\ Synchronise(t, unlocked[GetMutex(hash[t])])
  /\ Goto(t, "check_resizing")
  /\ UNCHANGED <<shared, call, locals, answers, released, unlocked>>

\* Mutants of CheckResizing: the flag is not looked at, or is waited for with the
\* mutex held.
CheckResizingNot(t) ==
  /\ pc[t] = "check_resizing"
  /\ Acquire(t, "resizing_")
  /\ Goto(t, "check_capacity")
  /\ UNCHANGED <<shared, arena_, call, locals, answers, released, unlocked>>

CheckResizingWaits(t) ==
  /\ pc[t] = "check_resizing"
  /\ ~resizing_
  /\ Acquire(t, "resizing_")
  /\ Goto(t, "check_capacity")
  /\ UNCHANGED <<shared, arena_, call, locals, answers, released, unlocked>>

\* and looks whether a resize has begun,
CheckResizing(t) ==
  /\ pc[t] = "check_resizing"
  /\ Acquire(t, "resizing_")
  /\ Goto(t, IF resizing_ THEN "retry" ELSE "check_capacity")
  /\ UNCHANGED <<shared, arena_, call, locals, answers, released, unlocked>>

\* Mutant of CheckCapacity: any capacity will do.
CheckCapacityNot(t) ==
  /\ pc[t] = "check_capacity"
  /\ capacity' = [capacity EXCEPT ![t] = 0]
  /\ Goto(t, "find")
  /\ UNCHANGED <<shared, arena_, call, hash, index, new_table, answers, order>>

\* or has begun and ended, meanwhile:
CheckCapacity(t) ==
  /\ pc[t] = "check_capacity"
  /\ capacity' = [capacity EXCEPT ![t] = 0]
  /\ Goto(t, IF capacity_ = capacity[t] THEN "find" ELSE "retry")
  /\ UNCHANGED <<shared, arena_, call, hash, index, new_table, answers, order>>

ReleaseMutex(t) ==
  /\ arena_' = [arena_ EXCEPT ![GetMutex(hash[t])] = None]
  /\ unlocked' = [unlocked EXCEPT ![GetMutex(hash[t])] = view[t]]
  /\ hash' = [hash EXCEPT ![t] = 0]

\* Mutant of Retry: the mutex is not released.
RetryLocked(t) ==
  /\ pc[t] = "retry"
  /\ capacity' = [capacity EXCEPT ![t] = 0]
  /\ hash' = [hash EXCEPT ![t] = 0]
  /\ Goto(t, "spin")
  /\ UNCHANGED <<shared, arena_, call, index, new_table, answers, order>>

\* if so, it starts over.
Retry(t) ==
  /\ pc[t] = "retry"
  /\ ReleaseMutex(t)
  /\ capacity' = [capacity EXCEPT ![t] = 0]
  /\ Goto(t, "spin")
  /\ UNCHANGED <<shared, call, index, new_table, answers, view, released>>

-----------------------------------------------------------------------------
\* The bucket is searched: there may be nothing more to do than to answer.
Find(t) ==
  LET found == arg[t] \in table_[hash[t]]
  IN
  /\ pc[t] = "find"
  /\ IF \/ op[t] = "Add" /\ ~found
        \/ op[t] = "Remove" /\ found
       THEN Goto(t, "change") /\ UNCHANGED answer
       ELSE Goto(t, "unlock") /\ Settle(t, op[t] = "Contains" /\ found)
  /\ UNCHANGED <<shared, arena_, call, locals, seen, order>>

\* push_back()
Push(t) ==
  /\ pc[t] = "change"
  /\ op[t] = "Add"
  /\ table_' = [table_ EXCEPT ![hash[t]] = @ \cup {arg[t]}]
  /\ Settle(t, TRUE)
  /\ Observe(arg[t], TRUE)
  /\ Goto(t, "count")
  /\ UNCHANGED <<capacity_, resizing_, set_size_, arena_, call, locals, order>>

PushThrows(t) ==
  /\ "bad_alloc" \in Failures
  /\ pc[t] = "change"
  /\ op[t] = "Add"
  /\ Goto(t, "unlock")
  /\ UNCHANGED <<shared, arena_, call, locals, answers, order>>

\* erase()
Erase(t) ==
  /\ pc[t] = "change"
  /\ op[t] = "Remove"
  /\ table_' = [table_ EXCEPT ![hash[t]] = @ \ {arg[t]}]
  /\ Settle(t, TRUE)
  /\ Observe(arg[t], FALSE)
  /\ Goto(t, "count")
  /\ UNCHANGED <<capacity_, resizing_, set_size_, arena_, call, locals, order>>

\* Mutant of Count: the counter only counts down.
CountDown(t) ==
  /\ pc[t] = "count"
  /\ set_size_' = set_size_ - 1
  /\ Goto(t, "unlock")
  /\ UNCHANGED <<table_, capacity_, resizing_, arena_, call, locals, answers, order>>

Count(t) ==
  /\ pc[t] = "count"
  /\ set_size_' = IF op[t] = "Add" THEN set_size_ + 1 ELSE set_size_ - 1
  /\ Goto(t, "unlock")
  /\ UNCHANGED <<table_, capacity_, resizing_, arena_, call, locals, answers, order>>

\* The mutex is released, on return or while an exception unwinds; an Add()
\* that added something goes on to see whether the table is too small.
Unlock(t) ==
  /\ pc[t] = "unlock"
  /\ ReleaseMutex(t)
  /\ Goto(t, IF op[t] = "Add" /\ answer[t] = {TRUE} THEN "policy" ELSE "done")
  /\ UNCHANGED <<shared, call, capacity, index, new_table, answers, view, released>>

-----------------------------------------------------------------------------
\* Policy() outside any lock: one atomic is read after the other.
PolicyCapacity(t) ==
  /\ pc[t] = "policy"
  /\ capacity' = [capacity EXCEPT ![t] = capacity_]
  /\ Goto(t, "compare")
  /\ UNCHANGED <<shared, arena_, call, hash, index, new_table, answers, order>>

Compare(t) ==
  /\ pc[t] = "compare"
  /\ capacity' = [capacity EXCEPT ![t] = 0]
  /\ Goto(t, IF TooSmall(capacity[t], set_size_) THEN "exchange" ELSE "done")
  /\ UNCHANGED <<shared, arena_, call, hash, index, new_table, answers, order>>

\* resizing_.exchange(true): a thread that finds it true leaves the resize to
\* the one that is at it.
Exchange(t) ==
  /\ pc[t] = "exchange"
  /\ resizing_' = TRUE
  /\ Acquire(t, "resizing_")
  /\ released' = [released EXCEPT !["resizing_"] = view'[t]]
  /\ Goto(t, IF resizing_ THEN "done" ELSE "resize")
  /\ UNCHANGED <<table_, capacity_, set_size_, arena_, call, locals, answers,
                 unlocked>>

\* Policy() is no longer true: a relaxed store ends what was not begun.
NoResize(t) ==
  /\ pc[t] = "resize"
  /\ ~TooSmall(capacity_, set_size_)
  /\ resizing_' = FALSE
  /\ released' = [released EXCEPT !["resizing_"] = 0]
  /\ Goto(t, "done")
  /\ UNCHANGED <<table_, capacity_, set_size_, arena_, call, locals, answers,
                 view, unlocked>>

BeginResize(t) ==
  /\ pc[t] = "resize"
  /\ TooSmall(capacity_, set_size_)
  /\ capacity' = [capacity EXCEPT ![t] = capacity_]
  /\ Goto(t, "quiesce")
  /\ UNCHANGED <<shared, arena_, call, hash, index, new_table, answers, order>>

\* Quiesce() takes one mutex after the other and releases it at once.
Quiesce(t) ==
  /\ pc[t] = "quiesce"
  /\ arena_[GetMutex(index[t])] = None
  /\ Synchronise(t, unlocked[GetMutex(index[t])])
  /\ unlocked' = [unlocked EXCEPT ![GetMutex(index[t])] = view'[t]]
  /\ IF index[t] = capacity[t] - 1
       THEN Goto(t, "enlarge") /\ index' = [index EXCEPT ![t] = 0]
       ELSE index' = [index EXCEPT ![t] = @ + 1] /\ UNCHANGED pc
  /\ UNCHANGED <<shared, arena_, call, hash, capacity, new_table, answers, released>>

\* The arena gets its next block, if memory allows,
Enlarge(t) ==
  LET b == BlockIndex(capacity[t])
  IN
  /\ pc[t] = "enlarge"
  /\ arena_' = [m \in DOMAIN arena_ \cup Block(b) |->
                  IF m \in Block(b) THEN EnlargeMutexArena(b)[m] ELSE arena_[m]]
  /\ unlocked' = [m \in DOMAIN arena_ \cup Block(b) |->
                    IF m \in Block(b) THEN 0 ELSE unlocked[m]]
  /\ Goto(t, "rehash")
  /\ UNCHANGED <<shared, call, locals, answers, view, released>>

\* the elements are moved into a table of twice the capacity,
Rehash(t) ==
  /\ pc[t] = "rehash"
  /\ new_table' = [new_table EXCEPT ![t] = Rehashed(table_, 2 * capacity[t])]
  /\ Goto(t, "publish")
  /\ UNCHANGED <<shared, arena_, call, hash, capacity, index, answers, order>>

\* (an exception leaves Resize() with resizing_ and the table as they are)
ResizeThrows(t) ==
  /\ "bad_alloc" \in Failures
  /\ pc[t] \in {"enlarge", "rehash"}
  /\ capacity' = [capacity EXCEPT ![t] = 0]
  /\ Goto(t, "done")
  /\ UNCHANGED <<shared, arena_, call, hash, index, new_table, answers, order>>

\* the new capacity is stored, before
Publish(t) ==
  /\ pc[t] = "publish"
  /\ capacity_' = 2 * capacity[t]
  /\ capacity' = [capacity EXCEPT ![t] = 0]
  /\ Release(t, "capacity_")
  /\ Goto(t, "move")
  /\ UNCHANGED <<table_, resizing_, set_size_, arena_, call, hash, index,
                 new_table, answers, view, unlocked>>

\* the table is replaced
Move(t) ==
  /\ pc[t] = "move"
  /\ table_' = new_table[t]
  /\ new_table' = [new_table EXCEPT ![t] = EmptyTable(0)]
  /\ view' = [view EXCEPT ![t] = capacity_]
  /\ Goto(t, "end")
  /\ UNCHANGED <<capacity_, resizing_, set_size_, arena_, call, hash, capacity,
                 index, answers, released, unlocked>>

\* and the resize is over.
EndResize(t) ==
  /\ pc[t] = "end"
  /\ resizing_' = FALSE
  /\ Release(t, "resizing_")
  /\ Goto(t, "done")
  /\ UNCHANGED <<table_, capacity_, set_size_, arena_, call, locals, answers,
                 view, unlocked>>

\* The call returns or throws.
Return(t) ==
  /\ pc[t] = "done"
  /\ op' = [op EXCEPT ![t] = "none"]
  /\ arg' = [arg EXCEPT ![t] = None]
  /\ answer' = [answer EXCEPT ![t] = {}]
  /\ seen' = [seen EXCEPT ![t] = {}]
  /\ Goto(t, "idle")
  /\ UNCHANGED <<shared, arena_, locals, order>>

ScopedLock(t) ==
  \/ Spin(t)
  \/ LoadCapacity(t)
  \/ Lock(t)
  \/ CheckResizing(t)
  \/ CheckCapacity(t)
  \/ Retry(t)

TryResize(t) ==
  \/ PolicyCapacity(t)
  \/ Compare(t)
  \/ Exchange(t)
  \/ NoResize(t)
  \/ BeginResize(t)
  \/ Quiesce(t)
  \/ Enlarge(t)
  \/ Rehash(t)
  \/ ResizeThrows(t)
  \/ Publish(t)
  \/ Move(t)
  \/ EndResize(t)

Step(t) ==
  \/ ScopedLock(t)
  \/ Find(t)
  \/ Push(t)
  \/ PushThrows(t)
  \/ Erase(t)
  \/ Count(t)
  \/ Unlock(t)
  \/ TryResize(t)
  \/ Return(t)

Next ==
  \E t \in Thread : (\E o \in Operation, e \in Elem : Call(t, o, e)) \/ Step(t)

Spec == Init /\ [][Next]_vars

\* Every thread keeps running; a mutex that is contended may pass it by.
FairSpec == Spec /\ \A t \in Thread : WF_vars(Step(t))

-----------------------------------------------------------------------------
Label == {"idle", "spin", "hash", "lock", "check_resizing", "check_capacity",
          "retry", "find", "change", "count", "unlock", "policy", "compare",
          "exchange", "resize", "quiesce", "enlarge", "rehash", "publish",
          "move", "end", "done"}

\* Every variable has its type.
TypeOK ==
  /\ capacity_ \in Nat \ {0}
  /\ table_ \in Table(capacity_) \cup Table(capacity_ \div 2)
  /\ resizing_ \in BOOLEAN
  /\ set_size_ \in Nat
  /\ arena_ \in [DOMAIN arena_ -> Thread \cup {None}]
  /\ released \in [{"resizing_", "capacity_"} -> Nat]
  /\ unlocked \in [DOMAIN arena_ -> Nat]
  /\ pc \in [Thread -> Label]
  /\ op \in [Thread -> Operation \cup {"none"}]
  /\ arg \in [Thread -> Elem \cup {None}]
  /\ hash \in [Thread -> Nat]
  /\ capacity \in [Thread -> Nat]
  /\ index \in [Thread -> Nat]
  /\ view \in [Thread -> Nat]
  /\ new_table \in [Thread -> Table(0) \cup Table(capacity_) \cup Table(2 * capacity_)]
  /\ answer \in [Thread -> SUBSET BOOLEAN]
  /\ seen \in [Thread -> SUBSET BOOLEAN]

Counting(o) == Cardinality({t \in Thread : pc[t] = "count" /\ op[t] = o})

\* Size() differs from the number of elements only by the threads that have
\* changed a bucket and not yet counted it: no resize loses an element or adds
\* one, and no change is made to a table that has been replaced.
SizeAgrees ==
  set_size_ + Counting("Add") = Cardinality(Set) + Counting("Remove")

\* Each bucket has a mutex of its own at every capacity: the block it is in is
\* allocated, its offset falls inside the block, and no two share one.
ArenaCoversTheTable ==
  /\ \A i \in 0 .. capacity_ - 1 : GetMutex(i) \in DOMAIN arena_
  /\ \A i, j \in 0 .. capacity_ - 1 : GetMutex(i) = GetMutex(j) => i = j

\* The places where table_ is read or written under a bucket's mutex.
InTheTable == {"find", "change"}

\* A thread that has got past the checks holds the mutex of the bucket its
\* element is in now, and what it found there stays true until it acts on it,
\* although resizing_ and capacity_ can change right after it has read them.
FindStillHolds ==
  \A t \in Thread :
    pc[t] \in InTheTable =>
      /\ DOMAIN table_ = 0 .. capacity_ - 1
      /\ hash[t] = BucketIndex(arg[t], capacity_)
      /\ arena_[GetMutex(hash[t])] = t
      /\ pc[t] = "change" => (arg[t] \in table_[hash[t]] <=> op[t] = "Remove")

\* The places of the thread that has raised resizing_, and those of them after
\* it has waited for every mutex.
Rehashing == {"enlarge", "rehash", "publish", "move", "end"}
Resizing == {"resize", "quiesce"} \cup Rehashing

\* Once Quiesce() has gone through all mutexes, the one thread that resizes has
\* the table to itself until it lowers resizing_, though it holds no mutex.
ResizeAlone ==
  \A t \in Thread :
    pc[t] \in Rehashing =>
      /\ resizing_
      /\ \A u \in Thread \ {t} : pc[u] \notin InTheTable \cup Resizing

\* What the comment at EndResize says of the release store (line 180): who gets
\* past the spinning has the write to table_ happen before its own access.
TableWriteIsSeen ==
  \A t \in Thread :
    pc[t] \in InTheTable \cup {"rehash"} => view[t] = Cardinality(DOMAIN table_)

\* Every spinning ends (line 181): resizing_ is lowered by whoever raised it.
ResizingEnds == resizing_ ~> ~resizing_

\* Every resize comes to an end, with success or not: Quiesce() never waits for a
\* thread that waits for it.
ResizeEnds == \A t \in Thread : pc[t] \in Resizing ~> pc[t] \notin Resizing

\* resizing_ is raised and nobody is there to lower it.
Abandoned == resizing_ /\ \A t \in Thread : pc[t] \notin Resizing

\* Whoever spins or waits for a mutex, some call completes, unless an exception
\* has cut a resize short.
DeadlockFree ==
  (\E t \in Thread : op[t] # "none") ~> (\E t \in Thread : pc[t] = "done") \/ Abandoned

\* The set is one of elements whose operations take effect at one moment.
Base == INSTANCE HashSetBase WITH MayThrow <- Failures # {}, set <- Set

IsASet == Base!Spec
=============================================================================
