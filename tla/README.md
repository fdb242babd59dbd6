# A TLA+ model of concurrent-hash-sets

The repository is a header-only C++23 library of five hash sets behind one
interface (`src/src/HashSetBase.h`), and a benchmark. The sets differ in how
threads keep out of each other's way: not at all, one mutex, a mutex per stripe,
a mutex per bucket in an arena that grows, and no mutex but a lock-free
split-ordered list with epoch-based reclamation. This directory models all five,
and the benchmark's driver, checks the models with TLC on small instances and
proves with TLAPS, for instances of any size, that the sets, their keys, the list, the
reclaimer, the participant lookup and the driver do what they are checked for; only
liveness is left to TLC alone.

File names below are relative to `src/src/`.

## The system

| component | state | operations | hard about it |
|---|---|---|---|
| Reclaimer, `EpochReclaimer.h` | the global `epoch_`, `advancing_`; per thread a `Participant`: announcement, three bags with labels, `retires` | `Guard` (`Enter`, `Leave`), `Retire`, `TryAdvance`, destructor | announcements are plain stores made visible by `membarrier()`; threads that read an epoch and stop; a barrier that fails |
| Participant lookup, `EpochReclaimer.h` | `thread_local cache_`, reclaimer ids, the list `participants_` | `Self`, `Adopt`, construction, destruction | addresses that are used again by threads and by participants; racing pushes |
| List, `BucketList.h`, `MarkableReference.h` | nodes with a key, an element, and a next pointer with a mark | `Add`, `Remove`, `Contains`, `SentinelFor`, `Find`, `Destroy` | every interleaving of loads and compare-and-swaps; unlinking and retiring exactly once; memory used again |
| Keys, `BucketList.h`, `HashSetLockFree.h` | none | `ReverseBits`, `MakeOrdinaryKey`, `MakeSentinelKey`, `GetParentIndex` | bit arithmetic |
| Lock-free set, `HashSetLockFree.h` | `buckets_`, `capacity_`, `set_size_`, a list and a reclaimer | the interface; `GetBucketList`, `InitializeBucket`, `ResizeIfNecessary` | stale capacities, racing initializations, counters that lag behind |
| Refinable set, `HashSetRefinable.h` | `table_`, `capacity_`, `resizing_`, `arena_`, `set_size_` | the interface; `RefinableScopedLock`, `Resize`, `Quiesce` | a resize that holds no mutex; memory orders; exceptions |
| Striped set, `HashSetStriped.h`; coarse-grained set, `HashSetCoarseGrained.h` | `table_`, the mutexes, `capacity_`, `set_size_` | the interface; `Policy` outside and inside the locks, `Resize` | the order of locks; a check that is repeated |
| Sequential set, `HashSetSequential.h` | `table_`, `set_size_` | the interface | load factor at capacities 0 and 1 |
| Driver, `benchmarks.cc`; attachment to libcds, `HashSetLibcds.h` | the set under test, the counts of a run; the collector, per thread the depth of `LibcdsGuard`s | `SetUpRun`, `RunScenario`, `CheckRun`, `main` | globals that outlive a run; windows of keys; a main thread that is in a guard of its own |

Who calls whom: a call on the lock-free set opens a `Guard` of its reclaimer,
finds a bucket's sentinel (which may add nodes to the list) and calls the list;
the list retires what it unlinks through the `Guard`; the `Guard` gets its
participant through the thread's cache. The other sets stand alone. Threads meet
only in shared memory: there are no messages, nothing is persisted, and there is
no scheduler, timer or callback.

What makes each part correct: that an operation takes effect at one moment of its
call and answers accordingly (all sets), that memory is not freed under a reader,
not freed twice and not lost (list, reclaimer), that `Size()` is the number of
elements once all calls have returned (all sets), that a resize loses nothing
and happens when it is needed (all sets), and that some call always completes.

Not modelled: what is behind `HashSetTbb.h` and the set of `HashSetLibcds.h`, which
hand each call to one call of a container that is not in the repository (the
driver's set under test is a linearizable set, whichever it is); Google
Benchmark's registration and timing in `benchmarks.cc`; `PaddedMutex.h` beyond its
being a mutex; the build files, scripts and figures.

## The modules

| module | models | composed with |
|---|---|---|
| `HashSetBase` | the abstract specification of a set: successful changes take effect in one step, `TakeEffect`, and other answers were right at some moment of the call (`seen`) | implemented by the four concurrent modules below through `Base == INSTANCE HashSetBase`, property `IsASet`; the set under test of `Benchmark` |
| `Reclamation` | the abstract specification of the reclaimer: what is unlinked and retired is deleted once, and not before those who could have found it have left, with two exceptions that it names | implemented by `EpochReclaimer`, property `KeepsThePromise` |
| `EpochReclaimer` | one action per load, store, compare-and-swap and barrier of the reclaimer | nodes are linked and unlinked by an abstract structure (`Link`, `Unlink`) |
| `ParticipantCache` | `Self()` and `Adopt()` | gives `EpochReclaimer` its one participant per thread |
| `BucketList` | one action per access of a shared pointer | the promise of the reclaimer: a retired node is freed once all who were in a `Guard` when it was unlinked have left (`readers`, `Reclaim`); `linked`, `seen` and `lost` are history variables |
| `SplitOrder` | the key arithmetic on words of any number of whole bytes; a word is the set of the positions of its ones | gives `HashSetLockFree`, which extends it, its keys and parents |
| `HashSetLockFree` | one action per access of `buckets_`, `capacity_`, `set_size_` | an operation of the list takes effect in a step, as `BucketList` is proved to do (`ListIsASet`); it finds only what comes after the sentinel it starts from |
| `HashTable` | the table of buckets and its arithmetic, shared by the next three; its load factor also by `HashSetLockFree` | |
| `HashSetSequential` | each call is one step | |
| `HashSetStriped` | one action per access of shared state; `mutexes` is the initial capacity or 1, the coarse-grained set | |
| `HashSetRefinable` | the same, with history variables for happens-before | |
| `Benchmark` | the driver run after run, a step per call on the set, and `LibcdsGuard` | a set that is `HashSetBase`; `MCBenchmark` also holds the driver's own table of scenarios, whose arithmetic TLC evaluates as an assumption |
| `EpochReclaimerProofs`, `ParticipantCacheProofs`, `BucketListProofs`, `HashSetStripedProofs`, `HashSetRefinableProofs`, `HashSetLockFreeProofs` | the proofs about the module each is named for | `HashTableProofs` has the lemmas on tables that three of the sets share, and those on remainders and powers of two that all five and the driver use |
| `SequentialAndBenchmarkProofs` | the proofs about `HashSetSequential` and about `Benchmark`, which have nothing to do with one another but that both are short | it extends both, which is why the specification of `HashSetSequential` has names of its own (`SequentialSpec`) |
| `MC...` | the instances TLC checks | |

Names follow the code: `capacity_` is the member, `capacity` the local of that
name, `Find`, `Retire` and so on the functions. Each module has a variable `pc`
for the place every thread is at, and groups its actions as the code groups its
lines (`TryAdvance(p)`, `Resize`, `TryResize(t)` ...). A definition whose comment
begins with "Mutant of" is a plausible bug; no specification uses it. It is there
to be put in the place of the definition it names, to see that a property
notices.

Abstractions. Elements are model values with given hashes. A bucket is a set: the
order in its vector is not visible. Memory orders are sequentially consistent
except where the code leans on more: the announcement of a `Guard` goes through a
store buffer in `EpochReclaimer`, and the acquire and release operations on
`resizing_`, `capacity_` and the mutexes are tracked in `HashSetRefinable`
(`view`, `released`, `unlocked`). The store buffer is drained by `Drain` at any
time and by `Membarrier`, never by a thread's own instructions, which is weaker
than x86 where a compare-and-swap does; what holds here holds there.

Exceptions are modelled where the code can throw, each enabled by a member of
`Failures`: `new` (a list node), `bad_alloc` (a vector or a block of mutexes),
`membarrier`. In a `Resize()` that throws after it has moved some elements, the
models keep the old table as it was. That is true of elements that moving leaves
as they are, such as the integers the benchmark uses. A set of strings would lose
the ones already moved; this is stated as a hazard, not modelled.

## The runs

All runs have two threads except where said; with more, the state spaces outgrow a few
minutes. Two are enough for one thread to be anywhere in an operation while the
other goes through any number of whole operations.

| run | instance | states | what it shows |
|---|---|---|---|
| `epoch` | 3 nodes, `kRetiresPerAdvance` 1, buffers of 1 store, `push_back` and `membarrier` may fail | 796k | an open `Guard` holds the epoch back (`PinnedEpoch`); three bags are enough (`NothingLeftToRelabel`); nodes are owned once (`OwnedOnce`); all a user sees is what `Reclamation` allows (`KeepsThePromise`); expired garbage is let go of; `advancing_` is released on all paths |
| `epoch_stale_announcement` | 4 nodes, no failures | | `NoUseAfterFree` is violated, see below |
| `cache` | 2 threads at 2 addresses, 3 reclaimers, a cache of 2, 4 participants, `new` may fail | 78k | each `Guard` has the right participant; no cache entry is stale; no push is lost |
| `list_safety` | 2 elements with one hash, 2 sentinels, memory for 3 more nodes, failing `new` and `membarrier` | 1.4M | sorted, linearizable, each node owned once and only one kind of leak, no pointer into freed memory, one sentinel per bucket, marked pointers frozen |
| `list_lock_freedom` | memory for 2 more nodes, failing `new` and `membarrier` | 865k | some operation always completes |
| `sequential` | elements 0 to 6, initial capacity 0, failing resizes | 640 | `Size()` is exact, one doubling is enough |
| `striped` | 3 elements, 2 buckets that grow to 4, 1 or 2 mutexes, `bad_alloc` | 603k | linearizable, no two threads in one bucket (`BucketsApart`), no deadlock, doubled only when outgrown, `Size()` exact but for changes under way |
| `refinable` | 2 elements, 2 buckets that grow to 4, `bad_alloc` | 385k | linearizable; what is found under a bucket's mutex stays true; the resize is alone; each bucket has its mutex; `Size()` exact but for changes under way; resizes end |
| `refinable_memory_order` | 3 threads | | `TableWriteIsSeen` is violated |
| `refinable_resize_failure` | as `refinable` | | `ResizingEnds` is violated |
| `lock_free` | 2 elements in one bucket of 2 and apart in 4, capacities 2 to 8, `SizeLimit` 8, failing `new` and `membarrier` | 432k | linearizable whatever capacity a thread has read; buckets are published in order; the counter is exact modulo its width; keys are right for every word of 16 bits at capacities to 16 |
| `benchmark` | 1 or 2 threads, four scenarios of 2 to 4 keys, one per way of choosing keys, runs one after the other in any order | 1.2M | the check of a run never fails (`CheckNeverFails`); threads that have keys of their own never meet (`WindowsApart`); whoever uses the libcds collector is attached to it (`AttachedWhileUsed`) |

Why the bounds are enough for the interesting cases to happen:

- `EpochReclaimer`: each node is used once, which bounds the epoch. With one
  retire per `TryAdvance`, two nodes let the epoch pass the two steps after which
  a bag expires, and the third is held meanwhile. A late announcement that does
  harm takes a fourth (`epoch_stale_announcement`). The theorems need no such
  bound.
- `ParticipantCache`: the third reclaimer falls on the cache entry of the first
  (1 and 3 modulo 2), and 4 participants are fewer than 3 reclaimers with 2
  threads could use, so that they are freed and allocated again.
- `BucketList`: two elements with the same key meet the case of equal hashes;
  three nodes hold both elements and a sentinel, or have one element removed,
  still read, and added again.
- `HashSetLockFree`: a counter modulo 8 wraps around below zero as the real one
  does, which also brings the set to capacity 8 with two elements. Larger words
  than 16 bits differ only in how many bytes are swapped.
- `HashSetRefinable` and `HashSetStriped`: the table grows once, from 2 buckets
  to 4. A second resize would start from the same kind of state as the first; the
  theorems have no such bound.
- `Benchmark`: two steps prepared and up to three taken go round once. The counts of
  one run and the next are of different size, so that a count left over shows.

`CHECK_DEADLOCK FALSE` stands in `refinable` and `refinable_resize_failure`: after
a resize that failed all threads spin (`Spin` waits for `resizing_` to be false),
which is the finding below. `DeadlockFree` of that module excludes just that
(`Abandoned`).

Two failures do what the code's comments do not speak of, and the models say so
rather than leave them out. When `Retire()` throws out of `Find()`, the node that
`Add()` or `SentinelFor()` has allocated but not linked in is leaked: `BucketList`
keeps such nodes in `lost`, and `OneOwner` says that no other node is. When
`push_back()` in `Retire()` throws, `owned` deletes the node at once, under whoever
reads it: that is `RetireThrows` in `Reclamation`.

`KeysAreSplitOrdered` is about a set in which no bucket but the first has been
initialized and no call is under way: no step changes a key, and to look at every
word of two bytes in every state would take days.

### Fairness

The code has no scheduler of its own; threads are scheduled by the operating
system.

- `EpochReclaimer!FairSpec`: the processor drains each thread's store buffer, and
  each thread goes on opening and leaving guards, retiring what it unlinked and
  advancing. Whether it links or unlinks anything is left to it. That a thread
  goes on opening guards is what the comment at `CollectGarbage` is about
  (`EpochReclaimer.h:152`): a thread that stops retiring, not one that stops.
- `BucketList!NonBlockingSpec`: some thread that is in an operation takes a step,
  no thread in particular. This is what lock-freedom means.
- `HashSetStriped!FairSpec`, `HashSetRefinable!FairSpec`: each thread takes a step
  if it can all the time. A mutex is not fair, so a waiting thread may be passed
  by for ever, and the properties say only that some call completes or that a
  resize ends.

### What the code does not keep

1. `epoch_stale_announcement`. `Guard` loads `epoch_` and announces the value
   later (`EpochReclaimer.h:59`) without looking again. If the epoch moves on by two
   in between, what this `Guard` retires has a label that has expired already, and
   the thread's next `Enter()` frees it under any reader. `KeepsThePromise` says that
   nothing else goes wrong, but for a `push_back()` that throws.
2. `refinable_memory_order`. A resize that is not needed gives `resizing_` back
   with a relaxed store (`HashSetRefinable.h:159`), so a thread that reads that
   store has not synchronised with the last write of `table_`: a data race in
   C++, though not one that x86 shows.
3. `refinable_resize_failure`. An exception between raising and lowering
   `resizing_` (`HashSetRefinable.h:166-172`) leaves every later call spinning.

More that a reader may stumble on, none of it a violation of what a check here can
hold against the code:

- `set_size_` of the lock-free set can pass below zero for a moment, when a
  `Remove()` is counted before the `Add()` it undoes; `Size()` then returns a number
  near 2^64 and an `Add()` at that moment may double the capacity early.
- A `Remove()` that throws after it has taken its element out leaves it counted
  (`uncounted` in `SizeAgrees`).
- A `Retire()` that throws out of `Find()` leaks a node, as said above.
- `Contains()` is called wait-free (`BucketList.h:125`). With three elements of one
  hash and endless fresh memory, two of them removed and added again and again
  can stay ahead of it: nodes of one hash are linked in behind one another. No
  finite instance shows this.
- A `Resize()` that throws has moved some elements out of the old table, as said
  under abstractions.

## The proofs

All theorems hold for any number of threads, nodes, elements and so on; what they
take for granted are the modules' `ASSUME`s, each named, of which TLC evaluates
the instances.

### The reclaimer

`EpochReclaimerProofs`, for any `kRetiresPerAdvance`,
any depth of store buffers and all failures:

| theorem | property | inductive invariant |
|---|---|---|
| `TypeCorrect` | `TypeOK` | `TypeOK` with what it needs of the announced epochs |
| `EpochIsPinned` | `PinnedEpoch` | `PinInv` |
| `ThreeBagsAreEnough` | `NothingLeftToRelabel` | `BagInv` |
| `NodesAreReclaimedSafely` | `SafeReclaim` | `ReclaimInv` |
| `NodesAreOwnedOnce` | `OwnedOnce` | `OwnerInv` |
| `ReclaimerKeepsThePromise` | `KeepsThePromise` | the ones above |

`PinnedEpoch` is not inductive: a scan under way may or may not still notice a
guard, and that depends on where its thread is and on what is in the store
buffers. `InFlight` says it: whoever read the epoch after a guard announced itself
has its barrier still to run on the guard's thread or, after it, finds that
thread's buffer empty and its participant among those to be scanned. So only an
advance that was past its barrier already gets through, and there is one at most
because `advancing_` is taken; hence the epoch goes up by at most one. For
`SafeReclaim` the label of a bag is compared to the pin of every guard that saw
one of its nodes linked: it is not below, for nodes that are not `suspect`, and
the bag is freed two epochs later, which the pin does not allow. For
`NothingLeftToRelabel` the labels of a thread's bags stay within one of its
announced epoch (`BagWindow`). The refinement maps each step to one of `Reclamation`:
`Enter` deletes what it collects, and only that, and what it collects is out of
reach or was retired in a guard that was late.

### The participant lookup

`ParticipantCacheProofs`, for any cache size, any reuse of addresses and any memory:
`GuardHasItsParticipant` (`RightParticipant`), `CacheStaysFresh` (`CacheIsFresh`),
`NoParticipantIsLost` (`NoneLost`). A list is the least set closed under `next` that
holds its head (`From`), so no induction is needed to walk it. The three properties
need each other: a stale entry of the cache would hand a thread another's
participant, and then two threads would push and search with the same name. The
invariant adds that lists of different reclaimers do not meet, that a participant
being pushed is in none, that a list has at most one per owner, and that a thread
that walks a list has not yet passed its own.

### The sets with locks

`HashTableProofs` has what the three share: an element is in the table if and only
if it is in its bucket, a change of one bucket changes one element, and a rehashed
table holds the same elements, each in its place.

`SequentialAndBenchmarkProofs`, for the sequential set and any initial capacity:
`TypeCorrect` (`TypeOK`: each element is in its bucket), `SizeIsExact` (`SizeAgrees`) and
`OneDoublingIsEnough` (`LoadBounded`). The first two need each other: an element
that is not in its bucket is nowhere in the table, and the size that `Remove()`
counts down is that of a set with an element in it.

`HashSetStripedProofs`, for any initial capacity and with as many mutexes as that or
one: `StripedIsASet` (`IsASet`, the refinement of `HashSetBase`),
`StripesProtectBuckets` (`BucketsApart`), `SearchStaysTrue` (`FindStillHolds`),
`SizeIsTheNumberOfElements` (`SizeAgrees`), `NeverDoubledTwice` (`DoubledOnce`). `Locks`
says which mutexes a thread holds at each place; `Stripes`, that elements which
share a bucket share a mutex. That is kept when the buckets double because a
bucket of the larger table is part of one of the smaller.

`HashSetRefinableProofs`, for any initial capacity:
`RefinableIsASet` (`IsASet`), `QuiesceIsEnough` (`ResizeAlone`), `EveryBucketHasItsMutex`
(`ArenaCoversTheTable`), `SearchStaysTrue` (`FindStillHolds`),
`SizeIsTheNumberOfElements` (`SizeAgrees`).

- The arena is about powers of two, whose laws would be proved by induction. They
  are got by counting (`HashTableProofs`): `2 ^ n` is the number of subsets of `1 .. n`.
- A resize holds no mutex. What makes it safe is `Quiet`: a thread that got past
  both checks holds the mutex of a bucket that `Quiesce()` has yet to come to.
  A thread that takes a mutex `Quiesce()` has gone by finds `resizing_` raised and
  turns back, and one that was past the checks before is waited for. After the
  last mutex nobody is past the checks (`ResizeAlone`).
- A thread that holds a mutex knows its bucket by the capacity it hashed with, and
  the second check makes that the present one (`Hashed`); from there the capacity
  cannot change, as the resize has its mutex still to pass.
- `SizeAgrees` is part of the invariant as `set_size_` must not count below zero.

Of both sets it is also proved that their locks cannot be the reason why nothing
goes on:

- `MutexesAreGivenBack`: outside its bucket (and, in the striped set, outside
  `Resize()`) a thread has no mutex, also when its call ends by an exception.
  `Owned` names the places where it may have one.
- `NoCircularWait`: whoever is waited for by a thread that is waited for itself can
  go on (`LinesAreShort`), and while there are calls some thread in a call can go
  on (`SomeoneCanGo`). In the striped set a thread waits with at most the mutexes
  below the one it waits for, in the refinable one it waits with none.
- `FlagIsAttended`: in the refinable set, if no allocation fails, `resizing_` is up
  only while a thread is there to lower it. With failures that is what run
  `refinable_resize_failure` refutes, and `SomeoneCanGo` excludes just that.

From there to `DeadlockFree`, that calls do complete, it takes fairness, and TLC.

### The list

`BucketListProofs`, for any number of threads, elements and buckets, any keys that are
in the order `KeyAssumption` names, any memory and any failures; what is taken for
granted is the promise of the reclaimer (`Reclaim`):

| theorem | property | needs, of the invariant |
|---|---|---|
| `TypeCorrect` | `TypeOK` | `Locals`: what a thread has at each place |
| `AlwaysSplitOrdered` | `SplitOrdered` | `List` |
| `NothingDangles` | `NoDanglingPointer` | `Passing`, `Guarded`, `Holds` |
| `EachNodeHasOneOwner` | `OneOwner` | `Owners` |
| `MarksFreeze` | `MarkedIsFrozen` | `Holds`, `Fresh`, and `Blank` besides |
| `ListIsASet` | `IsASet` | all of it |

None of these is inductive alone, and the parts of `IInv` lean on one another: a
compare-and-swap is safe because of what its thread has seen (`Searches`), which is
worth something because the nodes it walked over still lead on (`Passing`), which is
so because every compare-and-swap before was safe.

- `linked`, a history variable, is what the successful compare-and-swaps have linked
  in and not unlinked. `List` says that following `next` from the root finds
  just that (`Reachable = linked`), in order, and that no two nodes lead to the same
  one. `Reachable` is the least set that is closed under `next` (`From`), so where
  one would walk the list by induction, a set that is closed will do: `InOneLine`
  says that of two nodes linked in one leads to the other.
- A step writes to memory in one of five ways: to nodes of its thread alone
  (`Quiet`), it marks (`Marks`), unlinks (`Removes`), links in (`Inserts`), or its
  thread leaves its `Guard` (`Leaves`). There is a lemma for each, that it keeps `List` and
  `Passing` and leaves what any other thread can see `Stable`: what was behind a node is
  still behind it, but for what is now unlinked. The rest of the proof is about
  `Stable` and not about the step.
- A thread may be on a node that was unlinked long ago, and follow nodes that were
  unlinked one after the other. `Passing` is why that is safe: each is marked, so its
  pointer is frozen, and what it leads to is linked in or was unlinked after the
  thread entered its `Guard`. So nothing it gets to has been freed.
- `Searches` is what makes `Find()` right: if the node before the cursor is still
  linked in, what is looked for is behind the cursor, or it has been seen to be
  absent. At the compare-and-swap the node before is linked in and unmarked, so
  what it leads to is where the new node goes. `Walks` says the same of `Contains()`,
  which writes nothing: as long as it has not seen its element absent, the one
  unmarked node that holds it is ahead.
- `ListIsASet` has the compare-and-swap of `AddLink` and that of `AttemptMark` be
  `TakeEffect`; every other answer is one the thread has seen to be right, and a step
  of `SentinelFor()`, or one that unlinks, changes nothing that `HashSetBase` knows of.

`NoStepIsInVain` is lock-freedom but for the fairness, which `LockFree` has and TLC
checks: for any finite memory, every step of a call settles its answer, throws or returns
(`Completes`), or unlinks a node that was marked, or takes its thread nearer to its
end and nobody further from theirs (`EveryStepCounts`). Nor do calls and the
reclaimer take anyone further. As a mark is a completion, and the ranks of finitely
many threads do not go down forever, there are finitely many steps between one
completion and the next.

- `Rank` is how much a thread has still to do: what is ahead of it in the list
  (`Left`), and, if the compare-and-swap it is on its way to would fail now, the
  whole of a second search (`Stale`). Only a step that completes or unlinks makes another
  thread stale; a compare-and-swap that fails lowers the rank of its own thread.
- That there is an end to what is ahead needs more than `IInv`: every node that a
  thread may see, unlinked ones included, leads to the tail (`Leads`), so no
  chain of removed nodes goes round (`NoWayBack`).

### The lock-free set

`HashSetLockFreeProofs`, for any capacities the constructor accepts, any parents of
buckets and any exceptions: `LockFreeIsASet` (`IsASet`), `StartsBeforeItsPlace`
(`StartsBefore`), `BucketsArePublishedInOrder` (`PublishedInOrder`),
`SizeIsTheNumberOfElements` (`SizeAgrees`). They rest on the list as this module has
it, whose operations take effect at one moment, which is what `ListIsASet` proves of
the list, and on the keys, which are those the code computes:

- `KeysAreInSplitOrder` (`KeysAreSplitOrdered`), for every word of any number of bytes:
  `ReverseBits` reverses, an element is in its bucket's part of the list at every
  capacity, and a sentinel comes right behind its parent's. `ReverseBits` is followed
  as it goes, fields of 1, 2 and 4 bits and then the bytes. That a mirrored word is
  less is decided by the highest bit in which two words differ, so by the lowest in
  which the indices do, and that is where remainders by powers of two come in.
- `KeysSuitTheList`: no two nodes have the same key unless their hashes are equal
  below the two highest bits, an element's key is never a sentinel's, and the tail's is the
  greatest.
- What holds of all numbers (the laws of powers, that a number is that of its binary
  digits) is proved by taking the least counterexample, which the theorem on
  well-founded orders provides for a set: unlike the library's induction, that
  takes no operator.

- An operation finds its element only behind the sentinel it starts from. So the
  invariant follows the way of a thread through `GetBucketList()`: the buckets it
  has yet to find initialized are each the parent of the next, and the last is its
  element's at the capacity it read (`Trail`). Once it has a sentinel it is that of
  the bucket it asked for (`Initializing`), whichever thread won the race to publish
  it, as every published bucket holds its own (`PublishedInOrder`).
- A capacity once read stays good enough: capacities only grow, buckets are never
  taken back, and the keys are in order at all capacities (`KeysInOrder`).
- A `Double()` compares to a capacity that may be stale, and that is one there may
  be all the same (`Capacities`): what it stores is the next one.
- `SizeAgrees` is a congruence, since `set_size_` does count below zero.

`CallsAreShort` is about what a call does outside the list: it ends within three
times as many steps of its own as an index has bits, and eight, and no other
thread's step makes that more (`StepsLeft`); `GetBucketList()` calls itself no more
often than an index has bits. A parent is less than half of its child (`Halving`), so what is
pushed `n` times is below the capacity divided by `2^n`, and 0 has no parent. With
`NoStepIsInVain` for the operations of the list this is why the set is lock-free.

### The driver

`SequentialAndBenchmarkProofs`, for any scenarios that meet what `BuildSteps` and
`WindowStart` insist on (`Runnable`), any numbers of threads and any runs in any order:

| theorem | property | needs, of the invariant |
|---|---|---|
| `RunsPassTheirCheck` | `CheckNeverFails` | `Balance` |
| `ThreadsKeepToTheirWindows` | `WindowsApart` | `Windows` |
| `ThreadsAreAttached` | `AttachedWhileUsed` | `Attachments` |

The three are independent of one another and rest on `Runs`: a thread has steps,
counts and calls only while it is in the run, and nobody is past the loop before
all have left it.

- `CheckRun` compares counts at the end, when every thread has added its own to the
  totals. `Balance` says that the books balance at every step: the elements
  there, and what was or will be counted as removed, are those the run began with
  and what was or will be counted as added. What is yet to be counted (`Due`)
  includes a call that has taken effect and not returned. A sum over threads would
  be a recursive operator, so it is the size of a set (`Tokens`).
- `Windows` says that a thread's call is about its own window, which no other
  thread's meets (`Alone`), so it sees its element change by its own call only. When
  the keys are taken in order it moreover has not been to its element before
  (`InOrder`, `TakenSteps`), and so none of its `Add()`s is refused.
- `Attachments` counts the guards a thread is in, of `main()` and of a run.

### What is only model-checked

Liveness (`GarbageCollected`, `AdvancingReleased`, `LockFree`, `ResizeEnds`, `DeadlockFree`),
as the prover has no rules for fairness and `ENABLED`. What there is of safety in
`LockFree` and `DeadlockFree` is proved: `NoStepIsInVain`, and for the locks
`NoCircularWait` and what goes with it. Every other property that a run finds true is proved.

## Plan

The order in which the rest is worth doing:

1. `BucketList` composed with `Reclamation` in place of the promise it has built in,
   to see at the level of the list what a late announcement does.
2. Resizes that throw with elements that moving changes.
