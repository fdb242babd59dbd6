-------------------- MODULE SequentialAndBenchmarkProofs --------------------
(***************************************************************************)
(* Proofs about HashSetSequential, for every set of elements, every hash   *)
(* function and every initial capacity, and about Benchmark, for all       *)
(* scenarios that can be run and all numbers of threads.                   *)
(*                                                                         *)
(* In the sequential set, that every element is in its own bucket and that *)
(* Size() counts the elements depend on one another: an element is not in  *)
(* the table when it is not in its bucket, and the size does not go below  *)
(* zero as long as it counts.                                              *)
(*                                                                         *)
(* The driver's invariants rest on where each thread is (Runs): its calls, *)
(* its steps and its counts are only there while it is in the run.  Given  *)
(* that, its attachments (Attachments), its books (Balance) and its        *)
(* windows (Windows) are kept independently of one another.                *)
(***************************************************************************)
EXTENDS HashSetSequential, Benchmark, HashTableProofs, FiniteSetTheorems, TLAPS

-----------------------------------------------------------------------------
\* The inductive invariant.
Counted == TypeOK /\ SizeAgrees

\* TypeOK says so with its conjuncts.
LEMMA TypedInPlace ==
  TypeOK <=> capacity \in Nat \ {0} /\ InPlace(table_, capacity) /\ set_size_ \in Nat
  BY DEF TypeOK, InPlace

\* The elements are finitely many in any table.
LEMMA MembersAreFinite ==
  ASSUME IsFiniteSet(Elem), Counted
  PROVE  IsFiniteSet(Members(table_)) /\ Members(table_) \subseteq Elem
  <1>1. Members(table_) \subseteq Elem
    BY DEF Counted, TypeOK, Members, Table
  <1> QED BY <1>1, FS_Subset

\* A new set is empty.
LEMMA CountedAtFirst ==
  SequentialInit => Counted
  <1> SUFFICES ASSUME SequentialInit PROVE Counted
    OBVIOUS
  <1>1. capacity \in Nat \ {0}
    BY CapacityAssumption DEF SequentialInit
  <1>2. Members(table_) = {} /\ InPlace(table_, capacity)
    BY <1>1 DEF SequentialInit, EmptyTable, Members, InPlace, Table
  <1>3. set_size_ = Cardinality(Members(table_)) /\ set_size_ \in Nat
    BY <1>2, FS_EmptySet DEF SequentialInit
  <1> QED BY <1>1, <1>2, <1>3, TypedInPlace DEF Counted, SizeAgrees

\* What push_back() does to the table and to the number of its elements.
LEMMA PushedIsOneMore ==
  ASSUME IsFiniteSet(Elem), Counted, NEW e \in Elem, e \notin Bucket(e)
  PROVE  /\ InPlace(Pushed(e), capacity)
         /\ set_size_ + 1 = Cardinality(Members(Pushed(e)))
  <1>1. capacity \in Nat \ {0} /\ InPlace(table_, capacity) /\ set_size_ \in Nat
    BY TypedInPlace DEF Counted
  <1>2. e \notin Members(table_)
    BY <1>1, FoundInItsBucket DEF Bucket
  <1>3. /\ Pushed(e) \in Table(capacity)
        /\ e \in Pushed(e)[BucketIndex(e, capacity)]
        /\ \A j \in 0 .. capacity - 1 : Pushed(e)[j] \ {e} = table_[j] \ {e}
        /\ \A j \in 0 .. capacity - 1 : e \in Pushed(e)[j] => j = BucketIndex(e, capacity)
    BY <1>1, BucketIsThere DEF Pushed, InPlace, Table
  <1>4. /\ InPlace(Pushed(e), capacity)
        /\ Members(Pushed(e)) \ {e} = Members(table_) \ {e}
        /\ e \in Members(Pushed(e))
    BY <1>1, <1>3, OneElementChanges
  <1>5. Members(Pushed(e)) = Members(table_) \cup {e}
    BY <1>4
  <1>6. Cardinality(Members(table_) \cup {e}) = Cardinality(Members(table_)) + 1
    BY <1>2, MembersAreFinite, FS_AddElement
  <1> QED BY <1>4, <1>5, <1>6 DEF Counted, SizeAgrees

\* Every call keeps the invariant.
LEMMA CountedStays ==
  ASSUME IsFiniteSet(Elem), Counted, [SequentialNext]_sequential_vars
  PROVE  Counted'
  <1>1. capacity \in Nat \ {0} /\ InPlace(table_, capacity) /\ set_size_ \in Nat
        /\ set_size_ = Cardinality(Members(table_))
    BY TypedInPlace DEF Counted, SizeAgrees
  <1> SUFFICES /\ capacity' \in Nat \ {0}
               /\ InPlace(table_', capacity')
               /\ set_size_' \in Nat
               /\ set_size_' = Cardinality(Members(table_'))
    BY DEF Counted, TypeOK, SizeAgrees, InPlace
  <1>2. ASSUME NEW e \in Elem, Add(e)
        PROVE  /\ capacity' \in Nat \ {0}
               /\ InPlace(table_', capacity')
               /\ set_size_' \in Nat
               /\ set_size_' = Cardinality(Members(table_'))
    <2>1. /\ InPlace(Pushed(e), capacity)
          /\ set_size_' = Cardinality(Members(Pushed(e)))
          /\ set_size_' \in Nat
      BY <1>1, <1>2, PushedIsOneMore DEF Add
    <2>2. CASE capacity' = capacity /\ table_' = Pushed(e)
      BY <1>1, <2>1, <2>2
    <2>3. CASE capacity' = 2 * capacity /\ table_' = Rehashed(Pushed(e), capacity')
      <3>1. capacity' \in Nat \ {0}
        BY <1>1, <2>3
      <3>2. Pushed(e) \in Table(capacity)
        BY <2>1 DEF InPlace
      <3>3. InPlace(table_', capacity') /\ Members(table_') = Members(Pushed(e))
        BY <1>1, <2>3, <3>1, <3>2, RehashedHoldsTheSame
      <3> QED BY <2>1, <3>1, <3>3
    <2> QED BY <1>2, <2>2, <2>3 DEF Add
  <1>3. ASSUME NEW e \in Elem, ResizeThrows(e)
        PROVE  /\ capacity' \in Nat \ {0}
               /\ InPlace(table_', capacity')
               /\ set_size_' \in Nat
               /\ set_size_' = Cardinality(Members(table_'))
    BY <1>1, <1>3, PushedIsOneMore DEF ResizeThrows
  <1>4. ASSUME NEW e \in Elem, Remove(e)
        PROVE  /\ capacity' \in Nat \ {0}
               /\ InPlace(table_', capacity')
               /\ set_size_' \in Nat
               /\ set_size_' = Cardinality(Members(table_'))
    <2>1. e \in Members(table_)
      BY <1>1, <1>4, FoundInItsBucket DEF Remove, Bucket
    <2>2. /\ table_' \in Table(capacity)
          /\ \A j \in 0 .. capacity - 1 : table_'[j] \ {e} = table_[j] \ {e}
          /\ \A j \in 0 .. capacity - 1 : e \notin table_'[j]
      BY <1>1, <1>4, BucketIsThere DEF Remove, InPlace, Table
    <2>3. /\ InPlace(table_', capacity)
          /\ Members(table_') \ {e} = Members(table_) \ {e}
          /\ e \notin Members(table_')
      BY <1>1, <2>2, BucketIsThere, OneElementChanges
    <2>4. Members(table_') = Members(table_) \ {e}
      BY <2>3
    <2>5. /\ Cardinality(Members(table_) \ {e}) = Cardinality(Members(table_)) - 1
          /\ Cardinality(Members(table_) \ {e}) \in Nat
      BY <2>1, MembersAreFinite, FS_RemoveElement, FS_CardinalityType
    <2> QED BY <1>1, <1>4, <2>3, <2>4, <2>5 DEF Remove
  <1>5. CASE Unsuccessful \/ UNCHANGED sequential_vars
    BY <1>1, <1>5 DEF Unsuccessful, sequential_vars
  <1> QED BY <1>2, <1>3, <1>4, <1>5 DEF SequentialNext

\* Every variable has its type and every element is in its own bucket,
\* whatever the hash function and however often the table has grown.
THEOREM TypeCorrect ==
  ASSUME IsFiniteSet(Elem)
  PROVE  SequentialSpec => []TypeOK
  <1>1. Counted /\ [SequentialNext]_sequential_vars => Counted'
    BY CountedStays
  <1>2. Counted => TypeOK
    BY DEF Counted
  <1> QED BY CountedAtFirst, <1>1, <1>2, PTL DEF SequentialSpec

\* Size() is the number of elements after every call, those that end with an
\* exception included (HashSetBase.h:19).
THEOREM SizeIsExact ==
  ASSUME IsFiniteSet(Elem)
  PROVE  SequentialSpec => []SizeAgrees
  <1>1. Counted /\ [SequentialNext]_sequential_vars => Counted'
    BY CountedStays
  <1>2. Counted => SizeAgrees
    BY DEF Counted
  <1> QED BY CountedAtFirst, <1>1, <1>2, PTL DEF SequentialSpec

\* One doubling is enough, at every capacity: an Add() to a table within its
\* load factor leaves it within its load factor (Policy() and Resize()).
THEOREM OneDoublingIsEnough ==
  ASSUME IsFiniteSet(Elem)
  PROVE  SequentialSpec => LoadBounded
  <1>1. Counted /\ [SequentialNext]_sequential_vars => Counted'
    BY CountedStays
  <1>2. Counted /\ [SequentialNext]_sequential_vars
          => [(\E e \in Elem : Add(e)) /\ ~TooSmall(capacity, set_size_)
                => ~TooSmall(capacity, set_size_)']_sequential_vars
    <2> SUFFICES ASSUME Counted, NEW e \in Elem, Add(e), ~TooSmall(capacity, set_size_)
                 PROVE  ~TooSmall(capacity', set_size_')
      BY DEF TooSmall
    <2>1. capacity \in Nat \ {0} /\ set_size_ \in Nat /\ set_size_' = set_size_ + 1
      BY DEF Counted, TypeOK, Add
    <2>2. set_size_ <= (capacity * 3) \div 4
      BY <2>1 DEF TooSmall, kLoadFactorNumerator, kLoadFactorDenominator
    <2>3. CASE capacity' = 2 * capacity
      <3>1. set_size_' <= (capacity' * 3) \div 4
        BY <2>1, <2>2, <2>3
      <3> QED
        BY <2>1, <2>3, <3>1 DEF TooSmall, kLoadFactorNumerator, kLoadFactorDenominator
    <2>4. CASE capacity' = capacity /\ ~TooSmall(capacity, set_size_ + 1)
      BY <2>1, <2>4
    <2> QED BY <2>3, <2>4 DEF Add
  <1> QED BY CountedAtFirst, <1>1, <1>2, PTL DEF SequentialSpec, LoadBounded

-----------------------------------------------------------------------------
\* The driver.  A thread is prepared from the moment it has its guard and its
\* steps until it destroys them, and past the loop when all of them have left it.
Prepared == {"ready", "loop", "stop", "count", "count_removed", "leave"}
PastLoop == {"count", "count_removed", "leave", "finished"}

Typed ==
  /\ main \in {"start", "between", "run", "ended"}
  /\ initial_size_ \in Nat /\ added_ \in Nat /\ removed_ \in Nat
  /\ pc \in [Thread -> {"none", "enter", "finished"} \cup Prepared]
  /\ steps = [t \in Thread |-> steps[t]]
  /\ index \in [Thread -> Nat]
  /\ thread_added \in [Thread -> Nat]
  /\ thread_removed \in [Thread -> Nat]
  /\ op \in [Thread -> {"none", "Add", "Remove", "Contains"}]
  /\ arg = [t \in Thread |-> arg[t]]
  /\ answer \in [Thread -> SUBSET BOOLEAN]
  /\ seen \in [Thread -> SUBSET BOOLEAN]

\* Between runs there are no threads and there is no set.
Between ==
  /\ run = nullptr
  /\ hash_set_under_test_ = nullptr
  /\ \A t \in Thread : pc[t] = "none"

\* What a thread has at its place: counts of zero outside the run, a call in the
\* loop only, and steps while it is prepared.
Placed(t) ==
  /\ pc[t] \in {"none", "enter", "ready", "finished"} =>
       index[t] = 0 /\ thread_added[t] = 0 /\ thread_removed[t] = 0
  /\ op[t] # "none" => pc[t] = "loop"
  /\ op[t] = "none" => answer[t] = {} /\ seen[t] = {}
  /\ pc[t] \in Prepared => steps[t] \in BuildSteps(run.scenario, t, run.threads)

Runs ==
  /\ main = "run" => run \in [scenario : Scenarios, threads : ThreadCounts]
  /\ main # "run" => Between
  /\ \A t \in Thread : Placed(t)
  /\ \A t, u \in Thread : pc[t] \in PastLoop => pc[u] \in PastLoop \cup {"none"}

\* The guards a thread is in: that of main() and, with libcds, that of the run.
OfMain(t) == IF t = Main /\ main \in {"between", "run"} THEN 1 ELSE 0
OfRun(t) == IF hash_set_under_test_ = "libcds" /\ pc[t] \in Prepared THEN 1 ELSE 0

Attachments ==
  /\ depth_ = [t \in Thread |-> OfMain(t) + OfRun(t)]
  /\ attached = {t \in Thread : depth_[t] > 0}
  /\ collector_ = IF main \in {"between", "run"} THEN TRUE ELSE FALSE

\* As many tokens as the numbers of f add up to, without recursion.
Tokens(f) == UNION {{t} \X (1 .. f[t]) : t \in Thread}

\* What a thread has yet to add to added_ or removed_, the call included that
\* has taken effect and not returned.
Held(counted, places, t) == IF pc[t] \in places THEN counted[t] ELSE 0
Done(o, t) == IF op[t] = o /\ answer[t] = {TRUE} THEN 1 ELSE 0

HeldAdded(t) == Held(thread_added, {"loop", "stop", "count"}, t)
HeldRemoved(t) == Held(thread_removed, {"loop", "stop", "count", "count_removed"}, t)

DueAdded == [t \in Thread |-> HeldAdded(t) + Done("Add", t)]
DueRemoved == [t \in Thread |-> HeldRemoved(t) + Done("Remove", t)]

\* The books balance at every step, not only when they are checked.
Balance ==
  /\ check_failed_ = FALSE
  /\ main = "run" =>
       /\ IsFiniteSet(set) /\ IsFiniteSet(Tokens(DueAdded)) /\ IsFiniteSet(Tokens(DueRemoved))
       /\ Cardinality(set) + removed_ + Cardinality(Tokens(DueRemoved))
            = initial_size_ + added_ + Cardinality(Tokens(DueAdded))

OwnWindow(t) ==
  LET start == WindowStart(run.scenario, t, run.threads)
  IN  start .. start + Window(run.scenario, run.threads) - 1

\* With windows of its own, a thread sees its element change by its own call only.
Alone(t) ==
  op[t] # "none" => /\ arg[t] \in OwnWindow(t)
                    /\ answer[t] = {} => seen[t] = {(arg[t] \in set)}

\* In order, a thread's calls have been about the elements of the steps it has
\* taken, and its next one is about an element that is not there.
InOrder(t) ==
  /\ index[t] <= run.scenario.iterations
  /\ op[t] # "none" =>
       /\ index[t] > 0
       /\ arg[t] = WindowStart(run.scenario, t, run.threads) + index[t] - 1
       /\ answer[t] = {} => arg[t] \notin set

NeverRefused(t) == op[t] = "Add" => answer[t] # {FALSE}

TakenSteps ==
  UNION {{WindowStart(run.scenario, t, run.threads) + i : i \in 0 .. index[t] - 1} :
           t \in Thread}

Windows ==
  main = "run" =>
    /\ run.scenario.key_choice \in {"kDisjoint", "kSequential"} => \A t \in Thread : Alone(t)
    /\ run.scenario.key_choice = "kSequential" =>
         /\ \A t \in Thread : InOrder(t) /\ NeverRefused(t)
         /\ (\A t \in Thread : pc[t] \notin PastLoop) => set \subseteq TakenSteps

-----------------------------------------------------------------------------
\* Threads are numbered from that of main().
LEMMA ThreadsAreNumbered ==
  Thread \subseteq Nat /\ Main \in Thread
  <1>1. PICK n \in ThreadCounts : \A m \in ThreadCounts : m <= n
    BY ThreadCountsAssumption
  <1> DEFINE most == CHOOSE k \in ThreadCounts : \A m \in ThreadCounts : m <= k
  <1>2. most \in Nat \ {0}
    BY <1>1, ThreadCountsAssumption
  <1>3. Thread = 0 .. most - 1
    BY DEF Thread
  <1> QED BY <1>2, <1>3 DEF Main

\* A thread prepares at least one step, and windows have a width.
LEMMA SizesAreNumbers ==
  ASSUME NEW s \in Scenarios, NEW n \in ThreadCounts
  PROVE  StepCount(s) \in Nat \ {0} /\ Window(s, n) \in Nat
  <1>1. \A k \in 0 .. 30 : 2 ^ k \in Nat \ {0}
    <2> TAKE k \in 0 .. 30
    <2> QED BY PowerCounts, PowerIsMore
  <1>2. PowersOfTwo \subseteq Nat \ {0}
    BY <1>1 DEF PowersOfTwo
  <1>3. StepCount(s) \in PowersOfTwo
    BY ScenariosAssumption DEF Runnable, StepCount
  <1>4. Window(s, n) \in Nat
    BY ThreadCountsAssumption, NumbersAssumption DEF Window
  <1> QED BY <1>2, <1>3, <1>4

\* The step an iteration takes is one of those prepared (`index & step_mask`).
LEMMA StepIsPrepared ==
  ASSUME NEW s \in Scenarios, NEW n \in ThreadCounts, NEW t \in Thread,
         NEW f \in BuildSteps(s, t, n), NEW i \in Nat
  PROVE  LET step == f[i % StepCount(s)]
         IN  /\ step[1] \in {"Add", "Remove", "Contains"}
             /\ step[2] \in PickElem(s, t, n, i % StepCount(s))
  <1>1. i % StepCount(s) \in 0 .. StepCount(s) - 1
    BY SizesAreNumbers
  <1>2. /\ f \in [0 .. StepCount(s) - 1 -> PickOperation(s.mix) \X Key]
        /\ \A j \in DOMAIN f : f[j][2] \in PickElem(s, t, n, j)
    BY DEF BuildSteps
  <1>3. PickOperation(s.mix) \subseteq {"Add", "Remove", "Contains"}
    BY DEF PickOperation, HashSet!Operation
  <1> QED BY <1>1, <1>2, <1>3

\* Windows of two threads have nothing in common.
LEMMA WindowsAreDisjoint ==
  ASSUME NEW w \in Nat, NEW t \in Nat, NEW u \in Nat, t < u,
         NEW x \in t * w .. t * w + w - 1
  PROVE  x < u * w
  <1> DEFINE d == u - t - 1
  <1>1. d \in Nat /\ u = t + 1 + d
    OBVIOUS
  <1>2. u * w = t * w + w + d * w
    BY <1>1
  <1>3. d * w \in Nat /\ t * w \in Nat
    BY <1>1
  <1> QED BY <1>2, <1>3

-----------------------------------------------------------------------------
\* Where the threads are, what they hold there, and what the set knows of them.
LEMMA TypedAtFirst ==
  Init => Typed
  <1> SUFFICES ASSUME Init PROVE Typed
    OBVIOUS
  <1>1. op = [t \in Thread |-> "none"] /\ arg = [t \in Thread |-> nullptr]
        /\ answer = [t \in Thread |-> {}] /\ seen = [t \in Thread |-> {}]
    BY DEF Init, HashSet!Init
  <1> QED BY <1>1 DEF Init, Typed

LEMMA RunsAtFirst ==
  Init => Runs
  <1> SUFFICES ASSUME Init PROVE Runs
    OBVIOUS
  <1>1. op = [t \in Thread |-> "none"] /\ answer = [t \in Thread |-> {}]
        /\ seen = [t \in Thread |-> {}]
    BY DEF Init, HashSet!Init
  <1> QED BY <1>1 DEF Init, Runs, Between, Placed, Prepared, PastLoop

LEMMA PrefilledIsFinite ==
  ASSUME SetUpRun
  PROVE  IsFiniteSet(set') /\ initial_size_' = Cardinality(set') /\ initial_size_' \in Nat
  <1>1. PICK s \in Scenarios :
          set' = IF s.prefill THEN StartsPresent \cap 0 .. s.keys - 1 ELSE {}
    BY DEF SetUpRun
  <1>2. IsFiniteSet(0 .. s.keys - 1)
    BY NumbersAssumption, FS_Interval
  <1>3. IsFiniteSet(set')
    BY <1>1, <1>2, FS_Intersection, FS_EmptySet
  <1> QED BY <1>3, FS_CardinalityType DEF SetUpRun

\* The type of the variables is kept by every step.
LEMMA TypedStays ==
  ASSUME Typed, Runs, [Next]_vars
  PROVE  Typed'
  <1> USE DEF Typed
  <1>1. CASE Start \/ End
    BY <1>1 DEF Start, End, counts, locals, set_vars
  <1>2. CASE SetUpRun
    BY <1>2, PrefilledIsFinite DEF SetUpRun, Reset, locals
  <1>3. CASE StartLoop \/ StopLoop
    BY <1>3 DEF StartLoop, StopLoop, Barrier, Running, counts, locals, set_vars, Prepared
  <1>4. CASE CheckRun
    BY <1>4 DEF CheckRun, locals
  <1>5. CASE Ended \/ UNCHANGED vars
    BY <1>5 DEF Ended, vars, counts, locals, set_vars
  <1>6. ASSUME NEW t \in Thread, EnterRun(t)
        PROVE  Typed'
    BY <1>6 DEF EnterRun, counts, set_vars, Prepared
  <1>7. ASSUME NEW t \in Thread, CallNext(t)
        PROVE  Typed'
    <2>1. PICK step : step[1] \in {"Add", "Remove", "Contains"} /\ HashSet!Call(t, step[1], step[2])
      <3>1. main = "run" /\ steps[t] \in BuildSteps(run.scenario, t, run.threads)
        BY <1>7 DEF Runs, Between, Placed, Prepared, CallNext
      <3>2. run.scenario \in Scenarios /\ run.threads \in ThreadCounts
        BY <3>1 DEF Runs
      <3> QED BY <1>7, <3>1, <3>2, StepIsPrepared DEF CallNext
    <2> QED BY <1>7, <2>1 DEF CallNext, counts, HashSet!Call
  <1>8. ASSUME NEW t \in Thread, Work(t)
        PROVE  Typed'
    <2>1. CASE HashSet!TakeEffect(t)
      <3>1. answer' \in [Thread -> SUBSET BOOLEAN]
        BY <2>1 DEF HashSet!TakeEffect
      <3>2. seen' \in [Thread -> SUBSET BOOLEAN]
        <4>1. PICK b \in BOOLEAN : seen' = [u \in Thread |-> IF u \in HashSet!Asking(arg[t])
                                                THEN seen[u] \cup {b} ELSE seen[u]]
          <5>1. (arg[t] \in set') \in BOOLEAN
            OBVIOUS
          <5> QED BY <2>1, <5>1, Zenon DEF HashSet!TakeEffect
        <4> QED BY <4>1
      <3> QED BY <1>8, <2>1, <3>1, <3>2 DEF Work, HashSet!TakeEffect, counts, locals
    <2>2. CASE HashSet!Answer(t)
      <3>1. answer' \in [Thread -> SUBSET BOOLEAN]
        <4>1. PICK b \in BOOLEAN : answer' = [answer EXCEPT ![t] = {b}]
          <5>1. CASE answer' = [answer EXCEPT ![t] = {FALSE}]
            BY <5>1
          <5>2. CASE \E b \in seen[t] : answer' = [answer EXCEPT ![t] = {b}]
            BY <5>2
          <5> QED BY <2>2, <5>1, <5>2 DEF HashSet!Answer
        <4> QED BY <4>1
      <3> QED BY <1>8, <2>2, <3>1 DEF Work, HashSet!Answer, counts, locals
    <2> QED BY <1>8, <2>1, <2>2 DEF Work
  <1>9. ASSUME NEW t \in Thread, CountAnswer(t)
        PROVE  Typed'
    <2>1. op' \in [Thread -> {"none", "Add", "Remove", "Contains"}]
          /\ arg' = [u \in Thread |-> arg'[u]]
          /\ answer' \in [Thread -> SUBSET BOOLEAN] /\ seen' \in [Thread -> SUBSET BOOLEAN]
      BY <1>9 DEF CountAnswer, HashSet!Return
    <2>2. /\ thread_added' \in {thread_added, [thread_added EXCEPT ![t] = @ + 1]}
          /\ thread_removed' \in {thread_removed, [thread_removed EXCEPT ![t] = @ + 1]}
      BY <1>9, Zenon DEF CountAnswer
    <2>3. thread_added' \in [Thread -> Nat] /\ thread_removed' \in [Thread -> Nat]
      BY <2>2
    <2> QED BY <1>9, <2>1, <2>3 DEF CountAnswer, counts
  <1>10. ASSUME NEW t \in Thread, LeaveLoop(t) \/ AddCounts(t) \/ LeaveRun(t)
         PROVE  Typed'
    BY <1>10 DEF LeaveLoop, AddCounts, LeaveRun, counts, locals, set_vars, Prepared
  <1> QED
    BY <1>1, <1>2, <1>3, <1>4, <1>5, <1>6, <1>7, <1>8, <1>9, <1>10 DEF Next, RunScenario

\* A call hands the set an operation, and takes one of its steps for it.
LEMMA CallIsPrepared ==
  ASSUME Typed, Runs, NEW t \in Thread, CallNext(t)
  PROVE  /\ main = "run" /\ run.scenario \in Scenarios /\ run.threads \in ThreadCounts
         /\ op[t] = "none"
         /\ \E o \in {"Add", "Remove", "Contains"},
               e \in PickElem(run.scenario, t, run.threads,
                              index[t] % StepCount(run.scenario)) :
              /\ HashSet!Call(t, o, e)
              /\ op' = [op EXCEPT ![t] = o] /\ arg' = [arg EXCEPT ![t] = e]
  <1>1. main = "run" /\ steps[t] \in BuildSteps(run.scenario, t, run.threads)
    BY DEF Runs, Between, Placed, Prepared, CallNext
  <1>2. run.scenario \in Scenarios /\ run.threads \in ThreadCounts
    BY <1>1 DEF Runs
  <1>3. index[t] \in Nat
    BY DEF Typed
  <1> QED
    BY <1>1, <1>2, <1>3, StepIsPrepared DEF CallNext, HashSet!Call

\* Each step leaves every thread with what belongs to its place.
LEMMA RunsStay ==
  ASSUME Typed, Runs, [Next]_vars
  PROVE  Runs'
  <1> USE DEF Typed, Runs, Between, Placed, PastLoop, Prepared
  <1>1. CASE Start \/ End
    BY <1>1 DEF Start, End, counts, locals, set_vars
  <1>2. CASE SetUpRun
    BY <1>2 DEF SetUpRun, locals
  <1>3. CASE StartLoop
    BY <1>3 DEF StartLoop, Barrier, Running, counts, locals, set_vars
  <1>4. CASE StopLoop
    BY <1>4 DEF StopLoop, Barrier, Running, counts, locals, set_vars
  <1>5. CASE CheckRun
    BY <1>5 DEF CheckRun, Running, locals
  <1>6. CASE Ended \/ UNCHANGED vars
    BY <1>6 DEF Ended, vars, counts, locals, set_vars
  <1>7. ASSUME NEW t \in Thread, EnterRun(t)
        PROVE  Runs'
    BY <1>7 DEF EnterRun, counts, set_vars
  <1>8. ASSUME NEW t \in Thread, CallNext(t)
        PROVE  Runs'
    <2>1. PICK o \in {"Add", "Remove", "Contains"},
               e \in PickElem(run.scenario, t, run.threads,
                              index[t] % StepCount(run.scenario)) :
            op' = [op EXCEPT ![t] = o] /\ HashSet!Call(t, o, e)
      BY <1>8, CallIsPrepared
    <2>2. \A u \in Thread : u # t => seen'[u] = seen[u] /\ answer'[u] = answer[u]
      BY <2>1 DEF HashSet!Call
    <2>3. op'[t] # "none" /\ pc[t] = "loop"
      BY <1>8, <2>1 DEF CallNext
    <2>4. \A u \in Thread : Placed(u)'
      BY <1>8, <2>1, <2>2, <2>3 DEF CallNext
    <2> QED BY <1>8, <2>4 DEF CallNext, counts
  <1>9. ASSUME NEW t \in Thread, Work(t)
        PROVE  Runs'
    <2>1. \A u \in Thread : op[u] = "none" => answer'[u] = answer[u] /\ seen'[u] = seen[u]
      <3>1. CASE HashSet!TakeEffect(t)
        <4>1. op[t] # "none"
              /\ \A u \in Thread : u # t => answer'[u] = answer[u]
          BY <3>1 DEF HashSet!TakeEffect
        <4>2. \A u \in Thread : u \notin HashSet!Asking(arg[t]) => seen'[u] = seen[u]
          BY <3>1 DEF HashSet!TakeEffect
        <4> QED BY <4>1, <4>2 DEF HashSet!Asking
      <3>2. CASE HashSet!Answer(t)
        BY <3>2 DEF HashSet!Answer
      <3> QED BY <1>9, <3>1, <3>2 DEF Work
    <2>2. UNCHANGED op
      BY <1>9 DEF Work, HashSet!TakeEffect, HashSet!Answer
    <2>3. \A u \in Thread : Placed(u)'
      BY <1>9, <2>1, <2>2 DEF Work, locals
    <2> QED BY <1>9, <2>3 DEF Work, counts, locals
  <1>10. ASSUME NEW t \in Thread, CountAnswer(t)
        PROVE  Runs'
    BY <1>10 DEF CountAnswer, HashSet!Return, counts
  <1>11. ASSUME NEW t \in Thread, LeaveLoop(t) \/ AddCounts(t) \/ LeaveRun(t)
         PROVE  Runs'
    BY <1>11 DEF LeaveLoop, AddCounts, LeaveRun, counts, locals, set_vars
  <1> QED
    BY <1>1, <1>2, <1>3, <1>4, <1>5, <1>6, <1>7, <1>8, <1>9, <1>10, <1>11
    DEF Next, RunScenario

-----------------------------------------------------------------------------
\* A guard is counted where it is entered and where it is left.
LEMMA AttachmentsAtFirst ==
  Init => Attachments
  <1> SUFFICES ASSUME Init PROVE Attachments
    OBVIOUS
  <1>1. \A t \in Thread : OfMain(t) + OfRun(t) = 0
    BY DEF Init, OfMain, OfRun, Prepared
  <1>2. /\ depth_ = [t \in Thread |-> OfMain(t) + OfRun(t)]
        /\ attached = {t \in Thread : depth_[t] > 0}
    BY <1>1 DEF Init
  <1>3. collector_ = IF main \in {"between", "run"} THEN TRUE ELSE FALSE
    BY DEF Init
  <1> QED BY <1>2, <1>3 DEF Attachments

LEMMA EnteredGuard ==
  ASSUME NEW t \in Thread, Attachments, EnterLibcds(t)
  PROVE  /\ depth_' = [depth_ EXCEPT ![t] = @ + 1]
         /\ attached' = {u \in Thread : depth_'[u] > 0}
  <1>1. depth_ \in [Thread -> Nat]
    BY DEF Attachments, OfMain, OfRun
  <1>2. attached = {u \in Thread : depth_[u] > 0}
    BY DEF Attachments
  <1> QED BY <1>1, <1>2 DEF EnterLibcds

LEMMA LeftGuard ==
  ASSUME NEW t \in Thread, Attachments, LeaveLibcds(t), depth_[t] > 0
  PROVE  /\ depth_' = [depth_ EXCEPT ![t] = @ - 1]
         /\ attached' = {u \in Thread : depth_'[u] > 0}
  <1>1. depth_ \in [Thread -> Nat]
    BY DEF Attachments, OfMain, OfRun
  <1>2. attached = {u \in Thread : depth_[u] > 0}
    BY DEF Attachments
  <1> QED BY <1>1, <1>2 DEF LeaveLibcds, Detached

LEMMA AttachmentsStay ==
  ASSUME Typed, Runs, Attachments, [Next]_vars
  PROVE  Attachments'
  <1> USE DEF Attachments, OfMain, OfRun, Prepared, Runs, Between
  <1>0. Main \in Thread /\ pc \in [Thread -> {"none", "enter", "finished"} \cup Prepared]
    BY ThreadsAreNumbered DEF Typed
  <1>1. CASE Start
    <2>1. /\ depth_' = [depth_ EXCEPT ![Main] = @ + 1]
          /\ attached' = {u \in Thread : depth_'[u] > 0}
      BY <1>0, <1>1, EnteredGuard DEF Start
    <2>2. depth_' = [t \in Thread |-> OfMain(t) + OfRun(t)]'
      BY <1>0, <1>1, <2>1, NullptrAssumption DEF Start
    <2>3. collector_' = IF main' \in {"between", "run"} THEN TRUE ELSE FALSE
      BY <1>1 DEF Start
    <2> QED BY <2>1, <2>2, <2>3
  <1>2. CASE End
    <2>1. /\ depth_' = [depth_ EXCEPT ![Main] = @ - 1]
          /\ attached' = {u \in Thread : depth_'[u] > 0}
      <3>1. depth_[Main] > 0
        BY <1>0, <1>2, NullptrAssumption DEF End
      <3> QED BY <1>0, <1>2, <3>1, LeftGuard DEF End
    <2>2. depth_' = [t \in Thread |-> OfMain(t) + OfRun(t)]'
      BY <1>0, <1>2, <2>1, NullptrAssumption DEF End
    <2>3. collector_' = IF main' \in {"between", "run"} THEN TRUE ELSE FALSE
      BY <1>2 DEF End
    <2> QED BY <2>1, <2>2, <2>3
  <1>3. CASE SetUpRun
    BY <1>0, <1>3, NullptrAssumption DEF SetUpRun, guards
  <1>4. CASE StartLoop \/ StopLoop
    <2>1. UNCHANGED <<main, hash_set_under_test_, depth_, attached, collector_>>
      BY <1>4 DEF StartLoop, StopLoop, Barrier, guards
    <2>2. \A t \in Thread : pc'[t] \in Prepared <=> pc[t] \in Prepared
      BY <1>0, <1>4 DEF StartLoop, StopLoop, Barrier, Running
    <2>3. \A t \in Thread : OfRun(t)' = OfRun(t) /\ OfMain(t)' = OfMain(t)
      BY <2>1, <2>2
    <2> HIDE DEF OfMain, OfRun
    <2> QED BY <2>1, <2>3
  <1>5. CASE CheckRun
    BY <1>0, <1>5, NullptrAssumption DEF CheckRun, Running, guards
  <1>6. CASE Ended \/ UNCHANGED vars
    BY <1>6 DEF Ended, vars, guards
  <1>7. ASSUME NEW t \in Thread, EnterRun(t)
        PROVE  Attachments'
    <2>1. CASE hash_set_under_test_ = "libcds"
      <3>1. /\ depth_' = [depth_ EXCEPT ![t] = @ + 1]
            /\ attached' = {u \in Thread : depth_'[u] > 0}
        BY <1>7, <2>1, EnteredGuard DEF EnterRun
      <3> QED BY <1>0, <1>7, <2>1, <3>1 DEF EnterRun
    <2>2. CASE hash_set_under_test_ # "libcds"
      BY <1>0, <1>7, <2>2 DEF EnterRun
    <2> QED BY <2>1, <2>2
  <1>8. ASSUME NEW t \in Thread, CallNext(t) \/ Work(t) \/ CountAnswer(t)
        PROVE  Attachments'
    BY <1>8 DEF CallNext, Work, CountAnswer, guards
  <1>9. ASSUME NEW t \in Thread, LeaveLoop(t) \/ AddCounts(t)
        PROVE  Attachments'
    BY <1>0, <1>9 DEF LeaveLoop, AddCounts, guards
  <1>10. ASSUME NEW t \in Thread, LeaveRun(t)
         PROVE  Attachments'
    <2>1. CASE hash_set_under_test_ = "libcds"
      <3>1. depth_[t] > 0
        BY <1>10, <2>1 DEF LeaveRun
      <3>2. /\ depth_' = [depth_ EXCEPT ![t] = @ - 1]
            /\ attached' = {u \in Thread : depth_'[u] > 0}
        BY <1>10, <2>1, <3>1, LeftGuard DEF LeaveRun
      <3> QED BY <1>0, <1>10, <2>1, <3>2 DEF LeaveRun
    <2>2. CASE hash_set_under_test_ # "libcds"
      BY <1>0, <1>10, <2>2 DEF LeaveRun
    <2> QED BY <2>1, <2>2
  <1> QED
    BY <1>1, <1>2, <1>3, <1>4, <1>5, <1>6, <1>7, <1>8, <1>9, <1>10 DEF Next, RunScenario

LEMMA UsedWhileAttached ==
  Typed /\ Runs /\ Attachments => AttachedWhileUsed
  <1> SUFFICES ASSUME Typed, Runs, Attachments PROVE AttachedWhileUsed
    OBVIOUS
  <1>1. ASSUME hash_set_under_test_ = "libcds"
        PROVE  main = "run" /\ \A t \in {Main} \cup {t \in Thread : op[t] # "none"} : t \in attached
    <2>1. main = "run"
      BY <1>1, NullptrAssumption DEF Runs, Between
    <2>2. Main \in attached
      BY <2>1, ThreadsAreNumbered DEF Attachments, OfMain, OfRun
    <2>3. ASSUME NEW t \in Thread, op[t] # "none" PROVE t \in attached
      <3>1. pc[t] = "loop"
        BY <2>3 DEF Runs, Placed
      <3>2. depth_[t] > 0
        BY <1>1, <3>1 DEF Attachments, OfMain, OfRun, Prepared
      <3> QED BY <3>2 DEF Attachments
    <2> QED BY <2>1, <2>2, <2>3
  <1>2. ASSUME NEW t \in attached PROVE main \in {"between", "run"}
    <2>1. t \in Thread /\ depth_[t] > 0
      BY <1>2 DEF Attachments
    <2> QED
      BY <2>1, NullptrAssumption DEF Runs, Between, Attachments, OfMain, OfRun
  <1> QED BY <1>1, <1>2 DEF AttachedWhileUsed, Attachments

\* Whatever runs came before, a thread that works on a libcds set is attached
\* to the collector, and so is the main thread until it has destroyed the set.
THEOREM ThreadsAreAttached ==
  Spec => []AttachedWhileUsed
  <1> DEFINE I == Typed /\ Runs /\ Attachments
  <1>1. Init => I
    BY TypedAtFirst, RunsAtFirst, AttachmentsAtFirst
  <1>2. I /\ [Next]_vars => I'
    BY TypedStays, RunsStay, AttachmentsStay
  <1>3. I => AttachedWhileUsed
    BY UsedWhileAttached
  <1> QED BY <1>1, <1>2, <1>3, PTL DEF Spec

-----------------------------------------------------------------------------
\* Counting by tokens: one more, and those of one thread fewer.
LEMMA TokensAre ==
  ASSUME NEW f \in [Thread -> Nat]
  PROVE  /\ \A p \in Tokens(f) : \E u \in Thread : \E i \in 1 .. f[u] : p = <<u, i>>
         /\ \A u, i : <<u, i>> \in Tokens(f) <=> u \in Thread /\ i \in 1 .. f[u]
  <1>1. ASSUME NEW p \in Tokens(f)
        PROVE  \E u \in Thread : \E i \in 1 .. f[u] : p = <<u, i>>
    <2>1. PICK t \in Thread : p \in {t} \X (1 .. f[t])
      BY DEF Tokens
    <2> QED BY <2>1
  <1>2. ASSUME NEW u \in Thread, NEW i \in 1 .. f[u]
        PROVE  <<u, i>> \in Tokens(f)
    <2>1. <<u, i>> \in {u} \X (1 .. f[u])
      OBVIOUS
    <2> QED BY <2>1 DEF Tokens
  <1> QED BY <1>1, <1>2

LEMMA TokensWithin ==
  ASSUME NEW f \in [Thread -> Nat], NEW S,
         \A u \in Thread : \A i \in 1 .. f[u] : <<u, i>> \in S
  PROVE  Tokens(f) \subseteq S
  <1> SUFFICES ASSUME NEW p \in Tokens(f) PROVE p \in S
    OBVIOUS
  <1>1. PICK u \in Thread : \E i \in 1 .. f[u] : p = <<u, i>>
    BY TokensAre
  <1> QED BY <1>1

LEMMA NoTokens ==
  ASSUME NEW f \in [Thread -> Nat], \A t \in Thread : f[t] = 0
  PROVE  IsFiniteSet(Tokens(f)) /\ Cardinality(Tokens(f)) = 0
  <1>1. Tokens(f) = {}
    BY TokensAre
  <1> QED BY <1>1, FS_EmptySet

LEMMA OneMoreToken ==
  ASSUME NEW f \in [Thread -> Nat], NEW t \in Thread, NEW g, g = [f EXCEPT ![t] = @ + 1],
         IsFiniteSet(Tokens(f))
  PROVE  IsFiniteSet(Tokens(g)) /\ Cardinality(Tokens(g)) = Cardinality(Tokens(f)) + 1
  <1>1. g \in [Thread -> Nat] /\ \A u \in Thread : g[u] = IF u = t THEN f[u] + 1 ELSE f[u]
    OBVIOUS
  <1>2. Tokens(g) = Tokens(f) \cup {<<t, f[t] + 1>>}
    <2>1. ASSUME NEW u \in Thread, NEW i \in 1 .. g[u]
          PROVE  <<u, i>> \in Tokens(f) \cup {<<t, f[t] + 1>>}
      <3>1. CASE u = t /\ i = f[t] + 1
        BY <3>1
      <3>2. CASE i \in 1 .. f[u]
        BY <3>2, TokensAre
      <3> QED BY <1>1, <3>1, <3>2
    <2>2. ASSUME NEW u \in Thread, NEW i \in 1 .. f[u]
          PROVE  <<u, i>> \in Tokens(g)
      <3>1. i \in 1 .. g[u]
        BY <1>1
      <3> QED BY <1>1, <3>1, TokensAre
    <2>3. <<t, f[t] + 1>> \in Tokens(g)
      <3>1. f[t] + 1 \in 1 .. g[t]
        BY <1>1
      <3> QED BY <1>1, <3>1, TokensAre
    <2>4. Tokens(g) \subseteq Tokens(f) \cup {<<t, f[t] + 1>>}
      BY <1>1, <2>1, TokensWithin
    <2>5. Tokens(f) \subseteq Tokens(g)
      BY <2>2, TokensWithin
    <2> QED BY <2>3, <2>4, <2>5
  <1>3. <<t, f[t] + 1>> \notin Tokens(f)
    <2>1. f[t] + 1 \notin 1 .. f[t]
      OBVIOUS
    <2> QED BY <2>1, TokensAre
  <1>4. IsFiniteSet(Tokens(f) \cup {<<t, f[t] + 1>>})
    BY FS_AddElement
  <1>5. Cardinality(Tokens(f) \cup {<<t, f[t] + 1>>}) = Cardinality(Tokens(f)) + 1
    BY <1>3, FS_AddElement
  <1> QED BY <1>2, <1>4, <1>5

LEMMA TokensHandedIn ==
  ASSUME NEW f \in [Thread -> Nat], NEW t \in Thread, NEW g, g = [f EXCEPT ![t] = 0],
         IsFiniteSet(Tokens(f))
  PROVE  IsFiniteSet(Tokens(g)) /\ Cardinality(Tokens(f)) = Cardinality(Tokens(g)) + f[t]
  <1> DEFINE own == {t} \X (1 .. f[t])
  <1>1. g \in [Thread -> Nat] /\ \A u \in Thread : g[u] = IF u = t THEN 0 ELSE f[u]
    OBVIOUS
  <1>2. IsFiniteSet(own) /\ Cardinality(own) = f[t]
    <2>1. IsFiniteSet({t}) /\ Cardinality({t}) = 1
      BY FS_Singleton
    <2>2. f[t] \in Nat
      OBVIOUS
    <2>3. IsFiniteSet(1 .. f[t]) /\ Cardinality(1 .. f[t]) = f[t]
      BY <2>2, FS_Interval
    <2>4. IsFiniteSet(own) /\ Cardinality(own) = 1 * f[t]
      BY <2>1, <2>3, FS_Product
    <2> QED BY <2>2, <2>4
  <1>3. \A u, i : <<u, i>> \in own <=> u = t /\ i \in 1 .. f[t]
    OBVIOUS
  <1>4. own \subseteq Tokens(f)
    BY DEF Tokens
  <1> HIDE DEF own
  <1>5. Tokens(g) = Tokens(f) \ own
    <2>1. ASSUME NEW u \in Thread, NEW i \in 1 .. g[u]
          PROVE  <<u, i>> \in Tokens(f) \ own
      <3>1. u # t /\ i \in 1 .. f[u]
        BY <1>1
      <3> QED BY <1>3, <3>1, TokensAre
    <2>2. ASSUME NEW u \in Thread, NEW i \in 1 .. f[u], <<u, i>> \notin own
          PROVE  <<u, i>> \in Tokens(g)
      <3>1. i \in 1 .. g[u]
        BY <1>1, <1>3, <2>2
      <3> QED BY <1>1, <3>1, TokensAre
    <2>3. Tokens(g) \subseteq Tokens(f) \ own
      BY <1>1, <2>1, TokensWithin
    <2>4. Tokens(f) \ own \subseteq Tokens(g)
      <3>1. Tokens(f) \subseteq own \cup Tokens(g)
        BY <2>2, TokensWithin
      <3> QED BY <3>1
    <2> QED BY <2>3, <2>4
  <1>6. Tokens(f) \cap own = own
    BY <1>4
  <1>7. IsFiniteSet(Tokens(g))
        /\ Cardinality(Tokens(g)) = Cardinality(Tokens(f)) - Cardinality(own)
    BY <1>5, <1>6, FS_Difference
  <1>8. Cardinality(Tokens(f)) \in Nat
    BY FS_CardinalityType
  <1> QED BY <1>2, <1>7, <1>8

\* What is due is a number, and nothing is due before the loop and after the
\* counts are handed in.
LEMMA DueIsANumber ==
  ASSUME Typed
  PROVE  /\ DueAdded \in [Thread -> Nat] /\ DueRemoved \in [Thread -> Nat]
         /\ \A t \in Thread : HeldAdded(t) \in Nat /\ HeldRemoved(t) \in Nat
         /\ \A t \in Thread, o \in {"Add", "Remove"} : Done(o, t) \in {0, 1}
  <1>1. \A t \in Thread : HeldAdded(t) \in Nat /\ HeldRemoved(t) \in Nat
    BY DEF Typed, HeldAdded, HeldRemoved, Held
  <1>2. \A t \in Thread, o \in {"Add", "Remove"} : Done(o, t) \in {0, 1}
    BY DEF Done
  <1> QED BY <1>1, <1>2 DEF DueAdded, DueRemoved

\* Nothing is due from a thread that is not in the loop and has no counts.
LEMMA NothingIsDue ==
  ASSUME Typed, Runs, NEW t \in Thread, pc[t] \in {"none", "enter", "ready", "finished"}
  PROVE  DueAdded[t] = 0 /\ DueRemoved[t] = 0
  <1>1. op[t] = "none" /\ thread_added[t] = 0 /\ thread_removed[t] = 0
    BY DEF Runs, Placed
  <1>2. HeldAdded(t) = 0 /\ HeldRemoved(t) = 0
    BY <1>1 DEF HeldAdded, HeldRemoved, Held
  <1>3. Done("Add", t) = 0 /\ Done("Remove", t) = 0
    BY <1>1 DEF Done
  <1> QED BY <1>2, <1>3 DEF DueAdded, DueRemoved

\* What a step does that changes neither the books nor what is due.
LEMMA BalanceIsLeft ==
  ASSUME Balance, UNCHANGED <<main, set, counts, DueAdded, DueRemoved>>
  PROVE  Balance'
  BY DEF Balance, counts

\* A place in the run is left for another at which the same is due.
LEMMA SameIsDue ==
  ASSUME \A t \in Thread : HeldAdded(t)' = HeldAdded(t) /\ HeldRemoved(t)' = HeldRemoved(t),
         \A t \in Thread : op'[t] = op[t] /\ answer'[t] = answer[t]
  PROVE  UNCHANGED <<DueAdded, DueRemoved>>
  <1>1. \A t \in Thread, o \in {"Add", "Remove"} : Done(o, t)' = Done(o, t)
    BY DEF Done
  <1> QED BY <1>1 DEF DueAdded, DueRemoved

\* A successful Add or Remove changes the set and what is due together.
LEMMA EffectIsDue ==
  ASSUME Typed, Runs, NEW t \in Thread, HashSet!TakeEffect(t),
         UNCHANGED <<pc, thread_added, thread_removed>>
  PROVE  \/ /\ arg[t] \notin set /\ set' = set \cup {arg[t]}
            /\ DueAdded' = [DueAdded EXCEPT ![t] = @ + 1] /\ UNCHANGED DueRemoved
         \/ /\ arg[t] \in set /\ set' = set \ {arg[t]}
            /\ DueRemoved' = [DueRemoved EXCEPT ![t] = @ + 1] /\ UNCHANGED DueAdded
  <1>1. /\ answer[t] = {} /\ answer' = [answer EXCEPT ![t] = {TRUE}] /\ UNCHANGED op
        /\ \/ op[t] = "Add" /\ arg[t] \notin set /\ set' = set \cup {arg[t]}
           \/ op[t] = "Remove" /\ arg[t] \in set /\ set' = set \ {arg[t]}
    BY DEF HashSet!TakeEffect
  <1>2. answer'[t] = {TRUE} /\ answer[t] # {TRUE}
        /\ \A u \in Thread : u # t => answer'[u] = answer[u]
    BY <1>1 DEF Typed
  <1>3. /\ \A o \in {"Add", "Remove"} : Done(o, t) = 0
        /\ \A o \in {"Add", "Remove"} : Done(o, t)' = IF op[t] = o THEN 1 ELSE 0
        /\ \A o \in {"Add", "Remove"}, u \in Thread : u # t => Done(o, u)' = Done(o, u)
    BY <1>1, <1>2 DEF Done
  <1>4. \A u \in Thread : HeldAdded(u)' = HeldAdded(u) /\ HeldRemoved(u)' = HeldRemoved(u)
    BY DEF HeldAdded, HeldRemoved, Held
  <1>5. \A u \in Thread : HeldAdded(u) \in Nat /\ HeldRemoved(u) \in Nat
    BY DueIsANumber
  <1>6. CASE op[t] = "Add" /\ arg[t] \notin set /\ set' = set \cup {arg[t]}
    <2>1. Done("Add", t)' = 1 /\ Done("Add", t) = 0
          /\ \A u \in Thread : u # t => Done("Add", u)' = Done("Add", u)
      BY <1>3, <1>6
    <2>2. DueAdded' = [DueAdded EXCEPT ![t] = @ + 1]
      <3>1. \A u \in Thread : HeldAdded(u)' + Done("Add", u)'
                                = IF u = t THEN HeldAdded(u) + Done("Add", u) + 1
                                           ELSE HeldAdded(u) + Done("Add", u)
        BY <1>4, <1>5, <2>1
      <3> QED BY <3>1 DEF DueAdded
    <2>3. \A u \in Thread : Done("Remove", u)' = Done("Remove", u)
      BY <1>3, <1>6
    <2>4. DueRemoved' = DueRemoved
      BY <1>4, <2>3 DEF DueRemoved
    <2> QED BY <1>6, <2>2, <2>4
  <1>7. CASE op[t] = "Remove" /\ arg[t] \in set /\ set' = set \ {arg[t]}
    <2>1. Done("Remove", t)' = 1 /\ Done("Remove", t) = 0
          /\ \A u \in Thread : u # t => Done("Remove", u)' = Done("Remove", u)
      BY <1>3, <1>7
    <2>2. DueRemoved' = [DueRemoved EXCEPT ![t] = @ + 1]
      <3>1. \A u \in Thread : HeldRemoved(u)' + Done("Remove", u)'
                                = IF u = t THEN HeldRemoved(u) + Done("Remove", u) + 1
                                           ELSE HeldRemoved(u) + Done("Remove", u)
        BY <1>4, <1>5, <2>1
      <3> QED BY <3>1 DEF DueRemoved
    <2>3. \A u \in Thread : Done("Add", u)' = Done("Add", u)
      BY <1>3, <1>7
    <2>4. DueAdded' = DueAdded
      BY <1>4, <2>3 DEF DueAdded
    <2> QED BY <1>7, <2>2, <2>4
  <1> QED BY <1>1, <1>6, <1>7

\* No other answer is counted.
LEMMA AnswerIsNotDue ==
  ASSUME Typed, Runs, NEW t \in Thread, HashSet!Answer(t),
         UNCHANGED <<pc, thread_added, thread_removed>>
  PROVE  UNCHANGED <<set, DueAdded, DueRemoved>>
  <1>1. /\ answer[t] = {} /\ UNCHANGED <<op, set>>
        /\ \A u \in Thread : u # t => answer'[u] = answer[u]
    <2>1. \E b : answer' = [answer EXCEPT ![t] = {b}]
      BY DEF HashSet!Answer
    <2> QED BY <2>1 DEF HashSet!Answer, Typed
  <1>2. op[t] \in {"Add", "Remove"} => answer' = [answer EXCEPT ![t] = {FALSE}]
    BY DEF HashSet!Answer
  <1>3. answer[t] # {TRUE} /\ (op[t] \in {"Add", "Remove"} => answer'[t] # {TRUE})
    BY <1>1, <1>2 DEF Typed
  <1>4. \A u \in Thread, o \in {"Add", "Remove"} : Done(o, u)' = Done(o, u)
    BY <1>1, <1>3 DEF Done
  <1>5. \A u \in Thread : HeldAdded(u)' = HeldAdded(u) /\ HeldRemoved(u)' = HeldRemoved(u)
    BY DEF HeldAdded, HeldRemoved, Held
  <1> QED BY <1>1, <1>4, <1>5 DEF DueAdded, DueRemoved

\* A call that returns counts what it has done.
LEMMA CountedIsDue ==
  ASSUME Typed, Runs, NEW t \in Thread, CountAnswer(t)
  PROVE  UNCHANGED <<DueAdded, DueRemoved>>
  <1>1. /\ UNCHANGED pc /\ op' = [op EXCEPT ![t] = "none"] /\ pc[t] = "loop"
        /\ \A u \in Thread : u # t => answer'[u] = answer[u]
    BY DEF CountAnswer, HashSet!Return, Runs, Placed
  <1>2. /\ \A u \in Thread, o \in {"Add", "Remove"} : u # t => Done(o, u)' = Done(o, u)
        /\ \A o \in {"Add", "Remove"} : Done(o, t)' = 0
    BY <1>1 DEF Done, Typed
  <1>3. /\ thread_added' = IF Done("Add", t) = 1 THEN [thread_added EXCEPT ![t] = @ + 1]
                                                 ELSE thread_added
        /\ thread_removed' = IF Done("Remove", t) = 1 THEN [thread_removed EXCEPT ![t] = @ + 1]
                                                      ELSE thread_removed
    <2>1. ASSUME NEW o \in {"Add", "Remove"}
          PROVE  (Done(o, t) = 1) <=> (op[t] = o /\ answer[t] = {TRUE})
      <3>1. CASE op[t] = o /\ answer[t] = {TRUE}
        BY <3>1 DEF Done
      <3>2. CASE ~(op[t] = o /\ answer[t] = {TRUE})
        <4>1. Done(o, t) = 0
          BY <3>2, Zenon DEF Done
        <4>2. Done(o, t) # 1
          BY <4>1
        <4> QED BY <3>2, <4>2, Zenon
      <3> QED BY <3>1, <3>2
    <2> QED BY <2>1, Zenon DEF CountAnswer
  <1>4. \A o \in {"Add", "Remove"} : Done(o, t) \in {0, 1}
    BY DueIsANumber
  <1>5. /\ \A u \in Thread : u # t => HeldAdded(u)' = HeldAdded(u)
        /\ HeldAdded(t)' = HeldAdded(t) + Done("Add", t)
        /\ \A u \in Thread : HeldAdded(u) \in Nat
    BY <1>1, <1>3, <1>4, DueIsANumber DEF HeldAdded, Held, Typed
  <1>6. /\ \A u \in Thread : u # t => HeldRemoved(u)' = HeldRemoved(u)
        /\ HeldRemoved(t)' = HeldRemoved(t) + Done("Remove", t)
        /\ \A u \in Thread : HeldRemoved(u) \in Nat
    BY <1>1, <1>3, <1>4, DueIsANumber DEF HeldRemoved, Held, Typed
  <1> QED BY <1>2, <1>4, <1>5, <1>6 DEF DueAdded, DueRemoved

\* The books balance at every step.
LEMMA BalanceAtFirst ==
  Init => Balance
  BY DEF Init, Balance

LEMMA BalanceStays ==
  ASSUME Typed, Runs, Balance, [Next]_vars
  PROVE  Balance'
  <1>0. Typed' /\ Runs'
    BY TypedStays, RunsStay
  <1>1. CASE Start \/ End
    BY <1>1 DEF Start, End, Balance, counts
  <1>2. CASE SetUpRun
    <2>1. \A t \in Thread : pc'[t] \in {"none", "enter"}
      BY <1>2 DEF SetUpRun
    <2>2. \A t \in Thread : DueAdded'[t] = 0 /\ DueRemoved'[t] = 0
      <3>1. \A t \in Thread : op'[t] = "none"
        BY <1>0, <2>1 DEF Runs, Placed
      <3>2. \A t \in Thread, o \in {"Add", "Remove"} : Done(o, t)' = 0
        BY <3>1 DEF Done
      <3>3. \A t \in Thread : HeldAdded(t)' = 0 /\ HeldRemoved(t)' = 0
        BY <2>1 DEF HeldAdded, HeldRemoved, Held
      <3> QED BY <3>2, <3>3 DEF DueAdded, DueRemoved
    <2>3. DueAdded' \in [Thread -> Nat] /\ DueRemoved' \in [Thread -> Nat]
      <3>1. DueAdded' = [t \in Thread |-> DueAdded'[t]]
            /\ DueRemoved' = [t \in Thread |-> DueRemoved'[t]]
        BY DEF DueAdded, DueRemoved
      <3> QED BY <2>2, <3>1
    <2>4. /\ IsFiniteSet(Tokens(DueAdded')) /\ Cardinality(Tokens(DueAdded')) = 0
          /\ IsFiniteSet(Tokens(DueRemoved')) /\ Cardinality(Tokens(DueRemoved')) = 0
      BY <2>2, <2>3, NoTokens
    <2>5. added_' = 0 /\ removed_' = 0 /\ check_failed_' = check_failed_
      BY <1>2 DEF SetUpRun, Reset
    <2> QED BY <1>2, <2>4, <2>5, PrefilledIsFinite DEF Balance
  <1>3. CASE StartLoop \/ StopLoop
    <2>1. Barrier("ready", "loop") \/ Barrier("stop", "count")
      BY <1>3 DEF StartLoop, StopLoop
    <2>2. \A t \in Thread : HeldAdded(t)' = HeldAdded(t) /\ HeldRemoved(t)' = HeldRemoved(t)
      <3>1. \A t \in Thread : \/ pc'[t] = pc[t]
                              \/ pc[t] = "ready" /\ pc'[t] = "loop"
                              \/ pc[t] = "stop" /\ pc'[t] = "count"
        BY <2>1 DEF Barrier, Running
      <3>2. \A t \in Thread : pc[t] = "ready" => thread_added[t] = 0 /\ thread_removed[t] = 0
        BY DEF Runs, Placed
      <3>3. UNCHANGED <<thread_added, thread_removed>>
        BY <2>1 DEF Barrier, locals
      <3> QED BY <3>1, <3>2, <3>3 DEF HeldAdded, HeldRemoved, Held
    <2>3. UNCHANGED <<main, set, counts, op, answer>>
      BY <2>1 DEF Barrier, set_vars
    <2> QED BY <2>2, <2>3, SameIsDue, BalanceIsLeft
  <1>4. CASE CheckRun
    <2>1. main = "run" /\ \A t \in Thread : pc[t] \in {"none", "finished"}
      BY <1>4 DEF CheckRun, Running, Runs, Between
    <2>2. \A t \in Thread : DueAdded[t] = 0 /\ DueRemoved[t] = 0
      BY <2>1, NothingIsDue
    <2>3. Cardinality(Tokens(DueAdded)) = 0 /\ Cardinality(Tokens(DueRemoved)) = 0
      BY <2>2, NoTokens, DueIsANumber
    <2>4. Cardinality(set) \in Nat
      BY <2>1, FS_CardinalityType DEF Balance
    <2>5. Cardinality(set) = initial_size_ + added_ - removed_
      BY <2>1, <2>3, <2>4 DEF Balance, Typed
    <2> QED BY <1>4, <2>5 DEF CheckRun, Balance
  <1>5. CASE Ended \/ UNCHANGED vars
    BY <1>5 DEF Ended, vars, counts, locals, set_vars, Balance, DueAdded, DueRemoved,
                HeldAdded, HeldRemoved, Held, Done
  <1>6. ASSUME NEW t \in Thread, EnterRun(t) \/ LeaveLoop(t) \/ LeaveRun(t)
        PROVE  Balance'
    <2>1. UNCHANGED <<main, set, counts, op, answer>>
      BY <1>6 DEF EnterRun, LeaveLoop, LeaveRun, set_vars
    <2>2. \A u \in Thread : HeldAdded(u)' = HeldAdded(u) /\ HeldRemoved(u)' = HeldRemoved(u)
      <3>1. \A u \in Thread : u # t => /\ pc'[u] = pc[u]
                                       /\ thread_added'[u] = thread_added[u]
                                       /\ thread_removed'[u] = thread_removed[u]
        BY <1>6 DEF EnterRun, LeaveLoop, LeaveRun, locals, Typed
      <3>2. \/ pc[t] \in {"enter", "leave"} /\ pc'[t] \in {"ready", "finished"}
            \/ /\ pc[t] = "loop" /\ pc'[t] = "stop"
               /\ UNCHANGED <<thread_added, thread_removed>>
        BY <1>6 DEF EnterRun, LeaveLoop, LeaveRun, locals, Typed
      <3> QED BY <3>1, <3>2 DEF HeldAdded, HeldRemoved, Held
    <2> QED BY <2>1, <2>2, SameIsDue, BalanceIsLeft
  <1>7. ASSUME NEW t \in Thread, CallNext(t)
        PROVE  Balance'
    <2>1. PICK o \in {"Add", "Remove", "Contains"},
               e \in PickElem(run.scenario, t, run.threads,
                              index[t] % StepCount(run.scenario)) :
            HashSet!Call(t, o, e)
      BY <1>7, CallIsPrepared
    <2>2. answer[t] = {} /\ UNCHANGED <<set, answer>> /\ op' = [op EXCEPT ![t] = o]
      BY <2>1 DEF HashSet!Call, Runs, Placed
    <2>3. \A u \in Thread, p \in {"Add", "Remove"} : Done(p, u)' = Done(p, u)
      BY <2>2 DEF Done, Typed
    <2>4. \A u \in Thread : HeldAdded(u)' = HeldAdded(u) /\ HeldRemoved(u)' = HeldRemoved(u)
      BY <1>7 DEF CallNext, HeldAdded, HeldRemoved, Held
    <2>5. UNCHANGED <<DueAdded, DueRemoved>>
      BY <2>3, <2>4 DEF DueAdded, DueRemoved
    <2> QED BY <1>7, <2>2, <2>5, BalanceIsLeft DEF CallNext
  <1>8. ASSUME NEW t \in Thread, CountAnswer(t)
        PROVE  Balance'
    BY <1>8, CountedIsDue, BalanceIsLeft DEF CountAnswer, HashSet!Return
  <1>9. ASSUME NEW t \in Thread, Work(t)
        PROVE  Balance'
    <2>1. UNCHANGED <<main, counts, pc, thread_added, thread_removed>>
      BY <1>9 DEF Work, locals
    <2>2. CASE HashSet!Answer(t)
      BY <2>1, <2>2, AnswerIsNotDue, BalanceIsLeft
    <2>3. CASE HashSet!TakeEffect(t)
      <3>1. main = "run"
        <4>1. op[t] # "none"
          BY <2>3 DEF HashSet!TakeEffect
        <4> QED BY <4>1 DEF Runs, Placed, Between
      <3>2. DueAdded \in [Thread -> Nat] /\ DueRemoved \in [Thread -> Nat]
        BY DueIsANumber
      <3>3. /\ IsFiniteSet(set) /\ IsFiniteSet(Tokens(DueAdded)) /\ IsFiniteSet(Tokens(DueRemoved))
            /\ Cardinality(set) + removed_ + Cardinality(Tokens(DueRemoved))
                 = initial_size_ + added_ + Cardinality(Tokens(DueAdded))
        BY <3>1 DEF Balance
      <3>4. /\ Cardinality(set) \in Nat /\ Cardinality(Tokens(DueAdded)) \in Nat
            /\ Cardinality(Tokens(DueRemoved)) \in Nat
        BY <3>3, FS_CardinalityType
      <3>5. initial_size_ \in Nat /\ added_ \in Nat /\ removed_ \in Nat
            /\ UNCHANGED <<initial_size_, added_, removed_, check_failed_>>
        BY <2>1 DEF Typed, counts
      <3>6. CASE /\ arg[t] \notin set /\ set' = set \cup {arg[t]}
                 /\ DueAdded' = [DueAdded EXCEPT ![t] = @ + 1] /\ UNCHANGED DueRemoved
        <4>1. IsFiniteSet(set') /\ Cardinality(set') = Cardinality(set) + 1
          BY <3>3, <3>6, FS_AddElement
        <4>2. IsFiniteSet(Tokens(DueAdded'))
              /\ Cardinality(Tokens(DueAdded')) = Cardinality(Tokens(DueAdded)) + 1
          <5>1. \A g : g = [DueAdded EXCEPT ![t] = @ + 1]
                         => /\ IsFiniteSet(Tokens(g))
                            /\ Cardinality(Tokens(g)) = Cardinality(Tokens(DueAdded)) + 1
            BY <3>2, <3>3, OneMoreToken
          <5> QED BY <3>6, <5>1
        <4>3. Tokens(DueRemoved') = Tokens(DueRemoved)
          BY <3>6
        <4> QED BY <3>3, <3>4, <3>5, <4>1, <4>2, <4>3 DEF Balance
      <3>7. CASE /\ arg[t] \in set /\ set' = set \ {arg[t]}
                 /\ DueRemoved' = [DueRemoved EXCEPT ![t] = @ + 1] /\ UNCHANGED DueAdded
        <4>1. IsFiniteSet(set') /\ Cardinality(set') = Cardinality(set) - 1
          BY <3>3, <3>7, FS_RemoveElement
        <4>2. IsFiniteSet(Tokens(DueRemoved'))
              /\ Cardinality(Tokens(DueRemoved')) = Cardinality(Tokens(DueRemoved)) + 1
          <5>1. \A g : g = [DueRemoved EXCEPT ![t] = @ + 1]
                         => /\ IsFiniteSet(Tokens(g))
                            /\ Cardinality(Tokens(g)) = Cardinality(Tokens(DueRemoved)) + 1
            BY <3>2, <3>3, OneMoreToken
          <5> QED BY <3>7, <5>1
        <4>3. Tokens(DueAdded') = Tokens(DueAdded)
          BY <3>7
        <4> QED BY <3>3, <3>4, <3>5, <4>1, <4>2, <4>3 DEF Balance
      <3> QED BY <2>1, <2>3, <3>6, <3>7, EffectIsDue
    <2> QED BY <1>9, <2>2, <2>3 DEF Work
  <1>10. ASSUME NEW t \in Thread, AddCounts(t)
         PROVE  Balance'
    <2>1. UNCHANGED <<main, set, initial_size_, check_failed_, op, answer,
                      thread_added, thread_removed>>
      BY <1>10 DEF AddCounts, locals, set_vars
    <2>2. main = "run" /\ op[t] = "none"
      BY <1>10 DEF AddCounts, Runs, Placed, Between
    <2>3. \A u \in Thread, o \in {"Add", "Remove"} : Done(o, u)' = Done(o, u)
      BY <2>1 DEF Done
    <2>4. Done("Add", t) = 0 /\ Done("Remove", t) = 0
      BY <2>2 DEF Done
    <2>5. DueAdded \in [Thread -> Nat] /\ DueRemoved \in [Thread -> Nat]
          /\ \A u \in Thread : HeldAdded(u) \in Nat /\ HeldRemoved(u) \in Nat
      BY DueIsANumber
    <2>6. /\ IsFiniteSet(set) /\ IsFiniteSet(Tokens(DueAdded)) /\ IsFiniteSet(Tokens(DueRemoved))
          /\ Cardinality(set) + removed_ + Cardinality(Tokens(DueRemoved))
               = initial_size_ + added_ + Cardinality(Tokens(DueAdded))
      BY <2>2 DEF Balance
    <2>7. /\ Cardinality(set) \in Nat /\ Cardinality(Tokens(DueAdded)) \in Nat
          /\ Cardinality(Tokens(DueRemoved)) \in Nat
          /\ initial_size_ \in Nat /\ added_ \in Nat /\ removed_ \in Nat
      BY <2>6, FS_CardinalityType DEF Typed
    <2>8. CASE /\ pc[t] = "count" /\ added_' = added_ + thread_added[t]
               /\ pc' = [pc EXCEPT ![t] = "count_removed"] /\ UNCHANGED removed_
      <3>1. /\ \A u \in Thread : HeldAdded(u)' = IF u = t THEN 0 ELSE HeldAdded(u)
            /\ HeldAdded(t) = thread_added[t]
            /\ \A u \in Thread : HeldRemoved(u)' = HeldRemoved(u)
        BY <2>1, <2>8 DEF HeldAdded, HeldRemoved, Held, Typed
      <3>2. DueAdded' = [DueAdded EXCEPT ![t] = 0] /\ DueAdded[t] = thread_added[t]
        <4>1. \A u \in Thread : HeldAdded(u)' + Done("Add", u)'
                                  = IF u = t THEN 0 ELSE HeldAdded(u) + Done("Add", u)
          BY <2>3, <2>4, <3>1
        <4>2. HeldAdded(t) + Done("Add", t) = thread_added[t]
          BY <2>4, <2>5, <3>1
        <4> QED BY <4>1, <4>2 DEF DueAdded
      <3>3. DueRemoved' = DueRemoved
        BY <2>3, <3>1 DEF DueRemoved
      <3>4. IsFiniteSet(Tokens(DueAdded'))
            /\ Cardinality(Tokens(DueAdded)) = Cardinality(Tokens(DueAdded')) + thread_added[t]
        BY <2>5, <2>6, <3>2, TokensHandedIn
      <3>5. Cardinality(Tokens(DueAdded')) \in Nat /\ thread_added[t] \in Nat
        BY <3>4, FS_CardinalityType DEF Typed
      <3>6. Tokens(DueRemoved') = Tokens(DueRemoved)
        BY <3>3
      <3> QED BY <2>1, <2>6, <2>7, <2>8, <3>4, <3>5, <3>6 DEF Balance
    <2>9. CASE /\ pc[t] = "count_removed" /\ removed_' = removed_ + thread_removed[t]
               /\ pc' = [pc EXCEPT ![t] = "leave"] /\ UNCHANGED added_
      <3>1. /\ \A u \in Thread : HeldRemoved(u)' = IF u = t THEN 0 ELSE HeldRemoved(u)
            /\ HeldRemoved(t) = thread_removed[t]
            /\ \A u \in Thread : HeldAdded(u)' = HeldAdded(u)
        BY <2>1, <2>9 DEF HeldAdded, HeldRemoved, Held, Typed
      <3>2. DueRemoved' = [DueRemoved EXCEPT ![t] = 0] /\ DueRemoved[t] = thread_removed[t]
        <4>1. \A u \in Thread : HeldRemoved(u)' + Done("Remove", u)'
                                  = IF u = t THEN 0 ELSE HeldRemoved(u) + Done("Remove", u)
          BY <2>3, <2>4, <3>1
        <4>2. HeldRemoved(t) + Done("Remove", t) = thread_removed[t]
          BY <2>4, <2>5, <3>1
        <4> QED BY <4>1, <4>2 DEF DueRemoved
      <3>3. DueAdded' = DueAdded
        BY <2>3, <3>1 DEF DueAdded
      <3>4. IsFiniteSet(Tokens(DueRemoved'))
            /\ Cardinality(Tokens(DueRemoved))
                 = Cardinality(Tokens(DueRemoved')) + thread_removed[t]
        BY <2>5, <2>6, <3>2, TokensHandedIn
      <3>5. Cardinality(Tokens(DueRemoved')) \in Nat /\ thread_removed[t] \in Nat
        BY <3>4, FS_CardinalityType DEF Typed
      <3>6. Tokens(DueAdded') = Tokens(DueAdded)
        BY <3>3
      <3> QED BY <2>1, <2>6, <2>7, <2>9, <3>4, <3>5, <3>6 DEF Balance
    <2> QED BY <1>10, <2>8, <2>9 DEF AddCounts
  <1> QED
    BY <1>1, <1>2, <1>3, <1>4, <1>5, <1>6, <1>7, <1>8, <1>9, <1>10 DEF Next, RunScenario

\* No run of any scenario, with any number of threads, fails its check: the
\* size is what the run started with and what its threads counted, although
\* they add up their counts one after the other (CheckRun()).
THEOREM RunsPassTheirCheck ==
  Spec => []CheckNeverFails
  <1> DEFINE I == Typed /\ Runs /\ Balance
  <1>1. Init => I
    BY TypedAtFirst, RunsAtFirst, BalanceAtFirst
  <1>2. I /\ [Next]_vars => I'
    BY TypedStays, RunsStay, BalanceStays
  <1>3. I => CheckNeverFails
    BY DEF Balance, CheckNeverFails
  <1> QED BY <1>1, <1>2, <1>3, PTL DEF Spec

-----------------------------------------------------------------------------
\* The windows.  Threads that have one each never call about the same element.
LEMMA ElementsDiffer ==
  ASSUME Typed, Runs, main = "run", NEW t \in Thread, NEW u \in Thread, t # u,
         arg[t] \in OwnWindow(t), arg[u] \in OwnWindow(u)
  PROVE  arg[t] # arg[u]
  <1> DEFINE w == Window(run.scenario, run.threads)
  <1>1. w \in Nat /\ t \in Nat /\ u \in Nat
    BY SizesAreNumbers, ThreadsAreNumbered DEF Runs
  <1>2. OwnWindow(t) = t * w .. t * w + w - 1 /\ OwnWindow(u) = u * w .. u * w + w - 1
    BY DEF OwnWindow, WindowStart
  <1> HIDE DEF w
  <1>3. CASE t < u
    BY <1>1, <1>2, <1>3, WindowsAreDisjoint
  <1>4. CASE u < t
    BY <1>1, <1>2, <1>4, WindowsAreDisjoint
  <1> QED BY <1>1, <1>3, <1>4

\* An element of a thread's window taken in order tells the thread and the step.
LEMMA StepsDiffer ==
  ASSUME NEW s \in Scenarios, NEW n \in ThreadCounts, s.key_choice = "kSequential",
         NEW t \in Thread, NEW u \in Thread, NEW i \in Nat, NEW j \in Nat,
         i < s.iterations, j < s.iterations,
         WindowStart(s, t, n) + i = WindowStart(s, u, n) + j
  PROVE  t = u /\ i = j
  <1> DEFINE w == Window(s, n)
  <1>1. w \in Nat /\ t \in Nat /\ u \in Nat
    BY SizesAreNumbers, ThreadsAreNumbered
  <1>2. s.iterations <= w /\ s.iterations \in Nat
    BY ScenariosAssumption, NumbersAssumption DEF Runnable, Window
  <1>3. WindowStart(s, t, n) = t * w /\ WindowStart(s, u, n) = u * w
    BY DEF WindowStart
  <1> HIDE DEF w
  <1>4. t * w \in Nat /\ u * w \in Nat
    BY <1>1
  <1>5. CASE t < u
    <2>1. t * w + i \in t * w .. t * w + w - 1
      BY <1>1, <1>2, <1>4
    <2> QED BY <1>1, <1>3, <1>4, <1>5, <2>1, WindowsAreDisjoint
  <1>6. CASE u < t
    <2>1. u * w + j \in u * w .. u * w + w - 1
      BY <1>1, <1>2, <1>4
    <2> QED BY <1>1, <1>3, <1>4, <1>6, <2>1, WindowsAreDisjoint
  <1>7. CASE t = u
    BY <1>3, <1>4, <1>7
  <1> QED BY <1>1, <1>5, <1>6, <1>7

LEMMA WindowsAtFirst ==
  Init => Windows
  BY DEF Init, Windows

\* A call about an element of the thread's window.
LEMMA CallIsInWindow ==
  ASSUME Typed, Runs, Windows, NEW t \in Thread, CallNext(t),
         NEW e \in PickElem(run.scenario, t, run.threads, index[t] % StepCount(run.scenario))
  PROVE  /\ run.scenario.key_choice \in {"kDisjoint", "kSequential"} => e \in OwnWindow(t)
         /\ run.scenario.key_choice = "kSequential"
              => e = WindowStart(run.scenario, t, run.threads) + index[t]
  <1> DEFINE s == run.scenario
             n == run.threads
  <1>1. s \in Scenarios /\ n \in ThreadCounts /\ index[t] \in Nat /\ index[t] < s.iterations
    BY CallIsPrepared DEF CallNext, Typed
  <1>2. CASE s.key_choice = "kDisjoint"
    BY <1>2 DEF PickElem, OwnWindow
  <1>3. CASE s.key_choice = "kSequential"
    <2>1. index[t] % StepCount(s) = index[t]
      BY <1>1, <1>3, NumbersAssumption DEF StepCount
    <2>2. e = WindowStart(s, t, n) + index[t]
      BY <1>3, <2>1 DEF PickElem
    <2>3. s.iterations <= Window(s, n) /\ s.iterations \in Nat /\ Window(s, n) \in Nat
      BY <1>1, <1>3, ScenariosAssumption, NumbersAssumption, SizesAreNumbers DEF Runnable, Window
    <2>4. WindowStart(s, t, n) \in Nat
      BY <2>3, ThreadsAreNumbered DEF WindowStart
    <2> QED BY <1>1, <1>3, <2>2, <2>3, <2>4 DEF OwnWindow
  <1> QED BY <1>2, <1>3

\* Steps outside the calls leave the windows, the elements taken as long as
\* they matter.
LEMMA WindowsAreLeft ==
  ASSUME Typed, Runs, Windows, UNCHANGED <<main, run, set, op, arg, answer, seen>>,
         \A t \in Thread : index'[t] = index[t] \/ (index'[t] = 0 /\ op[t] = "none"),
         (\A t \in Thread : pc'[t] \notin PastLoop)
           => UNCHANGED index /\ \A t \in Thread : pc[t] \notin PastLoop
  PROVE  Windows'
  <1> SUFFICES ASSUME main = "run" PROVE Windows'
    BY DEF Windows
  <1>1. run.scenario \in Scenarios /\ run.scenario.iterations \in Nat
    BY NumbersAssumption DEF Runs
  <1>2. ASSUME NEW t \in Thread, Alone(t) PROVE Alone(t)'
    BY <1>2 DEF Alone, OwnWindow
  <1>3. ASSUME NEW t \in Thread, InOrder(t) PROVE InOrder(t)'
    BY <1>1, <1>3 DEF InOrder
  <1>4. ASSUME NEW t \in Thread, NeverRefused(t) PROVE NeverRefused(t)'
    BY <1>4 DEF NeverRefused
  <1>5. UNCHANGED index => UNCHANGED TakenSteps
    BY DEF TakenSteps
  <1> QED BY <1>2, <1>3, <1>4, <1>5 DEF Windows

\* A call that is made.
LEMMA CallKeepsWindows ==
  ASSUME Typed, Runs, Windows, NEW t \in Thread, CallNext(t)
  PROVE  Windows'
  <1> DEFINE s == run.scenario
             n == run.threads
             start(u) == WindowStart(s, u, n)
  <1>1. /\ main = "run" /\ s \in Scenarios /\ n \in ThreadCounts
        /\ op[t] = "none" /\ pc[t] = "loop" /\ index[t] \in Nat /\ index[t] < s.iterations
        /\ s.iterations \in Nat
    BY CallIsPrepared, NumbersAssumption DEF CallNext, Typed
  <1>2. PICK o \in {"Add", "Remove", "Contains"},
             e \in PickElem(s, t, n, index[t] % StepCount(s)) :
          HashSet!Call(t, o, e)
    BY CallIsPrepared
  <1>3. /\ s.key_choice \in {"kDisjoint", "kSequential"} => e \in OwnWindow(t)
        /\ s.key_choice = "kSequential" => e = start(t) + index[t]
    BY CallIsInWindow
  <1>4. /\ op' = [op EXCEPT ![t] = o] /\ arg' = [arg EXCEPT ![t] = e]
        /\ seen' = [seen EXCEPT ![t] = {(e \in set)}]
        /\ UNCHANGED <<main, run, set, answer, pc>> /\ index' = [index EXCEPT ![t] = @ + 1]
    BY <1>2 DEF CallNext, HashSet!Call
  <1>5. /\ \A u \in Thread : u # t => /\ op'[u] = op[u] /\ arg'[u] = arg[u]
                                      /\ seen'[u] = seen[u] /\ index'[u] = index[u]
        /\ op'[t] = o /\ arg'[t] = e /\ seen'[t] = {(e \in set)} /\ index'[t] = index[t] + 1
    BY <1>4 DEF Typed
  <1>6. answer[t] = {}
    BY <1>1 DEF Runs, Placed
  <1>7. ASSUME s.key_choice \in {"kDisjoint", "kSequential"}, NEW u \in Thread
        PROVE  Alone(u)'
    <2>1. CASE u # t
      BY <1>1, <1>4, <1>5, <1>7, <2>1 DEF Windows, Alone, OwnWindow
    <2>2. CASE u = t
      BY <1>3, <1>4, <1>5, <1>7, <2>2 DEF Alone, OwnWindow
    <2> QED BY <2>1, <2>2
  <1>8. ASSUME s.key_choice = "kSequential"
        PROVE  e \notin set /\ \A u \in Thread : pc[u] \notin PastLoop
    <2>1. \A u \in Thread : pc[u] \notin PastLoop
      BY <1>1 DEF Runs, PastLoop
    <2>2. set \subseteq TakenSteps /\ \A u \in Thread : index[u] <= s.iterations
      BY <1>1, <1>8, <2>1 DEF Windows, InOrder
    <2>3. ASSUME e \in TakenSteps PROVE FALSE
      <3>1. PICK u \in Thread : e \in {start(u) + i : i \in 0 .. index[u] - 1}
        BY <2>3 DEF TakenSteps
      <3>2. PICK i \in 0 .. index[u] - 1 : e = start(u) + i
        BY <3>1
      <3>3. i \in Nat /\ i < index[u] /\ i < s.iterations
        BY <1>1, <2>2 DEF Typed
      <3>4. u = t /\ i = index[t]
        BY <1>1, <1>3, <1>8, <3>2, <3>3, StepsDiffer
      <3> QED BY <3>3, <3>4
    <2> QED BY <2>1, <2>2, <2>3
  <1>9. ASSUME s.key_choice = "kSequential", NEW u \in Thread
        PROVE  InOrder(u)'
    <2>1. InOrder(u)
      BY <1>1, <1>9 DEF Windows
    <2>2. CASE u # t
      BY <1>4, <1>5, <2>1, <2>2 DEF InOrder
    <2>3. CASE u = t
      <3>1. start(t) \in Nat
        BY <1>1, SizesAreNumbers, ThreadsAreNumbered DEF WindowStart
      <3> QED BY <1>1, <1>3, <1>4, <1>5, <1>6, <1>8, <1>9, <2>3, <3>1 DEF InOrder
    <2> QED BY <2>2, <2>3
  <1>10. ASSUME s.key_choice = "kSequential", NEW u \in Thread
         PROVE  NeverRefused(u)'
    <2>1. NeverRefused(u) /\ answer'[u] = answer[u]
      BY <1>1, <1>4, <1>10 DEF Windows
    <2>2. CASE u # t
      BY <1>5, <2>1, <2>2 DEF NeverRefused
    <2>3. CASE u = t
      BY <1>6, <2>1, <2>3 DEF NeverRefused
    <2> QED BY <2>2, <2>3
  <1>11. ASSUME s.key_choice = "kSequential"
         PROVE  set' \subseteq TakenSteps'
    <2>1. set \subseteq TakenSteps
      BY <1>1, <1>8, <1>11 DEF Windows
    <2>2. \A u \in Thread : 0 .. index[u] - 1 \subseteq 0 .. index'[u] - 1
      BY <1>5 DEF Typed
    <2>3. TakenSteps \subseteq TakenSteps'
      BY <1>4, <2>2 DEF TakenSteps
    <2> QED BY <1>4, <2>1, <2>3
  <1> QED BY <1>4, <1>7, <1>9, <1>10, <1>11 DEF Windows

\* A call that takes effect: the others' calls are about other elements.
LEMMA EffectKeepsWindows ==
  ASSUME Typed, Runs, Windows, NEW t \in Thread, Work(t), HashSet!TakeEffect(t)
  PROVE  Windows'
  <1> DEFINE s == run.scenario
             n == run.threads
  <1>1. UNCHANGED <<main, run, pc, index, op, arg>>
    BY DEF Work, locals, HashSet!TakeEffect
  <1>2. /\ op[t] \in {"Add", "Remove"} /\ answer[t] = {} /\ answer'[t] = {TRUE}
        /\ \A u \in Thread : u # t => answer'[u] = answer[u]
        /\ set' \subseteq set \cup {arg[t]}
        /\ set \ {arg[t]} = set' \ {arg[t]}
    BY DEF HashSet!TakeEffect, Typed
  <1>3. \A u \in Thread : op[u] = "none" \/ arg[u] # arg[t] => seen'[u] = seen[u]
    BY DEF HashSet!TakeEffect, HashSet!Asking
  <1>4. main = "run"
    BY <1>2 DEF Runs, Placed, Between
  <1>5. ASSUME s.key_choice \in {"kDisjoint", "kSequential"}, NEW u \in Thread, u # t,
               op[u] # "none"
        PROVE  arg[u] # arg[t] /\ (arg[u] \in set' <=> arg[u] \in set)
    <2>1. arg[t] \in OwnWindow(t) /\ arg[u] \in OwnWindow(u)
      BY <1>2, <1>4, <1>5 DEF Windows, Alone
    <2>2. arg[u] # arg[t]
      BY <1>4, <1>5, <2>1, ElementsDiffer
    <2> QED BY <1>2, <2>2
  <1>6. ASSUME s.key_choice \in {"kDisjoint", "kSequential"}, NEW u \in Thread
        PROVE  Alone(u)'
    <2>1. Alone(u)
      BY <1>4, <1>6 DEF Windows
    <2>2. CASE op[u] = "none"
      BY <1>1, <2>2 DEF Alone
    <2>3. CASE u = t
      BY <1>1, <1>2, <2>1, <2>3 DEF Alone, OwnWindow
    <2>4. CASE u # t /\ op[u] # "none"
      <3>1. seen'[u] = seen[u] /\ answer'[u] = answer[u] /\ (arg[u] \in set' <=> arg[u] \in set)
        BY <1>2, <1>3, <1>5, <1>6, <2>4
      <3>2. {(arg[u] \in set)} = {(arg[u] \in set')}
        <4>1. CASE arg[u] \in set
          BY <3>1, <4>1
        <4>2. CASE arg[u] \notin set
          BY <3>1, <4>2
        <4> QED BY <4>1, <4>2
      <3> QED BY <1>1, <2>1, <2>4, <3>1, <3>2 DEF Alone, OwnWindow
    <2> QED BY <2>2, <2>3, <2>4
  <1>7. ASSUME s.key_choice = "kSequential", NEW u \in Thread
        PROVE  InOrder(u)'
    <2>1. InOrder(u)
      BY <1>4, <1>7 DEF Windows
    <2>2. op[u] # "none" /\ answer'[u] = {} => u # t /\ answer[u] = {} /\ arg[u] \notin set'
      BY <1>2, <1>5, <1>7, <2>1 DEF InOrder
    <2> QED BY <1>1, <2>1, <2>2 DEF InOrder
  <1>8. ASSUME s.key_choice = "kSequential", NEW u \in Thread
        PROVE  NeverRefused(u)'
    <2>1. NeverRefused(u)
      BY <1>4, <1>8 DEF Windows
    <2> QED BY <1>1, <1>2, <2>1 DEF NeverRefused
  <1>9. ASSUME s.key_choice = "kSequential", \A u \in Thread : pc[u] \notin PastLoop
        PROVE  set' \subseteq TakenSteps'
    <2>1. set \subseteq TakenSteps /\ UNCHANGED TakenSteps
      BY <1>1, <1>4, <1>9 DEF Windows, TakenSteps
    <2>2. arg[t] = WindowStart(s, t, n) + index[t] - 1 /\ index[t] > 0
      BY <1>2, <1>4, <1>9 DEF Windows, InOrder
    <2>3. index[t] - 1 \in 0 .. index[t] - 1 /\ arg[t] = WindowStart(s, t, n) + (index[t] - 1)
      <3>1. WindowStart(s, t, n) \in Nat /\ index[t] \in Nat
        BY <1>4, SizesAreNumbers, ThreadsAreNumbered DEF WindowStart, Typed, Runs
      <3> QED BY <2>2, <3>1
    <2>4. arg[t] \in TakenSteps
      BY <2>3 DEF TakenSteps
    <2> QED BY <1>2, <2>1, <2>4
  <1> QED BY <1>1, <1>6, <1>7, <1>8, <1>9 DEF Windows

\* A call that changes nothing: its answer is that of the one moment it saw.
LEMMA AnswerKeepsWindows ==
  ASSUME Typed, Runs, Windows, NEW t \in Thread, Work(t), HashSet!Answer(t)
  PROVE  Windows'
  <1> DEFINE s == run.scenario
  <1>1. UNCHANGED <<main, run, pc, index, set, op, arg, seen>>
    BY DEF Work, locals, HashSet!Answer
  <1>2. PICK b : answer' = [answer EXCEPT ![t] = {b}]
    BY DEF HashSet!Answer
  <1>3. answer[t] = {} /\ answer'[t] # {} /\ \A u \in Thread : u # t => answer'[u] = answer[u]
    BY <1>2 DEF HashSet!Answer, Typed
  <1>4. op[t] # "none"
    BY DEF HashSet!Answer
  <1>5. main = "run"
    BY <1>4 DEF Runs, Placed, Between
  <1>6. ASSUME s.key_choice \in {"kDisjoint", "kSequential"}, NEW u \in Thread
        PROVE  Alone(u)'
    <2>1. Alone(u)
      BY <1>5, <1>6 DEF Windows
    <2> QED BY <1>1, <1>3, <2>1 DEF Alone, OwnWindow
  <1>7. ASSUME s.key_choice = "kSequential", NEW u \in Thread
        PROVE  InOrder(u)'
    <2>1. InOrder(u)
      BY <1>5, <1>7 DEF Windows
    <2> QED BY <1>1, <1>3, <2>1 DEF InOrder
  <1>8. ASSUME s.key_choice = "kSequential"
        PROVE  op[t] # "Add"
    <2> SUFFICES ASSUME op[t] = "Add" PROVE FALSE
      OBVIOUS
    <2>1. TRUE \in seen[t]
      BY DEF HashSet!Answer
    <2>2. seen[t] = {(arg[t] \in set)} /\ arg[t] \notin set
      BY <1>3, <1>4, <1>5, <1>8 DEF Windows, Alone, InOrder
    <2> QED BY <2>1, <2>2
  <1>9. ASSUME s.key_choice = "kSequential", NEW u \in Thread
        PROVE  NeverRefused(u)'
    <2>1. NeverRefused(u)
      BY <1>5, <1>9 DEF Windows
    <2> QED BY <1>1, <1>3, <1>8, <1>9, <2>1 DEF NeverRefused
  <1>10. UNCHANGED TakenSteps
    BY <1>1 DEF TakenSteps
  <1> QED BY <1>1, <1>5, <1>6, <1>7, <1>9, <1>10 DEF Windows

\* A call that returns.
LEMMA ReturnKeepsWindows ==
  ASSUME Typed, Runs, Windows, NEW t \in Thread, CountAnswer(t)
  PROVE  Windows'
  <1> DEFINE s == run.scenario
  <1>1. /\ UNCHANGED <<main, run, pc, index, set>>
        /\ op[t] # "none" /\ op'[t] = "none"
        /\ \A u \in Thread : u # t => /\ op'[u] = op[u] /\ arg'[u] = arg[u]
                                      /\ seen'[u] = seen[u] /\ answer'[u] = answer[u]
    BY DEF CountAnswer, HashSet!Return, Typed
  <1>2. main = "run"
    BY <1>1 DEF Runs, Placed, Between
  <1>3. ASSUME s.key_choice \in {"kDisjoint", "kSequential"}, NEW u \in Thread
        PROVE  Alone(u)'
    BY <1>1, <1>2, <1>3 DEF Windows, Alone, OwnWindow
  <1>4. ASSUME s.key_choice = "kSequential", NEW u \in Thread
        PROVE  InOrder(u)'
    <2>1. InOrder(u)
      BY <1>2, <1>4 DEF Windows
    <2> QED BY <1>1, <2>1 DEF InOrder
  <1>5. ASSUME s.key_choice = "kSequential", NEW u \in Thread
        PROVE  NeverRefused(u)'
    <2>1. NeverRefused(u)
      BY <1>2, <1>5 DEF Windows
    <2> QED BY <1>1, <2>1 DEF NeverRefused
  <1>6. UNCHANGED TakenSteps
    BY <1>1 DEF TakenSteps
  <1> QED BY <1>1, <1>2, <1>3, <1>4, <1>5, <1>6 DEF Windows

LEMMA WindowsStay ==
  ASSUME Typed, Runs, Windows, [Next]_vars
  PROVE  Windows'
  <1>0. Typed' /\ Runs'
    BY TypedStays, RunsStay
  <1>1. CASE Start \/ End \/ CheckRun
    BY <1>1 DEF Start, End, CheckRun, Windows
  <1>2. CASE SetUpRun
    <2>1. /\ main' = "run" /\ run'.scenario \in Scenarios /\ run'.threads \in ThreadCounts
          /\ set' = {} \/ run'.scenario.prefill
          /\ \A t \in Thread : pc'[t] \in {"none", "enter"}
      BY <1>2 DEF SetUpRun
    <2>2. \A t \in Thread : op'[t] = "none" /\ index'[t] = 0
      BY <1>0, <2>1 DEF Runs, Placed
    <2>3. ASSUME NEW t \in Thread PROVE Alone(t)' /\ NeverRefused(t)'
      BY <2>2 DEF Alone, NeverRefused
    <2>4. ASSUME NEW t \in Thread PROVE InOrder(t)'
      BY <2>1, <2>2, NumbersAssumption DEF InOrder
    <2>5. run'.scenario.key_choice = "kSequential" => set' = {}
      BY <2>1, ScenariosAssumption DEF Runnable
    <2> QED BY <2>3, <2>4, <2>5 DEF Windows
  <1>3. CASE StartLoop \/ StopLoop
    <2>1. Barrier("ready", "loop") \/ Barrier("stop", "count")
      BY <1>3 DEF StartLoop, StopLoop
    <2>2. UNCHANGED <<main, run, set, op, arg, answer, seen, index>>
      BY <2>1 DEF Barrier, locals, set_vars
    <2>3. \A t \in Thread : pc[t] \notin PastLoop
      BY <2>1 DEF Barrier, Running, PastLoop
    <2> QED BY <2>2, <2>3, WindowsAreLeft
  <1>4. CASE Ended \/ UNCHANGED vars
    <2>1. UNCHANGED <<main, run, set, op, arg, answer, seen, index, pc>>
      BY <1>4 DEF Ended, vars, locals, set_vars
    <2> QED BY <2>1, WindowsAreLeft
  <1>5. ASSUME NEW t \in Thread, EnterRun(t) \/ LeaveLoop(t) \/ AddCounts(t)
        PROVE  Windows'
    <2>1. UNCHANGED <<main, run, set, op, arg, answer, seen, index>>
      BY <1>5 DEF EnterRun, LeaveLoop, AddCounts, locals, set_vars
    <2>2. \A u \in Thread : pc[u] \in PastLoop => pc'[u] \in PastLoop
      BY <1>5 DEF EnterRun, LeaveLoop, AddCounts, PastLoop, Typed
    <2> QED BY <2>1, <2>2, WindowsAreLeft
  <1>6. ASSUME NEW t \in Thread, LeaveRun(t)
        PROVE  Windows'
    <2>1. UNCHANGED <<main, run, set, op, arg, answer, seen>> /\ op[t] = "none"
      BY <1>6 DEF LeaveRun, set_vars, Runs, Placed
    <2>2. \A u \in Thread : index'[u] = index[u] \/ (index'[u] = 0 /\ op[u] = "none")
      BY <1>6, <2>1 DEF LeaveRun, Typed
    <2>3. pc'[t] \in PastLoop
      BY <1>6 DEF LeaveRun, PastLoop, Typed
    <2> QED BY <2>1, <2>2, <2>3, WindowsAreLeft
  <1>7. ASSUME NEW t \in Thread, CallNext(t) \/ CountAnswer(t)
        PROVE  Windows'
    BY <1>7, CallKeepsWindows, ReturnKeepsWindows
  <1>8. ASSUME NEW t \in Thread, Work(t)
        PROVE  Windows'
    BY <1>8, EffectKeepsWindows, AnswerKeepsWindows DEF Work
  <1> QED
    BY <1>1, <1>2, <1>3, <1>4, <1>5, <1>6, <1>7, <1>8 DEF Next, RunScenario

LEMMA SeenInWindows ==
  Typed /\ Runs /\ Windows => WindowsApart
  <1> SUFFICES ASSUME Typed, Runs, Windows, main = "run", NEW t \in Thread
               PROVE  /\ run.scenario.key_choice \in {"kDisjoint", "kSequential"}
                           /\ answer[t] = {} => Cardinality(seen[t]) <= 1
                      /\ run.scenario.key_choice = "kSequential" /\ op[t] = "Add"
                           => answer[t] # {FALSE}
    BY DEF WindowsApart, Runs, Between
  <1>1. ASSUME run.scenario.key_choice \in {"kDisjoint", "kSequential"}, answer[t] = {}
        PROVE  Cardinality(seen[t]) <= 1
    <2>1. CASE op[t] = "none"
      <3>1. seen[t] = {}
        BY <2>1 DEF Runs, Placed
      <3>2. Cardinality(seen[t]) = 0
        BY <3>1, FS_EmptySet
      <3> QED BY <3>2
    <2>2. CASE op[t] # "none"
      <3>1. PICK b : seen[t] = {b}
        BY <1>1, <2>2 DEF Windows, Alone
      <3>2. Cardinality(seen[t]) = 1
        BY <3>1, FS_Singleton
      <3> QED BY <3>2
    <2> QED BY <2>1, <2>2
  <1>2. run.scenario.key_choice = "kSequential" /\ op[t] = "Add" => answer[t] # {FALSE}
    BY DEF Windows, NeverRefused
  <1> QED BY <1>1, <1>2

\* Threads with windows of their own never meet, whatever the number of keys and
\* threads, and one that takes its window in order never finds an element there
\* that it adds (KeyChoice, BuildSteps()).
THEOREM ThreadsKeepToTheirWindows ==
  Spec => []WindowsApart
  <1> DEFINE I == Typed /\ Runs /\ Windows
  <1>1. Init => I
    BY TypedAtFirst, RunsAtFirst, WindowsAtFirst
  <1>2. I /\ [Next]_vars => I'
    BY TypedStays, RunsStay, WindowsStay
  <1>3. I => WindowsApart
    BY SeenInWindows
  <1> QED BY <1>1, <1>2, <1>3, PTL DEF Spec
=============================================================================
