----------------------------- MODULE Benchmark -----------------------------
(***************************************************************************)
(* The benchmark driver, src/benchmarks.cc, with the attachment of threads *)
(* to the libcds collector it needs, src/HashSetLibcds.h.                  *)
(*                                                                         *)
(* A run is set up by the main thread, executed by a number of threads of  *)
(* which the main thread is the first, and checked by the main thread: the *)
(* size of the set has to be what the threads counted.  Google Benchmark   *)
(* calls the three parts and keeps its barriers around the timed loop; it  *)
(* runs any of the registered benchmarks, in any order, any number of      *)
(* times.  The set under test is what HashSetBase promises of it.          *)
(***************************************************************************)
EXTENDS Integers, FiniteSets

CONSTANTS
  Scenarios,        \* the scenarios run, of the form of kScenarios
  ThreadCounts,     \* the numbers of threads a scenario is run with
  kStepsPerThread,  \* steps a thread prepares and then goes round
  HotShare,         \* the hot part is keys / HotShare
  StartsPresent,    \* the elements a prefilled set starts with
  nullptr

ASSUME ThreadCountsAssumption ==
  /\ ThreadCounts \subseteq Nat \ {0}
  /\ \E n \in ThreadCounts : \A m \in ThreadCounts : m <= n

ASSUME NumbersAssumption == \A s \in Scenarios : s.keys \in Nat /\ s.iterations \in Nat

ASSUME NullptrAssumption == nullptr # "libcds"

VARIABLES
  main,                  \* what the main thread does outside a run
  run,                   \* the scenario and the number of threads of a run
  hash_set_under_test_,  \* which kind of set it points to, or nullptr
  initial_size_, added_, removed_, check_failed_,
  pc,                    \* per thread: its place in RunScenario()
  steps,                 \* per thread: the steps it prepared
  index, thread_added, thread_removed,
  collector_,            \* does the libcds collector exist?
  depth_,                \* per thread: LibcdsGuards it is in
  attached               \* the threads attached to the collector

\* The set under test.
VARIABLES set, op, arg, answer, seen

Main == 0
Thread == 0 .. (CHOOSE n \in ThreadCounts : \A m \in ThreadCounts : m <= n) - 1
Key == UNION {0 .. s.keys - 1 : s \in Scenarios}

HashSet == INSTANCE HashSetBase WITH Elem <- Key, None <- nullptr, MayThrow <- FALSE

counts == <<initial_size_, added_, removed_, check_failed_>>
locals == <<steps, index, thread_added, thread_removed>>
guards == <<collector_, depth_, attached>>
set_vars == <<set, op, arg, answer, seen>>
vars == <<main, run, hash_set_under_test_, counts, pc, locals, guards, set_vars>>

-----------------------------------------------------------------------------
\* The operations a thread may pick: those with a share in the mix.
PickOperation(mix) == {o \in HashSet!Operation : mix[o] > 0}

Window(s, threads) == s.keys \div threads

\* Mutant of WindowStart: the thread's index is not scaled.
WindowStartUnscaled(s, thread_index, threads) == thread_index

WindowStart(s, thread_index, threads) == thread_index * Window(s, threads)

\* The elements step i of a thread may be about.
PickElem(s, thread_index, threads, i) ==
  LET window_start == WindowStart(s, thread_index, threads)
      hot_keys == s.keys \div HotShare
  IN  CASE s.key_choice = "kDisjoint" ->
             window_start .. window_start + Window(s, threads) - 1
        [] s.key_choice = "kSequential" -> {window_start + i}
        [] s.key_choice = "kHotSpot" ->
             (0 .. hot_keys - 1) \cup (hot_keys .. s.keys - 1)
        [] OTHER -> 0 .. s.keys - 1

StepCount(s) == IF s.key_choice = "kSequential" THEN s.iterations ELSE kStepsPerThread

\* What BuildSteps() may return.
BuildSteps(s, thread_index, threads) ==
  {f \in [0 .. StepCount(s) - 1 -> PickOperation(s.mix) \X Key] :
     \A i \in DOMAIN f : f[i][2] \in PickElem(s, thread_index, threads, i)}

PowersOfTwo == {2 ^ k : k \in 0 .. 30}

\* What a scenario has to meet for the run to be what its name says: going
\* round the steps with a mask needs a power of two, the hot part and the
\* windows are not empty, and a sequential thread stays in its window.
Runnable(s, threads, steps_per_thread, hot_share) ==
  /\ s.mix["Contains"] + s.mix["Add"] + s.mix["Remove"] = 100
  /\ s.key_choice # "kSequential" => steps_per_thread \in PowersOfTwo
  /\ s.key_choice = "kHotSpot" => 0 < s.keys \div hot_share /\ s.keys \div hot_share < s.keys
  /\ s.key_choice = "kDisjoint" => threads <= s.keys
  /\ s.key_choice = "kSequential" =>
       /\ s.iterations \in PowersOfTwo
       /\ s.iterations <= s.keys \div threads
       /\ ~s.prefill

ASSUME ScenariosAssumption ==
  \A s \in Scenarios, n \in ThreadCounts : Runnable(s, n, kStepsPerThread, HotShare)

-----------------------------------------------------------------------------
\* Mutant of Detached: libcds detaches a thread whoever else relies on it.
DetachedAtOnce(t) == TRUE

\* The LibcdsGuard that is destroyed is the thread's outermost one.
Detached(t) == depth_[t] = 1

\* LibcdsGuard(); attaching an attached thread again changes nothing.
EnterLibcds(t) ==
  /\ depth_' = [depth_ EXCEPT ![t] = @ + 1]
  /\ attached' = IF depth_[t] = 0 THEN attached \cup {t} ELSE attached

LeaveLibcds(t) ==
  /\ depth_' = [depth_ EXCEPT ![t] = @ - 1]
  /\ attached' = IF Detached(t) THEN attached \ {t} ELSE attached

Init ==
  /\ main = "start"
  /\ run = nullptr
  /\ hash_set_under_test_ = nullptr
  /\ initial_size_ = 0 /\ added_ = 0 /\ removed_ = 0
  /\ check_failed_ = FALSE
  /\ pc = [t \in Thread |-> "none"]
  /\ steps = [t \in Thread |-> nullptr]
  /\ index = [t \in Thread |-> 0]
  /\ thread_added = [t \in Thread |-> 0]
  /\ thread_removed = [t \in Thread |-> 0]
  /\ collector_ = FALSE
  /\ depth_ = [t \in Thread |-> 0]
  /\ attached = {}
  /\ HashSet!Init

\* main() builds the collector and attaches itself, outside every run.
Start ==
  /\ main = "start"
  /\ main' = "between"
  /\ collector_' = TRUE
  /\ EnterLibcds(Main)
  /\ UNCHANGED <<run, hash_set_under_test_, counts, pc, locals, set_vars>>

\* main() returns: its guard is destroyed before the collector.
End ==
  /\ main = "between"
  /\ main' = "ended"
  /\ LeaveLibcds(Main)
  /\ collector_' = FALSE
  /\ UNCHANGED <<run, hash_set_under_test_, counts, pc, locals, set_vars>>

\* Mutant of Reset: the counts of the run before are kept.
ResetNothing == UNCHANGED <<added_, removed_>>

Reset == added_' = 0 /\ removed_' = 0

\* Setup: the set is made and prefilled, then the threads are started.
SetUpRun ==
  /\ main = "between"
  /\ \E s \in Scenarios, n \in ThreadCounts, kind \in {"libcds", "other"} :
       /\ run' = [scenario |-> s, threads |-> n]
       /\ hash_set_under_test_' = kind
       /\ set' = IF s.prefill THEN StartsPresent \cap 0 .. s.keys - 1 ELSE {}
       /\ pc' = [t \in Thread |-> IF t < n THEN "enter" ELSE "none"]
  /\ initial_size_' = Cardinality(set')
  /\ Reset
  /\ main' = "run"
  /\ UNCHANGED <<check_failed_, locals, guards, op, arg, answer, seen>>

-----------------------------------------------------------------------------
Running == {t \in Thread : pc[t] # "none"}

\* RunScenario(): the thread's guard, its steps, and the set under test.
EnterRun(t) ==
  /\ pc[t] = "enter"
  /\ IF hash_set_under_test_ = "libcds" THEN EnterLibcds(t)
                                        ELSE UNCHANGED <<depth_, attached>>
  /\ \E f \in BuildSteps(run.scenario, t, run.threads) : steps' = [steps EXCEPT ![t] = f]
  /\ pc' = [pc EXCEPT ![t] = "ready"]
  /\ UNCHANGED <<main, run, hash_set_under_test_, counts, index, thread_added,
                 thread_removed, collector_, set_vars>>

\* The framework lets all threads into the timed loop, and out of it, at once.
Barrier(from, to) ==
  /\ Running # {}
  /\ \A t \in Running : pc[t] = from
  /\ pc' = [t \in Thread |-> IF t \in Running THEN to ELSE "none"]
  /\ UNCHANGED <<main, run, hash_set_under_test_, counts, locals, guards, set_vars>>

StartLoop == Barrier("ready", "loop")
StopLoop == Barrier("stop", "count")

\* One iteration calls the operation of the next step ...
CallNext(t) ==
  /\ pc[t] = "loop"
  /\ index[t] < run.scenario.iterations
  /\ LET step == steps[t][index[t] % StepCount(run.scenario)]
     IN  HashSet!Call(t, step[1], step[2])
  /\ index' = [index EXCEPT ![t] = @ + 1]
  /\ UNCHANGED <<main, run, hash_set_under_test_, counts, pc, steps, thread_added,
                 thread_removed, guards>>

\* ... which does its work in the set ...
Work(t) ==
  /\ HashSet!TakeEffect(t) \/ HashSet!Answer(t)
  /\ UNCHANGED <<main, run, hash_set_under_test_, counts, pc, locals, guards>>

\* ... and counts what it answers.
CountAnswer(t) ==
  /\ HashSet!Return(t)
  /\ thread_added' = IF op[t] = "Add" /\ answer[t] = {TRUE}
                       THEN [thread_added EXCEPT ![t] = @ + 1] ELSE thread_added
  /\ thread_removed' = IF op[t] = "Remove" /\ answer[t] = {TRUE}
                         THEN [thread_removed EXCEPT ![t] = @ + 1] ELSE thread_removed
  /\ UNCHANGED <<main, run, hash_set_under_test_, counts, pc, steps, index, guards>>

LeaveLoop(t) ==
  /\ pc[t] = "loop"
  /\ index[t] = run.scenario.iterations
  /\ op[t] = "none"
  /\ pc' = [pc EXCEPT ![t] = "stop"]
  /\ UNCHANGED <<main, run, hash_set_under_test_, counts, locals, guards, set_vars>>

AddCounts(t) ==
  /\ \/ /\ pc[t] = "count"
        /\ added_' = added_ + thread_added[t]
        /\ pc' = [pc EXCEPT ![t] = "count_removed"]
        /\ UNCHANGED removed_
     \/ /\ pc[t] = "count_removed"
        /\ removed_' = removed_ + thread_removed[t]
        /\ pc' = [pc EXCEPT ![t] = "leave"]
        /\ UNCHANGED added_
  /\ UNCHANGED <<main, run, hash_set_under_test_, initial_size_, check_failed_, locals,
                 guards, set_vars>>

\* RunScenario() returns, its locals and then the guard are destroyed.
LeaveRun(t) ==
  /\ pc[t] = "leave"
  /\ IF hash_set_under_test_ = "libcds" THEN LeaveLibcds(t)
                                        ELSE UNCHANGED <<depth_, attached>>
  /\ steps' = [steps EXCEPT ![t] = nullptr]
  /\ index' = [index EXCEPT ![t] = 0]
  /\ thread_added' = [thread_added EXCEPT ![t] = 0]
  /\ thread_removed' = [thread_removed EXCEPT ![t] = 0]
  /\ pc' = [pc EXCEPT ![t] = "finished"]
  /\ UNCHANGED <<main, run, hash_set_under_test_, counts, collector_, set_vars>>

\* Teardown, once every thread has been joined; `delete` empties the set.
CheckRun ==
  /\ Running # {}
  /\ \A t \in Running : pc[t] = "finished"
  /\ check_failed_' = (check_failed_ \/ Cardinality(set) # initial_size_ + added_ - removed_)
  /\ set' = {}
  /\ hash_set_under_test_' = nullptr
  /\ run' = nullptr
  /\ pc' = [t \in Thread |-> "none"]
  /\ main' = "between"
  /\ UNCHANGED <<initial_size_, added_, removed_, locals, guards, op, arg, answer, seen>>

Ended ==
  /\ main = "ended"
  /\ UNCHANGED vars

RunScenario(t) ==
  EnterRun(t) \/ CallNext(t) \/ Work(t) \/ CountAnswer(t) \/ LeaveLoop(t)
    \/ AddCounts(t) \/ LeaveRun(t)

Next ==
  \/ Start \/ SetUpRun \/ StartLoop \/ StopLoop \/ CheckRun \/ End \/ Ended
  \/ \E t \in Thread : RunScenario(t)

Spec == Init /\ [][Next]_vars

-----------------------------------------------------------------------------
\* The check of a run never fails (benchmarks.cc:260): whatever run came
\* before and however the threads' calls and counts interleave, the size of
\* the set is what it started with and what the threads counted.
CheckNeverFails == ~check_failed_

\* Threads that work on windows of their own do not meet: while a call about
\* an element is under way no other thread changes whether it is present.
\* A thread that takes its window in order takes each element once, so that
\* none of its Adds finds the element there (benchmarks.cc:33, :35).
WindowsApart ==
  run # nullptr =>
    \A t \in Thread :
      /\ run.scenario.key_choice \in {"kDisjoint", "kSequential"} /\ answer[t] = {} =>
           Cardinality(seen[t]) <= 1
      /\ run.scenario.key_choice = "kSequential" /\ op[t] = "Add" => answer[t] # {FALSE}

\* Every thread that touches a libcds set is attached to the collector the
\* whole time, the main thread also between a run's threads and the set's
\* destruction, which retires nodes, and the collector outlives the sets and
\* the attachments (HashSetLibcds.h:17, :44).
AttachedWhileUsed ==
  /\ hash_set_under_test_ = "libcds" =>
       {Main} \cup {t \in Thread : op[t] # "none"} \subseteq attached
  /\ hash_set_under_test_ = "libcds" \/ attached # {} => collector_
=============================================================================
