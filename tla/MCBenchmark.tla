---------------------------- MODULE MCBenchmark ----------------------------
(* The driver's own table of scenarios, whose numbers are checked, and a    *)
(* small one of the same shapes for TLC to run.                             *)
EXTENDS Benchmark

Mix(contains, add, remove) ==
  [o \in {"Contains", "Add", "Remove"} |->
     CASE o = "Contains" -> contains [] o = "Add" -> add [] o = "Remove" -> remove]

Scenario(mix, key_choice, keys, iterations, prefill) ==
  [mix |-> mix, key_choice |-> key_choice, keys |-> keys, iterations |-> iterations,
   prefill |-> prefill]

kSmallKeys == 2 ^ 12
kLargeKeys == 2 ^ 20
kIterations == 200000
kGrowthKeys == 2 ^ 19
kGrowthIterations == 2 ^ 15

kThreadCounts == {1, 2, 4, 8, 16}

kScenarios ==
  {Scenario(Mix(100, 0, 0), "kShared", kSmallKeys, kIterations, TRUE)}
  \cup {Scenario(Mix(90, 5, 5), "kShared", keys, kIterations, TRUE) :
          keys \in {kSmallKeys, kLargeKeys}}
  \cup {Scenario(Mix(50, 25, 25), "kShared", keys, kIterations, TRUE) :
          keys \in {kSmallKeys, kLargeKeys}}
  \cup {Scenario(Mix(20, 40, 40), "kShared", kSmallKeys, kIterations, TRUE)}
  \cup {Scenario(Mix(50, 25, 25), choice, kLargeKeys, kIterations, TRUE) :
          choice \in {"kDisjoint", "kHotSpot"}}
  \cup {Scenario(Mix(0, 100, 0), "kSequential", kGrowthKeys, kGrowthIterations, FALSE)}

\* Every scenario is runnable with every number of threads: 16 threads just
\* fit into the growth scenario's keys.
ASSUME TableAssumption ==
  \A s \in kScenarios, n \in kThreadCounts : Runnable(s, n, 2 ^ 14, 100)

SmallScenarios ==
  {Scenario(Mix(50, 25, 25), "kShared", 2, 3, TRUE),
   Scenario(Mix(50, 25, 25), "kHotSpot", 2, 2, TRUE),
   Scenario(Mix(50, 25, 25), "kDisjoint", 4, 3, TRUE),
   Scenario(Mix(0, 100, 0), "kSequential", 4, 2, FALSE)}
=============================================================================
