-------------------------- MODULE BucketListProofs --------------------------
(***************************************************************************)
(* Proofs about BucketList, for any number of threads, elements, buckets   *)
(* and nodes: that the list stays sorted and leads to all that is linked   *)
(* in, that a node has one owner until it is freed, that no thread gets to *)
(* a node that may be freed, that the list is a linearizable set, and that *)
(* no step of it is taken in vain.                                         *)
(***************************************************************************)
EXTENDS BucketList, FiniteSetTheorems, TLAPS

-----------------------------------------------------------------------------
\* The inductive invariant, part by part.

\* The nodes that a thread may look at: those linked in, and those that were
\* when it entered its Guard.
Safe(t) == linked \cup {n \in Node : t \in readers[n]}

\* The nodes that no thread gets to by following references.
Private(n) == n \notin linked /\ readers[n] = {}

\* The root and the tail are always there.
Ends ==
  /\ {Root, Tail} \subseteq linked
  /\ key[Root] = 0 /\ elem[Root] = None
  /\ key[Tail] = kTailKey /\ elem[Tail] = None /\ next[Tail] = Ref(None, FALSE)

\* Every other node that is linked in has one node that leads to it, and none
\* leads to the root.
Chain ==
  /\ \A n \in linked \ {Tail} : next[n].ref \in linked \ {Root} /\ key[n] <= key[next[n].ref]
  /\ \A m, n \in linked \ {Tail} : next[m].ref = next[n].ref => m = n

Unique == \A m, n \in linked : key[m] = key[n] /\ elem[m] = elem[n] => m = n

\* A node has the key of its element, or is a sentinel, which is never removed.
Proper(n) ==
  IF elem[n] = None
    THEN ~next[n].marked /\ (n = Tail \/ \E b \in Bucket : key[n] = SentinelKey[b])
    ELSE elem[n] \in Elem /\ key[n] = OrdinaryKey[elem[n]]

List ==
  /\ Ends /\ Chain /\ Unique
  /\ \A n \in linked : readers[n] = {} /\ Proper(n)
  /\ Reachable = linked

\* A node that was unlinked while a thread was in its Guard leads it on.
Passing ==
  \A t \in Thread, n \in Node :
    t \in readers[n] =>
      /\ elem[n] \in Elem /\ key[n] = OrdinaryKey[elem[n]]
      /\ next[n].marked
      /\ next[n].ref \in Safe(t) /\ key[n] <= key[next[n].ref]

Guarded == \A t \in Thread, n \in Node : t \in readers[n] => op[t] # "none" /\ heap[n] # "free"

\* Where a thread has a predecessor, and where it has a node it will go on to.
Finding == {"load", "unlink", "retire"}
WithPred == Finding \cup {"window", "mark", "unlink_once", "retire_last"}
WithSucc == {"unlink", "retire", "mark", "unlink_once", "retire_last"}
Unsettled == {"idle", "gone", "find", "walk", "window", "mark"} \cup Finding

Local(t) ==
  /\ pc[t] \in {"idle", "gone"} => op[t] = "none" /\ head[t] = None
  /\ pc[t] \notin {"idle", "gone"} => op[t] # "none" /\ head[t] # None
  /\ op[t] \notin Operation => seen[t] = {}
  /\ pc[t] = "walk" => op[t] = "Contains"
  /\ pc[t] \in {"find", "window"} \cup Finding => op[t] \in {"Add", "Remove", "SentinelFor"}
  /\ pc[t] \in {"mark", "unlink_once", "retire_last"} => op[t] = "Remove"
  /\ pred[t] # None <=> pc[t] \in WithPred
  /\ curr[t] # None <=> pc[t] \in WithPred \cup {"walk"}
  /\ succ[t] # None <=> pc[t] \in WithSucc
  /\ node[t] # None =>
       op[t] \in {"Add", "SentinelFor"} /\ pc[t] \in {"find", "window"} \cup Finding
  /\ pc[t] \in Unsettled => answer[t] = {}
  /\ pc[t] \in {"unlink_once", "retire_last"} => answer[t] = {TRUE}
  /\ pc[t] = "done" => answer[t] # {}
  /\ pc[t] = "throw" => Failures # {}

Locals ==
  /\ \A t \in Thread : Local(t)
  /\ \A t, u \in Thread : pc[t] = "gone" => pc[u] = "gone"

\* What a thread's pointers lead to.
Holds(t) ==
  /\ {head[t], pred[t], curr[t], succ[t]} \ {None} \subseteq Safe(t)
  /\ op[t] # "none" =>
       /\ head[t] \in linked \ {Tail} /\ elem[head[t]] = None
       /\ pc[t] # "done" => key[head[t]] < Key(t)
  /\ pred[t] # None =>
       pred[t] # Tail /\ key[pred[t]] <= Key(t) /\ ~Matches(t, pred[t])
  /\ pc[t] \in WithSucc \ {"mark"} => next[curr[t]] = Ref(succ[t], TRUE)
  /\ pc[t] \in {"retire", "retire_last"} => t \in readers[curr[t]]
  /\ pc[t] = "window" => AtOrPast(t, curr[t])
  /\ pc[t] \in {"mark", "unlink_once", "retire_last"} => Matches(t, curr[t])
  /\ op[t] = "SentinelFor" /\ pc[t] = "done" =>
       \A n \in answer[t] : n \in linked /\ key[n] = Key(t)

\* A node not linked in yet is its thread's own.
Fresh(t) ==
  node[t] # None =>
    /\ Private(node[t]) /\ ~next[node[t]].marked
    /\ key[node[t]] = Key(t)
    /\ next[node[t]].ref \in Safe(t) /\ Key(t) <= key[next[node[t]].ref]

\* Who has a node that is in use but not linked in.
Owners ==
  /\ \A t, u \in Thread : node[t] # None /\ node[t] = node[u] => t = u
  /\ \A t, u \in Thread : Unretired(t) \cap Unretired(u) # {} => t = u
  /\ \A n \in lost : Private(n) /\ \A t \in Thread : n # node[t]
  /\ \A n \in Node :
       heap[n] = "used" <=>
         \/ n \in linked \cup lost
         \/ \E t \in Thread : n = node[t] \/ n \in Unretired(t)

\* Whatever a thread looks for is behind n, if it is in the list.
Behind(t, n) == \A x \in linked : Matches(t, x) => x \in From(next, n)

\* The node a search goes on with.
Cursor(t) == IF pc[t] = "retire" THEN succ[t] ELSE curr[t]

Searches(t) ==
  /\ pred[t] # None /\ pred[t] \in linked => Behind(t, pred[t])
  /\ pc[t] \in Finding =>
       /\ Cursor(t) \in linked /\ key[Cursor(t)] <= Key(t) => Behind(t, Cursor(t))
       /\ op[t] \in Operation /\ key[Cursor(t)] > Key(t) => FALSE \in seen[t]
  /\ pc[t] = "window" /\ op[t] \in Operation => Matches(t, curr[t]) \in seen[t]

\* A thread in a call has seen what is the case now.
Sees(t) == op[t] \in Operation => (arg[t] \in Members) \in seen[t]

\* A thread that walks, and has always seen its element, walks towards it.
Walks(t) ==
  pc[t] = "walk" /\ FALSE \notin seen[t] =>
    \E n \in From(next, curr[t]) :
      /\ n \in linked /\ ~next[n].marked
      /\ \A m \in From(next, curr[t]) : Matches(t, m) <=> m = n

Memory == List /\ Passing /\ Guarded

Search(t) == Holds(t) /\ Fresh(t) /\ Searches(t) /\ Walks(t)

\* Once all is destroyed, only what was lost is left.
Gone ==
  \A n \in Node : heap[n] = (IF n \in lost THEN "used" ELSE "free") /\ ~(n \in lost /\ n \in linked)

IInv ==
  /\ TypeOK
  /\ Locals
  /\ Up => Memory /\ Owners /\ \A t \in Thread : Search(t) /\ Sees(t)
  /\ ~Up => Gone

-----------------------------------------------------------------------------
\* What references lead to, whatever they are.

LEMMA FromIsLeast ==
  ASSUME NEW f, NEW n \in Node, NEW S \in SUBSET Node, n \in S,
         \A k \in S : f[k].ref \in S \cup {None}
  PROVE  From(f, n) \subseteq S
  BY DEF From

LEMMA FromItself ==
  ASSUME NEW f, NEW n \in Node
  PROVE  n \in From(f, n)
  BY DEF From

LEMMA FromNodes ==
  ASSUME NEW f, NEW n
  PROVE  From(f, n) \in SUBSET Node
  BY DEF From

\* From is closed under references.
LEMMA FromLeadsOn ==
  ASSUME NEW f, NEW n, NEW k \in From(f, n), f[k].ref \in Node
  PROVE  f[k].ref \in From(f, n)
  BY NodeAssumption DEF From

LEMMA FromIsClosed ==
  ASSUME NEW f, NEW n, \A k \in Node : f[k].ref \in Node \cup {None}
  PROVE  \A k \in From(f, n) : f[k].ref \in From(f, n) \cup {None}
  BY FromLeadsOn, FromNodes

LEMMA FromFurther ==
  ASSUME NEW f, NEW n, NEW m \in From(f, n), \A k \in Node : f[k].ref \in Node \cup {None}
  PROVE  From(f, m) \subseteq From(f, n)
  BY FromIsLeast, FromNodes, FromIsClosed

\* What is behind a node, and is not the node, is behind the next one.
LEMMA FromTheNext ==
  ASSUME NEW f, NEW n \in Node, NEW m \in From(f, n), m # n,
         \A k \in Node : f[k].ref \in Node \cup {None}
  PROVE  f[n].ref \in Node /\ m \in From(f, f[n].ref)
  <1>1. CASE f[n].ref = None
    <2> DEFINE S == {n}
    <2>1. S \in SUBSET Node /\ n \in S /\ \A k \in S : f[k].ref \in S \cup {None}
      BY <1>1
    <2> HIDE DEF S
    <2>2. From(f, n) \subseteq S
      BY <2>1, FromIsLeast
    <2> QED
      BY <2>2 DEF S
  <1>2. CASE f[n].ref \in Node
    <2> DEFINE S == {n} \cup From(f, f[n].ref)
    <2>1. S \in SUBSET Node /\ n \in S
      BY FromNodes
    <2>2. \A k \in S : f[k].ref \in S \cup {None}
      BY <1>2, FromItself, FromIsClosed
    <2> HIDE DEF S
    <2>3. From(f, n) \subseteq S
      BY <2>1, <2>2, FromIsLeast
    <2> QED
      BY <1>2, <2>3 DEF S
  <1> QED
    BY <1>1, <1>2

\* References that are the same lead to the same.
LEMMA FromTheSame ==
  ASSUME NEW f, NEW g, NEW n \in Node,
         \A k \in Node : f[k].ref \in Node \cup {None},
         \A k \in Node : g[k].ref \in Node \cup {None},
         \A k \in From(f, n) : g[k].ref = f[k].ref
  PROVE  From(g, n) = From(f, n)
  <1>1. From(g, n) \subseteq From(f, n)
    BY FromIsLeast, FromNodes, FromItself, FromIsClosed
  <1>2. From(f, n) \subseteq From(g, n)
    <2> DEFINE S == From(f, n) \cap From(g, n)
    <2>1. S \in SUBSET Node /\ n \in S
      BY FromNodes, FromItself
    <2>2. \A k \in S : f[k].ref \in S \cup {None}
      BY FromIsClosed
    <2>3. From(f, n) \subseteq S
      BY <2>1, <2>2, FromIsLeast
    <2> QED
      BY <2>3
  <1> QED
    BY <1>1, <1>2

\* A node that is skipped is all that is missed.
LEMMA FromSkipping ==
  ASSUME NEW f, NEW g, NEW p \in Node, NEW c \in Node, NEW m \in Node,
         \A k \in Node : f[k].ref \in Node \cup {None},
         \A k \in Node : g[k].ref \in Node \cup {None},
         f[p].ref = c, g[p].ref = f[c].ref, p # c,
         \A k \in Node \ {p} : g[k].ref = f[k].ref
  PROVE  From(g, m) \subseteq From(f, m) /\ From(f, m) \ {c} \subseteq From(g, m)
  <1>1. From(g, m) \subseteq From(f, m)
    <2>1. \A k \in From(f, m) : f[k].ref \in From(f, m) \cup {None}
      BY FromIsClosed
    <2>2. \A k \in From(f, m) : g[k].ref \in From(f, m) \cup {None}
      BY <2>1, FromNodes, NodeAssumption
    <2> QED
      BY <2>2, FromIsLeast, FromNodes, FromItself
  <1>2. From(f, m) \ {c} \subseteq From(g, m)
    <2>1. CASE p \in From(g, m)
      <3> DEFINE S == From(g, m) \cup {c}
      <3>1. S \in SUBSET Node /\ m \in S
        BY FromNodes, FromItself
      <3>2. \A k \in S : f[k].ref \in S \cup {None}
        BY <2>1, <3>1, FromIsClosed
      <3>3. From(f, m) \subseteq S
        BY <3>1, <3>2, FromIsLeast
      <3> QED
        BY <3>3
    <2>2. CASE p \notin From(g, m)
      <3>1. \A k \in From(g, m) : f[k].ref \in From(g, m) \cup {None}
        BY <2>2, FromNodes, FromIsClosed
      <3> QED
        BY <3>1, FromIsLeast, FromNodes, FromItself
    <2> QED
      BY <2>1, <2>2
  <1> QED
    BY <1>1, <1>2

\* A node that is put in between is all that is added, where it is passed.
LEMMA FromInserting ==
  ASSUME NEW f, NEW g, NEW p \in Node, NEW n \in Node, NEW m \in Node,
         \A k \in Node : f[k].ref \in Node \cup {None},
         \A k \in Node : g[k].ref \in Node \cup {None},
         g[p].ref = n, g[n].ref = f[p].ref, p # n,
         \A k \in Node \ {p, n} : g[k].ref = f[k].ref,
         n \notin From(f, m)
  PROVE  /\ From(f, m) \subseteq From(g, m)
         /\ From(g, m) \subseteq From(f, m) \cup {n}
         /\ p \in From(f, m) => n \in From(g, m)
  <1>1. From(g, m) \subseteq From(f, m) \cup {n}
    <2>1. CASE p \in From(f, m)
      <3> DEFINE S == From(f, m) \cup {n}
      <3>1. S \in SUBSET Node /\ m \in S
        BY FromNodes, FromItself
      <3>2. \A k \in S : g[k].ref \in S \cup {None}
        BY <2>1, <3>1, FromIsClosed
      <3> QED
        BY <3>1, <3>2, FromIsLeast
    <2>2. CASE p \notin From(f, m)
      <3>1. \A k \in From(f, m) : g[k].ref \in From(f, m) \cup {None}
        BY <2>2, FromNodes, FromIsClosed
      <3> QED
        BY <3>1, FromIsLeast, FromNodes, FromItself
    <2> QED
      BY <2>1, <2>2
  <1>2. From(f, m) \subseteq From(g, m)
    <2> DEFINE S == From(f, m) \cap From(g, m)
    <2>1. S \in SUBSET Node /\ m \in S
      BY FromNodes, FromItself
    <2>2. \A k \in From(f, m) : f[k].ref \in From(f, m) \cup {None}
      BY FromIsClosed
    <2>3. \A k \in From(g, m) : g[k].ref \in From(g, m) \cup {None}
      BY FromIsClosed
    <2>4. \A k \in S : f[k].ref \in S \cup {None}
      <3> SUFFICES ASSUME NEW k \in S
                   PROVE  f[k].ref \in S \cup {None}
        OBVIOUS
      <3>1. k # n /\ k \in Node
        BY <2>1
      <3>2. CASE k = p
        BY <2>2, <2>3, <3>2, NodeAssumption
      <3>3. CASE k # p
        BY <2>2, <2>3, <3>1, <3>3
      <3> QED
        BY <3>2, <3>3
    <2>5. From(f, m) \subseteq S
      BY <2>1, <2>4, FromIsLeast
    <2> QED
      BY <2>5
  <1>3. p \in From(f, m) => n \in From(g, m)
    BY <1>2, FromLeadsOn
  <1> QED
    BY <1>1, <1>2, <1>3

-----------------------------------------------------------------------------
\* The references that there are.

LEMMA References ==
  ASSUME TypeOK
  PROVE  /\ \A k \in Node : next[k].ref \in Node \cup {None} /\ next[k].marked \in BOOLEAN
         /\ \A k \in Node : next[k] = Ref(next[k].ref, next[k].marked)
         /\ \A k \in Node : key[k] \in 0 .. kTailKey
         /\ linked \in SUBSET Node
         /\ \A t \in Thread : Safe(t) \in SUBSET Node
  BY DEF TypeOK, Ref, Safe

\* A node that a thread may look at leads it to another that is not before it.
LEMMA SafeLeadsOn ==
  ASSUME TypeOK, List, Passing, NEW t \in Thread, NEW n \in Safe(t), n # Tail
  PROVE  next[n].ref \in Safe(t) /\ key[n] <= key[next[n].ref]
  BY DEF TypeOK, List, Chain, Passing, Safe

LEMMA SafeAhead ==
  ASSUME TypeOK, List, Passing, NEW t \in Thread, NEW n \in Safe(t)
  PROVE  /\ From(next, n) \subseteq Safe(t)
         /\ \A m \in From(next, n) : key[n] <= key[m]
  <1> DEFINE S == {m \in Safe(t) : key[n] <= key[m]}
  <1>1. S \in SUBSET Node /\ n \in S /\ n \in Node
    BY References
  <1>2. \A k \in S : next[k].ref \in S \cup {None}
    <2> SUFFICES ASSUME NEW k \in S
                 PROVE  next[k].ref \in S \cup {None}
      OBVIOUS
    <2>1. CASE k = Tail
      BY <2>1 DEF List, Ends, Ref
    <2>2. CASE k # Tail
      <3>1. next[k].ref \in Safe(t) /\ key[k] <= key[next[k].ref]
        BY <2>2, SafeLeadsOn
      <3> QED
        BY <1>1, <3>1, References
    <2> QED
      BY <2>1, <2>2
  <1> HIDE DEF S
  <1>3. From(next, n) \subseteq S
    BY <1>1, <1>2, FromIsLeast
  <1> QED
    BY <1>3 DEF S

LEMMA LinkedAhead ==
  ASSUME TypeOK, List, NEW n \in linked
  PROVE  /\ From(next, n) \subseteq linked
         /\ \A m \in From(next, n) : key[n] <= key[m]
  <1> DEFINE S == {m \in linked : key[n] <= key[m]}
  <1>1. S \in SUBSET Node /\ n \in S /\ n \in Node
    BY References
  <1>2. \A k \in S : next[k].ref \in S \cup {None}
    <2> SUFFICES ASSUME NEW k \in S
                 PROVE  next[k].ref \in S \cup {None}
      OBVIOUS
    <2>1. CASE k = Tail
      BY <2>1 DEF List, Ends, Ref
    <2>2. CASE k # Tail
      <3>1. next[k].ref \in linked /\ key[k] <= key[next[k].ref]
        BY <2>2 DEF List, Chain
      <3> QED
        BY <1>1, <3>1, References
    <2> QED
      BY <2>1, <2>2
  <1> HIDE DEF S
  <1>3. From(next, n) \subseteq S
    BY <1>1, <1>2, FromIsLeast
  <1> QED
    BY <1>3 DEF S

\* Of two nodes that are linked in, one leads to the other.
LEMMA InOneLine ==
  ASSUME TypeOK, List, NEW m \in linked, NEW n \in linked
  PROVE  n \in From(next, m) \/ m \in From(next, n)
  <1> DEFINE S == {x \in linked : m \in From(next, x) \/ x \in From(next, m)}
  <1> USE References, NodeAssumption
  <1>1. S \in SUBSET Node /\ Root \in S
    BY DEF List, Ends, Reachable
  <1>2. \A k \in S : next[k].ref \in S \cup {None}
    <2> SUFFICES ASSUME NEW k \in S, next[k].ref # None
                 PROVE  next[k].ref \in S
      OBVIOUS
    <2>1. k \in linked /\ next[k].ref \in Node
      OBVIOUS
    <2>2. next[k].ref \in linked
      BY <2>1, LinkedAhead, FromItself, FromLeadsOn
    <2>3. CASE k \in From(next, m)
      BY <2>1, <2>2, <2>3, FromLeadsOn
    <2>4. CASE m \in From(next, k) /\ m # k
      BY <2>1, <2>2, <2>4, FromTheNext
    <2>5. CASE m = k
      BY <2>3, <2>5, FromItself
    <2> QED
      BY <2>3, <2>4, <2>5
  <1> HIDE DEF S
  <1>3. From(next, Root) \subseteq S
    BY <1>1, <1>2, FromIsLeast
  <1> QED
    BY <1>3 DEF S, List, Reachable

\* The lower key comes first.
LEMMA LowerIsAhead ==
  ASSUME TypeOK, List, NEW m \in linked, NEW n \in linked, key[m] < key[n]
  PROVE  n \in From(next, m)
  BY InOneLine, LinkedAhead, References

LEMMA SafeNodes ==
  ASSUME TypeOK, List, Passing, NEW t \in Thread, NEW n \in Safe(t)
  PROVE  /\ n \in Node /\ Proper(n) /\ ~Private(n)
         /\ ~next[n].marked \/ elem[n] = None => n \in linked
  BY NodeAssumption DEF TypeOK, List, Passing, Safe, Private, Proper

-----------------------------------------------------------------------------
\* What a thread looks for.

\* The element a node has if it is what t looks for.
Sought(t) == IF op[t] = "SentinelFor" THEN None ELSE arg[t]

LEMMA Called ==
  ASSUME TypeOK, NEW t \in Thread
  PROVE  /\ op[t] \in Operation => arg[t] \in Elem /\ arg[t] # None
         /\ op[t] = "SentinelFor" => arg[t] \in Bucket
         /\ op[t] # "none" =>
              /\ Key(t) \in 0 .. kTailKey - 1
              /\ 0 <= Key(t) /\ Key(t) < kTailKey
         /\ op[t] \in {"Add", "Remove", "Contains", "SentinelFor", "none"}
  <1>1. op[t] \in {"Add", "Remove", "Contains", "SentinelFor", "none"}
    BY DEF TypeOK, Operation
  <1>2. op[t] \in Operation => arg[t] \in Elem
    BY DEF TypeOK, CallTypeOK, Operation
  <1>3. op[t] = "SentinelFor" => arg[t] \in Bucket
    BY DEF TypeOK, CallTypeOK, Operation
  <1>4. op[t] # "none" => Key(t) \in 0 .. kTailKey - 1
    BY <1>1, <1>2, <1>3, KeyAssumption DEF Key, Operation
  <1> QED
    BY <1>1, <1>2, <1>3, <1>4, KeyAssumption, NodeAssumption

LEMMA WhatMatches ==
  ASSUME TypeOK, NEW t \in Thread, op[t] # "none", NEW n \in Node, Proper(n)
  PROVE  Matches(t, n) <=> key[n] = Key(t) /\ elem[n] = Sought(t)
  <1>1. CASE op[t] = "SentinelFor"
    BY <1>1, Called, KeyAssumption DEF Matches, Sought, Key, Proper
  <1>2. CASE op[t] # "SentinelFor"
    BY <1>2 DEF Matches, Sought
  <1> QED
    BY <1>1, <1>2

-----------------------------------------------------------------------------
\* What a step does to the nodes.

\* It writes only to nodes that nobody can see.
Quiet(W) ==
  /\ \A n \in W : Private(n)
  /\ \A n \in Node \ W : key'[n] = key[n] /\ elem'[n] = elem[n] /\ next'[n] = next[n]
  /\ UNCHANGED <<readers, linked>>

\* It marks c.
Marks(c) ==
  /\ c \in linked /\ ~next[c].marked /\ elem[c] # None
  /\ next' = [next EXCEPT ![c] = Ref(next[c].ref, TRUE)]
  /\ UNCHANGED <<key, elem, readers, linked>>

\* It unlinks c, which is between p and s.
Removes(p, c, s) ==
  /\ p \in linked /\ next[p] = Ref(c, FALSE)
  /\ c \in Node /\ next[c] = Ref(s, TRUE)
  /\ next' = [next EXCEPT ![p] = Ref(s, FALSE)]
  /\ readers' = [readers EXCEPT ![c] = InGuard]
  /\ linked' = linked \ {c}
  /\ UNCHANGED <<key, elem>>

\* It links in n between p and c.
Inserts(n, p, c) ==
  /\ n \in Node /\ Private(n) /\ c \in Node
  /\ p \in linked /\ next[p] = Ref(c, FALSE)
  /\ \A k \in Node \ {n} : key'[k] = key[k] /\ elem'[k] = elem[k]
  /\ key[p] <= key'[n] /\ key'[n] < key[c] /\ Proper(n)'
  /\ \A x \in linked : ~(key[x] = key'[n] /\ elem[x] = elem'[n])
  /\ next' = [next EXCEPT ![n] = Ref(c, FALSE), ![p] = Ref(n, FALSE)]
  /\ linked' = linked \cup {n}
  /\ UNCHANGED readers

\* t leaves its Guard.
Leaves(t) ==
  /\ readers' = [n \in Node |-> readers[n] \ {t}]
  /\ UNCHANGED <<key, elem, next, linked>>

\* What t can see stays as it is, but for what is marked, unlinked or linked in.
Stable(t) ==
  /\ Safe(t) \subseteq Safe(t)'
  /\ linked' \cap Safe(t) \subseteq linked
  /\ \A n \in Safe(t) :
       key'[n] = key[n] /\ elem'[n] = elem[n] /\ (next[n].marked => next'[n] = next[n])
  /\ \A n \in linked : ~next[n].marked => n \in linked'
  /\ \A n \in Safe(t) :
       /\ From(next, n) \cap linked' \subseteq From(next', n)
       /\ From(next', n) \subseteq From(next, n) \cup (linked' \ linked)
  /\ \A n \in linked \cap linked', x \in linked' \ linked :
       key[n] <= key'[x] => x \in From(next', n)

Kept(n) == Private(n) => Private(n)' /\ key'[n] = key[n] /\ next'[n] = next[n]

LEMMA QuietStep ==
  ASSUME TypeOK, TypeOK', List, Passing, NEW W \in SUBSET Node, Quiet(W)
  PROVE  /\ List' /\ Passing' /\ Members' = Members
         /\ \A t \in Thread : Stable(t) /\ Safe(t)' = Safe(t)
         /\ \A n \in Node \ W : Kept(n)
  <1> USE References
  <1>1. \A n \in linked : n \in Node \ W
    BY DEF Quiet, Private
  <1>2. \A t \in Thread : Safe(t)' = Safe(t) /\ \A n \in Safe(t) : n \in Node \ W
    BY DEF Quiet, Private, Safe
  <1>3. /\ \A k \in Node : next[k].ref \in Node \cup {None}
        /\ \A k \in Node : next'[k].ref \in Node \cup {None}
    BY DEF TypeOK
  <1>4. \A n \in linked : From(next', n) = From(next, n)
    <2> SUFFICES ASSUME NEW n \in linked
                 PROVE  From(next', n) = From(next, n)
      OBVIOUS
    <2>1. \A k \in From(next, n) : next'[k].ref = next[k].ref
      BY <1>1, LinkedAhead DEF Quiet
    <2> QED
      BY <1>1, <1>3, <2>1, FromTheSame
  <1>5. \A t \in Thread : \A n \in Safe(t) : From(next', n) = From(next, n)
    <2> SUFFICES ASSUME NEW t \in Thread, NEW n \in Safe(t)
                 PROVE  From(next', n) = From(next, n)
      OBVIOUS
    <2>1. \A k \in From(next, n) : next'[k].ref = next[k].ref
      BY <1>2, SafeAhead DEF Quiet
    <2> QED
      BY <1>2, <1>3, <2>1, FromTheSame
  <1>6. \A n \in linked : key'[n] = key[n] /\ elem'[n] = elem[n] /\ next'[n] = next[n]
    BY <1>1 DEF Quiet
  <1>7. linked' = linked /\ readers' = readers
    BY DEF Quiet
  <1>8. List'
    <2>1. Ends'
      BY <1>6, <1>7 DEF List, Ends
    <2>2. Chain'
      BY <1>6, <1>7 DEF List, Chain
    <2>3. Unique'
      BY <1>6, <1>7 DEF List, Unique
    <2>4. \A n \in linked' : readers'[n] = {} /\ Proper(n)'
      BY <1>6, <1>7 DEF List, Proper
    <2>5. Reachable' = linked'
      BY <1>4, <1>7 DEF List, Ends, Reachable
    <2> QED
      BY <2>1, <2>2, <2>3, <2>4, <2>5 DEF List
  <1>9. Passing'
    <2> SUFFICES ASSUME NEW t \in Thread, NEW n \in Node, t \in readers[n]
                 PROVE  /\ elem'[n] \in Elem /\ key'[n] = OrdinaryKey[elem'[n]]
                        /\ next'[n].marked
                        /\ next'[n].ref \in Safe(t)' /\ key'[n] <= key'[next'[n].ref]
      BY <1>7 DEF Passing
    <2>1. n \in Safe(t) /\ next[n].ref \in Safe(t)
      BY DEF Passing, Safe
    <2>2. n \in Node \ W /\ next[n].ref \in Node \ W
      BY <1>2, <2>1
    <2> QED
      BY <1>2, <2>1, <2>2 DEF Quiet, Passing
  <1>10. Present' = Present /\ Members' = Members
    <2>1. Present' = Present
      BY <1>6, <1>7 DEF Present
    <2> QED
      BY <1>6, <2>1 DEF Members, Present
  <1>11. ASSUME NEW t \in Thread
         PROVE  Stable(t)
    BY <1>2, <1>5, <1>7 DEF Stable, Quiet
  <1>12. \A n \in Node \ W : Kept(n)
    BY <1>7 DEF Kept, Private, Quiet
  <1> QED
    BY <1>2, <1>8, <1>9, <1>10, <1>11, <1>12

LEMMA LeaveStep ==
  ASSUME TypeOK, TypeOK', List, Passing, NEW u \in Thread, Leaves(u)
  PROVE  /\ List' /\ Passing' /\ Members' = Members
         /\ \A t \in Thread \ {u} : Stable(t) /\ Safe(t)' = Safe(t)
         /\ \A n \in Node : Kept(n)
  <1> USE References
  <1>1. \A n \in Node : readers'[n] = readers[n] \ {u}
    BY DEF Leaves
  <1>2. UNCHANGED <<key, elem, next, linked>>
    BY DEF Leaves
  <1>3. \A t \in Thread \ {u} : Safe(t)' = Safe(t)
    BY <1>1, <1>2 DEF Safe
  <1>4. List'
    <2>1. Ends' /\ Chain' /\ Unique'
      BY <1>2 DEF List, Ends, Chain, Unique
    <2>2. \A n \in linked' : readers'[n] = {} /\ Proper(n)'
      BY <1>1, <1>2 DEF List, Proper
    <2>3. Reachable' = linked'
      BY <1>2 DEF List, Reachable
    <2> QED
      BY <2>1, <2>2, <2>3 DEF List
  <1>5. Passing'
    BY <1>1, <1>2, <1>3 DEF Passing, Safe
  <1>6. Members' = Members
    BY <1>2 DEF Members, Present
  <1>7. ASSUME NEW t \in Thread \ {u}
        PROVE  Stable(t)
    BY <1>2, <1>3 DEF Stable
  <1>8. \A n \in Node : Kept(n)
    BY <1>1, <1>2 DEF Kept, Private
  <1> QED
    BY <1>3, <1>4, <1>5, <1>6, <1>7, <1>8

LEMMA MarkStep ==
  ASSUME TypeOK, TypeOK', List, Passing, NEW c, Marks(c)
  PROVE  /\ List' /\ Passing' /\ Members' = Members \ {elem[c]} /\ elem[c] \in Members
         /\ \A t \in Thread : Stable(t)
         /\ \A n \in Node : Kept(n)
  <1> USE References
  <1>1. c \in linked /\ c \in Node /\ readers[c] = {} /\ c # Tail /\ elem[c] # None
    BY DEF Marks, List, Ends
  <1>2. UNCHANGED <<key, elem, readers, linked>>
    BY DEF Marks
  <1>3. /\ next'[c] = Ref(next[c].ref, TRUE)
        /\ \A k \in Node \ {c} : next'[k] = next[k]
        /\ \A k \in Node : next'[k].ref = next[k].ref
    BY <1>1 DEF Marks, TypeOK, Ref
  <1>4. \A t \in Thread : Safe(t)' = Safe(t)
    BY <1>2 DEF Safe
  <1>5. \A n \in Node : From(next', n) = From(next, n)
    <2> SUFFICES ASSUME NEW n \in Node
                 PROVE  From(next', n) = From(next, n)
      OBVIOUS
    <2>1. /\ \A k \in Node : next[k].ref \in Node \cup {None}
          /\ \A k \in Node : next'[k].ref \in Node \cup {None}
          /\ \A k \in From(next, n) : next'[k].ref = next[k].ref
      BY <1>3, FromNodes
    <2> QED
      BY <2>1, FromTheSame
  <1>6. List'
    <2>1. Ends'
      BY <1>1, <1>2, <1>3 DEF List, Ends
    <2>2. Chain' /\ Unique'
      BY <1>2, <1>3 DEF List, Chain, Unique
    <2>3. \A n \in linked' : readers'[n] = {} /\ Proper(n)'
      BY <1>1, <1>2, <1>3 DEF List, Proper
    <2>4. Reachable' = linked'
      BY <1>2, <1>5, NodeAssumption DEF List, Reachable
    <2> QED
      BY <2>1, <2>2, <2>3, <2>4 DEF List
  <1>7. Passing'
    BY <1>1, <1>2, <1>3, <1>4 DEF Passing
  <1>8. Members' = Members \ {elem[c]} /\ elem[c] \in Members
    <2>1. Present' = Present \ {c} /\ c \in Present
      BY <1>1, <1>2, <1>3 DEF Present, Marks, Ref
    <2>2. \A n \in Present \ {c} : elem[n] # elem[c]
      BY <1>1 DEF Present, List, Unique, Proper
    <2> QED
      BY <1>2, <2>1, <2>2 DEF Members
  <1>9. ASSUME NEW t \in Thread
        PROVE  Stable(t)
    <2>1. ~next[c].marked
      BY DEF Marks
    <2> QED
      BY <1>2, <1>3, <1>4, <1>5, <2>1 DEF Stable
  <1>10. \A n \in Node : Kept(n)
    BY <1>1, <1>2, <1>3 DEF Kept, Private
  <1> QED
    BY <1>6, <1>7, <1>8, <1>9, <1>10

LEMMA RemoveStep ==
  ASSUME TypeOK, TypeOK', List, Passing, Guarded, NEW p, NEW c, NEW s, Removes(p, c, s)
  PROVE  /\ List' /\ Passing' /\ Members' = Members
         /\ \A t \in InGuard : Stable(t)
         /\ \A n \in Node : Kept(n)
         /\ c \in linked /\ p # c /\ s \in linked' /\ \A t \in InGuard : t \in readers'[c]
  <1> USE References
  <1>1. /\ p \in linked /\ p \in Node /\ c \in Node /\ p # c
        /\ next[p].ref = c /\ next[c].ref = s /\ ~next[p].marked /\ next[c].marked
    BY DEF Removes, Ref
  <1>2. /\ linked' = linked \ {c} /\ UNCHANGED <<key, elem>>
        /\ readers'[c] = InGuard /\ \A k \in Node \ {c} : readers'[k] = readers[k]
        /\ next'[p] = Ref(s, FALSE) /\ \A k \in Node \ {p} : next'[k] = next[k]
    BY <1>1 DEF Removes, TypeOK
  <1>3. p # Tail /\ c \in linked \ {Root, Tail} /\ elem[c] # None
    BY <1>1, NodeAssumption DEF List, Ends, Chain, Ref, Proper
  <1>4. s \in linked \ {Root} /\ s # c /\ key[c] <= key[s] /\ key[p] <= key[s]
    <2>1. s \in linked \ {Root} /\ s # c /\ key[p] <= key[c] /\ key[c] <= key[s]
      BY <1>1, <1>3 DEF List, Chain
    <2>2. key[p] \in Int /\ key[c] \in Int /\ key[s] \in Int
      BY <1>1, <2>1
    <2> QED
      BY <2>1, <2>2
  <1>5. /\ \A k \in Node : next[k].ref \in Node \cup {None}
        /\ \A k \in Node : next'[k].ref \in Node \cup {None}
    BY DEF TypeOK
  <1>6. /\ next'[p].ref = next[c].ref
        /\ \A k \in Node \ {p} : next'[k].ref = next[k].ref
    BY <1>1, <1>2 DEF Ref
  <1>7. \A n \in Node : /\ From(next', n) \subseteq From(next, n)
                        /\ From(next, n) \ {c} \subseteq From(next', n)
    <2> SUFFICES ASSUME NEW n \in Node
                 PROVE  /\ From(next', n) \subseteq From(next, n)
                        /\ From(next, n) \ {c} \subseteq From(next', n)
      OBVIOUS
    <2> QED
      BY <1>1, <1>5, <1>6, FromSkipping
  <1>8. \A t \in InGuard : Safe(t) \subseteq Safe(t)'
    BY <1>2, <1>3 DEF Safe
  <1>9. \A t \in Thread, n \in Node : t \in readers[n] => t \in InGuard /\ n \notin linked
    BY DEF Guarded, InGuard, List
  <1>10. List'
    <2>1. Ends'
      BY <1>1, <1>2, <1>3 DEF List, Ends
    <2>2. ASSUME NEW n \in linked' \ {Tail}
          PROVE  next'[n].ref \in linked' \ {Root} /\ key'[n] <= key'[next'[n].ref]
      <3>1. CASE n = p
        <4>1. next'[n].ref = s
          BY <1>2, <3>1 DEF Ref
        <4> QED
          BY <1>2, <1>4, <3>1, <4>1
      <3>2. CASE n # p
        <4>1. next[n].ref # c
          BY <1>1, <1>2, <1>3, <2>2, <3>2 DEF List, Chain
        <4> QED
          BY <1>2, <2>2, <3>2, <4>1 DEF List, Chain
      <3> QED
        BY <3>1, <3>2
    <2>3. ASSUME NEW m \in linked' \ {Tail}, NEW n \in linked' \ {Tail},
                 next'[m].ref = next'[n].ref
          PROVE  m = n
      <3>1. \A k \in linked' \ {Tail, p} : next'[k].ref # s
        BY <1>1, <1>2, <1>3 DEF List, Chain
      <3>2. CASE m # p /\ n # p
        BY <1>2, <2>3, <3>2 DEF List, Chain
      <3> QED
        BY <1>2, <2>3, <3>1, <3>2 DEF Ref
    <2>4. Chain'
      BY <2>2, <2>3 DEF Chain
    <2>5. Unique'
      BY <1>2 DEF List, Unique
    <2>6. \A n \in linked' : readers'[n] = {} /\ Proper(n)'
      BY <1>2, <1>1 DEF List, Proper, Ref
    <2>7. Reachable' = linked'
      <3>1. From(next', Root) \subseteq linked'
        <4>1. linked' \in SUBSET Node /\ Root \in linked' /\ Root \in Node
          BY <1>2, <1>3, NodeAssumption DEF List, Ends
        <4>2. \A k \in linked' : next'[k].ref \in linked' \cup {None}
          BY <2>2, <2>1 DEF Ends, Ref
        <4> QED
          BY <4>1, <4>2, FromIsLeast
      <3>2. linked' \subseteq From(next', Root)
        BY <1>2, <1>7, NodeAssumption DEF List, Reachable
      <3> QED
        BY <3>1, <3>2 DEF Reachable
    <2> QED
      BY <2>1, <2>4, <2>5, <2>6, <2>7 DEF List
  <1>11. Passing'
    <2> SUFFICES ASSUME NEW t \in Thread, NEW n \in Node, t \in readers'[n]
                 PROVE  /\ elem'[n] \in Elem /\ key'[n] = OrdinaryKey[elem'[n]]
                        /\ next'[n].marked
                        /\ next'[n].ref \in Safe(t)' /\ key'[n] <= key'[next'[n].ref]
      BY DEF Passing
    <2>1. CASE n = c
      <3>1. next'[n] = next[c] /\ next[c].marked /\ next[c].ref = s
        BY <1>1, <1>2, <2>1
      <3>2. s \in Safe(t)'
        BY <1>2, <1>4 DEF Safe
      <3>3. elem[c] \in Elem /\ key[c] = OrdinaryKey[elem[c]]
        BY <1>3 DEF List, Proper
      <3> QED
        BY <1>2, <1>4, <2>1, <3>1, <3>2, <3>3
    <2>2. CASE n # c
      <3>1. t \in readers[n] /\ t \in InGuard /\ n # p
        BY <1>1, <1>2, <1>9, <2>2
      <3>2. next[n].ref \in Safe(t)'
        BY <1>8, <3>1 DEF Passing
      <3> QED
        BY <1>2, <3>1, <3>2 DEF Passing
    <2> QED
      BY <2>1, <2>2
  <1>12. Members' = Members
    <2>1. Present' = Present
      BY <1>1, <1>2 DEF Present, Ref
    <2> QED
      BY <1>2, <2>1 DEF Members
  <1>13. ASSUME NEW t \in InGuard
         PROVE  Stable(t)
    <2>1. \A n \in Safe(t) : n \in Node
      BY DEF InGuard
    <2>2. \A n \in Safe(t) : /\ From(next, n) \cap linked' \subseteq From(next', n)
                             /\ From(next', n) \subseteq From(next, n)
      BY <1>2, <1>7, <2>1
    <2>3. \A n \in Safe(t) : next[n].marked => next'[n] = next[n]
      BY <1>1, <1>2, <2>1
    <2>4. linked' \subseteq linked /\ \A n \in linked : ~next[n].marked => n \in linked'
      BY <1>1, <1>2
    <2> QED
      BY <1>2, <1>8, <2>2, <2>3, <2>4 DEF Stable
  <1>14. \A n \in Node : Kept(n)
    BY <1>1, <1>2, <1>3 DEF Kept, Private
  <1>15. \A t \in InGuard : t \in readers'[c]
    BY <1>2
  <1> QED
    BY <1>1, <1>2, <1>3, <1>4, <1>10, <1>11, <1>12, <1>13, <1>14, <1>15

LEMMA InsertStep ==
  ASSUME TypeOK, TypeOK', List, Passing, NEW n, NEW p, NEW c, Inserts(n, p, c)
  PROVE  /\ List' /\ Passing'
         /\ Members' = IF elem'[n] = None THEN Members ELSE Members \cup {elem'[n]}
         /\ elem'[n] # None => elem'[n] \notin Members
         /\ \A t \in Thread : Stable(t)
         /\ \A k \in Node \ {n} : Kept(k)
         /\ ~next'[n].marked
  <1> USE References
  <1>1. /\ p \in linked /\ p \in Node /\ n \in Node /\ n \notin linked /\ readers[n] = {}
        /\ p # n /\ next[p].ref = c /\ ~next[p].marked
        /\ key[p] <= key'[n] /\ key'[n] < key[c] /\ Proper(n)'
    BY DEF Inserts, Private, Ref
  <1>2. p # Tail /\ c \in linked \ {Root} /\ c # n /\ c \in Node
    BY <1>1, NodeAssumption DEF List, Ends, Chain, Inserts, Ref
  <1>3. /\ linked' = linked \cup {n} /\ UNCHANGED readers
        /\ \A k \in Node \ {n} : key'[k] = key[k] /\ elem'[k] = elem[k]
        /\ next'[n] = Ref(c, FALSE) /\ next'[p] = Ref(n, FALSE)
        /\ \A k \in Node \ {p, n} : next'[k] = next[k]
    BY <1>1 DEF Inserts, TypeOK
  <1>4. /\ next'[n].ref = next[p].ref /\ next'[p].ref = n
        /\ \A k \in Node \ {p, n} : next'[k].ref = next[k].ref
        /\ \A k \in Node : next[k].ref \in Node \cup {None}
        /\ \A k \in Node : next'[k].ref \in Node \cup {None}
    BY <1>1, <1>3 DEF TypeOK, Ref
  <1>5. \A k \in linked : k # n /\ next'[k].marked = next[k].marked
    <2> SUFFICES ASSUME NEW k \in linked
                 PROVE  next'[k].marked = next[k].marked
      BY <1>1
    <2>1. CASE k = p
      <3>1. next[k] = Ref(c, FALSE) /\ next'[k] = Ref(n, FALSE)
        BY <1>3, <2>1 DEF Inserts
      <3> QED
        BY <3>1 DEF Ref
    <2>2. CASE k # p
      BY <1>1, <1>3, <2>2
    <2> QED
      BY <2>1, <2>2
  <1>6. ASSUME NEW m \in Node, n \notin From(next, m)
        PROVE  /\ From(next, m) \subseteq From(next', m)
               /\ From(next', m) \subseteq From(next, m) \cup {n}
               /\ p \in From(next, m) => n \in From(next', m)
    BY <1>1, <1>4, <1>6, FromInserting
  <1>7. \A t \in Thread : n \notin Safe(t) /\ Safe(t) \subseteq Safe(t)'
    BY <1>1, <1>3 DEF Safe
  <1>8. List'
    <2>1. Ends'
      BY <1>1, <1>2, <1>3 DEF List, Ends
    <2>2. \A k \in linked' \ {Tail} : next'[k].ref \in linked' \ {Root}
                                      /\ key'[k] <= key'[next'[k].ref]
      <3> SUFFICES ASSUME NEW k \in linked' \ {Tail}
                   PROVE  next'[k].ref \in linked' \ {Root} /\ key'[k] <= key'[next'[k].ref]
        OBVIOUS
      <3>1. key'[n] \in Int /\ key[c] \in Int /\ key[p] \in Int /\ n # Root
        BY <1>1, <1>2 DEF TypeOK, List, Ends
      <3>2. CASE k = n
        <4>1. next'[k].ref = c /\ key'[c] = key[c]
          BY <1>1, <1>2, <1>3, <1>4, <3>2
        <4> QED
          BY <1>1, <1>2, <1>3, <3>1, <3>2, <4>1
      <3>3. CASE k = p
        BY <1>1, <1>3, <1>4, <3>1, <3>3
      <3>4. CASE k \notin {n, p}
        BY <1>1, <1>3, <1>4, <3>4 DEF List, Chain
      <3> QED
        BY <3>2, <3>3, <3>4
    <2>3. \A k, m \in linked' \ {Tail} : next'[m].ref = next'[k].ref => m = k
      <3>1. \A k \in linked' \ {Tail, p} : next'[k].ref # n
        <4> SUFFICES ASSUME NEW k \in linked' \ {Tail, p}
                     PROVE  next'[k].ref # n
          OBVIOUS
        <4>1. CASE k = n
          BY <1>1, <1>2, <1>4, <4>1
        <4>2. CASE k # n
          <5>1. next'[k].ref = next[k].ref /\ next[k].ref \in linked
            BY <1>3, <1>4, <4>2 DEF List, Chain
          <5> QED
            BY <1>1, <5>1
        <4> QED
          BY <4>1, <4>2
      <3>2. \A k \in linked' \ {Tail, p, n} : next'[k].ref # c
        BY <1>1, <1>2, <1>3, <1>4 DEF List, Chain
      <3>3. \A k, m \in linked' \ {Tail, p, n} : next'[m].ref = next'[k].ref => m = k
        BY <1>3, <1>4 DEF List, Chain
      <3> SUFFICES ASSUME NEW k \in linked' \ {Tail}, NEW m \in linked' \ {Tail},
                          next'[m].ref = next'[k].ref
                   PROVE  m = k
        OBVIOUS
      <3>4. next'[p].ref = n /\ next'[n].ref = c /\ c # n
        BY <1>1, <1>2, <1>4
      <3>5. CASE k = p \/ m = p
        BY <3>1, <3>4, <3>5
      <3>6. CASE k # p /\ m # p /\ (k = n \/ m = n)
        BY <3>2, <3>4, <3>6
      <3> QED
        BY <3>3, <3>5, <3>6
    <2>4. Chain'
      BY <2>2, <2>3 DEF Chain
    <2>5. Unique'
      BY <1>1, <1>3 DEF List, Unique, Inserts
    <2>6. \A k \in linked' : readers'[k] = {} /\ Proper(k)'
      <3>1. \A k \in linked : k \in Node \ {n} /\ readers'[k] = {} /\ Proper(k)
        BY <1>1, <1>3 DEF List
      <3>2. \A k \in linked : Proper(k)'
        BY <1>3, <1>5, <3>1 DEF Proper
      <3> QED
        BY <1>1, <1>3, <3>1, <3>2
    <2>7. Reachable' = linked'
      <3>1. Root \in Node /\ n \notin From(next, Root) /\ p \in From(next, Root)
        BY <1>1, NodeAssumption DEF List, Reachable
      <3> QED
        BY <1>3, <1>6, <3>1 DEF List, Reachable
    <2> QED
      BY <2>1, <2>4, <2>5, <2>6, <2>7 DEF List
  <1>9. Passing'
    <2> SUFFICES ASSUME NEW t \in Thread, NEW k \in Node, t \in readers'[k]
                 PROVE  /\ elem'[k] \in Elem /\ key'[k] = OrdinaryKey[elem'[k]]
                        /\ next'[k].marked
                        /\ next'[k].ref \in Safe(t)' /\ key'[k] <= key'[next'[k].ref]
      BY DEF Passing
    <2>1. t \in readers[k] /\ k \notin {n, p}
      BY <1>1, <1>3 DEF List
    <2>2. next[k].ref \in Safe(t) /\ next[k].ref # n /\ next[k].ref \in Node
      BY <1>7, <2>1 DEF Passing
    <2> QED
      BY <1>3, <1>7, <2>1, <2>2 DEF Passing
  <1>10. /\ Members' = IF elem'[n] = None THEN Members ELSE Members \cup {elem'[n]}
         /\ elem'[n] # None => elem'[n] \notin Members
    <2>1. \A k \in linked : next'[k].marked = next[k].marked /\ elem'[k] = elem[k]
      BY <1>3, <1>5
    <2>2. Present' = IF elem'[n] = None THEN Present ELSE Present \cup {n}
      BY <1>1, <1>3, <2>1 DEF Present, Ref
    <2>3. \A k \in Present : k # n /\ elem'[k] = elem[k]
      BY <1>1, <2>1 DEF Present
    <2>4. Members' = IF elem'[n] = None THEN Members ELSE Members \cup {elem'[n]}
      BY <2>2, <2>3 DEF Members
    <2>5. ASSUME NEW k \in Present, elem[k] = elem'[n], elem'[n] # None
          PROVE  FALSE
      BY <1>1, <2>5 DEF Present, List, Proper, Inserts
    <2> QED
      BY <2>4, <2>5 DEF Members
  <1>11. ASSUME NEW t \in Thread
         PROVE  Stable(t)
    <2>1. \A m \in Safe(t) : /\ m \in Node \ {n} /\ n \notin From(next, m)
                             /\ key'[m] = key[m] /\ elem'[m] = elem[m]
      BY <1>3, <1>7, SafeAhead
    <2>2. \A m \in Safe(t) : /\ From(next, m) \cap linked' \subseteq From(next', m)
                             /\ From(next', m) \subseteq From(next, m) \cup (linked' \ linked)
      BY <1>1, <1>3, <1>6, <2>1
    <2>3. ASSUME NEW m \in linked, key[m] <= key'[n]
          PROVE  n \in From(next', m)
      <3>1. m \in Node /\ n \notin From(next, m)
        BY <1>1, LinkedAhead
      <3>2. CASE p \in From(next, m)
        BY <1>6, <3>1, <3>2
      <3>3. CASE m \in From(next, p) /\ m # p
        <4>1. m \in From(next, c)
          BY <1>1, <1>4, <3>3, FromTheNext
        <4>2. key[c] <= key[m]
          BY <1>2, <4>1, LinkedAhead
        <4>3. key[c] \in Int /\ key[m] \in Int /\ key'[n] \in Int
          BY <1>1, <1>2, <3>1 DEF TypeOK
        <4> QED
          BY <1>1, <2>3, <4>2, <4>3
      <3> QED
        BY <1>1, <3>2, <3>3, InOneLine, FromItself
    <2>4. \A m \in Safe(t) : next[m].marked => next'[m] = next[m]
      BY <1>1, <1>3, <2>1
    <2> QED
      BY <1>1, <1>3, <1>7, <2>1, <2>2, <2>3, <2>4 DEF Stable
  <1>12. \A k \in Node \ {n} : Kept(k)
    BY <1>1, <1>3 DEF Kept, Private
  <1>13. ~next'[n].marked
    BY <1>3 DEF Ref
  <1> QED
    BY <1>8, <1>9, <1>10, <1>11, <1>12, <1>13

-----------------------------------------------------------------------------
\* Where a thread is, and what it holds there.

LEMMA Running ==
  ASSUME IInv, NEW t \in Thread, pc[t] # "gone"
  PROVE  /\ Up /\ TypeOK /\ List /\ Passing /\ Guarded /\ Owners
         /\ \A u \in Thread : /\ pc[u] # "gone" /\ Local(u) /\ Holds(u) /\ Fresh(u)
                              /\ Searches(u) /\ Sees(u) /\ Walks(u)
  BY DEF IInv, Up, Memory, Search, Locals

LEMMA Busy ==
  ASSUME IInv, NEW t \in Thread, pc[t] \notin {"idle", "gone"}
  PROVE  /\ t \in InGuard /\ op[t] # "none"
         /\ head[t] \in linked \ {Tail} /\ head[t] \in Safe(t) /\ head[t] \in Node
         /\ pc[t] \in WithPred =>
              pred[t] \in Safe(t) \ {Tail} /\ pred[t] \in Node /\ key[pred[t]] <= Key(t)
         /\ pc[t] \in WithPred \cup {"walk"} => curr[t] \in Safe(t) /\ curr[t] \in Node
         /\ pc[t] \in WithSucc => succ[t] \in Safe(t) /\ succ[t] \in Node
         /\ pc[t] \notin WithPred => pred[t] = None
         /\ pc[t] \notin WithPred \cup {"walk"} => curr[t] = None
         /\ pc[t] \notin WithSucc => succ[t] = None
  <1>1. Local(t) /\ Holds(t) /\ TypeOK
    BY Running
  <1>2. Safe(t) \in SUBSET Node
    BY <1>1, References
  <1>3. op[t] # "none" /\ head[t] # None /\ t \in InGuard
    BY <1>1 DEF Local, InGuard
  <1>4. head[t] \in linked \ {Tail} /\ head[t] \in Safe(t) /\ head[t] \in Node
    BY <1>1, <1>2, <1>3 DEF Holds
  <1>5. pc[t] \in WithPred =>
          pred[t] \in Safe(t) \ {Tail} /\ pred[t] \in Node /\ key[pred[t]] <= Key(t)
    BY <1>1, <1>2 DEF Holds, Local
  <1>6. pc[t] \in WithPred \cup {"walk"} => curr[t] \in Safe(t) /\ curr[t] \in Node
    BY <1>1, <1>2 DEF Holds, Local
  <1>7. pc[t] \in WithSucc => succ[t] \in Safe(t) /\ succ[t] \in Node
    BY <1>1, <1>2 DEF Holds, Local
  <1>8. /\ pc[t] \notin WithPred => pred[t] = None
        /\ pc[t] \notin WithPred \cup {"walk"} => curr[t] = None
        /\ pc[t] \notin WithSucc => succ[t] = None
    BY <1>1 DEF Local
  <1> QED
    BY <1>3, <1>4, <1>5, <1>6, <1>7, <1>8

\* All that a thread comes across but the tail leads on.
LEMMA NotTheTail ==
  ASSUME IInv, NEW t \in Thread, pc[t] \notin {"idle", "gone"}, NEW n \in Safe(t),
         \/ ~AtOrPast(t, n) \/ Matches(t, n) \/ next[n].marked \/ n \in linked \ {Tail}
  PROVE  /\ n # Tail /\ n \in Node /\ key[n] \in Int
         /\ next[n].ref \in Safe(t) /\ next[n].ref \in Node /\ next[n].ref # None
         /\ key[next[n].ref] \in Int /\ key[n] <= key[next[n].ref]
         /\ n \in linked => next[n].ref \in linked
         /\ next[n] = Ref(next[n].ref, next[n].marked)
  <1>1. TypeOK /\ List /\ Passing /\ op[t] # "none"
    BY Running, Busy
  <1>2. n # Tail
    <2>1. CASE ~AtOrPast(t, n) \/ Matches(t, n)
      <3>1. Key(t) < kTailKey /\ Key(t) \in Int /\ kTailKey \in Int
        BY <1>1, Called, KeyAssumption
      <3> QED
        BY <1>1, <2>1, <3>1 DEF List, Ends, AtOrPast, Matches
    <2>2. CASE next[n].marked
      BY <1>1, <2>2 DEF List, Ends, Ref
    <2> QED
      BY <2>1, <2>2
  <1>3. next[n].ref \in Safe(t) /\ key[n] <= key[next[n].ref]
    BY <1>1, <1>2, SafeLeadsOn
  <1>4. n \in linked => next[n].ref \in linked
    BY <1>1, <1>2 DEF List, Chain
  <1> QED
    BY <1>1, <1>2, <1>3, <1>4, References, NodeAssumption

\* Of what others do a thread notices only what it has seen.
Still(t) ==
  /\ pc'[t] = pc[t] /\ op'[t] = op[t] /\ arg'[t] = arg[t] /\ head'[t] = head[t]
  /\ pred'[t] = pred[t] /\ curr'[t] = curr[t] /\ succ'[t] = succ[t] /\ node'[t] = node[t]
  /\ answer'[t] = answer[t]
  /\ seen[t] \subseteq seen'[t]
  /\ op[t] \notin Operation => seen'[t] = seen[t]

LEMMA Observing ==
  ASSUME NEW e, NEW present, Observe(e, present), NEW t \in Thread
  PROVE  /\ seen[t] \subseteq seen'[t]
         /\ op[t] \notin Operation => seen'[t] = seen[t]
         /\ op[t] \in Operation /\ arg[t] = e => present \in seen'[t]
         /\ arg[t] # e => seen'[t] = seen[t]
  BY DEF Observe

LEMMA ObservingTypes ==
  ASSUME TypeOK, NEW e, NEW present \in BOOLEAN, Observe(e, present)
  PROVE  seen' \in [Thread -> SUBSET BOOLEAN]
  BY DEF TypeOK, Observe

LEMMA OthersAreStill ==
  ASSUME TypeOK, NEW t \in Thread, Calls(t) \/ Step(t)
  PROVE  \A u \in Thread \ {t} : Still(u)
  <1> SUFFICES ASSUME NEW u \in Thread \ {t}
               PROVE  Still(u)
    OBVIOUS
  <1> USE DEF TypeOK, Still, Goto, Forget, FindAgain, Done, Settle, Throw, call, locals
  <1>1. CASE Calls(t)
    BY <1>1 DEF Calls, Call, CallSentinelFor
  <1>2. CASE Find(t)
    BY <1>2 DEF Find, FindRetry, FindMarked, FindNext, FindWindow, FindUnlink
  <1>3. CASE AddFound(t) \/ NewThrows(t)
    BY <1>3 DEF AddFound, NewThrows
  <1>4. CASE \E n \in Node : AddLink(t, n)
    <2>1. PICK n \in Node : AddLink(t, n)
      BY <1>4
    <2>2. CASE Links(t)
      <3>1. seen[u] \subseteq seen'[u] /\ (op[u] \notin Operation => seen'[u] = seen[u])
        <4>1. Observe(arg[t], TRUE) \/ seen' = seen
          BY <2>1, <2>2 DEF AddLink
        <4> QED
          BY <4>1, Observing
      <3> QED
        BY <2>1, <2>2, <3>1 DEF AddLink
    <2>3. CASE ~Links(t)
      BY <2>1, <2>3 DEF AddLink
    <2> QED
      BY <2>2, <2>3
  <1>5. CASE Remove(t)
    <2>1. CASE RemoveAbsent(t) \/ RemoveLoad(t) \/ UnlinkOnce(t)
      BY <2>1 DEF RemoveAbsent, RemoveLoad, UnlinkOnce
    <2>2. CASE AttemptMark(t)
      <3>1. seen[u] \subseteq seen'[u] /\ (op[u] \notin Operation => seen'[u] = seen[u])
        <4>1. Observe(arg[t], FALSE) \/ seen' = seen
          BY <2>2 DEF AttemptMark
        <4> QED
          BY <4>1, Observing
      <3> QED
        BY <2>2, <3>1 DEF AttemptMark
    <2> QED
      BY <1>5, <2>1, <2>2 DEF Remove
  <1>6. CASE Contains(t)
    BY <1>6 DEF Contains, Walk, WalkEnds
  <1>7. CASE Retire(t) \/ RetireThrows(t)
    BY <1>7 DEF Retire, RetireThrows
  <1>8. CASE Return(t)
    BY <1>8 DEF Return
  <1> QED
    BY <1>1, <1>2, <1>3, <1>4, <1>5, <1>6, <1>7, <1>8 DEF Step, Add

LEMMA StillLocal ==
  ASSUME NEW t \in Thread, Local(t), Still(t)
  PROVE  Local(t)'
  BY DEF Local, Still

-----------------------------------------------------------------------------
\* Every step of a thread keeps the types.

LEMMA Deleting ==
  ASSUME TypeOK, NEW D, Delete(D)
  PROVE  /\ key' \in [Node -> 0 .. kTailKey]
         /\ elem' \in [Node -> Elem \cup {None}]
         /\ next' \in [Node -> [ref : Node \cup {None}, marked : BOOLEAN]]
         /\ heap' \in [Node -> {"free", "used", "retired"}]
         /\ \A n \in Node \ D : /\ key'[n] = key[n] /\ elem'[n] = elem[n]
                                /\ next'[n] = next[n] /\ heap'[n] = heap[n]
         /\ \A n \in Node \cap D : heap'[n] = "free"
  BY KeyAssumption DEF TypeOK, Delete, Ref

LEMMA Unlinking ==
  ASSUME TypeOK, NEW t \in Thread, Unlinked(t), succ[t] \in Node
  PROVE  /\ next' \in [Node -> [ref : Node \cup {None}, marked : BOOLEAN]]
         /\ readers' \in [Node -> SUBSET Thread]
         /\ linked' \subseteq Node
         /\ UNCHANGED <<key, elem, heap>>
  BY DEF TypeOK, Unlinked, InGuard, Ref

LEMMA CallTypes ==
  ASSUME IInv, NEW t \in Thread, Calls(t)
  PROVE  TypeOK'
  <1>1. pc[t] = "idle" /\ TypeOK
    BY DEF Calls, Call, CallSentinelFor, IInv
  <1>2. op[t] = "none" /\ answer[t] = {}
    BY <1>1, Running DEF Local, Unsettled
  <1>3. ASSUME NEW h \in Node, NEW o \in Operation, NEW e \in Elem, Call(t, o, e, h)
        PROVE  TypeOK'
    <2>1. CallTypeOK(t)'
      <3>1. op'[t] = o /\ arg'[t] = e /\ answer'[t] = {}
        BY <1>1, <1>2, <1>3 DEF Call, TypeOK
      <3>2. o # "SentinelFor"
        BY DEF Operation
      <3>3. arg'[t] \in CASE op'[t] \in Operation -> Elem
                          [] op'[t] = "SentinelFor" -> Bucket
                          [] OTHER -> {None}
        BY <3>1, <3>2
      <3> QED
        BY <3>1, <3>3 DEF CallTypeOK
    <2>2. \A u \in Thread \ {t} : CallTypeOK(u)'
      BY <1>1, <1>3 DEF Call, TypeOK, CallTypeOK
    <2>3. (e \in Members) \in BOOLEAN
      OBVIOUS
    <2> QED
      BY <1>1, <1>3, <2>1, <2>2, <2>3 DEF Call, TypeOK, nodes, Goto, Label
  <1>4. ASSUME NEW h \in Node, NEW b \in Bucket, CallSentinelFor(t, b, h)
        PROVE  TypeOK'
    <2>1. CallTypeOK(t)'
      <3>1. op'[t] = "SentinelFor" /\ arg'[t] = b /\ answer'[t] \subseteq Node
        BY <1>1, <1>2, <1>4 DEF CallSentinelFor, TypeOK, Settle, Done, Goto, Forget
      <3>2. "SentinelFor" \notin Operation
        BY DEF Operation
      <3>3. arg'[t] \in CASE op'[t] \in Operation -> Elem
                          [] op'[t] = "SentinelFor" -> Bucket
                          [] OTHER -> {None}
        BY <3>1, <3>2
      <3> QED
        BY <3>1, <3>3 DEF CallTypeOK
    <2>2. \A u \in Thread \ {t} : CallTypeOK(u)'
      BY <1>1, <1>4 DEF CallSentinelFor, TypeOK, CallTypeOK, Settle
    <2>3. answer' \in [Thread -> SUBSET (Node \cup BOOLEAN)]
      BY <1>1, <1>4 DEF CallSentinelFor, TypeOK, Settle
    <2> QED
      BY <1>1, <1>4, <2>1, <2>2, <2>3
      DEF CallSentinelFor, TypeOK, nodes, Goto, Label, Settle, Done, Forget, FindAgain
  <1> QED
    BY <1>3, <1>4 DEF Calls

LEMMA StepTypes ==
  ASSUME IInv, NEW t \in Thread, Step(t)
  PROVE  TypeOK'
  <1>1. pc[t] \notin {"idle", "gone"} /\ TypeOK
    BY DEF Step, Find, Add, Remove, Contains, FindRetry, FindMarked, FindNext, FindWindow,
      FindUnlink, AddFound, AddLink, NewThrows, RemoveAbsent, RemoveLoad, AttemptMark,
      UnlinkOnce, Walk, WalkEnds, Retire, RetireThrows, Return, IInv
  <1>2. /\ head[t] \in Node /\ next[head[t]].ref \in Node /\ t \in InGuard
        /\ pc[t] \in WithPred => pred[t] \in Node
        /\ pc[t] \in WithPred \cup {"walk"} => curr[t] \in Node
        /\ pc[t] \in WithSucc => succ[t] \in Node
    BY <1>1, Busy, NotTheTail
  <1>3. Local(t)
    BY <1>1, Running
  <1>4. InGuard \in SUBSET Thread
    BY DEF InGuard
  <1> USE <1>1, <1>2 DEF TypeOK, Goto, Label
  <1>5. CASE FindRetry(t)
    BY <1>5 DEF FindRetry, nodes, call, CallTypeOK
  <1>6. CASE FindMarked(t) \/ FindNext(t) \/ FindWindow(t)
    <2>1. curr[t] \in Node
      BY <1>6 DEF FindMarked, FindNext, FindWindow, WithPred, Finding
    <2>2. CASE FindMarked(t)
      BY <2>1, <2>2 DEF FindMarked, nodes, call, CallTypeOK
    <2>3. CASE FindNext(t)
      BY <2>1, <2>3 DEF FindNext, nodes, call, CallTypeOK
    <2>4. CASE FindWindow(t)
      BY <2>4 DEF FindWindow, nodes, call, locals, CallTypeOK
    <2> QED
      BY <1>6, <2>2, <2>3, <2>4
  <1>7. CASE FindUnlink(t)
    <2>1. CASE Unlinks(t)
      <3>1. Unlinked(t) /\ succ[t] \in Node
        BY <1>7, <2>1 DEF FindUnlink, WithSucc
      <3> QED
        BY <1>7, <2>1, <3>1, Unlinking DEF FindUnlink, call, locals, CallTypeOK
    <2>2. CASE ~Unlinks(t)
      BY <1>7, <2>2 DEF FindUnlink, FindAgain, Forget, nodes, call, CallTypeOK
    <2> QED
      BY <2>1, <2>2
  <1>8. CASE Retire(t)
    BY <1>8 DEF Retire, Done, Forget, call, CallTypeOK, WithSucc
  <1>9. CASE RetireThrows(t)
    BY <1>9 DEF RetireThrows, Throw, Forget, call, CallTypeOK, WithSucc
  <1>10. CASE AddFound(t)
    <2>1. answer' \in [Thread -> SUBSET (Node \cup BOOLEAN)] /\ CallTypeOK(t)'
      <3>1. CASE op[t] = "Add"
        BY <1>10, <3>1 DEF AddFound, call, CallTypeOK, Settle, Operation
      <3>2. CASE op[t] = "SentinelFor"
        BY <1>10, <3>2 DEF AddFound, call, CallTypeOK, Settle, Operation, WithPred
      <3> QED
        BY <1>10, <3>1, <3>2 DEF AddFound
    <2>2. \A u \in Thread \ {t} : CallTypeOK(u)'
      BY <1>10 DEF AddFound, call, CallTypeOK, Settle
    <2>3. /\ key' \in [Node -> 0 .. kTailKey]
          /\ elem' \in [Node -> Elem \cup {None}]
          /\ next' \in [Node -> [ref : Node \cup {None}, marked : BOOLEAN]]
          /\ heap' \in [Node -> {"free", "used", "retired"}]
      BY <1>10, Deleting DEF AddFound
    <2> QED
      BY <1>10, <2>1, <2>2, <2>3 DEF AddFound, Settle, Done, Forget, call
  <1>11. ASSUME NEW n \in Node, AddLink(t, n)
         PROVE  TypeOK'
    <2>1. op[t] \in {"Add", "SentinelFor"} /\ pc[t] = "window"
      BY <1>11 DEF AddLink
    <2>2. Key(t) \in 0 .. kTailKey
      BY <2>1, Called, KeyAssumption
    <2>3. (IF op[t] = "Add" THEN arg[t] ELSE None) \in Elem \cup {None}
      BY <2>1, Called DEF Operation
    <2>4. /\ key' \in [Node -> 0 .. kTailKey]
          /\ elem' \in [Node -> Elem \cup {None}]
          /\ heap' \in [Node -> {"free", "used", "retired"}]
      BY <1>11, <2>2, <2>3 DEF AddLink
    <2>5. next' \in [Node -> [ref : Node \cup {None}, marked : BOOLEAN]]
      <3>1. Ref(curr[t], FALSE) \in [ref : Node \cup {None}, marked : BOOLEAN]
        BY <2>1 DEF WithPred, Ref
      <3>2. Ref(n, FALSE) \in [ref : Node \cup {None}, marked : BOOLEAN]
        BY DEF Ref
      <3>3. CASE Links(t)
        <4>1. next' = [next EXCEPT ![n] = Ref(curr[t], FALSE), ![pred[t]] = Ref(n, FALSE)]
          BY <1>11, <3>3 DEF AddLink
        <4> QED
          BY <3>1, <3>2, <4>1
      <3>4. CASE ~Links(t)
        <4>1. next' = [next EXCEPT ![n] = Ref(curr[t], FALSE)]
          BY <1>11, <3>4 DEF AddLink
        <4> QED
          BY <3>1, <4>1
      <3> QED
        BY <3>3, <3>4
    <2>6. CASE Links(t)
      <3>1. answer' \in [Thread -> SUBSET (Node \cup BOOLEAN)] /\ CallTypeOK(t)'
        <4>1. CASE op[t] = "Add"
          <5>1. answer' = [answer EXCEPT ![t] = {TRUE}] /\ UNCHANGED call
            BY <1>11, <2>6, <4>1 DEF AddLink, Settle
          <5> QED
            BY <4>1, <5>1 DEF call, CallTypeOK, Operation
        <4>2. CASE op[t] = "SentinelFor"
          BY <1>11, <2>6, <4>2 DEF AddLink, call, CallTypeOK, Settle, Operation
        <4> QED
          BY <2>1, <4>1, <4>2
      <3>2. \A u \in Thread \ {t} : CallTypeOK(u)'
        BY <1>11, <2>6 DEF AddLink, call, CallTypeOK, Settle
      <3>3. seen' \in [Thread -> SUBSET BOOLEAN]
        <4>1. Observe(arg[t], TRUE) \/ seen' = seen
          BY <1>11, <2>6 DEF AddLink
        <4> QED
          BY <4>1, ObservingTypes
      <3>4. /\ UNCHANGED <<readers, call, lost>> /\ linked' = linked \cup {n}
            /\ node' = [node EXCEPT ![t] = None] /\ Done(t)
        BY <1>11, <2>6 DEF AddLink, Settle
      <3> QED
        BY <2>4, <2>5, <3>1, <3>2, <3>3, <3>4 DEF Done, Forget, call
    <2>7. CASE ~Links(t)
      <3>1. /\ UNCHANGED <<readers, call, lost, linked, answer, seen>>
            /\ node' = [node EXCEPT ![t] = n] /\ FindAgain(t)
        BY <1>11, <2>7 DEF AddLink
      <3> QED
        BY <2>4, <2>5, <3>1 DEF FindAgain, Forget, call, CallTypeOK
    <2> QED
      BY <2>6, <2>7
  <1>12. CASE NewThrows(t)
    BY <1>12 DEF NewThrows, Throw, Forget, nodes, call, CallTypeOK
  <1>13. CASE RemoveAbsent(t)
    <2>1. answer' \in [Thread -> SUBSET (Node \cup BOOLEAN)] /\ \A u \in Thread : CallTypeOK(u)'
      BY <1>13 DEF RemoveAbsent, call, CallTypeOK, Settle
    <2> QED
      BY <1>13, <2>1 DEF RemoveAbsent, Settle, Done, Forget, nodes, call
  <1>14. CASE RemoveLoad(t)
    BY <1>14 DEF RemoveLoad, nodes, call, CallTypeOK, WithPred
  <1>15. CASE AttemptMark(t)
    <2>1. CASE next[curr[t]] = Ref(succ[t], FALSE)
      <3>1. Observe(arg[t], FALSE) /\ answer' = [answer EXCEPT ![t] = {TRUE}]
        BY <1>15, <2>1 DEF AttemptMark
      <3>2. seen' \in [Thread -> SUBSET BOOLEAN]
        BY <3>1, ObservingTypes
      <3>3. op[t] = "Remove"
        BY <1>3, <1>15 DEF AttemptMark, Local
      <3>4. answer' \in [Thread -> SUBSET (Node \cup BOOLEAN)]
        BY <3>1
      <3>5. \A u \in Thread : CallTypeOK(u)'
        BY <1>15, <3>1, <3>3 DEF AttemptMark, CallTypeOK, call
      <3>6. next' \in [Node -> [ref : Node \cup {None}, marked : BOOLEAN]]
        <4>1. next' = [next EXCEPT ![curr[t]] = Ref(succ[t], TRUE)]
          BY <1>15, <2>1 DEF AttemptMark
        <4>2. Ref(succ[t], TRUE) \in [ref : Node \cup {None}, marked : BOOLEAN]
          BY <1>15 DEF AttemptMark, Ref, WithSucc
        <4> QED
          BY <4>1, <4>2
      <3> QED
        BY <1>15, <2>1, <3>2, <3>4, <3>5, <3>6 DEF AttemptMark, call, locals
    <2>2. CASE next[curr[t]] # Ref(succ[t], FALSE)
      BY <1>15, <2>2 DEF AttemptMark, FindAgain, Forget, call, CallTypeOK
    <2> QED
      BY <2>1, <2>2
  <1>16. CASE UnlinkOnce(t)
    <2>1. CASE Unlinks(t)
      <3>1. Unlinked(t) /\ succ[t] \in Node
        BY <1>16, <2>1 DEF UnlinkOnce, WithSucc
      <3> QED
        BY <1>16, <2>1, <3>1, Unlinking DEF UnlinkOnce, call, locals, CallTypeOK
    <2>2. CASE ~Unlinks(t)
      BY <1>16, <2>2 DEF UnlinkOnce, Done, Forget, nodes, call, CallTypeOK
    <2> QED
      BY <2>1, <2>2
  <1>17. CASE Walk(t)
    BY <1>17 DEF Walk, nodes, call, CallTypeOK
  <1>18. CASE WalkEnds(t)
    <2>1. op[t] = "Contains"
      BY <1>3, <1>18 DEF WalkEnds, Local
    <2>2. (Matches(t, curr[t]) /\ ~next[curr[t]].marked) \in BOOLEAN
      OBVIOUS
    <2>3. answer' \in [Thread -> SUBSET (Node \cup BOOLEAN)] /\ \A u \in Thread : CallTypeOK(u)'
      BY <1>18, <2>1, <2>2 DEF WalkEnds, call, CallTypeOK, Settle
    <2> QED
      BY <1>18, <2>3 DEF WalkEnds, Settle, Done, Forget, nodes, call
  <1>19. CASE Return(t)
    <2>1. \A u \in Thread \ {t} : CallTypeOK(u)'
      BY <1>19 DEF Return, CallTypeOK
    <2>2. CallTypeOK(t)'
      <3>1. op'[t] = "none" /\ arg'[t] = None /\ answer'[t] = {}
        BY <1>19 DEF Return
      <3> QED
        BY <3>1 DEF CallTypeOK, Operation
    <2> QED
      BY <1>19, <2>1, <2>2 DEF Return, locals
  <1> QED
    BY <1>5, <1>6, <1>7, <1>8, <1>9, <1>10, <1>11, <1>12, <1>13, <1>14, <1>15, <1>16, <1>17,
      <1>18, <1>19 DEF Step, Find, Add, Remove, Contains

-----------------------------------------------------------------------------
\* Every step of a thread keeps its locals as they are meant to be at each place.

LEMMA CallLocals ==
  ASSUME IInv, NEW t \in Thread, Calls(t)
  PROVE  Local(t)'
  <1>1. pc[t] = "idle" /\ TypeOK
    BY DEF Calls, Call, CallSentinelFor, IInv
  <1>2. Local(t)
    BY <1>1, Running
  <1> USE DEF TypeOK, Local, Goto, WithPred, WithSucc, Finding, Unsettled
  <1>3. ASSUME NEW h \in Node, NEW o \in Operation, NEW e \in Elem, Call(t, o, e, h)
        PROVE  Local(t)'
    <2>1. /\ op'[t] = o /\ o \in {"Add", "Remove", "Contains"} /\ head'[t] = h /\ h # None
          /\ pc'[t] = (IF o = "Contains" THEN "walk" ELSE "find")
          /\ curr'[t] = (IF o = "Contains" THEN h ELSE None)
          /\ pred'[t] = None /\ succ'[t] = None /\ node'[t] = None /\ answer'[t] = {}
      BY <1>1, <1>2, <1>3, NodeAssumption DEF Call, Operation
    <2> QED
      BY <2>1 DEF Operation
  <1>4. ASSUME NEW h \in Node, NEW b \in Bucket, CallSentinelFor(t, b, h)
        PROVE  Local(t)'
    <2>1. /\ op'[t] = "SentinelFor" /\ head'[t] = h /\ h # None /\ seen'[t] = {}
          /\ curr'[t] = None /\ pred'[t] = None /\ succ'[t] = None /\ node'[t] = None
          /\ \/ pc'[t] = "done" /\ answer'[t] = {h}
             \/ pc'[t] = "find" /\ answer'[t] = {}
      BY <1>1, <1>2, <1>4, NodeAssumption
      DEF CallSentinelFor, Operation, Settle, Done, FindAgain, Forget
    <2> QED
      BY <2>1
  <1> QED
    BY <1>3, <1>4 DEF Calls

LEMMA StepLocals ==
  ASSUME IInv, NEW t \in Thread, Step(t)
  PROVE  Local(t)'
  <1>1. pc[t] \notin {"idle", "gone"} /\ TypeOK
    BY DEF Step, Find, Add, Remove, Contains, FindRetry, FindMarked, FindNext, FindWindow,
      FindUnlink, AddFound, AddLink, NewThrows, RemoveAbsent, RemoveLoad, AttemptMark,
      UnlinkOnce, Walk, WalkEnds, Retire, RetireThrows, Return, IInv
  <1>2. /\ head[t] # None /\ next[head[t]].ref # None
        /\ pc[t] \in WithPred => pred[t] # None
        /\ pc[t] \in WithPred \cup {"walk"} => curr[t] \in Safe(t) /\ curr[t] # None
        /\ pc[t] \in WithSucc => succ[t] # None
    BY <1>1, Busy, NotTheTail, NodeAssumption
  <1>3. ASSUME \/ ~AtOrPast(t, curr[t]) \/ Matches(t, curr[t]) \/ next[curr[t]].marked,
               pc[t] \in WithPred \cup {"walk"}
        PROVE  next[curr[t]].ref # None
    BY <1>1, <1>2, <1>3, NotTheTail
  <1>4. Local(t)
    BY <1>1, Running
  <1>5. pc[t] \in {"unlink_once", "retire_last"} => TRUE \in answer[t]
    BY <1>4 DEF Local
  <1> USE <1>1, <1>2, <1>4 DEF TypeOK, Goto, Local, WithPred, WithSucc, Finding, Unsettled
  <1>6. CASE FindRetry(t)
    BY <1>6 DEF FindRetry, nodes, call
  <1>7. CASE FindMarked(t)
    BY <1>3, <1>7 DEF FindMarked, nodes, call
  <1>8. CASE FindNext(t)
    BY <1>3, <1>8 DEF FindNext, nodes, call
  <1>9. CASE FindWindow(t)
    BY <1>9 DEF FindWindow, nodes, call, locals
  <1>10. CASE FindUnlink(t)
    <2>1. CASE Unlinks(t)
      BY <1>10, <2>1 DEF FindUnlink, call, locals
    <2>2. CASE ~Unlinks(t)
      BY <1>10, <2>2 DEF FindUnlink, FindAgain, Forget, call
    <2> QED
      BY <2>1, <2>2
  <1>11. CASE Retire(t)
    <2>1. CASE pc[t] = "retire"
      BY <1>11, <2>1 DEF Retire, call
    <2>2. CASE pc[t] = "retire_last"
      <3>1. /\ pc'[t] = "done" /\ op'[t] = op[t] /\ head'[t] = head[t] /\ seen'[t] = seen[t]
            /\ pred'[t] = None /\ curr'[t] = None /\ succ'[t] = None
            /\ node'[t] = node[t] /\ answer'[t] = answer[t]
        BY <1>11, <2>2 DEF Retire, Done, Forget, call
      <3>2. node[t] = None /\ answer[t] # {} /\ op[t] = "Remove"
        BY <1>5, <2>2
      <3> QED
        BY <3>1, <3>2
    <2> QED
      BY <1>11, <2>1, <2>2 DEF Retire
  <1>12. CASE RetireThrows(t)
    BY <1>12 DEF RetireThrows, Throw, Forget, call
  <1>13. CASE AddFound(t)
    BY <1>13 DEF AddFound, call, Settle, Done, Forget
  <1>14. ASSUME NEW n \in Node, AddLink(t, n)
         PROVE  Local(t)'
    <2>1. op[t] \in {"Add", "SentinelFor"} /\ UNCHANGED call /\ n # None /\ pc[t] = "window"
      BY <1>14, NodeAssumption DEF AddLink
    <2>2. CASE Links(t)
      <3>1. /\ node' = [node EXCEPT ![t] = None] /\ Done(t)
            /\ Settle(t, IF op[t] = "Add" THEN TRUE ELSE n)
            /\ Observe(arg[t], TRUE) \/ seen' = seen
        BY <1>14, <2>2 DEF AddLink, Settle
      <3>2. answer'[t] # {}
        BY <3>1 DEF Settle
      <3>3. op[t] \notin Operation => seen'[t] = {}
        BY <3>1, Observing
      <3> QED
        BY <2>1, <3>1, <3>2, <3>3 DEF Done, Forget, call
    <2>3. CASE ~Links(t)
      <3>1. node' = [node EXCEPT ![t] = n] /\ FindAgain(t) /\ UNCHANGED <<answer, seen>>
        BY <1>14, <2>3 DEF AddLink
      <3> QED
        BY <2>1, <3>1 DEF FindAgain, Forget, call
    <2> QED
      BY <2>2, <2>3
  <1>15. CASE NewThrows(t)
    BY <1>15 DEF NewThrows, Throw, Forget, call
  <1>16. CASE RemoveAbsent(t)
    BY <1>16 DEF RemoveAbsent, Settle, Done, Forget, call
  <1>17. CASE RemoveLoad(t)
    BY <1>3, <1>17 DEF RemoveLoad, call
  <1>18. CASE AttemptMark(t)
    <2>1. CASE next[curr[t]] = Ref(succ[t], FALSE)
      <3>1. op[t] \notin Operation => seen'[t] = {}
        BY <1>18, <2>1, Observing DEF AttemptMark
      <3> QED
        BY <1>18, <2>1, <3>1 DEF AttemptMark, call, locals
    <2>2. CASE next[curr[t]] # Ref(succ[t], FALSE)
      BY <1>18, <2>2 DEF AttemptMark, FindAgain, Forget, call
    <2> QED
      BY <2>1, <2>2
  <1>19. CASE UnlinkOnce(t)
    <2>1. CASE Unlinks(t)
      BY <1>19, <2>1 DEF UnlinkOnce, call, locals
    <2>2. CASE ~Unlinks(t)
      <3>1. /\ pc'[t] = "done" /\ op'[t] = op[t] /\ head'[t] = head[t] /\ seen'[t] = seen[t]
            /\ pred'[t] = None /\ curr'[t] = None /\ succ'[t] = None
            /\ node'[t] = node[t] /\ answer'[t] = answer[t]
        BY <1>19, <2>2 DEF UnlinkOnce, Done, Forget, call
      <3>2. node[t] = None /\ answer[t] # {} /\ op[t] = "Remove"
        BY <1>5, <1>19 DEF UnlinkOnce
      <3> QED
        BY <3>1, <3>2
    <2> QED
      BY <2>1, <2>2
  <1>20. CASE Walk(t)
    BY <1>3, <1>20 DEF Walk, call
  <1>21. CASE WalkEnds(t)
    BY <1>21 DEF WalkEnds, Settle, Done, Forget, call
  <1>22. CASE Return(t)
    BY <1>22 DEF Return, locals, Operation
  <1> QED
    BY <1>6, <1>7, <1>8, <1>9, <1>10, <1>11, <1>12, <1>13, <1>14, <1>15, <1>16, <1>17, <1>18,
      <1>19, <1>20, <1>21, <1>22 DEF Step, Find, Add, Remove, Contains

\* No thread is gone before all are.
LEMMA StillThere ==
  ASSUME IInv, NEW t \in Thread, Calls(t) \/ Step(t)
  PROVE  pc[t] # "gone" /\ \A u \in Thread : pc[u] # "gone" /\ pc'[u] # "gone"
  <1>1. pc[t] # "gone" /\ TypeOK /\ pc'[t] # "gone"
    <2> USE DEF Goto, TypeOK
    <2>1. CASE Calls(t)
      BY <2>1 DEF Calls, Call, CallSentinelFor, IInv, Settle, Done, FindAgain
    <2>2. CASE Find(t) \/ Contains(t) \/ Retire(t) \/ RetireThrows(t) \/ Return(t)
      BY <2>2 DEF Find, Contains, FindRetry, FindMarked, FindNext, FindWindow, FindUnlink,
        Walk, WalkEnds, Retire, RetireThrows, Return, IInv, Settle, Done, FindAgain, Throw
    <2>3. CASE Add(t)
      BY <2>3 DEF Add, AddFound, AddLink, NewThrows, IInv, Settle, Done, FindAgain, Throw
    <2>4. CASE Remove(t)
      BY <2>4 DEF Remove, RemoveAbsent, RemoveLoad, AttemptMark, UnlinkOnce,
        IInv, Settle, Done, FindAgain
    <2> QED
      BY <2>1, <2>2, <2>3, <2>4 DEF Step
  <1>2. \A u \in Thread \ {t} : pc'[u] = pc[u]
    BY <1>1, OthersAreStill DEF Still
  <1> QED
    BY <1>1, <1>2, Running

LEMMA LocalsStep ==
  ASSUME IInv, NEW t \in Thread, Calls(t) \/ Step(t)
  PROVE  Locals'
  <1>1. \A u \in Thread : pc[u] # "gone" /\ pc'[u] # "gone" /\ Local(u)
    BY StillThere, Running
  <1>2. Local(t)'
    BY CallLocals, StepLocals
  <1>3. \A u \in Thread \ {t} : Local(u)'
    BY <1>1, OthersAreStill, StillLocal DEF IInv
  <1> QED
    BY <1>1, <1>2, <1>3 DEF Locals

-----------------------------------------------------------------------------
\* What each step does to the nodes.

\* A thread writes only to a node that is its own or nobody's, or it does one
\* of the four things that others notice.
Own(t) == {n \in Node : n = node[t] \/ heap[n] # "used"}

Effect(t) ==
  \/ \E W \in SUBSET Own(t) : Quiet(W)
  \/ Marks(curr[t]) /\ Observe(elem[curr[t]], FALSE)
  \/ Removes(pred[t], curr[t], succ[t])
  \/ \E n \in Own(t) : /\ Inserts(n, pred[t], curr[t])
                       /\ elem'[n] # None => Observe(elem'[n], TRUE)
  \/ Return(t) /\ Leaves(t)

LEMMA NothingWritten ==
  ASSUME NEW t \in Thread, UNCHANGED <<key, elem, next, readers, linked>>
  PROVE  Quiet({}) /\ Effect(t)
  <1>1. Quiet({})
    BY DEF Quiet
  <1> QED
    BY <1>1 DEF Effect

LEMMA Unmarked ==
  ASSUME IInv, NEW t \in Thread, pc[t] # "gone", NEW n \in Safe(t), ~next[n].marked
  PROVE  n \in linked
  BY Running, SafeNodes

\* Unlinking takes out a node that is linked in and marked.
LEMMA UnlinkedRemoves ==
  ASSUME IInv, NEW t \in Thread, pc[t] \in {"unlink", "unlink_once"}, Unlinks(t), Unlinked(t)
  PROVE  Removes(pred[t], curr[t], succ[t])
  <1>1. /\ pred[t] \in Safe(t) /\ pred[t] \in Node /\ curr[t] \in Node
        /\ next[curr[t]] = Ref(succ[t], TRUE)
    BY Busy, Running DEF WithPred, WithSucc, Finding, Holds
  <1>2. pred[t] \in linked
    BY <1>1, Unmarked DEF Unlinks, Ref
  <1> QED
    BY <1>1, <1>2 DEF Removes, Unlinks, Unlinked

\* Only a node that is in the list is marked.
LEMMA AttemptMarkMarks ==
  ASSUME IInv, NEW t \in Thread, AttemptMark(t), next[curr[t]] = Ref(succ[t], FALSE)
  PROVE  Marks(curr[t]) /\ elem[curr[t]] = arg[t] /\ arg[t] \in Elem /\ op[t] = "Remove"
  <1>1. pc[t] = "mark" /\ curr[t] \in Safe(t) /\ curr[t] \in Node
    BY Busy DEF AttemptMark, WithPred, Finding
  <1>2. op[t] = "Remove" /\ Matches(t, curr[t]) /\ TypeOK
    BY <1>1, Running DEF Local, Holds
  <1>3. elem[curr[t]] = arg[t] /\ arg[t] \in Elem /\ arg[t] # None
    BY <1>2, Called DEF Matches, Operation
  <1>4. curr[t] \in linked
    BY <1>1, Unmarked DEF Ref
  <1> QED
    BY <1>2, <1>3, <1>4 DEF AttemptMark, Marks, Ref

\* A node that is to be linked in can be seen by nobody yet.
LEMMA NewIsPrivate ==
  ASSUME IInv, NEW t \in Thread, NEW n \in Node, AddLink(t, n)
  PROVE  Private(n) /\ n \in Own(t) /\ n \notin lost
  <1>1. pc[t] = "window"
    BY DEF AddLink
  <1>2. Owners /\ Guarded /\ Fresh(t) /\ TypeOK
    BY <1>1, Running
  <1>3. CASE node[t] = None
    <2>1. heap[n] = "free"
      BY <1>3 DEF AddLink
    <2>2. n \notin linked \cup lost /\ readers[n] = {}
      BY <1>2, <2>1 DEF Owners, Guarded, TypeOK
    <2> QED
      BY <2>1, <2>2 DEF Private, Own
  <1>4. CASE node[t] # None
    BY <1>2, <1>4 DEF AddLink, Fresh, Own, Owners
  <1> QED
    BY <1>3, <1>4

\* What a thread would link in is not in the list: the list has not changed
\* between pred and curr.
LEMMA NotInTheList ==
  ASSUME IInv, NEW t \in Thread, pc[t] = "window", ~Matches(t, curr[t]), Links(t)
  PROVE  /\ pred[t] \in linked /\ curr[t] \in linked
         /\ key[pred[t]] <= Key(t) /\ Key(t) < key[curr[t]]
         /\ \A x \in linked : ~Matches(t, x)
  <1>1. /\ pred[t] \in Safe(t) \ {Tail} /\ pred[t] \in Node /\ curr[t] \in Node
        /\ op[t] # "none" /\ key[pred[t]] <= Key(t) /\ t \in Thread
    BY Busy DEF WithPred, Finding
  <1>2. pred[t] \in linked
    BY <1>1, Unmarked DEF Links, Ref
  <1>3. TypeOK /\ List /\ Holds(t) /\ Searches(t) /\ AtOrPast(t, curr[t])
    BY Running DEF Holds
  <1>4. curr[t] \in linked /\ next[pred[t]].ref = curr[t]
    BY <1>1, <1>2, <1>3 DEF Links, Ref, List, Chain
  <1>5. Key(t) \in Int /\ key[curr[t]] \in Int
    BY <1>1, <1>3, Called DEF TypeOK
  <1>6. Key(t) < key[curr[t]]
    BY <1>3, <1>5 DEF AtOrPast
  <1>7. ASSUME NEW x \in linked, Matches(t, x)
        PROVE  FALSE
    <2>1. x \in From(next, pred[t])
      BY <1>1, <1>2, <1>3, <1>7, NodeAssumption DEF Searches, Behind, TypeOK
    <2>2. x # pred[t]
      BY <1>1, <1>3, <1>7, NodeAssumption DEF Holds, TypeOK
    <2>3. x \in From(next, curr[t])
      BY <1>1, <1>3, <1>4, <2>1, <2>2, FromTheNext, References
    <2>4. key[curr[t]] <= key[x]
      BY <1>3, <1>4, <2>3, LinkedAhead
    <2> QED
      BY <1>5, <1>6, <1>7, <2>4 DEF Matches
  <1> QED
    BY <1>1, <1>2, <1>4, <1>6, <1>7

LEMMA AddLinkInserts ==
  ASSUME IInv, NEW t \in Thread, NEW n \in Node, AddLink(t, n), Links(t)
  PROVE  /\ Inserts(n, pred[t], curr[t])
         /\ key'[n] = Key(t) /\ elem'[n] = Sought(t)
  <1>1. /\ pc[t] = "window" /\ op[t] \in {"Add", "SentinelFor"} /\ ~Matches(t, curr[t])
        /\ key' = [key EXCEPT ![n] = Key(t)]
        /\ elem' = [elem EXCEPT ![n] = IF op[t] = "Add" THEN arg[t] ELSE None]
        /\ next' = [next EXCEPT ![n] = Ref(curr[t], FALSE), ![pred[t]] = Ref(n, FALSE)]
        /\ linked' = linked \cup {n} /\ UNCHANGED readers
    BY DEF AddLink
  <1>2. TypeOK /\ List /\ curr[t] \in Node /\ pred[t] \in Node /\ op[t] # "none"
    BY <1>1, Running, Busy DEF WithPred, Finding
  <1>3. Private(n)
    BY NewIsPrivate
  <1>4. /\ pred[t] \in linked /\ curr[t] \in linked
        /\ key[pred[t]] <= Key(t) /\ Key(t) < key[curr[t]]
        /\ \A x \in linked : ~Matches(t, x)
    BY <1>1, NotInTheList
  <1>5. key'[n] = Key(t) /\ elem'[n] = Sought(t)
    BY <1>1, <1>2 DEF Sought, TypeOK
  <1>6. \A k \in Node \ {n} : key'[k] = key[k] /\ elem'[k] = elem[k]
    BY <1>1, <1>2 DEF TypeOK
  <1>7. \A x \in linked : ~(key[x] = key'[n] /\ elem[x] = elem'[n])
    BY <1>2, <1>4, <1>5, WhatMatches, References DEF List
  <1>8. ~next'[n].marked
    <2>1. n # pred[t]
      BY <1>3, <1>4 DEF Private
    <2> QED
      BY <1>1, <1>2, <2>1 DEF Ref, TypeOK
  <1>9. Proper(n)'
    <2>1. CASE op[t] = "Add"
      <3>1. elem'[n] = arg[t] /\ arg[t] \in Elem /\ arg[t] # None /\ key'[n] = OrdinaryKey[arg[t]]
        BY <1>2, <1>5, <2>1, Called DEF Sought, Key, Operation
      <3> QED
        BY <3>1 DEF Proper
    <2>2. CASE op[t] = "SentinelFor"
      <3>1. elem'[n] = None /\ arg[t] \in Bucket /\ key'[n] = SentinelKey[arg[t]]
        BY <1>2, <1>5, <2>2, Called DEF Sought, Key
      <3> QED
        BY <1>8, <3>1 DEF Proper
    <2> QED
      BY <1>1, <2>1, <2>2
  <1>10. next[pred[t]] = Ref(curr[t], FALSE)
    BY DEF Links
  <1> QED
    BY <1>1, <1>2, <1>3, <1>4, <1>5, <1>6, <1>7, <1>9, <1>10 DEF Inserts

LEMMA AddLinkWritesItsOwn ==
  ASSUME IInv, NEW t \in Thread, NEW n \in Node, AddLink(t, n), ~Links(t)
  PROVE  Quiet({n}) /\ Effect(t)
  <1>1. Private(n) /\ n \in Own(t) /\ TypeOK
    BY NewIsPrivate DEF IInv
  <1>2. Quiet({n})
    BY <1>1 DEF AddLink, Quiet, TypeOK
  <1>3. {n} \in SUBSET Own(t)
    BY <1>1
  <1> QED
    BY <1>2, <1>3 DEF Effect

LEMMA AddFoundDeletesItsOwn ==
  ASSUME IInv, NEW t \in Thread, AddFound(t)
  PROVE  Quiet({node[t]} \ {None}) /\ Effect(t)
  <1>1. pc[t] = "window" /\ Delete({node[t]}) /\ UNCHANGED <<readers, linked>>
    BY DEF AddFound
  <1>2. Fresh(t) /\ TypeOK
    BY <1>1, Running
  <1> DEFINE W == {node[t]} \ {None}
  <1>3. W \in SUBSET Own(t) /\ \A n \in W : Private(n)
    BY <1>2 DEF Own, Fresh, TypeOK
  <1>4. Quiet(W)
    BY <1>1, <1>2, <1>3, Deleting, NodeAssumption DEF Quiet
  <1> QED
    BY <1>3, <1>4 DEF Effect

LEMMA StepEffect ==
  ASSUME IInv, NEW t \in Thread, Calls(t) \/ Step(t)
  PROVE  Effect(t)
  <1>1. CASE Calls(t)
    BY <1>1, NothingWritten DEF Calls, Call, CallSentinelFor, nodes
  <1>2. CASE FindRetry(t) \/ FindMarked(t) \/ FindNext(t) \/ FindWindow(t)
    BY <1>2, NothingWritten DEF FindRetry, FindMarked, FindNext, FindWindow, nodes
  <1>3. CASE FindUnlink(t) \/ UnlinkOnce(t)
    <2>1. CASE Unlinks(t)
      <3>1. pc[t] \in {"unlink", "unlink_once"} /\ Unlinked(t)
        BY <1>3, <2>1 DEF FindUnlink, UnlinkOnce
      <3> QED
        BY <2>1, <3>1, UnlinkedRemoves DEF Effect
    <2>2. CASE ~Unlinks(t)
      BY <1>3, <2>2, NothingWritten DEF FindUnlink, UnlinkOnce, nodes
    <2> QED
      BY <2>1, <2>2
  <1>4. CASE Retire(t) \/ RetireThrows(t)
    BY <1>4, NothingWritten DEF Retire, RetireThrows
  <1>5. CASE Add(t)
    <2>1. CASE AddFound(t)
      BY <2>1, AddFoundDeletesItsOwn
    <2>2. CASE NewThrows(t)
      BY <2>2, NothingWritten DEF NewThrows, nodes
    <2>3. ASSUME NEW n \in Node, AddLink(t, n)
          PROVE  Effect(t)
      <3>1. CASE Links(t)
        <4>1. elem'[n] # None => elem'[n] = arg[t] /\ op[t] = "Add"
          BY <2>3, <3>1, AddLinkInserts DEF Sought, AddLink
        <4>2. elem'[n] # None => Observe(elem'[n], TRUE)
          BY <2>3, <3>1, <4>1 DEF AddLink
        <4> QED
          BY <2>3, <3>1, <4>2, AddLinkInserts, NewIsPrivate DEF Effect
      <3>2. CASE ~Links(t)
        BY <2>3, <3>2, AddLinkWritesItsOwn
      <3> QED
        BY <3>1, <3>2
    <2> QED
      BY <1>5, <2>1, <2>2, <2>3 DEF Add
  <1>6. CASE RemoveAbsent(t) \/ RemoveLoad(t)
    BY <1>6, NothingWritten DEF RemoveAbsent, RemoveLoad, nodes
  <1>7. CASE AttemptMark(t)
    <2>1. CASE next[curr[t]] = Ref(succ[t], FALSE)
      BY <1>7, <2>1, AttemptMarkMarks DEF Effect, AttemptMark
    <2>2. CASE next[curr[t]] # Ref(succ[t], FALSE)
      BY <1>7, <2>2, NothingWritten DEF AttemptMark
    <2> QED
      BY <2>1, <2>2
  <1>8. CASE Contains(t)
    BY <1>8, NothingWritten DEF Contains, Walk, WalkEnds, nodes
  <1>9. CASE Return(t)
    BY <1>9 DEF Return, Leaves, Effect
  <1> QED
    BY <1>1, <1>2, <1>3, <1>4, <1>5, <1>6, <1>7, <1>8, <1>9 DEF Step, Find, Remove

\* After each step the list is in order, and others find what they hold as it was.
LEMMA MemoryStep ==
  ASSUME IInv, TypeOK', NEW t \in Thread, Calls(t) \/ Step(t)
  PROVE  /\ List' /\ Passing'
         /\ \A u \in InGuard \ {t} : Stable(u)
         /\ \A n \in Node \ Own(t) : Kept(n)
  <1>1. TypeOK /\ List /\ Passing /\ Guarded
    BY StillThere, Running
  <1>2. InGuard \subseteq Thread /\ Own(t) \subseteq Node
    BY DEF InGuard, Own
  <1>3. ASSUME NEW W \in SUBSET Own(t), Quiet(W)
        PROVE  /\ List' /\ Passing'
               /\ \A u \in InGuard \ {t} : Stable(u)
               /\ \A n \in Node \ Own(t) : Kept(n)
    BY <1>1, <1>2, <1>3, QuietStep
  <1>4. CASE Marks(curr[t]) /\ Observe(elem[curr[t]], FALSE)
    BY <1>1, <1>2, <1>4, MarkStep
  <1>5. CASE Removes(pred[t], curr[t], succ[t])
    BY <1>1, <1>2, <1>5, RemoveStep
  <1>6. ASSUME NEW n \in Own(t), Inserts(n, pred[t], curr[t])
        PROVE  /\ List' /\ Passing'
               /\ \A u \in InGuard \ {t} : Stable(u)
               /\ \A k \in Node \ Own(t) : Kept(k)
    BY <1>1, <1>2, <1>6, InsertStep
  <1>7. CASE Leaves(t)
    BY <1>1, <1>2, <1>7, LeaveStep
  <1> QED
    BY <1>3, <1>4, <1>5, <1>6, <1>7, StepEffect DEF Effect

-----------------------------------------------------------------------------
\* Who has which node.

LEMMA CallStays ==
  ASSUME NEW t \in Thread, Step(t), ~Return(t)
  PROVE  UNCHANGED call
  BY DEF Step, Find, Add, Remove, Contains, FindRetry, FindMarked, FindNext, FindWindow,
    FindUnlink, AddFound, AddLink, NewThrows, RemoveAbsent, RemoveLoad, AttemptMark,
    UnlinkOnce, Walk, WalkEnds, Retire, RetireThrows

\* A node that is freed was its thread's own.
LEMMA FreedWasOwn ==
  ASSUME TypeOK, NEW t \in Thread, Calls(t) \/ Step(t), NEW n \in Node, heap'[n] = "free"
  PROVE  heap[n] = "free" \/ n = node[t]
  <1>1. CASE Retire(t) \/ RetireThrows(t)
    BY <1>1 DEF Retire, RetireThrows, TypeOK
  <1>2. CASE AddFound(t)
    BY <1>2, Deleting DEF AddFound
  <1>3. CASE \E k \in Node : AddLink(t, k)
    BY <1>3 DEF AddLink, TypeOK
  <1>4. CASE Calls(t) \/ Find(t) \/ NewThrows(t) \/ Remove(t) \/ Contains(t) \/ Return(t)
    <2>1. heap' = heap
      BY <1>4 DEF Calls, Call, CallSentinelFor, Find, FindRetry, FindMarked, FindNext,
        FindWindow, FindUnlink, Unlinked, NewThrows, Remove, RemoveAbsent, RemoveLoad,
        AttemptMark, UnlinkOnce, Contains, Walk, WalkEnds, Return, nodes
    <2> QED
      BY <2>1
  <1> QED
    BY <1>1, <1>2, <1>3, <1>4 DEF Step, Add

\* A thread comes to wait for a node only while it is in a Guard, when the node
\* is unlinked.
LEMMA NewReaders ==
  ASSUME IInv, NEW t \in Thread, Calls(t) \/ Step(t), NEW u, NEW n \in Node, u \in readers'[n]
  PROVE  u \in readers[n] \/ (n \in linked /\ u \in InGuard)
  <1>1. TypeOK /\ List /\ Passing /\ Guarded
    BY StillThere, Running
  <1>2. CASE readers' = readers \/ Leaves(t)
    BY <1>2 DEF Leaves
  <1>3. CASE Removes(pred[t], curr[t], succ[t])
    <2>1. curr[t] \in Node /\ next[pred[t]].ref = curr[t] /\ pred[t] \in linked
      BY <1>3 DEF Removes, Ref
    <2>2. curr[t] \in linked
      BY <1>1, <2>1, NodeAssumption DEF List, Ends, Chain, Ref
    <2> QED
      BY <1>1, <1>3, <2>1, <2>2 DEF Removes, TypeOK
  <1> QED
    BY <1>2, <1>3, StepEffect DEF Effect, Quiet, Marks, Inserts

LEMMA GuardedStep ==
  ASSUME IInv, NEW t \in Thread, Calls(t) \/ Step(t)
  PROVE  Guarded'
  <1>1. TypeOK /\ List /\ Guarded /\ Owners /\ Local(t) /\ Fresh(t)
    BY StillThere, Running
  <1> SUFFICES ASSUME NEW u \in Thread, NEW n \in Node, u \in readers'[n]
               PROVE  op'[u] # "none" /\ heap'[n] # "free"
    BY DEF Guarded
  <1>2. u \in readers[n] \/ (n \in linked /\ u \in InGuard)
    BY NewReaders
  <1>3. op[u] # "none" /\ heap[n] # "free" /\ ~Private(n)
    BY <1>1, <1>2 DEF Guarded, InGuard, Owners, Private
  <1>4. heap'[n] # "free"
    BY <1>1, <1>3, FreedWasOwn, NodeAssumption DEF Fresh
  <1>5. op'[u] # "none"
    <2>1. CASE u # t
      BY <1>1, <1>3, <2>1, OthersAreStill DEF Still
    <2>2. CASE u = t
      <3>1. ~Return(t)
        BY <2>2 DEF Return
      <3>2. ~Calls(t)
        BY <1>1, <1>3, <2>2 DEF Calls, Call, CallSentinelFor, Local
      <3>3. UNCHANGED call
        BY <3>1, <3>2, CallStays
      <3> QED
        BY <1>3, <2>2, <3>3 DEF call
    <2> QED
      BY <2>1, <2>2
  <1> QED
    BY <1>4, <1>5

\* Who has what does not change if nobody takes or gives up a node.
LEMMA OwnersStay ==
  ASSUME Owners, UNCHANGED <<heap, linked, lost, node>>,
         \A n \in Node : readers'[n] \subseteq readers[n],
         \A u \in Thread : Unretired(u)' = Unretired(u),
         lost \in SUBSET Node
  PROVE  Owners'
  BY DEF Owners, Private

LEMMA UnlinkOwners ==
  ASSUME IInv, TypeOK', NEW t \in Thread, pc[t] \in {"unlink", "unlink_once"},
         Unlinks(t), Unlinked(t), UNCHANGED <<locals, lost>>,
         pc' = [pc EXCEPT ![t] = IF pc[t] = "unlink" THEN "retire" ELSE "retire_last"]
  PROVE  Owners'
  <1>1. TypeOK /\ List /\ Passing /\ Guarded /\ Owners /\ Removes(pred[t], curr[t], succ[t])
    BY Running, UnlinkedRemoves
  <1> DEFINE c == curr[t]
  <1>2. /\ c \in linked /\ c \in Node /\ linked' = linked \ {c}
        /\ \A n \in Node \ {c} : readers'[n] = readers[n]
        /\ UNCHANGED <<heap, node, lost, curr>>
    <2>1. c \in linked
      BY <1>1, RemoveStep
    <2>2. /\ c \in Node /\ linked' = linked \ {c}
          /\ readers' = [readers EXCEPT ![c] = InGuard]
      BY <1>1 DEF Removes
    <2>3. UNCHANGED <<heap, node, lost, curr>>
      BY DEF Unlinked, locals
    <2> QED
      BY <1>1, <2>1, <2>2, <2>3 DEF TypeOK
  <1>3. readers[c] = {} /\ c \notin lost /\ \A u \in Thread : c # node[u]
    <2>1. \A u \in Thread : Fresh(u)
      BY Running
    <2> QED
      BY <1>1, <1>2, <2>1, NodeAssumption DEF List, Owners, Private, Fresh
  <1>4. \A u \in Thread : c \notin Unretired(u)
    <2>1. \A u \in Thread : Holds(u)
      BY Running
    <2> QED
      BY <1>3, <2>1 DEF Holds, Unretired
  <1>5. Unretired(t)' = {c} /\ Unretired(t) = {}
    BY <1>1, <1>2 DEF Unretired, TypeOK
  <1>6. \A u \in Thread \ {t} : Unretired(u)' = Unretired(u)
    BY <1>1, <1>2 DEF Unretired, TypeOK
  <1>7. \A n \in Node : (\E u \in Thread : n = node'[u] \/ n \in Unretired(u)') <=>
                        n = c \/ \E u \in Thread : n = node[u] \/ n \in Unretired(u)
    BY <1>2, <1>5, <1>6
  <1>8. \A n \in lost' : Private(n)' /\ \A u \in Thread : n # node'[u]
    <2> SUFFICES ASSUME NEW n \in lost
                 PROVE  Private(n)' /\ \A u \in Thread : n # node'[u]
      BY <1>2
    <2>1. n \in Node \ {c} /\ n \notin linked /\ readers[n] = {} /\ \A u \in Thread : n # node[u]
      BY <1>1, <1>3 DEF Owners, Private, TypeOK
    <2> QED
      BY <1>2, <2>1 DEF Private
  <1>9. \A u, w \in Thread : Unretired(u)' \cap Unretired(w)' # {} => u = w
    BY <1>1, <1>4, <1>5, <1>6 DEF Owners
  <1>10. \A n \in Node : heap'[n] = "used" <=>
           \/ n \in linked' \cup lost'
           \/ \E u \in Thread : n = node'[u] \/ n \in Unretired(u)'
    BY <1>1, <1>2, <1>7 DEF Owners
  <1> QED
    BY <1>1, <1>2, <1>8, <1>9, <1>10 DEF Owners

LEMMA RetireOwners ==
  ASSUME IInv, TypeOK', NEW t \in Thread, Retire(t) \/ RetireThrows(t)
  PROVE  Owners'
  <1>1. pc[t] \in {"retire", "retire_last"}
    BY DEF Retire, RetireThrows
  <1>2. TypeOK /\ List /\ Owners /\ Holds(t) /\ Local(t) /\ \A u \in Thread : Fresh(u)
    BY <1>1, Running
  <1> DEFINE c == curr[t]
  <1>3. c \in Node /\ Unretired(t) = {c} /\ t \in readers[c]
    BY <1>1, <1>2, Busy DEF Holds, Unretired, WithPred, Finding
  <1>4. c \notin linked /\ c \notin lost /\ \A u \in Thread : c # node[u]
    BY <1>2, <1>3, NodeAssumption DEF List, Owners, Private, Fresh
  <1>5. \A u \in Thread \ {t} : c \notin Unretired(u)
    BY <1>2, <1>3 DEF Owners
  <1>6. heap' = [heap EXCEPT ![c] = "retired"] /\ UNCHANGED <<readers, linked>>
    BY DEF Retire, RetireThrows
  <1>7. Unretired(t)' = {} /\ \A u \in Thread \ {t} : Unretired(u)' = Unretired(u)
    <2>1. pc'[t] \notin {"retire", "retire_last"}
      BY <1>1, <1>2 DEF Retire, RetireThrows, Goto, Done, Throw, TypeOK
    <2>2. \A u \in Thread \ {t} : Still(u)
      BY <1>2, OthersAreStill DEF Step
    <2> QED
      BY <2>1, <2>2 DEF Unretired, Still
  <1>8. \A u \in Thread \ {t} : node'[u] = node[u]
    BY <1>2, OthersAreStill DEF Step, Still
  <1>9. \/ node'[t] = node[t] /\ lost' = lost
        \/ node'[t] = None /\ lost' = lost \cup ({node[t]} \ {None})
    BY <1>2 DEF Retire, RetireThrows, Throw, TypeOK
  <1>10. \A n \in lost' : Private(n)' /\ \A u \in Thread : n # node'[u]
    <2> SUFFICES ASSUME NEW n \in lost'
                 PROVE  Private(n)' /\ \A u \in Thread : n # node'[u]
      OBVIOUS
    <2>1. n \in lost \/ (n = node[t] /\ n # None /\ node'[t] = None)
      BY <1>9
    <2>2. CASE n \in lost
      BY <1>2, <1>6, <1>8, <1>9, <2>2, NodeAssumption DEF Owners, Private, TypeOK
    <2>3. CASE n = node[t] /\ n # None /\ node'[t] = None
      BY <1>2, <1>6, <1>8, <2>3 DEF Owners, Private, Fresh
    <2> QED
      BY <2>1, <2>2, <2>3
  <1>11. \A n \in Node : heap'[n] = "used" <=>
           \/ n \in linked' \cup lost'
           \/ \E u \in Thread : n = node'[u] \/ n \in Unretired(u)'
    <2> SUFFICES ASSUME NEW n \in Node
                 PROVE  heap'[n] = "used" <=>
                          \/ n \in linked \cup lost'
                          \/ \E u \in Thread : n = node'[u] \/ n \in Unretired(u)'
      BY <1>6
    <2>1. CASE n = c
      BY <1>2, <1>3, <1>4, <1>5, <1>6, <1>7, <1>8, <1>9, <2>1, NodeAssumption DEF TypeOK
    <2>2. CASE n # c
      <3>1. heap'[n] = heap[n]
        BY <1>2, <1>6, <2>2 DEF TypeOK
      <3>2. (\E u \in Thread : n \in Unretired(u)') <=> (\E u \in Thread : n \in Unretired(u))
        BY <1>3, <1>7, <2>2
      <3>3. n \in lost' \/ (\E u \in Thread : n = node'[u]) <=>
              n \in lost \/ (\E u \in Thread : n = node[u])
        BY <1>8, <1>9, NodeAssumption
      <3> QED
        BY <1>2, <3>1, <3>2, <3>3 DEF Owners
    <2> QED
      BY <2>1, <2>2
  <1>12. \A u, w \in Thread : node'[u] # None /\ node'[u] = node'[w] => u = w
    BY <1>2, <1>8, <1>9 DEF Owners
  <1>13. \A u, w \in Thread : Unretired(u)' \cap Unretired(w)' # {} => u = w
    BY <1>2, <1>7 DEF Owners
  <1> QED
    BY <1>10, <1>11, <1>12, <1>13 DEF Owners

LEMMA AddOwners ==
  ASSUME IInv, TypeOK', NEW t \in Thread, Add(t)
  PROVE  Owners'
  <1>1. pc[t] = "window"
    BY DEF Add, AddFound, AddLink, NewThrows
  <1>2. TypeOK /\ Owners /\ \A u \in Thread : Local(u) /\ Fresh(u)
    BY <1>1, Running
  <1>3. \A u \in Thread \ {t} : Still(u)
    BY <1>2, OthersAreStill DEF Step
  <1>4. Unretired(t) = {} /\ Unretired(t)' = {}
    <2>1. pc'[t] \notin {"retire", "retire_last"}
      <3>1. CASE AddFound(t) \/ NewThrows(t)
        BY <1>2, <3>1 DEF AddFound, NewThrows, Settle, Done, Throw, Goto, TypeOK
      <3>2. CASE \E n \in Node : AddLink(t, n)
        <4>1. Goto(t, "done") \/ Goto(t, "find")
          BY <3>2 DEF AddLink, Settle, Done, FindAgain
        <4> QED
          BY <1>2, <4>1 DEF Goto, TypeOK
      <3> QED
        BY <3>1, <3>2 DEF Add
    <2> QED
      BY <1>1, <2>1 DEF Unretired
  <1>5. \A u \in Thread : Unretired(u)' = Unretired(u)
    BY <1>3, <1>4 DEF Unretired, Still
  <1>6. readers' = readers /\ lost' = lost
    BY DEF Add, AddFound, AddLink, NewThrows, nodes
  <1>7. \A u \in Thread \ {t} : node'[u] = node[u]
    BY <1>3 DEF Still
  <1>8. CASE NewThrows(t)
    <2>1. UNCHANGED <<heap, linked>> /\ node[t] = None /\ node'[t] = None
      BY <1>2, <1>8 DEF NewThrows, Throw, nodes, TypeOK
    <2>2. node' = node
      BY <1>2, <1>7, <2>1 DEF TypeOK
    <2> QED
      BY <1>2, <1>5, <1>6, <2>1, <2>2, OwnersStay DEF TypeOK
  <1>9. CASE AddFound(t)
    <2>1. /\ linked' = linked /\ node'[t] = None
          /\ \A n \in Node : heap'[n] = IF n = node[t] THEN "free" ELSE heap[n]
      BY <1>2, <1>9 DEF AddFound, Delete, TypeOK
    <2>2. /\ node[t] \notin linked \cup lost
          /\ \A u \in Thread : node[t] \notin Unretired(u)
          /\ \A u \in Thread \ {t} : node[t] # None => node[t] # node[u]
      <3>1. \A u \in Thread : Unretired(u) # {} => readers[curr[u]] # {}
        BY <1>1, Running DEF Holds, Unretired
      <3>2. \A u \in Thread : Unretired(u) \subseteq Node
        <4>1. \A u \in Thread : pc[u] \in {"retire", "retire_last"} => curr[u] \in Node
          BY Busy DEF WithPred, Finding
        <4> QED
          BY <4>1 DEF Unretired
      <3> QED
        BY <1>2, <3>1, <3>2, NodeAssumption DEF Fresh, Owners, Private, TypeOK, Unretired
    <2>3. \A n \in lost' : Private(n)' /\ \A u \in Thread : n # node'[u]
      BY <1>2, <1>6, <1>7, <2>1, NodeAssumption DEF Owners, Private, TypeOK
    <2>4. \A u, w \in Thread : node'[u] # None /\ node'[u] = node'[w] => u = w
      BY <1>2, <1>7, <2>1 DEF Owners
    <2>5. \A u, w \in Thread : Unretired(u)' \cap Unretired(w)' # {} => u = w
      BY <1>2, <1>5 DEF Owners
    <2>6. ASSUME NEW n \in Node
          PROVE  heap'[n] = "used" <=>
                   \/ n \in linked' \cup lost'
                   \/ \E u \in Thread : n = node'[u] \/ n \in Unretired(u)'
      <3>1. CASE n = node[t]
        BY <1>5, <1>6, <1>7, <2>1, <2>2, <3>1, NodeAssumption
      <3>2. CASE n # node[t]
        BY <1>2, <1>5, <1>6, <1>7, <2>1, <3>2, NodeAssumption DEF Owners
      <3> QED
        BY <3>1, <3>2
    <2> QED
      BY <2>3, <2>4, <2>5, <2>6 DEF Owners
  <1>10. ASSUME NEW n \in Node, AddLink(t, n)
         PROVE  Owners'
    <2>1. /\ n \in Own(t) /\ n \notin lost /\ n # None
          /\ \A k \in Node : heap'[k] = IF k = n THEN "used" ELSE heap[k]
          /\ node[t] \in {n, None}
          /\ \/ linked' = linked \cup {n} /\ node'[t] = None
             \/ linked' = linked /\ node'[t] = n
      <3>1. n \in Own(t) /\ n \notin lost /\ n # None
        BY <1>10, NewIsPrivate, NodeAssumption
      <3>2. \A k \in Node : heap'[k] = IF k = n THEN "used" ELSE heap[k]
        BY <1>2, <1>10 DEF AddLink, TypeOK
      <3>3. node[t] \in {n, None}
        BY <1>10 DEF AddLink
      <3>4. \/ linked' = linked \cup {n} /\ node'[t] = None
            \/ linked' = linked /\ node'[t] = n
        <4>1. CASE Links(t)
          BY <1>2, <1>10, <4>1 DEF AddLink, TypeOK
        <4>2. CASE ~Links(t)
          BY <1>2, <1>10, <4>2 DEF AddLink, TypeOK
        <4> QED
          BY <4>1, <4>2
      <3> QED
        BY <3>1, <3>2, <3>3, <3>4
    <2>2. \A u \in Thread \ {t} : n # node[u]
      BY <1>2, <2>1 DEF Own, Owners
    <2>3. \A k \in lost' : Private(k)' /\ \A u \in Thread : k # node'[u]
      BY <1>2, <1>6, <1>7, <2>1, NodeAssumption DEF Owners, Private, TypeOK
    <2>4. \A u, w \in Thread : node'[u] # None /\ node'[u] = node'[w] => u = w
      BY <1>2, <1>7, <2>1, <2>2 DEF Owners
    <2>5. \A u, w \in Thread : Unretired(u)' \cap Unretired(w)' # {} => u = w
      BY <1>2, <1>5 DEF Owners
    <2>6. ASSUME NEW k \in Node
          PROVE  heap'[k] = "used" <=>
                   \/ k \in linked' \cup lost'
                   \/ \E u \in Thread : k = node'[u] \/ k \in Unretired(u)'
      <3>1. CASE k = n
        BY <2>1, <3>1
      <3>2. CASE k # n
        <4>1. (\E u \in Thread : k = node'[u]) <=> (\E u \in Thread : k = node[u])
          BY <1>7, <2>1, <3>2, NodeAssumption
        <4> QED
          BY <1>2, <1>5, <1>6, <2>1, <3>2, <4>1 DEF Owners
      <3> QED
        BY <3>1, <3>2
    <2> QED
      BY <2>3, <2>4, <2>5, <2>6 DEF Owners
  <1> QED
    BY <1>8, <1>9, <1>10 DEF Add

LEMMA OwnersStep ==
  ASSUME IInv, TypeOK', NEW t \in Thread, Calls(t) \/ Step(t)
  PROVE  Owners'
  <1>1. TypeOK /\ Owners /\ Local(t)
    BY StillThere, Running
  <1>2. \A u \in Thread \ {t} : Unretired(u)' = Unretired(u)
    BY <1>1, OthersAreStill DEF Still, Unretired
  <1>3. ASSUME pc[t] \notin {"retire", "retire_last"}, pc'[t] \notin {"retire", "retire_last"},
               UNCHANGED <<heap, linked, lost, node>>,
               \A n \in Node : readers'[n] \subseteq readers[n]
        PROVE  Owners'
    <2>1. \A u \in Thread : Unretired(u)' = Unretired(u)
      BY <1>2, <1>3 DEF Unretired
    <2> QED
      BY <1>1, <1>3, <2>1, OwnersStay DEF TypeOK
  <1> USE DEF TypeOK, Goto
  <1>4. CASE Calls(t)
    <2>1. /\ pc[t] = "idle" /\ pc'[t] \in {"done", "walk", "find"}
          /\ UNCHANGED <<heap, linked, lost, node, readers>>
      BY <1>1, <1>4 DEF Calls, Call, CallSentinelFor, nodes, Settle, Done, FindAgain
    <2> QED
      BY <1>3, <2>1
  <1>5. CASE FindRetry(t) \/ FindMarked(t) \/ FindNext(t) \/ FindWindow(t) \/ Walk(t)
    BY <1>1, <1>3, <1>5 DEF FindRetry, FindMarked, FindNext, FindWindow, Walk, nodes, locals
  <1>6. CASE RemoveAbsent(t) \/ RemoveLoad(t) \/ WalkEnds(t)
    BY <1>1, <1>3, <1>6 DEF RemoveAbsent, RemoveLoad, WalkEnds, nodes, Settle, Done
  <1>7. CASE AttemptMark(t)
    BY <1>1, <1>3, <1>7 DEF AttemptMark, FindAgain, locals
  <1>8. CASE Return(t)
    BY <1>1, <1>3, <1>8 DEF Return, locals
  <1>9. CASE FindUnlink(t)
    <2>1. CASE Unlinks(t)
      BY <1>9, <2>1, UnlinkOwners DEF FindUnlink
    <2>2. CASE ~Unlinks(t)
      BY <1>1, <1>3, <1>9, <2>2 DEF FindUnlink, FindAgain, nodes
    <2> QED
      BY <2>1, <2>2
  <1>10. CASE UnlinkOnce(t)
    <2>1. CASE Unlinks(t)
      BY <1>10, <2>1, UnlinkOwners DEF UnlinkOnce
    <2>2. CASE ~Unlinks(t)
      BY <1>1, <1>3, <1>10, <2>2 DEF UnlinkOnce, Done, nodes
    <2> QED
      BY <2>1, <2>2
  <1> QED
    BY <1>4, <1>5, <1>6, <1>7, <1>8, <1>9, <1>10, RetireOwners, AddOwners
    DEF Step, Find, Remove, Contains

-----------------------------------------------------------------------------
\* What a thread knows stays true while others take steps.

\* It is looking for the same.
Asks(t) == op'[t] = op[t] /\ arg'[t] = arg[t]

LEMMA SameSearch ==
  ASSUME NEW t \in Thread, Asks(t), Stable(t)
  PROVE  /\ Key(t)' = Key(t)
         /\ \A n \in Safe(t) : /\ key'[n] = key[n] /\ elem'[n] = elem[n] /\ n \in Safe(t)'
                               /\ Matches(t, n)' <=> Matches(t, n)
                               /\ AtOrPast(t, n)' <=> AtOrPast(t, n)
                               /\ next[n].marked => next'[n] = next[n]
  <1>1. Key(t)' = Key(t)
    BY DEF Asks, Key
  <1>2. \A n \in Safe(t) : /\ key'[n] = key[n] /\ elem'[n] = elem[n] /\ n \in Safe(t)'
                           /\ next[n].marked => next'[n] = next[n]
    BY DEF Stable
  <1>3. \A n \in Safe(t) : Matches(t, n)' <=> Matches(t, n)
    BY <1>1, <1>2 DEF Matches, Asks
  <1>4. \A n \in Safe(t) : AtOrPast(t, n)' <=> AtOrPast(t, n)
    BY <1>1, <1>2, <1>3 DEF AtOrPast
  <1> QED
    BY <1>1, <1>2, <1>3, <1>4

LEMMA BehindStays ==
  ASSUME NEW t \in Thread, Asks(t), Stable(t),
         NEW n \in linked, n \in linked', key[n] <= Key(t), Behind(t, n)
  PROVE  Behind(t, n)'
  <1> SUFFICES ASSUME NEW x \in linked', Matches(t, x)'
               PROVE  x \in From(next', n)
    BY DEF Behind
  <1>1. CASE x \in linked
    <2>1. x \in Safe(t) /\ n \in Safe(t)
      BY <1>1 DEF Safe
    <2>2. x \in From(next, n)
      BY <1>1, <2>1, SameSearch DEF Behind
    <2> QED
      BY <2>1, <2>2 DEF Stable
  <1>2. CASE x \notin linked
    <2>1. key'[x] = Key(t)
      BY SameSearch DEF Matches
    <2> QED
      BY <1>2, <2>1 DEF Stable
  <1> QED
    BY <1>1, <1>2

\* What is being walked to is not marked unseen.
MarksAreSeen(t) ==
  \A n \in linked :
    ~next[n].marked /\ next'[n].marked /\ elem[n] = arg[t] /\ op[t] \in Operation
      => FALSE \in seen'[t]

LEMMA WalksStay ==
  ASSUME TypeOK, TypeOK', List, Passing, List', NEW t \in Thread, Asks(t), Stable(t),
         op[t] = "Contains", curr[t] \in Safe(t), curr'[t] = curr[t],
         seen[t] \subseteq seen'[t], MarksAreSeen(t), pc[t] = "walk", Walks(t)
  PROVE  Walks(t)'
  <1> SUFFICES ASSUME FALSE \notin seen'[t]
               PROVE  \E n \in From(next', curr[t]) :
                        /\ n \in linked' /\ ~next'[n].marked
                        /\ \A m \in From(next', curr[t]) : Matches(t, m)' <=> m = n
    BY DEF Walks
  <1>1. PICK n \in From(next, curr[t]) :
               /\ n \in linked /\ ~next[n].marked
               /\ \A m \in From(next, curr[t]) : Matches(t, m) <=> m = n
    BY DEF Walks
  <1>2. n \in linked' /\ n \in From(next', curr[t]) /\ Matches(t, n) /\ n \in Safe(t)
    BY <1>1 DEF Stable, Safe
  <1>3. ~next'[n].marked
    <2>1. elem[n] = arg[t] /\ op[t] \in Operation
      BY <1>2 DEF Matches, Operation
    <2> QED
      BY <1>1, <2>1 DEF MarksAreSeen
  <1>4. Matches(t, n)'
    BY <1>2, SameSearch
  <1>5. ASSUME NEW m \in From(next', curr[t]), Matches(t, m)'
        PROVE  m = n
    <2>1. CASE m \in From(next, curr[t])
      <3>1. m \in Safe(t)
        BY <2>1, SafeAhead
      <3> QED
        BY <1>1, <1>5, <2>1, <3>1, SameSearch
    <2>2. CASE m \notin From(next, curr[t])
      <3>1. m \in linked'
        BY <2>2 DEF Stable
      <3>2. key'[m] = key'[n] /\ elem'[m] = elem'[n]
        BY <1>4, <1>5 DEF Matches, Asks
      <3> QED
        BY <1>2, <3>1, <3>2 DEF List, Unique
    <2> QED
      BY <2>1, <2>2
  <1> QED
    BY <1>2, <1>3, <1>4, <1>5

LEMMA SearchesStay ==
  ASSUME NEW t \in Thread, Asks(t), Stable(t), Still(t), Searches(t),
         pred[t] # None => pred[t] \in Safe(t) /\ key[pred[t]] <= Key(t),
         pc[t] \in Finding => Cursor(t) \in Safe(t),
         pc[t] = "window" => curr[t] \in Safe(t)
  PROVE  Searches(t)'
  <1>1. Key(t)' = Key(t) /\ Cursor(t)' = Cursor(t) /\ Safe(t) \cap linked' \subseteq linked
    BY SameSearch DEF Cursor, Still, Stable
  <1>2. (pred[t] # None /\ pred[t] \in linked => Behind(t, pred[t]))'
    <2> SUFFICES ASSUME pred[t] # None, pred[t] \in linked'
                 PROVE  Behind(t, pred[t])'
      BY DEF Still, Behind, Matches, Key
    <2>1. pred'[t] = pred[t] /\ pred[t] \in linked
      BY <1>1 DEF Still
    <2>2. Behind(t, pred[t])
      BY <2>1 DEF Searches
    <2> QED
      BY <2>1, <2>2, BehindStays DEF Behind, Matches, Key
  <1>3. ASSUME pc'[t] \in Finding, Cursor(t)' \in linked', key'[Cursor(t)'] <= Key(t)'
        PROVE  Behind(t, Cursor(t))'
    <2>1. /\ Cursor(t) \in linked /\ Cursor(t) \in linked' /\ key[Cursor(t)] <= Key(t)
          /\ pc[t] \in Finding
      BY <1>1, <1>3, SameSearch DEF Still
    <2>2. Behind(t, Cursor(t))
      BY <2>1 DEF Searches
    <2>3. \A x \in linked' : Matches(t, x)' => x \in From(next', Cursor(t))
      BY <2>1, <2>2, BehindStays DEF Behind
    <2> QED
      BY <1>1, <2>3 DEF Behind
  <1>4. ASSUME pc'[t] \in Finding, op'[t] \in Operation, key'[Cursor(t)'] > Key(t)'
        PROVE  FALSE \in seen'[t]
    BY <1>1, <1>4, SameSearch DEF Still, Searches
  <1>5. ASSUME pc'[t] = "window", op'[t] \in Operation
        PROVE  Matches(t, curr[t])' \in seen'[t]
    <2>1. Matches(t, curr[t]) \in seen[t] /\ curr[t] \in Safe(t) /\ curr'[t] = curr[t]
      BY <1>5 DEF Still, Searches
    <2>2. Matches(t, curr[t])' = Matches(t, curr[t])
      <3>1. key'[curr[t]] = key[curr[t]] /\ elem'[curr[t]] = elem[curr[t]] /\ Key(t)' = Key(t)
        BY <2>1, SameSearch
      <3> QED
        BY <2>1, <3>1 DEF Matches, Asks
    <2> QED
      BY <2>1, <2>2 DEF Still
  <1> QED
    BY <1>2, <1>3, <1>4, <1>5 DEF Searches

LEMMA StillSearch ==
  ASSUME IInv, TypeOK', List', Passing', NEW t \in InGuard, Still(t), Stable(t),
         pc[t] \notin {"idle", "gone"}, node[t] # None => Kept(node[t]), MarksAreSeen(t)
  PROVE  Search(t)'
  <1>1. /\ TypeOK /\ List /\ Passing /\ Holds(t) /\ Fresh(t) /\ Searches(t) /\ Walks(t) /\ Local(t)
        /\ t \in Thread
    BY Running DEF InGuard
  <1>2. Asks(t)
    BY DEF Still, Asks
  <1>3. Holds(t)'
    <2> USE SameSearch, <1>1, <1>2 DEF Still
    <2>1. {head'[t], pred'[t], curr'[t], succ'[t]} \ {None} \subseteq Safe(t)'
      BY DEF Holds, Stable
    <2>2. op'[t] # "none" =>
            /\ head'[t] \in linked' \ {Tail} /\ elem'[head'[t]] = None
            /\ pc'[t] # "done" => key'[head'[t]] < Key(t)'
      <3>1. head[t] \in linked /\ elem[head[t]] = None /\ ~next[head[t]].marked
        BY DEF Holds, List, Proper, InGuard
      <3>2. head[t] \in linked' /\ head[t] \in Safe(t)
        BY <3>1 DEF Stable, Safe
      <3> QED
        BY <3>2 DEF Holds, InGuard
    <2>3. (pred[t] # None =>
             pred[t] # Tail /\ key[pred[t]] <= Key(t) /\ ~Matches(t, pred[t]))'
      <3> SUFFICES ASSUME pred[t] # None
                   PROVE  pred[t] # Tail /\ key'[pred[t]] <= Key(t)' /\ ~Matches(t, pred[t])'
        BY DEF Matches, Asks, Key
      <3>1. pred[t] \in Safe(t)
        BY DEF Holds
      <3> QED
        BY <3>1 DEF Holds
    <2>4. pc'[t] \in WithSucc \ {"mark"} => next'[curr'[t]] = Ref(succ'[t], TRUE)
      <3>1. pc[t] \in WithSucc => curr[t] \in Safe(t)
        BY Busy DEF WithSucc, WithPred, Finding
      <3> QED
        BY <3>1 DEF Holds, Ref
    <2>5. pc'[t] \in {"retire", "retire_last"} => t \in readers'[curr'[t]]
      <3>1. ASSUME pc[t] \in {"retire", "retire_last"}
            PROVE  t \in readers'[curr[t]]
        <4>1. t \in readers[curr[t]] /\ curr[t] \in Safe(t)
          BY <3>1, Busy DEF Holds, WithPred, Finding
        <4>2. curr[t] \notin linked
          BY <4>1 DEF List
        <4> QED
          BY <4>1, <4>2 DEF Stable, Safe
      <3> QED
        BY <3>1
    <2>6. (pc[t] = "window" => AtOrPast(t, curr[t]))'
      <3>1. pc[t] = "window" => curr[t] \in Safe(t)
        BY Busy DEF WithPred
      <3> QED
        BY <3>1 DEF Holds, AtOrPast, Matches, Key
    <2>7. (pc[t] \in {"mark", "unlink_once", "retire_last"} => Matches(t, curr[t]))'
      <3>1. pc[t] \in {"mark", "unlink_once", "retire_last"} => curr[t] \in Safe(t)
        BY Busy DEF WithPred
      <3> QED
        BY <3>1 DEF Holds, Matches, Key
    <2>8. op'[t] = "SentinelFor" /\ pc'[t] = "done" =>
            \A n \in answer'[t] : n \in linked' /\ key'[n] = Key(t)'
      <3> SUFFICES ASSUME op[t] = "SentinelFor", pc[t] = "done", NEW n \in answer[t]
                   PROVE  n \in linked' /\ key'[n] = Key(t)
        OBVIOUS
      <3>1. n \in linked /\ key[n] = Key(t)
        BY DEF Holds
      <3>2. Matches(t, n)
        BY <3>1 DEF Matches
      <3>3. Proper(n) /\ n \in Node
        BY <3>1, References DEF List
      <3>4. elem[n] = None
        BY <3>2, <3>3, WhatMatches DEF Sought, InGuard
      <3> QED
        BY <3>1, <3>3, <3>4 DEF Stable, Safe, Proper
    <2> QED
      BY <2>1, <2>2, <2>3, <2>4, <2>5, <2>6, <2>7, <2>8 DEF Holds
  <1>4. Fresh(t)'
    <2> SUFFICES ASSUME node[t] # None
                 PROVE  Fresh(t)'
      BY DEF Still, Fresh
    <2>1. /\ Private(node[t])' /\ key'[node[t]] = key[node[t]] /\ next'[node[t]] = next[node[t]]
          /\ node'[t] = node[t]
      BY <1>1 DEF Kept, Fresh, Still
    <2>2. next[node[t]].ref \in Safe(t) /\ Key(t) <= key[next[node[t]].ref]
      BY <1>1 DEF Fresh
    <2> QED
      BY <1>1, <1>2, <2>1, <2>2, SameSearch DEF Fresh, Private
  <1>5. Searches(t)'
    <2>1. pred[t] # None => pred[t] \in Safe(t) /\ key[pred[t]] <= Key(t)
      BY <1>1 DEF Holds
    <2>2. pc[t] \in Finding => Cursor(t) \in Safe(t)
      BY <1>1, Busy DEF Cursor, WithPred, WithSucc, Finding
    <2>3. pc[t] = "window" => curr[t] \in Safe(t)
      BY <1>1, Busy DEF WithPred
    <2> QED
      BY <1>1, <1>2, <2>1, <2>2, <2>3, SearchesStay
  <1>6. Walks(t)'
    <2>1. CASE pc[t] = "walk"
      <3>1. curr[t] \in Safe(t) /\ op[t] = "Contains"
        BY <1>1, <2>1, Busy DEF Local
      <3> QED
        BY <1>1, <1>2, <2>1, <3>1, WalksStay DEF Still
    <2>2. CASE pc[t] # "walk"
      BY <2>2 DEF Walks, Still
    <2> QED
      BY <2>1, <2>2
  <1> QED
    BY <1>3, <1>4, <1>5, <1>6 DEF Search

LEMMA NewMarksAreSeen ==
  ASSUME IInv, NEW t \in Thread, Calls(t) \/ Step(t), NEW u \in Thread
  PROVE  MarksAreSeen(u)
  <1> SUFFICES ASSUME NEW n \in linked, ~next[n].marked, next'[n].marked,
                      elem[n] = arg[u], op[u] \in Operation
               PROVE  FALSE \in seen'[u]
    BY DEF MarksAreSeen
  <1>1. TypeOK /\ n \in Node
    BY StillThere, Running, References
  <1>2. CASE Marks(curr[t]) /\ Observe(elem[curr[t]], FALSE)
    <2>1. n = curr[t]
      BY <1>1, <1>2 DEF Marks, TypeOK
    <2> QED
      BY <1>2, <2>1, Observing
  <1>3. CASE \E W \in SUBSET Own(t) : Quiet(W)
    BY <1>1, <1>3 DEF Quiet, Private
  <1>4. CASE Removes(pred[t], curr[t], succ[t])
    <2>1. next'[n] = next[n] \/ next'[n] = Ref(succ[t], FALSE)
      BY <1>1, <1>4 DEF Removes, TypeOK
    <2> QED
      BY <2>1 DEF Ref
  <1>5. ASSUME NEW k \in Own(t), Inserts(k, pred[t], curr[t])
        PROVE  FALSE
    <2>1. next'[n] = next[n] \/ next'[n] = Ref(k, FALSE)
      BY <1>1, <1>5 DEF Inserts, Private, TypeOK
    <2> QED
      BY <2>1 DEF Ref
  <1>6. CASE Leaves(t)
    BY <1>6 DEF Leaves
  <1> QED
    BY <1>2, <1>3, <1>4, <1>5, <1>6, StepEffect DEF Effect

\* What becomes the case is seen by all who ask for it.
LEMMA ChangesAreSeen ==
  ASSUME IInv, TypeOK', NEW t \in Thread, Calls(t) \/ Step(t), NEW u \in Thread,
         Asks(u), seen[u] \subseteq seen'[u]
  PROVE  Sees(u)'
  <1> SUFFICES ASSUME op[u] \in Operation
               PROVE  (arg[u] \in Members') \in seen'[u]
    BY DEF Sees, Asks
  <1>1. TypeOK /\ List /\ Passing /\ Guarded /\ Sees(u)
    BY StillThere, Running
  <1>2. (arg[u] \in Members) \in seen'[u]
    BY <1>1 DEF Sees
  <1>3. CASE Members' = Members
    BY <1>2, <1>3
  <1>4. CASE Marks(curr[t]) /\ Observe(elem[curr[t]], FALSE)
    <2>1. Members' = Members \ {elem[curr[t]]}
      BY <1>1, <1>4, MarkStep
    <2>2. CASE arg[u] = elem[curr[t]]
      <3>1. FALSE \in seen'[u]
        BY <1>4, <2>2, Observing
      <3>2. (arg[u] \in Members') = FALSE
        BY <2>1, <2>2
      <3> QED
        BY <3>1, <3>2
    <2>3. CASE arg[u] # elem[curr[t]]
      <3>1. (arg[u] \in Members') = (arg[u] \in Members)
        BY <2>1, <2>3
      <3> QED
        BY <1>2, <3>1
    <2> QED
      BY <2>2, <2>3
  <1>5. ASSUME NEW n \in Own(t), Inserts(n, pred[t], curr[t]),
               elem'[n] # None => Observe(elem'[n], TRUE)
        PROVE  (arg[u] \in Members') \in seen'[u]
    <2>1. Members' = IF elem'[n] = None THEN Members ELSE Members \cup {elem'[n]}
      BY <1>1, <1>5, InsertStep
    <2>2. CASE elem'[n] = None
      BY <1>3, <2>1, <2>2
    <2>3. CASE elem'[n] # None /\ arg[u] = elem'[n]
      <3>1. TRUE \in seen'[u]
        BY <1>5, <2>3, Observing
      <3>2. (arg[u] \in Members') = TRUE
        BY <2>1, <2>3
      <3> QED
        BY <3>1, <3>2
    <2>4. CASE elem'[n] # None /\ arg[u] # elem'[n]
      <3>1. (arg[u] \in Members') = (arg[u] \in Members)
        BY <2>1, <2>4
      <3> QED
        BY <1>2, <3>1
    <2> QED
      BY <2>2, <2>3, <2>4
  <1>6. CASE \E W \in SUBSET Own(t) : Quiet(W)
    <2>1. \A W \in SUBSET Own(t) : W \in SUBSET Node
      BY DEF Own
    <2> QED
      BY <1>1, <1>3, <1>6, <2>1, QuietStep
  <1>7. CASE Removes(pred[t], curr[t], succ[t])
    BY <1>1, <1>3, <1>7, RemoveStep
  <1>8. CASE Leaves(t)
    BY <1>1, <1>3, <1>8, LeaveStep
  <1> QED
    BY <1>4, <1>5, <1>6, <1>7, <1>8, StepEffect DEF Effect

LEMMA IdleSearch ==
  ASSUME NEW t \in Thread, Local(t)', op'[t] = "none"
  PROVE  Search(t)'
  BY DEF Local, Search, Holds, Fresh, Searches, Walks, WithPred, WithSucc, Finding

LEMMA OthersSearch ==
  ASSUME IInv, TypeOK', Locals', NEW t \in Thread, Calls(t) \/ Step(t), NEW u \in Thread \ {t}
  PROVE  Search(u)' /\ Sees(u)'
  <1>1. TypeOK /\ Local(u) /\ Owners /\ Sees(u) /\ pc[u] # "gone"
    BY StillThere, Running
  <1>2. Still(u)
    BY <1>1, OthersAreStill
  <1>3. Sees(u)'
    BY <1>2, ChangesAreSeen DEF Still, Asks
  <1>4. CASE op[u] = "none"
    <2>1. Local(u)' /\ op'[u] = "none"
      BY <1>2, <1>4 DEF Locals, Still
    <2> QED
      BY <1>3, <2>1, IdleSearch
  <1>5. CASE op[u] # "none"
    <2>1. u \in InGuard /\ pc[u] \notin {"idle", "gone"}
      BY <1>1, <1>5 DEF InGuard, Local
    <2>2. List' /\ Passing' /\ Stable(u)
      BY <2>1, MemoryStep
    <2>3. node[u] # None => Kept(node[u])
      <3>1. node[u] # None => node[u] \in Node \ Own(t)
        BY <1>1 DEF Owners, Own, TypeOK
      <3> QED
        BY <3>1, MemoryStep
    <2> QED
      BY <1>2, <1>3, <2>1, <2>2, <2>3, StillSearch, NewMarksAreSeen
  <1> QED
    BY <1>4, <1>5

-----------------------------------------------------------------------------
\* What a thread knows after a step of its own.

LEMMA OwnStable ==
  ASSUME IInv, TypeOK', NEW t \in Thread, Step(t), ~Return(t), pc[t] \notin {"idle", "gone"}
  PROVE  Stable(t) /\ Asks(t) /\ head'[t] = head[t]
  <1>1. TypeOK /\ List /\ Passing /\ Guarded /\ t \in InGuard
    BY Running, Busy
  <1>2. Asks(t) /\ head'[t] = head[t]
    BY CallStays DEF call, Asks
  <1>3. \A W \in SUBSET Own(t) : W \in SUBSET Node
    BY DEF Own
  <1>4. Stable(t)
    BY <1>1, <1>3, StepEffect, QuietStep, MarkStep, RemoveStep, InsertStep DEF Effect
  <1> QED
    BY <1>2, <1>4

\* The head stays where it is.
LEMMA HeadStays ==
  ASSUME IInv, NEW t \in Thread, pc[t] \notin {"idle", "gone"}, Asks(t), Stable(t),
         head'[t] = head[t]
  PROVE  /\ head'[t] \in linked' \ {Tail} /\ elem'[head'[t]] = None /\ head'[t] \in Safe(t)'
         /\ pc[t] # "done" => key'[head'[t]] < Key(t)'
  <1>1. List /\ Holds(t) /\ op[t] # "none"
    BY Running, Busy
  <1>2. head[t] \in linked \ {Tail} /\ elem[head[t]] = None /\ head[t] \in Safe(t)
    BY <1>1 DEF Holds, Safe
  <1>3. head[t] \in linked'
    BY <1>1, <1>2 DEF Stable, List, Proper
  <1> QED
    BY <1>1, <1>2, <1>3, SameSearch DEF Holds

LEMMA FreshStays ==
  ASSUME NEW t \in Thread, Asks(t), Stable(t), Fresh(t),
         node'[t] = node[t], node[t] # None => Kept(node[t])
  PROVE  Fresh(t)'
  <1> SUFFICES ASSUME node[t] # None
               PROVE  Fresh(t)'
    BY DEF Fresh
  <1>1. Private(node[t])' /\ key'[node[t]] = key[node[t]] /\ next'[node[t]] = next[node[t]]
    BY DEF Kept, Fresh
  <1>2. next[node[t]].ref \in Safe(t) /\ Key(t) <= key[next[node[t]].ref]
    BY DEF Fresh
  <1> QED
    BY <1>1, <1>2, SameSearch DEF Fresh, Private

\* Between two searches, and at the end, only the head is left.
LEMMA AtRest ==
  ASSUME IInv, NEW t \in Thread, pc[t] \notin {"idle", "gone", "done"}, Asks(t), Stable(t),
         head'[t] = head[t], pred'[t] = None, curr'[t] = None, succ'[t] = None,
         pc'[t] \in {"find", "done", "throw"}, Fresh(t)',
         op[t] = "SentinelFor" /\ pc'[t] = "done" =>
           \A n \in answer'[t] : n \in linked' /\ key'[n] = Key(t)
  PROVE  Search(t)'
  <1>1. Key(t)' = Key(t) /\ op'[t] = op[t]
    BY SameSearch DEF Asks
  <1>2. Holds(t)'
    BY <1>1, HeadStays DEF Holds, WithSucc
  <1>3. Searches(t)' /\ Walks(t)'
    BY DEF Searches, Walks, Finding
  <1> QED
    BY <1>2, <1>3 DEF Search

\* What is in the set matches what is asked for.
LEMMA MemberMatches ==
  ASSUME IInv, NEW t \in Thread, pc[t] # "gone", op[t] \in Operation, NEW n \in Present,
         elem[n] = arg[t]
  PROVE  Matches(t, n) /\ n \in linked
  BY Running, Called DEF Present, List, Proper, Matches, Key, Operation

\* Whoever is past what it looks for has seen that it is not there.
LEMMA PastIt ==
  ASSUME IInv, NEW t \in Thread, pc[t] # "gone", op[t] \in Operation,
         NEW n \in linked, key[n] > Key(t),
         \A x \in Present : Matches(t, x) => x \in From(next, n)
  PROVE  FALSE \in seen[t]
  <1>1. TypeOK /\ List /\ Sees(t)
    BY Running
  <1>2. arg[t] \notin Members
    <2> SUFFICES ASSUME NEW x \in Present, elem[x] = arg[t]
                 PROVE  FALSE
      BY DEF Members
    <2>1. Matches(t, x) /\ x \in linked
      BY MemberMatches
    <2>2. key[n] <= key[x] /\ key[x] = Key(t)
      BY <1>1, <2>1, LinkedAhead DEF Matches
    <2>3. key[n] \in Int /\ Key(t) \in Int
      BY <1>1, Called, References DEF Operation
    <2> QED
      BY <2>2, <2>3
  <1>3. (arg[t] \in Members) = FALSE
    BY <1>2
  <1>4. (arg[t] \in Members) \in seen[t]
    BY <1>1 DEF Sees
  <1> QED
    BY <1>3, <1>4

\* What is behind a node, and is not the node, is behind the next one.
LEMMA BehindNext ==
  ASSUME IInv, NEW t \in Thread, pc[t] # "gone", NEW n \in linked, ~Matches(t, n), Behind(t, n)
  PROVE  Behind(t, next[n].ref)
  <1>1. TypeOK
    BY Running
  <1> SUFFICES ASSUME NEW x \in linked, Matches(t, x)
               PROVE  x \in From(next, next[n].ref)
    BY DEF Behind
  <1>2. x \in From(next, n) /\ x # n
    BY DEF Behind
  <1> QED
    BY <1>1, <1>2, FromTheNext, References

\* A step that writes nothing.
LEMMA Unwritten ==
  ASSUME NEW t \in Thread, UNCHANGED <<key, elem, next, readers, linked>>, Asks(t)
  PROVE  /\ Stable(t) /\ Safe(t)' = Safe(t) /\ Key(t)' = Key(t)
         /\ \A n : Matches(t, n)' = Matches(t, n) /\ AtOrPast(t, n)' = AtOrPast(t, n)
         /\ \A n : Behind(t, n)' <=> Behind(t, n)
         /\ \A n : Kept(n)
  <1>1. Safe(t)' = Safe(t) /\ Key(t)' = Key(t)
    BY DEF Safe, Key, Asks
  <1>2. \A n : Matches(t, n)' = Matches(t, n)
    BY <1>1 DEF Matches, Asks
  <1>3. \A n : AtOrPast(t, n)' = AtOrPast(t, n)
    BY <1>1, <1>2 DEF AtOrPast
  <1>4. \A n : Behind(t, n)' <=> Behind(t, n)
    BY <1>2 DEF Behind
  <1>5. Stable(t) /\ \A n : Kept(n)
    BY <1>1 DEF Stable, Kept, Private
  <1> QED
    BY <1>1, <1>2, <1>3, <1>4, <1>5

LEMMA FindRetrySearch ==
  ASSUME IInv, TypeOK', NEW t \in Thread, FindRetry(t)
  PROVE  Search(t)'
  <1>1. pc[t] = "find" /\ TypeOK /\ List /\ Holds(t) /\ Fresh(t) /\ op[t] # "none" /\ Local(t)
    BY Running, Busy DEF FindRetry
  <1>2. /\ pc'[t] = "load" /\ pred'[t] = head[t] /\ curr'[t] = next[head[t]].ref /\ succ'[t] = None
        /\ UNCHANGED <<key, elem, next, readers, linked, op, arg, head, node, seen>> /\ Asks(t)
    BY <1>1 DEF FindRetry, Goto, nodes, call, TypeOK, Asks
  <1>3. /\ head[t] \in linked \ {Tail} /\ key[head[t]] < Key(t) /\ head[t] \in Safe(t)
        /\ next[head[t]].ref \in linked /\ next[head[t]].ref \in Safe(t)
        /\ head[t] # None /\ elem[head[t]] = None
    BY <1>1, Busy, NotTheTail, NodeAssumption DEF Holds
  <1>4. Key(t) \in Int /\ key[head[t]] \in Int
    BY <1>1, <1>3, Called, References
  <1>5. ~Matches(t, head[t])
    BY <1>3, <1>4 DEF Matches
  <1>6. Behind(t, head[t])
    <2> SUFFICES ASSUME NEW x \in linked, Matches(t, x)
                 PROVE  x \in From(next, head[t])
      BY DEF Behind
    <2>1. key[head[t]] < key[x]
      BY <1>3 DEF Matches
    <2> QED
      BY <1>1, <1>3, <2>1, LowerIsAhead
  <1>7. Behind(t, next[head[t]].ref)
    BY <1>1, <1>3, <1>5, <1>6, BehindNext
  <1>8. op[t] \in Operation /\ key[next[head[t]].ref] > Key(t) => FALSE \in seen[t]
    BY <1>1, <1>3, <1>7, PastIt DEF Behind, Present
  <1>9. Holds(t)'
    BY <1>2, <1>3, <1>4, <1>5, Unwritten DEF Holds, WithSucc
  <1>10. Fresh(t)'
    BY <1>1, <1>2, Unwritten, FreshStays
  <1>11. Searches(t)'
    <2>1. Cursor(t)' = next[head[t]].ref
      BY <1>2 DEF Cursor
    <2>2. (pred[t] # None /\ pred[t] \in linked => Behind(t, pred[t]))'
      BY <1>2, <1>6, Unwritten DEF Behind
    <2>3. Behind(t, next[head[t]].ref)'
      BY <1>2, <1>7, Unwritten DEF Behind
    <2> QED
      BY <1>2, <1>8, <2>1, <2>2, <2>3, Unwritten DEF Searches, Behind
  <1>12. Walks(t)'
    BY <1>2 DEF Walks
  <1> QED
    BY <1>9, <1>10, <1>11, <1>12 DEF Search

LEMMA FindMarkedSearch ==
  ASSUME IInv, TypeOK', NEW t \in Thread, FindMarked(t)
  PROVE  Search(t)'
  <1>1. /\ pc[t] = "load" /\ TypeOK /\ Holds(t) /\ Fresh(t) /\ Searches(t)
        /\ op[t] # "none" /\ next[curr[t]].marked
    BY Running, Busy DEF FindMarked
  <1>2. /\ pc'[t] = "unlink" /\ pred'[t] = pred[t] /\ curr'[t] = curr[t]
        /\ succ'[t] = next[curr[t]].ref
        /\ UNCHANGED <<key, elem, next, readers, linked, op, arg, head, node, seen>> /\ Asks(t)
    BY <1>1 DEF FindMarked, Goto, nodes, call, TypeOK, Asks
  <1>3. curr[t] \in Safe(t) /\ pred[t] \in Safe(t) /\ pred[t] # None /\ curr[t] # None
    BY <1>1, Busy, NodeAssumption DEF WithPred, Finding
  <1>4. /\ next[curr[t]].ref \in Safe(t)
        /\ next[curr[t]] = Ref(next[curr[t]].ref, TRUE)
    <2>1. /\ next[curr[t]] = Ref(next[curr[t]].ref, next[curr[t]].marked)
          /\ next[curr[t]].ref \in Safe(t)
      BY <1>1, <1>3, NotTheTail
    <2>2. next[curr[t]].marked = TRUE
      BY <1>1, <1>3, References
    <2> QED
      BY <2>1, <2>2
  <1>5. Holds(t)'
    BY <1>1, <1>2, <1>3, <1>4, Unwritten DEF Holds, WithSucc
  <1>6. Fresh(t)'
    BY <1>1, <1>2, Unwritten, FreshStays
  <1>7. Searches(t)'
    BY <1>1, <1>2, <1>3, Unwritten DEF Searches, Finding, Cursor, Behind
  <1>8. Walks(t)'
    BY <1>2 DEF Walks
  <1> QED
    BY <1>5, <1>6, <1>7, <1>8 DEF Search

\* An unmarked node is passed.
LEMMA FindNextSearch ==
  ASSUME IInv, TypeOK', NEW t \in Thread, FindNext(t)
  PROVE  Search(t)'
  <1>1. /\ pc[t] = "load" /\ TypeOK /\ Holds(t) /\ Fresh(t) /\ Searches(t)
        /\ op[t] # "none" /\ ~next[curr[t]].marked /\ ~AtOrPast(t, curr[t])
    BY Running, Busy DEF FindNext
  <1>2. /\ pc'[t] = "load" /\ pred'[t] = curr[t] /\ curr'[t] = next[curr[t]].ref
        /\ succ'[t] = succ[t]
        /\ UNCHANGED <<key, elem, next, readers, linked, op, arg, head, node, seen>> /\ Asks(t)
    BY <1>1 DEF FindNext, nodes, call, TypeOK, Asks
  <1>3. /\ curr[t] \in Safe(t) /\ curr[t] # None /\ succ[t] = None /\ curr[t] \in linked
        /\ curr[t] # Tail /\ next[curr[t]].ref \in Safe(t) /\ next[curr[t]].ref \in linked
    BY <1>1, Busy, NotTheTail, Unmarked, NodeAssumption DEF WithPred, WithSucc, Finding
  <1>4. key[curr[t]] <= Key(t) /\ ~Matches(t, curr[t])
    <2>1. Key(t) \in Int /\ key[curr[t]] \in Int
      BY <1>1, <1>3, Called, References
    <2> QED
      BY <1>1, <2>1 DEF AtOrPast
  <1>5. Behind(t, curr[t])
    BY <1>1, <1>3, <1>4 DEF Searches, Finding, Cursor
  <1>6. Behind(t, next[curr[t]].ref)
    BY <1>1, <1>3, <1>4, <1>5, BehindNext
  <1>7. op[t] \in Operation /\ key[next[curr[t]].ref] > Key(t) => FALSE \in seen[t]
    BY <1>1, <1>3, <1>6, PastIt DEF Behind, Present
  <1>8. Holds(t)'
    BY <1>1, <1>2, <1>3, <1>4, Unwritten DEF Holds, WithSucc
  <1>9. Fresh(t)'
    BY <1>1, <1>2, Unwritten, FreshStays
  <1>10. Searches(t)'
    <2>1. Cursor(t)' = next[curr[t]].ref
      BY <1>2 DEF Cursor
    <2>2. (pred[t] # None /\ pred[t] \in linked => Behind(t, pred[t]))'
      BY <1>2, <1>5, Unwritten DEF Behind
    <2>3. Behind(t, Cursor(t))'
      <3> SUFFICES ASSUME NEW x \in linked', Matches(t, x)'
                   PROVE  x \in From(next', Cursor(t)')
        BY DEF Behind
      <3>1. x \in linked /\ Matches(t, x)
        BY <1>2, Unwritten
      <3> QED
        BY <1>2, <1>6, <2>1, <3>1 DEF Behind
    <2>4. op'[t] \in Operation /\ key'[Cursor(t)'] > Key(t)' => FALSE \in seen'[t]
      BY <1>2, <1>7, <2>1, Unwritten
    <2>5. pc'[t] # "window"
      BY <1>2
    <2> QED
      BY <2>2, <2>3, <2>4, <2>5 DEF Searches
  <1>11. Walks(t)'
    BY <1>2 DEF Walks
  <1> QED
    BY <1>8, <1>9, <1>10, <1>11 DEF Search

LEMMA FindWindowSearch ==
  ASSUME IInv, TypeOK', NEW t \in Thread, FindWindow(t)
  PROVE  Search(t)'
  <1>1. /\ pc[t] = "load" /\ TypeOK /\ Holds(t) /\ Fresh(t) /\ Searches(t) /\ Sees(t)
        /\ op[t] # "none" /\ ~next[curr[t]].marked /\ AtOrPast(t, curr[t])
    BY Running, Busy DEF FindWindow
  <1>2. /\ pc'[t] = "window" /\ pred'[t] = pred[t] /\ curr'[t] = curr[t] /\ succ'[t] = succ[t]
        /\ UNCHANGED <<key, elem, next, readers, linked, op, arg, head, node, seen>> /\ Asks(t)
    BY <1>1 DEF FindWindow, Goto, nodes, call, locals, TypeOK, Asks
  <1>3. curr[t] \in Safe(t) /\ curr[t] \in linked /\ pred[t] # None
    BY <1>1, Busy, Unmarked, NodeAssumption DEF WithPred, Finding
  <1>4. op[t] \in Operation => Matches(t, curr[t]) \in seen[t]
    <2> SUFFICES ASSUME op[t] \in Operation
                 PROVE  Matches(t, curr[t]) \in seen[t]
      OBVIOUS
    <2>1. CASE Matches(t, curr[t])
      <3>1. arg[t] \in Members
        BY <1>1, <1>3, <2>1, Called DEF Members, Present, Matches, Operation
      <3>2. (arg[t] \in Members) = TRUE /\ Matches(t, curr[t]) = TRUE
        BY <2>1, <3>1 DEF Matches
      <3>3. (arg[t] \in Members) \in seen[t]
        BY <1>1 DEF Sees
      <3> QED
        BY <3>2, <3>3
    <2>2. CASE ~Matches(t, curr[t])
      <3>1. FALSE \in seen[t]
        BY <1>1, <2>2 DEF AtOrPast, Searches, Finding, Cursor
      <3>2. Matches(t, curr[t]) = FALSE
        BY <2>2 DEF Matches
      <3> QED
        BY <3>1, <3>2
    <2> QED
      BY <2>1, <2>2
  <1>5. Holds(t)'
    BY <1>1, <1>2, Unwritten DEF Holds, WithSucc
  <1>6. Fresh(t)'
    BY <1>1, <1>2, Unwritten, FreshStays
  <1>7. Searches(t)'
    <2>1. (pred[t] # None /\ pred[t] \in linked => Behind(t, pred[t]))'
      BY <1>1, <1>2, Unwritten DEF Searches, Behind
    <2>2. (op[t] \in Operation => Matches(t, curr[t]) \in seen[t])'
      BY <1>2, <1>4, Unwritten DEF Matches, Key
    <2>3. pc'[t] \notin Finding
      BY <1>2 DEF Finding
    <2> QED
      BY <2>1, <2>2, <2>3 DEF Searches
  <1>8. Walks(t)'
    BY <1>2 DEF Walks
  <1> QED
    BY <1>5, <1>6, <1>7, <1>8 DEF Search

\* The marked node is out, and the search goes on behind it.
LEMMA FindUnlinkSearch ==
  ASSUME IInv, TypeOK', NEW t \in Thread, FindUnlink(t)
  PROVE  Search(t)'
  <1>1. /\ pc[t] = "unlink" /\ TypeOK /\ List /\ Passing /\ Guarded
        /\ Holds(t) /\ Fresh(t) /\ Searches(t)
        /\ op[t] # "none"
    BY Running, Busy DEF FindUnlink
  <1>2. Stable(t) /\ Asks(t) /\ head'[t] = head[t] /\ ~Return(t)
    BY <1>1, OwnStable DEF Step, Find, Return
  <1>3. CASE ~Unlinks(t)
    <2>1. /\ pc'[t] = "find" /\ pred'[t] = None /\ curr'[t] = None /\ succ'[t] = None
          /\ node' = node /\ UNCHANGED <<key, elem, next, readers, linked>>
      BY <1>1, <1>3 DEF FindUnlink, FindAgain, Forget, Goto, nodes, TypeOK
    <2>2. Fresh(t)'
      BY <1>1, <1>2, <2>1, Unwritten, FreshStays
    <2> QED
      BY <1>1, <1>2, <2>1, <2>2, AtRest
  <1>4. CASE Unlinks(t)
    <2>1. /\ pc'[t] = "retire" /\ UNCHANGED <<pred, curr, succ, node, seen>> /\ Unlinked(t)
      BY <1>1, <1>4 DEF FindUnlink, Goto, locals, TypeOK
    <2>2. Removes(pred[t], curr[t], succ[t])
      BY <1>1, <1>4, <2>1, UnlinkedRemoves
    <2>3. /\ \A n \in Node : Kept(n)
          /\ curr[t] \in linked /\ pred[t] # curr[t] /\ succ[t] \in linked'
          /\ t \in readers'[curr[t]]
      BY <1>1, <2>2, RemoveStep, Busy
    <2>4. /\ pred[t] \in Safe(t) \ {Tail} /\ curr[t] \in Safe(t) /\ succ[t] \in Safe(t)
          /\ pred[t] # None /\ next[curr[t]] = Ref(succ[t], TRUE)
      BY <1>1, Busy, NodeAssumption DEF WithPred, WithSucc, Finding, Holds
    <2>5. /\ pred[t] \in linked /\ succ[t] \in linked /\ linked' = linked \ {curr[t]}
          /\ next[pred[t]].ref = curr[t] /\ next[curr[t]].ref = succ[t] /\ next[curr[t]].marked
      BY <2>2, <2>3, <2>4 DEF Removes, Ref
    <2>6. \A x \in linked \ {curr[t]} : Matches(t, x) => x \in From(next, succ[t])
      <3> SUFFICES ASSUME NEW x \in linked \ {curr[t]}, Matches(t, x)
                   PROVE  x \in From(next, succ[t])
        OBVIOUS
      <3>1. Behind(t, pred[t]) /\ ~Matches(t, pred[t])
        BY <1>1, <2>4, <2>5 DEF Searches, Holds
      <3>2. Behind(t, curr[t])
        BY <1>1, <2>5, <3>1, BehindNext
      <3>3. x \in From(next, curr[t]) /\ x # curr[t] /\ curr[t] \in Node
        BY <1>1, <2>3, <3>2, References DEF Behind
      <3> QED
        BY <1>1, <2>5, <3>3, FromTheNext, References
    <2>7. op[t] \in Operation /\ key[succ[t]] > Key(t) => FALSE \in seen[t]
      <3>1. \A x \in Present : Matches(t, x) => x \in From(next, succ[t])
        BY <2>5, <2>6 DEF Present
      <3> QED
        BY <1>1, <2>5, <3>1, PastIt
    <2>8. Behind(t, succ[t])'
      <3> SUFFICES ASSUME NEW x \in linked', Matches(t, x)'
                   PROVE  x \in From(next', succ[t])
        BY <2>1 DEF Behind
      <3>1. x \in linked \ {curr[t]} /\ x \in Safe(t)
        BY <2>5 DEF Safe
      <3>2. x \in From(next, succ[t])
        BY <1>2, <2>6, <3>1, SameSearch
      <3> QED
        BY <1>2, <2>4, <3>2 DEF Stable
    <2>9. Holds(t)'
      <3>1. /\ head'[t] \in linked' \ {Tail} /\ elem'[head'[t]] = None /\ head'[t] \in Safe(t)'
            /\ key'[head'[t]] < Key(t)'
        BY <1>1, <1>2, HeadStays
      <3>2. /\ pred'[t] \in Safe(t)' /\ curr'[t] \in Safe(t)' /\ succ'[t] \in Safe(t)'
            /\ next'[curr[t]] = Ref(succ[t], TRUE)
        BY <1>2, <2>1, <2>4, <2>5 DEF Stable
      <3>3. pred[t] # Tail /\ key'[pred[t]] <= Key(t)' /\ ~Matches(t, pred[t])'
        <4>1. pred[t] # Tail /\ key[pred[t]] <= Key(t) /\ ~Matches(t, pred[t])
          BY <1>1, <2>4 DEF Holds
        <4> QED
          BY <1>2, <2>1, <2>4, <4>1, SameSearch DEF Matches
      <3> QED
        BY <2>1, <2>3, <3>1, <3>2, <3>3 DEF Holds, Matches, Key
    <2>10. Fresh(t)'
      <3>1. node[t] # None => Kept(node[t])
        BY <1>1, <2>3 DEF TypeOK
      <3> QED
        BY <1>1, <1>2, <2>1, <3>1, FreshStays
    <2>11. Searches(t)'
      <3>1. pred[t] \in linked' => Behind(t, pred[t])'
        BY <1>1, <1>2, <2>1, <2>4, <2>5, BehindStays DEF Searches, Holds
      <3>2. (pred[t] # None /\ pred[t] \in linked => Behind(t, pred[t]))'
        BY <2>1, <3>1 DEF Behind, Matches, Key
      <3>3. Cursor(t)' = succ[t]
        BY <2>1 DEF Cursor
      <3>4. op'[t] \in Operation /\ key'[succ[t]] > Key(t)' => FALSE \in seen'[t]
        BY <1>2, <2>1, <2>4, <2>7, SameSearch DEF Asks
      <3>5. Behind(t, Cursor(t))'
        BY <2>1, <2>8, <3>3 DEF Behind, Matches, Key
      <3> QED
        BY <2>1, <3>2, <3>3, <3>4, <3>5 DEF Searches
    <2>12. Walks(t)'
      BY <2>1 DEF Walks
    <2> QED
      BY <2>9, <2>10, <2>11, <2>12 DEF Search
  <1> QED
    BY <1>3, <1>4

LEMMA RetireSearch ==
  ASSUME IInv, TypeOK', NEW t \in Thread, Retire(t)
  PROVE  Search(t)'
  <1>1. /\ pc[t] \in {"retire", "retire_last"} /\ TypeOK /\ Local(t)
        /\ Holds(t) /\ Fresh(t) /\ Searches(t) /\ op[t] # "none"
    BY Running, Busy DEF Retire
  <1>2. /\ UNCHANGED <<key, elem, next, readers, linked, op, arg, head, node, seen, answer>>
        /\ Asks(t)
    BY DEF Retire, call, Asks
  <1>3. Fresh(t)'
    BY <1>1, <1>2, Unwritten, FreshStays
  <1>4. CASE pc[t] = "retire"
    <2>1. /\ pc'[t] = "load" /\ pred'[t] = pred[t] /\ curr'[t] = succ[t] /\ succ'[t] = None
      BY <1>1, <1>4 DEF Retire, Goto, TypeOK
    <2>2. pred[t] # None /\ succ[t] # None /\ succ[t] \in Safe(t)
      BY <1>4, Busy, NodeAssumption DEF WithPred, WithSucc, Finding
    <2>3. Cursor(t)' = Cursor(t) /\ Cursor(t) = succ[t]
      BY <1>4, <2>1 DEF Cursor
    <2>4. Holds(t)'
      BY <1>1, <1>2, <2>1, <2>2, Unwritten DEF Holds, WithSucc
    <2>5. Searches(t)'
      <3>1. (pred[t] # None /\ pred[t] \in linked => Behind(t, pred[t]))'
        BY <1>1, <1>2, <2>1, Unwritten DEF Searches, Behind
      <3>2. (Cursor(t) \in linked /\ key[Cursor(t)] <= Key(t) => Behind(t, Cursor(t)))'
        <4> SUFFICES ASSUME succ[t] \in linked, key[succ[t]] <= Key(t),
                            NEW x \in linked, Matches(t, x)'
                     PROVE  x \in From(next, succ[t])
          BY <1>2, <2>3, Unwritten DEF Behind
        <4> QED
          BY <1>1, <1>2, <1>4, <2>3, Unwritten DEF Searches, Finding, Behind
      <3>3. op'[t] \in Operation /\ key'[Cursor(t)'] > Key(t)' => FALSE \in seen'[t]
        BY <1>1, <1>2, <1>4, <2>3, Unwritten DEF Searches, Finding
      <3> QED
        BY <2>1, <3>1, <3>2, <3>3 DEF Searches
    <2>6. Walks(t)'
      BY <2>1 DEF Walks
    <2> QED
      BY <1>3, <2>4, <2>5, <2>6 DEF Search
  <1>5. CASE pc[t] = "retire_last"
    <2>1. /\ pc'[t] = "done" /\ pred'[t] = None /\ curr'[t] = None /\ succ'[t] = None
      BY <1>1, <1>5 DEF Retire, Done, Forget, Goto, TypeOK
    <2>2. op[t] = "Remove"
      BY <1>1, <1>5 DEF Local
    <2> QED
      BY <1>2, <1>3, <1>5, <2>1, <2>2, Unwritten, AtRest
  <1> QED
    BY <1>1, <1>4, <1>5

\* A thread that throws has nothing left but its head.
LEMMA ThrowSearch ==
  ASSUME IInv, TypeOK', NEW t \in Thread, RetireThrows(t) \/ NewThrows(t)
  PROVE  Search(t)'
  <1>1. pc[t] \in {"retire", "retire_last", "window"} /\ TypeOK
    BY DEF RetireThrows, NewThrows, IInv
  <1>2. /\ UNCHANGED <<key, elem, next, readers, linked, head>> /\ Asks(t)
        /\ pc'[t] = "throw" /\ pred'[t] = None /\ curr'[t] = None /\ succ'[t] = None
        /\ node'[t] = None
    BY <1>1 DEF RetireThrows, NewThrows, Throw, Forget, Goto, call, nodes, Asks, TypeOK
  <1>3. Fresh(t)'
    BY <1>2 DEF Fresh
  <1> QED
    BY <1>1, <1>2, <1>3, Unwritten, AtRest

LEMMA AddFoundSearch ==
  ASSUME IInv, TypeOK', NEW t \in Thread, AddFound(t)
  PROVE  Search(t)'
  <1>1. /\ pc[t] = "window" /\ TypeOK /\ List /\ Passing /\ Matches(t, curr[t])
        /\ op[t] # "none" /\ curr[t] \in Safe(t)
    BY Running, Busy DEF AddFound, WithPred
  <1>2. Stable(t) /\ Asks(t) /\ head'[t] = head[t]
    BY <1>1, OwnStable DEF Step, Add, Return, AddFound
  <1>3. /\ pc'[t] = "done" /\ pred'[t] = None /\ curr'[t] = None /\ succ'[t] = None
        /\ node'[t] = None /\ linked' = linked
        /\ Settle(t, IF op[t] = "Add" THEN FALSE ELSE curr[t])
    BY <1>1 DEF AddFound, Settle, Done, Forget, Goto, TypeOK
  <1>4. Fresh(t)'
    BY <1>3 DEF Fresh
  <1>5. ASSUME op[t] = "SentinelFor", NEW n \in answer'[t]
        PROVE  n \in linked' /\ key'[n] = Key(t)
    <2>1. n = curr[t]
      BY <1>1, <1>3, <1>5 DEF Settle, TypeOK
    <2>2. curr[t] \in Node /\ Proper(curr[t])
      BY <1>1, SafeNodes
    <2>3. elem[curr[t]] = None
      BY <1>1, <1>5, <2>2, WhatMatches DEF Sought
    <2>4. curr[t] \in linked
      BY <1>1, <2>3, SafeNodes
    <2> QED
      BY <1>1, <1>2, <1>3, <2>1, <2>4, SameSearch DEF Matches
  <1> QED
    BY <1>1, <1>2, <1>3, <1>4, <1>5, AtRest

LEMMA AddLinkSearch ==
  ASSUME IInv, TypeOK', NEW t \in Thread, NEW n \in Node, AddLink(t, n)
  PROVE  Search(t)'
  <1>1. /\ pc[t] = "window" /\ TypeOK /\ List /\ Passing /\ Holds(t) /\ ~Matches(t, curr[t])
        /\ op[t] # "none" /\ curr[t] \in Safe(t) /\ curr[t] \in Node
    BY Running, Busy DEF AddLink, WithPred
  <1>2. Stable(t) /\ Asks(t) /\ head'[t] = head[t]
    BY <1>1, OwnStable DEF Step, Add, Return, AddLink
  <1>3. CASE Links(t)
    <2>1. /\ node' = [node EXCEPT ![t] = None] /\ linked' = linked \cup {n}
          /\ Settle(t, IF op[t] = "Add" THEN TRUE ELSE n)
      BY <1>3 DEF AddLink
    <2>2. /\ pc'[t] = "done" /\ pred'[t] = None /\ curr'[t] = None /\ succ'[t] = None
          /\ node'[t] = None
      BY <1>1, <2>1 DEF Settle, Done, Forget, Goto, TypeOK
    <2>3. Fresh(t)'
      BY <2>2 DEF Fresh
    <2>4. ASSUME op[t] = "SentinelFor", NEW m \in answer'[t]
          PROVE  m \in linked' /\ key'[m] = Key(t)
      <3>1. m = n
        BY <1>1, <2>1, <2>4 DEF Settle, TypeOK
      <3> QED
        BY <1>3, <2>1, <3>1, AddLinkInserts
    <2> QED
      BY <1>1, <1>2, <2>2, <2>3, <2>4, AtRest
  <1>4. CASE ~Links(t)
    <2>1. /\ node' = [node EXCEPT ![t] = n] /\ FindAgain(t)
          /\ key' = [key EXCEPT ![n] = Key(t)]
          /\ next' = [next EXCEPT ![n] = Ref(curr[t], FALSE)]
          /\ UNCHANGED <<readers, linked>>
      BY <1>4 DEF AddLink
    <2>2. /\ pc'[t] = "find" /\ pred'[t] = None /\ curr'[t] = None /\ succ'[t] = None
          /\ node'[t] = n
      BY <1>1, <2>1 DEF FindAgain, Forget, Goto, TypeOK
    <2>3. Private(n)' /\ key'[n] = Key(t) /\ next'[n] = Ref(curr[t], FALSE)
      BY <1>1, <2>1, NewIsPrivate DEF Private, TypeOK
    <2>4. Key(t) <= key[curr[t]]
      <3>1. Key(t) \in Int /\ key[curr[t]] \in Int
        BY <1>1, Called, References
      <3> QED
        BY <1>1, <3>1 DEF Holds, AtOrPast
    <2>5. Fresh(t)'
      <3>1. ~next'[n].marked /\ next'[n].ref = curr[t]
        BY <2>3 DEF Ref
      <3>2. curr[t] \in Safe(t)' /\ key'[curr[t]] = key[curr[t]] /\ Key(t)' = Key(t)
        BY <1>1, <1>2, SameSearch
      <3> QED
        BY <2>2, <2>3, <2>4, <3>1, <3>2 DEF Fresh, Private
    <2> QED
      BY <1>1, <1>2, <2>2, <2>5, AtRest
  <1> QED
    BY <1>3, <1>4

LEMMA RemoveSearch ==
  ASSUME IInv, TypeOK', NEW t \in Thread, RemoveAbsent(t) \/ RemoveLoad(t)
  PROVE  Search(t)'
  <1>1. /\ pc[t] = "window" /\ TypeOK /\ op[t] = "Remove" /\ Local(t)
        /\ Holds(t) /\ Fresh(t) /\ Searches(t) /\ curr[t] \in Safe(t) /\ pred[t] # None
    BY Running, Busy, NodeAssumption DEF RemoveAbsent, RemoveLoad, WithPred
  <1>2. UNCHANGED <<key, elem, next, readers, linked, op, arg, head, node, seen>> /\ Asks(t)
    BY DEF RemoveAbsent, RemoveLoad, nodes, call, Asks
  <1>3. Fresh(t)'
    BY <1>1, <1>2, Unwritten, FreshStays
  <1>4. CASE RemoveAbsent(t)
    <2>1. pc'[t] = "done" /\ pred'[t] = None /\ curr'[t] = None /\ succ'[t] = None
      BY <1>1, <1>4 DEF RemoveAbsent, Settle, Done, Forget, Goto, TypeOK
    <2> QED
      BY <1>1, <1>2, <1>3, <2>1, Unwritten, AtRest
  <1>5. CASE RemoveLoad(t)
    <2>1. /\ pc'[t] = "mark" /\ pred'[t] = pred[t] /\ curr'[t] = curr[t]
          /\ succ'[t] = next[curr[t]].ref /\ Matches(t, curr[t])
      BY <1>1, <1>5 DEF RemoveLoad, Goto, TypeOK
    <2>2. succ'[t] \in Safe(t)
      BY <1>1, <2>1, NotTheTail
    <2>3. Holds(t)'
      BY <1>1, <1>2, <2>1, <2>2, Unwritten DEF Holds, WithSucc
    <2>4. Searches(t)'
      BY <1>1, <1>2, <2>1, Unwritten DEF Searches, Finding, Behind
    <2>5. Walks(t)'
      BY <2>1 DEF Walks
    <2> QED
      BY <1>3, <2>3, <2>4, <2>5 DEF Search
  <1> QED
    BY <1>4, <1>5

LEMMA AttemptMarkSearch ==
  ASSUME IInv, TypeOK', NEW t \in Thread, AttemptMark(t)
  PROVE  Search(t)'
  <1>1. /\ pc[t] = "mark" /\ TypeOK /\ List /\ Passing /\ op[t] = "Remove" /\ Local(t)
        /\ Holds(t) /\ Searches(t) /\ pred[t] # None
        /\ pred[t] \in Safe(t) /\ curr[t] \in Safe(t) /\ succ[t] \in Safe(t)
    BY Running, Busy, NodeAssumption DEF AttemptMark, WithPred, WithSucc, Finding, Local
  <1>2. Stable(t) /\ Asks(t) /\ head'[t] = head[t]
    BY <1>1, OwnStable DEF Step, Remove, Return, AttemptMark
  <1>3. CASE next[curr[t]] # Ref(succ[t], FALSE)
    <2>1. /\ pc'[t] = "find" /\ pred'[t] = None /\ curr'[t] = None /\ succ'[t] = None
          /\ node'[t] = None
      BY <1>1, <1>3 DEF AttemptMark, FindAgain, Forget, Goto, TypeOK, Local
    <2>2. Fresh(t)'
      BY <2>1 DEF Fresh
    <2> QED
      BY <1>1, <1>2, <2>1, <2>2, AtRest
  <1>4. CASE next[curr[t]] = Ref(succ[t], FALSE)
    <2>1. /\ pc'[t] = "unlink_once" /\ UNCHANGED <<pred, curr, succ, node>>
          /\ next' = [next EXCEPT ![curr[t]] = Ref(succ[t], TRUE)]
      BY <1>1, <1>4 DEF AttemptMark, Goto, locals, TypeOK
    <2>2. next'[curr[t]] = Ref(succ[t], TRUE)
      BY <1>1, <2>1, References DEF TypeOK
    <2>3. Holds(t)'
      <3>1. /\ head'[t] \in linked' \ {Tail} /\ elem'[head'[t]] = None /\ head'[t] \in Safe(t)'
            /\ key'[head'[t]] < Key(t)'
        BY <1>1, <1>2, HeadStays
      <3>2. pred'[t] \in Safe(t)' /\ curr'[t] \in Safe(t)' /\ succ'[t] \in Safe(t)'
        BY <1>1, <1>2, <2>1 DEF Stable
      <3>3. pred[t] # Tail /\ key'[pred[t]] <= Key(t)' /\ ~Matches(t, pred[t])'
        <4>1. pred[t] # Tail /\ key[pred[t]] <= Key(t) /\ ~Matches(t, pred[t])
          BY <1>1 DEF Holds
        <4> QED
          BY <1>1, <1>2, <2>1, <4>1, SameSearch DEF Matches
      <3>4. Matches(t, curr[t])'
        <4>1. Matches(t, curr[t])
          BY <1>1 DEF Holds
        <4> QED
          BY <1>1, <1>2, <2>1, <4>1, SameSearch DEF Matches
      <3> QED
        BY <1>1, <1>2, <2>1, <2>2, <3>1, <3>2, <3>3, <3>4 DEF Holds, Matches, Key, Asks
    <2>4. Fresh(t)'
      BY <1>1, <2>1 DEF Fresh, Local
    <2>5. Searches(t)'
      <3>1. pred[t] \in linked' => Behind(t, pred[t])'
        <4>1. pred[t] \in linked' => pred[t] \in linked /\ key[pred[t]] <= Key(t)
          BY <1>1, <1>2 DEF Stable, Holds
        <4> QED
          BY <1>1, <1>2, <2>1, <4>1, BehindStays DEF Searches
      <3> QED
        BY <2>1, <3>1 DEF Searches, Finding, Behind, Matches, Key
    <2>6. Walks(t)'
      BY <2>1 DEF Walks
    <2> QED
      BY <2>3, <2>4, <2>5, <2>6 DEF Search
  <1> QED
    BY <1>3, <1>4

LEMMA UnlinkOnceSearch ==
  ASSUME IInv, TypeOK', NEW t \in Thread, UnlinkOnce(t)
  PROVE  Search(t)'
  <1>1. /\ pc[t] = "unlink_once" /\ TypeOK /\ List /\ Passing /\ Guarded /\ op[t] = "Remove"
        /\ Local(t) /\ node[t] = None
        /\ Holds(t) /\ Searches(t) /\ pred[t] # None
        /\ pred[t] \in Safe(t) /\ curr[t] \in Safe(t) /\ succ[t] \in Safe(t)
    BY Running, Busy, NodeAssumption DEF UnlinkOnce, WithPred, WithSucc, Finding, Local
  <1>2. Stable(t) /\ Asks(t) /\ head'[t] = head[t]
    BY <1>1, OwnStable DEF Step, Remove, Return, UnlinkOnce
  <1>3. CASE ~Unlinks(t)
    <2>1. /\ pc'[t] = "done" /\ pred'[t] = None /\ curr'[t] = None /\ succ'[t] = None
          /\ node'[t] = None
      BY <1>1, <1>3 DEF UnlinkOnce, Done, Forget, Goto, TypeOK
    <2>2. Fresh(t)'
      BY <2>1 DEF Fresh
    <2> QED
      BY <1>1, <1>2, <2>1, <2>2, AtRest
  <1>4. CASE Unlinks(t)
    <2>1. pc'[t] = "retire_last" /\ UNCHANGED <<pred, curr, succ, node>> /\ Unlinked(t)
      BY <1>1, <1>4 DEF UnlinkOnce, Goto, locals, TypeOK
    <2>2. t \in readers'[curr[t]]
      BY <1>1, <1>4, <2>1, UnlinkedRemoves, RemoveStep, Busy
    <2>3. next[curr[t]] = Ref(succ[t], TRUE)
      BY <1>1 DEF Holds, WithSucc
    <2>4. next'[curr[t]] = Ref(succ[t], TRUE)
      BY <1>1, <1>2, <2>3 DEF Stable, Ref
    <2>5. Holds(t)'
      <3>1. /\ head'[t] \in linked' \ {Tail} /\ elem'[head'[t]] = None /\ head'[t] \in Safe(t)'
            /\ key'[head'[t]] < Key(t)'
        BY <1>1, <1>2, HeadStays
      <3>2. pred'[t] \in Safe(t)' /\ curr'[t] \in Safe(t)' /\ succ'[t] \in Safe(t)'
        BY <1>1, <1>2, <2>1 DEF Stable
      <3>3. pred[t] # Tail /\ key'[pred[t]] <= Key(t)' /\ ~Matches(t, pred[t])'
        <4>1. pred[t] # Tail /\ key[pred[t]] <= Key(t) /\ ~Matches(t, pred[t])
          BY <1>1 DEF Holds
        <4> QED
          BY <1>1, <1>2, <2>1, <4>1, SameSearch DEF Matches
      <3>4. Matches(t, curr[t])'
        <4>1. Matches(t, curr[t])
          BY <1>1 DEF Holds
        <4> QED
          BY <1>1, <1>2, <2>1, <4>1, SameSearch DEF Matches
      <3> QED
        BY <1>1, <1>2, <2>1, <2>2, <2>4, <3>1, <3>2, <3>3, <3>4 DEF Holds, Matches, Key, Asks
    <2>6. Fresh(t)'
      BY <1>1, <2>1 DEF Fresh
    <2>7. Searches(t)'
      <3>1. pred[t] \in linked' => Behind(t, pred[t])'
        <4>1. pred[t] \in linked' => pred[t] \in linked /\ key[pred[t]] <= Key(t)
          BY <1>1, <1>2 DEF Stable, Holds
        <4> QED
          BY <1>1, <1>2, <2>1, <4>1, BehindStays DEF Searches
      <3> QED
        BY <2>1, <3>1 DEF Searches, Finding, Behind, Matches, Key
    <2>8. Walks(t)'
      BY <2>1 DEF Walks
    <2> QED
      BY <2>5, <2>6, <2>7, <2>8 DEF Search
  <1> QED
    BY <1>3, <1>4

\* A walk that has its element before it still has it one node on.
LEMMA WalkSearch ==
  ASSUME IInv, TypeOK', NEW t \in Thread, Walk(t)
  PROVE  Search(t)'
  <1>1. /\ pc[t] = "walk" /\ TypeOK /\ List /\ Passing /\ op[t] = "Contains" /\ Local(t)
        /\ Holds(t) /\ Walks(t) /\ ~AtOrPast(t, curr[t])
        /\ pred[t] = None /\ succ[t] = None /\ node[t] = None
    BY Running, Busy DEF Walk, WithPred, WithSucc, Finding, Local
  <1>2. /\ pc'[t] = "walk" /\ curr'[t] = next[curr[t]].ref /\ UNCHANGED <<pred, succ, node>>
        /\ UNCHANGED <<key, elem, next, readers, linked, op, arg, head, seen>> /\ Asks(t)
    BY <1>1 DEF Walk, nodes, call, TypeOK, Asks
  <1>3. curr[t] \in Safe(t) /\ curr[t] \in Node /\ next[curr[t]].ref \in Safe(t)
    BY <1>1, Busy, NotTheTail
  <1>4. Holds(t)'
    BY <1>1, <1>2, <1>3, Unwritten DEF Holds, WithSucc
  <1>5. Fresh(t)'
    BY <1>1, <1>2 DEF Fresh
  <1>6. Searches(t)'
    BY <1>1, <1>2 DEF Searches, Finding
  <1>7. Walks(t)'
    <2> SUFFICES ASSUME FALSE \notin seen[t]
                 PROVE  \E n \in From(next, next[curr[t]].ref) :
                          /\ n \in linked /\ ~next[n].marked
                          /\ \A m \in From(next, next[curr[t]].ref) : Matches(t, m) <=> m = n
      BY <1>2, Unwritten DEF Walks
    <2>1. PICK n \in From(next, curr[t]) :
                 /\ n \in linked /\ ~next[n].marked
                 /\ \A m \in From(next, curr[t]) : Matches(t, m) <=> m = n
      BY <1>1 DEF Walks
    <2>2. n # curr[t]
      BY <1>1, <2>1 DEF AtOrPast
    <2>3. \A k \in Node : next[k].ref \in Node \cup {None}
      BY <1>1, References
    <2>4. next[curr[t]].ref \in Node /\ n \in From(next, next[curr[t]].ref)
      BY <1>3, <2>2, <2>3, FromTheNext
    <2>5. next[curr[t]].ref \in From(next, curr[t])
      BY <1>3, <2>4, FromItself, FromLeadsOn
    <2>6. From(next, next[curr[t]].ref) \subseteq From(next, curr[t])
      BY <2>3, <2>5, FromFurther
    <2> QED
      BY <2>1, <2>4, <2>6
  <1> QED
    BY <1>4, <1>5, <1>6, <1>7 DEF Search

LEMMA WalkEndsSearch ==
  ASSUME IInv, TypeOK', NEW t \in Thread, WalkEnds(t)
  PROVE  Search(t)'
  <1>1. pc[t] = "walk" /\ TypeOK /\ op[t] = "Contains" /\ Local(t) /\ node[t] = None
    BY Running, Busy DEF WalkEnds, Local
  <1>2. /\ UNCHANGED <<key, elem, next, readers, linked, op, arg, head, node, seen>> /\ Asks(t)
        /\ pc'[t] = "done" /\ pred'[t] = None /\ curr'[t] = None /\ succ'[t] = None
    BY <1>1 DEF WalkEnds, Settle, Done, Forget, Goto, nodes, call, TypeOK, Asks
  <1>3. Fresh(t)'
    BY <1>1, <1>2 DEF Fresh
  <1> QED
    BY <1>1, <1>2, <1>3, Unwritten, AtRest

\* The list that a call is about leads to what the call is for.
LEMMA CallSearch ==
  ASSUME IInv, TypeOK', NEW t \in Thread, NEW o \in Operation, NEW e \in Elem,
         NEW h \in Node, Call(t, o, e, h)
  PROVE  Search(t)' /\ Sees(t)'
  <1>1. /\ pc[t] = "idle" /\ TypeOK /\ List /\ Passing /\ Local(t)
        /\ pred[t] = None /\ succ[t] = None /\ node[t] = None
        /\ op[t] = "none" /\ curr[t] = None
    BY Running DEF Call, Local, WithPred, WithSucc, Finding
  <1>2. /\ op'[t] = o /\ arg'[t] = e /\ head'[t] = h
        /\ curr'[t] = (IF o = "Contains" THEN h ELSE None)
        /\ pc'[t] = (IF o = "Contains" THEN "walk" ELSE "find")
        /\ seen'[t] = {(e \in Members)}
        /\ UNCHANGED <<key, elem, next, readers, linked, pred, succ, node>>
    BY <1>1 DEF Call, Goto, nodes, TypeOK
  <1>3. h \in linked \ {Tail} /\ elem[h] = None /\ key[h] < OrdinaryKey[e] /\ h # None
    BY NodeAssumption DEF Call, Sentinels
  <1>4. Key(t)' = OrdinaryKey[e] /\ \A n : Matches(t, n)' <=> key[n] = OrdinaryKey[e] /\ elem[n] = e
    BY <1>2 DEF Key, Matches, Operation
  <1>5. Members' = Members
    BY <1>2 DEF Members, Present
  <1>6. Sees(t)'
    BY <1>2, <1>5 DEF Sees
  <1>7. Holds(t)'
    <2>1. h \in Safe(t)'
      BY <1>2, <1>3 DEF Safe
    <2> QED
      BY <1>1, <1>2, <1>3, <1>4, <2>1 DEF Holds, WithSucc, Operation
  <1>8. Fresh(t)'
    BY <1>1, <1>2 DEF Fresh
  <1>9. Searches(t)'
    BY <1>1, <1>2 DEF Searches, Finding
  <1>10. Walks(t)'
    <2> SUFFICES ASSUME o = "Contains", FALSE \notin seen'[t]
                 PROVE  \E n \in From(next, h) :
                          /\ n \in linked /\ ~next[n].marked
                          /\ \A m \in From(next, h) :
                               key[m] = OrdinaryKey[e] /\ elem[m] = e <=> m = n
      BY <1>2, <1>4 DEF Walks
    <2>1. e \in Members
      <3> SUFFICES ASSUME e \notin Members
                   PROVE  FALSE
        OBVIOUS
      <3>1. (e \in Members) = FALSE
        OBVIOUS
      <3>2. seen'[t] = {FALSE}
        BY <1>2, <3>1
      <3> QED
        BY <3>2
    <2>2. PICK n \in Present : elem[n] = e
      BY <2>1 DEF Members
    <2>3. n \in linked /\ ~next[n].marked /\ e # None
      BY <2>2, NodeAssumption DEF Present
    <2>4. key[n] = OrdinaryKey[e]
      BY <1>1, <2>2, <2>3 DEF List, Proper
    <2>5. n \in From(next, h)
      BY <1>1, <1>3, <2>3, <2>4, LowerIsAhead
    <2>6. ASSUME NEW m \in From(next, h), key[m] = OrdinaryKey[e], elem[m] = e
          PROVE  m = n
      <3>1. m \in linked
        BY <1>1, <1>3, LinkedAhead
      <3> QED
        BY <1>1, <2>2, <2>3, <2>4, <2>6, <3>1 DEF List, Unique
    <2> QED
      BY <2>2, <2>3, <2>4, <2>5, <2>6
  <1> QED
    BY <1>6, <1>7, <1>8, <1>9, <1>10 DEF Search

LEMMA CallSentinelForSearch ==
  ASSUME IInv, TypeOK', NEW t \in Thread, NEW b \in Bucket,
         NEW h \in Node, CallSentinelFor(t, b, h)
  PROVE  Search(t)' /\ Sees(t)'
  <1>1. /\ pc[t] = "idle" /\ TypeOK /\ List /\ Local(t)
        /\ node[t] = None /\ op[t] = "none"
    BY Running DEF CallSentinelFor, Local
  <1>2. /\ op'[t] = "SentinelFor" /\ arg'[t] = b /\ head'[t] = h
        /\ curr'[t] = None /\ pred'[t] = None /\ succ'[t] = None /\ node'[t] = None
        /\ UNCHANGED <<key, elem, next, readers, linked>>
        /\ IF key[h] = SentinelKey[b] THEN pc'[t] = "done" /\ answer'[t] = {h}
                                      ELSE pc'[t] = "find"
    BY <1>1 DEF CallSentinelFor, Settle, Done, FindAgain, Forget, Goto, nodes, TypeOK
  <1>3. h \in linked \ {Tail} /\ elem[h] = None /\ key[h] <= SentinelKey[b] /\ h # None
    BY NodeAssumption DEF CallSentinelFor, Sentinels
  <1>4. Key(t)' = SentinelKey[b] /\ key[h] \in Int /\ SentinelKey[b] \in Int
    BY <1>1, <1>2, References, KeyAssumption DEF Key
  <1>5. Sees(t)'
    BY <1>2 DEF Sees, Operation
  <1>6. Holds(t)'
    <2>1. h \in Safe(t)'
      BY <1>2, <1>3 DEF Safe
    <2>2. pc'[t] \in {"done", "find"}
      BY <1>2
    <2>3. pc'[t] # "done" => key'[h] < Key(t)'
      BY <1>2, <1>3, <1>4
    <2>4. pc'[t] = "done" => \A n \in answer'[t] : n \in linked' /\ key'[n] = Key(t)'
      BY <1>2, <1>3, <1>4
    <2> QED
      BY <1>2, <1>3, <2>1, <2>2, <2>3, <2>4 DEF Holds, WithSucc
  <1>7. Fresh(t)' /\ Searches(t)' /\ Walks(t)'
    BY <1>2 DEF Fresh, Searches, Walks, Finding
  <1> QED
    BY <1>5, <1>6, <1>7 DEF Search

\* What a thread has seen it does not forget before it returns.
LEMMA OwnSeen ==
  ASSUME IInv, NEW t \in Thread, Step(t), ~Return(t)
  PROVE  seen[t] \subseteq seen'[t]
  <1>1. CASE UNCHANGED seen
    BY <1>1
  <1>2. ASSUME NEW n \in Node, AddLink(t, n)
        PROVE  seen[t] \subseteq seen'[t]
    BY <1>2, Observing DEF AddLink
  <1>3. CASE AttemptMark(t)
    BY <1>3, Observing DEF AttemptMark
  <1> QED
    BY <1>1, <1>2, <1>3
    DEF Step, Find, Add, Remove, Contains, FindRetry, FindMarked, FindNext, FindWindow, FindUnlink,
        AddFound, NewThrows, RemoveAbsent, RemoveLoad, UnlinkOnce, Walk, WalkEnds,
        Retire, RetireThrows

LEMMA StepSearch ==
  ASSUME IInv, TypeOK', NEW t \in Thread, Calls(t) \/ Step(t)
  PROVE  Search(t)' /\ Sees(t)'
  <1>1. CASE Calls(t)
    BY <1>1, CallSearch, CallSentinelForSearch DEF Calls
  <1>2. CASE Return(t)
    <2>1. op'[t] = "none" /\ Local(t)'
      <3>1. TypeOK /\ Step(t)
        BY <1>2, StillThere, Running DEF Step
      <3> QED
        BY <1>2, <3>1, StepLocals DEF Return, TypeOK
    <2> QED
      BY <2>1, IdleSearch DEF Sees, Operation
  <1>3. CASE Step(t) /\ ~Return(t)
    <2>1. Asks(t) /\ seen[t] \subseteq seen'[t]
      BY <1>3, OwnSeen, CallStays DEF call, Asks
    <2>2. Sees(t)'
      BY <2>1, ChangesAreSeen
    <2>3. Search(t)'
      BY <1>3, FindRetrySearch, FindMarkedSearch, FindNextSearch, FindWindowSearch,
         FindUnlinkSearch, RetireSearch, ThrowSearch, AddFoundSearch, AddLinkSearch,
         RemoveSearch, AttemptMarkSearch, UnlinkOnceSearch, WalkSearch, WalkEndsSearch
      DEF Step, Find, Add, Remove, Contains
    <2> QED
      BY <2>2, <2>3
  <1> QED
    BY <1>1, <1>2, <1>3

-----------------------------------------------------------------------------
\* The invariant is inductive.

LEMMA InitIInv ==
  ASSUME Init
  PROVE  IInv
  <1>1. /\ Root # Tail /\ Root # None /\ Tail # None
        /\ 0 < kTailKey /\ SentinelKey[0] = 0 /\ 0 \in Bucket
    BY NodeAssumption, KeyAssumption
  <1>2. TypeOK
    <2>1. next \in [Node -> [ref : Node \cup {None}, marked : BOOLEAN]]
      BY NodeAssumption DEF Init, Ref
    <2>2. \A t \in Thread : CallTypeOK(t)
      BY DEF Init, CallTypeOK, Operation
    <2>3. key \in [Node -> 0 .. kTailKey]
      BY KeyAssumption DEF Init
    <2>4. /\ elem \in [Node -> Elem \cup {None}]
          /\ heap \in [Node -> {"free", "used", "retired"}]
          /\ readers \in [Node -> SUBSET Thread]
          /\ lost \subseteq Node /\ linked \subseteq Node
      BY NodeAssumption DEF Init
    <2>5. /\ pc \in [Thread -> Label]
          /\ op \in [Thread -> Operation \cup {"SentinelFor", "none"}]
          /\ head \in [Thread -> Node \cup {None}]
          /\ pred \in [Thread -> Node \cup {None}]
          /\ curr \in [Thread -> Node \cup {None}]
          /\ succ \in [Thread -> Node \cup {None}]
          /\ node \in [Thread -> Node \cup {None}]
          /\ arg \in [Thread -> Elem \cup Bucket \cup {None}]
          /\ answer \in [Thread -> SUBSET (Node \cup BOOLEAN)]
          /\ seen \in [Thread -> SUBSET BOOLEAN]
      BY DEF Init, Label
    <2> QED
      BY <2>1, <2>2, <2>3, <2>4, <2>5 DEF TypeOK
  <1>3. Locals
    BY DEF Init, Locals, Local, WithPred, WithSucc, Finding, Operation
  <1>4. Up
    BY ThreadAssumption DEF Init, Up
  <1>5. Reachable = linked
    <2>1. \A k \in Node : next[k].ref \in Node \cup {None}
      BY <1>2, References
    <2>2. next[Root].ref = Tail /\ next[Tail].ref = None /\ linked = {Root, Tail}
      BY <1>1, NodeAssumption DEF Init, Ref
    <2>3. Reachable \subseteq {Root, Tail}
      <3> DEFINE S == {Root, Tail}
      <3>1. S \in SUBSET Node /\ Root \in S /\ \A k \in S : next[k].ref \in S \cup {None}
        BY <2>2, NodeAssumption
      <3> HIDE DEF S
      <3>2. From(next, Root) \subseteq S
        BY <3>1, FromIsLeast, NodeAssumption
      <3> QED
        BY <3>2 DEF S, Reachable
    <2>4. Root \in Reachable /\ Tail \in Reachable
      BY <2>2, FromItself, FromLeadsOn, NodeAssumption DEF Reachable
    <2> QED
      BY <2>2, <2>3, <2>4
  <1>6. List
    <2>1. /\ key[Root] = 0 /\ key[Tail] = kTailKey /\ elem[Root] = None /\ elem[Tail] = None
          /\ next[Root] = Ref(Tail, FALSE) /\ next[Tail] = Ref(None, FALSE) /\ linked = {Root, Tail}
      BY <1>1, NodeAssumption DEF Init
    <2>2. Ends
      BY <2>1 DEF Ends
    <2>3. Chain /\ Unique
      <3>1. kTailKey \in Int /\ linked \ {Tail} = {Root} /\ next[Root].ref = Tail
        BY <1>1, <2>1, KeyAssumption DEF Ref
      <3>2. Chain
        <4>1. next[Root].ref \in linked \ {Root} /\ key[Root] <= key[next[Root].ref]
          <5>1. 0 <= kTailKey
            BY <1>1, <3>1
          <5>2. Tail \in linked /\ Tail # Root
            BY <1>1, <2>1
          <5> QED
            BY <2>1, <3>1, <5>1, <5>2
        <4>2. \A n \in linked \ {Tail} : n = Root
          BY <3>1
        <4> QED
          BY <4>1, <4>2 DEF Chain
      <3>3. key[Root] # key[Tail]
        BY <1>1, <2>1, <3>1
      <3> QED
        BY <2>1, <3>2, <3>3 DEF Unique
    <2>4. \A n \in linked : Proper(n)
      BY <1>1, <2>1 DEF Proper, Ref
    <2>5. \A n \in linked : readers[n] = {}
      BY <1>2, <2>1 DEF Init, TypeOK
    <2> QED
      BY <1>5, <2>2, <2>3, <2>4, <2>5 DEF List
  <1>7. Passing /\ Guarded
    BY DEF Init, Passing, Guarded
  <1>8. Owners
    BY NodeAssumption DEF Init, Owners, Unretired
  <1>9. ASSUME NEW t \in Thread
        PROVE  Search(t) /\ Sees(t)
    BY DEF Init, Search, Sees, Holds, Fresh, Searches, Walks, WithSucc, Finding, Operation
  <1> QED
    BY <1>2, <1>3, <1>4, <1>6, <1>7, <1>8, <1>9 DEF IInv, Memory

LEMMA ThreadStep ==
  ASSUME IInv, NEW t \in Thread, Calls(t) \/ Step(t)
  PROVE  IInv'
  <1>1. TypeOK'
    BY CallTypes, StepTypes
  <1>2. Locals'
    BY LocalsStep
  <1>3. Up'
    BY StillThere DEF Up
  <1>4. Memory' /\ Owners'
    BY <1>1, MemoryStep, GuardedStep, OwnersStep DEF Memory
  <1>5. ASSUME NEW u \in Thread
        PROVE  Search(u)' /\ Sees(u)'
    BY <1>1, <1>2, StepSearch, OthersSearch
  <1> QED
    BY <1>1, <1>2, <1>3, <1>4, <1>5 DEF IInv

\* What the reclaimer deletes is out of everybody's reach.
LEMMA ReclaimStep ==
  ASSUME IInv, NEW n \in Node, Reclaim(n)
  PROVE  IInv' /\ Quiet({n}) /\ Members' = Members
  <1>1. TypeOK /\ Locals /\ heap[n] = "retired" /\ readers[n] = {} /\ Delete({n})
    BY DEF IInv, Reclaim
  <1>2. Up /\ Up'
    BY <1>1 DEF IInv, Gone, Reclaim, Up
  <1>3. List /\ Passing /\ Guarded /\ Owners /\ \A t \in Thread : Search(t) /\ Sees(t)
    BY <1>2 DEF IInv, Memory
  <1>4. UNCHANGED <<readers, linked, pc, op, arg, head, pred, curr, succ, node, answer, seen, lost>>
    BY DEF Reclaim, call, locals
  <1>5. /\ \A k \in Node \ {n} : /\ key'[k] = key[k] /\ elem'[k] = elem[k]
                                 /\ next'[k] = next[k] /\ heap'[k] = heap[k]
        /\ heap'[n] = "free"
    BY <1>1, Deleting
  <1>6. TypeOK'
    <2>1. \A t \in Thread : CallTypeOK(t)'
      BY <1>1, <1>4 DEF CallTypeOK, TypeOK
    <2> QED
      BY <1>1, <1>4, <2>1, Deleting DEF TypeOK
  <1>7. Locals'
    <2>1. \A t \in Thread : Local(t)'
      BY <1>1, <1>4 DEF Locals, Local
    <2> QED
      BY <1>1, <1>4, <2>1 DEF Locals
  <1>8. n \notin linked /\ n \notin lost /\ \A t \in Thread : n # node[t] /\ n \notin Unretired(t)
    BY <1>1, <1>3 DEF Owners
  <1>9. Quiet({n})
    BY <1>1, <1>4, <1>5, <1>8 DEF Quiet, Private
  <1>10. /\ List' /\ Passing' /\ Members' = Members
         /\ \A t \in Thread : Stable(t)
         /\ \A k \in Node \ {n} : Kept(k)
    BY <1>1, <1>3, <1>6, <1>9, QuietStep
  <1>11. Guarded'
    BY <1>1, <1>3, <1>4, <1>5 DEF Guarded
  <1>12. Owners'
    <2>1. \A t \in Thread : Unretired(t)' = Unretired(t)
      BY <1>4 DEF Unretired
    <2>2. \A k \in Node : heap'[k] = "used" <=> heap[k] = "used"
      BY <1>1, <1>5
    <2>3. \A k : Private(k)' <=> Private(k)
      BY <1>4 DEF Private
    <2> QED
      BY <1>3, <1>4, <2>1, <2>2, <2>3 DEF Owners
  <1>13. ASSUME NEW t \in Thread
         PROVE  Search(t)' /\ Sees(t)'
    <2>1. Sees(t)'
      BY <1>3, <1>4, <1>10 DEF Sees
    <2>2. CASE op[t] = "none"
      BY <1>4, <1>7, <2>1, <2>2, IdleSearch DEF Locals
    <2>3. CASE op[t] # "none"
      <3>1. t \in InGuard /\ pc[t] \notin {"idle", "gone"} /\ Still(t)
        BY <1>1, <1>4, <2>3 DEF InGuard, Locals, Local, Still
      <3>2. node[t] # None => Kept(node[t])
        BY <1>1, <1>8, <1>10 DEF TypeOK
      <3>3. MarksAreSeen(t)
        BY <1>1, <1>5, <1>8 DEF MarksAreSeen, TypeOK
      <3> QED
        BY <1>6, <1>10, <2>1, <3>1, <3>2, <3>3, StillSearch
    <2> QED
      BY <2>2, <2>3
  <1> QED
    BY <1>2, <1>6, <1>7, <1>9, <1>10, <1>11, <1>12, <1>13 DEF IInv, Memory

\* What is left is all linked in, or lost.
LEMMA DestroyStep ==
  ASSUME IInv, Destroy
  PROVE  IInv' /\ ~Up'
  <1>1. TypeOK /\ Locals /\ \A t \in Thread : pc[t] = "idle"
    BY DEF IInv, Destroy
  <1>2. Up
    BY <1>1, ThreadAssumption DEF Up
  <1>3. List /\ Owners
    BY <1>2 DEF IInv, Memory
  <1>4. /\ pc' = [t \in Thread |-> "gone"]
        /\ heap' = [n \in Node |-> IF n \in linked \/ heap[n] = "retired"
                                     THEN "free" ELSE heap[n]]
        /\ UNCHANGED <<key, elem, next, readers, linked, op, arg, head, pred, curr, succ, node,
                       answer, seen, lost>>
    BY <1>3 DEF Destroy, List, call, locals
  <1>5. TypeOK'
    <2>1. \A t \in Thread : CallTypeOK(t)'
      BY <1>1, <1>4 DEF CallTypeOK, TypeOK
    <2> QED
      BY <1>1, <1>4, <2>1 DEF TypeOK, Label
  <1>6. Locals'
    BY <1>1, <1>4 DEF Locals, Local, WithPred, WithSucc, Finding, Unsettled
  <1>7. ~Up'
    BY <1>4 DEF Up
  <1>8. Gone'
    <2> SUFFICES ASSUME NEW n \in Node
                 PROVE  /\ heap'[n] = IF n \in lost THEN "used" ELSE "free"
                        /\ ~(n \in lost /\ n \in linked)
      BY <1>4 DEF Gone
    <2>1. \A t \in Thread : n # node[t] /\ n \notin Unretired(t)
      BY <1>1, NodeAssumption DEF Locals, Local, Unretired
    <2>2. heap[n] = "used" <=> n \in linked \cup lost
      BY <1>3, <2>1 DEF Owners
    <2>3. ~(n \in lost /\ n \in linked)
      BY <1>3 DEF Owners, Private
    <2> QED
      BY <1>1, <1>4, <2>2, <2>3 DEF TypeOK
  <1> QED
    BY <1>5, <1>6, <1>7, <1>8 DEF IInv

LEMMA NothingStep ==
  ASSUME IInv, UNCHANGED vars
  PROVE  IInv'
  <1>1. UNCHANGED <<key, elem, next, heap, readers, linked, pc, op, arg, head,
                    pred, curr, succ, node, answer, seen, lost>>
    BY DEF vars, nodes, call, locals
  <1>2. TypeOK <=> TypeOK'
    BY <1>1 DEF TypeOK, CallTypeOK
  <1>3. (Locals <=> Locals') /\ (Up <=> Up') /\ (Gone <=> Gone')
    BY <1>1 DEF Locals, Local, Up, Gone
  <1>4. List <=> List'
    BY <1>1 DEF List, Ends, Chain, Unique, Proper, Reachable
  <1>5. (Passing <=> Passing') /\ (Guarded <=> Guarded')
    BY <1>1 DEF Passing, Safe, Guarded
  <1>6. Owners <=> Owners'
    BY <1>1 DEF Owners, Private, Unretired
  <1>7. ASSUME NEW t \in Thread
        PROVE  (Search(t) <=> Search(t)') /\ (Sees(t) <=> Sees(t)')
    <2>1. Safe(t)' = Safe(t) /\ Key(t)' = Key(t) /\ Cursor(t)' = Cursor(t) /\ Members' = Members
      BY <1>1 DEF Safe, Key, Cursor, Members, Present
    <2>2. /\ \A n : Matches(t, n)' = Matches(t, n) /\ AtOrPast(t, n)' = AtOrPast(t, n)
          /\ \A n : Behind(t, n)' <=> Behind(t, n)
      BY <1>1, Unwritten DEF Asks
    <2>3. (Holds(t) <=> Holds(t)') /\ (Fresh(t) <=> Fresh(t)')
      BY <1>1, <2>1, <2>2 DEF Holds, Fresh, Private
    <2>4. (Searches(t) <=> Searches(t)') /\ (Walks(t) <=> Walks(t)')
      BY <1>1, <2>1, <2>2 DEF Searches, Walks, Behind
    <2> QED
      BY <1>1, <2>1, <2>3, <2>4 DEF Search, Sees
  <1> QED
    BY <1>2, <1>3, <1>4, <1>5, <1>6, <1>7 DEF IInv, Memory

\* The inductive invariant holds in every state.
THEOREM Invariance == Spec => []IInv
  <1>1. Init => IInv
    BY InitIInv
  <1>2. IInv /\ [Next]_vars => IInv'
    BY ThreadStep, ReclaimStep, DestroyStep, NothingStep DEF Next, Destroyed
  <1> QED
    BY <1>1, <1>2, PTL DEF Spec

\* Every variable keeps its type.
THEOREM TypeCorrect == Spec => []TypeOK
  <1>1. IInv => TypeOK
    BY DEF IInv
  <1> QED
    BY <1>1, Invariance, PTL

-----------------------------------------------------------------------------
LEMMA SplitOrderedHolds ==
  ASSUME IInv
  PROVE  SplitOrdered
  <1> SUFFICES ASSUME Up
               PROVE  /\ Reachable = linked
                      /\ Tail \in linked
                      /\ \A n \in linked \ {Tail} : key[n] <= key[next[n].ref]
                      /\ \A m, n \in linked : key[m] = key[n] /\ elem[m] = elem[n] => m = n
                      /\ \A t \in Thread :
                           op[t] = "SentinelFor" /\ pc[t] = "done"
                             => \A n \in answer[t] :
                                  /\ ~next[n].marked
                                  /\ {m \in linked : key[m] = SentinelKey[arg[t]]} = {n}
    BY DEF SplitOrdered
  <1>1. TypeOK /\ List /\ \A t \in Thread : Holds(t)
    BY DEF IInv, Memory, Search
  <1>2. ASSUME NEW t \in Thread, op[t] = "SentinelFor", pc[t] = "done", NEW n \in answer[t]
        PROVE  ~next[n].marked /\ {m \in linked : key[m] = SentinelKey[arg[t]]} = {n}
    <2>1. n \in linked /\ key[n] = SentinelKey[arg[t]] /\ arg[t] \in Bucket
      BY <1>1, <1>2, Called DEF Holds, Key
    <2>2. ASSUME NEW m \in linked, key[m] = SentinelKey[arg[t]]
          PROVE  elem[m] = None
      BY <1>1, <2>1, <2>2, KeyAssumption DEF List, Proper
    <2>3. elem[n] = None /\ ~next[n].marked
      BY <1>1, <2>1, <2>2 DEF List, Proper
    <2>4. \A m \in linked : key[m] = SentinelKey[arg[t]] => m = n
      BY <1>1, <2>1, <2>2, <2>3 DEF List, Unique
    <2> QED
      BY <2>1, <2>3, <2>4
  <1> QED
    BY <1>1, <1>2 DEF List, Ends, Chain, Unique

\* The list leads through all that is linked in, in split order and with no two
\* nodes alike, and SentinelFor() returns the one sentinel of its bucket.
THEOREM AlwaysSplitOrdered == Spec => []SplitOrdered
  BY SplitOrderedHolds, Invariance, PTL

\* Before all is gone, whatever a thread may look at is in memory.
LEMMA SafeIsInMemory ==
  ASSUME IInv, Up, NEW t \in Thread, NEW n \in Safe(t)
  PROVE  n \in Node /\ (heap[n] = "used" \/ t \in readers[n])
  BY DEF IInv, Memory, Owners, Safe, TypeOK

LEMMA NoDanglingPointerHolds ==
  ASSUME IInv
  PROVE  NoDanglingPointer
  <1> DEFINE safe(t) == {n \in Node : heap[n] = "used" \/ t \in readers[n]}
  <1> SUFFICES ASSUME NEW t \in Thread
               PROVE  /\ Held(t) \subseteq safe(t)
                      /\ \A n \in Held(t) \ {Tail} :
                           next[n].ref \in safe(t) /\ key[n] <= key[next[n].ref]
    BY DEF NoDanglingPointer
  <1>1. TypeOK /\ Local(t)
    BY DEF IInv, Locals
  <1>2. CASE ~Up
    <2>1. Held(t) = {}
      BY <1>1, <1>2 DEF Up, Held, Local, WithPred, WithSucc, Finding
    <2> QED
      BY <2>1
  <1>3. CASE Up
    <2>1. List /\ Passing /\ Holds(t) /\ Fresh(t) /\ Owners
      BY <1>3 DEF IInv, Memory, Search
    <2>2. \A n \in Safe(t) : n \in safe(t)
      BY <1>3, SafeIsInMemory
    <2>3. ASSUME NEW n \in {head[t], pred[t], curr[t], succ[t]} \ {None}
          PROVE  /\ n \in safe(t)
                 /\ n # Tail => next[n].ref \in safe(t) /\ key[n] <= key[next[n].ref]
      <3>1. n \in Safe(t)
        BY <2>1 DEF Holds
      <3> QED
        BY <1>1, <2>1, <2>2, <3>1, SafeLeadsOn
    <2>4. ASSUME node[t] # None
          PROVE  /\ node[t] \in safe(t)
                 /\ next[node[t]].ref \in safe(t) /\ key[node[t]] <= key[next[node[t]].ref]
      <3>1. node[t] \in Node /\ heap[node[t]] = "used"
        BY <1>1, <2>1, <2>4 DEF Owners, TypeOK
      <3>2. next[node[t]].ref \in Safe(t) /\ key[node[t]] <= key[next[node[t]].ref]
        BY <2>1, <2>4 DEF Fresh
      <3> QED
        BY <2>2, <3>1, <3>2
    <2> QED
      BY <2>3, <2>4 DEF Held
  <1> QED
    BY <1>2, <1>3

\* What a thread points to, and what it gets to from there, is not freed before
\* the thread leaves its Guard.
THEOREM NothingDangles == Spec => []NoDanglingPointer
  BY NoDanglingPointerHolds, Invariance, PTL

LEMMA OneOwnerHolds ==
  ASSUME IInv
  PROVE  OneOwner
  <1> DEFINE threads(n) == {t \in Thread : n = node[t] \/ n \in Unretired(t)}
  <1>1. TypeOK /\ Locals
    BY DEF IInv
  <1>2. CASE ~Up
    <2>1. \A t \in Thread : node[t] = None /\ Unretired(t) = {}
      BY <1>1, <1>2 DEF Up, Locals, Local, Unretired, Finding
    <2>2. \A n \in Node : threads(n) = {}
      BY <2>1, NodeAssumption
    <2>3. Gone
      BY <1>2 DEF IInv
    <2> QED
      BY <1>2, <2>2, <2>3 DEF OneOwner, Gone
  <1>3. CASE Up
    <2>1. List /\ Passing /\ Owners /\ \A t \in Thread : Holds(t) /\ Fresh(t)
      BY <1>3 DEF IInv, Memory, Search
    <2>2. ASSUME NEW n \in Node, NEW t \in Thread, n \in Unretired(t)
          PROVE  readers[n] # {}
      BY <2>1, <2>2 DEF Unretired, Holds
    <2>3. ASSUME NEW n \in Node, NEW t \in Thread, n = node[t]
          PROVE  Private(n)
      BY <2>1, <2>3, NodeAssumption DEF Fresh
    <2>4. \A n \in linked : threads(n) = {}
      BY <1>1, <2>1, <2>2, <2>3 DEF List, Private, TypeOK
    <2>5. \A n \in lost : n \in Node /\ heap[n] = "used" /\ n \notin linked /\ threads(n) = {}
      BY <1>1, <2>1, <2>2 DEF Owners, Private, TypeOK
    <2>6. \A n \in Node : \A t, u \in threads(n) : t = u
      BY <2>1, <2>2, <2>3, NodeAssumption DEF Owners, Private
    <2>7. \A n \in Node : heap[n] = "used" <=> n \in linked \cup lost \/ threads(n) # {}
      BY <2>1 DEF Owners
    <2> HIDE DEF threads
    <2>8. ASSUME NEW n \in Node, n \notin lost, heap[n] = "used"
          PROVE  Cardinality(threads(n)) = IF n \in linked THEN 0 ELSE 1
      <3>1. CASE n \in linked
        BY <2>4, <3>1, FS_EmptySet
      <3>2. CASE n \notin linked
        <4>1. PICK t : t \in threads(n)
          BY <2>7, <2>8, <3>2
        <4>2. threads(n) = {t}
          BY <2>6, <4>1
        <4> QED
          BY <3>2, <4>2, FS_Singleton
      <3> QED
        BY <3>1, <3>2
    <2>9. ASSUME NEW n \in Node, n \notin lost, heap[n] # "used"
          PROVE  n \notin linked /\ threads(n) = {}
      BY <2>7, <2>9
    <2> QED
      BY <1>3, <2>5, <2>8, <2>9 DEF OneOwner, threads
  <1> QED
    BY <1>2, <1>3

\* The list, a thread, the reclaimer or nobody has a node, and no two of them.
THEOREM EachNodeHasOneOwner == Spec => []OneOwner
  BY OneOwnerHolds, Invariance, PTL

-----------------------------------------------------------------------------
\* A node that is free is as it was when it was new, while there is a list.
Blank == Up => \A n \in Node : heap[n] = "free" => ~next[n].marked

\* No step of a thread changes a reference that is marked, but to free its node.
LEMMA ThreadFreezes ==
  ASSUME IInv, Blank, NEW t \in Thread, Calls(t) \/ Step(t), NEW n \in Node
  PROVE  /\ next[n].marked /\ heap'[n] # "free" => next'[n] = next[n]
         /\ heap'[n] = "free" => ~next'[n].marked
  <1>1. TypeOK /\ List /\ Passing /\ Guarded /\ Owners /\ Fresh(t) /\ Up
    BY StillThere, Running
  <1>2. heap[n] = "free" => ~next[n].marked
    BY <1>1 DEF Blank
  <1>3. CASE UNCHANGED <<next, heap>>
    BY <1>2, <1>3
  <1>4. CASE Retire(t) \/ RetireThrows(t)
    <2>1. /\ next' = next
          /\ heap'[n] = "free" => heap[n] = "free"
      BY <1>1, <1>4 DEF Retire, RetireThrows, TypeOK
    <2> QED
      BY <1>2, <2>1
  <1>5. CASE AddFound(t)
    <2>1. Delete({node[t]})
      BY <1>5 DEF AddFound
    <2>2. n # node[t] => next'[n] = next[n] /\ heap'[n] = heap[n]
      BY <1>1, <2>1, Deleting
    <2>3. n = node[t] => heap'[n] = "free" /\ ~next'[n].marked
      BY <2>1 DEF Delete, Ref
    <2> QED
      BY <1>2, <2>2, <2>3
  <1>6. ASSUME NEW m \in Node, AddLink(t, m)
        PROVE  /\ next[n].marked /\ heap'[n] # "free" => next'[n] = next[n]
               /\ heap'[n] = "free" => ~next'[n].marked
    <2>1. ~next[m].marked
      BY <1>1, <1>6 DEF AddLink, Fresh, Blank
    <2>2. heap' = [heap EXCEPT ![m] = "used"]
      BY <1>6 DEF AddLink
    <2>3. n = m => heap'[n] = "used"
      BY <1>1, <2>2 DEF TypeOK
    <2>4. n # m => heap'[n] = heap[n]
      BY <1>1, <2>2 DEF TypeOK
    <2>5. CASE Links(t)
      <3>1. next' = [next EXCEPT ![m] = Ref(curr[t], FALSE), ![pred[t]] = Ref(m, FALSE)]
        BY <1>6, <2>5 DEF AddLink
      <3>2. n # m /\ n # pred[t] => next'[n] = next[n]
        BY <1>1, <3>1 DEF TypeOK
      <3>3. n = pred[t] => next'[n] = Ref(m, FALSE) /\ ~next[n].marked
        BY <1>1, <2>5, <3>1 DEF TypeOK, Links, Ref
      <3>4. Ref(m, FALSE).marked = FALSE
        BY DEF Ref
      <3> QED
        BY <1>2, <2>1, <2>3, <2>4, <3>2, <3>3, <3>4
    <2>6. CASE ~Links(t)
      <3>1. next' = [next EXCEPT ![m] = Ref(curr[t], FALSE)]
        BY <1>6, <2>6 DEF AddLink
      <3>2. n # m => next'[n] = next[n]
        BY <1>1, <3>1 DEF TypeOK
      <3> QED
        BY <1>2, <2>1, <2>3, <2>4, <3>2
    <2> QED
      BY <2>5, <2>6
  <1>7. CASE AttemptMark(t) /\ next' # next
    <2>1. /\ pc[t] = "mark" /\ next[curr[t]] = Ref(succ[t], FALSE)
          /\ next' = [next EXCEPT ![curr[t]] = Ref(succ[t], TRUE)] /\ heap' = heap
      BY <1>7 DEF AttemptMark
    <2>2. curr[t] \in Safe(t)
      BY <2>1, Busy DEF WithPred
    <2>3. heap[curr[t]] # "free"
      BY <1>1, <2>2 DEF Guarded, Owners, Safe, TypeOK
    <2>4. ~next[curr[t]].marked
      BY <2>1 DEF Ref
    <2> QED
      BY <1>1, <1>2, <2>1, <2>3, <2>4 DEF TypeOK
  <1>8. CASE Unlinks(t) /\ Unlinked(t)
    <2>1. next' = [next EXCEPT ![pred[t]] = Ref(succ[t], FALSE)] /\ heap' = heap
      BY <1>8 DEF Unlinked
    <2>2. ~next[pred[t]].marked
      BY <1>8 DEF Unlinks, Ref
    <2> QED
      BY <1>1, <1>2, <2>1, <2>2 DEF TypeOK, Ref
  <1> QED
    BY <1>3, <1>4, <1>5, <1>6, <1>7, <1>8
    DEF Calls, Call, CallSentinelFor, Step, Find, Add, Remove, Contains, FindRetry, FindMarked,
        FindNext, FindWindow, FindUnlink, NewThrows, RemoveAbsent, RemoveLoad, AttemptMark,
        UnlinkOnce, Walk, WalkEnds, Return, nodes

LEMMA ReclaimFreezes ==
  ASSUME IInv, Blank, NEW m \in Node, Reclaim(m), NEW n \in Node
  PROVE  /\ next[n].marked /\ heap'[n] # "free" => next'[n] = next[n]
         /\ Up' /\ heap'[n] = "free" => ~next'[n].marked
  <1>1. TypeOK /\ Delete({m}) /\ pc' = pc
    BY DEF IInv, Reclaim
  <1>2. n # m => next'[n] = next[n] /\ heap'[n] = heap[n]
    BY <1>1, Deleting
  <1>3. n = m => heap'[n] = "free" /\ ~next'[n].marked
    BY <1>1 DEF Delete, Ref
  <1> QED
    BY <1>1, <1>2, <1>3 DEF Blank, Up

LEMMA AlwaysBlank == Spec => []Blank
  <1>1. Init => Blank
    BY DEF Init, Blank, Ref
  <1>2. IInv /\ Blank /\ [Next]_vars => Blank'
    <2> SUFFICES ASSUME IInv, Blank, [Next]_vars
                 PROVE  Blank'
      OBVIOUS
    <2>1. ASSUME NEW t \in Thread, Calls(t) \/ Step(t)
          PROVE  Blank'
      BY <2>1, ThreadFreezes DEF Blank
    <2>2. ASSUME NEW n \in Node, Reclaim(n)
          PROVE  Blank'
      BY <2>2, ReclaimFreezes DEF Blank
    <2>3. CASE Destroy
      BY <2>3, DestroyStep DEF Blank
    <2>4. CASE UNCHANGED vars
      BY <2>4 DEF vars, nodes, Blank, Up
    <2> QED
      BY <2>1, <2>2, <2>3, <2>4 DEF Next, Destroyed
  <1> QED
    BY <1>1, <1>2, Invariance, PTL DEF Spec

\* A next pointer that is marked is not written again while its node is in memory.
THEOREM MarksFreeze == Spec => MarkedIsFrozen
  <1>1. ASSUME IInv, Blank, [Next]_vars, NEW n \in Node, next[n].marked, heap'[n] # "free"
        PROVE  next'[n] = next[n]
    <2>1. CASE \E t \in Thread : Calls(t) \/ Step(t)
      BY <1>1, <2>1, ThreadFreezes
    <2>2. CASE \E m \in Node : Reclaim(m)
      BY <1>1, <2>2, ReclaimFreezes
    <2>3. CASE Destroy
      BY <2>3 DEF Destroy
    <2>4. CASE UNCHANGED vars
      BY <2>4 DEF vars, nodes
    <2> QED
      BY <1>1, <2>1, <2>2, <2>3, <2>4 DEF Next, Destroyed
  <1>2. IInv /\ Blank /\ [Next]_vars =>
          [\A n \in Node : next[n].marked /\ heap'[n] # "free" => next'[n] = next[n]]_vars
    BY <1>1
  <1> QED
    BY <1>2, Invariance, AlwaysBlank, PTL DEF Spec, MarkedIsFrozen

-----------------------------------------------------------------------------
\* The list is a linearizable set: each step is one of HashSetBase, or cannot be
\* noticed there.

\* What HashSetBase knows of the calls: those of SentinelFor() are none.
calls == [t \in Thread |-> IF op[t] \in Operation THEN op[t] ELSE "none"]
asked == [t \in Thread |-> IF op[t] \in Operation THEN arg[t] ELSE None]
answers == [t \in Thread |-> IF op[t] \in Operation THEN answer[t] ELSE {}]

LEMMA Unnoticed ==
  ASSUME Members' = Members, seen' = seen,
         \A u \in Thread :
           \/ /\ op'[u] = op[u] /\ arg'[u] = arg[u]
              /\ op[u] \in Operation => answer'[u] = answer[u]
           \/ op[u] \notin Operation /\ op'[u] \notin Operation
  PROVE  UNCHANGED Base!vars
  <1>1. calls' = calls /\ asked' = asked /\ answers' = answers
    BY DEF calls, asked, answers
  <1> QED
    BY <1>1 DEF Base!vars, calls, asked, answers

LEMMA Settled ==
  ASSUME TypeOK, NEW t \in Thread, op[t] \in Operation, UNCHANGED <<op, arg>>,
         NEW a, answer' = [answer EXCEPT ![t] = a]
  PROVE  /\ calls[t] = op[t] /\ asked[t] = arg[t] /\ answers[t] = answer[t]
         /\ calls' = calls /\ asked' = asked /\ answers' = [answers EXCEPT ![t] = a]
  BY DEF calls, asked, answers, TypeOK

\* An operation that changes nothing answers what it has seen.
LEMMA SeenAnswers ==
  ASSUME TypeOK, NEW t \in Thread, op[t] \in Operation, UNCHANGED <<op, arg, seen>>,
         Members' = Members, answer[t] = {}, NEW b, answer' = [answer EXCEPT ![t] = {b}],
         \/ op[t] = "Add" /\ b = FALSE /\ TRUE \in seen[t]
         \/ op[t] = "Remove" /\ b = FALSE /\ FALSE \in seen[t]
         \/ op[t] = "Contains" /\ b \in seen[t]
  PROVE  Base!Answer(t)
  <1>1. /\ calls[t] = op[t] /\ asked[t] = arg[t] /\ answers[t] = {}
        /\ calls' = calls /\ asked' = asked /\ answers' = [answers EXCEPT ![t] = {b}]
    BY Settled
  <1> QED
    BY <1>1 DEF Base!Answer, calls, asked, answers

\* One that changes something takes effect.
LEMMA ChangeTakesEffect ==
  ASSUME TypeOK, NEW t \in Thread, UNCHANGED <<op, arg>>, answer[t] = {},
         answer' = [answer EXCEPT ![t] = {TRUE}], NEW b \in BOOLEAN, Observe(arg[t], b),
         \/ op[t] = "Add" /\ b /\ arg[t] \notin Members /\ Members' = Members \cup {arg[t]}
         \/ op[t] = "Remove" /\ ~b /\ arg[t] \in Members /\ Members' = Members \ {arg[t]}
  PROVE  Base!TakeEffect(t)
  <1>1. op[t] \in Operation
    BY DEF Operation
  <1>2. /\ calls[t] = op[t] /\ asked[t] = arg[t] /\ answers[t] = {}
        /\ calls' = calls /\ asked' = asked /\ answers' = [answers EXCEPT ![t] = {TRUE}]
    BY <1>1, Settled
  <1>3. (arg[t] \in Members') = b
    BY <1>1
  <1>4. {(arg[t] \in Members')} = {b}
    BY ONLY <1>3
  <1>5. \A u \in Thread : u \in Base!Asking(asked[t]) <=> op[u] \in Operation /\ arg[u] = arg[t]
    <2>1. \A u \in Thread : u \in Base!Asking(asked[t]) <=> calls[u] # "none" /\ asked[u] = asked[t]
      BY DEF Base!Asking, calls, asked
    <2> QED
      BY <1>1, <1>2, <2>1 DEF calls, asked, Operation
  <1>6. seen' = [u \in Thread |-> IF u \in Base!Asking(asked[t])
                                    THEN seen[u] \cup {(arg[t] \in Members')} ELSE seen[u]]
    BY <1>4, <1>5 DEF Observe
  <1> QED
    BY <1>1, <1>2, <1>6 DEF Base!TakeEffect, calls, asked, answers

\* Calls and returns are calls and returns, or SentinelFor()'s.
LEMMA CallsAreCalls ==
  ASSUME IInv, NEW t \in Thread, Calls(t)
  PROVE  Base!Next \/ UNCHANGED Base!vars
  <1>1. TypeOK /\ Local(t) /\ pc[t] = "idle" /\ op[t] = "none" /\ answer[t] = {}
    BY Running DEF Calls, Call, CallSentinelFor, Local, Unsettled
  <1>2. ASSUME NEW o \in Operation, NEW e \in Elem, NEW h \in Node, Call(t, o, e, h)
        PROVE  Base!Next
    <2>1. Members' = Members
      BY <1>2 DEF Call, nodes, Members, Present
    <2>2. /\ op' = [op EXCEPT ![t] = o] /\ arg' = [arg EXCEPT ![t] = e] /\ answer' = answer
          /\ seen' = [seen EXCEPT ![t] = {(e \in Members)}]
      BY <1>2 DEF Call
    <2>3. calls[t] = "none" /\ calls' = [calls EXCEPT ![t] = o]
      BY <1>1, <2>2 DEF calls, TypeOK, Operation
    <2>4. asked' = [asked EXCEPT ![t] = e]
      BY <1>1, <2>2 DEF asked, TypeOK, Operation
    <2>5. answers' = answers
      BY <1>1, <2>2 DEF answers, TypeOK, Operation
    <2>6. Base!Call(t, o, e)
      BY <2>1, <2>2, <2>3, <2>4, <2>5 DEF Base!Call, calls, asked, answers
    <2> QED
      BY <2>6 DEF Base!Next, Base!Operation, Operation
  <1>3. ASSUME NEW b \in Bucket, NEW h \in Node, CallSentinelFor(t, b, h)
        PROVE  UNCHANGED Base!vars
    <2>1. Members' = Members /\ seen' = seen
      BY <1>3 DEF CallSentinelFor, nodes, Members, Present
    <2>2. ASSUME NEW u \in Thread \ {t}
          PROVE  op'[u] = op[u] /\ arg'[u] = arg[u] /\ answer'[u] = answer[u]
      BY <1>1, <1>3, OthersAreStill DEF Calls, Still
    <2>3. op[t] \notin Operation /\ op'[t] \notin Operation
      BY <1>1, <1>3 DEF CallSentinelFor, TypeOK, Operation
    <2> QED
      BY <2>1, <2>2, <2>3, Unnoticed
  <1> QED
    BY <1>2, <1>3 DEF Calls

LEMMA ReturnsAreReturns ==
  ASSUME IInv, TypeOK', NEW t \in Thread, Return(t)
  PROVE  Base!Return(t) \/ UNCHANGED Base!vars
  <1>1. TypeOK /\ List /\ Passing /\ Local(t) /\ op[t] # "none"
    BY Running, Busy DEF Return
  <1>2. Members' = Members
    BY DEF Return, Members, Present
  <1>3. /\ op' = [op EXCEPT ![t] = "none"] /\ arg' = [arg EXCEPT ![t] = None]
        /\ answer' = [answer EXCEPT ![t] = {}] /\ seen' = [seen EXCEPT ![t] = {}]
    BY DEF Return
  <1>4. CASE op[t] \in Operation
    <2>1. calls[t] # "none" /\ calls' = [calls EXCEPT ![t] = "none"]
      BY <1>1, <1>3, <1>4 DEF calls, TypeOK, Operation
    <2>2. asked' = [asked EXCEPT ![t] = None]
      BY <1>1, <1>3, <1>4 DEF asked, TypeOK, Operation
    <2>3. answers[t] = answer[t] /\ answers' = [answers EXCEPT ![t] = {}]
      BY <1>1, <1>3, <1>4 DEF answers, TypeOK, Operation
    <2>4. answers[t] # {} \/ Failures # {}
      BY <1>1, <2>3 DEF Return, Local
    <2> QED
      BY <1>2, <1>3, <2>1, <2>2, <2>3, <2>4 DEF Base!Return, calls, asked, answers
  <1>5. CASE op[t] \notin Operation
    <2>1. seen' = seen
      BY <1>1, <1>3, <1>5 DEF Local, TypeOK
    <2>2. op'[t] \notin Operation
      BY <1>1, <1>3 DEF TypeOK, Operation
    <2>3. \A u \in Thread \ {t} : op'[u] = op[u] /\ arg'[u] = arg[u] /\ answer'[u] = answer[u]
      BY <1>1, <1>3 DEF TypeOK
    <2> QED
      BY <1>2, <1>5, <2>1, <2>2, <2>3, Unnoticed
  <1> QED
    BY <1>4, <1>5

\* Linking in an element is what adds it,
LEMMA LinkingAdds ==
  ASSUME IInv, TypeOK', NEW t \in Thread, NEW n \in Node, AddLink(t, n), Links(t)
  PROVE  Base!TakeEffect(t) \/ UNCHANGED Base!vars
  <1>1. /\ TypeOK /\ List /\ Passing /\ Local(t) /\ pc[t] = "window"
        /\ op[t] \in {"Add", "SentinelFor"}
    BY Running DEF AddLink
  <1>2. Inserts(n, pred[t], curr[t]) /\ elem'[n] = Sought(t)
    BY AddLinkInserts
  <1>3. /\ Members' = IF elem'[n] = None THEN Members ELSE Members \cup {elem'[n]}
        /\ elem'[n] # None => elem'[n] \notin Members
    BY <1>1, <1>2, InsertStep
  <1>4. answer[t] = {} /\ UNCHANGED <<op, arg>>
    BY <1>1 DEF Local, Unsettled, AddLink, call
  <1>5. CASE op[t] = "Add"
    <2>1. answer' = [answer EXCEPT ![t] = {TRUE}] /\ Observe(arg[t], TRUE)
      BY <1>5 DEF AddLink, Settle
    <2>2. elem'[n] = arg[t] /\ arg[t] # None
      BY <1>1, <1>2, <1>5, Called DEF Sought, Operation
    <2>3. arg[t] \notin Members /\ Members' = Members \cup {arg[t]}
      BY <1>3, <2>2
    <2> QED
      BY <1>1, <1>4, <1>5, <2>1, <2>3, ChangeTakesEffect
  <1>6. CASE op[t] = "SentinelFor"
    <2>1. Members' = Members /\ seen' = seen
      BY <1>2, <1>3, <1>6 DEF Sought, AddLink
    <2>2. op[t] \notin Operation
      BY <1>6 DEF Operation
    <2>3. \A u \in Thread \ {t} : answer'[u] = answer[u]
      BY <1>1 DEF AddLink, Settle, TypeOK
    <2> QED
      BY <1>4, <2>1, <2>2, <2>3, Unnoticed
  <1> QED
    BY <1>1, <1>5, <1>6

\* and marking its node is what removes it.
LEMMA MarkingRemoves ==
  ASSUME IInv, TypeOK', NEW t \in Thread, AttemptMark(t), next[curr[t]] = Ref(succ[t], FALSE)
  PROVE  Base!TakeEffect(t)
  <1>1. TypeOK /\ List /\ Passing /\ Local(t) /\ pc[t] = "mark"
    BY Running DEF AttemptMark
  <1>2. Marks(curr[t]) /\ elem[curr[t]] = arg[t] /\ op[t] = "Remove"
    BY AttemptMarkMarks
  <1>3. arg[t] \in Members /\ Members' = Members \ {arg[t]}
    BY <1>1, <1>2, MarkStep
  <1>4. /\ answer[t] = {} /\ UNCHANGED <<op, arg>>
        /\ answer' = [answer EXCEPT ![t] = {TRUE}] /\ Observe(arg[t], FALSE)
    BY <1>1 DEF Local, Unsettled, AttemptMark, call
  <1> QED
    BY <1>1, <1>2, <1>3, <1>4, ChangeTakesEffect

\* What Find() has come to is or is not what was asked for.
LEMMA FoundOrNot ==
  ASSUME IInv, TypeOK', NEW t \in Thread, AddFound(t) \/ RemoveAbsent(t)
  PROVE  Base!Answer(t) \/ UNCHANGED Base!vars
  <1>1. /\ TypeOK /\ List /\ Passing /\ Local(t) /\ Searches(t) /\ pc[t] = "window"
        /\ op[t] \in {"Add", "Remove", "SentinelFor"}
    BY Running DEF AddFound, RemoveAbsent
  <1>2. answer[t] = {} /\ UNCHANGED <<op, arg, seen>>
    BY <1>1 DEF Local, Unsettled, AddFound, RemoveAbsent, call
  <1>3. Members' = Members
    <2>1. CASE AddFound(t)
      <3>1. Quiet({node[t]} \ {None}) /\ {node[t]} \ {None} \in SUBSET Node
        BY <1>1, <2>1, AddFoundDeletesItsOwn DEF TypeOK
      <3> QED
        BY <1>1, <3>1, QuietStep
    <2>2. CASE RemoveAbsent(t)
      BY <2>2 DEF RemoveAbsent, nodes, Members, Present
    <2> QED
      BY <2>1, <2>2
  <1>4. op[t] \in Operation => Matches(t, curr[t]) \in seen[t]
    BY <1>1 DEF Searches
  <1>5. CASE AddFound(t) /\ op[t] = "Add"
    <2>1. Matches(t, curr[t]) = TRUE
      <3>1. Matches(t, curr[t]) /\ Matches(t, curr[t]) \in BOOLEAN
        BY <1>5 DEF AddFound, Matches
      <3> QED
        BY <3>1
    <2>2. TRUE \in seen[t]
      BY <1>4, <1>5, <2>1 DEF Operation
    <2>3. answer' = [answer EXCEPT ![t] = {FALSE}]
      BY <1>5 DEF AddFound, Settle
    <2> QED
      BY <1>1, <1>2, <1>3, <1>5, <2>2, <2>3, SeenAnswers DEF Operation
  <1>6. CASE RemoveAbsent(t)
    <2>1. Matches(t, curr[t]) = FALSE
      <3>1. ~Matches(t, curr[t]) /\ Matches(t, curr[t]) \in BOOLEAN
        BY <1>6 DEF RemoveAbsent, Matches
      <3> QED
        BY <3>1
    <2>2. FALSE \in seen[t] /\ op[t] = "Remove"
      BY <1>4, <1>6, <2>1 DEF Operation, RemoveAbsent
    <2>3. answer' = [answer EXCEPT ![t] = {FALSE}]
      BY <1>6 DEF RemoveAbsent, Settle
    <2> QED
      BY <1>1, <1>2, <1>3, <2>2, <2>3, SeenAnswers DEF Operation
  <1>7. CASE AddFound(t) /\ op[t] = "SentinelFor"
    <2>1. op[t] \notin Operation
      BY <1>7 DEF Operation
    <2>2. \A u \in Thread \ {t} : answer'[u] = answer[u]
      BY <1>1, <1>7 DEF AddFound, Settle, TypeOK
    <2> QED
      BY <1>2, <1>3, <2>1, <2>2, Unnoticed
  <1> QED
    BY <1>1, <1>5, <1>6, <1>7 DEF AddFound

\* Where a walk ends its element is, or was not at some moment of the call.
LEMMA WalkAnswers ==
  ASSUME IInv, TypeOK', NEW t \in Thread, WalkEnds(t)
  PROVE  Base!Answer(t)
  <1>1. /\ TypeOK /\ List /\ Passing /\ Local(t) /\ Walks(t) /\ Sees(t) /\ pc[t] = "walk"
        /\ op[t] = "Contains" /\ AtOrPast(t, curr[t]) /\ curr[t] \in Safe(t) /\ curr[t] \in Node
    BY Running, Busy DEF WalkEnds, Local
  <1>2. answer[t] = {} /\ UNCHANGED <<op, arg, seen>> /\ Members' = Members
    BY <1>1 DEF Local, Unsettled, WalkEnds, call, nodes, Members, Present
  <1> DEFINE found == Matches(t, curr[t]) /\ ~next[curr[t]].marked
  <1>3. answer' = [answer EXCEPT ![t] = {found}]
    BY DEF WalkEnds, Settle
  <1>4. CASE found
    <2>1. found = TRUE
      BY <1>4
    <2>2. {found} = {TRUE}
      BY ONLY <2>1
    <2>3. curr[t] \in Present /\ elem[curr[t]] = arg[t]
      <3>1. curr[t] \in linked /\ elem[curr[t]] = arg[t]
        BY <1>1, <1>4, Unmarked DEF Matches
      <3> QED
        BY <1>1, <1>4, <3>1, Called DEF Present, Operation
    <2>4. (arg[t] \in Members) = TRUE
      BY <2>3 DEF Members
    <2>5. TRUE \in seen[t]
      <3>1. (arg[t] \in Members) \in seen[t]
        BY <1>1 DEF Sees, Operation
      <3> QED
        BY <2>4, <3>1
    <2>6. answer' = [answer EXCEPT ![t] = {TRUE}]
      BY <1>3, <2>2
    <2> QED
      BY <1>1, <1>2, <2>5, <2>6, SeenAnswers DEF Operation
  <1>5. CASE ~found
    <2>1. found = FALSE
      BY <1>5
    <2>2. {found} = {FALSE}
      BY ONLY <2>1
    <2>3. FALSE \in seen[t]
      <3> SUFFICES ASSUME FALSE \notin seen[t]
                   PROVE  FALSE
        OBVIOUS
      <3>1. PICK n \in From(next, curr[t]) :
                   /\ n \in linked /\ ~next[n].marked
                   /\ \A m \in From(next, curr[t]) : Matches(t, m) <=> m = n
        BY <1>1 DEF Walks
      <3>2. key[curr[t]] <= key[n] /\ n \in Node
        BY <1>1, <3>1, SafeAhead, FromNodes
      <3>3. key[n] = Key(t)
        BY <3>1 DEF Matches
      <3>4. key[n] \in Int /\ key[curr[t]] \in Int
        BY <1>1, <3>2, References
      <3>5. Matches(t, curr[t])
        BY <1>1, <3>2, <3>3, <3>4 DEF AtOrPast
      <3>6. curr[t] = n
        BY <1>1, <3>1, <3>5, FromItself
      <3> QED
        BY <1>5, <3>1, <3>5, <3>6
    <2>4. answer' = [answer EXCEPT ![t] = {FALSE}]
      BY <1>3, <2>2
    <2> QED
      BY <1>1, <1>2, <2>3, <2>4, SeenAnswers DEF Operation
  <1> QED
    BY <1>4, <1>5

\* All other steps of an operation go unnoticed.
LEMMA OthersUnnoticed ==
  ASSUME IInv, TypeOK', NEW t \in Thread,
         \/ Find(t) \/ NewThrows(t) \/ RemoveLoad(t) \/ UnlinkOnce(t) \/ Walk(t)
         \/ Retire(t) \/ RetireThrows(t)
         \/ AttemptMark(t) /\ next[curr[t]] # Ref(succ[t], FALSE)
         \/ \E n \in Node : AddLink(t, n) /\ ~Links(t)
  PROVE  UNCHANGED Base!vars
  <1>1. TypeOK /\ List /\ Passing /\ Guarded
    BY StillThere, Running DEF Step, Add, Remove, Contains
  <1>2. UNCHANGED <<op, arg, answer, seen>>
    BY DEF Find, FindRetry, FindMarked, FindNext, FindWindow, FindUnlink, NewThrows, RemoveLoad,
           UnlinkOnce, Walk, Retire, RetireThrows, AttemptMark, AddLink, call
  <1>3. Members' = Members
    <2>1. CASE UNCHANGED <<elem, next, linked>>
      BY <2>1 DEF Members, Present
    <2>2. CASE pc[t] \in {"unlink", "unlink_once"} /\ Unlinks(t) /\ Unlinked(t)
      BY <1>1, <2>2, UnlinkedRemoves, RemoveStep
    <2>3. ASSUME NEW n \in Node, AddLink(t, n), ~Links(t)
          PROVE  Members' = Members
      BY <1>1, <2>3, AddLinkWritesItsOwn, QuietStep
    <2> QED
      BY <2>1, <2>2, <2>3
      DEF Find, FindRetry, FindMarked, FindNext, FindWindow, FindUnlink, NewThrows, RemoveLoad,
          UnlinkOnce, Walk, Retire, RetireThrows, AttemptMark, nodes
  <1> QED
    BY <1>2, <1>3, Unnoticed

LEMMA ListStepsAreSteps == IInv /\ IInv' /\ [Next]_vars => [Base!Next]_Base!vars
  <1> SUFFICES ASSUME IInv, TypeOK', [Next]_vars
               PROVE  Base!Next \/ UNCHANGED Base!vars
    BY DEF IInv
  <1>1. ASSUME NEW t \in Thread, Calls(t)
        PROVE  Base!Next \/ UNCHANGED Base!vars
    BY <1>1, CallsAreCalls
  <1>2. ASSUME NEW t \in Thread, Step(t)
        PROVE  Base!Next \/ UNCHANGED Base!vars
    <2>1. ASSUME Base!TakeEffect(t) \/ Base!Answer(t) \/ Base!Return(t)
          PROVE  Base!Next
      BY <2>1 DEF Base!Next
    <2>2. \/ Return(t) \/ AddFound(t) \/ RemoveAbsent(t) \/ WalkEnds(t)
          \/ \E n \in Node : AddLink(t, n) /\ Links(t)
          \/ AttemptMark(t) /\ next[curr[t]] = Ref(succ[t], FALSE)
          \/ Find(t) \/ NewThrows(t) \/ RemoveLoad(t) \/ UnlinkOnce(t) \/ Walk(t)
          \/ Retire(t) \/ RetireThrows(t)
          \/ AttemptMark(t) /\ next[curr[t]] # Ref(succ[t], FALSE)
          \/ \E n \in Node : AddLink(t, n) /\ ~Links(t)
      BY <1>2 DEF Step, Add, Remove, Contains
    <2> QED
      BY <2>1, <2>2, ReturnsAreReturns, FoundOrNot, WalkAnswers, LinkingAdds, MarkingRemoves,
         OthersUnnoticed
  <1>3. ASSUME NEW n \in Node, Reclaim(n)
        PROVE  UNCHANGED Base!vars
    <2>1. Members' = Members
      BY <1>3, ReclaimStep
    <2> QED
      BY <1>3, <2>1, Unnoticed DEF Reclaim, call
  <1>4. CASE Destroy
    BY <1>4, Unnoticed DEF Destroy, call, Members, Present
  <1>5. CASE UNCHANGED vars
    BY <1>5, Unnoticed DEF vars, nodes, call, Members, Present
  <1> QED
    BY <1>1, <1>2, <1>3, <1>4, <1>5 DEF Next, Destroyed

\* Whatever the threads, the elements and their hashes, the nodes and how they are
\* reused: every Add() and Remove() takes effect at one moment of its call, and
\* every call that changes nothing answers what was right at some such moment.
THEOREM ListIsASet == Spec => IsASet
  <1>1. Init => Base!Init
    <2> SUFFICES ASSUME Init
                 PROVE  Base!Init
      OBVIOUS
    <2>1. Members = {}
      BY NodeAssumption DEF Init, Members, Present
    <2>2. calls = [t \in Thread |-> "none"] /\ asked = [t \in Thread |-> None]
      BY DEF Init, calls, asked, Operation
    <2>3. answers = [t \in Thread |-> {}]
      BY DEF Init, answers
    <2> QED
      BY <2>1, <2>2, <2>3 DEF Init, Base!Init, calls, asked, answers
  <1> QED
    BY <1>1, Invariance, ListStepsAreSteps, PTL DEF Spec, IsASet, Base!Spec

-----------------------------------------------------------------------------
\* How much a thread has still to do, if what is linked in stays as it is.

\* The nodes it may still come to from n.
Ahead(n) == Cardinality(From(next, n))

\* More than a search takes from the head on.
Whole == 3 * Cardinality(Node) + 6

\* What a thread has still to do until it is done, or until a compare-and-swap
\* fails.
Left(t) ==
  CASE pc[t] = "find" -> Whole
    [] pc[t] \in {"load", "walk"} -> 3 * Ahead(curr[t]) + 5
    [] pc[t] = "unlink" -> 3 * Ahead(curr[t]) + 4
    [] pc[t] = "retire" -> 3 * Ahead(succ[t]) + 6
    [] pc[t] = "window" -> 4
    [] pc[t] = "mark" -> 3
    [] pc[t] = "unlink_once" -> 2
    [] pc[t] = "retire_last" -> 1
    [] OTHER -> 0

\* The compare-and-swap it is on its way to would fail now, and it would have to
\* start over.
Stale(t) ==
  \/ /\ pc[t] \in Finding \/ (pc[t] = "window" /\ op[t] # "Remove")
     /\ next[pred[t]] # Ref(Cursor(t), FALSE)
  \/ /\ pc[t] = "window" /\ op[t] = "Remove"
     /\ next[curr[t]].marked
  \/ /\ pc[t] = "mark"
     /\ next[curr[t]] # Ref(succ[t], FALSE)

Rank(t) == Left(t) + IF Stale(t) THEN Whole ELSE 0

\* The nodes that are removed and have yet to be unlinked.
Marked == {n \in linked : next[n].marked}

\* A step of t disturbs nobody else.
Undisturbed(t) == Marked' = Marked /\ \A u \in Thread \ {t} : Rank(u)' = Rank(u)

\* t's call comes to its answer, throws or returns.
Completes(t) == answer'[t] # answer[t] \/ pc'[t] \in {"throw", "idle"}

\* Every step of a call settles what it answers or ends it, or unlinks a node that
\* was marked, or brings its thread nearer to its end without taking any other
\* further from its own.  Neither does a call or the reclaimer.
EveryStepCounts ==
  [][/\ \A t \in Thread :
          Step(t) =>
            \/ Completes(t)
            \/ Cardinality(Marked') < Cardinality(Marked)
            \/ Rank(t)' < Rank(t) /\ Undisturbed(t)
     /\ \A t \in Thread : Calls(t) => Undisturbed(t)
     /\ \A n \in Node, t \in Thread :
          Reclaim(n) => Undisturbed(t) /\ Rank(t)' = Rank(t)]_vars

-----------------------------------------------------------------------------
\* Every node that a thread may look at leads to the tail.
Leads == Up => \A t \in Thread, n \in Node : t \in readers[n] => Tail \in From(next, n)

LEMMA LinkedLeads ==
  ASSUME TypeOK, List, NEW n \in linked
  PROVE  Tail \in From(next, n)
  <1>1. Tail \in linked /\ next[Tail].ref = None
    BY DEF List, Ends, Ref
  <1>2. CASE n \in From(next, Tail)
    <2> DEFINE S == {Tail}
    <2>1. S \in SUBSET Node /\ Tail \in S /\ \A k \in S : next[k].ref \in S \cup {None}
      BY <1>1, NodeAssumption
    <2> HIDE DEF S
    <2>2. From(next, Tail) \subseteq S
      BY <2>1, NodeAssumption, FromIsLeast
    <2>3. n = Tail
      BY <1>2, <2>2 DEF S
    <2> QED
      BY <2>3, FromItself, NodeAssumption
  <1> QED
    BY <1>1, <1>2, InOneLine

\* What leads to the tail does not lead back.
LEMMA NoWayBack ==
  ASSUME \A k \in Node : next[k].ref \in Node \cup {None}, next[Tail].ref = None,
         NEW n \in Node, n # Tail, Tail \in From(next, n)
  PROVE  /\ next[n].ref \in Node
         /\ From(next, next[n].ref) \subseteq From(next, n)
         /\ n \notin From(next, next[n].ref)
  <1>1. next[n].ref \in Node
    BY FromTheNext, NodeAssumption
  <1>2. From(next, next[n].ref) \subseteq From(next, n)
    <2>1. next[n].ref \in From(next, n)
      BY <1>1, FromItself, FromLeadsOn
    <2> QED
      BY <2>1, FromFurther
  <1>3. ASSUME n \in From(next, next[n].ref)
        PROVE  FALSE
    <2> DEFINE S == {m \in From(next, n) : n \in From(next, m)}
    <2>1. S \in SUBSET Node /\ n \in S
      BY FromNodes, FromItself
    <2>2. ASSUME NEW m \in S
          PROVE  next[m].ref \in S
      <3>1. m \in Node /\ m \in From(next, n) /\ n \in From(next, m)
        BY <2>1
      <3>2. next[m].ref \in Node /\ n \in From(next, next[m].ref)
        BY <1>1, <1>3, <3>1, FromTheNext
      <3>3. next[m].ref \in From(next, n)
        BY <3>1, <3>2, FromLeadsOn
      <3> QED
        BY <3>2, <3>3
    <2> HIDE DEF S
    <2>3. From(next, n) \subseteq S
      BY <2>1, <2>2, FromIsLeast
    <2>4. next[Tail].ref \in S
      BY <2>2, <2>3
    <2> QED
      BY <2>1, <2>4, NodeAssumption
  <1> QED
    BY <1>1, <1>2, <1>3

LEMMA SafeLeads ==
  ASSUME IInv, Leads, Up, NEW t \in Thread, NEW n \in Safe(t)
  PROVE  Tail \in From(next, n)
  <1>1. TypeOK /\ List
    BY DEF IInv, Memory
  <1>2. CASE n \in linked
    BY <1>1, <1>2, LinkedLeads
  <1>3. CASE n \notin linked
    BY <1>3 DEF Leads, Safe
  <1> QED
    BY <1>2, <1>3

LEMMA LeadsStays ==
  ASSUME IInv, Leads, NEW t \in Thread, Calls(t) \/ Step(t)
  PROVE  Leads'
  <1>1. /\ Up /\ TypeOK /\ TypeOK' /\ List /\ Guarded /\ List'
        /\ \A u \in InGuard \ {t} : Stable(u)
    BY StillThere, Running, CallTypes, StepTypes, MemoryStep
  <1>2. SUFFICES ASSUME NEW u \in Thread, NEW n \in Node, u \in readers'[n]
                 PROVE  Tail \in From(next', n)
    BY DEF Leads
  <1>3. u \in readers[n] \/ (n \in linked /\ u \in InGuard)
    BY <1>2, NewReaders
  <1>4. n \in Safe(u) /\ u \in InGuard
    BY <1>1, <1>3 DEF Safe, Guarded, InGuard
  <1>5. Tail \in From(next, n) /\ Tail \in linked'
    BY <1>1, <1>4, SafeLeads DEF List, Ends
  <1>6. CASE u # t
    BY <1>1, <1>4, <1>5, <1>6 DEF Stable
  <1>7. CASE u = t
    <2>1. CASE Calls(t)
      <3>1. op[t] = "none"
        BY <2>1, StillThere, Running DEF Calls, Call, CallSentinelFor, Local
      <3> QED
        BY <1>4, <1>7, <3>1 DEF InGuard
    <2>2. CASE Return(t)
      BY <1>2, <1>7, <2>2 DEF Return
    <2>3. CASE Step(t) /\ ~Return(t)
      <3>1. pc[t] \notin {"idle", "gone"}
        BY <1>4, <1>7, StillThere, Running DEF InGuard, Local
      <3>2. Stable(t)
        BY <1>1, <2>3, <3>1, OwnStable
      <3> QED
        BY <1>4, <1>5, <1>7, <3>2 DEF Stable
    <2> QED
      BY <2>1, <2>2, <2>3
  <1> QED
    BY <1>6, <1>7

LEMMA AlwaysLeads == Spec => []Leads
  <1>1. Init => Leads
    BY DEF Init, Leads
  <1>2. IInv /\ Leads /\ [Next]_vars => Leads'
    <2> SUFFICES ASSUME IInv, Leads, [Next]_vars
                 PROVE  Leads'
      OBVIOUS
    <2>1. ASSUME NEW t \in Thread, Calls(t) \/ Step(t)
          PROVE  Leads'
      BY <2>1, LeadsStays
    <2>2. ASSUME NEW n \in Node, Reclaim(n)
          PROVE  Leads'
      <3> SUFFICES ASSUME Up
                   PROVE  Leads'
        BY <2>2 DEF Reclaim, Leads, Up
      <3>1. /\ TypeOK /\ List /\ Passing /\ Quiet({n}) /\ TypeOK'
        BY <2>2, ReclaimStep DEF IInv, Memory
      <3>2. \A t \in Thread : Stable(t) /\ Tail \in linked'
        BY <3>1, QuietStep DEF List, Ends
      <3>3. ASSUME NEW t \in Thread, NEW m \in Node, t \in readers'[m]
            PROVE  Tail \in From(next', m)
        <4>1. t \in readers[m] /\ m \in Safe(t)
          BY <2>2, <3>3 DEF Reclaim, Safe
        <4> QED
          BY <3>2, <4>1 DEF Leads, Stable
      <3> QED
        BY <3>3 DEF Leads
    <2>3. CASE Destroy
      BY <2>3, DestroyStep DEF Leads
    <2>4. CASE UNCHANGED vars
      BY <2>4 DEF vars, nodes, Leads, Up
    <2> QED
      BY <2>1, <2>2, <2>3, <2>4 DEF Next, Destroyed
  <1> QED
    BY <1>1, <1>2, Invariance, PTL DEF Spec

-----------------------------------------------------------------------------
\* The next node is nearer to the tail.
LEMMA Nearer ==
  ASSUME IsFiniteSet(Node), TypeOK, next[Tail].ref = None
  PROVE  /\ Whole \in Nat
         /\ \A n \in Node : Ahead(n) \in Nat /\ 3 * Ahead(n) + 5 < Whole /\ 1 <= Ahead(n)
         /\ \A n \in Node \ {Tail} :
              Tail \in From(next, n) =>
                next[n].ref \in Node /\ Ahead(next[n].ref) < Ahead(n)
  <1>1. \A n : IsFiniteSet(From(next, n)) /\ From(next, n) \in SUBSET Node
    BY FromNodes, FS_Subset
  <1>2. Cardinality(Node) \in Nat /\ Whole \in Nat
    BY FS_CardinalityType DEF Whole
  <1>3. ASSUME NEW n \in Node
        PROVE  Ahead(n) \in Nat /\ 3 * Ahead(n) + 5 < Whole /\ 1 <= Ahead(n)
    <2>1. Ahead(n) \in Nat /\ Ahead(n) <= Cardinality(Node)
      BY <1>1, FS_CardinalityType, FS_Subset DEF Ahead
    <2>2. Ahead(n) # 0
      BY <1>1, FromItself, FS_EmptySet DEF Ahead
    <2> QED
      BY <1>2, <2>1, <2>2 DEF Whole
  <1>4. ASSUME NEW n \in Node \ {Tail}, Tail \in From(next, n)
        PROVE  next[n].ref \in Node /\ Ahead(next[n].ref) < Ahead(n)
    <2> DEFINE m == next[n].ref
    <2>1. m \in Node /\ From(next, m) \subseteq From(next, n) /\ n \notin From(next, m)
      BY <1>4, References, NoWayBack
    <2>2. From(next, m) \subseteq From(next, n) \ {n}
      BY <2>1
    <2>3. /\ IsFiniteSet(From(next, n) \ {n})
          /\ Cardinality(From(next, n) \ {n}) = Cardinality(From(next, n)) - 1
      BY <1>1, FromItself, FS_RemoveElement
    <2>4. Cardinality(From(next, m)) <= Cardinality(From(next, n)) - 1
      BY <2>2, <2>3, FS_Subset
    <2>5. Ahead(m) \in Nat /\ Ahead(n) \in Nat
      BY <1>3, <2>1
    <2> QED
      BY <2>1, <2>4, <2>5 DEF Ahead
  <1> QED
    BY <1>2, <1>3, <1>4

LEMMA RankTypes ==
  ASSUME IsFiniteSet(Node), IInv, NEW t \in Thread
  PROVE  Left(t) \in Nat /\ Rank(t) \in Nat
  <1>1. CASE pc[t] \in {"gone", "idle"}
    <2>1. Left(t) = 0 /\ ~Stale(t)
      BY <1>1 DEF Left, Stale, Finding
    <2> QED
      BY <2>1 DEF Rank
  <1>2. CASE pc[t] \notin {"gone", "idle"}
    <2>1. /\ TypeOK /\ next[Tail].ref = None
          /\ pc[t] \in {"load", "unlink", "walk"} => curr[t] \in Node
          /\ pc[t] = "retire" => succ[t] \in Node
      BY <1>2, Running, Busy DEF List, Ends, Ref, WithPred, WithSucc, Finding
    <2>2. Whole \in Nat /\ \A n \in Node : Ahead(n) \in Nat
      BY <2>1, Nearer
    <2>3. Left(t) \in Nat
      BY <2>1, <2>2 DEF Left
    <2> QED
      BY <2>2, <2>3 DEF Rank
  <1> QED
    BY <1>1, <1>2

\* A thread is where it was as long as nothing changes that it can see.
LEMMA SameRank ==
  ASSUME IInv, TypeOK', NEW t \in Thread, pc[t] # "gone",
         UNCHANGED <<pc[t], op[t], pred[t], curr[t], succ[t]>>,
         \A n \in Safe(t) : next'[n] = next[n]
  PROVE  Rank(t)' = Rank(t)
  <1>1. TypeOK /\ List /\ Passing
    BY Running
  <1>2. \A n \in Safe(t) : Ahead(n)' = Ahead(n)
    <2> SUFFICES ASSUME NEW n \in Safe(t)
                 PROVE  Ahead(n)' = Ahead(n)
      OBVIOUS
    <2>1. From(next, n) \subseteq Safe(t) /\ n \in Node
      BY <1>1, SafeAhead, References
    <2>2. /\ \A k \in Node : next[k].ref \in Node \cup {None}
          /\ \A k \in Node : next'[k].ref \in Node \cup {None}
      BY <1>1 DEF TypeOK
    <2>3. From(next', n) = From(next, n)
      BY <2>1, <2>2, FromTheSame
    <2> QED
      BY <2>3 DEF Ahead
  <1>3. CASE pc[t] = "idle"
    BY <1>3 DEF Rank, Left, Stale, Finding
  <1>4. CASE pc[t] # "idle"
    <2>1. /\ pc[t] \in WithPred => pred[t] \in Safe(t)
          /\ pc[t] \in WithPred \cup {"walk"} => curr[t] \in Safe(t)
          /\ pc[t] \in WithSucc => succ[t] \in Safe(t)
      BY <1>4, Busy
    <2>2. Left(t)' = Left(t)
      <3>1. Whole' = Whole
        BY DEF Whole
      <3>2. /\ pc[t] \in {"load", "walk", "unlink"} => Ahead(curr[t])' = Ahead(curr[t])
            /\ pc[t] = "retire" => Ahead(succ[t])' = Ahead(succ[t])
        BY <1>2, <2>1 DEF WithPred, WithSucc, Finding, Ahead
      <3> QED
        BY <3>1, <3>2 DEF Left
    <2>3. Stale(t)' <=> Stale(t)
      BY <2>1 DEF Stale, Cursor, WithPred, WithSucc, Finding
    <2> QED
      BY <2>2, <2>3 DEF Rank, Whole
  <1> QED
    BY <1>3, <1>4

\* A step that writes to nothing that anyone can see disturbs nobody.
LEMMA QuietDisturbsNobody ==
  ASSUME IInv, Up, TypeOK', NEW W \in SUBSET Node, Quiet(W)
  PROVE  /\ Marked' = Marked
         /\ \A u \in Thread :
              UNCHANGED <<pc[u], op[u], pred[u], curr[u], succ[u]>> => Rank(u)' = Rank(u)
  <1>1. TypeOK /\ List /\ \A u \in Thread : pc[u] # "gone"
    BY Running DEF Up
  <1>2. \A u \in Thread : \A n \in Safe(u) : n \in Node \ W
    BY <1>1 DEF Quiet, Private, Safe, TypeOK
  <1>3. \A u \in Thread : \A n \in Safe(u) : next'[n] = next[n]
    BY <1>2 DEF Quiet
  <1>4. linked' = linked /\ \A n \in linked : next'[n] = next[n]
    BY <1>3, ThreadAssumption DEF Quiet, Safe
  <1> QED
    BY <1>1, <1>3, <1>4, SameRank DEF Marked

LEMMA OthersAreUndisturbed ==
  ASSUME IInv, TypeOK', NEW t \in Thread, Calls(t) \/ Step(t),
         NEW W \in SUBSET Node, Quiet(W)
  PROVE  Undisturbed(t)
  BY StillThere, Running, OthersAreStill, QuietDisturbsNobody DEF Undisturbed, Still

\* A node that is unlinked was marked.
LEMMA FewerAreMarked ==
  ASSUME IsFiniteSet(Node), IInv, TypeOK', NEW t \in Thread,
         pc[t] \in {"unlink", "unlink_once"}, Unlinks(t), Unlinked(t)
  PROVE  Cardinality(Marked') < Cardinality(Marked)
  <1> DEFINE p == pred[t]
             c == curr[t]
  <1>1. /\ TypeOK /\ List /\ Passing /\ Guarded
        /\ IsFiniteSet(Marked) /\ Cardinality(Marked) \in Nat
    <2>1. TypeOK /\ List /\ Passing /\ Guarded
      BY Running
    <2>2. Marked \in SUBSET Node
      BY <2>1 DEF TypeOK, Marked
    <2> QED
      BY <2>1, <2>2, FS_Subset, FS_CardinalityType
  <1>2. Removes(p, c, succ[t])
    BY UnlinkedRemoves
  <1>3. c \in linked /\ p # c
    BY <1>1, <1>2, RemoveStep
  <1>4. c \in Marked /\ linked' = linked \ {c}
    BY <1>2, <1>3 DEF Removes, Ref, Marked
  <1>5. \A k \in linked' : next'[k].marked => next[k].marked
    BY <1>1, <1>2, References DEF Removes, Ref, TypeOK
  <1>6. Marked' \subseteq Marked \ {c}
    BY <1>4, <1>5 DEF Marked
  <1>7. IsFiniteSet(Marked \ {c}) /\ Cardinality(Marked \ {c}) = Cardinality(Marked) - 1
    BY <1>1, <1>4, FS_RemoveElement
  <1>8. Cardinality(Marked') <= Cardinality(Marked) - 1 /\ Cardinality(Marked') \in Nat
    BY <1>6, <1>7, FS_Subset, FS_CardinalityType
  <1> QED
    BY <1>1, <1>8

\* What is known of the ranks and of a thread in a call.
LEMMA InACall ==
  ASSUME IsFiniteSet(Node), IInv, Leads, NEW t \in Thread, pc[t] \notin {"idle", "gone"}
  PROVE  /\ Up /\ TypeOK /\ Local(t) /\ Whole \in Nat /\ Whole' = Whole /\ Rank(t) \in Nat
         /\ \A n \in Node : Ahead(n) \in Nat /\ 3 * Ahead(n) + 5 < Whole /\ 1 <= Ahead(n)
         /\ \A n \in Safe(t) \ {Tail} :
              next[n].ref \in Node /\ Ahead(next[n].ref) < Ahead(n) /\ n \in Node
         /\ next' = next => \A n : Ahead(n)' = Ahead(n)
  <1>1. Up /\ TypeOK /\ Local(t) /\ next[Tail].ref = None /\ Safe(t) \in SUBSET Node
    BY Running, References DEF List, Ends, Ref
  <1>2. \A n \in Safe(t) : Tail \in From(next, n)
    BY <1>1, SafeLeads
  <1>3. next' = next => \A n : Ahead(n)' = Ahead(n)
    BY DEF Ahead
  <1> QED
    BY <1>1, <1>2, <1>3, Nearer, RankTypes DEF Whole

LEMMA FindRetryCounts ==
  ASSUME IsFiniteSet(Node), IInv, Leads, NEW t \in Thread, FindRetry(t)
  PROVE  Rank(t)' < Rank(t)
  <1> DEFINE n == next[head[t]].ref
  <1>1. /\ pc[t] = "find" /\ pc'[t] = "load" /\ pred'[t] = head[t] /\ curr'[t] = n
        /\ next' = next
    BY DEF FindRetry, nodes, IInv, TypeOK, Goto
  <1>2. next[head[t]] = Ref(n, FALSE) /\ n \in Node
    <2>1. head[t] \in linked \ {Tail} /\ elem[head[t]] = None /\ TypeOK /\ List
      BY <1>1, Running, Busy DEF Holds
    <2>2. ~next[head[t]].marked /\ head[t] \in Node /\ n \in Node
      BY <2>1 DEF List, Chain, Proper, TypeOK
    <2> QED
      BY <2>1, <2>2, References
  <1>3. Rank(t) = Whole
    <2>1. Left(t) = Whole /\ ~Stale(t)
      BY <1>1 DEF Left, Stale, Finding
    <2> QED
      BY <1>1, <2>1, InACall DEF Rank
  <1>4. Left(t)' = 3 * Ahead(n) + 5 /\ ~Stale(t)'
    BY <1>1, <1>2 DEF Left, Stale, Finding, Cursor, Ahead
  <1>5. Rank(t)' = 3 * Ahead(n) + 5
    BY <1>1, <1>2, <1>4, InACall DEF Rank
  <1> QED
    BY <1>1, <1>2, <1>3, <1>5, InACall

\* A step from one place of a search to the next, from where a compare-and-swap fails
\* if it would have failed before.
LEMMA LessIsLeft ==
  ASSUME IsFiniteSet(Node), IInv, Leads, NEW t \in Thread, pc[t] \notin {"idle", "gone"},
         Left(t)' < Left(t), Left(t)' \in Nat, Stale(t)' => Stale(t)
  PROVE  Rank(t)' < Rank(t)
  BY InACall, RankTypes DEF Rank

\* A search starts over only if it was stale, and is not any more.
LEMMA StartingOver ==
  ASSUME IsFiniteSet(Node), IInv, Leads, NEW t \in Thread, pc[t] \notin {"idle", "gone"},
         Stale(t), Left(t) > 0, pc'[t] = "find"
  PROVE  Rank(t)' < Rank(t)
  <1>1. Left(t)' = Whole /\ ~Stale(t)'
    BY DEF Left, Stale, Finding, Whole
  <1> QED
    BY <1>1, InACall, RankTypes DEF Rank
LEMMA FindStepCounts ==
  ASSUME IsFiniteSet(Node), IInv, Leads, NEW t \in Thread,
         FindMarked(t) \/ FindNext(t) \/ FindWindow(t)
  PROVE  Rank(t)' < Rank(t)
  <1> DEFINE c == curr[t]
             n == next[c].ref
  <1>1. /\ pc[t] = "load" /\ pc \in [Thread -> Label] /\ next' = next /\ op' = op
        /\ pred \in [Thread -> Node \cup {None}] /\ curr \in [Thread -> Node \cup {None}]
    BY DEF FindMarked, FindNext, FindWindow, nodes, call, IInv, TypeOK
  <1>2. c \in Safe(t) /\ c \in Node /\ Ahead(c) \in Nat /\ 1 <= Ahead(c)
    BY <1>1, Busy, InACall DEF WithPred, Finding
  <1>3. Left(t) = 3 * Ahead(c) + 5
    BY <1>1 DEF Left
  <1>4. CASE FindMarked(t)
    <2>1. pc'[t] = "unlink" /\ curr'[t] = c /\ pred'[t] = pred[t]
      BY <1>1, <1>4 DEF FindMarked, Goto
    <2>2. Left(t)' = 3 * Ahead(c) + 4
      BY <1>1, <2>1 DEF Left, Ahead
    <2>3. Stale(t)' => Stale(t)
      BY <1>1, <2>1 DEF Stale, Finding, Cursor
    <2> QED
      BY <1>1, <1>2, <1>3, <2>2, <2>3, LessIsLeft
  <1>5. CASE FindNext(t)
    <2>1. pc' = pc /\ curr'[t] = n /\ pred'[t] = c /\ ~next[c].marked /\ c # Tail
      BY <1>1, <1>2, <1>5, NotTheTail DEF FindNext
    <2>2. n \in Node /\ Ahead(n) < Ahead(c) /\ Ahead(n) \in Nat
      BY <1>1, <1>2, <2>1, InACall
    <2>3. Left(t)' = 3 * Ahead(n) + 5
      BY <1>1, <2>1 DEF Left, Ahead
    <2>4. next[c] = Ref(n, FALSE)
      BY <1>1, <1>2, <2>1, InACall, References
    <2>5. ~Stale(t)'
      BY <1>1, <2>1, <2>4 DEF Stale, Finding, Cursor
    <2> QED
      BY <1>1, <1>2, <1>3, <2>2, <2>3, <2>5, LessIsLeft
  <1>6. CASE FindWindow(t)
    <2>1. /\ pc'[t] = "window" /\ ~next[c].marked
          /\ UNCHANGED <<pred, curr, succ>>
      BY <1>1, <1>6 DEF FindWindow, Goto, locals
    <2>2. Left(t)' = 4
      BY <2>1 DEF Left
    <2>3. Stale(t)' => Stale(t)
      BY <1>1, <2>1 DEF Stale, Finding, Cursor
    <2> QED
      BY <1>1, <1>2, <1>3, <2>2, <2>3, LessIsLeft
  <1> QED
    BY <1>4, <1>5, <1>6

LEMMA WalkCounts ==
  ASSUME IsFiniteSet(Node), IInv, Leads, NEW t \in Thread, Walk(t)
  PROVE  Rank(t)' < Rank(t)
  <1> DEFINE c == curr[t]
             n == next[c].ref
  <1>1. /\ pc[t] = "walk" /\ pc' = pc /\ next' = next
        /\ curr'[t] = n /\ ~AtOrPast(t, c)
    BY DEF Walk, nodes, IInv, TypeOK
  <1>2. c \in Safe(t) /\ c \in Node /\ c # Tail
    BY <1>1, Busy, NotTheTail DEF WithPred
  <1>3. n \in Node /\ Ahead(n) < Ahead(c) /\ Ahead(n) \in Nat /\ Ahead(c) \in Nat
    BY <1>1, <1>2, InACall
  <1>4. Left(t) = 3 * Ahead(c) + 5 /\ Left(t)' = 3 * Ahead(n) + 5
    BY <1>1 DEF Left, Ahead
  <1>5. ~Stale(t)'
    BY <1>1 DEF Stale, Finding
  <1> QED
    BY <1>1, <1>3, <1>4, <1>5, LessIsLeft

LEMMA RetireCounts ==
  ASSUME IsFiniteSet(Node), IInv, Leads, NEW t \in Thread, Retire(t)
  PROVE  Rank(t)' < Rank(t)
  <1>1. next' = next /\ op' = op /\ pc[t] \in {"retire", "retire_last"}
        /\ pc \in [Thread -> Label]
    BY DEF Retire, call, IInv, TypeOK
  <1>2. CASE pc[t] = "retire"
    <2> DEFINE s == succ[t]
    <2>1. pc'[t] = "load" /\ curr'[t] = s /\ pred' = pred
      BY <1>1, <1>2 DEF Retire, Goto, IInv, TypeOK
    <2>2. s \in Node /\ Ahead(s) \in Nat
      BY <1>2, Busy, InACall DEF WithSucc
    <2>3. Left(t) = 3 * Ahead(s) + 6 /\ Left(t)' = 3 * Ahead(s) + 5
      BY <1>1, <1>2, <2>1 DEF Left, Ahead
    <2>4. Stale(t)' => Stale(t)
      BY <1>1, <1>2, <2>1 DEF Stale, Finding, Cursor
    <2> QED
      BY <1>2, <2>2, <2>3, <2>4, LessIsLeft
  <1>3. CASE pc[t] = "retire_last"
    <2>1. pc'[t] = "done"
      BY <1>1, <1>3 DEF Retire, Done, Goto
    <2>2. Left(t) = 1 /\ Left(t)' = 0 /\ ~Stale(t)'
      BY <1>3, <2>1 DEF Left, Stale, Finding
    <2> QED
      BY <1>3, <2>2, LessIsLeft
  <1> QED
    BY <1>1, <1>2, <1>3

LEMMA AddLinkCounts ==
  ASSUME IsFiniteSet(Node), IInv, Leads, NEW t \in Thread, NEW n \in Node, AddLink(t, n)
  PROVE  answer'[t] # answer[t] \/ (~Links(t) /\ Rank(t)' < Rank(t))
  <1>1. pc[t] = "window" /\ op[t] # "Remove" /\ answer[t] = {}
    BY InACall DEF AddLink, Local, Unsettled
  <1>2. CASE Links(t)
    <2>1. PICK v : answer' = [answer EXCEPT ![t] = {v}]
      BY <1>2 DEF AddLink, Settle
    <2>2. answer'[t] = {v}
      BY <2>1 DEF IInv, TypeOK
    <2> QED
      BY <1>1, <2>2
  <1>3. CASE ~Links(t)
    <2>1. pc'[t] = "find"
      BY <1>3 DEF AddLink, FindAgain, Goto, IInv, TypeOK
    <2>2. Stale(t) /\ Left(t) = 4
      BY <1>1, <1>3 DEF Stale, Left, Links, Cursor
    <2> QED
      BY <1>1, <1>3, <2>1, <2>2, StartingOver
  <1> QED
    BY <1>2, <1>3

LEMMA RemoveCounts ==
  ASSUME IsFiniteSet(Node), IInv, TypeOK', Leads, NEW t \in Thread, Remove(t)
  PROVE  \/ answer'[t] # answer[t]
         \/ Cardinality(Marked') < Cardinality(Marked)
         \/ Rank(t)' < Rank(t) /\ UNCHANGED <<key, elem, next, readers, linked>>
  <1>1. /\ pc \in [Thread -> Label] /\ answer \in [Thread -> SUBSET (Node \cup BOOLEAN)]
        /\ pc[t] \notin {"idle", "gone"}
        /\ pc[t] \in {"window", "mark"} => answer[t] = {}
    BY InACall DEF Remove, RemoveAbsent, RemoveLoad, AttemptMark, UnlinkOnce, Local,
                   Unsettled, TypeOK, IInv
  <1>2. CASE RemoveAbsent(t)
    BY <1>1, <1>2 DEF RemoveAbsent, Settle
  <1>3. CASE RemoveLoad(t)
    <2>1. /\ pc[t] = "window" /\ op[t] = "Remove" /\ pc'[t] = "mark"
          /\ succ'[t] = next[curr[t]].ref
          /\ UNCHANGED <<key, elem, next, readers, linked, op, curr>>
      BY <1>1, <1>3 DEF RemoveLoad, Goto, nodes, call, IInv, TypeOK
    <2>2. Left(t) = 4 /\ Left(t)' = 3
      BY <2>1 DEF Left
    <2>3. curr[t] \in Node /\ TypeOK
      BY <1>1, <2>1, Busy, InACall DEF WithPred
    <2>4. ~next[curr[t]].marked => next[curr[t]] = Ref(next[curr[t]].ref, FALSE)
      BY <2>3, References
    <2>5. Stale(t)' => Stale(t)
      BY <2>1, <2>4 DEF Stale, Finding
    <2> QED
      BY <1>1, <2>1, <2>2, <2>5, LessIsLeft
  <1>4. CASE AttemptMark(t)
    <2>1. CASE next[curr[t]] = Ref(succ[t], FALSE)
      BY <1>1, <1>4, <2>1 DEF AttemptMark
    <2>2. CASE next[curr[t]] # Ref(succ[t], FALSE)
      <3>1. /\ pc[t] = "mark" /\ pc'[t] = "find"
            /\ UNCHANGED <<key, elem, next, readers, linked>>
        BY <1>1, <1>4, <2>2 DEF AttemptMark, FindAgain, Goto
      <3>2. Stale(t) /\ Left(t) = 3
        BY <2>2, <3>1 DEF Stale, Left
      <3> QED
        BY <1>1, <3>1, <3>2, StartingOver
    <2> QED
      BY <2>1, <2>2
  <1>5. CASE UnlinkOnce(t)
    <2>1. CASE Unlinks(t)
      BY <1>5, <2>1, FewerAreMarked DEF UnlinkOnce
    <2>2. CASE ~Unlinks(t)
      <3>1. /\ pc[t] = "unlink_once" /\ pc'[t] = "done"
            /\ UNCHANGED <<key, elem, next, readers, linked>>
        BY <1>1, <1>5, <2>2 DEF UnlinkOnce, Done, Goto, nodes
      <3>2. Left(t) = 2 /\ Left(t)' = 0 /\ ~Stale(t)'
        BY <3>1 DEF Left, Stale, Finding
      <3> QED
        BY <1>1, <3>1, <3>2, LessIsLeft
    <2> QED
      BY <2>1, <2>2
  <1> QED
    BY <1>2, <1>3, <1>4, <1>5 DEF Remove

LEMMA FindUnlinkCounts ==
  ASSUME IsFiniteSet(Node), IInv, TypeOK', Leads, NEW t \in Thread, FindUnlink(t)
  PROVE  \/ Cardinality(Marked') < Cardinality(Marked)
         \/ Rank(t)' < Rank(t) /\ UNCHANGED <<key, elem, next, readers, linked>>
  <1>1. CASE Unlinks(t)
    BY <1>1, FewerAreMarked DEF FindUnlink
  <1>2. CASE ~Unlinks(t)
    <2>1. /\ pc[t] = "unlink" /\ pc'[t] = "find"
          /\ UNCHANGED <<key, elem, next, readers, linked>>
      BY <1>2 DEF FindUnlink, FindAgain, Goto, nodes, IInv, TypeOK
    <2>2. curr[t] \in Node /\ Ahead(curr[t]) \in Nat
      BY <2>1, Busy, InACall DEF WithPred, Finding
    <2>3. Stale(t) /\ Left(t) = 3 * Ahead(curr[t]) + 4
      BY <1>2, <2>1 DEF Stale, Left, Unlinks, Cursor, Finding
    <2> QED
      BY <2>1, <2>2, <2>3, StartingOver
  <1> QED
    BY <1>1, <1>2
LEMMA StepCounts ==
  ASSUME IsFiniteSet(Node), IInv, Leads, NEW t \in Thread, Step(t)
  PROVE  \/ Completes(t)
         \/ Cardinality(Marked') < Cardinality(Marked)
         \/ Rank(t)' < Rank(t) /\ Undisturbed(t)
  <1>1. TypeOK' /\ TypeOK
    BY StepTypes DEF IInv
  <1>2. ASSUME UNCHANGED <<key, elem, next, readers, linked>>
        PROVE  Undisturbed(t)
    BY <1>1, <1>2, NothingWritten, OthersAreUndisturbed
  <1>3. CASE Find(t)
    <2>1. CASE FindRetry(t) \/ FindMarked(t) \/ FindNext(t) \/ FindWindow(t)
      <3>1. UNCHANGED <<key, elem, next, readers, linked>>
        BY <2>1 DEF FindRetry, FindMarked, FindNext, FindWindow, nodes
      <3> QED
        BY <1>2, <2>1, <3>1, FindRetryCounts, FindStepCounts
    <2>2. CASE FindUnlink(t)
      BY <1>1, <1>2, <2>2, FindUnlinkCounts
    <2> QED
      BY <1>3, <2>1, <2>2 DEF Find
  <1>4. CASE AddFound(t)
    <2>1. pc[t] = "window"
      BY <1>4 DEF AddFound
    <2>2. answer[t] = {}
      BY <2>1, InACall DEF Local, Unsettled
    <2>3. PICK v : answer' = [answer EXCEPT ![t] = {v}]
      BY <1>4 DEF AddFound, Settle
    <2> QED
      BY <1>1, <2>2, <2>3 DEF TypeOK, Completes
  <1>5. CASE NewThrows(t) \/ RetireThrows(t) \/ Return(t)
    BY <1>1, <1>5 DEF NewThrows, RetireThrows, Return, Throw, Goto, TypeOK, Completes
  <1>6. ASSUME NEW n \in Node, AddLink(t, n)
        PROVE  Completes(t) \/ (Rank(t)' < Rank(t) /\ Undisturbed(t))
    <2>1. CASE ~Links(t)
      <3>1. Quiet({n})
        BY <1>6, <2>1, AddLinkWritesItsOwn
      <3> QED
        BY <1>1, <1>6, <3>1, AddLinkCounts, OthersAreUndisturbed DEF Completes
    <2>2. CASE Links(t)
      BY <1>6, <2>2, AddLinkCounts DEF Completes
    <2> QED
      BY <2>1, <2>2
  <1>7. CASE Remove(t)
    BY <1>1, <1>2, <1>7, RemoveCounts DEF Completes
  <1>8. CASE Walk(t)
    <2>1. UNCHANGED <<key, elem, next, readers, linked>>
      BY <1>8 DEF Walk, nodes
    <2> QED
      BY <1>2, <1>8, <2>1, WalkCounts
  <1>9. CASE WalkEnds(t)
    <2>1. pc[t] = "walk"
      BY <1>9 DEF WalkEnds
    <2>2. answer[t] = {}
      BY <2>1, InACall DEF Local, Unsettled
    <2>3. PICK v : answer' = [answer EXCEPT ![t] = {v}]
      BY <1>9 DEF WalkEnds, Settle
    <2> QED
      BY <1>1, <2>2, <2>3 DEF TypeOK, Completes
  <1>10. CASE Retire(t)
    <2>1. UNCHANGED <<key, elem, next, readers, linked>>
      BY <1>10 DEF Retire
    <2> QED
      BY <1>2, <1>10, <2>1, RetireCounts
  <1> QED
    BY <1>3, <1>4, <1>5, <1>6, <1>7, <1>8, <1>9, <1>10 DEF Step, Add, Contains

\* What is left to do is a number, and every step counts: between one call that
\* completes and the next there are finitely many steps, whichever threads take
\* them and whoever has stopped where.  It is what makes the list lock-free
\* (BucketList.h:30), but for the fairness that has some thread take steps.
THEOREM NoStepIsInVain ==
  ASSUME IsFiniteSet(Node)
  PROVE  /\ Spec => [](Cardinality(Marked) \in Nat /\ \A t \in Thread : Rank(t) \in Nat)
         /\ Spec => EveryStepCounts
  <1>1. IInv => Cardinality(Marked) \in Nat /\ \A t \in Thread : Rank(t) \in Nat
    <2> SUFFICES ASSUME IInv
                 PROVE  Cardinality(Marked) \in Nat /\ \A t \in Thread : Rank(t) \in Nat
      OBVIOUS
    <2>1. Marked \in SUBSET Node
      BY DEF IInv, TypeOK, Marked
    <2> QED
      BY <2>1, FS_Subset, FS_CardinalityType, RankTypes
  <1>2. ASSUME IInv, Leads, [Next]_vars
        PROVE  [/\ \A t \in Thread :
                     Step(t) =>
                       \/ Completes(t)
                       \/ Cardinality(Marked') < Cardinality(Marked)
                       \/ Rank(t)' < Rank(t) /\ Undisturbed(t)
                /\ \A t \in Thread : Calls(t) => Undisturbed(t)
                /\ \A n \in Node, t \in Thread :
                     Reclaim(n) => Undisturbed(t) /\ Rank(t)' = Rank(t)]_vars
    <2>1. ASSUME NEW t \in Thread, Calls(t)
          PROVE  Undisturbed(t)
      <3>1. UNCHANGED <<key, elem, next, readers, linked>>
        BY <2>1 DEF Calls, Call, CallSentinelFor, nodes
      <3> QED
        BY <1>2, <2>1, <3>1, CallTypes, NothingWritten, OthersAreUndisturbed
    <2>2. ASSUME NEW n \in Node, NEW t \in Thread, Reclaim(n)
          PROVE  Undisturbed(t) /\ Rank(t)' = Rank(t)
      <3>1. UNCHANGED <<pc, op, pred, curr, succ, linked>>
        BY <2>2 DEF Reclaim, call, locals
      <3>2. CASE Up
        BY <1>2, <2>2, <3>1, <3>2, ReclaimStep, QuietDisturbsNobody DEF IInv, Undisturbed
      <3>3. CASE ~Up
        <4>1. heap[n] # "retired"
          BY <1>2, <3>3 DEF IInv, Gone
        <4> QED
          BY <2>2, <4>1 DEF Reclaim
      <3> QED
        BY <3>2, <3>3
    <2> QED
      BY <1>2, <2>1, <2>2, StepCounts
  <1>3. Spec => [](Cardinality(Marked) \in Nat /\ \A t \in Thread : Rank(t) \in Nat)
    BY <1>1, Invariance, PTL
  <1>4. Spec => EveryStepCounts
    BY <1>2, Invariance, AlwaysLeads, PTL DEF Spec, EveryStepCounts
  <1> QED
    BY <1>3, <1>4
=============================================================================
