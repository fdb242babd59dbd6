----------------------------- MODULE BucketList -----------------------------
(***************************************************************************)
(* The lock-free list of all buckets, src/BucketList.h, with the marked    *)
(* pointers of src/MarkableReference.h.                                    *)
(*                                                                         *)
(* One list, sorted by split-order key, holds the elements of every bucket *)
(* and a sentinel node at the start of each.  A node is removed by marking *)
(* its own next pointer and unlinked later, by whoever comes past.  Every  *)
(* load and compare-and-swap of a shared pointer is a step of its own.     *)
(*                                                                         *)
(* Memory is a pool of nodes that are allocated, retired, freed and        *)
(* allocated again.  Of the reclaimer only its promise is here: a retired  *)
(* node is freed once every thread that was inside a Guard when the node   *)
(* was unlinked has left it.                                               *)
(***************************************************************************)
EXTENDS Integers, FiniteSets

CONSTANTS
  Thread,
  Elem,
  Bucket,        \* the indices of the buckets that have a sentinel, 0 the root
  Node,          \* the addresses a node can have
  Root, Tail,    \* the nodes MakeRoot() allocates
  None,          \* no node, no element
  OrdinaryKey,   \* MakeOrdinaryKey() of every element
  SentinelKey,   \* MakeSentinelKey() of every bucket
  kTailKey,
  Failures       \* the exceptions that may be thrown

ASSUME NodeAssumption ==
  /\ Root \in Node /\ Tail \in Node /\ Root # Tail
  /\ None \notin Node \cup Elem
ASSUME ThreadAssumption == Thread # {}
ASSUME KeyAssumption ==
  /\ kTailKey \in Nat
  /\ 0 \in Bucket
  /\ OrdinaryKey \in [Elem -> 0 .. kTailKey - 1]
  /\ SentinelKey \in [Bucket -> 0 .. kTailKey - 1]
  /\ SentinelKey[0] = 0 /\ \A e \in Elem : 0 < OrdinaryKey[e]
  /\ \A b, c \in Bucket : SentinelKey[b] = SentinelKey[c] => b = c
  /\ \A b \in Bucket, e \in Elem : SentinelKey[b] # OrdinaryKey[e]
ASSUME FailuresAssumption == Failures \subseteq {"new", "membarrier"}

VARIABLES
  key,      \* per node: its split-order key
  elem,     \* per node: its element, None in a sentinel
  next,     \* per node: the reference to the next node and the mark
  heap,     \* per node: free, used or retired
  readers,  \* per node: the Guards its reclamation still waits for
  pc,       \* what each thread does next
  op,       \* per thread: the operation it is in
  arg,      \* per thread: the element or the bucket it is called for
  head,     \* per thread: head_ of the BucketList it was called on
  pred, curr, succ, node,   \* per thread: the locals of those names
  answer    \* per thread: {} until it is settled what it returns

\* History: the answers that were right at some moment of a thread's call, and
\* the nodes that were leaked.
\* In `linked` is what is linked in, by the compare-and-swaps that have succeeded.
VARIABLES seen, lost, linked

nodes == <<key, elem, next, heap, readers, linked>>
call == <<op, arg, head>>
locals == <<pred, curr, succ, node>>
vars == <<nodes, pc, call, locals, answer, seen, lost>>

Operation == {"Add", "Remove", "Contains"}

-----------------------------------------------------------------------------
\* MarkableReference: the reference and the mark are one word.
Ref(n, marked) == [ref |-> n, marked |-> marked]

Key(t) == IF op[t] = "SentinelFor" THEN SentinelKey[arg[t]] ELSE OrdinaryKey[arg[t]]

\* Mutant of Matches: elements whose hashes are the same are taken for one.
MatchesByKey(t, n) == key[n] = Key(t)

Matches(t, n) ==
  key[n] = Key(t) /\ (op[t] = "SentinelFor" \/ elem[n] = arg[t])

AtOrPast(t, n) == key[n] > Key(t) \/ Matches(t, n)

\* The nodes that references lead to from n: those in every set that has n and
\* whatever its members refer to.
From(references, n) ==
  {m \in Node :
     \A S \in SUBSET Node :
       n \in S /\ (\A k \in S : references[k].ref \in S \cup {None}) => m \in S}

Reachable == From(next, Root)

Present == {n \in linked : ~next[n].marked /\ elem[n] # None}

\* The elements in the set.
Members == {elem[n] : n \in Present}

Sentinels == {n \in linked \ {Tail} : elem[n] = None}

InGuard == {t \in Thread : op[t] # "none"}

Goto(t, label) == pc' = [pc EXCEPT ![t] = label]

\* Every thread in a call about e has now seen whether e is there.
Observe(e, present) ==
  seen' = [t \in Thread |-> IF op[t] \in Operation /\ arg[t] = e
                              THEN seen[t] \cup {present} ELSE seen[t]]

\* The locals of Find() and of a finished operation go out of scope.
Forget(t) ==
  /\ pred' = [pred EXCEPT ![t] = None]
  /\ curr' = [curr EXCEPT ![t] = None]
  /\ succ' = [succ EXCEPT ![t] = None]

FindAgain(t) == Forget(t) /\ Goto(t, "find")

Done(t) == Forget(t) /\ Goto(t, "done")

\* Mutant of Settle: the answer is not set.
SettleForNothing(t, value) == answer' = [answer EXCEPT ![t] = {None}] /\ Done(t)

Settle(t, value) == answer' = [answer EXCEPT ![t] = {value}] /\ Done(t)

Throw(t) == Forget(t) /\ node' = [node EXCEPT ![t] = None] /\ Goto(t, "throw")

\* delete; a deleted node's memory is left as a fresh one's.
Delete(deleted) ==
  /\ key' = [n \in Node |-> IF n \in deleted THEN 0 ELSE key[n]]
  /\ elem' = [n \in Node |-> IF n \in deleted THEN None ELSE elem[n]]
  /\ next' = [n \in Node |-> IF n \in deleted THEN Ref(None, FALSE) ELSE next[n]]
  /\ heap' = [n \in Node |-> IF n \in deleted THEN "free" ELSE heap[n]]

Init ==
  /\ key = [n \in Node |-> IF n = Tail THEN kTailKey ELSE 0]
  /\ elem = [n \in Node |-> None]
  /\ next = [n \in Node |-> Ref(IF n = Root THEN Tail ELSE None, FALSE)]
  /\ heap = [n \in Node |-> IF n \in {Root, Tail} THEN "used" ELSE "free"]
  /\ readers = [n \in Node |-> {}]
  /\ pc = [t \in Thread |-> "idle"]
  /\ op = [t \in Thread |-> "none"]
  /\ arg = [t \in Thread |-> None]
  /\ head = [t \in Thread |-> None]
  /\ pred = [t \in Thread |-> None]
  /\ curr = [t \in Thread |-> None]
  /\ succ = [t \in Thread |-> None]
  /\ node = [t \in Thread |-> None]
  /\ answer = [t \in Thread |-> {}]
  /\ seen = [t \in Thread |-> {}]
  /\ lost = {}
  /\ linked = {Root, Tail}

-----------------------------------------------------------------------------
\* A thread enters a Guard and calls an operation on a sentinel's list, at
\* whose end or past which its key is.
Call(t, o, e, h) ==
  /\ pc[t] = "idle"
  /\ h \in Sentinels /\ key[h] < OrdinaryKey[e]
  /\ op' = [op EXCEPT ![t] = o]
  /\ arg' = [arg EXCEPT ![t] = e]
  /\ head' = [head EXCEPT ![t] = h]
  /\ curr' = [curr EXCEPT ![t] = IF o = "Contains" THEN h ELSE None]
  /\ seen' = [seen EXCEPT ![t] = {(e \in Members)}]
  /\ Goto(t, IF o = "Contains" THEN "walk" ELSE "find")
  /\ UNCHANGED <<nodes, pred, succ, node, answer, lost>>

CallSentinelFor(t, b, h) ==
  /\ pc[t] = "idle"
  /\ h \in Sentinels /\ key[h] <= SentinelKey[b]
  /\ op' = [op EXCEPT ![t] = "SentinelFor"]
  /\ arg' = [arg EXCEPT ![t] = b]
  /\ head' = [head EXCEPT ![t] = h]
  /\ IF key[h] = SentinelKey[b] THEN Settle(t, h)
                                ELSE FindAgain(t) /\ UNCHANGED answer
  /\ UNCHANGED <<nodes, node, seen, lost>>

-----------------------------------------------------------------------------
\* Find() starts over from the head ...
FindRetry(t) ==
  /\ pc[t] = "find"
  /\ pred' = [pred EXCEPT ![t] = head[t]]
  /\ curr' = [curr EXCEPT ![t] = next[head[t]].ref]
  /\ succ' = [succ EXCEPT ![t] = None]
  /\ Goto(t, "load")
  /\ UNCHANGED <<nodes, call, node, answer, seen, lost>>

\* Mutant of FindMarked: a marked node is waited for instead of unlinked.
FindMarkedWaits(t) ==
  /\ pc[t] = "load"
  /\ next[curr[t]].marked
  /\ FindAgain(t)
  /\ UNCHANGED <<nodes, call, node, answer, seen, lost>>

\* ... and loads the next pointer of curr: a marked node is to be unlinked,
FindMarked(t) ==
  /\ pc[t] = "load"
  /\ next[curr[t]].marked
  /\ succ' = [succ EXCEPT ![t] = next[curr[t]].ref]
  /\ Goto(t, "unlink")
  /\ UNCHANGED <<nodes, call, pred, curr, node, answer, seen, lost>>

\* one before the key is passed, one at or past it ends the search.
FindNext(t) ==
  /\ pc[t] = "load"
  /\ ~next[curr[t]].marked
  /\ ~AtOrPast(t, curr[t])
  /\ pred' = [pred EXCEPT ![t] = curr[t]]
  /\ curr' = [curr EXCEPT ![t] = next[curr[t]].ref]
  /\ UNCHANGED <<nodes, pc, call, succ, node, answer, seen, lost>>

FindWindow(t) ==
  /\ pc[t] = "load"
  /\ ~next[curr[t]].marked
  /\ AtOrPast(t, curr[t])
  /\ Goto(t, "window")
  /\ UNCHANGED <<nodes, call, locals, answer, seen, lost>>

\* Mutant of Unlinks: the compare-and-swap does not look at pred's mark.
UnlinksFromMarked(t) == next[pred[t]].ref = curr[t]

\* pred->next.CompareAndSet(curr, false, succ, false): takes curr out of the
\* list, unless pred's next pointer has changed or been marked.
Unlinks(t) == next[pred[t]] = Ref(curr[t], FALSE)

Unlinked(t) ==
  /\ next' = [next EXCEPT ![pred[t]] = Ref(succ[t], FALSE)]
  /\ readers' = [readers EXCEPT ![curr[t]] = InGuard]
  /\ linked' = linked \ {curr[t]}
  /\ UNCHANGED <<key, elem, heap>>

FindUnlink(t) ==
  /\ pc[t] = "unlink"
  /\ IF Unlinks(t) THEN Unlinked(t) /\ Goto(t, "retire") /\ UNCHANGED locals
                   ELSE FindAgain(t) /\ UNCHANGED <<nodes, node>>
  /\ UNCHANGED <<call, answer, seen, lost>>

\* Guard::Retire(curr), from Find(), which goes on, or at the end of Remove().
Retire(t) ==
  /\ pc[t] \in {"retire", "retire_last"}
  /\ heap' = [heap EXCEPT ![curr[t]] = "retired"]
  /\ IF pc[t] = "retire"
       THEN /\ curr' = [curr EXCEPT ![t] = succ[t]]
            /\ succ' = [succ EXCEPT ![t] = None]
            /\ Goto(t, "load")
            /\ UNCHANGED pred
       ELSE Done(t)
  /\ UNCHANGED <<key, elem, next, readers, linked, call, node, answer, seen, lost>>

\* Retire() throws because membarrier() has failed; the node is in a bag by then.
\* A node that Add() or SentinelFor() has yet to link in is leaked: no handler
\* deletes it.
RetireThrows(t) ==
  /\ "membarrier" \in Failures
  /\ pc[t] \in {"retire", "retire_last"}
  /\ heap' = [heap EXCEPT ![curr[t]] = "retired"]
  /\ Throw(t)
  /\ lost' = lost \cup ({node[t]} \ {None})
  /\ UNCHANGED <<key, elem, next, readers, linked, call, answer, seen>>

-----------------------------------------------------------------------------
\* Add() and SentinelFor() find what they would link in already there, and
\* delete the node they may have allocated.
AddFound(t) ==
  /\ pc[t] = "window"
  /\ op[t] \in {"Add", "SentinelFor"}
  /\ Matches(t, curr[t])
  /\ Delete({node[t]})
  /\ node' = [node EXCEPT ![t] = None]
  /\ Settle(t, IF op[t] = "Add" THEN FALSE ELSE curr[t])
  /\ UNCHANGED <<readers, linked, call, seen, lost>>

\* Mutants of Links: the compare-and-swap looks only at the mark of pred's next
\* pointer, or only at the reference.
LinksOverOther(t) == ~next[pred[t]].marked

LinksToMarked(t) == next[pred[t]].ref = curr[t]

\* pred->next.CompareAndSet(curr, false, node, false)
Links(t) == next[pred[t]] = Ref(curr[t], FALSE)

\* They link in a node, a new one at the first attempt, between pred and curr.
AddLink(t, n) ==
  /\ pc[t] = "window"
  /\ op[t] \in {"Add", "SentinelFor"}
  /\ ~Matches(t, curr[t])
  /\ IF node[t] = None THEN heap[n] = "free" ELSE n = node[t]
  /\ heap' = [heap EXCEPT ![n] = "used"]
  /\ key' = [key EXCEPT ![n] = Key(t)]
  /\ elem' = [elem EXCEPT ![n] = IF op[t] = "Add" THEN arg[t] ELSE None]
  /\ IF Links(t)
       THEN /\ next' = [next EXCEPT ![n] = Ref(curr[t], FALSE),
                                    ![pred[t]] = Ref(n, FALSE)]
            /\ linked' = linked \cup {n}
            /\ node' = [node EXCEPT ![t] = None]
            /\ Settle(t, IF op[t] = "Add" THEN TRUE ELSE n)
            /\ IF op[t] = "Add" THEN Observe(arg[t], TRUE) ELSE UNCHANGED seen
       ELSE /\ next' = [next EXCEPT ![n] = Ref(curr[t], FALSE)]
            /\ node' = [node EXCEPT ![t] = n]
            /\ FindAgain(t)
            /\ UNCHANGED <<linked, answer, seen>>
  /\ UNCHANGED <<readers, call, lost>>

\* The allocation of the node throws.
NewThrows(t) ==
  /\ "new" \in Failures
  /\ pc[t] = "window"
  /\ op[t] \in {"Add", "SentinelFor"}
  /\ ~Matches(t, curr[t])
  /\ node[t] = None
  /\ Throw(t)
  /\ UNCHANGED <<nodes, call, answer, seen, lost>>

-----------------------------------------------------------------------------
\* Remove() does not find the element,
RemoveAbsent(t) ==
  /\ pc[t] = "window"
  /\ op[t] = "Remove"
  /\ ~Matches(t, curr[t])
  /\ Settle(t, FALSE)
  /\ UNCHANGED <<nodes, call, node, seen, lost>>

\* or loads its next pointer,
RemoveLoad(t) ==
  /\ pc[t] = "window"
  /\ op[t] = "Remove"
  /\ Matches(t, curr[t])
  /\ succ' = [succ EXCEPT ![t] = next[curr[t]].ref]
  /\ Goto(t, "mark")
  /\ UNCHANGED <<nodes, call, pred, curr, node, answer, seen, lost>>

\* marks it if it has not changed since and is not marked,
AttemptMark(t) ==
  /\ pc[t] = "mark"
  /\ IF next[curr[t]] = Ref(succ[t], FALSE)
       THEN /\ next' = [next EXCEPT ![curr[t]] = Ref(succ[t], TRUE)]
            /\ answer' = [answer EXCEPT ![t] = {TRUE}]
            /\ Observe(arg[t], FALSE)
            /\ Goto(t, "unlink_once")
            /\ UNCHANGED locals
       ELSE FindAgain(t) /\ UNCHANGED <<next, node, answer, seen>>
  /\ UNCHANGED <<key, elem, heap, readers, linked, call, lost>>

\* Mutant of UnlinkOnce: the node is retired even if it is still linked in.
UnlinkOnceOrNot(t) ==
  /\ pc[t] = "unlink_once"
  /\ IF Unlinks(t) THEN Unlinked(t) ELSE UNCHANGED nodes
  /\ Goto(t, "retire_last")
  /\ UNCHANGED <<call, locals, answer, seen, lost>>

\* and tries once to unlink it.
UnlinkOnce(t) ==
  /\ pc[t] = "unlink_once"
  /\ IF Unlinks(t) THEN Unlinked(t) /\ Goto(t, "retire_last") /\ UNCHANGED locals
                   ELSE Done(t) /\ UNCHANGED <<nodes, node>>
  /\ UNCHANGED <<call, answer, seen, lost>>

-----------------------------------------------------------------------------
\* Contains() follows next pointers, marked or not, up to the key,
Walk(t) ==
  /\ pc[t] = "walk"
  /\ ~AtOrPast(t, curr[t])
  /\ curr' = [curr EXCEPT ![t] = next[curr[t]].ref]
  /\ UNCHANGED <<nodes, pc, call, pred, succ, node, answer, seen, lost>>

\* and answers for the node it has come to.
WalkEnds(t) ==
  /\ pc[t] = "walk"
  /\ AtOrPast(t, curr[t])
  /\ Settle(t, Matches(t, curr[t]) /\ ~next[curr[t]].marked)
  /\ UNCHANGED <<nodes, call, node, seen, lost>>

-----------------------------------------------------------------------------
\* The operation returns or throws, and the Guard is left.
Return(t) ==
  /\ pc[t] \in {"done", "throw"}
  /\ op' = [op EXCEPT ![t] = "none"]
  /\ arg' = [arg EXCEPT ![t] = None]
  /\ head' = [head EXCEPT ![t] = None]
  /\ answer' = [answer EXCEPT ![t] = {}]
  /\ seen' = [seen EXCEPT ![t] = {}]
  /\ readers' = [n \in Node |-> readers[n] \ {t}]
  /\ Goto(t, "idle")
  /\ UNCHANGED <<key, elem, next, heap, linked, locals, lost>>

\* The reclaimer keeps its promise.
Reclaim(n) ==
  /\ heap[n] = "retired"
  /\ readers[n] = {}
  /\ Delete({n})
  /\ UNCHANGED <<readers, linked, pc, call, locals, answer, seen, lost>>

\* Destroy() deletes every node still linked in, once every thread has
\* finished; the reclaimer then deletes the retired ones.
Destroy ==
  /\ \A t \in Thread : pc[t] = "idle"
  /\ heap' = [n \in Node |-> IF n \in Reachable \/ heap[n] = "retired"
                               THEN "free" ELSE heap[n]]
  /\ pc' = [t \in Thread |-> "gone"]
  /\ UNCHANGED <<key, elem, next, readers, linked, call, locals, answer, seen, lost>>

Destroyed ==
  /\ \A t \in Thread : pc[t] = "gone"
  /\ UNCHANGED vars

Find(t) ==
  FindRetry(t) \/ FindMarked(t) \/ FindNext(t) \/ FindWindow(t) \/ FindUnlink(t)

Add(t) == AddFound(t) \/ NewThrows(t) \/ \E n \in Node : AddLink(t, n)

Remove(t) == RemoveAbsent(t) \/ RemoveLoad(t) \/ AttemptMark(t) \/ UnlinkOnce(t)

Contains(t) == Walk(t) \/ WalkEnds(t)

Step(t) ==
  \/ Find(t)
  \/ Add(t)
  \/ Remove(t)
  \/ Contains(t)
  \/ Retire(t)
  \/ RetireThrows(t)
  \/ Return(t)

Calls(t) ==
  \E h \in Node :
    \/ \E o \in Operation, e \in Elem : Call(t, o, e, h)
    \/ \E b \in Bucket : CallSentinelFor(t, b, h)

Next ==
  \/ \E t \in Thread : Calls(t) \/ Step(t)
  \/ \E n \in Node : Reclaim(n)
  \/ Destroy
  \/ Destroyed

Spec == Init /\ [][Next]_vars

\* Some thread always gets to run; no thread in particular does.
NonBlockingSpec == Spec /\ WF_vars(\E t \in Thread : Step(t))

-----------------------------------------------------------------------------
Label == {"idle", "find", "load", "unlink", "retire", "window", "mark",
          "unlink_once", "retire_last", "walk", "done", "throw", "gone"}

\* What a thread is called for, and what it returns.
CallTypeOK(t) ==
  /\ arg[t] \in CASE op[t] \in Operation -> Elem
                  [] op[t] = "SentinelFor" -> Bucket
                  [] OTHER -> {None}
  /\ answer[t] \subseteq IF op[t] = "SentinelFor" THEN Node ELSE BOOLEAN

\* Every variable has its type.
TypeOK ==
  /\ key \in [Node -> 0 .. kTailKey]
  /\ elem \in [Node -> Elem \cup {None}]
  /\ next \in [Node -> [ref : Node \cup {None}, marked : BOOLEAN]]
  /\ heap \in [Node -> {"free", "used", "retired"}]
  /\ readers \in [Node -> SUBSET Thread]
  /\ pc \in [Thread -> Label]
  /\ op \in [Thread -> Operation \cup {"SentinelFor", "none"}]
  /\ head \in [Thread -> Node \cup {None}]
  /\ pred \in [Thread -> Node \cup {None}]
  /\ curr \in [Thread -> Node \cup {None}]
  /\ succ \in [Thread -> Node \cup {None}]
  /\ node \in [Thread -> Node \cup {None}]
  /\ arg \in [Thread -> Elem \cup Bucket \cup {None}]
  /\ answer \in [Thread -> SUBSET (Node \cup BOOLEAN)]
  /\ seen \in [Thread -> SUBSET BOOLEAN]
  /\ \A t \in Thread : CallTypeOK(t)
  /\ lost \subseteq Node
  /\ linked \subseteq Node

Up == \E t \in Thread : pc[t] # "gone"

\* The list leads from the root to the tail in split order, over all that has been
\* linked in and not unlinked, and holds each element and each sentinel at most
\* once, marked nodes included: Find() and CompareAndSet() place a node correctly
\* whatever is linked in, marked and unlinked around it in the meantime.
\* SentinelFor() returns the one node that has the sentinel's key, also if several
\* threads race to link it in, and it stays there.
SplitOrdered ==
  Up =>
    /\ Reachable = linked
    /\ Tail \in linked
    /\ \A n \in linked \ {Tail} : key[n] <= key[next[n].ref]
    /\ \A m, n \in linked : key[m] = key[n] /\ elem[m] = elem[n] => m = n
    /\ \A t \in Thread :
         op[t] = "SentinelFor" /\ pc[t] = "done"
           => \A n \in answer[t] :
                /\ ~next[n].marked
                /\ {m \in linked : key[m] = SentinelKey[arg[t]]} = {n}

\* The nodes a thread points to.
Held(t) == {head[t], pred[t], curr[t], succ[t], node[t]} \ {None}

\* What a thread points to is not reclaimed before it leaves its Guard, and
\* neither is anything it can get to from there: whatever was unlinked before
\* it entered is out of its reach.  It is what the list owes the reclaimer,
\* and why Contains() may walk over nodes that are no longer linked in.
NoDanglingPointer ==
  \A t \in Thread :
    LET safe == {n \in Node : heap[n] = "used" \/ t \in readers[n]}
    IN  /\ Held(t) \subseteq safe
        /\ \A n \in Held(t) \ {Tail} :
             next[n].ref \in safe /\ key[n] <= key[next[n].ref]

\* Unlinked by t, and not yet retired.
Unretired(t) == IF pc[t] \in {"retire", "retire_last"} THEN {curr[t]} ELSE {}

\* Each node in memory is owned once, by the list, by the thread that has yet
\* to link it in or to retire it, or by the reclaimer: none is retired twice or
\* while it is still linked in, and none is deleted that was linked in; after
\* Destroy() nothing is left.  Retire() throwing out of Find() leaks the node
\* that is still to be linked in, which was never in the list, and nothing else
\* does.
OneOwner ==
  \A n \in Node :
    LET threads == {t \in Thread : n = node[t] \/ n \in Unretired(t)}
        list == n \in linked
    IN  CASE n \in lost -> heap[n] = "used" /\ ~list /\ threads = {}
          [] n \notin lost /\ ~Up -> heap[n] = "free"
          [] n \notin lost /\ Up /\ heap[n] = "used" ->
               Cardinality(threads) = IF list THEN 0 ELSE 1
          [] OTHER -> ~list /\ threads = {}

\* A next pointer never changes again once it is marked, which is why only one
\* thread can unlink a node and why nothing is linked in behind a removed one.
MarkedIsFrozen ==
  [][\A n \in Node : next[n].marked /\ heap'[n] # "free" => next'[n] = next[n]]_vars

\* Whatever the order of the steps, some operation completes as long as one is
\* under way: no thread can keep all others from completing by stopping where
\* it is, and retries never chase one another for ever.
LockFree ==
  (\E t \in Thread : pc[t] \notin {"idle", "gone"})
    ~> (\E t \in Thread : pc[t] \in {"done", "throw"})

\* The list is a set of elements whose operations take effect at one moment.
Base == INSTANCE HashSetBase WITH
  MayThrow <- Failures # {},
  set <- Members,
  op <- [t \in Thread |-> IF op[t] \in Operation THEN op[t] ELSE "none"],
  arg <- [t \in Thread |-> IF op[t] \in Operation THEN arg[t] ELSE None],
  answer <- [t \in Thread |-> IF op[t] \in Operation THEN answer[t] ELSE {}]

IsASet == Base!Spec
=============================================================================
