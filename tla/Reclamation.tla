---------------------------- MODULE Reclamation ----------------------------
(***************************************************************************)
(* What a user of the reclaimer is promised, src/EpochReclaimer.h:70: a    *)
(* node that was unlinked and handed to Retire() is deleted once, and not  *)
(* before every thread that could have found it has left its Guard.        *)
(*                                                                         *)
(* The code makes two exceptions, which are part of what is specified: a   *)
(* Guard may be late, so that what is retired in it may be deleted too     *)
(* early, and a call of Retire() may throw and delete its node at once.    *)
(***************************************************************************)
CONSTANTS Thread, Node

VARIABLES
  guards,    \* the threads inside a Guard
  late,      \* those whose Guard is late
  inHand,    \* per thread: the node it unlinked and has yet to retire
  retired,   \* the nodes retired and not deleted
  excused,   \* those of them that were retired in a late Guard
  deleted,
  readers    \* of each node not deleted: who may still come across it

vars == <<guards, late, inHand, retired, excused, deleted, readers>>

Init ==
  /\ guards = {} /\ late = {}
  /\ inHand = [t \in Thread |-> {}]
  /\ retired = {} /\ excused = {} /\ deleted = {}
  /\ readers = [n \in Node |-> {}]

Unlinked == retired \cup deleted \cup UNION {inHand[t] : t \in Thread}

\* The nodes that nobody can be reading, and those that may be deleted anyway.
Deletable == {n \in retired : readers[n] = {} \/ n \in excused}

Delete(nodes) ==
  /\ nodes \subseteq Deletable
  /\ retired' = retired \ nodes
  /\ excused' = excused \ nodes
  /\ deleted' = deleted \cup nodes
  /\ readers' = [n \in Node |-> IF n \in nodes THEN {} ELSE readers[n]]

\* A Guard is opened; what has become free by then may be deleted first.
Enter(t) ==
  /\ t \notin guards
  /\ \E nodes \in SUBSET Deletable : Delete(nodes)
  /\ guards' = guards \cup {t}
  /\ late' \in {late, late \cup {t}}
  /\ UNCHANGED inHand

Leave(t) ==
  /\ t \in guards
  /\ inHand[t] = {}
  /\ guards' = guards \ {t}
  /\ late' = late \ {t}
  /\ readers' = [n \in Node |-> readers[n] \ {t}]
  /\ UNCHANGED <<inHand, retired, excused, deleted>>

\* Every thread inside a Guard may have found the node before.
Unlink(t, n) ==
  /\ t \in guards
  /\ inHand[t] = {}
  /\ n \notin Unlinked
  /\ inHand' = [inHand EXCEPT ![t] = {n}]
  /\ readers' = [readers EXCEPT ![n] = guards]
  /\ UNCHANGED <<guards, late, retired, excused, deleted>>

Retire(t) ==
  /\ retired' = retired \cup inHand[t]
  /\ excused' = IF t \in late THEN excused \cup inHand[t] ELSE excused
  /\ inHand' = [inHand EXCEPT ![t] = {}]
  /\ UNCHANGED <<guards, late, deleted, readers>>

RetireThrows(t) ==
  /\ deleted' = deleted \cup inHand[t]
  /\ readers' = [n \in Node |-> IF n \in inHand[t] THEN {} ELSE readers[n]]
  /\ inHand' = [inHand EXCEPT ![t] = {}]
  /\ UNCHANGED <<guards, late, retired, excused>>

\* The reclaimer is destroyed, which only happens outside all Guards.
Destroy ==
  /\ guards = {}
  /\ Delete(retired)
  /\ UNCHANGED <<guards, late, inHand>>

Next ==
  \/ \E t \in Thread : Enter(t) \/ Leave(t) \/ Retire(t) \/ RetireThrows(t)
  \/ \E t \in Thread, n \in Node : Unlink(t, n)
  \/ Destroy

Spec == Init /\ [][Next]_vars
=============================================================================
