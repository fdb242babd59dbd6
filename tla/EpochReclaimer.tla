--------------------------- MODULE EpochReclaimer ---------------------------
(***************************************************************************)
(* Epoch-based reclamation, src/EpochReclaimer.h.                          *)
(*                                                                         *)
(* A node that was unlinked from a lock-free structure is put into a bag   *)
(* of the thread that unlinked it and deleted once the global epoch has    *)
(* moved far enough.  Threads announce, in a Participant each, the epoch   *)
(* they read when they entered a Guard; the global epoch is advanced only  *)
(* when a scan finds every announced thread at it.                         *)
(*                                                                         *)
(* The announcement is a plain store, which the machine may hold back in a *)
(* store buffer while the thread already reads the structure; membarrier() *)
(* before the second scan drains those buffers.  Buffers are explicit      *)
(* here: a thread's own instructions never drain its buffer, which is      *)
(* weaker than x86, where every compare-and-swap does.                     *)
(*                                                                         *)
(* The structure itself is reduced to what the reclaimer's promise is      *)
(* about: nodes are linked in and unlinked by threads inside a Guard.      *)
(***************************************************************************)
EXTENDS Integers, Sequences

CONSTANTS
  Participant,         \* the threads, each with the Participant it adopts
  Node,                \* the nodes of the structure, each used once
  kRetiresPerAdvance,  \* 1024 in the code
  kInactive,           \* announced by a thread that is in no Guard
  StoreBufferSize,     \* stores a thread can have under way
  Failures             \* the exceptions that may be thrown

ASSUME RetiresAssumption == kRetiresPerAdvance \in Nat \ {0}
ASSUME BufferAssumption == StoreBufferSize \in Nat \ {0}
\* kInactive is the largest size_t; no epoch ever counts up to it.
ASSUME InactiveAssumption == kInactive \notin Nat
ASSUME FailuresAssumption == Failures \subseteq {"bad_alloc", "membarrier"}

\* Mutant of kBags.
TwoBags == 2

kBags == 3
Bag == 0 .. kBags - 1

VARIABLES
  epoch_,         \* the global epoch
  advancing_,     \* taken by the one thread that is advancing it
  participants_,  \* the participants published so far
  epoch,          \* per participant: the announcement, as others see it
  buffer,         \* per participant: stores to `epoch` not yet visible
  announced,      \* per participant: the epoch of its latest Guard
  retires,        \* per participant: calls of Retire since TryAdvance
  bag_epochs,     \* per participant: the epoch label of each bag
  bags,           \* per participant: the nodes in each bag
  pc,             \* what each thread does next
  epoch_now,      \* the thread's local of that name (0 when out of scope)
  garbage,        \* what the thread unlinked and has yet to retire
  cursor,         \* the participants a scan has yet to look at
  fencing,        \* the threads a membarrier() has yet to run a barrier on
  life            \* of each node: fresh, linked, unlinked, freed

\* History variables, read by no action.
VARIABLES
  mayHold,        \* per thread: nodes linked at some moment of its Guard
  pin,            \* per thread: the global epoch when its Guard announced
  suspect         \* nodes whose Guard announced an old epoch or whose Retire() threw

shared == <<epoch_, advancing_, participants_>>
stores == <<epoch, buffer>>
owned == <<announced, retires, bag_epochs, bags>>
locals == <<epoch_now, garbage, cursor, fencing>>
history == <<mayHold, pin, suspect>>
vars == <<shared, stores, owned, pc, locals, life, history>>

-----------------------------------------------------------------------------
\* The latest store p made to its own announcement, visible or not.
Own(p) == IF buffer[p] = <<>> THEN epoch[p] ELSE buffer[p][Len(buffer[p])]

\* What p reads from q's announcement: its own stores it sees at once.
View(p, q) == IF p = q THEN Own(p) ELSE epoch[q]

Linked == {n \in Node : life[n] = "linked"}

\* The places of a thread inside TryAdvance().
Advancing == {"load", "head1", "scan1", "lock", "fence", "head2", "scan2",
              "cas", "unlock", "unlock_throw"}

\* The places between the end of Guard's constructor and its destructor.
InGuard == {"guard", "retire", "unwind"} \cup Advancing

Goto(p, label) == pc' = [pc EXCEPT ![p] = label]

Free(nodes) ==
  life' = [n \in Node |-> IF n \in nodes THEN "freed" ELSE life[n]]

Init ==
  /\ epoch_ = 0
  /\ advancing_ = FALSE
  /\ participants_ = {}
  /\ epoch = [p \in Participant |-> kInactive]
  /\ buffer = [p \in Participant |-> <<>>]
  /\ announced = [p \in Participant |-> 0]
  /\ retires = [p \in Participant |-> 0]
  /\ bag_epochs = [p \in Participant |-> [i \in Bag |-> kInactive]]
  /\ bags = [p \in Participant |-> [i \in Bag |-> {}]]
  /\ pc = [p \in Participant |-> "idle"]
  /\ epoch_now = [p \in Participant |-> 0]
  /\ garbage = [p \in Participant |-> {}]
  /\ cursor = [p \in Participant |-> {}]
  /\ fencing = [p \in Participant |-> {}]
  /\ life = [n \in Node |-> "fresh"]
  /\ mayHold = [p \in Participant |-> {}]
  /\ pin = [p \in Participant |-> 0]
  /\ suspect = {}

-----------------------------------------------------------------------------
\* The machine makes the oldest store of p visible.
Drain(p) ==
  /\ buffer[p] # <<>>
  /\ epoch' = [epoch EXCEPT ![p] = Head(buffer[p])]
  /\ buffer' = [buffer EXCEPT ![p] = Tail(@)]
  /\ UNCHANGED <<shared, owned, pc, locals, life, history>>

\* A thread new to this reclaimer publishes a participant of its own.
Adopt(p) ==
  /\ pc[p] = "idle"
  /\ p \notin participants_
  /\ participants_' = participants_ \cup {p}
  /\ UNCHANGED <<epoch_, advancing_, stores, owned, pc, locals, life, history>>

\* Guard's constructor reads the global epoch ...
LoadEpoch(p) ==
  /\ pc[p] = "idle"
  /\ p \in participants_
  /\ epoch_now' = [epoch_now EXCEPT ![p] = epoch_]
  /\ Goto(p, "enter")
  /\ UNCHANGED <<shared, stores, owned, garbage, cursor, fencing, life, history>>

\* Mutant of Expired: a bag is freed an epoch too early.
ExpiredEarly(p, now) ==
  {i \in Bag : bag_epochs[p][i] # kInactive /\ bag_epochs[p][i] + 1 <= now}

\* The bags of p that CollectGarbage(now) frees.
Expired(p, now) ==
  {i \in Bag : bag_epochs[p][i] # kInactive /\ bag_epochs[p][i] + 2 <= now}

\* Mutant of Enter: CollectGarbage() is not called.
EnterWithoutCollecting(p) ==
  /\ pc[p] = "enter"
  /\ Len(buffer[p]) < StoreBufferSize
  /\ announced' = [announced EXCEPT ![p] = epoch_now[p]]
  /\ buffer' = [buffer EXCEPT ![p] = Append(@, epoch_now[p])]
  /\ epoch_now' = [epoch_now EXCEPT ![p] = 0]
  /\ Goto(p, "guard")
  /\ mayHold' = [mayHold EXCEPT ![p] = Linked]
  /\ pin' = [pin EXCEPT ![p] = epoch_]
  /\ UNCHANGED <<shared, epoch, retires, bags, bag_epochs, garbage, cursor, fencing,
                 life, suspect>>

\* ... and Enter() frees what has expired and announces the epoch it read.
Enter(p) ==
  /\ pc[p] = "enter"
  /\ Len(buffer[p]) < StoreBufferSize
  /\ LET now == epoch_now[p]
         expired == IF now # announced[p] THEN Expired(p, now) ELSE {}
     IN  /\ Free(UNION {bags[p][i] : i \in expired})
         /\ bags' = [bags EXCEPT ![p] =
                       [i \in Bag |-> IF i \in expired THEN {} ELSE @[i]]]
         /\ bag_epochs' = [bag_epochs EXCEPT ![p] =
                       [i \in Bag |-> IF i \in expired THEN kInactive ELSE @[i]]]
         /\ announced' = [announced EXCEPT ![p] = now]
         /\ buffer' = [buffer EXCEPT ![p] = Append(@, now)]
  /\ epoch_now' = [epoch_now EXCEPT ![p] = 0]
  /\ Goto(p, "guard")
  /\ mayHold' = [mayHold EXCEPT ![p] = Linked]
  /\ pin' = [pin EXCEPT ![p] = epoch_]
  /\ UNCHANGED <<shared, epoch, retires, garbage, cursor, fencing, suspect>>

\* Guard's destructor, on return or while an exception unwinds.
Leave(p) ==
  /\ pc[p] \in {"guard", "unwind"}
  /\ Len(buffer[p]) < StoreBufferSize
  /\ buffer' = [buffer EXCEPT ![p] = Append(@, kInactive)]
  /\ Goto(p, "idle")
  /\ mayHold' = [mayHold EXCEPT ![p] = {}]
  /\ pin' = [pin EXCEPT ![p] = 0]
  /\ UNCHANGED <<shared, epoch, owned, locals, life, suspect>>

\* The structure: p links in a new node, which every thread inside a Guard
\* can come across from now on.
Link(p, n) ==
  /\ pc[p] = "guard"
  /\ life[n] = "fresh"
  /\ life' = [life EXCEPT ![n] = "linked"]
  /\ mayHold' = [q \in Participant |->
                   IF pc[q] \in InGuard THEN mayHold[q] \cup {n} ELSE mayHold[q]]
  /\ UNCHANGED <<shared, stores, owned, pc, locals, pin, suspect>>

\* The structure: p's compare-and-swap unlinks a node, so p retires it.
Unlink(p, n) ==
  /\ pc[p] = "guard"
  /\ life[n] = "linked"
  /\ life' = [life EXCEPT ![n] = "unlinked"]
  /\ garbage' = [garbage EXCEPT ![p] = {n}]
  /\ Goto(p, "retire")
  /\ UNCHANGED <<shared, stores, owned, epoch_now, cursor, fencing, history>>

-----------------------------------------------------------------------------
\* The label of the bag p retires into, in its current Guard.
BagEpoch(p) == announced[p] + 1

\* Retire() makes sure the bag at the label's index carries that label.
Relabel(p) ==
  LET index == BagEpoch(p) % kBags
  IN  IF bag_epochs[p][index] # BagEpoch(p) THEN bags[p][index] ELSE {}

\* Mutant of Kept: the bag is overwritten.
KeptNothing(p) == {}

Kept(p) == bags[p][BagEpoch(p) % kBags] \ Relabel(p)

Retire(p) ==
  LET index == BagEpoch(p) % kBags
  IN
  /\ pc[p] = "retire"
  /\ Free(Relabel(p))
  /\ bag_epochs' = [bag_epochs EXCEPT ![p][index] = BagEpoch(p)]
  /\ bags' = [bags EXCEPT ![p][index] = Kept(p) \cup garbage[p]]
  /\ garbage' = [garbage EXCEPT ![p] = {}]
  /\ IF retires[p] + 1 = kRetiresPerAdvance
       THEN retires' = [retires EXCEPT ![p] = 0] /\ Goto(p, "load")
       ELSE retires' = [retires EXCEPT ![p] = @ + 1] /\ Goto(p, "guard")
  /\ suspect' = IF pin[p] # announced[p] THEN suspect \cup garbage[p] ELSE suspect
  /\ UNCHANGED <<shared, stores, announced, epoch_now, cursor, fencing,
                 mayHold, pin>>

\* push_back() throws: the unique_ptr that took the node over still owns it
\* and deletes it as the exception leaves Retire(), read by others or not.
RetireThrows(p) ==
  LET index == BagEpoch(p) % kBags
  IN
  /\ "bad_alloc" \in Failures
  /\ pc[p] = "retire"
  /\ Free(Relabel(p) \cup garbage[p])
  /\ bag_epochs' = [bag_epochs EXCEPT ![p][index] = BagEpoch(p)]
  /\ bags' = [bags EXCEPT ![p][index] = Kept(p)]
  /\ garbage' = [garbage EXCEPT ![p] = {}]
  /\ Goto(p, "unwind")
  /\ suspect' = suspect \cup garbage[p]
  /\ UNCHANGED <<shared, stores, announced, retires, epoch_now, cursor,
                 fencing, mayHold, pin>>

-----------------------------------------------------------------------------
\* TryAdvance() reads the epoch it may move on from.
LoadForAdvance(p) ==
  /\ pc[p] = "load"
  /\ epoch_now' = [epoch_now EXCEPT ![p] = epoch_]
  /\ Goto(p, "head1")
  /\ UNCHANGED <<shared, stores, owned, garbage, cursor, fencing, life, history>>

\* AllAtEpoch() reads the head of the list: later participants are not seen.
LoadHead(p) ==
  /\ pc[p] \in {"head1", "head2"}
  /\ cursor' = [cursor EXCEPT ![p] = participants_]
  /\ Goto(p, IF pc[p] = "head1" THEN "scan1" ELSE "scan2")
  /\ UNCHANGED <<shared, stores, owned, epoch_now, garbage, fencing, life, history>>

\* Mutant of AtEpoch: a thread one epoch behind does not stop the scan.
AtEpochOrBefore(p, q) == View(p, q) \in {kInactive, epoch_now[p], epoch_now[p] - 1}

AtEpoch(p, q) == View(p, q) \in {kInactive, epoch_now[p]}

\* AllAtEpoch() looks at one announcement that does not stop it ...
ScanNext(p, q) ==
  /\ pc[p] \in {"scan1", "scan2"}
  /\ q \in cursor[p]
  /\ AtEpoch(p, q)
  /\ cursor' = [cursor EXCEPT ![p] = @ \ {q}]
  /\ Goto(p, IF cursor[p] # {q} THEN pc[p]
             ELSE IF pc[p] = "scan1" THEN "lock" ELSE "cas")
  /\ UNCHANGED <<shared, stores, owned, epoch_now, garbage, fencing, life, history>>

\* ... or at one of another epoch: the naive first scan gives up at once,
\* the second has advancing_ to release.
ScanFails(p, q) ==
  /\ pc[p] \in {"scan1", "scan2"}
  /\ q \in cursor[p]
  /\ ~AtEpoch(p, q)
  /\ cursor' = [cursor EXCEPT ![p] = {}]
  /\ IF pc[p] = "scan1"
       THEN Goto(p, "guard") /\ epoch_now' = [epoch_now EXCEPT ![p] = 0]
       ELSE Goto(p, "unlock") /\ UNCHANGED epoch_now
  /\ UNCHANGED <<shared, stores, owned, garbage, fencing, life, history>>

\* Only one thread at a time advances; another one returns.
TakeAdvancing(p) ==
  /\ pc[p] = "lock"
  /\ ~advancing_
  /\ advancing_' = TRUE
  /\ fencing' = [fencing EXCEPT ![p] = Participant]
  /\ Goto(p, "fence")
  /\ UNCHANGED <<epoch_, participants_, stores, owned, epoch_now, garbage,
                 cursor, life, history>>

AdvancingTaken(p) ==
  /\ pc[p] = "lock"
  /\ advancing_
  /\ epoch_now' = [epoch_now EXCEPT ![p] = 0]
  /\ Goto(p, "guard")
  /\ UNCHANGED <<shared, stores, owned, garbage, cursor, fencing, life, history>>

\* membarrier() runs a full barrier on one thread after the other, which
\* makes visible what that thread stored before.
Membarrier(p, q) ==
  /\ pc[p] = "fence"
  /\ q \in fencing[p]
  /\ epoch' = [epoch EXCEPT ![q] = Own(q)]
  /\ buffer' = [buffer EXCEPT ![q] = <<>>]
  /\ fencing' = [fencing EXCEPT ![p] = @ \ {q}]
  /\ Goto(p, IF fencing[p] = {q} THEN "head2" ELSE "fence")
  /\ UNCHANGED <<shared, owned, epoch_now, garbage, cursor, life, history>>

\* Mutant of MembarrierFails: the exception is thrown before the release.
MembarrierThrowsAtOnce(p) ==
  /\ "membarrier" \in Failures
  /\ pc[p] = "fence"
  /\ fencing[p] = Participant
  /\ fencing' = [fencing EXCEPT ![p] = {}]
  /\ Goto(p, "unwind")
  /\ UNCHANGED <<shared, stores, owned, epoch_now, garbage, cursor, life, history>>

\* membarrier() fails before it did anything.
MembarrierFails(p) ==
  /\ "membarrier" \in Failures
  /\ pc[p] = "fence"
  /\ fencing[p] = Participant
  /\ fencing' = [fencing EXCEPT ![p] = {}]
  /\ Goto(p, "unlock_throw")
  /\ UNCHANGED <<shared, stores, owned, epoch_now, garbage, cursor, life, history>>

CasEpoch(p) ==
  /\ pc[p] = "cas"
  /\ epoch_' = IF epoch_ = epoch_now[p] THEN epoch_now[p] + 1 ELSE epoch_
  /\ Goto(p, "unlock")
  /\ UNCHANGED <<advancing_, participants_, stores, owned, locals, life, history>>

\* TryAdvance() releases advancing_, then throws if the barrier had failed.
ReleaseAdvancing(p) ==
  /\ pc[p] \in {"unlock", "unlock_throw"}
  /\ advancing_' = FALSE
  /\ epoch_now' = [epoch_now EXCEPT ![p] = 0]
  /\ Goto(p, IF pc[p] = "unlock" THEN "guard" ELSE "unwind")
  /\ UNCHANGED <<epoch_, participants_, stores, owned, garbage, cursor,
                 fencing, life, history>>

-----------------------------------------------------------------------------
\* ~EpochReclaimer(), once every thread has finished with the structure.
Destroy ==
  /\ \A p \in Participant : pc[p] = "idle"
  /\ Free(UNION {bags[p][i] : p \in Participant, i \in Bag})
  /\ bags' = [p \in Participant |-> [i \in Bag |-> {}]]
  /\ participants_' = {}
  /\ pc' = [p \in Participant |-> "gone"]
  /\ UNCHANGED <<epoch_, advancing_, stores, announced, retires, bag_epochs,
                 locals, history>>

\* The reclaimer no longer exists.
Destroyed ==
  /\ \A p \in Participant : pc[p] = "gone"
  /\ UNCHANGED vars

EnterGuard(p) == Adopt(p) \/ LoadEpoch(p) \/ Enter(p)

UseStructure(p) == \E n \in Node : Link(p, n) \/ Unlink(p, n)

TryAdvance(p) ==
  \/ LoadForAdvance(p)
  \/ LoadHead(p)
  \/ \E q \in Participant : ScanNext(p, q) \/ ScanFails(p, q)
  \/ TakeAdvancing(p)
  \/ AdvancingTaken(p)
  \/ \E q \in Participant : Membarrier(p, q)
  \/ MembarrierFails(p)
  \/ CasEpoch(p)
  \/ ReleaseAdvancing(p)

Step(p) ==
  \/ EnterGuard(p)
  \/ UseStructure(p)
  \/ Retire(p)
  \/ RetireThrows(p)
  \/ TryAdvance(p)
  \/ Leave(p)

Next ==
  \/ \E p \in Participant : Step(p) \/ Drain(p)
  \/ Destroy
  \/ Destroyed

Spec == Init /\ [][Next]_vars

\* Every thread keeps running, and so does the machine's write-back; whether
\* a thread links or unlinks anything is left to it.
Fairness ==
  \A p \in Participant :
    /\ WF_vars(Drain(p))
    /\ WF_vars(EnterGuard(p) \/ Retire(p) \/ TryAdvance(p) \/ Leave(p))

FairSpec == Spec /\ Fairness

-----------------------------------------------------------------------------
Labels == {"idle", "enter", "gone"} \cup InGuard

\* Every variable has its type; in particular no epoch counts below 0.
TypeOK ==
  /\ epoch_ \in Nat
  /\ advancing_ \in BOOLEAN
  /\ participants_ \subseteq Participant
  /\ epoch \in [Participant -> Nat \cup {kInactive}]
  /\ buffer \in [Participant -> Seq(Nat \cup {kInactive})]
  /\ announced \in [Participant -> Nat]
  /\ retires \in [Participant -> 0 .. kRetiresPerAdvance - 1]
  /\ bag_epochs \in [Participant -> [Bag -> Nat \cup {kInactive}]]
  /\ bags \in [Participant -> [Bag -> SUBSET Node]]
  /\ pc \in [Participant -> Labels]
  /\ epoch_now \in [Participant -> Nat]
  /\ garbage \in [Participant -> SUBSET Node]
  /\ cursor \in [Participant -> SUBSET Participant]
  /\ fencing \in [Participant -> SUBSET Participant]
  /\ life \in [Node -> {"fresh", "linked", "unlinked", "freed"}]
  /\ mayHold \in [Participant -> SUBSET Node]
  /\ pin \in [Participant -> Nat]
  /\ suspect \subseteq Node

\* What the header promises of Retire() (EpochReclaimer.h:70): a node is
\* deleted only once no thread can still be reading it, that is, once every
\* thread whose Guard saw it linked has left that Guard.
NoUseAfterFree ==
  \A p \in Participant : \A n \in mayHold[p] : life[n] # "freed"

\* The part of that promise the code keeps: it holds of every node whose
\* Retire() returned or threw only later, in TryAdvance(), and whose Guard
\* announced what was the global epoch when it announced it.
SafeReclaim ==
  \A p \in Participant : \A n \in mayHold[p] :
    life[n] = "freed" => n \in suspect

\* A Guard holds the epoch back: while it is open the global epoch moves at
\* most one past what it was when the Guard announced itself, however late
\* the announcement becomes visible and whoever is scanning meanwhile.
PinnedEpoch ==
  \A p \in Participant :
    pc[p] \in InGuard => pin[p] <= epoch_ /\ epoch_ <= pin[p] + 1

\* When Retire() comes back to an index of another epoch (EpochReclaimer.h:111)
\* the bag it would free there has always been emptied before, by
\* CollectGarbage() on entry: three bags are enough.
NothingLeftToRelabel ==
  \A p \in Participant : pc[p] = "retire" => Relabel(p) = {}

\* The reclaimer in the terms of what it promises.  A node's readers are the
\* threads whose Guard saw it linked; a Guard is late if the epoch had moved
\* on from the one it announces.
Guards == {p \in Participant : pc[p] \in InGuard}

LateGuards == {p \in Guards : pin[p] # announced[p]}

Unlinked == {n \in Node : life[n] = "unlinked"}

Retired == Unlinked \ UNION {garbage[p] : p \in Participant}

Deleted == {n \in Node : life[n] = "freed"}

Readers ==
  [n \in Node |-> IF n \in Unlinked THEN {p \in Participant : n \in mayHold[p]} ELSE {}]

Promise == INSTANCE Reclamation WITH
  Thread <- Participant,
  guards <- Guards,
  late <- LateGuards,
  inHand <- garbage,
  retired <- Retired,
  excused <- suspect \cap Retired,
  deleted <- Deleted,
  readers <- Readers

\* The epochs, bags, scans and barriers implement the promise: whatever they
\* do, all a user sees is that nodes nobody can be reading disappear, each
\* once, but for the two exceptions Reclamation names.
KeepsThePromise == Promise!Spec

Holders(n) ==
  {h \in Participant \X Bag : n \in bags[h[1]][h[2]]}
    \cup {<<p, kBags>> : p \in {q \in Participant : n \in garbage[q]}}

\* A node that was unlinked and not yet freed is owned in exactly one place,
\* and no other node is in any bag: none is deleted twice, none is lost.
OwnedOnce ==
  \A n \in Node :
    IF life[n] = "unlinked" THEN \E h \in Holders(n) : Holders(n) = {h}
                           ELSE Holders(n) = {}

HoldsExpired(p) == \E i \in Expired(p, epoch_) : bags[p][i] # {}

\* A thread that keeps making operations lets go of what it retired once the
\* epoch has moved two past the label, even if it never retires again
\* (EpochReclaimer.h:152).
GarbageCollected == \A p \in Participant : HoldsExpired(p) ~> ~HoldsExpired(p)

\* advancing_ is released again on every path out of TryAdvance(), that of
\* the exception included; otherwise no epoch would ever pass again.
AdvancingReleased == advancing_ ~> ~advancing_
=============================================================================
