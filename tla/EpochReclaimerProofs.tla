------------------------ MODULE EpochReclaimerProofs ------------------------
(***************************************************************************)
(* Machine-checked proofs about EpochReclaimer, for any number of threads, *)
(* nodes, retires per advance and pending stores.                          *)
(*                                                                         *)
(* The argument.  An open Guard g pins the epoch: a thread that read the   *)
(* epoch after g announced itself runs its membarrier() after that too, so *)
(* its second scan meets g's announcement and stops (InFlight).  At most   *)
(* the one advance that was already past its barrier gets through, hence   *)
(* PinnedEpoch.  A node retired by a Guard that announced the current      *)
(* epoch is labelled at least as high as the pin of every Guard that saw   *)
(* it linked (Labelled), and a bag is freed two epochs past its label,     *)
(* which no such Guard lets the epoch reach: SafeReclaim.  The labels of a *)
(* thread's bags never spread wider than the three bags (BagWindow), so    *)
(* Retire() itself frees nothing, and a node moves from the thread that    *)
(* unlinked it to one bag to its deletion: OwnedOnce.                      *)
(***************************************************************************)
EXTENDS EpochReclaimer, SequenceTheorems, TLAPS

\* A thread inside a Guard, or about to be, has published its participant.
Registered ==
  \A p \in Participant :
    pc[p] \in InGuard \cup {"enter"} => p \in participants_

\* Its latest store is the epoch it announced, never ahead of the real one.
Announced ==
  \A p \in Participant :
    pc[p] \in InGuard => Own(p) = announced[p] /\ announced[p] <= pin[p]

\* A local epoch_now never runs ahead of the epoch nor behind announced.
EpochsRead ==
  \A p \in Participant :
    /\ announced[p] <= epoch_
    /\ epoch_now[p] <= epoch_
    /\ pc[p] = "enter" => announced[p] <= epoch_now[p]

\* The scan of q, which started from an epoch younger than p's Guard, can no
\* longer miss p's announcement.
Blocked(q, p) ==
  /\ pc[q] = "fence" /\ p \notin fencing[q] => buffer[p] = <<>>
  /\ pc[q] = "head2" => buffer[p] = <<>>
  /\ pc[q] = "scan2" => buffer[p] = <<>> /\ p \in cursor[q]
  /\ pc[q] # "cas"

InFlight ==
  \A p, q \in Participant :
    pc[p] \in InGuard /\ pin[p] < epoch_now[q] => Blocked(q, p)

\* Labels stay within one of the announced epoch, each at its own index, and
\* a bag without a label is empty.
BagWindow ==
  \A p \in Participant : \A i \in Bag :
    IF bag_epochs[p][i] = kInactive
      THEN bags[p][i] = {}
      ELSE /\ bag_epochs[p][i] % kBags = i
           /\ announced[p] - 1 <= bag_epochs[p][i]
           /\ bag_epochs[p][i] <= announced[p] + 1

\* What is in a bag or about to be put there is out of the structure.
OutOfReach(n) == life[n] \in {"unlinked", "freed"}

BagsUnlinked ==
  \A p \in Participant :
    /\ \A i \in Bag : \A n \in bags[p][i] : OutOfReach(n)
    /\ \A n \in garbage[p] : OutOfReach(n)

\* Only a thread inside a Guard holds anything, and never a fresh node.
HoldersInGuard ==
  \A p \in Participant : mayHold[p] # {} => pc[p] \in InGuard

\* A node is labelled no lower than the pin of any Guard that may hold it.
Labelled ==
  \A p, q \in Participant : \A i \in Bag : \A n \in bags[p][i] :
    n \in mayHold[q] /\ n \notin suspect => pin[q] <= bag_epochs[p][i]

\* The inductive invariants: of the pin, of the three bags, of reclamation.
PinInv ==
  /\ TypeOK
  /\ Registered
  /\ Announced
  /\ EpochsRead
  /\ PinnedEpoch
  /\ InFlight

BagInv == PinInv /\ BagWindow

ReclaimInv ==
  /\ BagInv
  /\ BagsUnlinked
  /\ HoldersInGuard
  /\ Labelled
  /\ SafeReclaim

-----------------------------------------------------------------------------
USE DEF kBags, Bag

\* Every step is one of these; the cases of each proof below.
LEMMA StepCases ==
  ASSUME Next
  PROVE  \/ \E p \in Participant :
              \/ Drain(p) \/ Adopt(p) \/ LoadEpoch(p) \/ Enter(p) \/ Leave(p)
              \/ (\E n \in Node : Link(p, n) \/ Unlink(p, n))
              \/ Retire(p) \/ RetireThrows(p) \/ TryAdvance(p)
         \/ Destroy
         \/ UNCHANGED vars
  BY DEF Next, Step, EnterGuard, UseStructure, Destroyed

\* What a step of TryAdvance() leaves alone: only CasEpoch moves the epoch,
\* and no bag, node or history variable changes.
LEMMA TryAdvanceFrame ==
  ASSUME NEW p \in Participant, TryAdvance(p)
  PROVE  /\ UNCHANGED <<participants_, owned, garbage, life, history>>
         /\ pc[p] \in Advancing
         /\ \E label \in Advancing \cup {"guard", "unwind"} : Goto(p, label)
  BY DEF TryAdvance, LoadForAdvance, LoadHead, ScanNext, ScanFails,
         TakeAdvancing, AdvancingTaken, Membarrier, MembarrierFails, CasEpoch,
         ReleaseAdvancing, shared, owned, locals, history, Advancing, Goto,
         stores

-----------------------------------------------------------------------------
\* The index of every label is the index of a bag.
LEMMA LabelIndex == \A e \in Nat : e % kBags \in Bag
  OBVIOUS

-----------------------------------------------------------------------------
\* Every variable keeps its type.
LEMMA TypeInit == Init => TypeOK
<1> SUFFICES ASSUME Init PROVE TypeOK
  OBVIOUS
<1> USE DEF Init
<1>1. pc \in [Participant -> Labels]
  BY DEF Labels
<1>2. buffer \in [Participant -> Seq(Nat \cup {kInactive})]
  OBVIOUS
<1>3. retires \in [Participant -> 0 .. kRetiresPerAdvance - 1]
  BY RetiresAssumption
<1>4. QED
  BY <1>1, <1>2, <1>3 DEF TypeOK

LEMMA TypeNext == TypeOK /\ [Next]_vars => TypeOK'
<1> SUFFICES ASSUME TypeOK, [Next]_vars PROVE TypeOK'
  OBVIOUS
<1> USE DEF TypeOK, shared, stores, owned, locals, history, Goto, Free
<1> DEFINE Stores == Seq(Nat \cup {kInactive})
<1>1. ASSUME NEW p \in Participant, Drain(p) PROVE TypeOK'
  BY <1>1 DEF Drain
<1>2. ASSUME NEW p \in Participant, Adopt(p) PROVE TypeOK'
  BY <1>2 DEF Adopt
<1>3. ASSUME NEW p \in Participant, LoadEpoch(p) PROVE TypeOK'
  BY <1>3 DEF LoadEpoch, Labels
<1>4. ASSUME NEW p \in Participant, Enter(p) PROVE TypeOK'
  <2> USE <1>4 DEF Enter
  <2>1. buffer' \in [Participant -> Stores] /\ announced' \in [Participant -> Nat]
    OBVIOUS
  <2>2. bags' \in [Participant -> [Bag -> SUBSET Node]]
    OBVIOUS
  <2>3. bag_epochs' \in [Participant -> [Bag -> Nat \cup {kInactive}]]
    OBVIOUS
  <2>4. life' \in [Node -> {"fresh", "linked", "unlinked", "freed"}]
    OBVIOUS
  <2>5. pc' \in [Participant -> Labels]
    BY DEF Labels, InGuard
  <2>6. mayHold' \in [Participant -> SUBSET Node]
    BY DEF Linked
  <2>7. QED
    BY <2>1, <2>2, <2>3, <2>4, <2>5, <2>6
<1>5. ASSUME NEW p \in Participant, Leave(p) PROVE TypeOK'
  <2> USE <1>5 DEF Leave
  <2>1. buffer' \in [Participant -> Stores]
    OBVIOUS
  <2>2. pc' \in [Participant -> Labels]
    BY DEF Labels
  <2>3. QED
    BY <2>1, <2>2
<1>6. ASSUME NEW p \in Participant, NEW n \in Node, Link(p, n) PROVE TypeOK'
  <2>1. mayHold' \in [Participant -> SUBSET Node]
    BY <1>6 DEF Link
  <2>2. QED
    BY <1>6, <2>1 DEF Link
<1>7. ASSUME NEW p \in Participant, NEW n \in Node, Unlink(p, n) PROVE TypeOK'
  <2>1. pc' \in [Participant -> Labels]
    BY <1>7 DEF Unlink, Labels, InGuard
  <2>2. QED
    BY <1>7, <2>1 DEF Unlink
<1>8. ASSUME NEW p \in Participant, Retire(p) \/ RetireThrows(p) PROVE TypeOK'
  <2> DEFINE index == BagEpoch(p) % kBags
  <2>1. BagEpoch(p) \in Nat /\ index \in Bag
    <3>1. BagEpoch(p) \in Nat
      BY DEF BagEpoch
    <3>2. QED
      BY <3>1, LabelIndex
  <2>2. Relabel(p) \subseteq Node /\ Kept(p) \subseteq Node
    BY <2>1 DEF Relabel, Kept
  <2>3. /\ bag_epochs' = [bag_epochs EXCEPT ![p][index] = BagEpoch(p)]
        /\ \E s \in SUBSET Node : bags' = [bags EXCEPT ![p][index] = s]
    <3>1. CASE Retire(p)
      BY <3>1, <2>2 DEF Retire
    <3>2. CASE RetireThrows(p)
      BY <3>2, <2>2 DEF RetireThrows
    <3>3. QED
      BY <1>8, <3>1, <3>2
  <2>4. \E s \in SUBSET Node : Free(s)
    <3>1. CASE Retire(p)
      BY <3>1, <2>2 DEF Retire
    <3>2. CASE RetireThrows(p)
      <4>1. Relabel(p) \cup garbage[p] \in SUBSET Node
        BY <2>2
      <4>2. QED
        BY <3>2, <4>1 DEF RetireThrows
    <3>3. QED
      BY <1>8, <3>1, <3>2
  <2>5. bags' \in [Participant -> [Bag -> SUBSET Node]]
    <3> HIDE DEF index
    <3>1. QED
      BY <2>1, <2>3
  <2>6. bag_epochs' \in [Participant -> [Bag -> Nat \cup {kInactive}]]
    <3> HIDE DEF index
    <3>1. QED
      BY <2>1, <2>3
  <2>7. life' \in [Node -> {"fresh", "linked", "unlinked", "freed"}]
    BY <2>4
  <2>8. /\ pc' \in [Participant -> Labels]
        /\ retires' \in [Participant -> 0 .. kRetiresPerAdvance - 1]
    <3>1. {"load", "guard", "unwind"} \subseteq Labels
      BY DEF Labels, InGuard, Advancing
    <3>2. pc' \in [Participant -> Labels]
      BY <1>8, <3>1 DEF Retire, RetireThrows
    <3>3. \/ retires' = retires
          \/ retires' = [retires EXCEPT ![p] = 0]
          \/ /\ retires[p] + 1 # kRetiresPerAdvance
             /\ retires' = [retires EXCEPT ![p] = retires[p] + 1]
      BY <1>8 DEF Retire, RetireThrows
    <3>4. retires' \in [Participant -> 0 .. kRetiresPerAdvance - 1]
      BY ONLY <3>3, RetiresAssumption,
              retires \in [Participant -> 0 .. kRetiresPerAdvance - 1]
    <3>5. QED
      BY <3>2, <3>4
  <2>9. /\ suspect' \subseteq Node /\ garbage' \in [Participant -> SUBSET Node]
        /\ UNCHANGED <<shared, stores, announced, epoch_now, cursor, fencing,
                       mayHold, pin>>
    BY <1>8 DEF Retire, RetireThrows
  <2>10. QED
    BY ONLY TypeOK, <2>5, <2>6, <2>7, <2>8, <2>9 DEF TypeOK, shared, stores
<1>9. ASSUME NEW p \in Participant, TryAdvance(p) PROVE TypeOK'
  <2>1. pc' \in [Participant -> Labels]
    <3>1. \A label \in Advancing \cup {"guard", "unwind"} : label \in Labels
      BY DEF Labels, InGuard
    <3>2. QED
      BY <1>9, <3>1, TryAdvanceFrame
  <2>2. advancing_' \in BOOLEAN
    <3>1. UNCHANGED advancing_ \/ advancing_' = TRUE \/ advancing_' = FALSE
      BY <1>9 DEF TryAdvance, LoadForAdvance, LoadHead, ScanNext, ScanFails,
                  TakeAdvancing, AdvancingTaken, Membarrier, MembarrierFails,
                  CasEpoch, ReleaseAdvancing
    <3>2. QED
      BY <3>1
  <2> DEFINE Types == /\ epoch_' \in Nat
                      /\ epoch_now' \in [Participant -> Nat]
                      /\ cursor' \in [Participant -> SUBSET Participant]
                      /\ fencing' \in [Participant -> SUBSET Participant]
                      /\ epoch' \in [Participant -> Nat \cup {kInactive}]
                      /\ buffer' \in [Participant -> Stores]
  <2>3. Types
    <3> HIDE DEF Goto
    <3>1. CASE LoadForAdvance(p) \/ LoadHead(p)
      BY <3>1 DEF LoadForAdvance, LoadHead
    <3>2. ASSUME NEW q \in Participant, ScanNext(p, q) \/ ScanFails(p, q)
          PROVE  Types
      <4>1. CASE ScanNext(p, q)
        BY <4>1 DEF ScanNext
      <4>2. CASE ScanFails(p, q)
        <5>1. /\ \/ UNCHANGED epoch_now
                 \/ epoch_now' = [epoch_now EXCEPT ![p] = 0]
              /\ cursor' = [cursor EXCEPT ![p] = {}]
              /\ UNCHANGED <<epoch_, stores, fencing>>
          BY <4>2 DEF ScanFails
        <5>2. cursor' \in [Participant -> SUBSET Participant]
          BY <5>1
        <5>3. epoch_now' \in [Participant -> Nat]
          BY <5>1
        <5>4. QED
          BY <5>1, <5>2, <5>3
      <4>3. QED
        BY <3>2, <4>1, <4>2
    <3>3. CASE TakeAdvancing(p)
      BY <3>3 DEF TakeAdvancing
    <3>4. CASE AdvancingTaken(p)
      BY <3>4 DEF AdvancingTaken
    <3>5. ASSUME NEW q \in Participant, Membarrier(p, q) PROVE Types
      <4>1. Own(q) \in Nat \cup {kInactive}
        <5>1. CASE buffer[q] = <<>>
          BY <5>1 DEF Own
        <5>2. CASE buffer[q] # <<>>
          <6>1. buffer[q] \in Seq(Nat \cup {kInactive})
            OBVIOUS
          <6>2. Len(buffer[q]) \in Nat \ {0}
            BY <5>2, <6>1, EmptySeq
          <6>3. QED
            BY <5>2, <6>1, <6>2, ElementOfSeq DEF Own
        <5>3. QED
          BY <5>1, <5>2
      <4>2. QED
        BY <3>5, <4>1, EmptySeq DEF Membarrier
    <3>6. CASE MembarrierFails(p)
      BY <3>6 DEF MembarrierFails
    <3>7. CASE CasEpoch(p)
      BY <3>7 DEF CasEpoch
    <3>8. CASE ReleaseAdvancing(p)
      BY <3>8 DEF ReleaseAdvancing
    <3> HIDE DEF Types
    <3>9. QED
      BY <1>9, <3>1, <3>2, <3>3, <3>4, <3>5, <3>6, <3>7, <3>8 DEF TryAdvance
  <2>4. QED
    BY <1>9, <2>1, <2>2, <2>3, TryAdvanceFrame
<1>10. CASE Destroy
  <2>1. pc' \in [Participant -> Labels]
    BY <1>10 DEF Destroy, Labels
  <2>2. QED
    BY <1>10, <2>1 DEF Destroy
<1>11. CASE UNCHANGED vars
  BY <1>11 DEF vars
<1>12. QED
  BY <1>1, <1>2, <1>3, <1>4, <1>5, <1>6, <1>7, <1>8, <1>9, <1>10, <1>11,
     StepCases

\* Every variable always has its type.
THEOREM TypeCorrect == Spec => []TypeOK
  BY TypeInit, TypeNext, PTL DEF Spec

-----------------------------------------------------------------------------
\* What a step may do to the pieces the pin of a Guard rests on.

\* Appending to a buffer makes the value the latest store.
LEMMA LastStore ==
  ASSUME NEW S, NEW s \in Seq(S), NEW x \in S
  PROVE  /\ Append(s, x) # <<>>
         /\ Append(s, x)[Len(Append(s, x))] = x
  OBVIOUS

\* Dropping the oldest value of a sequence leaves its last one in place.
LEMMA TailLast ==
  ASSUME NEW S, NEW s \in Seq(S), s # <<>>
  PROVE  IF Tail(s) = <<>> THEN Head(s) = s[Len(s)]
                           ELSE Tail(s)[Len(Tail(s))] = s[Len(s)]
<1>1. /\ Tail(s) \in Seq(S)
      /\ \A i \in 1 .. Len(Tail(s)) : Tail(s)[i] = s[i + 1]
  BY HeadTailProperties
<1>2. Len(s) \in Nat \ {0} /\ Len(Tail(s)) = Len(s) - 1 /\ Head(s) = s[1]
  BY EmptySeq, HeadTailProperties
<1>3. CASE Tail(s) = <<>>
  <2>1. Len(Tail(s)) = 0
    <3>1. Len(<<>>) = 0
      BY EmptySeq
    <3>2. QED
      BY <1>3, <3>1
  <2> DEFINE n == Len(s)
             m == Len(Tail(s))
  <2>2. n \in Nat /\ m = n - 1 /\ m = 0
    BY <1>2, <2>1
  <2> HIDE DEF n, m
  <2>3. n = 1
    BY <2>2
  <2>4. QED
    BY <1>2, <1>3, <2>3 DEF n
<1>4. CASE Tail(s) # <<>>
  <2>1. Len(Tail(s)) \in Nat \ {0}
    BY <1>1, <1>4, EmptySeq
  <2>2. QED
    BY <1>1, <1>2, <1>4, <2>1
<1>5. QED
  BY <1>3, <1>4

\* Draining the oldest store leaves the latest one what it was.
LEMMA DrainOwn ==
  ASSUME TypeOK, NEW q \in Participant, Drain(q), NEW p \in Participant
  PROVE  Own(p)' = Own(p)
<1> USE DEF Drain
<1>1. CASE p # q
  BY <1>1 DEF Own, TypeOK
<1>2. CASE p = q
  <2>1. buffer[p] \in Seq(Nat \cup {kInactive}) /\ buffer[p] # <<>>
    BY <1>2 DEF TypeOK
  <2>2. buffer'[p] = Tail(buffer[p]) /\ epoch'[p] = Head(buffer[p])
    BY <1>2 DEF TypeOK
  <2>3. QED
    BY <2>1, <2>2, TailLast DEF Own
<1>3. QED
  BY <1>1, <1>2

\* A thread is inside a Guard only if it was or has just entered.
LEMMA EntersGuard ==
  ASSUME TypeOK, Next, NEW p \in Participant, pc'[p] \in InGuard, ~Enter(p)
  PROVE  pc[p] \in InGuard
<1> USE DEF TypeOK, Goto
<1>1. ASSUME NEW q \in Participant,
             Drain(q) \/ Adopt(q) \/ LoadEpoch(q) \/ Leave(q)
      PROVE  pc[p] \in InGuard
  BY <1>1 DEF Drain, Adopt, LoadEpoch, Leave, InGuard, Advancing
<1>2. ASSUME NEW q \in Participant, Enter(q) PROVE pc[p] \in InGuard
  <2>1. p # q
    BY <1>2
  <2>2. pc' = [pc EXCEPT ![q] = "guard"]
    BY <1>2 DEF Enter
  <2>3. QED
    BY <2>1, <2>2
<1>3. ASSUME NEW q \in Participant, NEW n \in Node, Link(q, n) \/ Unlink(q, n)
      PROVE  pc[p] \in InGuard
  BY <1>3 DEF Link, Unlink, InGuard
<1>4. ASSUME NEW q \in Participant, Retire(q) \/ RetireThrows(q)
      PROVE  pc[p] \in InGuard
  BY <1>4 DEF Retire, RetireThrows, InGuard
<1>5. ASSUME NEW q \in Participant, TryAdvance(q) PROVE pc[p] \in InGuard
  BY <1>5, TryAdvanceFrame DEF InGuard
<1>6. CASE Destroy
  BY <1>6 DEF Destroy, InGuard, Advancing
<1>7. CASE UNCHANGED vars
  BY <1>7 DEF vars
<1>8. QED
  BY <1>1, <1>2, <1>3, <1>4, <1>5, <1>6, <1>7, StepCases

\* Only its own Guard moves a thread's announcement and pin; a buffer that
\* was drained stays empty otherwise.
LEMMA GuardFrame ==
  ASSUME TypeOK, Next, NEW p \in Participant, ~Enter(p), ~Leave(p)
  PROVE  /\ Own(p)' = Own(p)
         /\ announced'[p] = announced[p]
         /\ pin'[p] = pin[p]
         /\ buffer[p] = <<>> => buffer'[p] = <<>>
<1> DEFINE Frame == /\ Own(p)' = Own(p)
                    /\ announced'[p] = announced[p]
                    /\ pin'[p] = pin[p]
                    /\ buffer[p] = <<>> => buffer'[p] = <<>>
<1> SUFFICES Frame
  OBVIOUS
<1> USE DEF shared, stores, owned, history
<1>1. ASSUME NEW q \in Participant, Drain(q) PROVE Frame
  BY <1>1, DrainOwn DEF Drain, TypeOK
<1>2. ASSUME NEW q \in Participant, Adopt(q) \/ LoadEpoch(q) PROVE Frame
  BY <1>2 DEF Adopt, LoadEpoch, Own
<1>3. ASSUME NEW q \in Participant, Enter(q) PROVE Frame
  <2>1. p # q
    BY <1>3
  <2>2. /\ \E x : buffer' = [buffer EXCEPT ![q] = x]
        /\ \E x : announced' = [announced EXCEPT ![q] = x]
        /\ \E x : pin' = [pin EXCEPT ![q] = x]
        /\ epoch' = epoch
    BY <1>3 DEF Enter
  <2>3. QED
    BY <2>1, <2>2 DEF Own, TypeOK
<1>4. ASSUME NEW q \in Participant, Leave(q) PROVE Frame
  BY <1>4 DEF Leave, Own, TypeOK
<1>5. ASSUME NEW q \in Participant, NEW n \in Node, Link(q, n) \/ Unlink(q, n)
      PROVE  Frame
  BY <1>5 DEF Link, Unlink, Own
<1>6. ASSUME NEW q \in Participant, Retire(q) \/ RetireThrows(q) PROVE Frame
  BY <1>6 DEF Retire, RetireThrows, Own
<1>7. ASSUME NEW q \in Participant, TryAdvance(q) PROVE Frame
  <2>1. announced'[p] = announced[p] /\ pin'[p] = pin[p]
    BY <1>7, TryAdvanceFrame
  <2>2. UNCHANGED stores \/ \E r \in Participant : Membarrier(q, r)
    BY <1>7 DEF TryAdvance, LoadForAdvance, LoadHead, ScanNext, ScanFails,
                TakeAdvancing, AdvancingTaken, MembarrierFails, CasEpoch,
                ReleaseAdvancing
  <2>3. CASE UNCHANGED stores
    BY <2>1, <2>3 DEF Own
  <2>4. ASSUME NEW r \in Participant, Membarrier(q, r) PROVE Frame
    BY <2>1, <2>4 DEF Membarrier, Own, TypeOK
  <2>5. QED
    BY <2>2, <2>3, <2>4
<1>8. CASE Destroy \/ UNCHANGED vars
  BY <1>8 DEF Destroy, vars, Own
<1> HIDE DEF Frame
<1>9. QED
  BY <1>1, <1>2, <1>3, <1>4, <1>5, <1>6, <1>7, <1>8, StepCases

\* The epoch moves only as an advance sees it unchanged, and by one.
LEMMA EpochMoves ==
  ASSUME TypeOK, Next
  PROVE  \/ epoch_' = epoch_
         \/ \E q \in Participant :
              CasEpoch(q) /\ epoch_ = epoch_now[q] /\ epoch_' = epoch_ + 1
<1> USE DEF shared
<1>1. ASSUME NEW q \in Participant, TryAdvance(q), ~CasEpoch(q)
      PROVE  epoch_' = epoch_
  BY <1>1 DEF TryAdvance, LoadForAdvance, LoadHead, ScanNext, ScanFails,
              TakeAdvancing, AdvancingTaken, Membarrier, MembarrierFails,
              ReleaseAdvancing
<1>2. ASSUME NEW q \in Participant, CasEpoch(q)
      PROVE  epoch_' = epoch_ \/ (epoch_ = epoch_now[q] /\ epoch_' = epoch_ + 1)
  BY <1>2 DEF CasEpoch
<1>3. CASE Destroy \/ UNCHANGED vars
  BY <1>3 DEF Destroy, vars
<1>4. ASSUME NEW q \in Participant,
             \/ Drain(q) \/ Adopt(q) \/ LoadEpoch(q) \/ Enter(q) \/ Leave(q)
             \/ \E n \in Node : Link(q, n) \/ Unlink(q, n)
             \/ Retire(q) \/ RetireThrows(q)
      PROVE  epoch_' = epoch_
  BY <1>4 DEF Drain, Adopt, LoadEpoch, Enter, Leave, Link, Unlink, Retire,
              RetireThrows
<1>5. QED
  BY <1>1, <1>2, <1>3, <1>4, StepCases

\* A thread's epoch_now changes only to the epoch of that moment or to 0.
LEMMA EpochIsRead ==
  ASSUME TypeOK, Next, NEW q \in Participant
  PROVE  \/ epoch_now'[q] = epoch_now[q] /\ (pc'[q] = "enter" => pc[q] = "enter")
         \/ epoch_now'[q] = 0 /\ pc'[q] # "enter"
         \/ epoch_now'[q] = epoch_ /\ (LoadEpoch(q) \/ pc'[q] = "head1")
<1> DEFINE Read ==
      \/ epoch_now'[q] = epoch_now[q] /\ (pc'[q] = "enter" => pc[q] = "enter")
      \/ epoch_now'[q] = 0 /\ pc'[q] # "enter"
      \/ epoch_now'[q] = epoch_ /\ (LoadEpoch(q) \/ pc'[q] = "head1")
<1> SUFFICES Read
  OBVIOUS
<1> USE DEF locals, Goto, TypeOK
<1>1. ASSUME NEW p \in Participant, Drain(p) \/ Adopt(p) \/ LoadEpoch(p)
      PROVE  Read
  BY <1>1 DEF Drain, Adopt, LoadEpoch
<1>2. ASSUME NEW p \in Participant, Enter(p) PROVE Read
  BY <1>2 DEF Enter
<1>3. ASSUME NEW p \in Participant,
             \/ Leave(p)
             \/ \E n \in Node : Link(p, n) \/ Unlink(p, n)
             \/ Retire(p) \/ RetireThrows(p)
      PROVE  Read
  BY <1>3 DEF Leave, Link, Unlink, Retire, RetireThrows
<1>4. ASSUME NEW p \in Participant, TryAdvance(p) PROVE Read
  <2>1. CASE LoadForAdvance(p)
    BY <2>1 DEF LoadForAdvance
  <2>2. CASE LoadHead(p) \/ TakeAdvancing(p) \/ MembarrierFails(p) \/ CasEpoch(p)
    BY <2>2 DEF LoadHead, TakeAdvancing, MembarrierFails, CasEpoch
  <2>3. CASE AdvancingTaken(p) \/ ReleaseAdvancing(p)
    BY <2>3 DEF AdvancingTaken, ReleaseAdvancing
  <2>4. ASSUME NEW r \in Participant, ScanNext(p, r) \/ Membarrier(p, r)
        PROVE  Read
    BY <2>4 DEF ScanNext, Membarrier
  <2>5. ASSUME NEW r \in Participant, ScanFails(p, r) PROVE Read
    BY <2>5 DEF ScanFails
  <2> HIDE DEF Read
  <2>6. QED
    BY <1>4, <2>1, <2>2, <2>3, <2>4, <2>5 DEF TryAdvance
<1>5. CASE Destroy \/ UNCHANGED vars
  BY <1>5 DEF Destroy, vars
<1> HIDE DEF Read
<1>6. QED
  BY <1>1, <1>2, <1>3, <1>4, <1>5, StepCases

-----------------------------------------------------------------------------
\* A Guard pins the epoch.
LEMMA PinInit == Init => PinInv
<1> SUFFICES ASSUME Init PROVE PinInv
  OBVIOUS
<1>1. \A p \in Participant : pc[p] \notin InGuard \cup {"enter"}
  BY DEF Init, InGuard, Advancing
<1>2. Registered /\ Announced /\ PinnedEpoch /\ InFlight
  BY <1>1 DEF Registered, Announced, PinnedEpoch, InFlight
<1>3. EpochsRead
  <2> SUFFICES ASSUME NEW p \in Participant
               PROVE  /\ announced[p] <= epoch_ /\ epoch_now[p] <= epoch_
                      /\ pc[p] = "enter" => announced[p] <= epoch_now[p]
    BY DEF EpochsRead
  <2>1. announced[p] = 0 /\ epoch_now[p] = 0 /\ pc[p] = "idle" /\ epoch_ = 0
    BY DEF Init
  <2>2. QED
    BY <2>1
<1>4. QED
  BY <1>2, <1>3, TypeInit DEF PinInv

\* Nobody reaches a Guard without a participant, and none is withdrawn before
\* every thread is done.
LEMMA RegisteredNext ==
  ASSUME TypeOK, Registered, Next
  PROVE  Registered'
<1> SUFFICES ASSUME NEW p \in Participant, pc'[p] \in InGuard \cup {"enter"}
             PROVE  p \in participants_'
  BY DEF Registered
<1>1. ASSUME pc'[p] \in InGuard PROVE pc[p] \in InGuard \cup {"enter"}
  BY <1>1, EntersGuard DEF Enter
<1>2. ASSUME pc'[p] = "enter", ~LoadEpoch(p) PROVE pc[p] = "enter"
  BY <1>2, EpochIsRead
<1>3. p \in participants_
  <2>1. CASE LoadEpoch(p)
    BY <2>1 DEF LoadEpoch
  <2>2. CASE ~LoadEpoch(p)
    BY <1>1, <1>2, <2>2 DEF Registered
  <2>3. QED
    BY <2>1, <2>2
<1>4. ASSUME ~Destroy PROVE participants_ \subseteq participants_'
  <2> USE DEF shared
  <2>1. ASSUME NEW q \in Participant, TryAdvance(q)
        PROVE  participants_ \subseteq participants_'
    BY <2>1, TryAdvanceFrame
  <2>2. ASSUME NEW q \in Participant,
               \/ Drain(q) \/ Adopt(q) \/ LoadEpoch(q) \/ Enter(q) \/ Leave(q)
               \/ \E n \in Node : Link(q, n) \/ Unlink(q, n)
               \/ Retire(q) \/ RetireThrows(q)
        PROVE  participants_ \subseteq participants_'
    BY <2>2 DEF Drain, Adopt, LoadEpoch, Enter, Leave, Link, Unlink, Retire,
                RetireThrows
  <2>3. CASE UNCHANGED vars
    BY <2>3 DEF vars
  <2>4. QED
    BY <1>4, <2>1, <2>2, <2>3, StepCases
<1>5. ~Destroy
  BY DEF Destroy, InGuard, Advancing
<1>6. QED
  BY <1>3, <1>4, <1>5

LEMMA EpochsReadNext ==
  ASSUME TypeOK, EpochsRead, Next
  PROVE  EpochsRead'
<1> SUFFICES ASSUME NEW p \in Participant
             PROVE  /\ announced'[p] <= epoch_'
                    /\ epoch_now'[p] <= epoch_'
                    /\ pc'[p] = "enter" => announced'[p] <= epoch_now'[p]
  BY DEF EpochsRead
<1>1. /\ announced[p] \in Nat /\ epoch_now[p] \in Nat /\ epoch_ \in Nat
      /\ announced[p] <= epoch_ /\ epoch_now[p] <= epoch_
      /\ pc[p] = "enter" => announced[p] <= epoch_now[p]
  BY DEF TypeOK, EpochsRead
<1>2. epoch_' \in Nat /\ epoch_ <= epoch_'
  BY <1>1, EpochMoves
<1>3. CASE Enter(p)
  <2>1. announced'[p] = epoch_now[p] /\ epoch_now'[p] = 0 /\ pc'[p] = "guard"
    BY <1>3 DEF Enter, Goto, TypeOK
  <2>2. QED
    BY <1>1, <1>2, <2>1
<1>4. CASE ~Enter(p)
  <2>1. announced'[p] = announced[p]
    <3>1. CASE Leave(p)
      BY <3>1 DEF Leave, owned
    <3>2. CASE ~Leave(p)
      BY <1>4, <3>2, GuardFrame
    <3>3. QED
      BY <3>1, <3>2
  <2>2. QED
    BY <1>1, <1>2, <2>1, EpochIsRead
<1>5. QED
  BY <1>3, <1>4

LEMMA AnnouncedNext ==
  ASSUME TypeOK, Announced, EpochsRead, Next
  PROVE  Announced'
<1> SUFFICES ASSUME NEW p \in Participant, pc'[p] \in InGuard
             PROVE  Own(p)' = announced'[p] /\ announced'[p] <= pin'[p]
  BY DEF Announced
<1>1. CASE Enter(p)
  <2>1. /\ announced'[p] = epoch_now[p] /\ pin'[p] = epoch_
        /\ buffer'[p] = Append(buffer[p], epoch_now[p])
    BY <1>1 DEF Enter, TypeOK
  <2>2. epoch_now[p] <= epoch_
    BY DEF EpochsRead
  <2>3. /\ buffer[p] \in Seq(Nat \cup {kInactive})
        /\ epoch_now[p] \in Nat \cup {kInactive}
    BY DEF TypeOK
  <2>4. Own(p)' = epoch_now[p]
    BY <2>1, <2>3, LastStore DEF Own
  <2>5. QED
    BY <2>1, <2>2, <2>4
<1>2. CASE Leave(p)
  BY <1>2 DEF Leave, Goto, InGuard, Advancing, TypeOK
<1>3. CASE ~Enter(p) /\ ~Leave(p)
  <2>1. pc[p] \in InGuard
    BY <1>3, EntersGuard
  <2>2. QED
    BY <1>3, <2>1, GuardFrame DEF Announced
<1>4. QED
  BY <1>1, <1>2, <1>3

\* The second scan that would let the epoch past a Guard does not get through.
LEMMA PinnedNext ==
  ASSUME PinInv, Next
  PROVE  PinnedEpoch'
<1> USE DEF PinInv
<1> SUFFICES ASSUME NEW p \in Participant, pc'[p] \in InGuard
             PROVE  pin'[p] <= epoch_' /\ epoch_' <= pin'[p] + 1
  BY DEF PinnedEpoch
<1>1. epoch_ \in Nat /\ pin[p] \in Nat
  BY DEF TypeOK
<1>2. CASE Enter(p)
  BY <1>1, <1>2 DEF Enter, TypeOK, shared
<1>3. CASE Leave(p)
  BY <1>3 DEF Leave, Goto, InGuard, Advancing, TypeOK
<1>4. CASE ~Enter(p) /\ ~Leave(p)
  <2>1. pc[p] \in InGuard /\ pin'[p] = pin[p]
    BY <1>4, EntersGuard, GuardFrame
  <2>2. pin[p] <= epoch_ /\ epoch_ <= pin[p] + 1
    BY <2>1 DEF PinnedEpoch
  <2>3. ASSUME NEW q \in Participant,
               CasEpoch(q), epoch_ = epoch_now[q], epoch_' = epoch_ + 1
        PROVE  epoch_ <= pin[p]
    <3>1. ~ Blocked(q, p)
      BY <2>3 DEF CasEpoch, Blocked
    <3>2. ~ (pin[p] < epoch_now[q])
      BY <2>1, <3>1 DEF InFlight
    <3>3. QED
      BY <1>1, <2>3, <3>2
  <2>4. QED
    BY <1>1, <2>1, <2>2, <2>3, EpochMoves
<1>5. QED
  BY <1>2, <1>3, <1>4

\* The scan of q meets the announcement of p and does not pass it.
LEMMA ScanStops ==
  ASSUME TypeOK, Announced,
         NEW p \in Participant, NEW q \in Participant, pc[p] \in InGuard,
         pin[p] < epoch_now[q], buffer[p] = <<>>
  PROVE  ~ AtEpoch(q, p)
<1>1. View(q, p) = announced[p] /\ announced[p] <= pin[p]
  BY DEF Announced, View, Own
<1>2. /\ announced[p] \in Nat /\ pin[p] \in Nat /\ epoch_now[q] \in Nat
  BY DEF TypeOK
<1>3. announced[p] # kInactive /\ announced[p] # epoch_now[q]
  BY <1>1, <1>2, InactiveAssumption
<1>4. QED
  BY <1>1, <1>3 DEF AtEpoch

\* What a step of q's own TryAdvance() does to Blocked(q, p).
LEMMA BlockedAdvance ==
  ASSUME PinInv, NEW p \in Participant, NEW q \in Participant,
         TryAdvance(q), pc[p] \in InGuard, buffer[p] = <<>> => buffer'[p] = <<>>,
         pin[p] < epoch_now'[q], Blocked(q, p)
  PROVE  Blocked(q, p)'
<1> USE DEF PinInv, TypeOK, Goto
<1>1. CASE LoadForAdvance(q)
  BY <1>1 DEF LoadForAdvance, Blocked
<1>2. CASE LoadHead(q)
  <2>1. CASE pc[q] = "head1"
    BY <1>2, <2>1 DEF LoadHead, Blocked
  <2>2. CASE pc[q] = "head2"
    <3>1. buffer'[p] = <<>> /\ pc'[q] = "scan2"
      BY <1>2, <2>2 DEF LoadHead, Blocked
    <3>2. p \in cursor'[q]
      BY <1>2 DEF LoadHead, Registered
    <3>3. QED
      BY <3>1, <3>2 DEF Blocked
  <2>3. QED
    BY <1>2, <2>1, <2>2 DEF LoadHead
<1>3. ASSUME NEW r \in Participant, ScanNext(q, r) PROVE Blocked(q, p)'
  <2>1. CASE pc[q] = "scan1"
    BY <1>3, <2>1 DEF ScanNext, Blocked
  <2>2. CASE pc[q] = "scan2"
    <3>1. buffer[p] = <<>> /\ p \in cursor[q] /\ epoch_now'[q] = epoch_now[q]
      BY <1>3, <2>2 DEF ScanNext, Blocked
    <3>2. r # p
      BY <1>3, <3>1, ScanStops DEF ScanNext
    <3>3. pc'[q] = "scan2" /\ p \in cursor'[q]
      BY <1>3, <2>2, <3>1, <3>2 DEF ScanNext
    <3>4. QED
      BY <3>1, <3>3 DEF Blocked
  <2>3. QED
    BY <1>3, <2>1, <2>2 DEF ScanNext
<1>4. ASSUME NEW r \in Participant, ScanFails(q, r) PROVE Blocked(q, p)'
  <2>1. pc'[q] \in {"guard", "unlock"}
    BY <1>4 DEF ScanFails
  <2>2. QED
    BY <2>1 DEF Blocked
<1>5. CASE TakeAdvancing(q)
  <2>1. pc'[q] = "fence" /\ fencing'[q] = Participant
    BY <1>5 DEF TakeAdvancing
  <2>2. QED
    BY <2>1 DEF Blocked
<1>6. CASE AdvancingTaken(q) \/ MembarrierFails(q) \/ CasEpoch(q)
  <2>1. pc'[q] \in {"guard", "unlock_throw", "unlock"}
    BY <1>6 DEF AdvancingTaken, MembarrierFails, CasEpoch
  <2>2. QED
    BY <2>1 DEF Blocked
<1>7. ASSUME NEW r \in Participant, Membarrier(q, r) PROVE Blocked(q, p)'
  <2>1. buffer'[r] = <<>> /\ pc[q] = "fence" /\ fencing'[q] = fencing[q] \ {r}
    BY <1>7 DEF Membarrier
  <2>2. p \notin fencing'[q] => buffer'[p] = <<>>
    BY <2>1 DEF Blocked
  <2>3. pc'[q] = IF fencing[q] = {r} THEN "head2" ELSE "fence"
    BY <1>7 DEF Membarrier
  <2>4. pc'[q] = "head2" => buffer'[p] = <<>>
    BY <2>1, <2>2, <2>3
  <2>5. QED
    BY <2>2, <2>3, <2>4 DEF Blocked
<1>8. CASE ReleaseAdvancing(q)
  <2>1. pc'[q] \in {"guard", "unwind"}
    BY <1>8 DEF ReleaseAdvancing
  <2>2. QED
    BY <2>1 DEF Blocked
<1>9. QED
  BY <1>1, <1>2, <1>3, <1>4, <1>5, <1>6, <1>7, <1>8 DEF TryAdvance

\* Outside TryAdvance() a thread is at none of the places of a scan, and other
\* threads leave its scan alone.
LEMMA ScanFrame ==
  ASSUME TypeOK, Next, NEW q \in Participant, ~TryAdvance(q)
  PROVE  \/ /\ pc'[q] = pc[q]
            /\ cursor'[q] = cursor[q]
            /\ fencing'[q] = fencing[q]
            /\ epoch_now'[q] = epoch_now[q]
         \/ pc'[q] \in {"idle", "enter", "guard", "retire", "unwind", "load",
                        "gone"}
<1> DEFINE Same == /\ pc'[q] = pc[q]
                   /\ cursor'[q] = cursor[q]
                   /\ fencing'[q] = fencing[q]
                   /\ epoch_now'[q] = epoch_now[q]
           Away == pc'[q] \in {"idle", "enter", "guard", "retire", "unwind",
                               "load", "gone"}
<1> SUFFICES Same \/ Away
  OBVIOUS
<1> USE DEF locals, Goto, TypeOK
<1>1. ASSUME NEW p \in Participant, Drain(p) \/ Adopt(p) \/ Leave(p)
      PROVE  Same \/ Away
  BY <1>1 DEF Drain, Adopt, Leave
<1>2. ASSUME NEW p \in Participant, LoadEpoch(p) PROVE Same \/ Away
  BY <1>2 DEF LoadEpoch
<1>3. ASSUME NEW p \in Participant, Enter(p) PROVE Same \/ Away
  <2>1. /\ pc' = [pc EXCEPT ![p] = "guard"]
        /\ epoch_now' = [epoch_now EXCEPT ![p] = 0]
        /\ UNCHANGED <<cursor, fencing>>
    BY <1>3 DEF Enter
  <2>2. QED
    BY <2>1
<1>4. ASSUME NEW p \in Participant, NEW n \in Node, Link(p, n) \/ Unlink(p, n)
      PROVE  Same \/ Away
  BY <1>4 DEF Link, Unlink
<1>5. ASSUME NEW p \in Participant, Retire(p) \/ RetireThrows(p)
      PROVE  Same \/ Away
  <2>1. /\ \E label \in {"load", "guard", "unwind"} : Goto(p, label)
        /\ UNCHANGED <<cursor, fencing, epoch_now>>
    BY <1>5 DEF Retire, RetireThrows
  <2>2. QED
    BY <2>1
<1>6. ASSUME NEW p \in Participant, TryAdvance(p) PROVE Same \/ Away
  <2>1. p # q
    BY <1>6
  <2>2. /\ \E x : pc' = [pc EXCEPT ![p] = x]
        /\ cursor' = cursor \/ \E x : cursor' = [cursor EXCEPT ![p] = x]
        /\ fencing' = fencing \/ \E x : fencing' = [fencing EXCEPT ![p] = x]
        /\ \/ epoch_now' = epoch_now
           \/ \E x : epoch_now' = [epoch_now EXCEPT ![p] = x]
    BY <1>6 DEF TryAdvance, LoadForAdvance, LoadHead, ScanNext, ScanFails,
                TakeAdvancing, AdvancingTaken, Membarrier, MembarrierFails,
                CasEpoch, ReleaseAdvancing
  <2>3. QED
    BY <2>1, <2>2
<1>7. CASE Destroy \/ UNCHANGED vars
  BY <1>7 DEF Destroy, vars
<1> HIDE DEF Same, Away
<1>8. QED
  BY <1>1, <1>2, <1>3, <1>4, <1>5, <1>6, <1>7, StepCases

LEMMA InFlightNext ==
  ASSUME PinInv, Next
  PROVE  InFlight'
<1> USE DEF PinInv
<1> SUFFICES ASSUME NEW p \in Participant, NEW q \in Participant,
                    pc'[p] \in InGuard, pin'[p] < epoch_now'[q]
             PROVE  Blocked(q, p)'
  BY DEF InFlight
<1>1. /\ epoch_ \in Nat /\ epoch_now[q] \in Nat /\ epoch_now[q] <= epoch_
      /\ pin[p] \in Nat
  BY DEF TypeOK, EpochsRead
<1>2. ~Enter(p)
  <2>1. SUFFICES ASSUME Enter(p) PROVE FALSE
    OBVIOUS
  <2>2. /\ pin'[p] = epoch_
        /\ epoch_now' = [epoch_now EXCEPT ![p] = 0]
    BY <2>1 DEF Enter, TypeOK
  <2>3. epoch_now'[q] <= epoch_
    BY <1>1, <2>2 DEF TypeOK
  <2>4. epoch_now'[q] \in Nat
    BY <1>1, <2>2 DEF TypeOK
  <2>5. QED
    BY <1>1, <2>2, <2>3, <2>4
<1>3. ~Leave(p)
  BY DEF Leave, Goto, InGuard, Advancing, TypeOK
<1>4. /\ pc[p] \in InGuard /\ pin'[p] = pin[p]
      /\ buffer[p] = <<>> => buffer'[p] = <<>>
  BY <1>2, <1>3, EntersGuard, GuardFrame
<1>5. CASE epoch_now'[q] # epoch_now[q]
  <2>1. epoch_now'[q] # 0
    BY <1>1, <1>4
  <2>2. pc'[q] = "head1" \/ LoadEpoch(q)
    BY <1>5, <2>1, EpochIsRead
  <2>3. pc'[q] \in {"head1", "enter"}
    BY <2>2 DEF LoadEpoch, Goto, TypeOK
  <2>4. QED
    BY <2>3 DEF Blocked
<1>6. CASE epoch_now'[q] = epoch_now[q]
  <2>1. Blocked(q, p)
    BY <1>4, <1>6 DEF InFlight
  <2>2. CASE TryAdvance(q)
    BY <1>4, <2>1, <2>2, BlockedAdvance
  <2>3. CASE ~TryAdvance(q)
    BY <1>4, <2>1, <2>3, ScanFrame DEF Blocked
  <2>4. QED
    BY <2>2, <2>3
<1>7. QED
  BY <1>5, <1>6

LEMMA PinNext == PinInv /\ [Next]_vars => PinInv'
<1> SUFFICES ASSUME PinInv, [Next]_vars PROVE PinInv'
  OBVIOUS
<1>1. CASE Next
  <2>1. TypeOK' /\ Registered' /\ Announced' /\ EpochsRead'
    BY <1>1, TypeNext, RegisteredNext, AnnouncedNext, EpochsReadNext DEF PinInv
  <2>2. PinnedEpoch' /\ InFlight'
    BY <1>1, PinnedNext, InFlightNext
  <2>3. QED
    BY <2>1, <2>2 DEF PinInv
<1>2. CASE UNCHANGED vars
  BY <1>2 DEF PinInv, TypeOK, Registered, Announced, EpochsRead, PinnedEpoch,
              InFlight, Blocked, Own, vars, shared, stores, owned, locals,
              history
<1>3. QED
  BY <1>1, <1>2

\* An open Guard holds the epoch back, whoever is scanning and however late
\* its announcement becomes visible.
THEOREM EpochIsPinned == Spec => []PinnedEpoch
<1>1. Spec => []PinInv
  BY PinInit, PinNext, PTL DEF Spec
<1>2. PinInv => PinnedEpoch
  BY DEF PinInv
<1>3. QED
  BY <1>1, <1>2, PTL

-----------------------------------------------------------------------------
\* The three bags.

\* What CollectGarbage() leaves in a bag and what it takes out.
LEMMA EnterBags ==
  ASSUME TypeOK, NEW p \in Participant, Enter(p), NEW i \in Bag
  PROVE  /\ announced'[p] = epoch_now[p]
         /\ \/ /\ bags'[p][i] = bags[p][i]
               /\ bag_epochs'[p][i] = bag_epochs[p][i]
               /\ \/ epoch_now[p] = announced[p]
                  \/ bag_epochs[p][i] = kInactive
                  \/ ~ (bag_epochs[p][i] + 2 <= epoch_now[p])
            \/ /\ bags'[p][i] = {}
               /\ bag_epochs'[p][i] = kInactive
<1> DEFINE expired == IF epoch_now[p] # announced[p]
                        THEN Expired(p, epoch_now[p]) ELSE {}
<1>1. /\ bags'[p][i] = IF i \in expired THEN {} ELSE bags[p][i]
      /\ bag_epochs'[p][i] = IF i \in expired THEN kInactive ELSE bag_epochs[p][i]
      /\ announced'[p] = epoch_now[p]
  <2> HIDE DEF expired
  <2>1. /\ bags' = [bags EXCEPT ![p] =
                      [j \in Bag |-> IF j \in expired THEN {} ELSE @[j]]]
        /\ bag_epochs' = [bag_epochs EXCEPT ![p] =
                      [j \in Bag |-> IF j \in expired THEN kInactive ELSE @[j]]]
        /\ announced' = [announced EXCEPT ![p] = epoch_now[p]]
    BY DEF Enter, expired
  <2>2. QED
    BY <2>1 DEF TypeOK
<1>2. i \notin expired => \/ epoch_now[p] = announced[p]
                          \/ bag_epochs[p][i] = kInactive
                          \/ ~ (bag_epochs[p][i] + 2 <= epoch_now[p])
  BY DEF Expired
<1> HIDE DEF expired
<1>3. QED
  BY <1>1, <1>2

\* What Retire() does to a bag, whether or not it throws.
LEMMA RetireBags ==
  ASSUME TypeOK, NEW p \in Participant, Retire(p) \/ RetireThrows(p),
         NEW i \in Bag
  PROVE  IF i = BagEpoch(p) % kBags
           THEN /\ bag_epochs'[p][i] = BagEpoch(p)
                /\ \/ bags'[p][i] = Kept(p)
                   \/ Retire(p) /\ bags'[p][i] = Kept(p) \cup garbage[p]
           ELSE /\ bag_epochs'[p][i] = bag_epochs[p][i]
                /\ bags'[p][i] = bags[p][i]
<1> DEFINE index == BagEpoch(p) % kBags
<1>1. /\ bag_epochs' = [bag_epochs EXCEPT ![p][index] = BagEpoch(p)]
      /\ \/ bags' = [bags EXCEPT ![p][index] = Kept(p)]
         \/ Retire(p) /\ bags' = [bags EXCEPT ![p][index] = Kept(p) \cup garbage[p]]
  BY DEF Retire, RetireThrows
<1> HIDE DEF index
<1>2. QED
  BY <1>1 DEF TypeOK, index

\* Nothing else touches the bags of a thread.
LEMMA BagFrame ==
  ASSUME TypeOK, Next, NEW p \in Participant,
         ~Enter(p), ~Retire(p), ~RetireThrows(p), ~Destroy
  PROVE  /\ bags'[p] = bags[p]
         /\ bag_epochs'[p] = bag_epochs[p]
         /\ announced'[p] = announced[p]
<1> DEFINE Frame == /\ bags'[p] = bags[p]
                    /\ bag_epochs'[p] = bag_epochs[p]
                    /\ announced'[p] = announced[p]
<1> SUFFICES Frame
  OBVIOUS
<1>1. ASSUME NEW q \in Participant,
             \/ Drain(q) \/ Adopt(q) \/ LoadEpoch(q) \/ Leave(q)
             \/ \E n \in Node : Link(q, n) \/ Unlink(q, n)
      PROVE  Frame
  BY <1>1 DEF Drain, Adopt, LoadEpoch, Leave, Link, Unlink, owned
<1>2. ASSUME NEW q \in Participant, Enter(q) PROVE Frame
  <2>1. p # q
    BY <1>2
  <2>2. /\ \E x : bags' = [bags EXCEPT ![q] = x]
        /\ \E x : bag_epochs' = [bag_epochs EXCEPT ![q] = x]
        /\ \E x : announced' = [announced EXCEPT ![q] = x]
    BY <1>2 DEF Enter
  <2>3. QED
    BY <2>1, <2>2 DEF TypeOK
<1>3. ASSUME NEW q \in Participant, Retire(q) \/ RetireThrows(q) PROVE Frame
  <2>1. p # q
    BY <1>3
  <2>2. /\ \E i, x : bags' = [bags EXCEPT ![q][i] = x]
        /\ \E i, x : bag_epochs' = [bag_epochs EXCEPT ![q][i] = x]
        /\ announced' = announced
    BY <1>3 DEF Retire, RetireThrows
  <2>3. QED
    BY <2>1, <2>2 DEF TypeOK
<1>4. ASSUME NEW q \in Participant, TryAdvance(q) PROVE Frame
  BY <1>4, TryAdvanceFrame DEF owned
<1>5. CASE UNCHANGED vars
  BY <1>5 DEF vars, owned
<1> HIDE DEF Frame
<1>6. QED
  BY <1>1, <1>2, <1>3, <1>4, <1>5, StepCases

\* The bag of the coming label carries that label or is empty.
LEMMA RelabelsNothing ==
  ASSUME TypeOK, BagWindow, NEW p \in Participant
  PROVE  Relabel(p) = {}
<1> DEFINE e == BagEpoch(p)
           index == e % kBags
<1>1. announced[p] \in Nat /\ e = announced[p] + 1
  BY DEF TypeOK, BagEpoch
<1>2. index \in Bag
  BY <1>1, LabelIndex
<1>3. CASE bag_epochs[p][index] = kInactive
  BY <1>2, <1>3 DEF BagWindow, Relabel
<1>4. CASE bag_epochs[p][index] # kInactive
  <2> DEFINE label == bag_epochs[p][index]
  <2>1. label \in Nat
    BY <1>2, <1>4 DEF TypeOK
  <2>2. label % kBags = index /\ announced[p] - 1 <= label /\ label <= announced[p] + 1
    BY <1>2, <1>4 DEF BagWindow
  <2> HIDE DEF label
  <2>3. label = e
    BY <1>1, <2>1, <2>2
  <2>4. QED
    BY <2>3 DEF label, Relabel
<1>5. QED
  BY <1>3, <1>4

LEMMA BagWindowNext ==
  ASSUME PinInv, BagWindow, Next
  PROVE  BagWindow'
<1> USE DEF PinInv
<1> DEFINE Window(p, i) ==
             IF bag_epochs[p][i] = kInactive
               THEN bags[p][i] = {}
               ELSE /\ bag_epochs[p][i] % kBags = i
                    /\ announced[p] - 1 <= bag_epochs[p][i]
                    /\ bag_epochs[p][i] <= announced[p] + 1
<1> SUFFICES ASSUME NEW p \in Participant, NEW i \in Bag PROVE Window(p, i)'
  BY DEF BagWindow
<1>1. Window(p, i)
  BY DEF BagWindow
<1>2. /\ announced[p] \in Nat /\ bag_epochs[p][i] \in Nat \cup {kInactive}
      /\ epoch_now[p] \in Nat
  BY DEF TypeOK
<1>3. CASE Enter(p)
  <2>1. announced[p] <= epoch_now[p]
    BY <1>3 DEF Enter, EpochsRead
  <2>2. CASE bags'[p][i] = {} /\ bag_epochs'[p][i] = kInactive
    BY <2>2
  <2>3. CASE bag_epochs[p][i] = kInactive
    BY <1>1, <1>3, <2>3, EnterBags
  <2>4. CASE /\ bag_epochs[p][i] # kInactive
             /\ ~ (bags'[p][i] = {} /\ bag_epochs'[p][i] = kInactive)
    <3>1. /\ bag_epochs'[p][i] = bag_epochs[p][i]
          /\ announced'[p] = epoch_now[p]
          /\ \/ epoch_now[p] = announced[p]
             \/ ~ (bag_epochs[p][i] + 2 <= epoch_now[p])
      BY <1>3, <2>4, EnterBags
    <3>2. bag_epochs[p][i] \in Nat
      BY <1>2, <2>4
    <3>3. QED
      BY <1>1, <1>2, <2>1, <2>4, <3>1, <3>2
  <2>5. QED
    BY <2>2, <2>3, <2>4
<1>4. CASE Retire(p) \/ RetireThrows(p)
  <2>1. announced'[p] = announced[p]
    BY <1>4 DEF Retire, RetireThrows
  <2>2. CASE i = BagEpoch(p) % kBags
    <3>1. bag_epochs'[p][i] = announced[p] + 1 /\ i = (announced[p] + 1) % kBags
      BY <1>4, <2>2, RetireBags DEF BagEpoch
    <3>2. announced[p] + 1 # kInactive
      BY <1>2, InactiveAssumption
    <3>3. QED
      BY <1>2, <2>1, <3>1, <3>2
  <2>3. CASE i # BagEpoch(p) % kBags
    BY <1>1, <1>4, <2>1, <2>3, RetireBags
  <2>4. QED
    BY <2>2, <2>3
<1>5. CASE Destroy
  BY <1>1, <1>5 DEF Destroy
<1>6. CASE ~Enter(p) /\ ~Retire(p) /\ ~RetireThrows(p) /\ ~Destroy
  BY <1>1, <1>6, BagFrame
<1>7. QED
  BY <1>3, <1>4, <1>5, <1>6

LEMMA BagInit == Init => BagInv
<1> SUFFICES ASSUME Init PROVE BagInv
  OBVIOUS
<1>1. BagWindow
  BY DEF Init, BagWindow
<1>2. QED
  BY <1>1, PinInit DEF BagInv

LEMMA BagNext == BagInv /\ [Next]_vars => BagInv'
<1> SUFFICES ASSUME BagInv, [Next]_vars PROVE BagInv'
  OBVIOUS
<1>1. CASE Next
  BY <1>1, PinNext, BagWindowNext DEF BagInv
<1>2. CASE UNCHANGED vars
  <2>1. BagWindow'
    BY <1>2 DEF BagInv, BagWindow, vars, owned
  <2>2. QED
    BY <2>1, PinNext DEF BagInv
<1>3. QED
  BY <1>1, <1>2

\* Three bags are enough: Retire() never finds an older epoch's nodes in the
\* bag whose index it reuses, so it frees nothing itself.
THEOREM ThreeBagsAreEnough == Spec => []NothingLeftToRelabel
<1>1. Spec => []BagInv
  BY BagInit, BagNext, PTL DEF Spec
<1>2. BagInv => NothingLeftToRelabel
  BY RelabelsNothing DEF BagInv, PinInv, NothingLeftToRelabel
<1>3. QED
  BY <1>1, <1>2, PTL

-----------------------------------------------------------------------------
\* Where what a thread holds and what a bag holds can come from.

LEMMA StaysInGuard ==
  ASSUME TypeOK, Next, NEW p \in Participant, pc[p] \in InGuard, ~Leave(p)
  PROVE  pc'[p] \in InGuard
<1> USE DEF TypeOK, Goto
<1>1. ASSUME NEW q \in Participant, Drain(q) \/ Adopt(q) \/ LoadEpoch(q)
      PROVE  pc'[p] \in InGuard
  BY <1>1 DEF Drain, Adopt, LoadEpoch, InGuard, Advancing
<1>2. ASSUME NEW q \in Participant, Enter(q) PROVE pc'[p] \in InGuard
  <2>1. pc' = [pc EXCEPT ![q] = "guard"]
    BY <1>2 DEF Enter
  <2>2. QED
    BY <2>1 DEF InGuard
<1>3. ASSUME NEW q \in Participant, Leave(q) PROVE pc'[p] \in InGuard
  <2>1. p # q
    BY <1>3
  <2>2. pc' = [pc EXCEPT ![q] = "idle"]
    BY <1>3 DEF Leave
  <2>3. QED
    BY <2>1, <2>2
<1>4. ASSUME NEW q \in Participant, NEW n \in Node, Link(q, n) \/ Unlink(q, n)
      PROVE  pc'[p] \in InGuard
  BY <1>4 DEF Link, Unlink, InGuard
<1>5. ASSUME NEW q \in Participant, Retire(q) \/ RetireThrows(q)
      PROVE  pc'[p] \in InGuard
  <2>1. \E label \in {"load", "guard", "unwind"} : Goto(q, label)
    BY <1>5 DEF Retire, RetireThrows
  <2>2. QED
    BY <2>1 DEF InGuard, Advancing
<1>6. ASSUME NEW q \in Participant, TryAdvance(q) PROVE pc'[p] \in InGuard
  BY <1>6, TryAdvanceFrame DEF InGuard
<1>7. CASE Destroy
  BY <1>7 DEF Destroy, InGuard, Advancing
<1>8. CASE UNCHANGED vars
  BY <1>8 DEF vars
<1>9. QED
  BY <1>1, <1>2, <1>3, <1>4, <1>5, <1>6, <1>7, <1>8, StepCases

\* A node is held because it was before, because the Guard has just been
\* announced while it was linked, or because it has just been linked.
LEMMA HoldOrigin ==
  ASSUME TypeOK, Next, NEW q \in Participant, NEW n \in mayHold'[q]
  PROVE  \/ n \in mayHold[q] /\ pin'[q] = pin[q] /\ ~Leave(q)
         \/ life[n] = "linked" /\ Enter(q)
         \/ life[n] = "fresh" /\ life'[n] = "linked" /\ pc'[q] \in InGuard
<1> DEFINE Origin ==
      \/ n \in mayHold[q] /\ pin'[q] = pin[q] /\ ~Leave(q)
      \/ life[n] = "linked" /\ Enter(q)
      \/ life[n] = "fresh" /\ life'[n] = "linked" /\ pc'[q] \in InGuard
<1> SUFFICES Origin
  OBVIOUS
<1>1. CASE Enter(q)
  <2>1. mayHold'[q] = Linked
    BY <1>1 DEF Enter, TypeOK
  <2>2. QED
    BY <1>1, <2>1 DEF Linked
<1>2. CASE Leave(q)
  BY <1>2 DEF Leave, TypeOK
<1>3. CASE ~Enter(q) /\ ~Leave(q)
  <2>1. pin'[q] = pin[q]
    BY <1>3, GuardFrame
  <2>2. ASSUME NEW p \in Participant, NEW m \in Node, Link(p, m) PROVE Origin
    <3>1. /\ life[m] = "fresh" /\ life'[m] = "linked" /\ pc' = pc
          /\ \/ mayHold'[q] = mayHold[q]
             \/ pc[q] \in InGuard /\ mayHold'[q] = mayHold[q] \cup {m}
      BY <2>2 DEF Link, TypeOK
    <3>2. QED
      BY <1>3, <2>1, <3>1
  <2>3. ASSUME NEW p \in Participant, Enter(p) \/ Leave(p) PROVE Origin
    <3>1. p # q
      BY <1>3, <2>3
    <3>2. \E x : mayHold' = [mayHold EXCEPT ![p] = x]
      BY <2>3 DEF Enter, Leave
    <3>3. mayHold'[q] = mayHold[q]
      BY <3>1, <3>2 DEF TypeOK
    <3>4. QED
      BY <1>3, <2>1, <3>3
  <2>4. ASSUME NEW p \in Participant,
               \/ Drain(p) \/ Adopt(p) \/ LoadEpoch(p)
               \/ \E m \in Node : Unlink(p, m)
               \/ Retire(p) \/ RetireThrows(p) \/ TryAdvance(p)
        PROVE  Origin
    <3>1. mayHold' = mayHold
      BY <2>4, TryAdvanceFrame DEF Drain, Adopt, LoadEpoch, Unlink, Retire,
                                   RetireThrows, history
    <3>2. QED
      BY <1>3, <2>1, <3>1
  <2>5. CASE Destroy \/ UNCHANGED vars
    BY <1>3, <2>1, <2>5 DEF Destroy, vars, history
  <2> HIDE DEF Origin
  <2>6. QED
    BY <2>2, <2>3, <2>4, <2>5, StepCases
<1>4. QED
  BY <1>1, <1>2, <1>3

\* A node is in a bag because it was before, under the same label, or because
\* it has just been retired.
LEMMA BagOrigin ==
  ASSUME TypeOK, Next, NEW p \in Participant, NEW i \in Bag,
         NEW n \in bags'[p][i]
  PROVE  \/ n \in bags[p][i] /\ bag_epochs'[p][i] = bag_epochs[p][i]
         \/ /\ Retire(p) /\ n \in garbage[p]
            /\ bag_epochs'[p][i] = announced[p] + 1
<1>1. CASE Enter(p)
  BY <1>1, EnterBags
<1>2. CASE Retire(p) \/ RetireThrows(p)
  <2>1. CASE i # BagEpoch(p) % kBags
    BY <1>2, <2>1, RetireBags
  <2>2. CASE i = BagEpoch(p) % kBags
    <3>1. /\ bag_epochs'[p][i] = BagEpoch(p)
          /\ n \in Kept(p) \/ (Retire(p) /\ n \in garbage[p])
      BY <1>2, <2>2, RetireBags
    <3>2. n \in Kept(p) => n \in bags[p][i] /\ bag_epochs[p][i] = BagEpoch(p)
      BY <2>2 DEF Kept, Relabel
    <3>3. QED
      BY <3>1, <3>2 DEF BagEpoch
  <2>3. QED
    BY <2>1, <2>2
<1>3. CASE Destroy
  BY <1>3 DEF Destroy
<1>4. CASE ~Enter(p) /\ ~Retire(p) /\ ~RetireThrows(p) /\ ~Destroy
  BY <1>4, BagFrame
<1>5. QED
  BY <1>1, <1>2, <1>3, <1>4

\* What a thread has unlinked it had before or has just unlinked.
LEMMA GarbageOrigin ==
  ASSUME TypeOK, Next, NEW p \in Participant, NEW n \in garbage'[p]
  PROVE  n \in garbage[p] \/ life'[n] = "unlinked"
<1> DEFINE Origin == n \in garbage[p] \/ life'[n] = "unlinked"
<1> SUFFICES Origin
  OBVIOUS
<1>1. ASSUME NEW q \in Participant,
             \/ Drain(q) \/ Adopt(q) \/ LoadEpoch(q) \/ Enter(q) \/ Leave(q)
             \/ \E m \in Node : Link(q, m)
             \/ TryAdvance(q)
      PROVE  Origin
  BY <1>1, TryAdvanceFrame DEF Drain, Adopt, LoadEpoch, Enter, Leave, Link, locals
<1>2. ASSUME NEW q \in Participant, NEW m \in Node, Unlink(q, m) PROVE Origin
  BY <1>2 DEF Unlink, TypeOK
<1>3. ASSUME NEW q \in Participant, Retire(q) \/ RetireThrows(q) PROVE Origin
  <2>1. garbage' = [garbage EXCEPT ![q] = {}]
    BY <1>3 DEF Retire, RetireThrows
  <2>2. QED
    BY <2>1 DEF TypeOK
<1>4. CASE Destroy \/ UNCHANGED vars
  BY <1>4 DEF Destroy, vars, locals
<1> HIDE DEF Origin
<1>5. QED
  BY <1>1, <1>2, <1>3, <1>4, StepCases

\* How the life of a node goes on, and what frees it.
LEMMA LifeMoves ==
  ASSUME TypeOK, Next, NEW n \in Node
  PROVE  \/ life'[n] = life[n]
         \/ life[n] = "fresh" /\ life'[n] = "linked"
         \/ life'[n] = "unlinked"
         \/ /\ life'[n] = "freed"
            /\ \E p \in Participant :
                 \/ /\ Enter(p)
                    /\ \E i \in Expired(p, epoch_now[p]) : n \in bags[p][i]
                 \/ (Retire(p) \/ RetireThrows(p)) /\ n \in Relabel(p)
                 \/ RetireThrows(p) /\ n \in garbage[p]
                 \/ Destroy /\ \E i \in Bag : n \in bags[p][i]
<1> DEFINE Freed ==
      \E p \in Participant :
        \/ /\ Enter(p)
           /\ \E i \in Expired(p, epoch_now[p]) : n \in bags[p][i]
        \/ (Retire(p) \/ RetireThrows(p)) /\ n \in Relabel(p)
        \/ RetireThrows(p) /\ n \in garbage[p]
        \/ Destroy /\ \E i \in Bag : n \in bags[p][i]
    Moves == \/ life'[n] = life[n]
             \/ life[n] = "fresh" /\ life'[n] = "linked"
             \/ life'[n] = "unlinked"
             \/ life'[n] = "freed" /\ Freed
<1> SUFFICES Moves
  OBVIOUS
<1>1. ASSUME NEW q \in Participant,
             \/ Drain(q) \/ Adopt(q) \/ LoadEpoch(q) \/ Leave(q) \/ TryAdvance(q)
      PROVE  Moves
  BY <1>1, TryAdvanceFrame DEF Drain, Adopt, LoadEpoch, Leave
<1>2. ASSUME NEW q \in Participant, Enter(q) PROVE Moves
  <2> DEFINE expired == IF epoch_now[q] # announced[q]
                          THEN Expired(q, epoch_now[q]) ELSE {}
  <2>1. Free(UNION {bags[q][i] : i \in expired})
    BY <1>2 DEF Enter
  <2>2. \/ life'[n] = life[n]
        \/ life'[n] = "freed" /\ \E i \in expired : n \in bags[q][i]
    <3> HIDE DEF expired
    <3>1. QED
      BY <2>1 DEF Free
  <2>3. expired \subseteq Expired(q, epoch_now[q])
    OBVIOUS
  <2> HIDE DEF expired
  <2>4. QED
    BY <1>2, <2>2, <2>3
<1>3. ASSUME NEW q \in Participant, NEW m \in Node, Link(q, m) \/ Unlink(q, m)
      PROVE  Moves
  BY <1>3 DEF Link, Unlink, TypeOK
<1>4. ASSUME NEW q \in Participant, Retire(q) PROVE Moves
  <2>1. Free(Relabel(q))
    BY <1>4 DEF Retire
  <2>2. QED
    BY <1>4, <2>1 DEF Free
<1>5. ASSUME NEW q \in Participant, RetireThrows(q) PROVE Moves
  <2>1. Free(Relabel(q) \cup garbage[q])
    BY <1>5 DEF RetireThrows
  <2>2. QED
    BY <1>5, <2>1 DEF Free
<1>6. CASE Destroy
  <2>1. Free(UNION {bags[p][i] : p \in Participant, i \in Bag})
    BY <1>6 DEF Destroy
  <2>2. \/ life'[n] = life[n]
        \/ /\ life'[n] = "freed"
           /\ \E p \in Participant : \E i \in Bag : n \in bags[p][i]
    BY <2>1 DEF Free
  <2>3. QED
    BY <1>6, <2>2
<1>7. CASE UNCHANGED vars
  BY <1>7 DEF vars
<1> HIDE DEF Moves
<1>8. QED
  BY <1>1, <1>2, <1>3, <1>4, <1>5, <1>6, <1>7, StepCases

-----------------------------------------------------------------------------
\* No node is freed while a Guard may hold it.

LEMMA BagsUnlinkedNext ==
  ASSUME TypeOK, BagsUnlinked, Next
  PROVE  BagsUnlinked'
<1>1. ASSUME NEW n \in Node, OutOfReach(n) PROVE OutOfReach(n)'
  BY <1>1, LifeMoves DEF OutOfReach
<1>2. ASSUME NEW p \in Participant, NEW i \in Bag, NEW n \in bags'[p][i]
      PROVE  OutOfReach(n)'
  <2>1. n \in bags[p][i] \/ n \in garbage[p]
    BY <1>2, BagOrigin
  <2>2. n \in Node /\ OutOfReach(n)
    BY <2>1 DEF TypeOK, BagsUnlinked
  <2>3. QED
    BY <1>1, <2>2
<1>3. ASSUME NEW p \in Participant, NEW n \in garbage'[p] PROVE OutOfReach(n)'
  <2>1. CASE life'[n] = "unlinked"
    BY <2>1 DEF OutOfReach
  <2>2. CASE n \in garbage[p]
    <3>1. n \in Node /\ OutOfReach(n)
      BY <2>2 DEF TypeOK, BagsUnlinked
    <3>2. QED
      BY <1>1, <3>1
  <2>3. QED
    BY <1>3, <2>1, <2>2, GarbageOrigin
<1>4. QED
  BY <1>2, <1>3 DEF BagsUnlinked

LEMMA HoldersInGuardNext ==
  ASSUME TypeOK, HoldersInGuard, Next
  PROVE  HoldersInGuard'
<1> SUFFICES ASSUME NEW q \in Participant, NEW n \in mayHold'[q]
             PROVE  pc'[q] \in InGuard
  BY DEF HoldersInGuard
<1>1. CASE n \in mayHold[q] /\ ~Leave(q)
  BY <1>1, StaysInGuard DEF HoldersInGuard
<1>2. CASE Enter(q)
  BY <1>2 DEF Enter, Goto, TypeOK, InGuard
<1>3. QED
  BY <1>1, <1>2, HoldOrigin

\* Suspects stay suspect.
LEMMA SuspectMoves ==
  ASSUME TypeOK, Next
  PROVE  suspect \subseteq suspect'
<1>1. ASSUME NEW p \in Participant,
             \/ Drain(p) \/ Adopt(p) \/ LoadEpoch(p) \/ Enter(p) \/ Leave(p)
             \/ \E m \in Node : Link(p, m) \/ Unlink(p, m)
             \/ TryAdvance(p)
      PROVE  suspect' = suspect
  BY <1>1, TryAdvanceFrame DEF Drain, Adopt, LoadEpoch, Enter, Leave, Link,
                               Unlink, history
<1>2. ASSUME NEW p \in Participant, Retire(p) \/ RetireThrows(p)
      PROVE  suspect \subseteq suspect'
  BY <1>2 DEF Retire, RetireThrows
<1>3. CASE Destroy \/ UNCHANGED vars
  BY <1>3 DEF Destroy, vars, history
<1>4. QED
  BY <1>1, <1>2, <1>3, StepCases

LEMMA LabelledNext ==
  ASSUME BagInv, BagsUnlinked, HoldersInGuard, Labelled, Next
  PROVE  Labelled'
<1> USE DEF BagInv, PinInv
<1> SUFFICES ASSUME NEW p \in Participant, NEW q \in Participant, NEW i \in Bag,
                    NEW n \in bags'[p][i], n \in mayHold'[q], n \notin suspect'
             PROVE  pin'[q] <= bag_epochs'[p][i]
  BY DEF Labelled
<1>1. n \in bags[p][i] \/ n \in garbage[p]
  BY BagOrigin
<1>2. n \in Node /\ life[n] \in {"unlinked", "freed"}
  BY <1>1 DEF TypeOK, BagsUnlinked, OutOfReach
<1>3. n \in mayHold[q] /\ pin'[q] = pin[q] /\ n \notin suspect
  BY <1>2, HoldOrigin, SuspectMoves
<1>4. CASE n \in bags[p][i] /\ bag_epochs'[p][i] = bag_epochs[p][i]
  BY <1>3, <1>4 DEF Labelled
<1>5. CASE /\ Retire(p) /\ n \in garbage[p]
           /\ bag_epochs'[p][i] = announced[p] + 1
  <2>1. pin[p] = announced[p]
    BY <1>5 DEF Retire
  <2>2. pc[p] \in InGuard /\ pc[q] \in InGuard
    BY <1>3, <1>5 DEF Retire, InGuard, HoldersInGuard
  <2>3. pin[q] <= epoch_ /\ epoch_ <= pin[p] + 1
    BY <2>2 DEF PinnedEpoch
  <2>4. epoch_ \in Nat /\ pin[q] \in Nat /\ pin[p] \in Nat
    BY DEF TypeOK
  <2>5. QED
    BY <1>3, <1>5, <2>1, <2>3, <2>4
<1>6. QED
  BY <1>4, <1>5, BagOrigin

LEMMA SafeReclaimNext ==
  ASSUME ReclaimInv, Next
  PROVE  SafeReclaim'
<1> USE DEF ReclaimInv, BagInv, PinInv
<1> SUFFICES ASSUME NEW q \in Participant, NEW n \in mayHold'[q],
                    life'[n] = "freed", n \notin suspect'
             PROVE  FALSE
  BY DEF SafeReclaim
<1>1. n \in Node
  BY TypeNext DEF TypeOK
<1>2. n \notin suspect
  BY SuspectMoves
<1>3. life[n] # "freed"
  <2>1. ASSUME life[n] = "freed" PROVE FALSE
    <3>1. n \in mayHold[q]
      BY <2>1, HoldOrigin
    <3>2. QED
      BY <1>2, <2>1, <3>1 DEF SafeReclaim
  <2>2. QED
    BY <2>1
<1>4. PICK p \in Participant :
        \/ Enter(p) /\ \E i \in Expired(p, epoch_now[p]) : n \in bags[p][i]
        \/ (Retire(p) \/ RetireThrows(p)) /\ n \in Relabel(p)
        \/ RetireThrows(p) /\ n \in garbage[p]
        \/ Destroy /\ \E i \in Bag : n \in bags[p][i]
  BY <1>1, <1>3, LifeMoves
<1>5. ~(RetireThrows(p) /\ n \in garbage[p])
  BY DEF RetireThrows
<1>6. n \notin Relabel(p)
  BY RelabelsNothing
<1>7. PICK i \in Bag : n \in bags[p][i]
  BY <1>4, <1>5, <1>6 DEF Expired
<1>8. n \in mayHold[q] /\ pc[q] \in InGuard
  <2>1. OutOfReach(n)
    BY <1>7 DEF BagsUnlinked
  <2>2. n \in mayHold[q]
    BY <2>1, HoldOrigin DEF OutOfReach
  <2>3. QED
    BY <2>2 DEF HoldersInGuard
<1>9. ~Destroy
  BY <1>8 DEF Destroy, InGuard, Advancing
<1>10. PICK j \in Expired(p, epoch_now[p]) : n \in bags[p][j]
  BY <1>4, <1>5, <1>6, <1>9
<1>11. /\ j \in Bag /\ bag_epochs[p][j] \in Nat
       /\ bag_epochs[p][j] + 2 <= epoch_now[p]
  BY <1>10 DEF Expired, TypeOK
<1>12. pin[q] <= bag_epochs[p][j]
  BY <1>2, <1>8, <1>10, <1>11 DEF Labelled
<1>13. epoch_now[p] <= epoch_ /\ epoch_ <= pin[q] + 1
  BY <1>8 DEF EpochsRead, PinnedEpoch
<1>14. epoch_ \in Nat /\ epoch_now[p] \in Nat /\ pin[q] \in Nat
  BY DEF TypeOK
<1>15. QED
  BY <1>11, <1>12, <1>13, <1>14

LEMMA ReclaimInit == Init => ReclaimInv
<1> SUFFICES ASSUME Init PROVE ReclaimInv
  OBVIOUS
<1>1. BagsUnlinked /\ HoldersInGuard /\ Labelled /\ SafeReclaim
  BY DEF Init, BagsUnlinked, HoldersInGuard, Labelled, SafeReclaim
<1>2. QED
  BY <1>1, BagInit DEF ReclaimInv

LEMMA ReclaimNext == ReclaimInv /\ [Next]_vars => ReclaimInv'
<1> SUFFICES ASSUME ReclaimInv, [Next]_vars PROVE ReclaimInv'
  OBVIOUS
<1>1. BagInv'
  BY BagNext DEF ReclaimInv
<1>2. CASE Next
  <2>1. BagsUnlinked' /\ HoldersInGuard' /\ Labelled' /\ SafeReclaim'
    BY <1>2, BagsUnlinkedNext, HoldersInGuardNext, LabelledNext, SafeReclaimNext
       DEF ReclaimInv, BagInv, PinInv
  <2>2. QED
    BY <1>1, <2>1 DEF ReclaimInv
<1>3. CASE UNCHANGED vars
  <2>1. BagsUnlinked' /\ HoldersInGuard' /\ Labelled' /\ SafeReclaim'
    BY <1>3 DEF ReclaimInv, BagsUnlinked, OutOfReach, HoldersInGuard, Labelled,
                SafeReclaim, vars, owned, locals, history
  <2>2. QED
    BY <1>1, <2>1 DEF ReclaimInv
<1>4. QED
  BY <1>2, <1>3

\* A node that push_back() found room for, in a Guard whose announcement was
\* the current epoch, is freed only after every Guard that saw it linked has
\* been left.
THEOREM NodesAreReclaimedSafely == Spec => []SafeReclaim
<1>1. Spec => []ReclaimInv
  BY ReclaimInit, ReclaimNext, PTL DEF Spec
<1>2. ReclaimInv => SafeReclaim
  BY DEF ReclaimInv
<1>3. QED
  BY <1>1, <1>2, PTL

-----------------------------------------------------------------------------
\* Every unlinked node has exactly one owner.

\* Only a thread about to retire it owns a node outside the bags.
GarbagePending ==
  \A p \in Participant : garbage[p] # {} => pc[p] = "retire"

OwnerInv == BagInv /\ GarbagePending /\ OwnedOnce

Holds(n, p, i) == IF i = kBags THEN n \in garbage[p] ELSE n \in bags[p][i]

LEMMA HoldersAre ==
  ASSUME NEW n, NEW h
  PROVE  h \in Holders(n) <=>
           \E p \in Participant : \E i \in 0 .. kBags :
             h = <<p, i>> /\ Holds(n, p, i)
<1>1. h \in Holders(n) =>
        \E p \in Participant : \E i \in 0 .. kBags : h = <<p, i>> /\ Holds(n, p, i)
  <2>1. CASE h \in {x \in Participant \X Bag : n \in bags[x[1]][x[2]]}
    <3>1. PICK p \in Participant, i \in Bag : h = <<p, i>> /\ n \in bags[p][i]
      BY <2>1
    <3>2. i \in 0 .. kBags /\ i # kBags
      OBVIOUS
    <3>3. QED
      BY <3>1, <3>2 DEF Holds
  <2>2. CASE h \in {<<p, kBags>> : p \in {q \in Participant : n \in garbage[q]}}
    <3>1. PICK p \in Participant : h = <<p, kBags>> /\ n \in garbage[p]
      BY <2>2
    <3>2. QED
      BY <3>1 DEF Holds
  <2>3. QED
    BY <2>1, <2>2 DEF Holders
<1>2. ASSUME NEW p \in Participant, NEW i \in 0 .. kBags,
             h = <<p, i>>, Holds(n, p, i)
      PROVE  h \in Holders(n)
  <2>1. CASE i = kBags
    BY <1>2, <2>1 DEF Holds, Holders
  <2>2. CASE i # kBags
    <3>1. i \in Bag /\ n \in bags[p][i]
      BY <1>2, <2>2 DEF Holds
    <3>2. h \in Participant \X Bag /\ h[1] = p /\ h[2] = i
      BY <1>2, <3>1
    <3>3. QED
      BY <3>1, <3>2 DEF Holders
  <2>3. QED
    BY <2>1, <2>2
<1>3. QED
  BY <1>1, <1>2

\* How a step may move one node between owners.
OwnerStep(n) ==
  \/ /\ Holders(n)' = Holders(n)
     /\ life'[n] = "unlinked" <=> life[n] = "unlinked"
  \/ Holders(n)' = {} /\ life'[n] # "unlinked"
  \/ (\E h : Holders(n)' = {h}) /\ life'[n] = "unlinked"

LEMMA OwnerStepKeeps ==
  ASSUME OwnedOnce, \A n \in Node : OwnerStep(n)
  PROVE  OwnedOnce'
  BY DEF OwnedOnce, OwnerStep

\* A node has no other owner than one that is known.
LEMMA SoleOwner ==
  ASSUME OwnedOnce, NEW n \in Node, NEW p \in Participant, NEW i \in 0 .. kBags,
         Holds(n, p, i)
  PROVE  /\ life[n] = "unlinked"
         /\ \A q \in Participant : \A j \in 0 .. kBags :
              Holds(n, q, j) => q = p /\ j = i
<1>1. <<p, i>> \in Holders(n)
  BY HoldersAre
<1>2. life[n] = "unlinked" /\ \E h \in Holders(n) : Holders(n) = {h}
  BY <1>1 DEF OwnedOnce
<1>3. ASSUME NEW q \in Participant, NEW j \in 0 .. kBags, Holds(n, q, j)
      PROVE  q = p /\ j = i
  <2>1. <<q, j>> \in Holders(n)
    BY <1>3, HoldersAre
  <2>2. <<q, j>> = <<p, i>>
    BY <1>1, <1>2, <2>1
  <2>3. QED
    BY <2>2
<1>4. QED
  BY <1>2, <1>3

\* The three ways to tell the owners after a step, place by place.
LEMMA SameHolders ==
  ASSUME NEW n, \A p \in Participant : \A i \in 0 .. kBags :
                  Holds(n, p, i)' <=> Holds(n, p, i)
  PROVE  Holders(n)' = Holders(n)
<1>1. ASSUME NEW p \in Participant, NEW i \in Bag
      PROVE  n \in bags'[p][i] <=> n \in bags[p][i]
  <2>1. i \in 0 .. kBags /\ i # kBags
    OBVIOUS
  <2>2. QED
    BY <2>1 DEF Holds
<1>2. ASSUME NEW p \in Participant PROVE n \in garbage'[p] <=> n \in garbage[p]
  BY DEF Holds
<1>3. {h \in Participant \X Bag : n \in bags'[h[1]][h[2]]}
        = {h \in Participant \X Bag : n \in bags[h[1]][h[2]]}
  BY <1>1
<1>4. {q \in Participant : n \in garbage'[q]} = {q \in Participant : n \in garbage[q]}
  BY <1>2
<1>5. QED
  BY <1>3, <1>4 DEF Holders

LEMMA NoHolder ==
  ASSUME NEW n, \A p \in Participant : \A i \in 0 .. kBags : ~ Holds(n, p, i)'
  PROVE  Holders(n)' = {}
<1>1. ASSUME NEW p \in Participant, NEW i \in Bag PROVE n \notin bags'[p][i]
  <2>1. i \in 0 .. kBags /\ i # kBags
    OBVIOUS
  <2>2. QED
    BY <2>1 DEF Holds
<1>2. ASSUME NEW p \in Participant PROVE n \notin garbage'[p]
  BY DEF Holds
<1>3. {h \in Participant \X Bag : n \in bags'[h[1]][h[2]]} = {}
  BY <1>1
<1>4. {q \in Participant : n \in garbage'[q]} = {}
  BY <1>2
<1>5. QED
  BY <1>3, <1>4 DEF Holders

LEMMA OneHolder ==
  ASSUME NEW n, NEW q \in Participant, NEW j \in 0 .. kBags,
         \A p \in Participant : \A i \in 0 .. kBags :
           Holds(n, p, i)' <=> p = q /\ i = j
  PROVE  Holders(n)' = {<<q, j>>}
<1>1. ASSUME NEW p \in Participant, NEW i \in Bag
      PROVE  n \in bags'[p][i] <=> p = q /\ i = j
  <2>1. i \in 0 .. kBags /\ i # kBags
    OBVIOUS
  <2>2. QED
    BY <2>1 DEF Holds
<1>2. ASSUME NEW p \in Participant
      PROVE  n \in garbage'[p] <=> p = q /\ kBags = j
  BY DEF Holds
<1>3. CASE j = kBags
  <2>1. {h \in Participant \X Bag : n \in bags'[h[1]][h[2]]} = {}
    BY <1>1, <1>3
  <2>2. {p \in Participant : n \in garbage'[p]} = {q}
    BY <1>2, <1>3
  <2>3. QED
    BY <1>3, <2>1, <2>2 DEF Holders
<1>4. CASE j # kBags
  <2>1. j \in Bag
    BY <1>4
  <2>2. {h \in Participant \X Bag : n \in bags'[h[1]][h[2]]} = {<<q, j>>}
    BY <1>1, <2>1
  <2>3. {p \in Participant : n \in garbage'[p]} = {}
    BY <1>2, <1>4
  <2>4. QED
    BY <2>2, <2>3 DEF Holders
<1>5. QED
  BY <1>3, <1>4

\* Steps that change neither bags nor garbage nor whether n is unlinked.
LEMMA OwnerFrame ==
  ASSUME NEW n \in Node, UNCHANGED <<bags, garbage>>,
         life'[n] = "unlinked" <=> life[n] = "unlinked"
  PROVE  OwnerStep(n)
<1>1. Holders(n)' = Holders(n)
  BY DEF Holders
<1>2. QED
  BY <1>1 DEF OwnerStep

LEMMA EnterOwner ==
  ASSUME TypeOK, OwnedOnce, NEW p \in Participant, Enter(p), NEW n \in Node
  PROVE  OwnerStep(n)
<1> DEFINE expired == IF epoch_now[p] # announced[p]
                        THEN Expired(p, epoch_now[p]) ELSE {}
<1>1. /\ Free(UNION {bags[p][i] : i \in expired})
      /\ bags' = [bags EXCEPT ![p] =
                    [i \in Bag |-> IF i \in expired THEN {} ELSE @[i]]]
      /\ garbage' = garbage
  BY DEF Enter
<1>2. expired \subseteq Bag
  BY DEF Expired
<1> HIDE DEF expired
<1>3. ASSUME NEW q \in Participant, NEW i \in 0 .. kBags
      PROVE  Holds(n, q, i)' <=> Holds(n, q, i) /\ ~ (q = p /\ i \in expired)
  BY <1>1, <1>2 DEF Holds, TypeOK
<1>4. CASE \E i \in expired : n \in bags[p][i]
  <2>1. PICK i \in expired : n \in bags[p][i]
    BY <1>4
  <2>2. i \in 0 .. kBags /\ Holds(n, p, i)
    BY <1>2, <2>1 DEF Holds
  <2>3. life'[n] = "freed"
    BY <1>1, <2>1 DEF Free
  <2>4. \A q \in Participant : \A j \in 0 .. kBags : ~ Holds(n, q, j)'
    BY <1>3, <2>1, <2>2, SoleOwner
  <2>5. QED
    BY <2>3, <2>4, NoHolder DEF OwnerStep
<1>5. CASE ~ \E i \in expired : n \in bags[p][i]
  <2>1. life'[n] = life[n]
    BY <1>1, <1>5 DEF Free
  <2>2. ASSUME NEW q \in Participant, NEW i \in 0 .. kBags
        PROVE  Holds(n, q, i)' <=> Holds(n, q, i)
    BY <1>2, <1>3, <1>5 DEF Holds
  <2>3. QED
    BY <2>1, <2>2, SameHolders DEF OwnerStep
<1>6. QED
  BY <1>4, <1>5

LEMMA UnlinkOwner ==
  ASSUME TypeOK, OwnedOnce, GarbagePending, NEW p \in Participant,
         NEW m \in Node, Unlink(p, m), NEW n \in Node
  PROVE  OwnerStep(n)
<1>1. /\ life[m] = "linked" /\ life' = [life EXCEPT ![m] = "unlinked"]
      /\ garbage' = [garbage EXCEPT ![p] = {m}]
      /\ garbage[p] = {} /\ bags' = bags
  BY DEF Unlink, GarbagePending, owned
<1>2. ASSUME NEW q \in Participant, NEW i \in 0 .. kBags
      PROVE  Holds(n, q, i)' <=> Holds(n, q, i) \/ (n = m /\ q = p /\ i = kBags)
  BY <1>1 DEF Holds, TypeOK
<1>3. CASE n = m
  <2>1. ASSUME NEW q \in Participant, NEW i \in 0 .. kBags PROVE ~ Holds(n, q, i)
    BY <1>1, <1>3, SoleOwner
  <2>2. kBags \in 0 .. kBags
    OBVIOUS
  <2>3. \A q \in Participant : \A i \in 0 .. kBags :
          Holds(n, q, i)' <=> q = p /\ i = kBags
    BY <1>2, <1>3, <2>1
  <2>4. Holders(n)' = {<<p, kBags>>}
    BY <2>2, <2>3, OneHolder
  <2>5. life'[n] = "unlinked"
    BY <1>1, <1>3 DEF TypeOK
  <2>6. QED
    BY <2>4, <2>5 DEF OwnerStep
<1>4. CASE n # m
  <2>1. life'[n] = life[n]
    BY <1>1, <1>4 DEF TypeOK
  <2>2. \A q \in Participant : \A i \in 0 .. kBags :
          Holds(n, q, i)' <=> Holds(n, q, i)
    BY <1>2, <1>4
  <2>3. QED
    BY <2>1, <2>2, SameHolders DEF OwnerStep
<1>5. QED
  BY <1>3, <1>4

LEMMA RetireOwner ==
  ASSUME BagInv, OwnedOnce, NEW p \in Participant, Retire(p) \/ RetireThrows(p),
         NEW n \in Node
  PROVE  OwnerStep(n)
<1> DEFINE index == BagEpoch(p) % kBags
<1>1. TypeOK /\ BagWindow
  BY DEF BagInv, PinInv
<1>2. index \in Bag
  BY <1>1, LabelIndex DEF TypeOK, BagEpoch
<1>3. Relabel(p) = {} /\ Kept(p) = bags[p][index]
  BY <1>1, RelabelsNothing DEF Kept
<1> HIDE DEF index
<1>4. garbage' = [garbage EXCEPT ![p] = {}]
  BY DEF Retire, RetireThrows
<1>5. kBags \in 0 .. kBags /\ index \in 0 .. kBags /\ index # kBags
  BY <1>2
<1>6. CASE Retire(p)
  <2>1. /\ life' = [m \in Node |-> life[m]]
        /\ bags' = [bags EXCEPT ![p][index] = bags[p][index] \cup garbage[p]]
    BY <1>3, <1>6 DEF Retire, Free, index
  <2>2. ASSUME NEW q \in Participant, NEW i \in 0 .. kBags
        PROVE  Holds(n, q, i)' <=>
                 \/ Holds(n, q, i) /\ ~ (q = p /\ i = kBags)
                 \/ q = p /\ i = index /\ n \in garbage[p]
    BY <1>1, <1>2, <1>4, <2>1 DEF Holds, TypeOK
  <2>3. CASE n \in garbage[p]
    <3>1. Holds(n, p, kBags)
      BY <2>3 DEF Holds
    <3>2. /\ life[n] = "unlinked"
          /\ \A q \in Participant : \A i \in 0 .. kBags :
               Holds(n, q, i) => q = p /\ i = kBags
      BY <1>5, <3>1, SoleOwner
    <3>3. \A q \in Participant : \A i \in 0 .. kBags :
            Holds(n, q, i)' <=> q = p /\ i = index
      BY <2>2, <2>3, <3>2
    <3>4. Holders(n)' = {<<p, index>>}
      BY <1>5, <3>3, OneHolder
    <3>5. QED
      BY <2>1, <3>2, <3>4 DEF OwnerStep
  <2>4. CASE n \notin garbage[p]
    <3>1. \A q \in Participant : \A i \in 0 .. kBags :
            Holds(n, q, i)' <=> Holds(n, q, i)
      BY <2>2, <2>4 DEF Holds
    <3>2. QED
      BY <2>1, <3>1, SameHolders DEF OwnerStep
  <2>5. QED
    BY <2>3, <2>4
<1>7. CASE RetireThrows(p)
  <2>1. Free(garbage[p]) /\ bags' = [bags EXCEPT ![p][index] = bags[p][index]]
    BY <1>3, <1>7 DEF RetireThrows, index
  <2>2. ASSUME NEW q \in Participant, NEW i \in 0 .. kBags
        PROVE  Holds(n, q, i)' <=> Holds(n, q, i) /\ ~ (q = p /\ i = kBags)
    BY <1>1, <1>2, <1>4, <2>1 DEF Holds, TypeOK
  <2>3. CASE n \in garbage[p]
    <3>1. Holds(n, p, kBags)
      BY <2>3 DEF Holds
    <3>2. \A q \in Participant : \A i \in 0 .. kBags : ~ Holds(n, q, i)'
      BY <1>5, <2>2, <3>1, SoleOwner
    <3>3. life'[n] = "freed"
      BY <2>1, <2>3 DEF Free
    <3>4. QED
      BY <3>2, <3>3, NoHolder DEF OwnerStep
  <2>4. CASE n \notin garbage[p]
    <3>1. \A q \in Participant : \A i \in 0 .. kBags :
            Holds(n, q, i)' <=> Holds(n, q, i)
      BY <2>2, <2>4 DEF Holds
    <3>2. life'[n] = life[n]
      BY <2>1, <2>4 DEF Free
    <3>3. QED
      BY <3>1, <3>2, SameHolders DEF OwnerStep
  <2>5. QED
    BY <2>3, <2>4
<1>8. QED
  BY <1>6, <1>7

LEMMA DestroyOwner ==
  ASSUME TypeOK, OwnedOnce, GarbagePending, Destroy, NEW n \in Node
  PROVE  OwnerStep(n)
<1>1. ASSUME NEW q \in Participant, NEW i \in 0 .. kBags PROVE ~ Holds(n, q, i)'
  BY <1>1 DEF Destroy, Holds, GarbagePending, locals
<1>2. /\ Free(UNION {bags[p][i] : p \in Participant, i \in Bag})
      /\ \A p \in Participant : pc[p] = "idle"
  BY DEF Destroy
<1>3. CASE \E p \in Participant : \E i \in Bag : n \in bags[p][i]
  <2>1. life'[n] = "freed"
    BY <1>2, <1>3 DEF Free
  <2>2. QED
    BY <1>1, <2>1, NoHolder DEF OwnerStep
<1>4. CASE ~ \E p \in Participant : \E i \in Bag : n \in bags[p][i]
  <2>1. life'[n] = life[n]
    BY <1>2, <1>4 DEF Free
  <2>2. ASSUME NEW q \in Participant, NEW i \in 0 .. kBags
        PROVE  Holds(n, q, i)' <=> Holds(n, q, i)
    <3>1. garbage[q] = {}
      BY <1>2 DEF GarbagePending
    <3>2. ~ Holds(n, q, i)
      BY <1>4, <3>1 DEF Holds
    <3>3. QED
      BY <1>1, <3>2
  <2>3. QED
    BY <2>1, <2>2, SameHolders DEF OwnerStep
<1>5. QED
  BY <1>3, <1>4

LEMMA OwnedOnceNext ==
  ASSUME OwnerInv, Next
  PROVE  OwnedOnce'
<1> USE DEF OwnerInv
<1>1. TypeOK
  BY DEF BagInv, PinInv
<1>2. ASSUME NEW n \in Node PROVE OwnerStep(n)
  <2>1. ASSUME NEW p \in Participant,
               \/ Drain(p) \/ Adopt(p) \/ LoadEpoch(p) \/ Leave(p)
               \/ TryAdvance(p)
        PROVE  OwnerStep(n)
    <3>1. UNCHANGED <<bags, garbage, life>>
      BY <2>1, TryAdvanceFrame DEF Drain, Adopt, LoadEpoch, Leave, owned, locals
    <3>2. QED
      BY <3>1, OwnerFrame
  <2>2. ASSUME NEW p \in Participant, NEW m \in Node, Link(p, m)
        PROVE  OwnerStep(n)
    <3>1. /\ UNCHANGED <<bags, garbage>>
          /\ life[m] = "fresh" /\ life' = [life EXCEPT ![m] = "linked"]
      BY <2>2 DEF Link, owned, locals
    <3>2. life'[n] = "unlinked" <=> life[n] = "unlinked"
      BY <1>1, <3>1 DEF TypeOK
    <3>3. QED
      BY <3>1, <3>2, OwnerFrame
  <2>3. CASE Destroy
    BY <1>1, <2>3, DestroyOwner
  <2>4. CASE UNCHANGED vars
    BY <2>4, OwnerFrame DEF vars, owned, locals
  <2>5. QED
    BY <1>1, <2>1, <2>2, <2>3, <2>4, EnterOwner, UnlinkOwner, RetireOwner,
       StepCases
<1>3. QED
  BY <1>2, OwnerStepKeeps

LEMMA GarbagePendingNext ==
  ASSUME TypeOK, GarbagePending, Next
  PROVE  GarbagePending'
<1> USE DEF TypeOK, Goto
<1> SUFFICES ASSUME NEW p \in Participant, garbage'[p] # {}
             PROVE  pc'[p] = "retire"
  BY DEF GarbagePending
<1>1. ASSUME NEW q \in Participant,
             Drain(q) \/ Adopt(q) \/ LoadEpoch(q) \/ Leave(q)
      PROVE  pc'[p] = "retire"
  BY <1>1 DEF Drain, Adopt, LoadEpoch, Leave, GarbagePending, locals
<1>2. ASSUME NEW q \in Participant, Enter(q) PROVE pc'[p] = "retire"
  <2>1. pc[q] = "enter" /\ pc' = [pc EXCEPT ![q] = "guard"] /\ garbage' = garbage
    BY <1>2 DEF Enter
  <2>2. QED
    BY <2>1 DEF GarbagePending
<1>3. ASSUME NEW q \in Participant, NEW n \in Node, Link(q, n)
      PROVE  pc'[p] = "retire"
  BY <1>3 DEF Link, GarbagePending, locals
<1>4. ASSUME NEW q \in Participant, NEW n \in Node, Unlink(q, n)
      PROVE  pc'[p] = "retire"
  BY <1>4 DEF Unlink, GarbagePending
<1>5. ASSUME NEW q \in Participant, Retire(q) \/ RetireThrows(q)
      PROVE  pc'[p] = "retire"
  <2>1. /\ garbage' = [garbage EXCEPT ![q] = {}]
        /\ \E label : Goto(q, label)
    BY <1>5 DEF Retire, RetireThrows
  <2>2. QED
    BY <2>1 DEF GarbagePending
<1>6. ASSUME NEW q \in Participant, TryAdvance(q) PROVE pc'[p] = "retire"
  BY <1>6, TryAdvanceFrame DEF Advancing, GarbagePending
<1>7. CASE Destroy
  <2>1. pc[p] = "idle" /\ garbage' = garbage
    BY <1>7 DEF Destroy, locals
  <2>2. QED
    BY <2>1 DEF GarbagePending
<1>8. CASE UNCHANGED vars
  BY <1>8 DEF vars, GarbagePending, locals
<1>9. QED
  BY <1>1, <1>2, <1>3, <1>4, <1>5, <1>6, <1>7, <1>8, StepCases

LEMMA OwnerInit == Init => OwnerInv
<1> SUFFICES ASSUME Init PROVE OwnerInv
  OBVIOUS
<1>1. GarbagePending
  BY DEF Init, GarbagePending
<1>2. ASSUME NEW n \in Node PROVE Holders(n) = {} /\ life[n] # "unlinked"
  <2>1. \A p \in Participant : \A i \in 0 .. kBags : ~ Holds(n, p, i)
    BY DEF Init, Holds
  <2>2. Holders(n) = {}
    BY <2>1, HoldersAre
  <2>3. QED
    BY <2>2 DEF Init
<1>3. OwnedOnce
  BY <1>2 DEF OwnedOnce
<1>4. QED
  BY <1>1, <1>3, BagInit DEF OwnerInv

LEMMA OwnerNext == OwnerInv /\ [Next]_vars => OwnerInv'
<1> SUFFICES ASSUME OwnerInv, [Next]_vars PROVE OwnerInv'
  OBVIOUS
<1>1. BagInv'
  BY BagNext DEF OwnerInv
<1>2. CASE Next
  <2>1. OwnedOnce' /\ GarbagePending'
    BY <1>2, OwnedOnceNext, GarbagePendingNext DEF OwnerInv, BagInv, PinInv
  <2>2. QED
    BY <1>1, <2>1 DEF OwnerInv
<1>3. CASE UNCHANGED vars
  <2>1. OwnedOnce' /\ GarbagePending'
    BY <1>3 DEF OwnerInv, OwnedOnce, GarbagePending, Holders, vars, owned, locals
  <2>2. QED
    BY <1>1, <2>1 DEF OwnerInv
<1>4. QED
  BY <1>2, <1>3

\* An unlinked node is owned in exactly one place until it is freed, even if
\* Retire() throws: none is freed twice, none is lost.
THEOREM NodesAreOwnedOnce == Spec => []OwnedOnce
<1>1. Spec => []OwnerInv
  BY OwnerInit, OwnerNext, PTL DEF Spec
<1>2. OwnerInv => OwnedOnce
  BY DEF OwnerInv
<1>3. QED
  BY <1>1, <1>2, PTL

-----------------------------------------------------------------------------
(***************************************************************************)
(* EpochReclaimer implements Reclamation.  Opening and leaving a Guard,    *)
(* unlinking and retiring are the steps a user sees; scans, barriers and   *)
(* store buffers stutter.  What is left to show is that the bags emptied   *)
(* by Enter() hold only nodes that may be deleted: they are labelled no    *)
(* lower than the pin of every reader (Labelled), the epoch is at most one *)
(* past that pin, and a bag expires two past its label.                    *)
(***************************************************************************)

\* A thread inside a Guard has seen everything that is still linked.
LinkedIsHeld ==
  \A p \in Participant : pc[p] \in InGuard => Linked \subseteq mayHold[p]

\* Only nodes that have been retired become suspect.
SuspectsRetired ==
  \A n \in suspect : OutOfReach(n) /\ \A p \in Participant : n \notin garbage[p]

RefineInv ==
  /\ ReclaimInv
  /\ OwnerInv
  /\ LinkedIsHeld
  /\ SuspectsRetired

LEMMA TypesOfRefineInv == RefineInv => TypeOK
  BY DEF RefineInv, ReclaimInv, BagInv, PinInv

-----------------------------------------------------------------------------
LEMMA LinkedIsHeldNext ==
  ASSUME TypeOK, LinkedIsHeld, Next
  PROVE  LinkedIsHeld'
<1> USE DEF TypeOK, Goto
<1>1. ASSUME NEW p \in Participant,
             \/ Drain(p) \/ Adopt(p) \/ LoadEpoch(p) \/ TryAdvance(p)
      PROVE  LinkedIsHeld'
  <2>1. life' = life /\ mayHold' = mayHold
    BY <1>1, TryAdvanceFrame DEF Drain, Adopt, LoadEpoch, history
  <2>2. \A q \in Participant : pc'[q] \in InGuard => pc[q] \in InGuard
    BY <1>1, TryAdvanceFrame DEF Drain, Adopt, LoadEpoch, InGuard, Advancing
  <2>3. QED
    BY <2>1, <2>2 DEF LinkedIsHeld, Linked
<1>2. ASSUME NEW p \in Participant, Enter(p) PROVE LinkedIsHeld'
  <2>1. /\ pc' = [pc EXCEPT ![p] = "guard"]
        /\ mayHold' = [mayHold EXCEPT ![p] = Linked]
    BY <1>2 DEF Enter
  <2>2. PICK nodes : Free(nodes)
    BY <1>2 DEF Enter
  <2>3. Linked' \subseteq Linked
    BY <2>2 DEF Free, Linked
  <2>4. QED
    BY <2>1, <2>3 DEF LinkedIsHeld
<1>3. ASSUME NEW p \in Participant, Leave(p) PROVE LinkedIsHeld'
  <2>1. /\ pc' = [pc EXCEPT ![p] = "idle"] /\ life' = life
        /\ mayHold' = [mayHold EXCEPT ![p] = {}]
    BY <1>3 DEF Leave
  <2>2. "idle" \notin InGuard
    BY DEF InGuard, Advancing
  <2>3. QED
    BY <2>1, <2>2 DEF LinkedIsHeld, Linked
<1>4. ASSUME NEW p \in Participant, NEW n \in Node, Link(p, n) PROVE LinkedIsHeld'
  <2>1. Linked' \subseteq Linked \cup {n}
    BY <1>4 DEF Link, Linked
  <2>2. pc' = pc
    BY <1>4 DEF Link
  <2>3. \A q \in Participant : pc[q] \in InGuard => mayHold'[q] = mayHold[q] \cup {n}
    BY <1>4 DEF Link
  <2>4. QED
    BY <2>1, <2>2, <2>3 DEF LinkedIsHeld
<1>5. ASSUME NEW p \in Participant, NEW n \in Node, Unlink(p, n) PROVE LinkedIsHeld'
  <2>1. Linked' \subseteq Linked /\ mayHold' = mayHold
    BY <1>5 DEF Unlink, Linked, history
  <2>2. \A q \in Participant : pc'[q] \in InGuard => pc[q] \in InGuard
    BY <1>5 DEF Unlink, InGuard
  <2>3. QED
    BY <2>1, <2>2 DEF LinkedIsHeld
<1>6. ASSUME NEW p \in Participant, Retire(p) \/ RetireThrows(p) PROVE LinkedIsHeld'
  <2>1. mayHold' = mayHold /\ \E nodes : Free(nodes)
    BY <1>6 DEF Retire, RetireThrows
  <2>2. Linked' \subseteq Linked
    BY <2>1 DEF Free, Linked
  <2>3. pc[p] \in InGuard /\ \E label : Goto(p, label)
    BY <1>6 DEF Retire, RetireThrows, InGuard
  <2>4. \A q \in Participant : pc'[q] \in InGuard => pc[q] \in InGuard
    BY <2>3
  <2>5. QED
    BY <2>1, <2>2, <2>4 DEF LinkedIsHeld
<1>7. CASE Destroy
  BY <1>7 DEF Destroy, LinkedIsHeld, InGuard, Advancing
<1>8. CASE UNCHANGED vars
  BY <1>8 DEF vars, LinkedIsHeld, Linked, history
<1>9. QED
  BY <1>1, <1>2, <1>3, <1>4, <1>5, <1>6, <1>7, <1>8, StepCases

\* Garbage is what was garbage before or has just been unlinked.
LEMMA SuspectsRetiredNext ==
  ASSUME RefineInv, Next
  PROVE  SuspectsRetired'
<1>1. TypeOK /\ SuspectsRetired /\ BagsUnlinked /\ OwnedOnce
  BY TypesOfRefineInv DEF RefineInv, ReclaimInv, OwnerInv
<1>2. ASSUME NEW n \in Node, OutOfReach(n) PROVE OutOfReach(n)'
  BY <1>1, <1>2, LifeMoves DEF OutOfReach
<1>3. suspect \subseteq Node
  BY <1>1 DEF TypeOK
<1>4. ASSUME NEW p \in Participant, Retire(p) \/ RetireThrows(p)
      PROVE  SuspectsRetired'
  <2>1. /\ garbage' = [garbage EXCEPT ![p] = {}]
        /\ suspect' \subseteq suspect \cup garbage[p]
    BY <1>4 DEF Retire, RetireThrows
  <2>2. \A q \in Participant : garbage'[q] \subseteq garbage[q] /\ garbage'[p] = {}
    BY <1>1, <2>1 DEF TypeOK
  <2>3. ASSUME NEW n \in garbage[p], NEW q \in Participant PROVE n \notin garbage'[q]
    <3>1. n \in Node
      BY <1>1 DEF TypeOK
    <3>2. kBags \in 0 .. kBags
      OBVIOUS
    <3>3. Holds(n, p, kBags)
      BY DEF Holds
    <3>4. Holds(n, q, kBags) => q = p
      BY <1>1, <3>1, <3>2, <3>3, SoleOwner
    <3>5. n \in garbage[q] => q = p
      BY <3>4 DEF Holds
    <3>6. QED
      BY <2>2, <3>5
  <2>4. ASSUME NEW n \in suspect'
        PROVE  OutOfReach(n)' /\ \A q \in Participant : n \notin garbage'[q]
    <3>1. CASE n \in garbage[p]
      <4>1. n \in Node /\ OutOfReach(n)
        BY <1>1, <3>1 DEF TypeOK, BagsUnlinked
      <4>2. QED
        BY <1>2, <2>3, <3>1, <4>1
    <3>2. CASE n \in suspect
      BY <1>1, <1>2, <1>3, <2>2, <3>2 DEF SuspectsRetired
    <3>3. QED
      BY <2>1, <2>4, <3>1, <3>2
  <2>5. QED
    BY <2>4 DEF SuspectsRetired
<1>5. ASSUME suspect' = suspect, NEW n \in suspect
      PROVE  OutOfReach(n)' /\ \A q \in Participant : n \notin garbage'[q]
  <2>1. OutOfReach(n)'
    BY <1>1, <1>2, <1>3 DEF SuspectsRetired
  <2>2. ASSUME NEW q \in Participant, n \in garbage'[q] PROVE FALSE
    <3>1. \/ \E p \in Participant, m \in Node : Unlink(p, m)
          \/ garbage'[q] \subseteq garbage[q]
      <4>1. ASSUME NEW p \in Participant,
                   \/ Drain(p) \/ Adopt(p) \/ LoadEpoch(p) \/ Enter(p) \/ Leave(p)
                   \/ (\E m \in Node : Link(p, m)) \/ TryAdvance(p)
            PROVE  garbage' = garbage
        BY <4>1, TryAdvanceFrame DEF Drain, Adopt, LoadEpoch, Enter, Leave, Link, locals
      <4>2. ASSUME NEW p \in Participant, Retire(p) \/ RetireThrows(p)
            PROVE  garbage'[q] \subseteq garbage[q]
        BY <1>1, <4>2 DEF Retire, RetireThrows, TypeOK
      <4>3. CASE Destroy \/ UNCHANGED vars
        BY <4>3 DEF Destroy, vars, locals
      <4>4. QED
        BY <4>1, <4>2, <4>3, StepCases
    <3>2. n \notin garbage[q] /\ OutOfReach(n)
      BY <1>1 DEF SuspectsRetired
    <3>3. PICK p \in Participant, m \in Node : Unlink(p, m)
      BY <2>2, <3>1, <3>2
    <3>4. n = m /\ life[m] = "linked"
      BY <1>1, <2>2, <3>2, <3>3 DEF Unlink, TypeOK
    <3>5. QED
      BY <3>2, <3>4 DEF OutOfReach
  <2>3. QED
    BY <2>1, <2>2
<1>6. CASE ~ \E p \in Participant : Retire(p) \/ RetireThrows(p)
  <2>1. suspect' = suspect
    <3>1. ASSUME NEW p \in Participant,
                 \/ Drain(p) \/ Adopt(p) \/ LoadEpoch(p) \/ Enter(p) \/ Leave(p)
                 \/ (\E m \in Node : Link(p, m) \/ Unlink(p, m)) \/ TryAdvance(p)
          PROVE  suspect' = suspect
      BY <3>1, TryAdvanceFrame DEF Drain, Adopt, LoadEpoch, Enter, Leave, Link,
                                   Unlink, history
    <3>2. CASE Destroy \/ UNCHANGED vars
      BY <3>2 DEF Destroy, vars, history
    <3>3. QED
      BY <1>6, <3>1, <3>2, StepCases
  <2>2. QED
    BY <1>5, <2>1 DEF SuspectsRetired
<1>7. QED
  BY <1>4, <1>6

LEMMA RefineInit == Init => RefineInv
<1> SUFFICES ASSUME Init PROVE RefineInv
  OBVIOUS
<1>1. LinkedIsHeld /\ SuspectsRetired
  BY DEF Init, LinkedIsHeld, SuspectsRetired, Linked
<1>2. QED
  BY <1>1, ReclaimInit, OwnerInit DEF RefineInv

LEMMA RefineNext == RefineInv /\ [Next]_vars => RefineInv'
<1> SUFFICES ASSUME RefineInv, [Next]_vars PROVE RefineInv'
  OBVIOUS
<1>1. ReclaimInv' /\ OwnerInv'
  BY ReclaimNext, OwnerNext DEF RefineInv
<1>2. CASE Next
  BY <1>1, <1>2, TypesOfRefineInv, LinkedIsHeldNext, SuspectsRetiredNext DEF RefineInv
<1>3. CASE UNCHANGED vars
  BY <1>1, <1>3 DEF RefineInv, LinkedIsHeld, SuspectsRetired, Linked, OutOfReach,
                    vars, history, locals
<1>4. QED
  BY <1>2, <1>3

-----------------------------------------------------------------------------
\* What the mapped variables are, node by node and thread by thread.
Mapped == <<Guards, LateGuards, garbage, Retired, suspect \cap Retired, Deleted, Readers>>

\* Inside a Guard before and after, with the same announcement and pin.
LEMMA SameGuards ==
  ASSUME \A p \in Participant :
           /\ pc'[p] \in InGuard <=> pc[p] \in InGuard
           /\ pc[p] \in InGuard => pin'[p] = pin[p] /\ announced'[p] = announced[p]
  PROVE  Guards' = Guards /\ LateGuards' = LateGuards
<1>1. Guards' = Guards
  BY DEF Guards
<1>2. QED
  BY <1>1 DEF Guards, LateGuards

\* Life that goes on without any unlinking and deleting.
LEMMA SameNodes ==
  ASSUME garbage' = garbage, suspect' = suspect,
         \A n \in Node : /\ life'[n] = "unlinked" <=> life[n] = "unlinked"
                         /\ life'[n] = "freed" <=> life[n] = "freed"
  PROVE  /\ Unlinked' = Unlinked /\ Retired' = Retired /\ Deleted' = Deleted
         /\ (suspect \cap Retired)' = suspect \cap Retired
<1>1. Unlinked' = Unlinked /\ Deleted' = Deleted
  BY DEF Unlinked, Deleted
<1>2. Retired' = Retired
  BY <1>1 DEF Retired
<1>3. QED
  BY <1>1, <1>2

\* The steps a user of the reclaimer does not see.
LEMMA Stutters ==
  ASSUME RefineInv, NEW p \in Participant,
         \/ Drain(p) \/ Adopt(p) \/ LoadEpoch(p) \/ TryAdvance(p)
         \/ \E n \in Node : Link(p, n)
  PROVE  Mapped' = Mapped
<1>0. TypeOK
  BY TypesOfRefineInv
<1>1. \A q \in Participant :
        /\ pc'[q] \in InGuard <=> pc[q] \in InGuard
        /\ pc[q] \in InGuard => pin'[q] = pin[q] /\ announced'[q] = announced[q]
  <2> USE <1>0 DEF TypeOK, Goto
  <2>1. CASE Drain(p) \/ Adopt(p) \/ \E n \in Node : Link(p, n)
    BY <2>1 DEF Drain, Adopt, Link, owned, history
  <2>2. CASE LoadEpoch(p)
    BY <2>2 DEF LoadEpoch, owned, history, InGuard, Advancing
  <2>3. CASE TryAdvance(p)
    BY <2>3, TryAdvanceFrame DEF owned, history, InGuard
  <2>4. QED
    BY <2>1, <2>2, <2>3
<1>2. CASE ~ \E n \in Node : Link(p, n)
  <2>1. UNCHANGED <<garbage, life, mayHold, suspect>>
    BY <1>2, TryAdvanceFrame DEF Drain, Adopt, LoadEpoch, locals, history
  <2>2. Readers' = Readers
    BY <2>1 DEF Readers, Unlinked
  <2>3. QED
    BY <1>1, <2>1, <2>2, SameGuards, SameNodes DEF Mapped
<1>3. ASSUME NEW n \in Node, Link(p, n) PROVE Mapped' = Mapped
  <2>1. /\ life[n] = "fresh" /\ life' = [life EXCEPT ![n] = "linked"]
        /\ garbage' = garbage /\ suspect' = suspect
        /\ \A q \in Participant : mayHold'[q] \in {mayHold[q], mayHold[q] \cup {n}}
    BY <1>3 DEF Link, locals
  <2>2. /\ Unlinked' = Unlinked /\ Retired' = Retired /\ Deleted' = Deleted
        /\ (suspect \cap Retired)' = suspect \cap Retired
    BY <1>0, <2>1, SameNodes DEF TypeOK
  <2>3. \A m \in Unlinked : m # n
    BY <2>1 DEF Unlinked
  <2>4. \A m \in Unlinked : \A q \in Participant : m \in mayHold'[q] <=> m \in mayHold[q]
    BY <2>1, <2>3
  <2>5. Readers' = Readers
    BY <2>2, <2>4 DEF Readers
  <2>6. QED
    BY <1>1, <2>1, <2>2, <2>5, SameGuards DEF Mapped
<1>4. QED
  BY <1>2, <1>3

-----------------------------------------------------------------------------
\* What a bag holds is retired, and so is nothing else.
LEMMA BaggedIsRetired ==
  ASSUME TypeOK, OwnedOnce, NEW n \in Node
  PROVE  n \in Retired <=> \E p \in Participant : \E i \in Bag : n \in bags[p][i]
<1>1. ASSUME NEW p \in Participant, NEW i \in Bag, n \in bags[p][i]
      PROVE  n \in Retired
  <2>1. i \in 0 .. kBags /\ i # kBags /\ Holds(n, p, i)
    BY <1>1 DEF Holds
  <2>2. /\ life[n] = "unlinked"
        /\ \A q \in Participant : \A j \in 0 .. kBags : Holds(n, q, j) => j = i
    BY <2>1, SoleOwner
  <2>3. kBags \in 0 .. kBags
    OBVIOUS
  <2>4. ASSUME NEW q \in Participant PROVE n \notin garbage[q]
    <3>1. ~ Holds(n, q, kBags)
      BY <2>1, <2>2, <2>3
    <3>2. QED
      BY <3>1 DEF Holds
  <2>5. QED
    BY <2>2, <2>4 DEF Retired, Unlinked
<1>2. ASSUME n \in Retired PROVE \E p \in Participant : \E i \in Bag : n \in bags[p][i]
  <2>1. life[n] = "unlinked" /\ \A q \in Participant : n \notin garbage[q]
    BY <1>2 DEF Retired, Unlinked
  <2>2. PICK h : h \in Holders(n)
    BY <2>1 DEF OwnedOnce
  <2>3. PICK p \in Participant, i \in 0 .. kBags : Holds(n, p, i)
    BY <2>2, HoldersAre
  <2>4. i # kBags /\ i \in Bag
    BY <2>1, <2>3 DEF Holds
  <2>5. QED
    BY <2>3, <2>4 DEF Holds
<1>3. QED
  BY <1>1, <1>2

\* What a thread is about to retire is unlinked, not retired and in no other hands.
LEMMA GarbageIsUnlinked ==
  ASSUME TypeOK, OwnedOnce, NEW p \in Participant, NEW n \in garbage[p]
  PROVE  /\ n \in Unlinked /\ n \notin Retired
         /\ \A q \in Participant : n \in garbage[q] => q = p
<1>1. n \in Node /\ kBags \in 0 .. kBags /\ Holds(n, p, kBags)
  BY DEF TypeOK, Holds
<1>2. /\ life[n] = "unlinked"
      /\ \A q \in Participant : Holds(n, q, kBags) => q = p
  BY <1>1, SoleOwner
<1>3. QED
  BY <1>1, <1>2 DEF Retired, Unlinked, Holds

\* Nobody but suspects' readers reads what Enter() takes out of a bag.
LEMMA ExpiredIsUnread ==
  ASSUME RefineInv, NEW p \in Participant, NEW i \in Expired(p, epoch_now[p]),
         NEW n \in bags[p][i], n \notin suspect
  PROVE  \A q \in Participant : n \notin mayHold[q]
<1>1. /\ TypeOK /\ Labelled /\ EpochsRead /\ PinnedEpoch /\ HoldersInGuard
  BY DEF RefineInv, ReclaimInv, BagInv, PinInv
<1>2. /\ i \in Bag /\ bag_epochs[p][i] \in Nat
      /\ bag_epochs[p][i] + 2 <= epoch_now[p]
  BY <1>1 DEF Expired, TypeOK
<1>3. ASSUME NEW q \in Participant, n \in mayHold[q] PROVE FALSE
  <2>1. pin[q] <= bag_epochs[p][i]
    BY <1>1, <1>2, <1>3 DEF Labelled
  <2>2. epoch_now[p] <= epoch_ /\ epoch_ <= pin[q] + 1
    BY <1>1, <1>3 DEF EpochsRead, PinnedEpoch, HoldersInGuard
  <2>3. epoch_ \in Nat /\ epoch_now[p] \in Nat /\ pin[q] \in Nat
    BY <1>1 DEF TypeOK
  <2>4. QED
    BY <1>2, <2>1, <2>2, <2>3
<1>4. QED
  BY <1>3

LEMMA EnterRefines ==
  ASSUME RefineInv, NEW p \in Participant, Enter(p)
  PROVE  Promise!Enter(p)
<1> DEFINE expired == IF epoch_now[p] # announced[p] THEN Expired(p, epoch_now[p]) ELSE {}
           nodes == UNION {bags[p][i] : i \in expired}
<1>1. /\ TypeOK /\ OwnedOnce /\ HoldersInGuard
  BY DEF RefineInv, ReclaimInv, OwnerInv, BagInv, PinInv
<1>2. expired \subseteq Bag /\ expired \subseteq Expired(p, epoch_now[p])
  BY DEF Expired
<1>3. /\ Free(nodes)
      /\ pc[p] = "enter" /\ pc' = [pc EXCEPT ![p] = "guard"]
      /\ mayHold' = [mayHold EXCEPT ![p] = Linked]
      /\ announced' = [announced EXCEPT ![p] = epoch_now[p]]
      /\ pin' = [pin EXCEPT ![p] = epoch_]
      /\ UNCHANGED <<garbage, suspect>>
  BY DEF Enter, Goto
<1> HIDE DEF expired
<1>4. nodes \subseteq Retired
  <2>1. ASSUME NEW n \in nodes PROVE n \in Retired
    <3>1. PICK i \in expired : n \in bags[p][i]
      OBVIOUS
    <3>2. i \in Bag /\ n \in Node
      BY <1>1, <1>2, <3>1 DEF TypeOK
    <3>3. QED
      BY <1>1, <3>1, <3>2, BaggedIsRetired
  <2>2. QED
    BY <2>1
<1>5. nodes \subseteq Promise!Deletable
  <2>1. ASSUME NEW n \in nodes PROVE Readers[n] = {} \/ n \in suspect \cap Retired
    <3>1. PICK i \in expired : n \in bags[p][i]
      OBVIOUS
    <3>2. n \in Retired /\ n \in Node
      BY <1>4 DEF Retired, Unlinked
    <3>3. n \notin suspect => \A q \in Participant : n \notin mayHold[q]
      BY <1>2, <3>1, ExpiredIsUnread
    <3>4. QED
      BY <3>2, <3>3 DEF Readers
  <2>2. QED
    BY <1>4, <2>1 DEF Promise!Deletable
<1>6. p \notin Guards /\ Guards' = Guards \cup {p}
  <2>1. "enter" \notin InGuard /\ "guard" \in InGuard
    BY DEF InGuard, Advancing
  <2>2. QED
    BY <1>1, <1>3, <2>1 DEF Guards, TypeOK
<1>7. LateGuards' \in {LateGuards, LateGuards \cup {p}}
  <2>1. p \notin LateGuards
    BY <1>6 DEF LateGuards
  <2>2. \A q \in Participant : q # p => (q \in LateGuards' <=> q \in LateGuards)
    BY <1>1, <1>3, <1>6 DEF LateGuards, TypeOK
  <2>3. LateGuards' \subseteq Participant /\ LateGuards \subseteq Participant
    BY DEF LateGuards, Guards
  <2>4. QED
    BY <2>1, <2>2, <2>3
<1>8. Unlinked' = Unlinked \ nodes /\ Deleted' = Deleted \cup nodes
  <2> HIDE DEF nodes
  <2>1. nodes \subseteq Node
    BY <1>4 DEF Retired, Unlinked
  <2>2. QED
    BY <1>3, <2>1 DEF Free, Unlinked, Deleted
<1>9. Retired' = Retired \ nodes
  BY <1>3, <1>8 DEF Retired
<1>10. Readers' = [n \in Node |-> IF n \in nodes THEN {} ELSE Readers[n]]
  <2> HIDE DEF nodes
  <2>1. mayHold[p] = {}
    BY <1>1, <1>3 DEF HoldersInGuard, InGuard, Advancing
  <2>2. ASSUME NEW n \in Unlinked PROVE n \notin Linked
    BY DEF Unlinked, Linked
  <2>3. ASSUME NEW n \in Unlinked, NEW q \in Participant
        PROVE  n \in mayHold'[q] <=> n \in mayHold[q]
    BY <1>1, <1>3, <2>1, <2>2 DEF TypeOK
  <2>4. \A n \in nodes : n \notin Unlinked'
    BY <1>8
  <2>5. QED
    BY <1>8, <2>3, <2>4 DEF Readers
<1>11. Promise!Delete(nodes)
  <2> HIDE DEF nodes
  <2>1. (suspect \cap Retired)' = (suspect \cap Retired) \ nodes
    BY <1>3, <1>9
  <2>2. QED
    BY <1>5, <1>8, <1>9, <1>10, <2>1 DEF Promise!Delete
<1> HIDE DEF nodes
<1>12. QED
  BY <1>3, <1>5, <1>6, <1>7, <1>11 DEF Promise!Enter

LEMMA LeaveRefines ==
  ASSUME RefineInv, NEW p \in Participant, Leave(p)
  PROVE  Promise!Leave(p)
<1>1. TypeOK /\ GarbagePending
  BY TypesOfRefineInv DEF RefineInv, OwnerInv
<1>2. /\ pc[p] \in {"guard", "unwind"} /\ pc' = [pc EXCEPT ![p] = "idle"]
      /\ mayHold' = [mayHold EXCEPT ![p] = {}]
      /\ pin' = [pin EXCEPT ![p] = 0]
      /\ UNCHANGED <<announced, garbage, life, suspect>>
  BY DEF Leave, Goto, owned, locals
<1>3. p \in Guards /\ Guards' = Guards \ {p}
  <2>1. "idle" \notin InGuard /\ {"guard", "unwind"} \subseteq InGuard
    BY DEF InGuard, Advancing
  <2>2. QED
    BY <1>1, <1>2, <2>1 DEF Guards, TypeOK
<1>4. LateGuards' = LateGuards \ {p}
  BY <1>1, <1>2, <1>3 DEF LateGuards, TypeOK
<1>5. Unlinked' = Unlinked /\ Retired' = Retired /\ Deleted' = Deleted
  BY <1>2 DEF Unlinked, Retired, Deleted
<1>6. Readers' = [n \in Node |-> Readers[n] \ {p}]
  <2>1. \A n \in Node : \A q \in Participant :
          n \in mayHold'[q] <=> n \in mayHold[q] /\ q # p
    BY <1>1, <1>2 DEF TypeOK
  <2>2. QED
    BY <1>5, <2>1 DEF Readers
<1>7. garbage[p] = {}
  BY <1>1, <1>2 DEF GarbagePending
<1>8. QED
  BY <1>2, <1>3, <1>4, <1>5, <1>6, <1>7 DEF Promise!Leave

LEMMA UnlinkRefines ==
  ASSUME RefineInv, NEW p \in Participant, NEW n \in Node, Unlink(p, n)
  PROVE  Promise!Unlink(p, n)
<1>1. /\ TypeOK /\ GarbagePending /\ BagsUnlinked /\ HoldersInGuard /\ LinkedIsHeld
  BY TypesOfRefineInv DEF RefineInv, OwnerInv, ReclaimInv
<1>2. /\ pc[p] = "guard" /\ pc' = [pc EXCEPT ![p] = "retire"]
      /\ life[n] = "linked" /\ life' = [life EXCEPT ![n] = "unlinked"]
      /\ garbage' = [garbage EXCEPT ![p] = {n}]
      /\ UNCHANGED <<announced, mayHold, pin, suspect>>
  BY DEF Unlink, Goto, owned, history
<1>3. p \in Guards /\ Guards' = Guards /\ LateGuards' = LateGuards
  <2>1. "guard" \in InGuard /\ "retire" \in InGuard
    BY DEF InGuard
  <2>2. \A q \in Participant : pc'[q] \in InGuard <=> pc[q] \in InGuard
    BY <1>1, <1>2, <2>1 DEF TypeOK
  <2>3. QED
    BY <1>2, <2>1, <2>2, SameGuards DEF Guards
<1>4. /\ \A q \in Participant : n \notin garbage[q]
      /\ garbage[p] = {}
      /\ n \notin Unlinked /\ n \notin Deleted /\ n \notin Retired
  BY <1>1, <1>2 DEF BagsUnlinked, OutOfReach, GarbagePending, Unlinked, Deleted, Retired
<1>5. Unlinked' = Unlinked \cup {n} /\ Deleted' = Deleted
  BY <1>1, <1>2 DEF Unlinked, Deleted, TypeOK
<1>6. Retired' = Retired
  <2>1. \A m : (\E q \in Participant : m \in garbage'[q])
                <=> m = n \/ \E q \in Participant : m \in garbage[q]
    BY <1>1, <1>2, <1>4 DEF TypeOK
  <2>2. QED
    BY <1>4, <1>5, <2>1 DEF Retired
<1>7. Readers' = [Readers EXCEPT ![n] = Guards]
  <2>1. {q \in Participant : n \in mayHold[q]} = Guards
    BY <1>1, <1>2 DEF Guards, HoldersInGuard, LinkedIsHeld, Linked
  <2>2. QED
    BY <1>2, <1>5, <2>1 DEF Readers
<1>8. n \notin Promise!Unlinked
  BY <1>4 DEF Promise!Unlinked
<1>9. QED
  BY <1>2, <1>3, <1>4, <1>5, <1>6, <1>7, <1>8 DEF Promise!Unlink

LEMMA RetireRefines ==
  ASSUME RefineInv, NEW p \in Participant, Retire(p)
  PROVE  Promise!Retire(p)
<1>1. /\ TypeOK /\ OwnedOnce /\ BagWindow /\ SuspectsRetired
  BY TypesOfRefineInv DEF RefineInv, OwnerInv, BagInv
<1>2. /\ pc[p] = "retire" /\ \E label \in {"load", "guard"} : Goto(p, label)
      /\ Free(Relabel(p))
      /\ garbage' = [garbage EXCEPT ![p] = {}]
      /\ suspect' = IF pin[p] # announced[p] THEN suspect \cup garbage[p] ELSE suspect
      /\ UNCHANGED <<announced, mayHold, pin>>
  BY DEF Retire
<1>3. p \in Guards /\ Guards' = Guards /\ LateGuards' = LateGuards
  <2>1. {"load", "guard", "retire"} \subseteq InGuard
    BY DEF InGuard, Advancing
  <2>2. \A q \in Participant : pc'[q] \in InGuard <=> pc[q] \in InGuard
    BY <1>1, <1>2, <2>1 DEF TypeOK, Goto
  <2>3. QED
    BY <1>2, <2>1, <2>2, SameGuards DEF Guards
<1>4. life' = life
  BY <1>1, <1>2, RelabelsNothing DEF Free, TypeOK
<1>5. Unlinked' = Unlinked /\ Deleted' = Deleted /\ Readers' = Readers
  BY <1>2, <1>4 DEF Unlinked, Deleted, Readers
<1>6. Retired' = Retired \cup garbage[p]
  <2>1. \A q \in Participant : garbage'[q] = IF q = p THEN {} ELSE garbage[q]
    BY <1>1, <1>2 DEF TypeOK
  <2>2. \A n \in garbage[p] : n \in Unlinked /\ \A q \in Participant : n \notin garbage'[q]
    BY <1>1, <2>1, GarbageIsUnlinked
  <2>3. \A n : (\E q \in Participant : n \in garbage[q])
                <=> n \in garbage[p] \/ \E q \in Participant : n \in garbage'[q]
    BY <2>1
  <2>4. QED
    BY <1>5, <2>2, <2>3 DEF Retired
<1>7. (suspect \cap Retired)' = IF p \in LateGuards THEN (suspect \cap Retired) \cup garbage[p]
                                                  ELSE suspect \cap Retired
  <2>1. p \in LateGuards <=> pin[p] # announced[p]
    BY <1>3 DEF LateGuards
  <2>2. suspect \cap garbage[p] = {}
    BY <1>1 DEF SuspectsRetired
  <2>3. QED
    BY <1>2, <1>6, <2>1, <2>2
<1>8. QED
  BY <1>2, <1>3, <1>5, <1>6, <1>7 DEF Promise!Retire

LEMMA RetireThrowsRefines ==
  ASSUME RefineInv, NEW p \in Participant, RetireThrows(p)
  PROVE  Promise!RetireThrows(p)
<1>1. /\ TypeOK /\ OwnedOnce /\ BagWindow
  BY TypesOfRefineInv DEF RefineInv, OwnerInv, BagInv
<1>2. /\ pc[p] = "retire" /\ pc' = [pc EXCEPT ![p] = "unwind"]
      /\ Free(Relabel(p) \cup garbage[p])
      /\ garbage' = [garbage EXCEPT ![p] = {}]
      /\ suspect' = suspect \cup garbage[p]
      /\ UNCHANGED <<announced, mayHold, pin>>
  BY DEF RetireThrows, Goto
<1>3. Guards' = Guards /\ LateGuards' = LateGuards
  <2>1. {"retire", "unwind"} \subseteq InGuard
    BY DEF InGuard
  <2>2. \A q \in Participant : pc'[q] \in InGuard <=> pc[q] \in InGuard
    BY <1>1, <1>2, <2>1 DEF TypeOK
  <2>3. QED
    BY <1>2, <2>2, SameGuards
<1>4. Free(garbage[p])
  <2>1. Relabel(p) \cup garbage[p] = garbage[p]
    BY <1>1, RelabelsNothing
  <2>2. QED
    BY <1>2, <2>1
<1>5. garbage[p] \subseteq Node
  BY <1>1 DEF TypeOK
<1>6. Unlinked' = Unlinked \ garbage[p] /\ Deleted' = Deleted \cup garbage[p]
  BY <1>4, <1>5 DEF Free, Unlinked, Deleted
<1>7. Retired' = Retired
  <2>1. \A q \in Participant : garbage'[q] = IF q = p THEN {} ELSE garbage[q]
    BY <1>1, <1>2 DEF TypeOK
  <2>2. \A n : (\E q \in Participant : n \in garbage[q])
                <=> n \in garbage[p] \/ \E q \in Participant : n \in garbage'[q]
    BY <2>1
  <2>3. QED
    BY <1>6, <2>2 DEF Retired
<1>8. (suspect \cap Retired)' = suspect \cap Retired
  <2>1. garbage[p] \cap Retired = {}
    BY <1>1, GarbageIsUnlinked
  <2>2. QED
    BY <1>2, <1>7, <2>1
<1>9. Readers' = [n \in Node |-> IF n \in garbage[p] THEN {} ELSE Readers[n]]
  BY <1>2, <1>6 DEF Readers
<1>10. QED
  BY <1>2, <1>3, <1>6, <1>7, <1>8, <1>9 DEF Promise!RetireThrows

LEMMA DestroyRefines ==
  ASSUME RefineInv, Destroy
  PROVE  Promise!Destroy
<1> DEFINE nodes == UNION {bags[p][i] : p \in Participant, i \in Bag}
<1>1. /\ TypeOK /\ OwnedOnce /\ HoldersInGuard
  BY TypesOfRefineInv DEF RefineInv, OwnerInv, ReclaimInv
<1>2. /\ \A p \in Participant : pc[p] = "idle"
      /\ pc' = [p \in Participant |-> "gone"]
      /\ Free(nodes)
      /\ UNCHANGED <<announced, garbage, mayHold, pin, suspect>>
  BY DEF Destroy, locals, history
<1>3. Guards = {} /\ Guards' = {} /\ LateGuards = {} /\ LateGuards' = {}
  <2>1. "idle" \notin InGuard /\ "gone" \notin InGuard
    BY DEF InGuard, Advancing
  <2>2. Guards = {} /\ Guards' = {}
    BY <1>2, <2>1 DEF Guards
  <2>3. QED
    BY <2>2 DEF LateGuards
<1>4. \A p \in Participant : mayHold[p] = {}
  BY <1>1, <1>3 DEF HoldersInGuard, Guards
<1>5. nodes = Retired
  <2>1. \A n \in nodes : n \in Node
    BY <1>1 DEF TypeOK
  <2>2. \A n \in Retired : n \in Node
    BY DEF Retired, Unlinked
  <2>3. QED
    BY <1>1, <2>1, <2>2, BaggedIsRetired
<1> HIDE DEF nodes
<1>6. Unlinked' = Unlinked \ Retired /\ Deleted' = Deleted \cup Retired
  <2>1. Retired \subseteq Node
    BY DEF Retired, Unlinked
  <2>2. QED
    BY <1>2, <1>5, <2>1 DEF Free, Unlinked, Deleted
<1>7. Retired' = {}
  BY <1>2, <1>6 DEF Retired
<1>8. Readers = [n \in Node |-> {}] /\ Readers' = [n \in Node |-> {}]
  BY <1>2, <1>4 DEF Readers
<1>9. Promise!Delete(Retired)
  <2>1. Retired \subseteq Promise!Deletable
    BY <1>8 DEF Promise!Deletable, Retired, Unlinked
  <2>2. QED
    BY <1>6, <1>7, <1>8, <2>1 DEF Promise!Delete
<1>10. QED
  BY <1>2, <1>3, <1>9 DEF Promise!Destroy

-----------------------------------------------------------------------------
LEMMA InitRefines == Init => Promise!Init
<1> SUFFICES ASSUME Init PROVE Promise!Init
  OBVIOUS
<1>1. Guards = {} /\ LateGuards = {}
  BY DEF Init, Guards, LateGuards, InGuard, Advancing
<1>2. Unlinked = {} /\ Retired = {} /\ Deleted = {}
  BY DEF Init, Unlinked, Retired, Deleted
<1>3. QED
  BY <1>1, <1>2 DEF Init, Promise!Init, Readers

LEMMA StepRefines == RefineInv /\ [Next]_vars => [Promise!Next]_(Promise!vars)
<1> SUFFICES ASSUME RefineInv, [Next]_vars
             PROVE  Promise!Next \/ Mapped' = Mapped
  BY DEF Promise!vars, Mapped
<1>1. ASSUME NEW p \in Participant,
             \/ Drain(p) \/ Adopt(p) \/ LoadEpoch(p) \/ TryAdvance(p)
             \/ \E n \in Node : Link(p, n)
      PROVE  Mapped' = Mapped
  BY <1>1, Stutters
<1>2. ASSUME NEW p \in Participant,
             Enter(p) \/ Leave(p) \/ Retire(p) \/ RetireThrows(p)
      PROVE  Promise!Next
  BY <1>2, EnterRefines, LeaveRefines, RetireRefines, RetireThrowsRefines
     DEF Promise!Next
<1>3. ASSUME NEW p \in Participant, NEW n \in Node, Unlink(p, n) PROVE Promise!Next
  BY <1>3, UnlinkRefines DEF Promise!Next
<1>4. CASE Destroy
  BY <1>4, DestroyRefines DEF Promise!Next
<1>5. CASE UNCHANGED vars
  BY <1>5 DEF vars, Mapped, Guards, LateGuards, Retired, Unlinked, Deleted, Readers,
              owned, locals, history
<1>6. QED
  BY <1>1, <1>2, <1>3, <1>4, <1>5, StepCases

\* The reclaimer keeps its promise: with however many threads, nodes, bags to
\* fill and stores under way, a node disappears once, and only when every Guard
\* that could have found it is over, or as one of the two exceptions.
THEOREM ReclaimerKeepsThePromise == Spec => KeepsThePromise
<1>1. Spec => []RefineInv
  BY RefineInit, RefineNext, PTL DEF Spec
<1>2. QED
  BY <1>1, InitRefines, StepRefines, PTL DEF Spec, KeepsThePromise, Promise!Spec
=============================================================================
