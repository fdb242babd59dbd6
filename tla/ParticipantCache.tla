-------------------------- MODULE ParticipantCache --------------------------
(***************************************************************************)
(* How a thread gets to its Participant of a reclaimer, Self() and Adopt() *)
(* in src/EpochReclaimer.h.                                                *)
(*                                                                         *)
(* A Participant is known by its owner, the address of the owning thread's *)
(* thread_local cache_.  Threads end and others start, possibly with the   *)
(* same address; sets, each with a reclaimer, are created and destroyed,   *)
(* and memory is used again.  EpochReclaimer takes it from here that each  *)
(* thread has a participant of its own.                                    *)
(***************************************************************************)
EXTENDS Integers, FiniteSets

CONSTANTS
  Thread,
  Owner,                \* the addresses a cache_ can have
  Participant,          \* the addresses a Participant can have
  None,                 \* no address
  kReclaimerCacheSize,  \* 16 in the code
  MaxReclaimers         \* bound: how many reclaimers are created

ASSUME CacheAssumption == kReclaimerCacheSize \in Nat \ {0}
ASSUME NoneAssumption == None \notin Owner \cup Participant
ASSUME ReclaimersAssumption == MaxReclaimers \in Nat

Id == 1 .. MaxReclaimers

VARIABLES
  next_reclaimer_id_,
  alive,          \* the reclaimers there are
  participants_,  \* per reclaimer: the head of its list
  owner, next,    \* per participant
  home,           \* per participant: its reclaimer, 0 if not allocated
  running,        \* per thread: the address of its cache_, None if not started
  cache_,         \* per such address
  pc,             \* what each thread does next
  reclaimer,      \* per thread: the reclaimer it is at, 0 for none
  participant     \* per thread: its local of that name

memory == <<owner, next, home>>
local == <<reclaimer, participant>>
vars == <<next_reclaimer_id_, alive, participants_, memory, running, cache_, pc, local>>

Entry(r) == r % kReclaimerCacheSize

EmptyCache == [i \in 0 .. kReclaimerCacheSize - 1 |-> [reclaimer_id |-> 0, participant |-> None]]

Goto(t, label) == pc' = [pc EXCEPT ![t] = label]

Init ==
  /\ next_reclaimer_id_ = 1
  /\ alive = {}
  /\ participants_ = [r \in Id |-> None]
  /\ owner = [p \in Participant |-> None]
  /\ next = [p \in Participant |-> None]
  /\ home = [p \in Participant |-> 0]
  /\ running = [t \in Thread |-> None]
  /\ cache_ = [o \in Owner |-> EmptyCache]
  /\ pc = [t \in Thread |-> "idle"]
  /\ reclaimer = [t \in Thread |-> 0]
  /\ participant = [t \in Thread |-> None]

-----------------------------------------------------------------------------
\* A thread starts, with a fresh cache_ at an address no other thread has.
Start(t, o) ==
  /\ running[t] = None
  /\ \A u \in Thread : running[u] # o
  /\ running' = [running EXCEPT ![t] = o]
  /\ cache_' = [cache_ EXCEPT ![o] = EmptyCache]
  /\ UNCHANGED <<next_reclaimer_id_, alive, participants_, memory, pc, local>>

\* It ends; its participants stay, with what they hold.
Exit(t) ==
  /\ running[t] # None
  /\ pc[t] = "idle"
  /\ running' = [running EXCEPT ![t] = None]
  /\ UNCHANGED <<next_reclaimer_id_, alive, participants_, memory, cache_, pc, local>>

\* Mutant of Create: the id of a reclaimer that is gone is given out again.
CreateWithFreedId ==
  /\ alive # Id
  /\ \E r \in Id \ alive : alive' = alive \cup {r}
  /\ UNCHANGED <<next_reclaimer_id_, participants_, memory, running, cache_, pc, local>>

\* EpochReclaimer()
Create ==
  /\ next_reclaimer_id_ <= MaxReclaimers
  /\ alive' = alive \cup {next_reclaimer_id_}
  /\ next_reclaimer_id_' = next_reclaimer_id_ + 1
  /\ UNCHANGED <<participants_, memory, running, cache_, pc, local>>

\* The constructor throws when RegisterMembarrier() fails; its id is gone.
CreateThrows ==
  /\ next_reclaimer_id_ <= MaxReclaimers
  /\ next_reclaimer_id_' = next_reclaimer_id_ + 1
  /\ UNCHANGED <<alive, participants_, memory, running, cache_, pc, local>>

\* What following f leads to from p, p included: the least set that has p and
\* whatever f has after its members.
From(f, p) ==
  LET closed == {S \in SUBSET Participant :
                   p \in S \cup {None} /\ \A q \in S : f[q] \in S \cup {None}}
  IN  {q \in Participant : \A S \in closed : q \in S}

\* The participants in the list of r.
Listed(r) == From(next, participants_[r])

\* ~EpochReclaimer(), once every thread has finished with the structure.
Destroy(r) ==
  /\ r \in alive
  /\ \A t \in Thread : reclaimer[t] # r
  /\ alive' = alive \ {r}
  /\ participants_' = [participants_ EXCEPT ![r] = None]
  /\ home' = [p \in Participant |-> IF p \in Listed(r) THEN 0 ELSE home[p]]
  /\ owner' = [p \in Participant |-> IF p \in Listed(r) THEN None ELSE owner[p]]
  /\ next' = [p \in Participant |-> IF p \in Listed(r) THEN None ELSE next[p]]
  /\ UNCHANGED <<next_reclaimer_id_, running, cache_, pc, local>>

-----------------------------------------------------------------------------
\* Mutant of Hit: whatever is in the entry is taken.
HitWithoutId(t, r) ==
  LET slot == cache_[running[t]][Entry(r)]
  IN
  /\ running[t] # None /\ pc[t] = "idle" /\ r \in alive
  /\ slot.participant # None
  /\ reclaimer' = [reclaimer EXCEPT ![t] = r]
  /\ participant' = [participant EXCEPT ![t] = slot.participant]
  /\ Goto(t, "guard")
  /\ UNCHANGED <<next_reclaimer_id_, alive, participants_, memory, running, cache_>>

\* Self() finds the reclaimer's id in the cache,
Hit(t, r) ==
  LET slot == cache_[running[t]][Entry(r)]
  IN
  /\ running[t] # None /\ pc[t] = "idle" /\ r \in alive
  /\ slot.reclaimer_id = r
  /\ reclaimer' = [reclaimer EXCEPT ![t] = r]
  /\ participant' = [participant EXCEPT ![t] = slot.participant]
  /\ Goto(t, "guard")
  /\ UNCHANGED <<next_reclaimer_id_, alive, participants_, memory, running, cache_>>

\* or Adopt() starts from the head of the list,
Miss(t, r) ==
  /\ running[t] # None /\ pc[t] = "idle" /\ r \in alive
  /\ cache_[running[t]][Entry(r)].reclaimer_id # r
  /\ reclaimer' = [reclaimer EXCEPT ![t] = r]
  /\ participant' = [participant EXCEPT ![t] = participants_[r]]
  /\ Goto(t, "walk")
  /\ UNCHANGED <<next_reclaimer_id_, alive, participants_, memory, running, cache_>>

\* looks for the participant the thread left behind,
Walk(t) ==
  /\ pc[t] = "walk"
  /\ participant[t] # None
  /\ owner[participant[t]] # running[t]
  /\ participant' = [participant EXCEPT ![t] = next[participant[t]]]
  /\ UNCHANGED <<next_reclaimer_id_, alive, participants_, memory, running,
                 cache_, pc, reclaimer>>

Remember(t) ==
  cache_' = [cache_ EXCEPT ![running[t]][Entry(reclaimer[t])] =
               [reclaimer_id |-> reclaimer[t], participant |-> participant'[t]]]

Found(t) ==
  /\ pc[t] = "walk"
  /\ participant[t] # None
  /\ owner[participant[t]] = running[t]
  /\ UNCHANGED participant
  /\ Remember(t)
  /\ Goto(t, "guard")
  /\ UNCHANGED <<next_reclaimer_id_, alive, participants_, memory, running, reclaimer>>

\* or makes one that is to come before the head,
MakeOne(t, p) ==
  /\ pc[t] = "walk"
  /\ participant[t] = None
  /\ home[p] = 0
  /\ home' = [home EXCEPT ![p] = reclaimer[t]]
  /\ owner' = [owner EXCEPT ![p] = running[t]]
  /\ next' = [next EXCEPT ![p] = participants_[reclaimer[t]]]
  /\ participant' = [participant EXCEPT ![t] = p]
  /\ Goto(t, "push")
  /\ UNCHANGED <<next_reclaimer_id_, alive, participants_, running, cache_, reclaimer>>

\* (for which there may be no memory)
NewThrows(t) ==
  /\ pc[t] = "walk"
  /\ participant[t] = None
  /\ reclaimer' = [reclaimer EXCEPT ![t] = 0]
  /\ Goto(t, "idle")
  /\ UNCHANGED <<next_reclaimer_id_, alive, participants_, memory, running,
                 cache_, participant>>

\* Mutant of Push: a plain store, whatever the head is by now.
PushUnchecked(t) ==
  /\ pc[t] = "push"
  /\ participants_' = [participants_ EXCEPT ![reclaimer[t]] = participant[t]]
  /\ UNCHANGED participant
  /\ Remember(t)
  /\ Goto(t, "guard")
  /\ UNCHANGED <<next_reclaimer_id_, alive, memory, running, reclaimer>>

\* and publishes it,
Push(t) ==
  LET p == participant[t]
  IN
  /\ pc[t] = "push"
  /\ participants_[reclaimer[t]] = next[p]
  /\ participants_' = [participants_ EXCEPT ![reclaimer[t]] = p]
  /\ UNCHANGED participant
  /\ Remember(t)
  /\ Goto(t, "guard")
  /\ UNCHANGED <<next_reclaimer_id_, alive, memory, running, reclaimer>>

\* unless the head has changed meanwhile: it tries again with the new one.
PushFails(t) ==
  LET p == participant[t]
  IN
  /\ pc[t] = "push"
  /\ participants_[reclaimer[t]] # next[p]
  /\ next' = [next EXCEPT ![p] = participants_[reclaimer[t]]]
  /\ UNCHANGED <<next_reclaimer_id_, alive, participants_, owner, home, running,
                 cache_, pc, local>>

\* The Guard is left.
Leave(t) ==
  /\ pc[t] = "guard"
  /\ reclaimer' = [reclaimer EXCEPT ![t] = 0]
  /\ participant' = [participant EXCEPT ![t] = None]
  /\ Goto(t, "idle")
  /\ UNCHANGED <<next_reclaimer_id_, alive, participants_, memory, running, cache_>>

Self(t) == \E r \in Id : Hit(t, r) \/ Miss(t, r)

Adopt(t) ==
  \/ Walk(t)
  \/ Found(t)
  \/ \E p \in Participant : MakeOne(t, p)
  \/ NewThrows(t)
  \/ Push(t)
  \/ PushFails(t)

Next ==
  \/ \E t \in Thread :
       \/ \E o \in Owner : Start(t, o)
       \/ Exit(t)
       \/ Self(t)
       \/ Adopt(t)
       \/ Leave(t)
  \/ Create
  \/ CreateThrows
  \/ \E r \in Id : Destroy(r)

Spec == Init /\ [][Next]_vars

-----------------------------------------------------------------------------
\* Every variable has its type.
TypeOK ==
  /\ next_reclaimer_id_ \in 1 .. MaxReclaimers + 1
  /\ alive \subseteq Id
  /\ participants_ \in [Id -> Participant \cup {None}]
  /\ owner \in [Participant -> Owner \cup {None}]
  /\ next \in [Participant -> Participant \cup {None}]
  /\ home \in [Participant -> 0 .. MaxReclaimers]
  /\ running \in [Thread -> Owner \cup {None}]
  /\ cache_ \in [Owner -> [0 .. kReclaimerCacheSize - 1 ->
                   [reclaimer_id : 0 .. MaxReclaimers, participant : Participant \cup {None}]]]
  /\ pc \in [Thread -> {"idle", "walk", "push", "guard"}]
  /\ reclaimer \in [Thread -> 0 .. MaxReclaimers]
  /\ participant \in [Thread -> Participant \cup {None}]

\* A Guard has a participant that is in the list of its reclaimer, is in no
\* other thread's hands and is the only one there of this thread, whether it
\* came from the cache, was left behind by an earlier thread or is new.
RightParticipant ==
  \A t \in Thread :
    pc[t] = "guard" =>
      /\ participant[t] \in Listed(reclaimer[t])
      /\ \A p \in Listed(reclaimer[t]) : owner[p] = running[t] <=> p = participant[t]
      /\ \A u \in Thread \ {t} : participant[u] = participant[t] => pc[u] = "walk"

\* A cache entry never leads to a participant that was freed, or freed and
\* allocated again, while its reclaimer's id can still be asked for.
CacheIsFresh ==
  \A o \in Owner : \A i \in 0 .. kReclaimerCacheSize - 1 :
    LET slot == cache_[o][i]
    IN  slot.reclaimer_id \in alive =>
          /\ slot.participant \in Listed(slot.reclaimer_id)
          /\ owner[slot.participant] = o

\* Concurrent pushes lose no participant: each that was allocated is in the
\* list of its reclaimer, where a scan finds it, or about to get there.
NoneLost ==
  \A p \in Participant :
    home[p] # 0 =>
      \/ p \in Listed(home[p])
      \/ \E t \in Thread : pc[t] = "push" /\ participant[t] = p
=============================================================================
