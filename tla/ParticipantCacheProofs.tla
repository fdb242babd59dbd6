----------------------- MODULE ParticipantCacheProofs -----------------------
(***************************************************************************)
(* Proofs about ParticipantCache, for any number of threads, addresses and *)
(* reclaimers and any size of the cache.                                   *)
(*                                                                         *)
(* The three properties need each other and more: that lists of different  *)
(* reclaimers do not meet, that a participant being pushed is in none and  *)
(* nothing points to it, that a list has one participant per owner, and    *)
(* that a thread that walks has not passed its own.                        *)
(***************************************************************************)
EXTENDS ParticipantCache, TLAPS

Chain == [Participant -> Participant \cup {None}]

-----------------------------------------------------------------------------
\* What From() is: the least set that is closed under f and has p.
LEMMA FromLeast ==
  ASSUME NEW f \in Chain, NEW p \in Participant \cup {None},
         NEW S \in SUBSET Participant, p \in S \cup {None},
         \A q \in S : f[q] \in S \cup {None}
  PROVE  From(f, p) \subseteq S
  BY DEF From

\* It is closed itself, and has p.
LEMMA FromClosed ==
  ASSUME NEW f \in Chain, NEW p \in Participant \cup {None}
  PROVE  /\ From(f, p) \in SUBSET Participant
         /\ p \in From(f, p) \cup {None}
         /\ \A q \in From(f, p) : f[q] \in From(f, p) \cup {None}
  <1>1. From(f, p) \in SUBSET Participant
    BY DEF From
  <1>2. p \in From(f, p) \cup {None}
    BY DEF From
  <1>3. ASSUME NEW q \in From(f, p)
        PROVE  f[q] \in From(f, p) \cup {None}
    BY <1>3 DEF From, Chain
  <1> QED
    BY <1>1, <1>2, <1>3

\* Nothing comes after None.
LEMMA FromNone ==
  ASSUME NEW f \in Chain
  PROVE  From(f, None) = {}
  <1>1. /\ {} \in SUBSET Participant
        /\ None \in {} \cup {None}
        /\ \A q \in {} : f[q] \in {} \cup {None}
    OBVIOUS
  <1>2. From(f, None) \subseteq {}
    BY <1>1, FromLeast
  <1> QED
    BY <1>2

\* What comes from p is p and what comes after it.
LEMMA FromStep ==
  ASSUME NEW f \in Chain, NEW p \in Participant
  PROVE  From(f, p) = {p} \cup From(f, f[p])
  <1> DEFINE S == {p} \cup From(f, f[p])
  <1>0. f[p] \in Participant \cup {None}
    BY DEF Chain
  <1>1. /\ S \in SUBSET Participant
        /\ p \in S \cup {None}
        /\ \A q \in S : f[q] \in S \cup {None}
    BY <1>0, FromClosed
  <1>2. From(f, p) \subseteq S
    BY <1>1, FromLeast
  <1>3. /\ From(f, p) \in SUBSET Participant
        /\ p \in From(f, p)
        /\ f[p] \in From(f, p) \cup {None}
        /\ \A q \in From(f, p) : f[q] \in From(f, p) \cup {None}
    BY FromClosed, NoneAssumption
  <1>4. From(f, f[p]) \subseteq From(f, p)
    BY <1>0, <1>3, FromLeast
  <1> QED
    BY <1>2, <1>3, <1>4

\* A change elsewhere does not change what comes from p.
LEMMA FromSame ==
  ASSUME NEW f \in Chain, NEW g \in Chain, NEW p \in Participant \cup {None},
         \A q \in From(f, p) : g[q] = f[q]
  PROVE  From(g, p) = From(f, p)
  <1> DEFINE R == From(f, p)
  <1>0. /\ R \in SUBSET Participant
        /\ p \in R \cup {None}
        /\ \A q \in R : g[q] \in R \cup {None}
    BY FromClosed
  <1>1. From(g, p) \subseteq R
    BY <1>0, FromLeast
  <1> DEFINE S == From(f, p) \cap From(g, p)
  <1>2. /\ S \in SUBSET Participant
        /\ p \in S \cup {None}
        /\ \A q \in S : f[q] \in S \cup {None}
    BY FromClosed
  <1> HIDE DEF R, S
  <1>3. From(f, p) \subseteq S
    BY <1>2, FromLeast
  <1> QED
    BY <1>1, <1>3 DEF R, S

\* What nothing points to does not come from anything else.
LEMMA FromAvoids ==
  ASSUME NEW f \in Chain, NEW p \in Participant \cup {None}, NEW x \in Participant,
         p # x, \A q \in Participant : f[q] # x
  PROVE  x \notin From(f, p)
  <1> DEFINE S == Participant \ {x}
  <1>1. /\ S \in SUBSET Participant
        /\ p \in S \cup {None}
        /\ \A q \in S : f[q] \in S \cup {None}
    BY DEF Chain
  <1> QED
    BY <1>1, FromLeast

-----------------------------------------------------------------------------
\* The inductive invariant, part by part.  Ids are given out once.
Ids == \A r \in alive : r < next_reclaimer_id_

\* A list has participants of its reclaimer only, which is alive.
Heads ==
  \A r \in Id : participants_[r] # None => r \in alive /\ home[participants_[r]] = r

Nexts ==
  \A p \in Participant :
    next[p] # None => home[p] # 0 /\ home[next[p]] = home[p]

Allocated ==
  \A p \in Participant : home[p] # 0 => home[p] \in alive /\ owner[p] # None

\* A reclaimer has one participant of each owner.
OnePerOwner ==
  \A r \in Id : \A p, q \in Listed(r) : owner[p] = owner[q] => p = q

\* Threads have addresses of their own and reclaimers that are alive.
Threads ==
  /\ \A t, u \in Thread : running[t] # None /\ running[t] = running[u] => t = u
  /\ \A t \in Thread :
       IF pc[t] = "idle" THEN reclaimer[t] = 0 /\ participant[t] = None
                         ELSE running[t] # None /\ reclaimer[t] \in alive

\* A thread that walks has its own participant, if there is one, before it.
Walking ==
  \A t \in Thread :
    pc[t] = "walk" =>
      /\ participant[t] \in Listed(reclaimer[t]) \cup {None}
      /\ \A q \in Listed(reclaimer[t]) :
           owner[q] = running[t] => q \in From(next, participant[t])

\* A participant being pushed is its thread's only one, and nothing leads to it.
Pushing ==
  \A t \in Thread :
    pc[t] = "push" =>
      /\ participant[t] \in Participant
      /\ home[participant[t]] = reclaimer[t]
      /\ owner[participant[t]] = running[t]
      /\ \A r \in Id : participants_[r] # participant[t]
      /\ \A q \in Participant : next[q] # participant[t]
      /\ \A q \in Listed(reclaimer[t]) : owner[q] # running[t]

\* A Guard has its thread's participant.
Guarding ==
  \A t \in Thread :
    pc[t] = "guard" =>
      participant[t] \in Listed(reclaimer[t]) /\ owner[participant[t]] = running[t]

Caches ==
  \A o \in Owner : \A i \in 0 .. kReclaimerCacheSize - 1 :
    LET slot == cache_[o][i]
    IN  /\ slot.reclaimer_id < next_reclaimer_id_
        /\ slot.reclaimer_id \in alive =>
             /\ slot.participant \in Listed(slot.reclaimer_id)
             /\ owner[slot.participant] = o

IInv ==
  /\ TypeOK /\ Ids /\ Heads /\ Nexts /\ Allocated /\ NoneLost /\ OnePerOwner
  /\ Threads /\ Walking /\ Pushing /\ Guarding /\ Caches

-----------------------------------------------------------------------------
\* Every list is a chain of participants of its reclaimer.
LEMMA ListedAtHome ==
  ASSUME TypeOK, Heads, Nexts, NEW r \in Id
  PROVE  /\ Listed(r) \in SUBSET Participant
         /\ participants_[r] \in Listed(r) \cup {None}
         /\ \A p \in Listed(r) : home[p] = r
         /\ \A p \in Listed(r) : next[p] \in Listed(r) \cup {None}
  <1> DEFINE S == {p \in Participant : home[p] = r}
  <1>1. next \in Chain /\ participants_[r] \in Participant \cup {None}
    BY DEF TypeOK, Chain
  <1>2. /\ S \in SUBSET Participant
        /\ participants_[r] \in S \cup {None}
        /\ \A q \in S : next[q] \in S \cup {None}
    BY <1>1 DEF Heads, Nexts, TypeOK
  <1>3. From(next, participants_[r]) \subseteq S
    BY <1>1, <1>2, FromLeast
  <1> QED
    BY <1>1, <1>3, FromClosed DEF Listed

\* What no head and no participant points to is in no list.
LEMMA Unlisted ==
  ASSUME TypeOK, NEW x \in Participant, NEW r \in Id, participants_[r] # x,
         \A q \in Participant : next[q] # x
  PROVE  x \notin Listed(r)
  BY FromAvoids DEF TypeOK, Chain, Listed

\* A participant that is not allocated is pointed to by nothing.
LEMMA FreeIsUnlisted ==
  ASSUME TypeOK, Heads, Nexts, NEW x \in Participant, home[x] = 0
  PROVE  /\ \A r \in Id : participants_[r] # x
         /\ \A q \in Participant : next[q] # x
  <1>1. x # None /\ \A r \in Id : r # 0
    BY NoneAssumption, ReclaimersAssumption DEF Id
  <1>2. \A r \in Id : participants_[r] # x
    BY <1>1 DEF Heads
  <1>3. \A q \in Participant : next[q] # x
    BY <1>1, Zenon DEF Nexts
  <1> QED
    BY <1>2, <1>3

\* The entry of a reclaimer is in the cache.
LEMMA EntryInCache ==
  ASSUME NEW r \in Id
  PROVE  Entry(r) \in 0 .. kReclaimerCacheSize - 1
  BY CacheAssumption, ReclaimersAssumption DEF Entry, Id

-----------------------------------------------------------------------------
\* It holds at the start.
LEMMA InitIInv == Init => IInv
  <1> SUFFICES ASSUME Init PROVE IInv
    OBVIOUS
  <1> USE ReclaimersAssumption, CacheAssumption, NoneAssumption DEF Init
  <1>1. TypeOK
    BY DEF TypeOK, EmptyCache, Id
  <1>2. \A r \in Id : Listed(r) = {}
    <2>1. next \in Chain
      BY DEF Chain
    <2> QED
      BY <2>1, FromNone DEF Listed
  <1>3. Ids /\ Heads /\ Nexts /\ Allocated /\ NoneLost /\ OnePerOwner
    BY <1>2 DEF Ids, Heads, Nexts, Allocated, NoneLost, OnePerOwner
  <1>4. Threads /\ Walking /\ Pushing /\ Guarding
    BY DEF Threads, Walking, Pushing, Guarding
  <1>5. Caches
    BY DEF Caches, EmptyCache
  <1> QED
    BY <1>1, <1>3, <1>4, <1>5 DEF IInv

\* What no step disturbs that leaves the participants and their lists alone.
LEMMA SameLists ==
  ASSUME IInv, UNCHANGED <<participants_, memory>>, alive \subseteq alive'
  PROVE  Heads' /\ Nexts' /\ Allocated' /\ OnePerOwner'
  BY DEF IInv, memory, Heads, Nexts, Allocated, OnePerOwner, Listed

\* What the steps need of the types.
LEMMA Types ==
  ASSUME TypeOK
  PROVE  /\ running \in [Thread -> Owner \cup {None}]
         /\ pc \in [Thread -> {"idle", "walk", "push", "guard"}]
         /\ reclaimer \in [Thread -> 0 .. MaxReclaimers]
         /\ participant \in [Thread -> Participant \cup {None}]
         /\ 0 \in 0 .. MaxReclaimers /\ 0 \notin alive /\ alive \subseteq Id
         /\ next_reclaimer_id_ \in Nat /\ 0 < next_reclaimer_id_
  BY ReclaimersAssumption DEF TypeOK, Id

\* And of the type of the cache.
LEMMA CacheTypes ==
  ASSUME TypeOK
  PROVE  cache_ \in [Owner -> [0 .. kReclaimerCacheSize - 1 ->
           [reclaimer_id : 0 .. MaxReclaimers, participant : Participant \cup {None}]]]
  BY DEF TypeOK

\* A thread that starts has an empty cache; nobody used its address.
LEMMA StartStep ==
  ASSUME IInv, NEW t \in Thread, NEW o \in Owner, Start(t, o)
  PROVE  IInv'
  <1> USE Types DEF IInv, Start, memory, local
  <1>1. TypeOK'
    <2>1. EmptyCache \in [0 .. kReclaimerCacheSize - 1 ->
           [reclaimer_id : 0 .. MaxReclaimers, participant : Participant \cup {None}]]
      BY DEF EmptyCache
    <2>2. cache_' \in [Owner -> [0 .. kReclaimerCacheSize - 1 ->
           [reclaimer_id : 0 .. MaxReclaimers, participant : Participant \cup {None}]]]
      BY <2>1, CacheTypes
    <2> QED
      BY <2>2 DEF TypeOK
  <1>2. Heads' /\ Nexts' /\ Allocated' /\ OnePerOwner'
    BY SameLists
  <1>3. Ids'
    BY DEF Ids
  <1>4. NoneLost'
    BY DEF NoneLost, Listed
  <1>5. Threads'
    BY DEF Threads
  <1>6. Walking'
    BY DEF Threads, Walking, Listed
  <1>7. Pushing'
    BY DEF Threads, Pushing, Listed
  <1>8. Guarding'
    BY DEF Threads, Guarding, Listed
  <1>9. Caches'
    <2> SUFFICES ASSUME NEW a \in Owner, NEW i \in 0 .. kReclaimerCacheSize - 1
                 PROVE  LET slot == cache_'[a][i]
                        IN  /\ slot.reclaimer_id < next_reclaimer_id_
                            /\ slot.reclaimer_id \in alive =>
                                 /\ slot.participant \in Listed(slot.reclaimer_id)
                                 /\ owner[slot.participant] = a
      BY DEF Caches, Listed
    <2>1. CASE a = o
      BY <2>1, CacheTypes DEF EmptyCache
    <2>2. CASE a # o
      BY <2>2, CacheTypes DEF Caches
    <2> QED
      BY <2>1, <2>2
  <1> QED
    BY <1>1, <1>2, <1>3, <1>4, <1>5, <1>6, <1>7, <1>8, <1>9

\* A thread that ends leaves its participants, and its cache, as they are.
LEMMA ExitStep ==
  ASSUME IInv, NEW t \in Thread, Exit(t)
  PROVE  IInv'
  <1> USE Types DEF IInv, Exit, memory, local
  <1>1. TypeOK'
    BY DEF TypeOK
  <1>2. Heads' /\ Nexts' /\ Allocated' /\ OnePerOwner'
    BY SameLists
  <1>3. Ids'
    BY DEF Ids
  <1>4. NoneLost'
    BY DEF NoneLost, Listed
  <1>5. Threads'
    BY DEF Threads
  <1>6. Walking'
    BY DEF Walking, Listed
  <1>7. Pushing'
    BY DEF Pushing, Listed
  <1>8. Guarding'
    BY DEF Guarding, Listed
  <1>9. Caches'
    BY DEF Caches, Listed
  <1> QED
    BY <1>1, <1>2, <1>3, <1>4, <1>5, <1>6, <1>7, <1>8, <1>9

\* A new reclaimer has an id that no cache has.
LEMMA CreateStep ==
  ASSUME IInv, Create \/ CreateThrows
  PROVE  IInv'
  <1> USE Types DEF IInv, Create, CreateThrows, memory, local
  <1>1. TypeOK'
    <2>0. next_reclaimer_id_ \in Id /\ next_reclaimer_id_ + 1 \in 1 .. MaxReclaimers + 1
      BY ReclaimersAssumption DEF TypeOK, Id
    <2>1. alive' \subseteq Id /\ next_reclaimer_id_' \in 1 .. MaxReclaimers + 1
      BY <2>0
    <2> QED
      BY <2>1 DEF TypeOK
  <1>2. Heads' /\ Nexts' /\ Allocated' /\ OnePerOwner'
    BY SameLists
  <1>3. Ids'
    BY ReclaimersAssumption DEF Ids, Id
  <1>4. NoneLost'
    BY DEF NoneLost, Listed
  <1>5. Threads'
    BY DEF Threads
  <1>6. Walking'
    BY DEF Walking, Listed
  <1>7. Pushing'
    BY DEF Pushing, Listed
  <1>8. Guarding'
    BY DEF Guarding, Listed
  <1>9. Caches'
    <2> SUFFICES ASSUME NEW a \in Owner, NEW i \in 0 .. kReclaimerCacheSize - 1
                 PROVE  LET slot == cache_[a][i]
                        IN  /\ slot.reclaimer_id < next_reclaimer_id_'
                            /\ slot.reclaimer_id \in alive' =>
                                 /\ slot.participant \in Listed(slot.reclaimer_id)
                                 /\ owner[slot.participant] = a
      BY DEF Caches, Listed
    <2>0. cache_[a][i].reclaimer_id \in 0 .. MaxReclaimers
      BY CacheTypes
    <2>1. cache_[a][i].reclaimer_id \in Nat
      BY <2>0, ReclaimersAssumption
    <2> QED
      BY <2>1 DEF Caches
  <1> QED
    BY <1>1, <1>2, <1>3, <1>4, <1>5, <1>6, <1>7, <1>8, <1>9

\* A thread that is done with a participant disturbs no list.
LEMMA LeaveStep ==
  ASSUME IInv, NEW t \in Thread, Leave(t) \/ NewThrows(t)
  PROVE  IInv'
  <1> USE Types DEF IInv, Leave, NewThrows, memory, local, Goto
  <1>1. TypeOK'
    BY DEF TypeOK
  <1>2. Heads' /\ Nexts' /\ Allocated' /\ OnePerOwner'
    BY SameLists
  <1>3. Ids'
    BY DEF Ids
  <1>4. NoneLost'
    BY DEF NoneLost, Listed
  <1>5. Threads'
    BY DEF Threads
  <1>6. Walking'
    BY DEF Walking, Listed
  <1>7. Pushing'
    BY DEF Pushing, Listed
  <1>8. Guarding'
    BY DEF Guarding, Listed
  <1>9. Caches'
    BY DEF Caches, Listed
  <1> QED
    BY <1>1, <1>2, <1>3, <1>4, <1>5, <1>6, <1>7, <1>8, <1>9

\* The entry that is hit has the thread's participant, as Caches says.
LEMMA HitStep ==
  ASSUME IInv, NEW t \in Thread, NEW r \in Id, Hit(t, r)
  PROVE  IInv'
  <1> USE Types DEF IInv, Hit, memory, local, Goto
  <1>1. TypeOK'
    <2>1. cache_[running[t]][Entry(r)].participant \in Participant \cup {None}
      BY EntryInCache, CacheTypes
    <2>2. r \in 0 .. MaxReclaimers
      BY ReclaimersAssumption DEF Id
    <2> QED
      BY <2>1, <2>2 DEF TypeOK
  <1>2. Heads' /\ Nexts' /\ Allocated' /\ OnePerOwner'
    BY SameLists
  <1>3. Ids'
    BY DEF Ids
  <1>4. NoneLost'
    BY DEF NoneLost, Listed
  <1>5. Threads'
    BY DEF Threads, Id
  <1>6. Walking'
    BY DEF Walking, Listed
  <1>7. Pushing'
    BY DEF Pushing, Listed
  <1>8. Guarding'
    <2>1. /\ cache_[running[t]][Entry(r)].participant \in Listed(r)
          /\ owner[cache_[running[t]][Entry(r)].participant] = running[t]
      BY EntryInCache DEF Caches
    <2> QED
      BY <2>1, ReclaimersAssumption DEF Guarding, Listed, Id
  <1>9. Caches'
    BY DEF Caches, Listed
  <1> QED
    BY <1>1, <1>2, <1>3, <1>4, <1>5, <1>6, <1>7, <1>8, <1>9

\* The walk starts with all of the list before it.
LEMMA MissStep ==
  ASSUME IInv, NEW t \in Thread, NEW r \in Id, Miss(t, r)
  PROVE  IInv'
  <1> USE Types DEF IInv, Miss, memory, local, Goto
  <1>1. TypeOK'
    <2>1. r \in 0 .. MaxReclaimers /\ participants_[r] \in Participant \cup {None}
      BY ReclaimersAssumption DEF Id, TypeOK
    <2> QED
      BY <2>1 DEF TypeOK
  <1>2. Heads' /\ Nexts' /\ Allocated' /\ OnePerOwner'
    BY SameLists
  <1>3. Ids'
    BY DEF Ids
  <1>4. NoneLost'
    BY DEF NoneLost, Listed
  <1>5. Threads'
    BY DEF Threads
  <1>6. Walking'
    <2>1. participants_[r] \in Listed(r) \cup {None}
      BY ListedAtHome
    <2>2. r \in 0 .. MaxReclaimers
      BY ReclaimersAssumption DEF Id
    <2> QED
      BY <2>1, <2>2 DEF Walking, Listed
  <1>7. Pushing'
    BY DEF Pushing, Listed
  <1>8. Guarding'
    BY DEF Guarding, Listed
  <1>9. Caches'
    BY DEF Caches, Listed
  <1> QED
    BY <1>1, <1>2, <1>3, <1>4, <1>5, <1>6, <1>7, <1>8, <1>9

\* What is passed is not the thread's own.
LEMMA WalkStep ==
  ASSUME IInv, NEW t \in Thread, Walk(t)
  PROVE  IInv'
  <1> USE Types DEF IInv, Walk, memory, local
  <1>1. TypeOK'
    <2>1. next[participant[t]] \in Participant \cup {None}
      BY DEF TypeOK
    <2> QED
      BY <2>1 DEF TypeOK
  <1>2. Heads' /\ Nexts' /\ Allocated' /\ OnePerOwner'
    BY SameLists
  <1>3. Ids'
    BY DEF Ids
  <1>4. NoneLost'
    BY DEF NoneLost, Listed
  <1>5. Threads'
    BY DEF Threads
  <1>6. Walking'
    <2> DEFINE r == reclaimer[t]
    <2> DEFINE p == participant[t]
    <2>1. r \in Id /\ p \in Listed(r) /\ p \in Participant
      BY DEF Threads, Walking
    <2>2. next[p] \in Listed(r) \cup {None}
      BY <2>1, ListedAtHome
    <2>3. From(next, p) = {p} \cup From(next, next[p])
      BY <2>1, FromStep DEF TypeOK, Chain
    <2>4. \A q \in Listed(r) : owner[q] = running[t] => q \in From(next, next[p])
      BY <2>1, <2>3 DEF Walking
    <2> HIDE DEF r, p
    <2>5. participant' = [participant EXCEPT ![t] = next[p]]
      BY DEF p
    <2> QED
      BY <2>2, <2>4, <2>5 DEF Walking, Listed, r
  <1>7. Pushing'
    BY DEF Pushing, Listed
  <1>8. Guarding'
    BY DEF Guarding, Listed
  <1>9. Caches'
    BY DEF Caches, Listed
  <1> QED
    BY <1>1, <1>2, <1>3, <1>4, <1>5, <1>6, <1>7, <1>8, <1>9

\* What is found is remembered as what it is.
LEMMA FoundStep ==
  ASSUME IInv, NEW t \in Thread, Found(t)
  PROVE  IInv'
  <1> USE Types DEF IInv, Found, Remember, memory, local, Goto
  <1>1. TypeOK'
    <2>1. cache_' \in [Owner -> [0 .. kReclaimerCacheSize - 1 ->
           [reclaimer_id : 0 .. MaxReclaimers, participant : Participant \cup {None}]]]
      BY CacheTypes
    <2> QED
      BY <2>1 DEF TypeOK
  <1>2. Heads' /\ Nexts' /\ Allocated' /\ OnePerOwner'
    BY SameLists
  <1>3. Ids'
    BY DEF Ids
  <1>4. NoneLost'
    BY DEF NoneLost, Listed
  <1>5. Threads'
    BY DEF Threads
  <1>6. Walking'
    BY DEF Walking, Listed
  <1>7. Pushing'
    BY DEF Pushing, Listed
  <1>8. Guarding'
    <2>1. participant[t] \in Listed(reclaimer[t])
      BY DEF Walking
    <2> QED
      BY <2>1 DEF Guarding, Listed
  <1>9. Caches'
    <2> SUFFICES ASSUME NEW a \in Owner, NEW i \in 0 .. kReclaimerCacheSize - 1
                 PROVE  LET slot == cache_'[a][i]
                        IN  /\ slot.reclaimer_id < next_reclaimer_id_
                            /\ slot.reclaimer_id \in alive =>
                                 /\ slot.participant \in Listed(slot.reclaimer_id)
                                 /\ owner[slot.participant] = a
      BY DEF Caches, Listed
    <2>1. CASE a = running[t] /\ i = Entry(reclaimer[t])
      <3>1. cache_'[a][i] = [reclaimer_id |-> reclaimer[t], participant |-> participant[t]]
        BY <2>1, CacheTypes
      <3>2. participant[t] \in Listed(reclaimer[t])
        BY DEF Walking
      <3>3. reclaimer[t] \in alive /\ reclaimer[t] < next_reclaimer_id_
        BY DEF Threads, Ids
      <3> QED
        BY <2>1, <3>1, <3>2, <3>3
    <2>2. CASE ~(a = running[t] /\ i = Entry(reclaimer[t]))
      <3>1. cache_'[a][i] = cache_[a][i]
        BY <2>2, CacheTypes
      <3> QED
        BY <3>1 DEF Caches
    <2> QED
      BY <2>1, <2>2
  <1> QED
    BY <1>1, <1>2, <1>3, <1>4, <1>5, <1>6, <1>7, <1>8, <1>9

-----------------------------------------------------------------------------
\* Changing what comes after a participant nothing points to.
LEMMA PrivateChange ==
  ASSUME IInv, NEW x \in Participant, NEW v \in Participant \cup {None},
         \A r \in Id : participants_[r] # x,
         \A q \in Participant : next[q] # x,
         next' = [next EXCEPT ![x] = v], UNCHANGED participants_
  PROVE  /\ \A r \in Id : x \notin Listed(r) /\ Listed(r)' = Listed(r)
         /\ \A p \in (Participant \cup {None}) \ {x} : From(next', p) = From(next, p)
  <1>1. next \in Chain /\ next' \in Chain
    BY DEF IInv, TypeOK, Chain
  <1>2. ASSUME NEW p \in (Participant \cup {None}) \ {x}
        PROVE  From(next', p) = From(next, p)
    <2>1. x \notin From(next, p) /\ From(next, p) \in SUBSET Participant
      BY <1>1, FromAvoids, FromClosed
    <2>2. \A q \in From(next, p) : next'[q] = next[q]
      BY <1>1, <2>1 DEF Chain
    <2> QED
      BY <1>1, <2>2, FromSame
  <1>3. ASSUME NEW r \in Id
        PROVE  x \notin Listed(r) /\ Listed(r)' = Listed(r)
    <2>1. participants_[r] \in (Participant \cup {None}) \ {x}
      BY DEF IInv, TypeOK
    <2> QED
      BY <1>2, <2>1, Unlisted DEF IInv, Listed
  <1> QED
    BY <1>2, <1>3

\* A new participant is in no list yet, and its thread has no other: the walk
\* that found none has seen all that can be its own.
LEMMA MakeOneStep ==
  ASSUME IInv, NEW t \in Thread, NEW p \in Participant, MakeOne(t, p)
  PROVE  IInv'
  <1> DEFINE r == reclaimer[t]
  <1> USE Types DEF IInv, MakeOne, Goto
  <1>0. /\ r \in Id /\ r \in alive /\ r # 0 /\ running[t] # None
        /\ pc[t] = "walk" /\ participant[t] = None /\ home[p] = 0
    BY DEF Threads
  <1>1. /\ participants_[r] \in (Participant \cup {None}) \ {p}
        /\ \A s \in Id : participants_[s] # p
        /\ \A q \in Participant : next[q] # p
    BY <1>0, FreeIsUnlisted DEF TypeOK
  <1>2. next' = [next EXCEPT ![p] = participants_[r]] /\ UNCHANGED participants_
    OBVIOUS
  <1>3. /\ \A s \in Id : p \notin Listed(s) /\ Listed(s)' = Listed(s)
        /\ \A q \in (Participant \cup {None}) \ {p} : From(next', q) = From(next, q)
    BY <1>1, <1>2, PrivateChange
  <1>4. /\ home' = [home EXCEPT ![p] = r]
        /\ owner' = [owner EXCEPT ![p] = running[t]]
        /\ participant' = [participant EXCEPT ![t] = p]
        /\ pc' = [pc EXCEPT ![t] = "push"]
        /\ UNCHANGED <<next_reclaimer_id_, alive, running, cache_, reclaimer>>
    OBVIOUS
  <1>5. \A s \in Id : Listed(s) \in SUBSET Participant /\ \A q \in Listed(s) : home[q] = s
    BY ListedAtHome
  <1> HIDE DEF r, MakeOne, Goto
  <1>6. TypeOK'
    <2>1. r \in 0 .. MaxReclaimers
      BY DEF r
    <2> QED
      BY <1>1, <1>2, <1>4, <2>1 DEF TypeOK
  <1>7. Ids'
    BY <1>4 DEF Ids
  <1>8. Heads'
    BY <1>1, <1>2, <1>4 DEF Heads, TypeOK
  <1>9. Nexts'
    <2> SUFFICES ASSUME NEW q \in Participant, next'[q] # None
                 PROVE  home'[q] # 0 /\ home'[next'[q]] = home'[q]
      BY DEF Nexts
    <2>1. CASE q = p
      <3>1. next'[q] = participants_[r]
        BY <1>2, <2>1 DEF TypeOK
      <3>2. home[participants_[r]] = r /\ participants_[r] \in Participant \ {p}
        BY <1>0, <1>1, <3>1 DEF Heads
      <3> QED
        BY <1>0, <1>4, <2>1, <3>1, <3>2 DEF TypeOK
    <2>2. CASE q # p
      <3>1. next'[q] = next[q] /\ next[q] \in Participant \ {p}
        BY <1>1, <1>2, <2>2 DEF TypeOK
      <3> QED
        BY <1>4, <2>2, <3>1 DEF Nexts, TypeOK
    <2> QED
      BY <2>1, <2>2
  <1>10. Allocated'
    BY <1>0, <1>4 DEF Allocated, TypeOK
  <1>11. NoneLost'
    <2> SUFFICES ASSUME NEW q \in Participant, home'[q] # 0
                 PROVE  \/ q \in From(next', participants_'[home'[q]])
                        \/ \E u \in Thread : pc'[u] = "push" /\ participant'[u] = q
      BY DEF NoneLost, Listed
    <2>1. CASE q = p
      BY <1>4, <2>1
    <2>2. CASE q # p
      <3>1. home'[q] = home[q] /\ home[q] \in Id
        BY <1>4, <2>2 DEF TypeOK, Allocated
      <3>2. CASE q \in Listed(home[q])
        BY <1>3, <3>1, <3>2 DEF Listed
      <3>3. CASE \E u \in Thread : pc[u] = "push" /\ participant[u] = q
        BY <1>0, <1>4, <3>3
      <3> QED
        BY <3>1, <3>2, <3>3 DEF NoneLost
    <2> QED
      BY <2>1, <2>2
  <1>12. \A s \in Id : \A q \in Listed(s) : q # p /\ owner'[q] = owner[q]
    BY <1>3, <1>4, <1>5 DEF TypeOK
  <1>13. OnePerOwner'
    BY <1>3, <1>12 DEF OnePerOwner
  <1>14. Threads'
    BY <1>0, <1>4 DEF Threads, r
  <1>15. Walking'
    <2> SUFFICES ASSUME NEW u \in Thread, pc'[u] = "walk"
                 PROVE  /\ participant'[u] \in Listed(reclaimer[u]) \cup {None}
                        /\ \A q \in Listed(reclaimer[u]) :
                             owner'[q] = running[u] => q \in From(next', participant'[u])
      <3>1. \A u \in Thread : pc'[u] = "walk" => reclaimer[u] \in Id
        BY <1>4 DEF Threads
      <3> QED
        BY <1>3, <1>4, <3>1 DEF Walking
    <2>1. u # t /\ pc[u] = "walk" /\ participant'[u] = participant[u] /\ reclaimer[u] \in Id
      BY <1>4 DEF Threads
    <2>2. participant[u] \in Listed(reclaimer[u]) \cup {None}
      BY <2>1 DEF Walking
    <2>3. participant[u] \in (Participant \cup {None}) \ {p}
      BY <1>5, <1>12, <2>1, <2>2, NoneAssumption
    <2> QED
      BY <1>3, <1>12, <2>1, <2>2, <2>3 DEF Walking
  <1>16. Pushing'
    <2> SUFFICES ASSUME NEW u \in Thread, pc'[u] = "push"
                 PROVE  /\ participant'[u] \in Participant
                        /\ home'[participant'[u]] = reclaimer[u]
                        /\ owner'[participant'[u]] = running[u]
                        /\ \A s \in Id : participants_[s] # participant'[u]
                        /\ \A q \in Participant : next'[q] # participant'[u]
                        /\ \A q \in Listed(reclaimer[u]) : owner'[q] # running[u]
      <3>1. \A u \in Thread : pc'[u] = "push" => reclaimer[u] \in Id
        BY <1>0, <1>4 DEF Threads, r
      <3> QED
        BY <1>2, <1>3, <1>4, <3>1 DEF Pushing
    <2>1. \A q \in Participant : next'[q] = IF q = p THEN participants_[r] ELSE next[q]
      BY <1>2 DEF TypeOK
    <2>2. CASE u = t
      <3>1. participant'[u] = p /\ reclaimer[u] = r
        BY <1>4, <2>2 DEF r
      <3>2. home'[p] = r /\ owner'[p] = running[t]
        BY <1>4 DEF TypeOK
      <3>3. From(next, participant[t]) = {}
        BY <1>0, FromNone DEF TypeOK, Chain
      <3>4. \A q \in Listed(r) : owner[q] # running[t]
        BY <1>0, <3>3 DEF Walking, r
      <3> QED
        BY <1>0, <1>1, <1>12, <2>1, <2>2, <3>1, <3>2, <3>4
    <2>3. CASE u # t
      <3>1. pc[u] = "push" /\ participant'[u] = participant[u]
        BY <1>4, <2>3
      <3>2. participant[u] # p
        BY <1>0, <3>1 DEF Pushing, Threads
      <3>3. /\ home'[participant[u]] = home[participant[u]]
            /\ owner'[participant[u]] = owner[participant[u]]
        BY <1>4, <3>1, <3>2 DEF Pushing, TypeOK
      <3>4. \A q \in Listed(reclaimer[u]) : owner'[q] = owner[q]
        BY <1>12, <3>1 DEF Threads
      <3> QED
        BY <1>0, <2>1, <3>1, <3>2, <3>3, <3>4 DEF Pushing
    <2> QED
      BY <2>2, <2>3
  <1>17. Guarding'
    <2>1. \A u \in Thread : pc'[u] = "guard" =>
            pc[u] = "guard" /\ participant'[u] = participant[u] /\ reclaimer[u] \in Id
      BY <1>4 DEF Threads
    <2> QED
      BY <1>3, <1>4, <1>12, <2>1 DEF Guarding
  <1>18. Caches'
    BY <1>3, <1>4, <1>12 DEF Caches
  <1> QED
    BY <1>6, <1>7, <1>8, <1>9, <1>10, <1>11, <1>13, <1>14, <1>15, <1>16, <1>17, <1>18

\* The participant that was not published points to the new head.
LEMMA PushFailsStep ==
  ASSUME IInv, NEW t \in Thread, PushFails(t)
  PROVE  IInv'
  <1> DEFINE r == reclaimer[t]
  <1> DEFINE p == participant[t]
  <1> USE Types DEF IInv
  <1>0. /\ r \in Id /\ r \in alive /\ r # 0 /\ pc[t] = "push" /\ p \in Participant
        /\ home[p] = r /\ owner[p] = running[t]
    BY DEF PushFails, Threads, Pushing
  <1>1. /\ participants_[r] \in (Participant \cup {None}) \ {p}
        /\ \A s \in Id : participants_[s] # p
        /\ \A q \in Participant : next[q] # p
    BY <1>0 DEF Pushing, TypeOK
  <1>2. /\ next' = [next EXCEPT ![p] = participants_[r]]
        /\ UNCHANGED <<next_reclaimer_id_, alive, participants_, owner, home, running,
                       cache_, pc, reclaimer, participant>>
    BY DEF PushFails, local
  <1> HIDE DEF r, p
  <1>3. /\ \A s \in Id : p \notin Listed(s) /\ Listed(s)' = Listed(s)
        /\ \A q \in (Participant \cup {None}) \ {p} : From(next', q) = From(next, q)
    BY <1>0, <1>1, <1>2, PrivateChange
  <1>4. \A q \in Participant : next'[q] = IF q = p THEN participants_[r] ELSE next[q]
    BY <1>2 DEF TypeOK
  <1>5. \A u \in Thread : pc[u] # "idle" => reclaimer[u] \in Id
    BY DEF Threads
  <1>6. TypeOK'
    BY <1>0, <1>1, <1>2 DEF TypeOK
  <1>7. Ids' /\ Heads' /\ Allocated' /\ Threads'
    BY <1>2 DEF Ids, Heads, Allocated, Threads
  <1>8. Nexts'
    <2>1. participants_[r] # None => home[participants_[r]] = r
      BY <1>0 DEF Heads
    <2> QED
      BY <1>0, <1>2, <1>4, <2>1 DEF Nexts
  <1>9. NoneLost'
    <2>1. \A q \in Participant : home[q] # 0 => home[q] \in Id
      BY DEF Allocated
    <2> QED
      BY <1>2, <1>3, <2>1 DEF NoneLost
  <1>10. OnePerOwner'
    BY <1>2, <1>3 DEF OnePerOwner
  <1>11. Walking'
    <2> SUFFICES ASSUME NEW u \in Thread, pc[u] = "walk"
                 PROVE  /\ participant[u] \in Listed(reclaimer[u]) \cup {None}
                        /\ \A q \in Listed(reclaimer[u]) :
                             owner[q] = running[u] => q \in From(next', participant[u])
      BY <1>2, <1>3, <1>5 DEF Walking
    <2>1. participant[u] \in Listed(reclaimer[u]) \cup {None} /\ reclaimer[u] \in Id
      BY <1>5 DEF Walking
    <2>2. participant[u] \in (Participant \cup {None}) \ {p}
      BY <1>0, <1>3, <2>1, NoneAssumption
    <2> QED
      BY <1>3, <2>1, <2>2 DEF Walking
  <1>12. Pushing'
    <2> SUFFICES ASSUME NEW u \in Thread, pc[u] = "push"
                 PROVE  /\ participant[u] \in Participant
                        /\ home[participant[u]] = reclaimer[u]
                        /\ owner[participant[u]] = running[u]
                        /\ \A s \in Id : participants_[s] # participant[u]
                        /\ \A q \in Participant : next'[q] # participant[u]
                        /\ \A q \in Listed(reclaimer[u]) : owner[q] # running[u]
      BY <1>2, <1>3, <1>5 DEF Pushing
    <2> QED
      BY <1>0, <1>4 DEF Pushing
  <1>13. Guarding'
    BY <1>2, <1>3, <1>5 DEF Guarding
  <1>14. Caches'
    BY <1>2, <1>3 DEF Caches
  <1> QED
    BY <1>6, <1>7, <1>8, <1>9, <1>10, <1>11, <1>12, <1>13, <1>14

\* The participant is in front of the list, and lists only grow that way.
LEMMA PushStep ==
  ASSUME IInv, NEW t \in Thread, Push(t)
  PROVE  IInv'
  <1> DEFINE r == reclaimer[t]
  <1> DEFINE p == participant[t]
  <1> USE Types DEF IInv
  <1>0. /\ r \in Id /\ r \in alive /\ r # 0 /\ pc[t] = "push" /\ p \in Participant
        /\ home[p] = r /\ owner[p] = running[t] /\ running[t] \in Owner
        /\ participants_[r] = next[p]
    BY DEF Push, Threads, Pushing
  <1>1. /\ participants_' = [participants_ EXCEPT ![r] = p]
        /\ cache_' = [cache_ EXCEPT ![running[t]][Entry(r)] =
                        [reclaimer_id |-> r, participant |-> p]]
        /\ pc' = [pc EXCEPT ![t] = "guard"]
        /\ UNCHANGED <<next_reclaimer_id_, alive, next, owner, home, running, reclaimer,
                       participant>>
    BY DEF Push, Remember, Goto, memory
  <1> HIDE DEF r, p
  <1>2. next \in Chain /\ \A s \in Id : participants_'[s] = IF s = r THEN p ELSE participants_[s]
    BY <1>0, <1>1 DEF TypeOK, Chain
  \* The list of r has p in front now; no other list has changed.
  <1>3. \A s \in Id : From(next, participants_'[s]) =
                      IF s = r THEN {p} \cup Listed(s) ELSE Listed(s)
    <2>1. From(next, p) = {p} \cup From(next, participants_[r])
      BY <1>0, <1>2, FromStep
    <2> QED
      BY <1>2, <2>1 DEF Listed
  <1>4. \A u \in Thread : pc'[u] # "idle" => reclaimer[u] \in Id
    BY <1>0, <1>1 DEF Threads, r
  <1>5. \A u \in Thread \ {t} : running[u] # running[t] /\ pc'[u] = pc[u]
    BY <1>0, <1>1, NoneAssumption DEF Threads
  <1>6. TypeOK'
    <2>1. participants_' \in [Id -> Participant \cup {None}]
      BY <1>0, <1>1 DEF TypeOK
    <2>2. [reclaimer_id |-> r, participant |-> p] \in
            [reclaimer_id : 0 .. MaxReclaimers, participant : Participant \cup {None}]
      BY <1>0 DEF r
    <2>3. cache_' \in [Owner -> [0 .. kReclaimerCacheSize - 1 ->
           [reclaimer_id : 0 .. MaxReclaimers, participant : Participant \cup {None}]]]
      BY <1>1, <2>2, CacheTypes
    <2>4. pc' \in [Thread -> {"idle", "walk", "push", "guard"}]
      BY <1>1
    <2> QED
      BY <1>1, <2>1, <2>3, <2>4 DEF TypeOK
  <1>7. Ids' /\ Nexts' /\ Allocated'
    BY <1>1 DEF Ids, Nexts, Allocated
  <1>8. Heads'
    BY <1>0, <1>1, <1>2 DEF Heads
  <1>9. Threads'
    BY <1>0, <1>1 DEF Threads
  <1>10. NoneLost'
    <2> SUFFICES ASSUME NEW q \in Participant, home[q] # 0
                 PROVE  \/ q \in From(next, participants_'[home[q]])
                        \/ \E u \in Thread : pc'[u] = "push" /\ participant[u] = q
      BY <1>1 DEF NoneLost, Listed
    <2>1. home[q] \in Id
      BY DEF Allocated
    <2>2. CASE q = p
      BY <1>0, <1>3, <2>1, <2>2
    <2>3. CASE q # p
      <3>1. CASE q \in Listed(home[q])
        BY <1>3, <2>1, <3>1
      <3>2. CASE \E u \in Thread : pc[u] = "push" /\ participant[u] = q
        BY <1>5, <2>3, <3>2 DEF p
      <3> QED
        BY <3>1, <3>2 DEF NoneLost
    <2> QED
      BY <2>2, <2>3
  <1>11. OnePerOwner'
    <2> SUFFICES ASSUME NEW s \in Id, NEW x \in From(next, participants_'[s]),
                        NEW y \in From(next, participants_'[s]), owner[x] = owner[y]
                 PROVE  x = y
      BY <1>1 DEF OnePerOwner, Listed
    <2>1. \A q \in Listed(r) : owner[q] # owner[p]
      BY <1>0 DEF Pushing, r
    <2> QED
      BY <1>3, <2>1 DEF OnePerOwner
  <1>12. Walking'
    <2> SUFFICES ASSUME NEW u \in Thread, pc'[u] = "walk"
                 PROVE  /\ participant[u] \in From(next, participants_'[reclaimer[u]]) \cup {None}
                        /\ \A q \in From(next, participants_'[reclaimer[u]]) :
                             owner[q] = running[u] => q \in From(next, participant[u])
      BY <1>1 DEF Walking, Listed
    <2>1. u # t /\ pc[u] = "walk" /\ reclaimer[u] \in Id /\ running[u] # owner[p]
      BY <1>0, <1>1, <1>4, <1>5
    <2>2. From(next, participants_'[reclaimer[u]]) \subseteq {p} \cup Listed(reclaimer[u])
          /\ Listed(reclaimer[u]) \subseteq From(next, participants_'[reclaimer[u]])
      BY <1>3, <2>1
    <2> QED
      BY <2>1, <2>2 DEF Walking
  <1>13. Pushing'
    <2> SUFFICES ASSUME NEW u \in Thread, pc'[u] = "push"
                 PROVE  /\ participant[u] \in Participant
                        /\ home[participant[u]] = reclaimer[u]
                        /\ owner[participant[u]] = running[u]
                        /\ \A s \in Id : participants_'[s] # participant[u]
                        /\ \A q \in Participant : next[q] # participant[u]
                        /\ \A q \in From(next, participants_'[reclaimer[u]]) : owner[q] # running[u]
      BY <1>1 DEF Pushing, Listed
    <2>1. u # t /\ pc[u] = "push" /\ reclaimer[u] \in Id /\ running[u] # owner[p]
      BY <1>0, <1>1, <1>4, <1>5
    <2>2. From(next, participants_'[reclaimer[u]]) \subseteq {p} \cup Listed(reclaimer[u])
      BY <1>3, <2>1
    <2> QED
      BY <1>2, <2>1, <2>2 DEF Pushing
  <1>14. Guarding'
    <2> SUFFICES ASSUME NEW u \in Thread, pc'[u] = "guard"
                 PROVE  /\ participant[u] \in From(next, participants_'[reclaimer[u]])
                        /\ owner[participant[u]] = running[u]
      BY <1>1 DEF Guarding, Listed
    <2>1. CASE u = t
      BY <1>0, <1>3, <2>1 DEF r, p
    <2>2. CASE u # t
      <3>1. pc[u] = "guard" /\ reclaimer[u] \in Id
        BY <1>4, <1>5, <2>2
      <3>2. Listed(reclaimer[u]) \subseteq From(next, participants_'[reclaimer[u]])
        BY <1>3, <3>1
      <3> QED
        BY <3>1, <3>2 DEF Guarding
    <2> QED
      BY <2>1, <2>2
  <1>15. Caches'
    <2> SUFFICES ASSUME NEW a \in Owner, NEW i \in 0 .. kReclaimerCacheSize - 1
                 PROVE  LET slot == cache_'[a][i]
                        IN  /\ slot.reclaimer_id < next_reclaimer_id_
                            /\ slot.reclaimer_id \in alive =>
                                 /\ slot.participant \in
                                      From(next, participants_'[slot.reclaimer_id])
                                 /\ owner[slot.participant] = a
      BY <1>1 DEF Caches, Listed
    <2>1. CASE a = running[t] /\ i = Entry(r)
      <3>1. cache_'[a][i] = [reclaimer_id |-> r, participant |-> p]
        BY <1>1, <2>1, CacheTypes
      <3>2. p \in From(next, participants_'[r]) /\ r < next_reclaimer_id_
        BY <1>0, <1>3 DEF Ids
      <3> QED
        BY <1>0, <2>1, <3>1, <3>2
    <2>2. CASE ~(a = running[t] /\ i = Entry(r))
      <3>1. cache_'[a][i] = cache_[a][i]
        BY <1>1, <2>2, CacheTypes
      <3>2. \A s \in alive : Listed(s) \subseteq From(next, participants_'[s])
        BY <1>3
      <3> QED
        BY <3>1, <3>2 DEF Caches
    <2> QED
      BY <2>1, <2>2
  <1> QED
    BY <1>6, <1>7, <1>8, <1>9, <1>10, <1>11, <1>12, <1>13, <1>14, <1>15

\* The lists of the others, and what a thread that uses one has before it, are
\* not affected when a reclaimer and all that is in its list is freed.
LEMMA DestroyStep ==
  ASSUME IInv, NEW r \in Id, Destroy(r)
  PROVE  IInv'
  <1> USE Types DEF IInv
  <1> DEFINE L == Listed(r)
  <1>0. /\ r \in alive /\ r # 0 /\ \A t \in Thread : reclaimer[t] # r
        /\ alive' = alive \ {r}
        /\ participants_' = [participants_ EXCEPT ![r] = None]
        /\ home' = [p \in Participant |-> IF p \in L THEN 0 ELSE home[p]]
        /\ owner' = [p \in Participant |-> IF p \in L THEN None ELSE owner[p]]
        /\ next' = [p \in Participant |-> IF p \in L THEN None ELSE next[p]]
        /\ UNCHANGED <<next_reclaimer_id_, running, cache_, pc, reclaimer, participant>>
    BY DEF Destroy, local
  <1>1. \A s \in Id : /\ Listed(s) \in SUBSET Participant
                      /\ participants_[s] \in Listed(s) \cup {None}
                      /\ \A p \in Listed(s) : home[p] = s
                      /\ \A p \in Listed(s) : next[p] \in Listed(s) \cup {None}
    BY ListedAtHome
  <1> HIDE DEF L
  \* The list has all there is of this reclaimer.
  <1>2. \A p \in Participant : p \in L <=> home[p] = r
    <2>1. \A p \in Participant : home[p] = r => p \in Listed(r)
      BY <1>0 DEF NoneLost, Pushing
    <2> QED
      BY <1>1, <2>1 DEF L
  <1>3. \A u \in Thread : pc[u] # "idle" => reclaimer[u] \in Id \ {r}
    BY <1>0 DEF Threads
  <1>4. /\ next \in Chain /\ next' \in Chain
        /\ \A s \in Id : participants_'[s] = IF s = r THEN None ELSE participants_[s]
    BY <1>0 DEF TypeOK, Chain
  \* What is reached within another list is still reached.
  <1>5. ASSUME NEW s \in Id \ {r}, NEW p \in Listed(s) \cup {None}
        PROVE  From(next', p) = From(next, p)
    <2>1. p \in Participant \cup {None} /\ From(next, p) \subseteq Listed(s)
      BY <1>1, <1>4, FromLeast
    <2>2. \A q \in From(next, p) : next'[q] = next[q]
      BY <1>0, <1>1, <1>2, <2>1
    <2> QED
      BY <1>4, <2>1, <2>2, FromSame
  <1>6. \A s \in Id : From(next', participants_'[s]) = IF s = r THEN {} ELSE Listed(s)
    <2>1. From(next', None) = {}
      BY <1>4, FromNone
    <2> QED
      BY <1>1, <1>4, <1>5, <2>1 DEF Listed
  <1>7. \A s \in Id \ {r} : \A p \in Listed(s) : owner'[p] = owner[p] /\ p \notin L
    BY <1>0, <1>1, <1>2
  <1>8. TypeOK'
    <2>1. participants_' \in [Id -> Participant \cup {None}]
      BY <1>0 DEF TypeOK
    <2>2. /\ home' \in [Participant -> 0 .. MaxReclaimers]
          /\ owner' \in [Participant -> Owner \cup {None}]
          /\ next' \in [Participant -> Participant \cup {None}]
      BY <1>0 DEF TypeOK
    <2> QED
      BY <1>0, <2>1, <2>2 DEF TypeOK
  <1>9. Ids' /\ Threads'
    BY <1>0 DEF Ids, Threads
  <1>10. Heads'
    BY <1>0, <1>2, <1>4 DEF Heads, TypeOK
  <1>11. Nexts'
    <2> SUFFICES ASSUME NEW p \in Participant, next'[p] # None
                 PROVE  home'[p] # 0 /\ home'[next'[p]] = home'[p]
      BY DEF Nexts
    <2>1. p \notin L /\ next'[p] = next[p] /\ home'[p] = home[p]
      BY <1>0
    <2>2. next[p] \in Participant /\ home[p] # 0 /\ home[next[p]] = home[p]
      BY <2>1 DEF Nexts, TypeOK
    <2>3. next[p] \notin L
      BY <1>2, <2>1, <2>2
    <2> QED
      BY <1>0, <2>1, <2>2, <2>3
  <1>12. Allocated'
    BY <1>0, <1>2 DEF Allocated
  <1>13. NoneLost'
    <2> SUFFICES ASSUME NEW p \in Participant, home'[p] # 0
                 PROVE  \/ p \in From(next', participants_'[home'[p]])
                        \/ \E u \in Thread : pc[u] = "push" /\ participant[u] = p
      BY <1>0 DEF NoneLost, Listed
    <2>1. home'[p] = home[p] /\ home[p] \in Id \ {r}
      BY <1>0, <1>2 DEF Allocated
    <2> QED
      BY <1>6, <2>1 DEF NoneLost
  <1>14. OnePerOwner'
    <2> SUFFICES ASSUME NEW s \in Id, NEW x \in From(next', participants_'[s]),
                        NEW y \in From(next', participants_'[s]), owner'[x] = owner'[y]
                 PROVE  x = y
      BY DEF OnePerOwner, Listed
    <2> QED
      BY <1>6, <1>7 DEF OnePerOwner
  <1>15. Walking'
    <2> SUFFICES ASSUME NEW u \in Thread, pc[u] = "walk"
                 PROVE  /\ participant[u] \in From(next', participants_'[reclaimer[u]]) \cup {None}
                        /\ \A q \in From(next', participants_'[reclaimer[u]]) :
                             owner'[q] = running[u] => q \in From(next', participant[u])
      BY <1>0 DEF Walking, Listed
    <2>1. reclaimer[u] \in Id \ {r} /\ participant[u] \in Listed(reclaimer[u]) \cup {None}
      BY <1>3 DEF Walking
    <2>2. From(next', participant[u]) = From(next, participant[u])
      BY <1>5, <2>1
    <2> QED
      BY <1>6, <1>7, <2>1, <2>2 DEF Walking
  <1>16. Pushing'
    <2> SUFFICES ASSUME NEW u \in Thread, pc[u] = "push"
                 PROVE  /\ participant[u] \in Participant
                        /\ home'[participant[u]] = reclaimer[u]
                        /\ owner'[participant[u]] = running[u]
                        /\ \A s \in Id : participants_'[s] # participant[u]
                        /\ \A q \in Participant : next'[q] # participant[u]
                        /\ \A q \in From(next', participants_'[reclaimer[u]]) :
                              owner'[q] # running[u]
      <3>1. pc' = pc /\ running' = running /\ reclaimer' = reclaimer /\ participant' = participant
        BY <1>0
      <3> QED
        BY <3>1, Zenon DEF Pushing, Listed
    <2>1. reclaimer[u] \in Id \ {r} /\ participant[u] \in Participant /\ participant[u] # None
      BY <1>3, NoneAssumption DEF Pushing
    <2>2. participant[u] \notin L
      BY <1>2, <2>1 DEF Pushing
    <2>3. home'[participant[u]] = reclaimer[u] /\ owner'[participant[u]] = running[u]
      BY <1>0, <2>1, <2>2 DEF Pushing
    <2>4. \A q \in Participant : next'[q] # participant[u]
      BY <1>0, <2>1 DEF Pushing
    <2>5. \A s \in Id : participants_'[s] # participant[u]
      BY <1>4, <2>1 DEF Pushing
    <2>6. \A q \in From(next', participants_'[reclaimer[u]]) : owner'[q] # running[u]
      BY <1>6, <1>7, <2>1 DEF Pushing
    <2> QED
      BY <2>1, <2>3, <2>4, <2>5, <2>6
  <1>17. Guarding'
    <2> SUFFICES ASSUME NEW u \in Thread, pc[u] = "guard"
                 PROVE  /\ participant[u] \in From(next', participants_'[reclaimer[u]])
                        /\ owner'[participant[u]] = running[u]
      BY <1>0 DEF Guarding, Listed
    <2> QED
      BY <1>3, <1>6, <1>7 DEF Guarding
  <1>18. Caches'
    <2> SUFFICES ASSUME NEW a \in Owner, NEW i \in 0 .. kReclaimerCacheSize - 1
                 PROVE  LET slot == cache_[a][i]
                        IN  /\ slot.reclaimer_id < next_reclaimer_id_
                            /\ slot.reclaimer_id \in alive' =>
                                 /\ slot.participant \in
                                      From(next', participants_'[slot.reclaimer_id])
                                 /\ owner'[slot.participant] = a
      BY <1>0 DEF Caches, Listed
    <2>1. alive' \subseteq Id \ {r} /\ alive' \subseteq alive
      BY <1>0
    <2> QED
      BY <1>6, <1>7, <2>1 DEF Caches
  <1> QED
    BY <1>8, <1>9, <1>10, <1>11, <1>12, <1>13, <1>14, <1>15, <1>16, <1>17, <1>18

\* Every step keeps the invariant.
LEMMA Inductive == IInv /\ [Next]_vars => IInv'
  <1>1. ASSUME IInv, UNCHANGED vars
        PROVE  IInv'
    <2> USE <1>1 DEF IInv, vars, memory, local
    <2>1. TypeOK' /\ Ids' /\ Heads' /\ Nexts' /\ Allocated' /\ Threads'
      BY DEF TypeOK, Ids, Heads, Nexts, Allocated, Threads
    <2>2. NoneLost' /\ OnePerOwner' /\ Guarding' /\ Caches'
      BY DEF NoneLost, OnePerOwner, Guarding, Caches, Listed
    <2>3. Walking' /\ Pushing'
      BY DEF Walking, Pushing, Listed
    <2> QED
      BY <2>1, <2>2, <2>3
  <1>2. ASSUME IInv, NEW t \in Thread, Self(t) \/ Adopt(t)
        PROVE  IInv'
    BY <1>2, HitStep, MissStep, WalkStep, FoundStep, MakeOneStep, LeaveStep, PushStep,
       PushFailsStep DEF Self, Adopt
  <1>3. ASSUME IInv, NEW t \in Thread,
               (\E o \in Owner : Start(t, o)) \/ Exit(t) \/ Leave(t)
        PROVE  IInv'
    BY <1>3, StartStep, ExitStep, LeaveStep
  <1>4. ASSUME IInv, Create \/ CreateThrows \/ \E r \in Id : Destroy(r)
        PROVE  IInv'
    BY <1>4, CreateStep, DestroyStep
  <1> QED
    BY <1>1, <1>2, <1>3, <1>4 DEF Next

-----------------------------------------------------------------------------
\* The invariant holds throughout.
LEMMA Invariant == Spec => []IInv
  BY InitIInv, Inductive, PTL DEF Spec

\* Every variable keeps its type, with any number of threads and reclaimers.
THEOREM TypeCorrect == Spec => []TypeOK
  <1>1. IInv => TypeOK
    BY DEF IInv
  <1> QED
    BY <1>1, Invariant, PTL

\* What Self() takes from the cache is a participant of the reclaimer it is
\* asked for and of this thread, however often the addresses of reclaimers,
\* participants and caches are used again.
THEOREM CacheStaysFresh == Spec => []CacheIsFresh
  <1>1. IInv => CacheIsFresh
    BY DEF IInv, Caches, CacheIsFresh
  <1> QED
    BY <1>1, Invariant, PTL

\* Adopt() loses no participant when several threads push at once.
THEOREM NoParticipantIsLost == Spec => []NoneLost
  <1>1. IInv => NoneLost
    BY DEF IInv
  <1> QED
    BY <1>1, Invariant, PTL

\* Every Guard has the one participant of its thread, and no other thread's
\* hands are on it: what EpochReclaimer builds on.
THEOREM GuardHasItsParticipant == Spec => []RightParticipant
  <1>1. IInv => RightParticipant
    <2> SUFFICES ASSUME IInv, NEW t \in Thread, pc[t] = "guard"
                 PROVE  /\ participant[t] \in Listed(reclaimer[t])
                        /\ \A p \in Listed(reclaimer[t]) :
                             owner[p] = running[t] <=> p = participant[t]
                        /\ \A u \in Thread \ {t} :
                             participant[u] = participant[t] => pc[u] = "walk"
      BY DEF RightParticipant
    <2> USE Types DEF IInv
    <2>1. /\ participant[t] \in Listed(reclaimer[t]) /\ owner[participant[t]] = running[t]
          /\ reclaimer[t] \in Id /\ running[t] # None
      BY DEF Guarding, Threads
    <2>2. participant[t] \in Participant /\ participant[t] # None
      BY <2>1, ListedAtHome, NoneAssumption
    <2>3. ASSUME NEW u \in Thread \ {t}, participant[u] = participant[t], pc[u] # "walk"
          PROVE  FALSE
      <3>1. running[u] # running[t]
        BY <2>1 DEF Threads
      <3>2. pc[u] # "idle"
        BY <2>2, <2>3 DEF Threads
      <3>3. owner[participant[u]] = running[u]
        BY <2>3, <3>2 DEF Pushing, Guarding
      <3> QED
        BY <2>1, <2>3, <3>1, <3>3
    <2> QED
      BY <2>1, <2>3 DEF OnePerOwner
  <1> QED
    BY <1>1, Invariant, PTL
=============================================================================
