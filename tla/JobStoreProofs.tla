---------------------------- MODULE JobStoreProofs ----------------------------
(***************************************************************************)
(* Proofs about JobStore, for any keys, limits, durations and number of    *)
(* jobs.                                                                   *)
(***************************************************************************)
EXTENDS JobStore, FiniteSetTheorems, FunctionTheorems, SequenceTheorems,
        WellFoundedInduction, TLAPS

-------------------------------------------------------------------------------
(* The inductive invariant.                                                *)

\* A state of the store while the jobs made are 1 .. n.
StoresOf(n) ==
  [jobs : SUBSET (1 .. n), index : [Keys -> Jobs \cup {NoJob}],
   queue : Seq(1 .. n), active : 0 .. MaxConcurrentFills,
   created : [Jobs -> 0 .. LastSubmit], status : [Jobs -> Statuses],
   deadline : [Jobs -> 0 .. EndOfTime + MaxFillDuration],
   filling : SUBSET (1 .. n), ending : SUBSET (1 .. n),
   working : SUBSET (1 .. n), aborted : SUBSET (1 .. n)]

\* A fill that waits for its outcome is that of a running job in the map, the
\* counter counts the fills that have a slot, and a fill that works on without
\* being waited for has been told to stop.
FillsCounted(s) ==
  /\ s.filling \subseteq s.jobs
  /\ \A j \in s.filling : s.status[j] = "running"
  /\ \A j \in s.ending \cup s.working : s.status[j] # "queued"
  /\ s.filling \cap s.ending = {}
  /\ s.active = Cardinality(s.filling \cup s.ending)
  /\ s.working \ s.filling \subseteq s.aborted

\* A job stands in the queue once, and stands there while it waits.
QueueIsWhole(s) ==
  /\ \A i, h \in DOMAIN s.queue : s.queue[i] = s.queue[h] => i = h
  /\ \A j \in s.jobs : s.status[j] = "queued" =>
       \E i \in DOMAIN s.queue : s.queue[i] = j

\* IndexIsExact, of a state of the store and the keys of its jobs.
IndexedBy(s, keys) ==
  /\ \A j \in s.jobs : s.status[j] # "expired" => s.index[keys[j]] = j
  /\ \A k \in Keys : s.index[k] # NoJob =>
       /\ s.index[k] \in s.jobs
       /\ s.status[s.index[k]] # "expired"
       /\ keys[s.index[k]] = k

\* What every operation of the store keeps.
Sound(s, n, keys) ==
  /\ s \in StoresOf(n)
  /\ \A j \in Jobs : j > n => s.status[j] = "queued"
  /\ FillsCounted(s)
  /\ QueueIsWhole(s)
  /\ IndexedBy(s, keys)

\* Between the tasks, and after every drain.
NoneWaits(s) ==
  s.active < MaxConcurrentFills => \A j \in s.jobs : s.status[j] # "queued"

IInv ==
  /\ TypeOK
  /\ Sound(Store, made, key)
  /\ Task => NoneWaits(Store)
  /\ Cardinality(jobs) <= MaxEntries

\* OutcomesStay, of two states of the store.
OutcomesKept(s, t, n) ==
  \A j \in 1 .. n :
    /\ s.status[j] \in Results => t.status[j] \in {s.status[j], "expired"}
    /\ s.status[j] = "expired" => t.status[j] = "expired"
    /\ j \notin s.jobs => t.status[j] = s.status[j] /\ j \notin t.jobs

-------------------------------------------------------------------------------
(* Finite sets of numbers.                                                 *)

\* A nonempty set of numbers has a least one.
LEMMA LeastOf ==
  ASSUME NEW S \in SUBSET Nat, S # {}
  PROVE  \E m \in S : \A i \in S : m <= i
<1>1. PICK m \in S : \A i \in S : ~(<<i, m>> \in OpToRel(<, Nat))
  BY NatLessThanWellFounded, WFMin
<1>2. \A i \in S : <<i, m>> \in OpToRel(<, Nat) <=> i < m
  BY DEF OpToRel
<1>3. \A i \in S : ~(i < m)
  BY <1>1, <1>2, Zenon
<1> QED BY <1>3

\* A nonempty set of numbers up to n has a greatest one.
LEMMA GreatestOf ==
  ASSUME NEW n \in Nat, NEW S \in SUBSET (1 .. n), S # {}
  PROVE  \E m \in S : \A i \in S : i <= m
<1> DEFINE bounds == {b \in Nat : \A i \in S : i <= b}
<1>1. PICK m \in bounds : \A b \in bounds : m <= b
  <2>1. n \in bounds /\ bounds \in SUBSET Nat
    OBVIOUS
  <2> HIDE DEF bounds
  <2> QED BY <2>1, LeastOf
<1>2. m \in S
  <2>1. SUFFICES ASSUME m \notin S PROVE FALSE
    OBVIOUS
  <2>2. \A i \in S : i <= m - 1
    BY <2>1
  <2>3. m - 1 \in Nat
    <3>1. PICK i \in S : TRUE
      OBVIOUS
    <3>2. i \in Nat /\ 1 <= i /\ i <= m - 1 /\ m \in Nat
      BY <2>2, <3>1
    <3> QED BY <3>2
  <2>4. m - 1 \in bounds
    BY <2>2, <2>3
  <2> QED BY <1>1, <2>4
<1> QED BY <1>2

\* The numbers of a set with fewer than `free` others before them.
First(S, free) == {i \in S : Cardinality({h \in S : h < i}) < free}

\* Of the numbers up to n, the first are `free` at most; none is passed over,
\* and if they are fewer they are all.
LEMMA FirstOf ==
  ASSUME NEW n \in Nat, NEW S \in SUBSET (1 .. n), NEW free \in Nat
  PROVE  /\ IsFiniteSet(First(S, free))
         /\ Cardinality(First(S, free)) \in 0 .. free
         /\ \A i \in First(S, free), h \in S : h < i => h \in First(S, free)
         /\ Cardinality(First(S, free)) < free => First(S, free) = S
<1> DEFINE before(i) == {h \in S : h < i}
           first == {i \in S : Cardinality(before(i)) < free}
<1>1. IsFiniteSet(S)
  <2>1. IsFiniteSet(1 .. n)
    BY FS_Interval
  <2> QED BY <2>1, FS_Subset
<1>2. \A i \in S : IsFiniteSet(before(i)) /\ Cardinality(before(i)) \in Nat
  BY <1>1, FS_Subset, FS_CardinalityType
<1>3. IsFiniteSet(first) /\ Cardinality(first) \in Nat
  BY <1>1, FS_Subset, FS_CardinalityType
<1>4. Cardinality(first) <= free
  <2>1. CASE first = {}
    <3>1. Cardinality(first) = 0
      BY <2>1, FS_EmptySet
    <3> QED BY <3>1
  <2>2. CASE first # {}
    <3>1. PICK m \in first : \A i \in first : i <= m
      BY <2>2, GreatestOf
    <3>2. first \subseteq before(m) \cup {m}
      <4>1. SUFFICES ASSUME NEW i \in first, i # m PROVE i \in before(m)
        OBVIOUS
      <4>2. i \in S /\ i <= m /\ i \in Nat /\ m \in Nat
        BY <3>1
      <4>3. i < m
        BY <4>1, <4>2
      <4> QED BY <4>2, <4>3
    <3>3. /\ IsFiniteSet(before(m) \cup {m})
          /\ Cardinality(before(m) \cup {m}) = Cardinality(before(m)) + 1
      BY <1>2, <3>1, FS_AddElement
    <3>4. Cardinality(first) <= Cardinality(before(m)) + 1
      BY <3>2, <3>3, FS_Subset
    <3> QED BY <1>2, <1>3, <3>1, <3>4
  <2> QED BY <2>1, <2>2
<1>5. ASSUME NEW i \in first, NEW h \in S, h < i
      PROVE  h \in first
  <2>1. ASSUME NEW g \in before(h) PROVE g \in before(i)
    <3>1. g \in S /\ g < h /\ h < i
      BY <1>5
    <3>2. g \in Nat /\ h \in Nat /\ i \in Nat
      OBVIOUS
    <3>3. g < i
      BY <3>1, <3>2
    <3> QED BY <3>1, <3>3
  <2>2. Cardinality(before(h)) <= Cardinality(before(i))
    BY <1>2, <2>1, FS_Subset
  <2> QED BY <1>2, <2>2
<1>6. ASSUME Cardinality(first) < free, first # S
      PROVE  FALSE
  <2>1. PICK i \in S \ first : \A h \in S \ first : i <= h
    <3>0. first \subseteq S /\ \A h \in S : h \in Nat
      OBVIOUS
    <3>1. S \ first \in SUBSET Nat /\ S \ first # {}
      <4> HIDE DEF first
      <4>1. S \ first # {}
        BY <1>6, <3>0
      <4> QED BY <3>0, <4>1
    <3> HIDE DEF first
    <3> QED BY <3>1, LeastOf
  <2>2. ASSUME NEW h \in before(i) PROVE h \in first
    <3>1. h \in S /\ h < i /\ h \in Nat /\ i \in Nat
      OBVIOUS
    <3>2. ~(i <= h)
      BY <3>1
    <3> HIDE DEF first
    <3> QED BY <2>1, <3>1, <3>2
  <2>3. Cardinality(before(i)) <= Cardinality(first)
    BY <1>3, <2>2, FS_Subset
  <2> QED BY <1>2, <1>3, <1>6, <2>1, <2>3
<1>7. First(S, free) = first
  BY DEF First
<1> HIDE DEF first
<1> QED BY <1>3, <1>4, <1>5, <1>6, <1>7

-------------------------------------------------------------------------------
(* expireJob and remove.                                                   *)

\* The jobs 1 .. n, and any of them, are finitely many.
LEMMA FewJobs ==
  ASSUME NEW n \in Nat, NEW S \in SUBSET (1 .. n)
  PROVE  IsFiniteSet(S) /\ Cardinality(S) \in Nat
<1>1. IsFiniteSet(1 .. n)
  BY FS_Interval
<1>2. IsFiniteSet(S)
  BY <1>1, FS_Subset
<1> QED BY <1>2, FS_CardinalityType

\* The parts of a state of the store.
LEMMA StorePart ==
  ASSUME NEW n \in 0 .. MaxJobs, NEW s \in StoresOf(n)
  PROVE  /\ 1 .. n \subseteq Jobs /\ NoJob \notin Jobs
         /\ s.jobs \subseteq 1 .. n /\ s.index \in [Keys -> Jobs \cup {NoJob}]
         /\ s.queue \in Seq(1 .. n) /\ s.active \in 0 .. MaxConcurrentFills
         /\ s.status \in [Jobs -> Statuses]
         /\ s.filling \subseteq 1 .. n /\ s.ending \subseteq 1 .. n
         /\ s.working \subseteq 1 .. n /\ s.aborted \subseteq 1 .. n
  BY JobStoreAssumption DEF StoresOf, Jobs

\* The jobs that expireJob() takes of those it is called for.
Expiring(s, gone) == {j \in gone \cap s.jobs : s.status[j] # "expired"}

\* What expireJob() leaves of a state.
LEMMA WhatExpires ==
  ASSUME NEW n \in 0 .. MaxJobs, NEW s \in StoresOf(n), NEW gone
  PROVE  LET t == Expired(s, gone)
             them == Expiring(s, gone)
         IN /\ t \in StoresOf(n)
            /\ t.jobs = s.jobs /\ t.queue = s.queue /\ t.active = s.active
            /\ t.created = s.created /\ t.deadline = s.deadline
            /\ t.working = s.working
            /\ \A k \in Keys : t.index[k] = IF s.index[k] \in them THEN NoJob
                                            ELSE s.index[k]
            /\ \A j \in Jobs : t.status[j] = IF j \in them THEN "expired"
                                             ELSE s.status[j]
            /\ t.filling = s.filling \ them
            /\ t.ending = s.ending \cup (them \cap s.filling)
            /\ t.aborted = s.aborted \cup (them \cap s.filling)
<1> DEFINE them == Expiring(s, gone)
           index == Unindexed(s.index, them)
           expired == [j \in Jobs |-> IF j \in them THEN "expired"
                                      ELSE s.status[j]]
           t == [s EXCEPT !.index = index, !.status = expired,
                          !.filling = @ \ them,
                          !.ending = @ \cup (them \cap s.filling),
                          !.aborted = @ \cup (them \cap s.filling)]
<1>1. them \subseteq s.jobs /\ s.jobs \subseteq 1 .. n
  BY DEF Expiring, StoresOf
<1>2. index \in [Keys -> Jobs \cup {NoJob}]
  BY DEF Unindexed, StoresOf
<1>3. expired \in [Jobs -> Statuses]
  BY DEF StoresOf, Statuses
<1>4. Expired(s, gone) = t
  BY DEF Expired, Stopped, Expiring, StoresOf
<1>5. t \in StoresOf(n)
  <2> HIDE DEF them, index, expired
  <2> QED BY <1>1, <1>2, <1>3 DEF StoresOf
<1>6. /\ t.jobs = s.jobs /\ t.queue = s.queue /\ t.active = s.active
      /\ t.created = s.created /\ t.deadline = s.deadline
      /\ t.working = s.working /\ t.index = index /\ t.status = expired
      /\ t.filling = s.filling \ them
      /\ t.ending = s.ending \cup (them \cap s.filling)
      /\ t.aborted = s.aborted \cup (them \cap s.filling)
  <2> HIDE DEF them, index, expired
  <2> QED BY DEF StoresOf
<1> QED BY <1>4, <1>5, <1>6 DEF Unindexed

\* expireJob() keeps the store sound, and what its clients were told.
LEMMA ExpiredSound ==
  ASSUME NEW n \in 0 .. MaxJobs, NEW keys \in [Jobs -> Keys], NEW s,
         Sound(s, n, keys), NEW gone
  PROVE  /\ Sound(Expired(s, gone), n, keys)
         /\ NoneWaits(s) => NoneWaits(Expired(s, gone))
         /\ OutcomesKept(s, Expired(s, gone), n)
         /\ Expired(s, gone).jobs = s.jobs
<1> DEFINE t == Expired(s, gone)
           them == Expiring(s, gone)
<1>1. s \in StoresOf(n)
  BY DEF Sound
<1>2. /\ 1 .. n \subseteq Jobs /\ NoJob \notin Jobs
      /\ s.jobs \subseteq 1 .. n /\ s.filling \subseteq 1 .. n
      /\ s.ending \subseteq 1 .. n /\ s.working \subseteq 1 .. n
  BY <1>1, StorePart
<1>3. them \subseteq s.jobs
  BY DEF Expiring
<1> HIDE DEF them
<1>4. /\ t \in StoresOf(n)
      /\ t.jobs = s.jobs /\ t.queue = s.queue /\ t.active = s.active
      /\ t.working = s.working
      /\ \A k \in Keys : t.index[k] = IF s.index[k] \in them THEN NoJob
                                      ELSE s.index[k]
      /\ \A j \in Jobs : t.status[j] = IF j \in them THEN "expired"
                                       ELSE s.status[j]
      /\ t.filling = s.filling \ them
      /\ t.ending = s.ending \cup (them \cap s.filling)
      /\ t.aborted = s.aborted \cup (them \cap s.filling)
  BY <1>1, WhatExpires DEF them
<1> HIDE DEF t
<1>5. FillsCounted(t)
  <2>1. t.filling \cup t.ending = s.filling \cup s.ending
    BY <1>4
  <2>2. \A j \in t.ending \cup t.working : t.status[j] # "queued"
    <3>1. TAKE j \in t.ending \cup t.working
    <3>2. j \in Jobs
      BY <1>2, <1>4
    <3>3. j \in s.filling \/ j \in s.ending \cup s.working
      BY <1>4
    <3> QED BY <1>4, <3>2, <3>3 DEF Sound, FillsCounted
  <2>3. \A j \in t.filling : t.status[j] = "running"
    BY <1>2, <1>4 DEF Sound, FillsCounted
  <2>4. t.active = Cardinality(t.filling \cup t.ending)
    BY <1>4, <2>1 DEF Sound, FillsCounted
  <2>5. t.filling \subseteq t.jobs /\ t.filling \cap t.ending = {}
    BY <1>4 DEF Sound, FillsCounted
  <2>6. t.working \ t.filling \subseteq t.aborted
    BY <1>4 DEF Sound, FillsCounted
  <2> QED BY <2>2, <2>3, <2>4, <2>5, <2>6 DEF FillsCounted
<1>6. QueueIsWhole(t)
  BY <1>2, <1>4 DEF Sound, QueueIsWhole
<1>7. IndexedBy(t, keys)
  <2>1. ASSUME NEW j \in t.jobs, t.status[j] # "expired"
        PROVE  t.index[keys[j]] = j
    <3>1. j \in s.jobs /\ j \in Jobs /\ keys[j] \in Keys
      BY <1>2, <1>4
    <3>2. j \notin them /\ s.status[j] # "expired"
      BY <1>4, <2>1, <3>1
    <3>3. s.index[keys[j]] = j
      BY <3>1, <3>2 DEF Sound, IndexedBy
    <3> QED BY <1>4, <3>1, <3>2, <3>3
  <2>2. ASSUME NEW k \in Keys, t.index[k] # NoJob
        PROVE  /\ t.index[k] \in t.jobs
               /\ t.status[t.index[k]] # "expired"
               /\ keys[t.index[k]] = k
    <3>1. s.index[k] \notin them /\ t.index[k] = s.index[k]
      BY <1>4, <2>2
    <3>2. /\ s.index[k] \in s.jobs
          /\ s.status[s.index[k]] # "expired"
          /\ keys[s.index[k]] = k
      BY <2>2, <3>1 DEF Sound, IndexedBy
    <3>3. s.index[k] \in Jobs
      BY <1>2, <3>2
    <3> QED BY <1>4, <3>1, <3>2, <3>3
  <2> QED BY <2>1, <2>2 DEF IndexedBy
<1>8. NoneWaits(s) => NoneWaits(t)
  BY <1>2, <1>4 DEF NoneWaits
<1>9. \A j \in Jobs : j > n => t.status[j] = "queued"
  <2>1. TAKE j \in Jobs
  <2>2. HAVE j > n
  <2>3. j \notin s.jobs
    <3>1. n \in Nat /\ j \in Nat
      BY DEF Jobs
    <3> QED BY <1>2, <2>2, <3>1
  <2> QED BY <1>3, <1>4, <2>2, <2>3 DEF Sound
<1>10. OutcomesKept(s, t, n)
  <2>1. \A j \in 1 .. n : /\ t.status[j] \in {s.status[j], "expired"}
                          /\ j \notin s.jobs => t.status[j] = s.status[j]
    BY <1>2, <1>3, <1>4
  <2> QED BY <1>4, <2>1 DEF OutcomesKept
<1> QED BY <1>4, <1>5, <1>6, <1>7, <1>8, <1>9, <1>10 DEF Sound, t

\* What remove() leaves of a state.
LEMMA WhatRemoved ==
  ASSUME NEW n \in 0 .. MaxJobs, NEW s \in StoresOf(n), NEW j \in s.jobs
  PROVE  LET t == Removed(s, j)
         IN /\ t \in StoresOf(n)
            /\ t.jobs = s.jobs \ {j} /\ t.queue = s.queue
            /\ t.active = s.active /\ t.status = s.status
            /\ t.working = s.working
            /\ \A k \in Keys : t.index[k] = IF s.index[k] = j THEN NoJob
                                            ELSE s.index[k]
            /\ t.filling = s.filling \ {j}
            /\ t.ending = s.ending \cup ({j} \cap s.filling)
            /\ t.aborted = s.aborted \cup ({j} \cap s.filling)
<1> DEFINE index == Unindexed(s.index, {j})
           t == [s EXCEPT !.jobs = @ \ {j}, !.index = index,
                          !.filling = @ \ {j},
                          !.ending = @ \cup ({j} \cap s.filling),
                          !.aborted = @ \cup ({j} \cap s.filling)]
<1>1. index \in [Keys -> Jobs \cup {NoJob}]
  BY DEF Unindexed, StoresOf
<1>2. Removed(s, j) = t
  BY DEF Removed, Stopped, StoresOf
<1>3. t \in StoresOf(n)
  <2> HIDE DEF index
  <2> QED BY <1>1 DEF StoresOf
<1>4. /\ t.jobs = s.jobs \ {j} /\ t.queue = s.queue /\ t.active = s.active
      /\ t.status = s.status /\ t.working = s.working /\ t.index = index
      /\ t.filling = s.filling \ {j}
      /\ t.ending = s.ending \cup ({j} \cap s.filling)
      /\ t.aborted = s.aborted \cup ({j} \cap s.filling)
  <2> HIDE DEF index
  <2> QED BY DEF StoresOf
<1> QED BY <1>2, <1>3, <1>4 DEF Unindexed

\* remove() keeps the store sound, and what its clients were told.
LEMMA RemovedSound ==
  ASSUME NEW n \in 0 .. MaxJobs, NEW keys \in [Jobs -> Keys], NEW s,
         Sound(s, n, keys), NEW j \in s.jobs
  PROVE  /\ Sound(Removed(s, j), n, keys)
         /\ OutcomesKept(s, Removed(s, j), n)
         /\ Removed(s, j).jobs = s.jobs \ {j}
<1> DEFINE t == Removed(s, j)
<1>1. s \in StoresOf(n)
  BY DEF Sound
<1>2. /\ 1 .. n \subseteq Jobs /\ NoJob \notin Jobs
      /\ s.jobs \subseteq 1 .. n /\ s.filling \subseteq 1 .. n
      /\ s.ending \subseteq 1 .. n /\ s.working \subseteq 1 .. n
  BY <1>1, StorePart
<1>3. /\ t \in StoresOf(n)
      /\ t.jobs = s.jobs \ {j} /\ t.queue = s.queue
      /\ t.active = s.active /\ t.status = s.status
      /\ t.working = s.working
      /\ \A k \in Keys : t.index[k] = IF s.index[k] = j THEN NoJob
                                      ELSE s.index[k]
      /\ t.filling = s.filling \ {j}
      /\ t.ending = s.ending \cup ({j} \cap s.filling)
      /\ t.aborted = s.aborted \cup ({j} \cap s.filling)
  BY <1>1, WhatRemoved
<1> HIDE DEF t
<1>4. FillsCounted(t)
  <2>1. t.filling \cup t.ending = s.filling \cup s.ending
    BY <1>3
  <2>2. \A i \in t.ending \cup t.working : t.status[i] # "queued"
    BY <1>3 DEF Sound, FillsCounted
  <2>3. \A i \in t.filling : t.status[i] = "running"
    BY <1>3 DEF Sound, FillsCounted
  <2>4. t.active = Cardinality(t.filling \cup t.ending)
    BY <1>3, <2>1 DEF Sound, FillsCounted
  <2>5. t.filling \subseteq t.jobs /\ t.filling \cap t.ending = {}
    BY <1>3 DEF Sound, FillsCounted
  <2>6. t.working \ t.filling \subseteq t.aborted
    BY <1>3 DEF Sound, FillsCounted
  <2> QED BY <2>2, <2>3, <2>4, <2>5, <2>6 DEF FillsCounted
<1>5. QueueIsWhole(t)
  BY <1>3 DEF Sound, QueueIsWhole
<1>6. IndexedBy(t, keys)
  <2>1. ASSUME NEW i \in t.jobs, t.status[i] # "expired"
        PROVE  t.index[keys[i]] = i
    <3>1. i \in s.jobs /\ i # j /\ keys[i] \in Keys
      BY <1>2, <1>3
    <3>2. s.index[keys[i]] = i
      BY <1>3, <2>1, <3>1 DEF Sound, IndexedBy
    <3> QED BY <1>3, <3>1, <3>2
  <2>2. ASSUME NEW k \in Keys, t.index[k] # NoJob
        PROVE  /\ t.index[k] \in t.jobs
               /\ t.status[t.index[k]] # "expired"
               /\ keys[t.index[k]] = k
    <3>1. s.index[k] # j /\ t.index[k] = s.index[k]
      BY <1>3, <2>2
    <3>2. /\ s.index[k] \in s.jobs
          /\ s.status[s.index[k]] # "expired"
          /\ keys[s.index[k]] = k
      BY <2>2, <3>1 DEF Sound, IndexedBy
    <3> QED BY <1>3, <3>1, <3>2
  <2> QED BY <2>1, <2>2 DEF IndexedBy
<1>7. OutcomesKept(s, t, n)
  BY <1>3 DEF OutcomesKept
<1> QED BY <1>3, <1>4, <1>5, <1>6, <1>7 DEF Sound, t

\* What submit() makes of a state: one more job, that waits.
LEMMA WhatAdded ==
  ASSUME NEW n \in 0 .. MaxJobs - 1, NEW s \in StoresOf(n), NEW k \in Keys,
         now \in 0 .. LastSubmit
  PROVE  LET t == Added(s, n + 1, k)
         IN /\ t \in StoresOf(n + 1)
            /\ t.jobs = s.jobs \cup {n + 1} /\ t.queue = Append(s.queue, n + 1)
            /\ t.active = s.active /\ t.status = s.status
            /\ t.working = s.working /\ t.aborted = s.aborted
            /\ t.filling = s.filling /\ t.ending = s.ending
            /\ \A k2 \in Keys : t.index[k2] = IF k2 = k THEN n + 1
                                              ELSE s.index[k2]
<1> DEFINE index == [s.index EXCEPT ![k] = n + 1]
           queued == Append(s.queue, n + 1)
           created == [s.created EXCEPT ![n + 1] = now]
           t == [s EXCEPT !.jobs = @ \cup {n + 1}, !.index = index,
                          !.queue = queued, !.created = created]
<1>1. /\ 1 .. n \subseteq 1 .. (n + 1) /\ n + 1 \in 1 .. (n + 1)
      /\ n + 1 \in Jobs
  BY JobStoreAssumption DEF Jobs
<1>2. index \in [Keys -> Jobs \cup {NoJob}]
  BY <1>1 DEF StoresOf
<1>3. queued \in Seq(1 .. (n + 1))
  <2>1. s.queue \in Seq(1 .. n)
    BY DEF StoresOf
  <2>2. s.queue \in Seq(1 .. (n + 1))
    BY <1>1, <2>1
  <2> QED BY <1>1, <2>2
<1>4. created \in [Jobs -> 0 .. LastSubmit]
  BY <1>1 DEF StoresOf
<1>5. Added(s, n + 1, k) = t
  BY DEF Added, StoresOf
<1>6. t \in StoresOf(n + 1)
  <2> HIDE DEF index, queued, created
  <2>1. /\ s.jobs \cup {n + 1} \subseteq 1 .. (n + 1)
        /\ s.filling \subseteq 1 .. (n + 1) /\ s.ending \subseteq 1 .. (n + 1)
        /\ s.working \subseteq 1 .. (n + 1) /\ s.aborted \subseteq 1 .. (n + 1)
    BY <1>1 DEF StoresOf
  <2> QED BY <1>2, <1>3, <1>4, <2>1 DEF StoresOf
<1>7. /\ t.jobs = s.jobs \cup {n + 1} /\ t.queue = queued
      /\ t.active = s.active /\ t.status = s.status
      /\ t.working = s.working /\ t.aborted = s.aborted
      /\ t.filling = s.filling /\ t.ending = s.ending /\ t.index = index
  <2> HIDE DEF index, queued, created
  <2> QED BY DEF StoresOf
<1>8. s.index \in [Keys -> Jobs \cup {NoJob}]
  BY DEF StoresOf
<1> QED BY <1>5, <1>6, <1>7, <1>8

\* A job under a key that has none keeps the store sound, and what the clients
\* of the other jobs were told.
LEMMA AddedSound ==
  ASSUME NEW n \in 0 .. MaxJobs - 1, NEW keys \in [Jobs -> Keys], NEW s,
         Sound(s, n, keys), NEW k \in Keys, s.index[k] = NoJob,
         now \in 0 .. LastSubmit
  PROVE  /\ Sound(Added(s, n + 1, k), n + 1, [keys EXCEPT ![n + 1] = k])
         /\ OutcomesKept(s, Added(s, n + 1, k), n)
         /\ Added(s, n + 1, k).jobs = s.jobs \cup {n + 1}
<1> DEFINE t == Added(s, n + 1, k)
           new == [keys EXCEPT ![n + 1] = k]
<1>1. s \in StoresOf(n) /\ n \in 0 .. MaxJobs
  BY JobStoreAssumption DEF Sound
<1>2. /\ 1 .. n \subseteq Jobs /\ NoJob \notin Jobs
      /\ s.jobs \subseteq 1 .. n /\ s.filling \subseteq 1 .. n
      /\ s.ending \subseteq 1 .. n /\ s.working \subseteq 1 .. n
      /\ s.queue \in Seq(1 .. n)
  BY <1>1, StorePart
<1>3. n + 1 \in Jobs /\ n + 1 \notin 1 .. n /\ n + 1 > n
  BY JobStoreAssumption DEF Jobs
<1>4. /\ t \in StoresOf(n + 1)
      /\ t.jobs = s.jobs \cup {n + 1} /\ t.queue = Append(s.queue, n + 1)
      /\ t.active = s.active /\ t.status = s.status
      /\ t.working = s.working /\ t.aborted = s.aborted
      /\ t.filling = s.filling /\ t.ending = s.ending
      /\ \A k2 \in Keys : t.index[k2] = IF k2 = k THEN n + 1
                                        ELSE s.index[k2]
  BY <1>1, WhatAdded
<1> HIDE DEF t
<1>5. FillsCounted(t)
  BY <1>4 DEF Sound, FillsCounted
<1>6. QueueIsWhole(t)
  <2>1. /\ DOMAIN t.queue = 1 .. Len(s.queue) + 1 /\ Len(s.queue) \in Nat
        /\ DOMAIN s.queue = 1 .. Len(s.queue)
        /\ \A i \in DOMAIN s.queue : /\ t.queue[i] = s.queue[i]
                                     /\ t.queue[i] \in 1 .. n
        /\ t.queue[Len(s.queue) + 1] = n + 1
    BY <1>2, <1>4
  <2>2. ASSUME NEW i \in DOMAIN t.queue, NEW h \in DOMAIN t.queue,
               t.queue[i] = t.queue[h]
        PROVE  i = h
    <3>1. /\ i \in DOMAIN s.queue \/ i = Len(s.queue) + 1
          /\ h \in DOMAIN s.queue \/ h = Len(s.queue) + 1
      BY <2>1
    <3>2. CASE i \in DOMAIN s.queue /\ h \in DOMAIN s.queue
      BY <2>1, <2>2, <3>2 DEF Sound, QueueIsWhole
    <3> QED BY <1>3, <2>1, <2>2, <3>1, <3>2
  <2>3. ASSUME NEW j \in t.jobs, t.status[j] = "queued"
        PROVE  \E i \in DOMAIN t.queue : t.queue[i] = j
    <3>1. CASE j = n + 1
      <4>1. Len(s.queue) + 1 \in DOMAIN t.queue
        BY <2>1
      <4> QED BY <2>1, <3>1, <4>1
    <3>2. CASE j \in s.jobs
      <4>1. PICK i \in DOMAIN s.queue : s.queue[i] = j
        BY <1>4, <2>3, <3>2 DEF Sound, QueueIsWhole
      <4>2. i \in DOMAIN t.queue
        BY <2>1
      <4> QED BY <2>1, <4>1, <4>2
    <3> QED BY <1>4, <3>1, <3>2
  <2> QED BY <2>2, <2>3 DEF QueueIsWhole
<1>7. IndexedBy(t, new)
  <2>0. /\ new[n + 1] = k
        /\ \A j \in Jobs : j # n + 1 => new[j] = keys[j]
    BY <1>3
  <2> HIDE DEF new
  <2>1. ASSUME NEW j \in t.jobs, t.status[j] # "expired"
        PROVE  t.index[new[j]] = j
    <3>1. CASE j = n + 1
      BY <1>4, <2>0, <3>1
    <3>2. CASE j \in s.jobs
      <4>1. s.index[keys[j]] = j
        BY <1>4, <2>1, <3>2 DEF Sound, IndexedBy
      <4>2. j \in Jobs /\ j # n + 1 /\ j # NoJob /\ keys[j] \in Keys
        BY <1>2, <1>3, <3>2
      <4>3. keys[j] # k
        BY <4>1, <4>2
      <4> QED BY <1>4, <2>0, <4>1, <4>2, <4>3
    <3> QED BY <1>4, <3>1, <3>2
  <2>2. ASSUME NEW k2 \in Keys, t.index[k2] # NoJob
        PROVE  /\ t.index[k2] \in t.jobs
               /\ t.status[t.index[k2]] # "expired"
               /\ new[t.index[k2]] = k2
    <3>1. CASE k2 = k
      <4>1. t.index[k2] = n + 1
        BY <1>4, <3>1
      <4>2. t.status[n + 1] = "queued"
        BY <1>3, <1>4 DEF Sound
      <4> QED BY <1>4, <2>0, <3>1, <4>1, <4>2
    <3>2. CASE k2 # k
      <4>1. t.index[k2] = s.index[k2]
        BY <1>4, <3>2
      <4>2. /\ s.index[k2] \in s.jobs
            /\ s.status[s.index[k2]] # "expired"
            /\ keys[s.index[k2]] = k2
        BY <2>2, <4>1 DEF Sound, IndexedBy
      <4>3. s.index[k2] \in Jobs /\ s.index[k2] # n + 1
        BY <1>2, <1>3, <4>2
      <4> QED BY <1>4, <2>0, <4>1, <4>2, <4>3
    <3> QED BY <3>1, <3>2
  <2> QED BY <2>1, <2>2 DEF IndexedBy
<1>8. \A j \in Jobs : j > n + 1 => t.status[j] = "queued"
  <2>1. \A j \in Jobs : j > n + 1 => j > n
    BY DEF Jobs
  <2> QED BY <1>4, <2>1 DEF Sound
<1>9. OutcomesKept(s, t, n)
  BY <1>3, <1>4 DEF OutcomesKept
<1> QED BY <1>4, <1>5, <1>6, <1>7, <1>8, <1>9 DEF Sound, t

-------------------------------------------------------------------------------
(* drain.                                                                  *)

\* The places that drain() gives a slot to: no more than there are free slots,
\* no waiting job is passed over, and if a slot stays free none waits.
LEMMA StartsAreFirst ==
  ASSUME NEW n \in 0 .. MaxJobs, NEW s \in StoresOf(n)
  PROVE  LET places == {i \in DOMAIN s.queue : Waiting(s, i)}
             free == MaxConcurrentFills - s.active
         IN /\ DOMAIN s.queue = 1 .. Len(s.queue) /\ Len(s.queue) \in Nat
            /\ Starts(s) \subseteq places /\ IsFiniteSet(Starts(s))
            /\ Cardinality(Starts(s)) \in 0 .. free
            /\ \A i \in Starts(s), h \in places : h < i => h \in Starts(s)
            /\ Cardinality(Starts(s)) < free => Starts(s) = places
<1> DEFINE places == {i \in DOMAIN s.queue : Waiting(s, i)}
           free == MaxConcurrentFills - s.active
<1>1. DOMAIN s.queue = 1 .. Len(s.queue) /\ Len(s.queue) \in Nat
  BY DEF StoresOf
<1>2. free \in Nat
  BY JobStoreAssumption DEF StoresOf
<1>3. places \in SUBSET (1 .. Len(s.queue))
  BY <1>1
<1>4. Starts(s) = First(places, free)
  BY DEF Starts, First
<1>5. Starts(s) \subseteq places
  BY DEF Starts
<1> HIDE DEF places, free
<1> DEFINE len == Len(s.queue)
<1>6. len \in Nat /\ places \in SUBSET (1 .. len)
  BY <1>1, <1>3
<1> HIDE DEF len
<1>7. /\ IsFiniteSet(First(places, free))
      /\ Cardinality(First(places, free)) \in 0 .. free
      /\ \A i \in First(places, free), h \in places :
           h < i => h \in First(places, free)
      /\ Cardinality(First(places, free)) < free => First(places, free) = places
  BY <1>2, <1>6, FirstOf
<1> QED BY <1>1, <1>4, <1>5, <1>7 DEF places, free

\* The jobs at some places of a queue.
Held(queue2, places) == {queue2[i] : i \in places}

\* Jobs that stand in a queue once are as many as their places.
LEMMA AsManyJobs ==
  ASSUME NEW queue2, NEW places, IsFiniteSet(places),
         places \subseteq DOMAIN queue2,
         \A i, h \in DOMAIN queue2 : queue2[i] = queue2[h] => i = h
  PROVE  Cardinality(Held(queue2, places)) = Cardinality(places)
<1> DEFINE held == Held(queue2, places)
           at == [i \in places |-> queue2[i]]
<1>1. at \in [places -> held]
  BY DEF Held
<1>2. \A i, h \in places : at[i] = at[h] => i = h
  OBVIOUS
<1>3. \A x \in held : \E i \in places : at[i] = x
  BY DEF Held
<1>4. at \in Bijection(places, held)
  <2> HIDE DEF at, held
  <2> QED BY <1>1, <1>2, <1>3, Fun_IsBij
<1>5. ExistsBijection(places, held)
  BY <1>4 DEF ExistsBijection
<1> QED BY <1>5, FS_Bijection

\* What drain() leaves of a state: m places are taken from the queue, and of
\* their jobs those that wait begin to run or turn out to have expired.
DrainedBy(s, t, n, run, late, m) ==
  /\ t \in StoresOf(n)
  /\ run \cap late = {}
  /\ \A j \in run \cup late : s.status[j] = "queued"
  /\ \A i \in DOMAIN s.queue :
       i <= m /\ Waiting(s, i) => s.queue[i] \in run \cup late
  /\ t.active < MaxConcurrentFills => m = Len(s.queue)
  /\ t.jobs = s.jobs
  /\ t.queue = SubSeq(s.queue, m + 1, Len(s.queue))
  /\ t.active = s.active + Cardinality(run \cup late)
  /\ \A k \in Keys : t.index[k] = IF s.index[k] \in late THEN NoJob
                                  ELSE s.index[k]
  /\ \A j \in Jobs : t.status[j] = IF j \in late THEN "expired"
                                   ELSE IF j \in run THEN "running"
                                   ELSE s.status[j]
  /\ t.filling = s.filling \cup run
  /\ t.ending = s.ending \cup late
  /\ t.working = s.working \cup run
  /\ t.aborted = s.aborted

\* drain() does so, for some jobs of the map and some places.
LEMMA WhatDrained ==
  ASSUME NEW n \in 0 .. MaxJobs, NEW keys, NEW s, Sound(s, n, keys),
         now \in 0 .. EndOfTime
  PROVE  \E run, late \in SUBSET s.jobs, m \in 0 .. Len(s.queue) :
           DrainedBy(s, Drained(s), n, run, late, m)
<1> DEFINE places == {i \in DOMAIN s.queue : Waiting(s, i)}
           starts == Starts(s)
           begun == {s.queue[i] : i \in starts}
           late == {j \in begun : ExpiresAt(s, j) <= now}
           run == begun \ late
           full == s.active + Cardinality(begun) = MaxConcurrentFills
           taken == IF ~full THEN DOMAIN s.queue
                    ELSE {i \in DOMAIN s.queue : \E h \in starts : i <= h}
           queued == SubSeq(s.queue, Cardinality(taken) + 1, Len(s.queue))
           status2 == [j \in Jobs |-> IF j \in run THEN "running"
                                      ELSE s.status[j]]
           deadline == [j \in Jobs |-> IF j \in run THEN now + MaxFillDuration
                                       ELSE s.deadline[j]]
           begin == [s EXCEPT
             !.queue = queued,
             !.active = @ + Cardinality(begun),
             !.status = status2,
             !.deadline = deadline,
             !.filling = @ \cup run,
             !.working = @ \cup run,
             !.ending = @ \cup late]
<1>1. s \in StoresOf(n)
  BY DEF Sound
<1>2. /\ DOMAIN s.queue = 1 .. Len(s.queue) /\ Len(s.queue) \in Nat
      /\ starts \subseteq places /\ IsFiniteSet(starts)
      /\ Cardinality(starts) \in 0 .. MaxConcurrentFills - s.active
      /\ \A i \in starts, h \in places : h < i => h \in starts
      /\ Cardinality(starts) < MaxConcurrentFills - s.active => starts = places
  BY <1>1, StartsAreFirst
<1>3. /\ 1 .. n \subseteq Jobs
      /\ s.jobs \subseteq 1 .. n /\ s.filling \subseteq 1 .. n
      /\ s.ending \subseteq 1 .. n /\ s.working \subseteq 1 .. n
      /\ s.queue \in Seq(1 .. n) /\ s.active \in 0 .. MaxConcurrentFills
      /\ s.status \in [Jobs -> Statuses]
  BY <1>1, StorePart
<1>4. /\ begun \subseteq s.jobs /\ \A j \in begun : s.status[j] = "queued"
      /\ \A i \in DOMAIN s.queue : i \in starts => s.queue[i] \in begun
  BY <1>2 DEF Waiting
<1>5. Cardinality(begun) = Cardinality(starts)
  <2>1. \A i, h \in DOMAIN s.queue : s.queue[i] = s.queue[h] => i = h
    BY DEF Sound, QueueIsWhole
  <2>2. starts \subseteq DOMAIN s.queue
    BY <1>2
  <2>3. begun = Held(s.queue, starts)
    BY DEF Held
  <2> HIDE DEF starts, begun
  <2> QED BY <1>2, <2>1, <2>2, <2>3, AsManyJobs
<1> HIDE DEF starts, begun
<1>6. /\ run \subseteq begun /\ late \subseteq begun /\ run \cup late = begun
      /\ run \cap late = {}
  OBVIOUS
<1>7. Drained(s) = Expired(begin, late)
  BY <1>1 DEF Drained, StoresOf, starts, begun
<1> HIDE DEF late, run
<1>8. /\ Cardinality(taken) \in 0 .. Len(s.queue)
      /\ \A i \in places : i <= Cardinality(taken) => i \in starts
      /\ ~full => Cardinality(taken) = Len(s.queue)
  <2>1. PICK m \in 0 .. Len(s.queue) :
          /\ taken = 1 .. m
          /\ ~full => m = Len(s.queue)
          /\ full => m = 0 \/ m \in starts
    <3>1. CASE ~full
      BY <1>2, <3>1
    <3>2. CASE full /\ starts = {}
      <4>1. taken = 1 .. 0
        BY <3>2
      <4> QED BY <1>2, <3>2, <4>1
    <3>3. CASE full /\ starts # {}
      <4>1. starts \in SUBSET (1 .. Len(s.queue))
        BY <1>2
      <4>2. PICK m \in starts : \A i \in starts : i <= m
        BY <1>2, <3>3, <4>1, GreatestOf
      <4>3. m \in 1 .. Len(s.queue)
        BY <4>1
      <4>4. taken = 1 .. m
        <5>1. ASSUME NEW i \in DOMAIN s.queue, NEW h \in starts, i <= h
              PROVE  i <= m
          <6>1. i \in Nat /\ h \in Nat /\ m \in Nat /\ h <= m
            BY <1>2, <4>1, <4>2
          <6> QED BY <5>1, <6>1
        <5>2. taken = {i \in DOMAIN s.queue : \E h \in starts : i <= h}
          BY <3>3
        <5>3. \A i \in taken : i \in 1 .. m
          BY <1>2, <5>1, <5>2
        <5>4. \A i \in 1 .. m : i \in DOMAIN s.queue /\ i <= m
          BY <1>2, <4>3
        <5> HIDE DEF taken
        <5> QED BY <5>2, <5>3, <5>4
      <4> HIDE DEF taken, full
      <4> QED BY <1>2, <3>3, <4>3, <4>4
    <3> QED BY <3>1, <3>2, <3>3
  <2>2. Cardinality(taken) = m
    <3>1. m \in Nat
      OBVIOUS
    <3> HIDE DEF taken
    <3> QED BY <2>1, <3>1, FS_Interval
  <2>3. ASSUME NEW i \in places, i <= m
        PROVE  i \in starts
    <3>1. CASE full
      <4>1. i \in Nat /\ i >= 1 /\ m \in Nat
        BY <1>2
      <4>2. m \in starts
        BY <2>1, <2>3, <3>1, <4>1
      <4>3. i = m \/ i < m
        BY <2>3, <4>1
      <4> HIDE DEF places
      <4> QED BY <1>2, <4>2, <4>3
    <3>2. CASE ~full
      <4>1. Cardinality(starts) < MaxConcurrentFills - s.active
        <5>1. /\ Cardinality(starts) \in 0 .. MaxConcurrentFills - s.active
              /\ s.active \in 0 .. MaxConcurrentFills
              /\ MaxConcurrentFills \in Nat
          BY <1>2, <1>3, JobStoreAssumption
        <5>2. s.active + Cardinality(starts) # MaxConcurrentFills
          BY <1>5, <3>2
        <5> QED BY <5>1, <5>2
      <4> HIDE DEF places
      <4> QED BY <1>2, <4>1
    <3> QED BY <3>1, <3>2
  <2> HIDE DEF taken, full, places
  <2> QED BY <2>1, <2>2, <2>3
<1> HIDE DEF taken
<1>9. begin \in StoresOf(n)
  <2>1. queued \in Seq(1 .. n)
    BY <1>2, <1>3, <1>8, SubSeqProperties
  <2>2. s.active + Cardinality(begun) \in 0 .. MaxConcurrentFills
    BY <1>2, <1>3, <1>5, JobStoreAssumption
  <2>3. status2 \in [Jobs -> Statuses]
    BY <1>3 DEF Statuses
  <2>4. deadline \in [Jobs -> 0 .. EndOfTime + MaxFillDuration]
    <3>1. now + MaxFillDuration \in 0 .. EndOfTime + MaxFillDuration
      BY JobStoreAssumption DEF EndOfTime
    <3>2. s.deadline \in [Jobs -> 0 .. EndOfTime + MaxFillDuration]
      BY <1>1 DEF StoresOf
    <3> QED BY <3>1, <3>2
  <2>5. run \subseteq 1 .. n /\ late \subseteq 1 .. n
    BY <1>3, <1>4, <1>6
  <2> HIDE DEF queued, status2, deadline, full
  <2> QED BY <1>1, <1>3, <2>1, <2>2, <2>3, <2>4, <2>5 DEF StoresOf
<1>10. /\ begin.jobs = s.jobs /\ begin.index = s.index
       /\ begin.queue = queued
       /\ begin.active = s.active + Cardinality(begun)
       /\ begin.status = status2
       /\ begin.filling = s.filling \cup run
       /\ begin.working = s.working \cup run
       /\ begin.ending = s.ending \cup late
       /\ begin.aborted = s.aborted
  <2> HIDE DEF queued, status2, deadline, full
  <2> QED BY <1>1 DEF StoresOf
<1>11. \A j \in Jobs : begin.status[j] = IF j \in run THEN "running"
                                         ELSE s.status[j]
  BY <1>10
<1> HIDE DEF begin
<1>12. Expiring(begin, late) = late
  <2>1. \A j \in late : /\ j \in s.jobs /\ j \in Jobs /\ j \notin run
                        /\ s.status[j] = "queued"
    BY <1>3, <1>4, <1>6
  <2> QED BY <1>10, <1>11, <2>1 DEF Expiring
<1>13. late \cap begin.filling = {}
  <2>1. \A j \in s.filling : s.status[j] = "running"
    BY DEF Sound, FillsCounted
  <2> QED BY <1>4, <1>6, <1>10, <2>1
<1> DEFINE t == Expired(begin, late)
<1>14. /\ t \in StoresOf(n)
       /\ t.jobs = begin.jobs /\ t.queue = begin.queue
       /\ t.active = begin.active
       /\ t.working = begin.working
       /\ \A k \in Keys : t.index[k] = IF begin.index[k] \in late THEN NoJob
                                       ELSE begin.index[k]
       /\ \A j \in Jobs : t.status[j] = IF j \in late THEN "expired"
                                        ELSE begin.status[j]
       /\ t.filling = begin.filling \ late
       /\ t.ending = begin.ending \cup (late \cap begin.filling)
       /\ t.aborted = begin.aborted \cup (late \cap begin.filling)
  BY <1>9, <1>12, WhatExpires
<1> HIDE DEF t
<1>15. /\ t.jobs = s.jobs /\ t.queue = queued
       /\ t.active = s.active + Cardinality(run \cup late)
       /\ \A k \in Keys : t.index[k] = IF s.index[k] \in late THEN NoJob
                                       ELSE s.index[k]
       /\ \A j \in Jobs : t.status[j] = IF j \in late THEN "expired"
                                        ELSE IF j \in run THEN "running"
                                        ELSE s.status[j]
       /\ t.filling = s.filling \cup run
       /\ t.ending = s.ending \cup late
       /\ t.working = s.working \cup run
       /\ t.aborted = s.aborted
  <2> HIDE DEF queued, status2, deadline, full
  <2>1. /\ t.jobs = s.jobs /\ t.queue = queued
        /\ t.active = s.active + Cardinality(run \cup late)
    BY <1>6, <1>10, <1>14
  <2>2. \A k \in Keys : t.index[k] = IF s.index[k] \in late THEN NoJob
                                     ELSE s.index[k]
    BY <1>10, <1>14
  <2>3. \A j \in Jobs : t.status[j] = IF j \in late THEN "expired"
                                      ELSE IF j \in run THEN "running"
                                      ELSE s.status[j]
    BY <1>11, <1>14
  <2>4. t.filling = s.filling \cup run
    BY <1>10, <1>13, <1>14
  <2>5. /\ t.ending = s.ending \cup late /\ t.working = s.working \cup run
        /\ t.aborted = s.aborted
    BY <1>10, <1>13, <1>14
  <2> QED BY <2>1, <2>2, <2>3, <2>4, <2>5
<1>16. \A i \in DOMAIN s.queue :
         i <= Cardinality(taken) /\ Waiting(s, i)
           => s.queue[i] \in run \cup late
  <2>1. \A i \in DOMAIN s.queue :
          i <= Cardinality(taken) /\ Waiting(s, i) => i \in starts
    BY <1>8
  <2> QED BY <1>4, <1>6, <2>1
<1>17. t.active < MaxConcurrentFills => Cardinality(taken) = Len(s.queue)
  <2>1. t.active = s.active + Cardinality(begun)
    BY <1>6, <1>15
  <2>2. t.active < MaxConcurrentFills => t.active # MaxConcurrentFills
    BY <1>14, JobStoreAssumption DEF StoresOf
  <2> QED BY <1>8, <2>1, <2>2
<1>18. run \in SUBSET s.jobs /\ late \in SUBSET s.jobs
  BY <1>4, <1>6
<1>19. \A j \in run \cup late : s.status[j] = "queued"
  BY <1>4, <1>6
<1>20. Drained(s) = t
  BY <1>7 DEF t
<1> DEFINE m == Cardinality(taken)
<1>21. m \in 0 .. Len(s.queue) /\ t.queue = SubSeq(s.queue, m + 1, Len(s.queue))
  BY <1>8, <1>15
<1>22. /\ \A i \in DOMAIN s.queue :
            i <= m /\ Waiting(s, i) => s.queue[i] \in run \cup late
       /\ t.active < MaxConcurrentFills => m = Len(s.queue)
  BY <1>16, <1>17
<1> HIDE DEF full, m, queued, status2, deadline, places
<1>23. DrainedBy(s, t, n, run, late, m)
  BY <1>6, <1>14, <1>15, <1>19, <1>21, <1>22 DEF DrainedBy
<1> QED BY <1>18, <1>20, <1>21, <1>23

\* drain() keeps the store sound, and what its clients were told, and leaves no
\* slot free while a job waits.
LEMMA DrainedSound ==
  ASSUME NEW n \in 0 .. MaxJobs, NEW keys \in [Jobs -> Keys], NEW s,
         Sound(s, n, keys), now \in 0 .. EndOfTime
  PROVE  /\ Sound(Drained(s), n, keys)
         /\ NoneWaits(Drained(s))
         /\ OutcomesKept(s, Drained(s), n)
         /\ Drained(s).jobs = s.jobs
<1> DEFINE t == Drained(s)
<1>1. PICK run \in SUBSET s.jobs, late \in SUBSET s.jobs,
           m \in 0 .. Len(s.queue) : DrainedBy(s, t, n, run, late, m)
  BY WhatDrained
<1> HIDE DEF t
<1>2. /\ 1 .. n \subseteq Jobs /\ NoJob \notin Jobs
      /\ s.jobs \subseteq 1 .. n /\ s.filling \subseteq 1 .. n
      /\ s.ending \subseteq 1 .. n /\ s.working \subseteq 1 .. n
      /\ s.queue \in Seq(1 .. n) /\ s.active \in 0 .. MaxConcurrentFills
  BY StorePart DEF Sound
<1>3. run \subseteq Jobs /\ late \subseteq Jobs
  BY <1>2
<1>4. \A j \in run \cup late : /\ j \notin s.filling /\ j \notin s.ending
                               /\ j \notin s.working
  BY <1>1 DEF DrainedBy, Sound, FillsCounted
<1>5. FillsCounted(t)
  <2>1. t.filling \subseteq t.jobs /\ t.filling \cap t.ending = {}
    BY <1>1, <1>4 DEF DrainedBy, Sound, FillsCounted
  <2>2. \A j \in t.filling : t.status[j] = "running"
    BY <1>1, <1>2, <1>3, <1>4 DEF DrainedBy, Sound, FillsCounted
  <2>3. \A j \in t.ending \cup t.working : t.status[j] # "queued"
    BY <1>1, <1>2, <1>3, <1>4 DEF DrainedBy, Sound, FillsCounted
  <2>4. t.active = Cardinality(t.filling \cup t.ending)
    <3> DEFINE had == s.filling \cup s.ending
               begun == run \cup late
    <3>1. /\ IsFiniteSet(had) /\ Cardinality(had) \in Nat
          /\ IsFiniteSet(begun) /\ Cardinality(begun) \in Nat
      <4>1. had \in SUBSET (1 .. n) /\ begun \in SUBSET (1 .. n) /\ n \in Nat
        BY <1>2
      <4> HIDE DEF had, begun
      <4> QED BY <4>1, FewJobs
    <3>2. t.filling \cup t.ending = had \cup begun /\ had \cap begun = {}
      BY <1>1, <1>4 DEF DrainedBy
    <3>3. /\ t.active = s.active + Cardinality(begun)
          /\ s.active = Cardinality(had)
      BY <1>1 DEF DrainedBy, Sound, FillsCounted
    <3> HIDE DEF had, begun
    <3>4. Cardinality(had \cup begun) = Cardinality(had) + Cardinality(begun)
      <4>1. Cardinality(had \cap begun) = 0
        BY <3>2, FS_EmptySet
      <4>2. Cardinality(had \cup begun)
              = Cardinality(had) + Cardinality(begun) - Cardinality(had \cap begun)
        BY <3>1, FS_Union
      <4> QED BY <3>1, <4>1, <4>2
    <3> QED BY <3>2, <3>3, <3>4
  <2>5. t.working \ t.filling \subseteq t.aborted
    BY <1>1 DEF DrainedBy, Sound, FillsCounted
  <2> QED BY <2>1, <2>2, <2>3, <2>4, <2>5 DEF FillsCounted
<1>6. /\ Len(s.queue) \in Nat /\ DOMAIN s.queue = 1 .. Len(s.queue)
      /\ DOMAIN t.queue = 1 .. Len(s.queue) - m
      /\ \A i \in DOMAIN t.queue : /\ i + m \in DOMAIN s.queue
                                   /\ t.queue[i] = s.queue[i + m]
  <2>1. Len(s.queue) \in Nat /\ DOMAIN s.queue = 1 .. Len(s.queue)
    BY <1>2
  <2>2. t.queue = SubSeq(s.queue, m + 1, Len(s.queue))
    BY <1>1 DEF DrainedBy
  <2>3. \A i \in m + 1 .. Len(s.queue) : s.queue[i] \in 1 .. n
    BY <1>2, <2>1
  <2>4. /\ t.queue \in Seq(1 .. n)
        /\ Len(t.queue) = IF m + 1 <= Len(s.queue)
                          THEN Len(s.queue) - (m + 1) + 1 ELSE 0
        /\ \A i \in 1 .. Len(s.queue) - (m + 1) + 1 :
             t.queue[i] = s.queue[m + 1 + i - 1]
    <3>1. m + 1 \in Int /\ Len(s.queue) \in Int
      BY <2>1
    <3> QED BY <2>2, <2>3, <3>1, SubSeqProperties
  <2>5. Len(t.queue) = Len(s.queue) - m
    BY <2>1, <2>4
  <2>6. DOMAIN t.queue = 1 .. Len(s.queue) - m
    BY <2>4, <2>5
  <2>7. \A i \in 1 .. Len(s.queue) - m : /\ i + m \in DOMAIN s.queue
                                         /\ m + 1 + i - 1 = i + m
                                         /\ i \in 1 .. Len(s.queue) - (m + 1) + 1
    BY <2>1
  <2>8. \A i \in 1 .. Len(s.queue) - m : t.queue[i] = s.queue[i + m]
    BY <2>4, <2>7
  <2> QED BY <2>1, <2>6, <2>7, <2>8
<1>7. ASSUME NEW j \in t.jobs, t.status[j] = "queued"
      PROVE  /\ j \in s.jobs /\ s.status[j] = "queued"
             /\ j \notin run /\ j \notin late
  BY <1>1, <1>2, <1>7 DEF DrainedBy
<1>8. \A j \in s.jobs : s.status[j] = "queued" =>
        \E i \in DOMAIN s.queue : s.queue[i] = j
  BY DEF Sound, QueueIsWhole
<1>9. QueueIsWhole(t)
  <2>1. ASSUME NEW i \in DOMAIN t.queue, NEW h \in DOMAIN t.queue,
               t.queue[i] = t.queue[h]
        PROVE  i = h
    <3>0. /\ i + m \in DOMAIN s.queue /\ h + m \in DOMAIN s.queue
          /\ s.queue[i + m] = s.queue[h + m]
      BY <1>6, <2>1
    <3>1. i + m = h + m
      BY <3>0 DEF Sound, QueueIsWhole
    <3>2. i \in Nat /\ h \in Nat /\ m \in Nat
      BY <1>6
    <3> QED BY <3>1, <3>2
  <2>2. ASSUME NEW j \in t.jobs, t.status[j] = "queued"
        PROVE  \E i \in DOMAIN t.queue : t.queue[i] = j
    <3>1. PICK i \in DOMAIN s.queue : s.queue[i] = j
      BY <1>7, <1>8, <2>2
    <3>2. Waiting(s, i) /\ s.queue[i] \notin run \cup late
      BY <1>7, <2>2, <3>1 DEF Waiting
    <3>3. ~(i <= m)
      BY <1>1, <3>2 DEF DrainedBy
    <3>4. i \in Nat /\ m \in Nat /\ i <= Len(s.queue) /\ Len(s.queue) \in Nat
      BY <1>6
    <3>5. i - m \in 1 .. Len(s.queue) - m /\ (i - m) + m = i
      BY <3>3, <3>4
    <3>6. i - m \in DOMAIN t.queue /\ t.queue[i - m] = j
      BY <1>6, <3>1, <3>5
    <3> QED BY <3>6
  <2> QED BY <2>1, <2>2 DEF QueueIsWhole
<1>10. IndexedBy(t, keys)
  <2>1. ASSUME NEW j \in t.jobs, t.status[j] # "expired"
        PROVE  t.index[keys[j]] = j
    <3>1. j \in s.jobs /\ j \in Jobs /\ keys[j] \in Keys /\ j \notin late
      BY <1>1, <1>2, <2>1 DEF DrainedBy
    <3>2. s.status[j] # "expired"
      BY <1>1, <2>1, <3>1 DEF DrainedBy
    <3>3. s.index[keys[j]] = j
      BY <3>1, <3>2 DEF Sound, IndexedBy
    <3> QED BY <1>1, <3>1, <3>3 DEF DrainedBy
  <2>2. ASSUME NEW k \in Keys, t.index[k] # NoJob
        PROVE  /\ t.index[k] \in t.jobs
               /\ t.status[t.index[k]] # "expired"
               /\ keys[t.index[k]] = k
    <3>1. s.index[k] \notin late /\ t.index[k] = s.index[k]
      BY <1>1, <2>2 DEF DrainedBy
    <3>2. /\ s.index[k] \in s.jobs
          /\ s.status[s.index[k]] # "expired"
          /\ keys[s.index[k]] = k
      BY <2>2, <3>1 DEF Sound, IndexedBy
    <3>3. s.index[k] \in Jobs
      BY <1>2, <3>2
    <3> QED BY <1>1, <3>1, <3>2, <3>3 DEF DrainedBy
  <2> QED BY <2>1, <2>2 DEF IndexedBy
<1>11. NoneWaits(t)
  <2>1. SUFFICES ASSUME t.active < MaxConcurrentFills, NEW j \in t.jobs,
                        t.status[j] = "queued"
                 PROVE  FALSE
    BY DEF NoneWaits
  <2>2. PICK i \in DOMAIN t.queue : t.queue[i] = j
    BY <1>9, <2>1 DEF QueueIsWhole
  <2>3. m = Len(s.queue)
    BY <1>1, <2>1 DEF DrainedBy
  <2> QED BY <1>6, <2>2, <2>3
<1>12. \A j \in Jobs : j > n => t.status[j] = "queued"
  <2>1. TAKE j \in Jobs
  <2>2. HAVE j > n
  <2>3. j \notin s.jobs
    <3>1. n \in Nat /\ j \in Nat
      BY DEF Jobs
    <3> QED BY <1>2, <2>2, <3>1
  <2>4. j \notin run /\ j \notin late
    BY <2>3
  <2> QED BY <1>1, <2>2, <2>4 DEF Sound, DrainedBy
<1>13. OutcomesKept(s, t, n)
  <2>1. ASSUME NEW j \in 1 .. n, j \in run \cup late
        PROVE  s.status[j] = "queued" /\ j \in s.jobs
    BY <1>1, <2>1 DEF DrainedBy
  <2>2. ASSUME NEW j \in 1 .. n, j \notin run \cup late
        PROVE  t.status[j] = s.status[j]
    BY <1>1, <1>2, <2>2 DEF DrainedBy
  <2>3. t.jobs = s.jobs
    BY <1>1 DEF DrainedBy
  <2> QED BY <2>1, <2>2, <2>3 DEF OutcomesKept, Results
<1> QED BY <1>1, <1>5, <1>9, <1>10, <1>11, <1>12, <1>13 DEF Sound, DrainedBy, t

-------------------------------------------------------------------------------
(* The tasks keep the invariant, and what the clients were told.           *)

\* Becomes makes a state of the store the next one.
LEMMA BecomesIt ==
  ASSUME NEW n, NEW t \in StoresOf(n), Becomes(t)
  PROVE  Store' = t
  BY DEF Becomes, Store, StoresOf

\* A sound state that becomes the next one keeps the invariant.
LEMMA StepKept ==
  ASSUME NEW t, Becomes(t), Sound(t, made', key'), made' \in 0 .. MaxJobs,
         key' \in [Jobs -> Keys], now' \in 0 .. EndOfTime,
         t.ending = {} => NoneWaits(t), Cardinality(t.jobs) <= MaxEntries,
         OutcomesKept(Store, t, made)
  PROVE  IInv' /\ OutcomesKept(Store, Store', made)
<1>1. t \in StoresOf(made')
  BY DEF Sound
<1>2. Store' = t
  BY <1>1, BecomesIt
<1>3. TypeOK'
  <2>1. /\ jobs' = t.jobs /\ cacheIndex' = t.index /\ queue' = t.queue
        /\ activeFills' = t.active /\ createdAt' = t.created
        /\ status' = t.status /\ deadlineAt' = t.deadline
        /\ filling' = t.filling /\ ending' = t.ending
        /\ working' = t.working /\ aborted' = t.aborted
    BY DEF Becomes
  <2>2. 1 .. made' \subseteq Jobs
    BY JobStoreAssumption DEF Jobs
  <2> QED BY <1>1, <2>1, <2>2 DEF TypeOK, StoresOf
<1>4. Task' => NoneWaits(Store')
  BY <1>2 DEF Task, Becomes
<1>5. Cardinality(jobs') <= MaxEntries
  BY DEF Becomes
<1>6. Sound(Store', made', key')
  BY <1>2
<1> QED BY <1>2, <1>3, <1>4, <1>5, <1>6 DEF IInv

\* What the invariant says of the fields of the store.
LEMMA StoreFields ==
  ASSUME IInv
  PROVE  /\ Sound(Store, made, key) /\ Store \in StoresOf(made)
         /\ made \in 0 .. MaxJobs /\ key \in [Jobs -> Keys]
         /\ now \in 0 .. EndOfTime /\ Cardinality(Store.jobs) <= MaxEntries
         /\ Task => NoneWaits(Store)
         /\ Store.jobs = jobs /\ Store.index = cacheIndex /\ Store.queue = queue
         /\ Store.active = activeFills /\ Store.status = status
         /\ Store.filling = filling /\ Store.ending = ending
         /\ Store.working = working /\ Store.aborted = aborted
<1>1. Sound(Store, made, key)
  BY DEF IInv
<1>2. /\ made \in 0 .. MaxJobs /\ key \in [Jobs -> Keys]
      /\ now \in 0 .. EndOfTime
  BY DEF IInv, TypeOK
<1>3. /\ Store.jobs = jobs /\ Store.index = cacheIndex /\ Store.queue = queue
      /\ Store.active = activeFills /\ Store.status = status
      /\ Store.filling = filling /\ Store.ending = ending
      /\ Store.working = working /\ Store.aborted = aborted
  BY DEF Store
<1> QED BY <1>1, <1>2, <1>3 DEF IInv, Sound

\* Two operations, one after the other.
LEMMA OutcomesKeptTwice ==
  ASSUME NEW s, NEW t, NEW u, NEW n,
         OutcomesKept(s, t, n), OutcomesKept(t, u, n)
  PROVE  OutcomesKept(s, u, n)
<1>1. ASSUME NEW j \in 1 .. n
      PROVE  /\ s.status[j] \in Results => u.status[j] \in {s.status[j], "expired"}
             /\ s.status[j] = "expired" => u.status[j] = "expired"
             /\ j \notin s.jobs => u.status[j] = s.status[j] /\ j \notin u.jobs
  BY DEF OutcomesKept
<1> QED BY <1>1 DEF OutcomesKept

\* evictExpired()
LEMMA EvictedSound ==
  ASSUME IInv
  PROVE  LET t == Evicted(Store)
         IN /\ Sound(t, made, key) /\ t.jobs = Store.jobs
            /\ Task => NoneWaits(t)
            /\ OutcomesKept(Store, t, made)
  BY StoreFields, ExpiredSound DEF Evicted

\* submit() of a known key.
LEMMA SubmitKnownKeeps ==
  ASSUME IInv, NEW k \in Keys, SubmitKnown(k)
  PROVE  IInv' /\ OutcomesKept(Store, Store', made)
<1> DEFINE t == Evicted(Store)
<1>1. Becomes(t) /\ made' = made /\ key' = key /\ now' = now /\ Task
  BY DEF SubmitKnown
<1>2. /\ Sound(t, made, key) /\ t.jobs = Store.jobs /\ NoneWaits(t)
      /\ OutcomesKept(Store, t, made)
  BY <1>1, EvictedSound
<1> HIDE DEF t
<1> QED BY <1>1, <1>2, StoreFields, StepKept

\* get()
LEMMA GetKeeps ==
  ASSUME IInv, Get
  PROVE  IInv' /\ OutcomesKept(Store, Store', made)
<1> DEFINE t == Evicted(Store)
<1>1. Becomes(t) /\ made' = made /\ key' = key /\ now' = now /\ Task
  BY DEF Get
<1>2. /\ Sound(t, made, key) /\ t.jobs = Store.jobs /\ NoneWaits(t)
      /\ OutcomesKept(Store, t, made)
  BY <1>1, EvictedSound
<1> HIDE DEF t
<1> QED BY <1>1, <1>2, StoreFields, StepKept

\* submit() of a new key: the map has room, or its oldest job makes some.
LEMMA SubmitNewKeeps ==
  ASSUME IInv, NEW k \in Keys, SubmitNew(k)
  PROVE  IInv' /\ OutcomesKept(Store, Store', made)
<1> DEFINE s == Evicted(Store)
           added == Added(s, made + 1, k)
<1>1. /\ Task /\ made < MaxJobs /\ now <= LastSubmit
      /\ made' = made + 1 /\ key' = [key EXCEPT ![made + 1] = k] /\ now' = now
      /\ s.index[k] = NoJob
      /\ IF Cardinality(added.jobs) <= MaxEntries
         THEN Becomes(Drained(added))
         ELSE \E old \in Oldest(added, made + 1) :
                Becomes(Drained(Removed(added, old)))
  BY DEF SubmitNew
<1>2. /\ made \in 0 .. MaxJobs - 1 /\ made + 1 \in 0 .. MaxJobs
      /\ now \in 0 .. LastSubmit /\ now \in 0 .. EndOfTime
      /\ key \in [Jobs -> Keys] /\ key' \in [Jobs -> Keys]
  <2>1. /\ made \in 0 .. MaxJobs /\ MaxJobs \in Nat /\ LastSubmit \in Nat
        /\ now \in 0 .. EndOfTime /\ key \in [Jobs -> Keys]
    BY StoreFields, JobStoreAssumption
  <2>2. made + 1 \in Jobs
    BY <1>1, <2>1 DEF Jobs
  <2>3. now \in Nat
    BY <2>1, JobStoreAssumption DEF EndOfTime
  <2> QED BY <1>1, <2>1, <2>2, <2>3
<1>3. /\ Sound(s, made, key) /\ s.jobs = Store.jobs
      /\ OutcomesKept(Store, s, made)
  BY EvictedSound
<1> HIDE DEF s
<1>4. /\ Sound(added, made + 1, key') /\ added.jobs = s.jobs \cup {made + 1}
      /\ OutcomesKept(s, added, made)
  BY <1>1, <1>2, <1>3, AddedSound
<1> HIDE DEF added
<1>5. OutcomesKept(Store, added, made)
  BY <1>3, <1>4, OutcomesKeptTwice
<1>6. ASSUME NEW t, NEW u, OutcomesKept(t, u, made + 1)
      PROVE  OutcomesKept(t, u, made)
  <2>1. 1 .. made \subseteq 1 .. made + 1
    BY <1>2
  <2> QED BY <1>6, <2>1 DEF OutcomesKept
<1>7. /\ IsFiniteSet(s.jobs) /\ Cardinality(s.jobs) \in 0 .. MaxEntries
      /\ s.jobs \subseteq 1 .. made
  <2>1. s.jobs \subseteq 1 .. made
    BY <1>3, StoreFields, StorePart DEF Sound
  <2>2. IsFiniteSet(s.jobs) /\ Cardinality(s.jobs) \in Nat
    <3>1. made \in Nat
      BY StoreFields
    <3> QED BY <2>1, <3>1, FewJobs
  <2>3. Cardinality(s.jobs) <= MaxEntries
    BY <1>3, StoreFields
  <2> QED BY <2>1, <2>2, <2>3, JobStoreAssumption
<1>8. /\ IsFiniteSet(added.jobs) /\ Cardinality(added.jobs) \in Nat
      /\ Cardinality(added.jobs) <= MaxEntries + 1
  <2>1. /\ IsFiniteSet(s.jobs \cup {made + 1})
        /\ \/ Cardinality(s.jobs \cup {made + 1}) = Cardinality(s.jobs)
           \/ Cardinality(s.jobs \cup {made + 1}) = Cardinality(s.jobs) + 1
    BY <1>7, FS_AddElement
  <2> QED BY <1>4, <1>7, <2>1, JobStoreAssumption
<1>9. CASE Cardinality(added.jobs) <= MaxEntries
  <2> DEFINE t == Drained(added)
  <2>1. Becomes(t)
    BY <1>1, <1>9
  <2>2. /\ Sound(t, made', key') /\ NoneWaits(t) /\ t.jobs = added.jobs
        /\ OutcomesKept(added, t, made + 1)
    BY <1>1, <1>2, <1>4, DrainedSound
  <2> HIDE DEF t
  <2>3. OutcomesKept(Store, t, made)
    BY <1>5, <1>6, <2>2, OutcomesKeptTwice
  <2> QED BY <1>1, <1>2, <1>9, <2>1, <2>2, <2>3, StepKept
<1>10. CASE ~(Cardinality(added.jobs) <= MaxEntries)
  <2>1. PICK old \in Oldest(added, made + 1) :
          Becomes(Drained(Removed(added, old)))
    BY <1>1, <1>10
  <2>2. old \in added.jobs
    BY DEF Oldest
  <2> DEFINE fewer == Removed(added, old)
             t == Drained(fewer)
  <2>3. /\ Sound(fewer, made + 1, key') /\ fewer.jobs = added.jobs \ {old}
        /\ OutcomesKept(added, fewer, made + 1)
    BY <1>2, <1>4, <2>2, RemovedSound
  <2>4. Becomes(t)
    BY <2>1
  <2> HIDE DEF fewer
  <2>5. /\ Sound(t, made', key') /\ NoneWaits(t) /\ t.jobs = fewer.jobs
        /\ OutcomesKept(fewer, t, made + 1)
    BY <1>1, <1>2, <2>3, DrainedSound
  <2> HIDE DEF t
  <2>6. OutcomesKept(Store, t, made)
    BY <1>5, <1>6, <2>3, <2>5, OutcomesKeptTwice
  <2>7. Cardinality(t.jobs) <= MaxEntries
    <3>1. Cardinality(added.jobs \ {old}) = Cardinality(added.jobs) - 1
      BY <1>8, <2>2, FS_RemoveElement
    <3> QED BY <1>8, <2>3, <2>5, <3>1, JobStoreAssumption
  <2> QED BY <1>1, <1>2, <2>4, <2>5, <2>6, <2>7, StepKept
<1> QED BY <1>9, <1>10

\* The timer of a fill: expireJob() has told the runFill already.
LEMMA TimerFiresKeeps ==
  ASSUME IInv, NEW j \in Jobs, TimerFires(j)
  PROVE  IInv' /\ OutcomesKept(Store, Store', made)
<1> DEFINE t == Expired(Store, {j})
<1>1. /\ Becomes(Stopped(t, {j})) /\ Task /\ j \in filling \cap jobs
      /\ made' = made /\ key' = key /\ now' = now
  BY DEF TimerFires
<1>2. /\ Sound(t, made, key) /\ NoneWaits(t) /\ t.jobs = Store.jobs
      /\ OutcomesKept(Store, t, made) /\ t \in StoresOf(made)
  BY <1>1, StoreFields, ExpiredSound DEF Sound
<1>3. j \notin t.filling
  <2>1. Store.status[j] = "running"
    BY <1>1, StoreFields DEF Sound, FillsCounted
  <2>2. j \in Expiring(Store, {j})
    BY <1>1, <2>1, StoreFields DEF Expiring
  <2>3. t.filling = Store.filling \ Expiring(Store, {j})
    BY StoreFields, WhatExpires
  <2> QED BY <2>2, <2>3
<1> HIDE DEF t
<1>4. Stopped(t, {j}) = t
  <2>1. /\ t.filling \ {j} = t.filling
        /\ t.ending \cup ({j} \cap t.filling) = t.ending
        /\ t.aborted \cup ({j} \cap t.filling) = t.aborted
    BY <1>3
  <2> QED BY <1>2, <2>1 DEF Stopped, StoresOf
<1> QED BY <1>1, <1>2, <1>4, StoreFields, StepKept

\* A fill settles: a job that runFill waits for has its result, and the others
\* keep theirs.
LEMMA FillSettlesKeeps ==
  ASSUME IInv, NEW j \in Jobs, NEW result \in Results, FillSettles(j, result)
  PROVE  IInv' /\ OutcomesKept(Store, Store', made)
<1> DEFINE s == Store
           t == [s EXCEPT !.working = @ \ {j}, !.filling = @ \ {j},
                          !.ending = @ \cup ({j} \cap filling),
                          !.status[j] = IF j \in filling THEN result ELSE @]
<1>1. /\ Becomes(t) /\ Task /\ j \in s.working /\ filling = s.filling
      /\ made' = made /\ key' = key /\ now' = now
  BY StoreFields DEF FillSettles
<1>2. /\ Sound(s, made, key) /\ s \in StoresOf(made) /\ NoneWaits(s)
      /\ Cardinality(s.jobs) <= MaxEntries
      /\ made \in 0 .. MaxJobs /\ key \in [Jobs -> Keys]
      /\ now \in 0 .. EndOfTime
  BY <1>1, StoreFields
<1> HIDE DEF s
<1>3. /\ 1 .. made \subseteq Jobs /\ s.jobs \subseteq 1 .. made
      /\ s.filling \subseteq 1 .. made /\ s.ending \subseteq 1 .. made
      /\ s.working \subseteq 1 .. made /\ s.status \in [Jobs -> Statuses]
  BY <1>2, StorePart
<1>4. /\ t.jobs = s.jobs /\ t.index = s.index /\ t.queue = s.queue
      /\ t.active = s.active /\ t.aborted = s.aborted
      /\ t.working = s.working \ {j} /\ t.filling = s.filling \ {j}
      /\ t.ending = s.ending \cup ({j} \cap s.filling)
      /\ t.status = [s.status EXCEPT ![j] = IF j \in s.filling THEN result
                                            ELSE @]
  BY <1>1, <1>2 DEF StoresOf
<1>5. t \in StoresOf(made)
  <2>1. [s.status EXCEPT ![j] = IF j \in filling THEN result ELSE @]
          \in [Jobs -> Statuses]
    BY <1>3 DEF Statuses
  <2>2. j \in 1 .. made
    BY <1>1, <1>3
  <2> QED BY <1>1, <1>2, <2>1, <2>2 DEF StoresOf
<1> HIDE DEF t
<1>6. /\ \A i \in Jobs : t.status[i] = IF i = j /\ j \in s.filling THEN result
                                       ELSE s.status[i]
      /\ result \notin {"queued", "running", "expired"}
      /\ j \in s.filling => j \in s.jobs /\ s.status[j] = "running"
      /\ s.status[j] # "queued" /\ j \in 1 .. made
  BY <1>1, <1>2, <1>3, <1>4 DEF Results, Sound, FillsCounted
<1>7. \A i \in Jobs : t.status[i] = "queued" <=> s.status[i] = "queued"
  BY <1>6
<1>8. \A i \in Jobs : t.status[i] = "expired" <=> s.status[i] = "expired"
  BY <1>6
<1>9. FillsCounted(t)
  <2>1. t.filling \cup t.ending = s.filling \cup s.ending
    BY <1>4
  <2>2. t.filling \subseteq t.jobs /\ t.filling \cap t.ending = {}
    BY <1>2, <1>4 DEF Sound, FillsCounted
  <2>3. \A i \in t.filling : t.status[i] = "running"
    <3>1. \A i \in t.filling : i \in s.filling /\ i # j /\ i \in Jobs
      BY <1>3, <1>4
    <3> QED BY <1>2, <1>6, <3>1 DEF Sound, FillsCounted
  <2>4. \A i \in t.ending \cup t.working : t.status[i] # "queued"
    <3>1. TAKE i \in t.ending \cup t.working
    <3>2. i \in Jobs /\ (i = j \/ i \in s.ending \cup s.working)
      BY <1>3, <1>4
    <3>3. s.status[i] # "queued"
      BY <1>2, <1>6, <3>2 DEF Sound, FillsCounted
    <3> QED BY <1>7, <3>2, <3>3
  <2>5. t.active = Cardinality(t.filling \cup t.ending)
    BY <1>2, <1>4, <2>1 DEF Sound, FillsCounted
  <2>6. t.working \ t.filling \subseteq t.aborted
    BY <1>2, <1>4 DEF Sound, FillsCounted
  <2> QED BY <2>2, <2>3, <2>4, <2>5, <2>6 DEF FillsCounted
<1>10. QueueIsWhole(t)
  BY <1>2, <1>3, <1>4, <1>7 DEF Sound, QueueIsWhole
<1>11. IndexedBy(t, key)
  BY <1>2, <1>3, <1>4, <1>8 DEF Sound, IndexedBy
<1>12. NoneWaits(t)
  BY <1>2, <1>3, <1>4, <1>7 DEF NoneWaits
<1>13. \A i \in Jobs : i > made => t.status[i] = "queued"
  BY <1>2, <1>7 DEF Sound
<1>14. OutcomesKept(s, t, made)
  <2>1. \A i \in 1 .. made : i # j \/ j \notin s.filling
          => t.status[i] = s.status[i]
    BY <1>3, <1>6
  <2>2. s.status[j] = "running" => s.status[j] \notin Results \cup {"expired"}
    BY DEF Results
  <2> QED BY <1>4, <1>6, <2>1, <2>2 DEF OutcomesKept
<1>15. Sound(t, made', key')
  BY <1>1, <1>5, <1>9, <1>10, <1>11, <1>13 DEF Sound
<1>16. Cardinality(t.jobs) <= MaxEntries
  BY <1>2, <1>4
<1>17. OutcomesKept(Store, t, made)
  BY <1>14 DEF s
<1> QED BY <1>1, <1>2, <1>12, <1>15, <1>16, <1>17, StepKept

\* A runFill ends: its slot is free, and drain() gives it away.
LEMMA EndFillKeeps ==
  ASSUME IInv, NEW j \in Jobs, EndFill(j)
  PROVE  IInv' /\ OutcomesKept(Store, Store', made)
<1> DEFINE s == Store
           freed == [s EXCEPT !.ending = @ \ {j}, !.active = @ - 1]
           t == Drained(freed)
<1>1. /\ Becomes(t) /\ j \in s.ending
      /\ made' = made /\ key' = key /\ now' = now
  BY StoreFields DEF EndFill
<1>2. /\ Sound(s, made, key) /\ s \in StoresOf(made)
      /\ Cardinality(s.jobs) <= MaxEntries
      /\ made \in 0 .. MaxJobs /\ key \in [Jobs -> Keys]
      /\ now \in 0 .. EndOfTime
  BY StoreFields
<1> HIDE DEF s
<1>3. /\ s.filling \subseteq 1 .. made /\ s.ending \subseteq 1 .. made
      /\ s.active \in 0 .. MaxConcurrentFills
  BY <1>2, StorePart
<1>4. /\ freed.jobs = s.jobs /\ freed.index = s.index
      /\ freed.queue = s.queue /\ freed.status = s.status
      /\ freed.filling = s.filling /\ freed.working = s.working
      /\ freed.aborted = s.aborted
      /\ freed.ending = s.ending \ {j} /\ freed.active = s.active - 1
  BY <1>2 DEF StoresOf
<1>5. s.active - 1 = Cardinality(s.filling \cup (s.ending \ {j}))
      /\ s.active - 1 \in 0 .. MaxConcurrentFills
  <2> DEFINE had == s.filling \cup s.ending
  <2>1. IsFiniteSet(had) /\ Cardinality(had) \in Nat
    <3>1. had \in SUBSET (1 .. made) /\ made \in Nat
      BY <1>2, <1>3
    <3> HIDE DEF had
    <3> QED BY <3>1, FewJobs
  <2>2. j \in had /\ had \ {j} = s.filling \cup (s.ending \ {j})
    BY <1>1, <1>2 DEF Sound, FillsCounted
  <2>3. s.active = Cardinality(had)
    BY <1>2 DEF Sound, FillsCounted
  <2> HIDE DEF had
  <2>4. /\ IsFiniteSet(had \ {j})
        /\ Cardinality(had \ {j}) = Cardinality(had) - 1
    BY <2>1, <2>2, FS_RemoveElement
  <2>5. Cardinality(had \ {j}) \in Nat
    BY <2>4, FS_CardinalityType
  <2>6. s.active - 1 \in 0 .. MaxConcurrentFills
    BY <1>3, <2>3, <2>4, <2>5, JobStoreAssumption
  <2> QED BY <2>2, <2>3, <2>4, <2>6
<1>6. freed \in StoresOf(made)
  BY <1>2, <1>5 DEF StoresOf
<1> HIDE DEF freed
<1>7. FillsCounted(freed)
  BY <1>2, <1>4, <1>5 DEF Sound, FillsCounted
<1>8. QueueIsWhole(freed) /\ IndexedBy(freed, key)
  BY <1>2, <1>4 DEF Sound, QueueIsWhole, IndexedBy
<1>9. Sound(freed, made, key)
  BY <1>2, <1>4, <1>6, <1>7, <1>8 DEF Sound
<1>10. OutcomesKept(s, freed, made)
  BY <1>4 DEF OutcomesKept
<1>11. /\ Sound(t, made, key) /\ NoneWaits(t) /\ t.jobs = freed.jobs
       /\ OutcomesKept(freed, t, made)
  BY <1>2, <1>9, DrainedSound
<1> HIDE DEF t
<1>12. OutcomesKept(Store, t, made)
  BY <1>10, <1>11, OutcomesKeptTwice DEF s
<1> QED BY <1>1, <1>2, <1>4, <1>11, <1>12, StepKept

\* Time passes, or nothing happens.
LEMMA NothingKeeps ==
  ASSUME IInv, UNCHANGED <<storeVars, jobVars, fillVars>>,
         now' \in 0 .. EndOfTime
  PROVE  IInv' /\ OutcomesKept(Store, Store', made)
<1>1. Becomes(Store) /\ made' = made /\ key' = key
  BY DEF Becomes, Store, storeVars, jobVars, fillVars
<1>2. OutcomesKept(Store, Store, made)
  BY DEF OutcomesKept
<1>3. Store.ending = {} => NoneWaits(Store)
  BY StoreFields DEF Task
<1> HIDE DEF Store
<1> QED BY <1>1, <1>2, <1>3, StoreFields, StepKept

\* The invariant holds at first.
LEMMA InitIInv == Init => IInv
<1> SUFFICES ASSUME Init PROVE IInv
  OBVIOUS
<1>1. TypeOK
  BY JobStoreAssumption DEF Init, TypeOK, Jobs, Statuses, EndOfTime
<1>2. /\ Store.jobs = {} /\ Store.queue = <<>> /\ Store.active = 0
      /\ Store.filling = {} /\ Store.ending = {} /\ Store.working = {}
      /\ Store.index = [k \in Keys |-> NoJob] /\ Store.aborted = {}
      /\ Store.status = [j \in Jobs |-> "queued"]
      /\ made = 0 /\ jobs = {}
  BY DEF Init, Store
<1>3. Store \in StoresOf(made)
  BY <1>1, <1>2 DEF TypeOK, StoresOf, Store
<1>4. Cardinality({}) = 0
  BY FS_EmptySet
<1>5. FillsCounted(Store)
  BY <1>2, <1>4 DEF FillsCounted
<1>6. QueueIsWhole(Store) /\ IndexedBy(Store, key) /\ NoneWaits(Store)
  BY <1>2 DEF QueueIsWhole, IndexedBy, NoneWaits
<1>7. \A j \in Jobs : Store.status[j] = "queued"
  BY <1>2
<1> QED BY <1>1, <1>2, <1>3, <1>4, <1>5, <1>6, <1>7, JobStoreAssumption
        DEF IInv, Sound

\* Every step keeps the invariant, and what the clients were told.
LEMMA NextKeeps ==
  ASSUME IInv, [Next]_vars
  PROVE  IInv' /\ OutcomesKept(Store, Store', made)
<1>1. ASSUME NEW k \in Keys, SubmitKnown(k)
      PROVE  IInv' /\ OutcomesKept(Store, Store', made)
  BY <1>1, SubmitKnownKeeps
<1>2. ASSUME NEW k \in Keys, SubmitNew(k)
      PROVE  IInv' /\ OutcomesKept(Store, Store', made)
  BY <1>2, SubmitNewKeeps
<1>3. CASE Get
  BY <1>3, GetKeeps
<1>4. ASSUME NEW j \in Jobs, TimerFires(j)
      PROVE  IInv' /\ OutcomesKept(Store, Store', made)
  BY <1>4, TimerFiresKeeps
<1>5. ASSUME NEW j \in Jobs, EndFill(j)
      PROVE  IInv' /\ OutcomesKept(Store, Store', made)
  BY <1>5, EndFillKeeps
<1>6. ASSUME NEW j \in Jobs, NEW result \in Results, FillSettles(j, result)
      PROVE  IInv' /\ OutcomesKept(Store, Store', made)
  BY <1>6, FillSettlesKeeps
<1>7. CASE Tick
  <2>1. now' \in 0 .. EndOfTime
    BY <1>7, StoreFields, JobStoreAssumption DEF Tick, EndOfTime
  <2> QED BY <1>7, <2>1, NothingKeeps DEF Tick
<1>8. CASE UNCHANGED vars
  <2>1. now' \in 0 .. EndOfTime
    BY <1>8, StoreFields DEF vars
  <2> QED BY <1>8, <2>1, NothingKeeps DEF vars
<1> QED BY <1>1, <1>2, <1>3, <1>4, <1>5, <1>6, <1>7, <1>8 DEF Next

-------------------------------------------------------------------------------
(* What the store promises.                                                *)

\* The store is sound after every step: each operation that is part of a task
\* leaves it so, and a drain ends every task that may free a slot or add a job.
THEOREM Invariance == Spec => []IInv
<1>1. Init => IInv
  BY InitIInv
<1>2. IInv /\ [Next]_vars => IInv'
  BY NextKeeps
<1> QED BY <1>1, <1>2, PTL DEF Spec

\* A key leads to the one job of that key that has not expired, and the map
\* stays within maxEntries (submit, expireJob, remove).
THEOREM IndexHolds == Spec => []IndexIsExact
<1>1. IInv => IndexIsExact
  <2> SUFFICES ASSUME IInv PROVE IndexIsExact
    OBVIOUS
  <2>1. IndexedBy(Store, key)
    BY StoreFields DEF Sound
  <2>2. /\ \A j \in jobs : status[j] # "expired" => cacheIndex[key[j]] = j
        /\ \A k \in Keys : cacheIndex[k] # NoJob =>
             /\ cacheIndex[k] \in jobs
             /\ status[cacheIndex[k]] # "expired"
             /\ key[cacheIndex[k]] = k
    BY <2>1, StoreFields DEF IndexedBy
  <2> QED BY <2>2 DEF IInv, IndexIsExact
<1> QED BY <1>1, Invariance, PTL

\* The slot counter counts the runFill calls, no more fills than there are slots
\* work on for a result somebody wants, and no slot is free while a job waits
\* for one (drain, expireJob, remove).
THEOREM SlotsHold == Spec => []SlotsAreUsed
<1>1. IInv => SlotsAreUsed
  <2> SUFFICES ASSUME IInv PROVE SlotsAreUsed
    OBVIOUS
  <2>1. /\ FillsCounted(Store) /\ QueueIsWhole(Store)
        /\ Store.active \in 0 .. MaxConcurrentFills
        /\ Store.filling \subseteq 1 .. made /\ Store.ending \subseteq 1 .. made
        /\ Store.working \subseteq 1 .. made
    BY StoreFields, StorePart DEF Sound
  <2>2. /\ activeFills = Cardinality(filling \cup ending)
        /\ filling \cap ending = {}
        /\ working \ (filling \cup ending) \subseteq aborted
    BY <2>1, StoreFields DEF FillsCounted
  <2>3. Cardinality(working \ aborted) <= MaxConcurrentFills
    <3>1. working \ aborted \subseteq filling \cup ending
      BY <2>2
    <3>2. filling \cup ending \in SUBSET (1 .. made) /\ made \in Nat
      BY <2>1, StoreFields
    <3>3. IsFiniteSet(filling \cup ending)
      BY <3>2, FewJobs
    <3>4. /\ Cardinality(working \ aborted) <= Cardinality(filling \cup ending)
          /\ Cardinality(working \ aborted) \in Nat
      BY <3>1, <3>3, FS_Subset, FS_CardinalityType
    <3> QED BY <2>1, <2>2, <3>4, StoreFields, JobStoreAssumption
  <2>4. NoIdleSlot
    BY <2>1, StoreFields DEF NoIdleSlot, QueueIsWhole, NoneWaits
  <2> QED BY <2>2, <2>3, <2>4 DEF SlotsAreUsed, SlotsCounted
<1> QED BY <1>1, Invariance, PTL

\* What a client was told stays true: a result stays until it expires, an
\* expired job stays expired, and a job that was removed is not touched by the
\* fill that still runs for it (runFill, expireJob, remove).
THEOREM OutcomesHold == Spec => OutcomesStay
<1>1. ASSUME IInv, [Next]_vars
      PROVE  [\A j \in 1 .. made :
                /\ status[j] \in Results => status'[j] \in {status[j], "expired"}
                /\ status[j] = "expired" => status'[j] = "expired"
                /\ j \notin jobs => status'[j] = status[j] /\ j \notin jobs']_vars
  <2>1. OutcomesKept(Store, Store', made)
    BY <1>1, NextKeeps
  <2>2. /\ Store.status = status /\ Store.jobs = jobs
        /\ Store'.status = status' /\ Store'.jobs = jobs'
    BY DEF Store
  <2> QED BY <2>1, <2>2 DEF OutcomesKept
<1> QED BY <1>1, Invariance, PTL DEF Spec, OutcomesStay

===============================================================================
