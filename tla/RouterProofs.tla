------------------------------ MODULE RouterProofs ------------------------------
(* Proofs about the router and what is made of its scans: for any station     *)
(* areas, rows, horizon, change time, routing windows and participants, the   *)
(* arrivals are exact, the surface of a meeting passes its validator, and the *)
(* details of its markers are answered.                                       *)
EXTENDS MeetingSurface, FiniteSetTheorems, WellFoundedInduction, TLAPS

-------------------------------------------------------------------------------
(* Numbers.                                                                   *)

\* A nonempty set of numbers has a least one.
LEMMA LeastOf ==
  ASSUME NEW S \in SUBSET Nat, S # {}
  PROVE  \E m \in S : \A i \in S : m <= i
<1>1. PICK m \in S : \A i \in S : ~(<<i, m>> \in OpToRel(<, Nat))
  BY NatLessThanWellFounded, WFMin
<1>2. \A i \in S : <<i, m>> \in OpToRel(<, Nat) <=> i < m
  BY DEF OpToRel
<1>3. \A i \in S : ~(i < m)
  BY <1>1, <1>2, Zenon
<1> QED BY <1>3

\* What holds of 0, and of i if of i - 1, holds of all numbers up to n.
LEMMA UpTo ==
  ASSUME NEW n \in Nat, NEW S, 0 \in S,
         \A i \in 1 .. n : i - 1 \in S => i \in S
  PROVE  \A i \in 0 .. n : i \in S
<1> DEFINE Missing == (0 .. n) \ S
<1>1. SUFFICES ASSUME Missing # {} PROVE FALSE
  OBVIOUS
<1>2. Missing \in SUBSET Nat
  OBVIOUS
<1>3. PICK m \in Missing : \A i \in Missing : m <= i
  <2> HIDE DEF Missing
  <2> QED BY <1>1, <1>2, LeastOf
<1>4. m \in 1 .. n /\ m - 1 \in 0 .. n /\ m - 1 \notin Missing
  BY <1>3
<1>5. m - 1 \in S
  BY <1>4
<1> QED BY <1>3, <1>4, <1>5

\* A nonempty set of numbers up to n has a greatest one.
LEMMA GreatestOf ==
  ASSUME NEW n \in Nat, NEW S \in SUBSET (1 .. n), S # {}
  PROVE  \E m \in S : \A i \in S : i <= m
<1> DEFINE bounds == {b \in Nat : \A i \in S : i <= b}
<1>1. PICK m \in bounds : \A b \in bounds : m <= b
  <2>1. n \in bounds /\ bounds \in SUBSET Nat
    OBVIOUS
  <2> HIDE DEF bounds
  <2> QED BY <2>1, LeastOf
<1>2. m \in S
  <2>1. SUFFICES ASSUME m \notin S PROVE FALSE
    OBVIOUS
  <2>2. \A i \in S : i <= m - 1
    BY <2>1
  <2>3. m - 1 \in Nat
    <3>1. PICK i \in S : TRUE
      OBVIOUS
    <3>2. i \in Nat /\ 1 <= i /\ i <= m - 1 /\ m \in Nat
      BY <2>2, <3>1
    <3> QED BY <3>2
  <2>4. m - 1 \in bounds
    BY <2>2, <2>3
  <2> QED BY <1>1, <2>4
<1> QED BY <1>2

\* The members of a set of numbers that are smaller than i.
Below(S, i) == {h \in S : h < i}

\* The members of a finite set of numbers can be counted in their order.
LEMMA Counted ==
  ASSUME NEW n \in Nat, NEW S \in SUBSET (1 .. n)
  PROVE  /\ IsFiniteSet(S) /\ Cardinality(S) \in Nat
         /\ \A i \in S : Cardinality(Below(S, i)) \in 0 .. Cardinality(S) - 1
         /\ \A i, h \in S :
              i < h => Cardinality(Below(S, i)) < Cardinality(Below(S, h))
         /\ \A m \in 0 .. Cardinality(S) - 1 :
              \E i \in S : Cardinality(Below(S, i)) = m
<1>1. IsFiniteSet(S) /\ Cardinality(S) \in Nat
  <2>1. IsFiniteSet(1 .. n)
    BY FS_Interval
  <2> QED BY <2>1, FS_Subset, FS_CardinalityType
<1>2. \A i \in S : i \in Nat
  OBVIOUS
<1>3. ASSUME NEW i \in S
      PROVE  /\ IsFiniteSet(Below(S, i)) /\ Cardinality(Below(S, i)) \in Nat
             /\ Cardinality(Below(S, i)) <= Cardinality(S) - 1
  <2>1. Below(S, i) \subseteq S \ {i}
    BY <1>2 DEF Below
  <2>2. IsFiniteSet(S \ {i}) /\ Cardinality(S \ {i}) = Cardinality(S) - 1
    BY <1>1, FS_RemoveElement
  <2>3. /\ IsFiniteSet(Below(S, i))
        /\ Cardinality(Below(S, i)) <= Cardinality(S \ {i})
    BY <2>1, <2>2, FS_Subset
  <2> QED BY <2>2, <2>3, FS_CardinalityType
<1>4. ASSUME NEW i \in S, NEW h \in S, i < h
      PROVE  Cardinality(Below(S, i)) < Cardinality(Below(S, h))
  <2>1. i \notin Below(S, i) /\ Below(S, i) \cup {i} \subseteq Below(S, h)
    <3>1. i \in Nat /\ h \in Nat
      BY <1>2
    <3>2. ASSUME NEW g \in Below(S, i) PROVE g \in Below(S, h)
      <4>1. g \in S /\ g < i /\ g \in Nat
        BY <1>2 DEF Below
      <4>2. g < h
        BY <1>4, <3>1, <4>1
      <4> QED BY <4>1, <4>2 DEF Below
    <3>3. i \in Below(S, h)
      BY <1>4 DEF Below
    <3>4. i \notin Below(S, i)
      BY <3>1 DEF Below
    <3> QED BY <3>2, <3>3, <3>4
  <2>2. Cardinality(Below(S, i) \cup {i}) = Cardinality(Below(S, i)) + 1
    BY <1>3, <2>1, FS_AddElement
  <2>3. Cardinality(Below(S, i) \cup {i}) <= Cardinality(Below(S, h))
    BY <1>3, <2>1, FS_Subset
  <2> QED BY <1>3, <2>2, <2>3
<1>5. ASSUME NEW m \in 0 .. Cardinality(S) - 1
      PROVE  \E i \in S : Cardinality(Below(S, i)) = m
  <2> DEFINE high == {i \in S : Cardinality(Below(S, i)) >= m}
  <2>1. high # {}
    <3>1. S # {}
      <4>1. Cardinality(S) # 0
        BY <1>1
      <4> QED BY <4>1, FS_EmptySet
    <3>2. PICK g \in S : \A i \in S : i <= g
      BY <3>1, GreatestOf
    <3>3. Below(S, g) = S \ {g}
      <4>1. ASSUME NEW i \in S, i # g PROVE i < g
        <5>1. i \in Nat /\ g \in Nat /\ i <= g
          BY <1>2, <3>2
        <5> QED BY <4>1, <5>1
      <4>2. g \in Nat /\ g \notin Below(S, g)
        BY <1>2 DEF Below
      <4>3. ASSUME NEW i \in S, i # g PROVE i \in Below(S, g)
        BY <4>1, <4>3 DEF Below
      <4>4. Below(S, g) \subseteq S
        BY DEF Below
      <4> QED BY <4>2, <4>3, <4>4
    <3>4. Cardinality(Below(S, g)) = Cardinality(S) - 1
      BY <1>1, <3>3, FS_RemoveElement
    <3>5. g \in high
      BY <1>1, <3>4
    <3> QED BY <3>5
  <2>2. high \in SUBSET Nat
    BY <1>2
  <2>3. PICK i \in high : \A h \in high : i <= h
    <3> HIDE DEF high
    <3> QED BY <2>1, <2>2, LeastOf
  <2>4. CASE Below(S, i) = {}
    <3>1. Cardinality(Below(S, i)) = 0
      BY <2>4, FS_EmptySet
    <3> QED BY <2>3, <3>1
  <2>5. CASE Below(S, i) # {}
    <3>1. Below(S, i) \in SUBSET (1 .. n)
      BY DEF Below
    <3>2. PICK p \in Below(S, i) : \A h \in Below(S, i) : h <= p
      BY <2>5, <3>1, GreatestOf
    <3>3. p \in S /\ p < i
      BY DEF Below
    <3>4. Below(S, i) = Below(S, p) \cup {p} /\ p \notin Below(S, p)
      <4>1. ASSUME NEW h \in Below(S, i), h # p PROVE h \in Below(S, p)
        <5>1. h \in S /\ h <= p /\ h \in Nat /\ p \in Nat
          BY <1>2, <3>2, <3>3 DEF Below
        <5> QED BY <4>1, <5>1 DEF Below
      <4>2. ASSUME NEW h \in Below(S, p) PROVE h \in Below(S, i)
        <5>1. h \in S /\ h < p /\ p < i /\ h \in Nat /\ p \in Nat /\ i \in Nat
          BY <1>2, <3>3 DEF Below
        <5>2. h < i
          BY <5>1
        <5> QED BY <5>1, <5>2 DEF Below
      <4>3. p \in Nat /\ p \notin Below(S, p) /\ p \in Below(S, i)
        BY <1>2, <3>3 DEF Below
      <4> QED BY <4>1, <4>2, <4>3
    <3>5. Cardinality(Below(S, i)) = Cardinality(Below(S, p)) + 1
      BY <1>3, <3>3, <3>4, FS_AddElement
    <3>6. ~(Cardinality(Below(S, p)) >= m)
      <4>1. ~(i <= p)
        BY <1>2, <3>3
      <4>2. p \notin high
        BY <2>3, <4>1
      <4> QED BY <3>3, <4>2
    <3>7. /\ Cardinality(Below(S, i)) >= m /\ i \in S
          /\ Cardinality(Below(S, p)) \in Nat /\ m \in Nat
      BY <1>1, <1>3, <2>3, <3>3
    <3>8. Cardinality(Below(S, i)) = m
      BY <3>5, <3>6, <3>7
    <3> QED BY <3>7, <3>8
  <2> QED BY <2>4, <2>5
<1> QED BY <1>1, <1>3, <1>4, <1>5

-------------------------------------------------------------------------------
(* What a passenger can ride does not change during the scan.                 *)

LEMMA StartsAreRideable ==
  ASSUME NEW r \in Rows, Starts(r)
  PROVE  Rideable(r)
BY DEF Rideable, ClosedSets

LEMMA FollowersAreRideable ==
  ASSUME NEW p \in Rows, NEW q \in Rows, Rideable(p), Follows(p, q)
  PROVE  Rideable(q)
BY DEF Rideable, ClosedSets

LEMMA RideableIsConstant ==
  ASSUME UNCHANGED network
  PROVE  \A r : Rideable(r) <=> Rideable(r)'
BY DEF Rideable, ClosedSets, Starts, Follows, Continuation, table

LEMMA ReachesIsConstant ==
  ASSUME UNCHANGED network
  PROVE  \A a, time : Reaches(a, time) <=> Reaches(a, time)'
BY RideableIsConstant DEF Reaches, table

-------------------------------------------------------------------------------
(* The inductive invariant.                                                   *)

\* The order of the scan: seeds first, then the minutes one after the other.
InSequence ==
  /\ Chronological(table)
  /\ unseeded # {} => bucket = -1 /\ ~open
  /\ ~open => queue = {}
  /\ \A r \in queue : table.departure[r] = bucket
  /\ \A r \in taken : table.departure[r] <= bucket

\* Also while a minute is being processed, every row up to it that can be
\* boarded or sat in has been taken.
AllTaken ==
  \A r \in Rows \ taken :
    table.departure[r] <= bucket => ~Boardable(r) /\ r \notin authorized

\* A passenger can be ready at area a at that time.
ReadyBy(a, time) ==
  \/ \E s \in network.seeds : s.area = a /\ s.time = time
  \/ \E p \in Rows :
       Rideable(p) /\ table.dropOff[p] /\ ReadyAfter(p)[a] = time

\* Everything the scan has written down is some passenger's journey.
Sound ==
  /\ \A r \in taken \cup authorized : Rideable(r)
  /\ \A a \in Areas : arrival[a] # Never => Reaches(a, arrival[a])
  /\ \A a \in Areas : ready[a] # Never => ReadyBy(a, ready[a])

\* What the seeds and rows done so far lead to has been written down.
Complete ==
  /\ \A s \in network.seeds \ unseeded :
       arrival[s.area] <= s.time /\ ready[s.area] <= s.time
  /\ \A r \in taken \ queue :
       /\ Continuation(r) \subseteq authorized
       /\ table.dropOff[r] =>
            \A a \in Areas :
              arrival[a] <= Alight(r)[a] /\ ready[a] <= ReadyAfter(r)[a]

IInv ==
  /\ TypeOK
  /\ InSequence
  /\ AllTaken
  /\ Sound
  /\ Complete
  /\ EdgeExplainsArrival

\* What the assumptions say of the network that is scanned.
LEMMA NetworkFacts ==
  ASSUME IInv
  PROVE  /\ table \in Timetable /\ Chronological(table)
         /\ network.seeds \subseteq Seeds
         /\ network.walk \in Walks
BY DEF IInv, TypeOK, InSequence, table

\* A scan that has not begun.
Fresh ==
  /\ network \in [table : Timetable, seeds : SUBSET Seeds, walk : Walks]
  /\ Chronological(table)
  /\ unseeded = network.seeds
  /\ bucket = -1 /\ open = FALSE
  /\ arrival = [a \in Areas |-> Never] /\ ready = [a \in Areas |-> Never]
  /\ edge = [a \in Areas |-> NoEdge]
  /\ authorized = {} /\ taken = {} /\ queue = {}

LEMMA InitIsFresh == Init => Fresh
BY NetworksAssumption DEF Init, Fresh, table

LEMMA FreshIInv == Fresh => IInv
<1> SUFFICES ASSUME Fresh PROVE IInv
  OBVIOUS
<1> USE HorizonAssumption, RowsAssumption, NoEdgeAssumption
<1>1. TypeOK
  <2>1. Never \in 0 .. Never
    BY DEF Never
  <2>2. network \in [table : Timetable, seeds : SUBSET Seeds, walk : Walks]
    BY DEF Fresh
  <2>3. bucket \in Times \cup {-1} /\ open \in BOOLEAN
    BY DEF Fresh
  <2> QED
    BY <2>1, <2>2, <2>3 DEF Fresh, TypeOK
<1>2. InSequence /\ AllTaken /\ Sound /\ Complete
  BY DEF Fresh, InSequence, AllTaken, Sound, Complete, Boardable, table, Never,
         Timetable, Times
<1>3. EdgeExplainsArrival
  BY DEF Fresh, EdgeExplainsArrival
<1> QED
  BY <1>1, <1>2, <1>3 DEF IInv

-------------------------------------------------------------------------------
(* Leaving a row.                                                             *)

LEMMA NeverFact == Never \in Nat /\ Times \subseteq 0 .. Never /\ Never \notin Times
BY HorizonAssumption DEF Never, Times

LEMMA RowFacts ==
  ASSUME IInv, NEW r \in Rows
  PROVE  /\ table.from[r] \in Areas /\ table.to[r] \in Areas
         /\ table.departure[r] \in Times /\ table.arrival[r] \in Times
         /\ table.departure[r] <= table.arrival[r]
         /\ Continuation(r) \subseteq Rows
         /\ \A q \in Continuation(r) : table.departure[r] <= table.departure[q]
BY NetworkFacts, RowsAssumption DEF Timetable, Chronological, Continuation

\* Nobody is anywhere before the row they left arrives.
LEMMA LeavingFacts ==
  ASSUME IInv, NEW r \in Rows, NEW a \in Areas
  PROVE  /\ Alight(r)[a] \in Nat /\ ReadyAfter(r)[a] \in Nat
         /\ table.arrival[r] <= Alight(r)[a]
         /\ table.arrival[r] <= ReadyAfter(r)[a]
<1>1. network.walk[table.to[r]][a] \in Nat
  BY NetworkFacts, RowFacts, NeverFact DEF Walks
<1>2. table.arrival[r] \in Nat
  BY RowFacts DEF Times
<1> QED
  BY <1>1, <1>2, HorizonAssumption DEF Alight, ReadyAfter

LEMMA EarlierFacts ==
  ASSUME NEW x \in 0 .. Never, NEW y \in Nat
  PROVE  /\ Earlier(x, y) \in 0 .. Never
         /\ Earlier(x, y) <= x /\ Earlier(x, y) <= y
         /\ Earlier(x, y) \in {x, y}
         /\ y < x => Earlier(x, y) = y /\ y \in Times
         /\ ~(y < x) => Earlier(x, y) = x
BY HorizonAssumption DEF Earlier, Never, Times

-------------------------------------------------------------------------------
(* Every step preserves the invariant.                                        *)

LEMMA TakeSeedKeepsIInv ==
  ASSUME IInv, NEW s \in unseeded, TakeSeed(s)
  PROVE  IInv'
<1>1. s \in network.seeds /\ s.area \in Areas /\ s.time \in Times
      /\ s = [area |-> s.area, time |-> s.time]
  BY NetworkFacts DEF IInv, TypeOK, Seeds
<1>2. /\ UNCHANGED network /\ table' = table
      /\ bucket = -1 /\ ~open /\ queue = {} /\ taken = {}
      /\ UNCHANGED <<bucket, open, queue, taken, authorized>>
  <2>1. taken = {}
    BY RowFacts DEF IInv, TypeOK, InSequence, Times
  <2> QED
    BY <2>1 DEF TakeSeed, IInv, InSequence, table
<1>3. \A a \in Areas :
        /\ arrival'[a] = IF a = s.area THEN Earlier(arrival[a], s.time) ELSE arrival[a]
        /\ ready'[a] = IF a = s.area THEN Earlier(ready[a], s.time) ELSE ready[a]
        /\ edge'[a] = IF a = s.area /\ s.time < arrival[a]
                      THEN [kind |-> "seed", time |-> s.time] ELSE edge[a]
  BY DEF TakeSeed, IInv, TypeOK
<1>4. \A a \in Areas : arrival[a] \in 0 .. Never /\ ready[a] \in 0 .. Never
  BY DEF IInv, TypeOK
<1>5. s.time \in Nat
  BY <1>1 DEF Times
<1>6. TypeOK'
  <2>1. arrival' \in [Areas -> 0 .. Never] /\ ready' \in [Areas -> 0 .. Never]
    BY <1>1, <1>4, <1>5, EarlierFacts DEF TakeSeed, IInv, TypeOK
  <2>2. edge' \in [Areas -> Edges \cup {NoEdge}]
    BY <1>1 DEF TakeSeed, IInv, TypeOK, Edges
  <2> QED
    BY <2>1, <2>2, <1>2 DEF TakeSeed, IInv, TypeOK
<1>7. InSequence'
  BY <1>2 DEF TakeSeed, IInv, InSequence
<1>8. AllTaken'
  BY <1>2, RowFacts DEF IInv, AllTaken, TypeOK, Times
<1>9. Sound'
  <2>1. \A r \in taken' \cup authorized' : Rideable(r)'
    BY <1>2, RideableIsConstant DEF IInv, Sound
  <2>2. \A a \in Areas : arrival'[a] # Never => Reaches(a, arrival'[a])
    BY <1>1, <1>3, <1>4, <1>5, EarlierFacts DEF IInv, Sound, Reaches
  <2>3. \A a \in Areas : ready'[a] # Never => ReadyBy(a, ready'[a])
    BY <1>1, <1>3, <1>4, <1>5, EarlierFacts DEF IInv, Sound, ReadyBy
  <2>4. \A a, time : ReadyBy(a, time) <=> ReadyBy(a, time)'
    BY <1>2, RideableIsConstant DEF ReadyBy, ReadyAfter
  <2> QED
    BY <2>1, <2>2, <2>3, <2>4, <1>2, ReachesIsConstant DEF Sound
<1>10. Complete'
  <2>1. ASSUME NEW t \in network.seeds \ unseeded'
        PROVE  arrival'[t.area] <= t.time /\ ready'[t.area] <= t.time
    <3>1. t.area \in Areas /\ t.time \in Nat
      BY NetworkFacts DEF Seeds, Times
    <3>2. t = s \/ t \in network.seeds \ unseeded
      BY <2>1 DEF TakeSeed
    <3> QED
      BY <3>1, <3>2, <1>3, <1>4, <1>5, EarlierFacts DEF IInv, Complete
  <2> QED
    BY <2>1, <1>2 DEF Complete
<1>11. EdgeExplainsArrival'
  BY <1>1, <1>2, <1>3, <1>4, <1>5, EarlierFacts, NeverFact, NoEdgeAssumption
     DEF IInv, EdgeExplainsArrival, TakeSeed, TypeOK, Edges
<1> QED
  BY <1>6, <1>7, <1>8, <1>9, <1>10, <1>11 DEF IInv

LEMMA OpenBucketKeepsIInv ==
  ASSUME IInv, NEW minute \in Times, OpenBucket(minute)
  PROVE  IInv'
<1>1. /\ UNCHANGED <<network, unseeded, arrival, ready, edge, authorized>>
      /\ table' = table /\ unseeded = {} /\ queue = {}
      /\ open' = TRUE /\ bucket' = minute /\ minute > bucket
  BY DEF OpenBucket, IInv, InSequence, table
<1>2. /\ queue' \subseteq Rows \ taken /\ taken' = taken \cup queue'
      /\ \A r \in queue' : /\ table.departure[r] = minute
                           /\ Boardable(r) \/ r \in authorized
      /\ \A r \in Rows \ taken' :
           table.departure[r] = minute => ~Boardable(r) /\ r \notin authorized
      /\ \A r \in Rows : table.departure[r] > bucket => minute <= table.departure[r]
  BY DEF OpenBucket
<1>3. \A r \in Rows : Boardable(r)' <=> Boardable(r)
  BY <1>1 DEF Boardable
<1>4. TypeOK'
  BY <1>1, <1>2 DEF IInv, TypeOK
<1>5. InSequence'
  <2>1. \A r \in taken : table.departure[r] <= minute
    BY <1>1, RowFacts DEF IInv, InSequence, TypeOK, Times
  <2>2. minute <= minute
    BY DEF Times
  <2>3. \A r \in queue' : table.departure[r] = minute
    BY DEF OpenBucket
  <2>4. \A r \in taken' : table.departure[r] <= minute
    BY <2>1, <2>2, <2>3 DEF OpenBucket
  <2> QED
    BY <2>3, <2>4, <1>1 DEF IInv, InSequence
<1>6. AllTaken'
  BY <1>1, <1>2, <1>3, RowFacts DEF IInv, AllTaken, TypeOK, Times
<1>7. Sound'
  <2>1. ASSUME NEW r \in queue'
        PROVE  Rideable(r)
    <3>1. CASE Boardable(r)
      <4>1. /\ r \in Rows /\ table.from[r] \in Areas /\ table.pickup[r]
            /\ ready[table.from[r]] <= table.departure[r]
            /\ table.departure[r] \in Times
        BY <3>1, <1>2, RowFacts DEF Boardable
      <4>2. ready[table.from[r]] # Never
        BY <4>1, NeverFact DEF IInv, TypeOK, Times, Never
      <4>3. ReadyBy(table.from[r], ready[table.from[r]])
        BY <4>1, <4>2 DEF IInv, Sound
      <4>4. CASE Starts(r)
        BY <4>4, <4>1, StartsAreRideable
      <4>5. ASSUME NEW p \in Rows, Rideable(p), table.dropOff[p],
                   ReadyAfter(p)[table.from[r]] = ready[table.from[r]]
            PROVE  Rideable(r)
        BY <4>1, <4>5, FollowersAreRideable DEF Follows, ReadyAfter
      <4> QED
        BY <4>1, <4>3, <4>4, <4>5 DEF ReadyBy, Starts
    <3>2. CASE r \in authorized
      BY <3>2 DEF IInv, Sound
    <3> QED
      BY <3>1, <3>2, <1>2
  <2>2. \A a, time : ReadyBy(a, time) <=> ReadyBy(a, time)'
    BY <1>1, RideableIsConstant DEF ReadyBy, ReadyAfter
  <2> QED
    BY <2>1, <2>2, <1>1, <1>2, RideableIsConstant, ReachesIsConstant
       DEF IInv, Sound
<1>8. Complete'
  <2>1. taken' \ queue' = taken \ queue
    BY <1>1, <1>2
  <2> QED
    BY <2>1, <1>1 DEF IInv, Complete, Continuation, Alight, ReadyAfter
<1>9. EdgeExplainsArrival'
  <2>1. taken' \ queue' = taken \ queue
    BY <1>1, <1>2
  <2> QED
    BY <2>1, <1>1 DEF IInv, EdgeExplainsArrival
<1> QED
  BY <1>4, <1>5, <1>6, <1>7, <1>8, <1>9 DEF IInv

LEMMA ProcessRowKeepsIInv ==
  ASSUME IInv, NEW r \in Rows, ProcessRow(r)
  PROVE  IInv'
<1>1. /\ UNCHANGED <<network, unseeded, bucket, open>> /\ table' = table
      /\ unseeded = {} /\ open /\ r \in queue /\ r \in taken
      /\ table.departure[r] = bucket
  BY DEF ProcessRow, IInv, InSequence, TypeOK, table
<1>2. /\ queue' = (queue \ {r}) \cup Joining(r) /\ taken' = taken \cup Joining(r)
      /\ authorized' = authorized \cup {r} \cup Continuation(r)
      /\ Joining(r) \subseteq Rows \ taken
      /\ \A q \in Joining(r) : table.departure[q] = bucket
  BY DEF ProcessRow, Joining
<1>3. Continuation(r) \subseteq Rows
      /\ \A q \in Continuation(r) : bucket <= table.departure[q]
  BY <1>1, RowFacts
<1>4. \A a \in Areas :
        /\ arrival[a] \in 0 .. Never /\ ready[a] \in 0 .. Never
        /\ Alight(r)[a] \in Nat /\ ReadyAfter(r)[a] \in Nat
        /\ bucket <= ReadyAfter(r)[a]
  BY <1>1, LeavingFacts, RowFacts DEF IInv, TypeOK, Times
<1>5. \A a \in Areas :
        /\ arrival'[a] = IF table.dropOff[r] THEN Earlier(arrival[a], Alight(r)[a])
                         ELSE arrival[a]
        /\ ready'[a] = IF table.dropOff[r] THEN Earlier(ready[a], ReadyAfter(r)[a])
                       ELSE ready[a]
        /\ edge'[a] = IF table.dropOff[r] /\ Alight(r)[a] < arrival[a]
                      THEN EdgeBy(r, a) ELSE edge[a]
  BY DEF ProcessRow, Improves
<1>6. ASSUME NEW a \in Areas, Alight(r)[a] < arrival[a]
       PROVE  EdgeBy(r, a) \in Edges
  BY <1>6, <1>4, EarlierFacts, RowFacts DEF EdgeBy, Edges
<1>7. TypeOK'
  <2>1. arrival' \in [Areas -> 0 .. Never] /\ ready' \in [Areas -> 0 .. Never]
    <3>1. ASSUME NEW a \in Areas
          PROVE  /\ Earlier(arrival[a], Alight(r)[a]) \in 0 .. Never
                 /\ Earlier(ready[a], ReadyAfter(r)[a]) \in 0 .. Never
      BY <1>4, EarlierFacts
    <3> QED
      BY <3>1 DEF ProcessRow, IInv, TypeOK
  <2>3. edge' \in [Areas -> Edges \cup {NoEdge}]
    BY <1>6 DEF ProcessRow, Improves, IInv, TypeOK
  <2>4. queue' \subseteq taken' /\ taken' \subseteq Rows /\ authorized' \subseteq Rows
    BY <1>2, <1>3 DEF IInv, TypeOK
  <2> QED
    BY <2>1, <2>3, <2>4, <1>1 DEF IInv, TypeOK
<1>8. InSequence'
  BY <1>1, <1>2, RowFacts DEF IInv, InSequence, Times
<1>9. AllTaken'
  <2>1. SUFFICES ASSUME NEW q \in Rows \ taken', table.departure[q] <= bucket
                 PROVE  ~Boardable(q)' /\ q \notin authorized'
    BY <1>1 DEF AllTaken
  <2>2. /\ q \notin taken /\ q \notin Joining(r)
        /\ ~Boardable(q) /\ q \notin authorized
    BY <1>2, <2>1 DEF IInv, AllTaken
  <2>3. table.from[q] \in Areas /\ table.departure[q] \in Nat /\ bucket \in Nat
    BY <1>1, RowFacts DEF Times
  <2>4. q \notin authorized'
    <3>1. q \in Continuation(r) => table.departure[q] = bucket
      BY <1>3, <2>1, <2>3
    <3> QED
      BY <3>1, <1>1, <1>2, <2>2 DEF Joining
  <2>5. ASSUME Boardable(q)'
        PROVE  FALSE
    <3>1. table.pickup[q] /\ ready'[table.from[q]] <= table.departure[q]
      BY <1>1, <2>5 DEF Boardable
    <3>2. ready[table.from[q]] > table.departure[q]
      BY <3>1, <2>2, <2>3, <1>4 DEF Boardable
    <3>3. /\ table.dropOff[r]
          /\ ReadyAfter(r)[table.from[q]] < ready[table.from[q]]
          /\ ReadyAfter(r)[table.from[q]] <= table.departure[q]
      BY <3>1, <3>2, <1>4, <1>5, <2>3, EarlierFacts
    <3>4. table.departure[q] = bucket
      BY <3>3, <1>4, <2>1, <2>3
    <3> QED
      BY <3>1, <3>3, <3>4, <2>2 DEF Joining
  <2> QED
    BY <2>4, <2>5
<1>10. Sound'
  <2>1. Rideable(r)
    BY <1>1 DEF IInv, Sound
  <2>2. ASSUME NEW q \in Continuation(r) \cup Joining(r)
        PROVE  Rideable(q)
    <3>1. q \in Rows
      BY <1>2, <1>3
    <3>2. Follows(r, q)
      BY <2>2, <3>1, RowFacts DEF Joining, Follows, ReadyAfter
    <3> QED
      BY <2>1, <3>1, <3>2, FollowersAreRideable
  <2>3. \A a \in Areas : arrival'[a] # Never => Reaches(a, arrival'[a])
    <3>1. ASSUME NEW a \in Areas, table.dropOff[r]
          PROVE  Reaches(a, Alight(r)[a])
      BY <3>1, <2>1 DEF Reaches, Alight
    <3> QED
      BY <3>1, <1>4, <1>5, EarlierFacts DEF IInv, Sound
  <2>4. \A a \in Areas : ready'[a] # Never => ReadyBy(a, ready'[a])
    <3>1. ASSUME NEW a \in Areas, table.dropOff[r]
          PROVE  ReadyBy(a, ReadyAfter(r)[a])
      BY <3>1, <2>1 DEF ReadyBy
    <3> QED
      BY <3>1, <1>4, <1>5, EarlierFacts DEF IInv, Sound
  <2>5. \A a, time : ReadyBy(a, time) <=> ReadyBy(a, time)'
    BY <1>1, RideableIsConstant DEF ReadyBy, ReadyAfter
  <2> QED
    BY <2>1, <2>2, <2>3, <2>4, <2>5, <1>1, <1>2, RideableIsConstant,
       ReachesIsConstant DEF IInv, Sound
<1>11. Complete'
  <2>1. \A a \in Areas : /\ arrival'[a] <= arrival[a] /\ ready'[a] <= ready[a]
                         /\ arrival'[a] \in Nat /\ ready'[a] \in Nat
    <3>1. ASSUME NEW a \in Areas
          PROVE  /\ arrival[a] \in Nat /\ ready[a] \in Nat
                 /\ arrival'[a] \in Nat /\ ready'[a] \in Nat
      BY <1>4, <1>7, NeverFact DEF TypeOK
    <3>2. ASSUME NEW a \in Areas
          PROVE  arrival'[a] <= arrival[a] /\ ready'[a] <= ready[a]
      <4>1. CASE table.dropOff[r]
        BY <4>1, <1>4, <1>5, EarlierFacts
      <4>2. CASE ~table.dropOff[r]
        BY <4>2, <3>1, <1>5
      <4> QED
        BY <4>1, <4>2
    <3> QED
      BY <3>1, <3>2
  <2>2. \A s \in network.seeds :
          s.area \in Areas /\ s.time \in Nat
    BY NetworkFacts DEF Seeds, Times
  <2>3. \A s \in network'.seeds \ unseeded' :
          arrival'[s.area] <= s.time /\ ready'[s.area] <= s.time
    BY <2>1, <2>2, <1>1, <1>4 DEF IInv, Complete
  <2>4. ASSUME NEW q \in taken' \ queue'
        PROVE  /\ Continuation(q) \subseteq authorized'
               /\ table.dropOff[q] =>
                    \A a \in Areas :
                      arrival'[a] <= Alight(q)[a] /\ ready'[a] <= ReadyAfter(q)[a]
    <3>1. CASE q = r
      <4>1. ASSUME NEW a \in Areas, table.dropOff[r]
            PROVE  arrival'[a] <= Alight(r)[a] /\ ready'[a] <= ReadyAfter(r)[a]
        BY <4>1, <1>4, <1>5, EarlierFacts
      <4> QED
        BY <3>1, <4>1, <1>2
    <3>2. CASE q # r
      <4>1. q \in taken \ queue /\ q \in Rows
        BY <3>2, <2>4, <1>2 DEF IInv, TypeOK
      <4>2. \A a \in Areas : Alight(q)[a] \in Nat /\ ReadyAfter(q)[a] \in Nat
        BY <4>1, LeavingFacts
      <4> QED
        BY <4>1, <4>2, <2>1, <1>2, <1>4 DEF IInv, Complete
    <3> QED
      BY <3>1, <3>2
  <2> QED
    BY <2>3, <2>4, <1>1 DEF Complete, Continuation, Alight, ReadyAfter
<1>12. EdgeExplainsArrival'
  <2>1. taken' \ queue' = (taken \ queue) \cup {r}
    BY <1>1, <1>2 DEF IInv, TypeOK
  <2>2. ASSUME NEW a \in Areas, ~(table.dropOff[r] /\ Alight(r)[a] < arrival[a])
        PROVE  arrival'[a] = arrival[a] /\ edge'[a] = edge[a]
    BY <2>2, <1>4, <1>5, EarlierFacts
  <2>3. ASSUME NEW a \in Areas, table.dropOff[r], Alight(r)[a] < arrival[a]
        PROVE  /\ arrival'[a] = Alight(r)[a] /\ arrival'[a] # Never
               /\ edge'[a] = EdgeBy(r, a) /\ edge'[a] # NoEdge
    <3>1. arrival'[a] = Alight(r)[a] /\ arrival'[a] \in Times
      BY <2>3, <1>4, <1>5, EarlierFacts
    <3>2. edge'[a] = EdgeBy(r, a) /\ edge'[a] \in Edges
      BY <2>3, <1>5, <1>6
    <3> QED
      BY <3>1, <3>2, NeverFact, NoEdgeAssumption
  <2> DEFINE Explained(a) ==
        /\ (edge[a] = NoEdge) <=> (arrival[a] = Never)
        /\ edge[a] # NoEdge /\ edge[a].kind = "seed" =>
             [area |-> a, time |-> edge[a].time] \in network.seeds \ unseeded
               /\ arrival[a] = edge[a].time
        /\ edge[a] # NoEdge /\ edge[a].kind = "connection" =>
             LET q == edge[a].row IN
             /\ q \in taken \ queue
             /\ table.dropOff[q] /\ table.to[q] = a /\ arrival[a] = table.arrival[q]
        /\ edge[a] # NoEdge /\ edge[a].kind = "walk" =>
             /\ arrival[a] = edge[a].time
             /\ \E q \in taken \ queue :
                  /\ table.dropOff[q] /\ table.to[q] = edge[a].from
                  /\ arrival[a] = table.arrival[q] + network.walk[edge[a].from][a]
  <2>4. ASSUME NEW a \in Areas, table.dropOff[r], Alight(r)[a] < arrival[a]
        PROVE  Explained(a)'
    <3>1. CASE a = table.to[r]
      <4>1. edge'[a] = [kind |-> "connection", row |-> r]
        BY <2>3, <2>4, <3>1 DEF EdgeBy
      <4>2. arrival'[a] = table.arrival[r]
        BY <2>3, <2>4, <3>1 DEF Alight
      <4> QED
        BY <4>1, <4>2, <2>1, <2>3, <2>4, <3>1, <1>1
    <3>2. CASE a # table.to[r]
      <4>1. edge'[a] = [kind |-> "walk", from |-> table.to[r], time |-> Alight(r)[a]]
        BY <2>3, <2>4, <3>2 DEF EdgeBy
      <4>2. arrival'[a] = table.arrival[r] + network.walk[table.to[r]][a]
        BY <2>3, <2>4, <3>2 DEF Alight
      <4> QED
        BY <4>1, <4>2, <2>1, <2>3, <2>4, <3>2, <1>1
    <3> QED
      BY <3>1, <3>2
  <2>5. ASSUME NEW a \in Areas, ~(table.dropOff[r] /\ Alight(r)[a] < arrival[a])
        PROVE  Explained(a)'
    <3>1. Explained(a)
      BY DEF IInv, EdgeExplainsArrival
    <3> QED
      BY <3>1, <2>1, <2>2, <2>5, <1>1
  <2> QED
    BY <2>4, <2>5 DEF EdgeExplainsArrival
<1> QED
  BY <1>7, <1>8, <1>9, <1>10, <1>11, <1>12 DEF IInv

LEMMA CloseBucketKeepsIInv ==
  ASSUME IInv, CloseBucket
  PROVE  IInv'
<1>1. /\ UNCHANGED <<network, unseeded, bucket, arrival, ready, edge, authorized,
                     taken, queue>>
      /\ table' = table /\ open' = FALSE /\ queue = {}
  BY DEF CloseBucket, table
<1>2. \A r \in Rows : Boardable(r)' <=> Boardable(r)
  BY <1>1 DEF Boardable
<1>3. \A a, time : ReadyBy(a, time) <=> ReadyBy(a, time)'
  BY <1>1, RideableIsConstant DEF ReadyBy, ReadyAfter
<1>4. TypeOK' /\ InSequence' /\ AllTaken'
  BY <1>1, <1>2 DEF IInv, TypeOK, InSequence, AllTaken
<1>5. Sound'
  BY <1>1, <1>3, RideableIsConstant, ReachesIsConstant DEF IInv, Sound
<1>6. Complete' /\ EdgeExplainsArrival'
  BY <1>1 DEF IInv, Complete, EdgeExplainsArrival, Continuation, Alight, ReadyAfter
<1> QED
  BY <1>4, <1>5, <1>6 DEF IInv

LEMMA StutterKeepsIInv ==
  ASSUME IInv, UNCHANGED vars
  PROVE  IInv'
<1>1. table' = table
  BY DEF vars, table
<1>2. \A a, time : ReadyBy(a, time) <=> ReadyBy(a, time)'
  BY <1>1, RideableIsConstant DEF ReadyBy, ReadyAfter, vars
<1>3. Sound'
  BY <1>1, <1>2, RideableIsConstant, ReachesIsConstant DEF IInv, Sound, vars
<1> QED
  BY <1>1, <1>3
     DEF IInv, TypeOK, InSequence, AllTaken, Boardable, Complete,
         EdgeExplainsArrival, Continuation, Alight, ReadyAfter, vars

THEOREM Invariance == Spec => []IInv
<1>1. IInv /\ [Next]_vars => IInv'
  BY TakeSeedKeepsIInv, OpenBucketKeepsIInv, ProcessRowKeepsIInv,
     CloseBucketKeepsIInv, StutterKeepsIInv DEF Next
<1> QED
  BY InitIsFresh, FreshIInv, <1>1, PTL DEF Spec

-------------------------------------------------------------------------------
(* What follows from it.                                                      *)

\* Every reachable state is well typed.
THEOREM TypeCorrect == Spec => []TypeOK
<1>1. IInv => TypeOK
  BY DEF IInv
<1> QED
  BY Invariance, <1>1, PTL

\* No row that could be boarded or sat in was missed, whatever the timetable.
THEOREM NothingMissed == Spec => []NoDepartureMissed
<1>1. IInv => NoDepartureMissed
  BY DEF IInv, AllTaken, NoDepartureMissed
<1> QED
  BY Invariance, <1>1, PTL

\* Every arrival found is explained by its predecessor edge.
THEOREM EdgesExplain == Spec => []EdgeExplainsArrival
<1>1. IInv => EdgeExplainsArrival
  BY DEF IInv
<1> QED
  BY Invariance, <1>1, PTL

\* At the end the rows taken are closed under riding on, so that they are all
\* the rideable ones.
LEMMA TakenIsClosed ==
  ASSUME IInv, Done
  PROVE  taken \in ClosedSets
<1>1. /\ unseeded = {} /\ queue = {} /\ taken \subseteq Rows
      /\ \A r \in Rows : ready[table.from[r]] \in Nat /\ table.departure[r] \in Nat
  BY RowFacts, NeverFact DEF IInv, Done, InSequence, TypeOK, Times
<1>2. \A r \in Rows : Boardable(r) \/ r \in authorized => r \in taken
  BY DEF IInv, Done, AllTaken
<1>3. ASSUME NEW r \in Rows, Starts(r)
      PROVE  r \in taken
  <2>1. PICK s \in network.seeds : s.area = table.from[r] /\ s.time <= table.departure[r]
    BY <1>3 DEF Starts
  <2>2. ready[table.from[r]] <= s.time /\ s.time \in Nat
    BY <2>1, <1>1, NetworkFacts DEF IInv, Complete, Seeds, Times
  <2> QED
    BY <2>1, <2>2, <1>1, <1>2, <1>3 DEF Boardable, Starts
<1>4. ASSUME NEW p \in taken, NEW q \in Rows, Follows(p, q)
      PROVE  q \in taken
  <2>1. CASE q \in Continuation(p)
    BY <2>1, <1>1, <1>2 DEF IInv, Complete
  <2>2. CASE /\ table.dropOff[p] /\ table.pickup[q]
             /\ ReadyAfter(p)[table.from[q]] <= table.departure[q]
    <3>1. p \in Rows /\ table.from[q] \in Areas
      BY <1>1, RowFacts
    <3>2. ready[table.from[q]] <= ReadyAfter(p)[table.from[q]]
      BY <2>2, <3>1, <1>1 DEF IInv, Complete
    <3>3. ReadyAfter(p)[table.from[q]] \in Nat
      BY <3>1, LeavingFacts
    <3> QED
      BY <2>2, <3>2, <3>3, <1>1, <1>2 DEF Boardable
  <2> QED
    BY <1>4, <2>1, <2>2, <1>1, RowFacts DEF Follows, ReadyAfter
<1> QED
  BY <1>1, <1>3, <1>4 DEF ClosedSets

LEMMA Exact == IInv => EarliestArrivalIsExact
<1>1. ASSUME IInv, Done, NEW a \in Areas, NEW time \in Times, Reaches(a, time)
      PROVE  arrival[a] <= time
  <2>1. CASE \E s \in network.seeds : s.area = a /\ s.time = time
    BY <2>1, <1>1 DEF IInv, Complete, Done
  <2>2. CASE \E r \in Rows : Rideable(r) /\ table.dropOff[r] /\ Alight(r)[a] = time
    <3>1. PICK r \in Rows : Rideable(r) /\ table.dropOff[r] /\ Alight(r)[a] = time
      BY <2>2
    <3>2. r \in taken \ queue
      BY <1>1, <3>1, TakenIsClosed DEF Rideable, IInv, InSequence, Done
    <3> QED
      BY <1>1, <3>1, <3>2 DEF IInv, Complete
  <2> QED
    BY <1>1, <2>1, <2>2 DEF Reaches, Alight
<1> QED
  BY <1>1 DEF EarliestArrivalIsExact, IInv, Sound

\* The scan finds the earliest arrivals: no journey of the timetable, however
\* many rides it takes, arrives anywhere earlier, and each arrival is one's.
THEOREM ArrivalsAreExact == Spec => []EarliestArrivalIsExact
BY Invariance, Exact, PTL

-------------------------------------------------------------------------------
(* The chain of edges.  Where trips let passengers off at every stop, nobody  *)
(* leaves an area before the area's edge arrives there, and the edges do not  *)
(* lead round among areas that are reached at the same time.                  *)

\* Whoever boards at an area has arrived there.
ReadyLater == \A a \in Areas : arrival[a] <= ready[a]

BoardedInTime ==
  \A r \in taken \cup authorized : arrival[table.from[r]] <= table.departure[r]

\* An area reached by a ride or on foot.
Ridden(route, a) == route.edge[a] # NoEdge /\ route.edge[a].kind # "seed"

NoRound(route) ==
  \A S \in SUBSET Areas : \A m \in Times :
    S # {} /\ (\A a \in S : route.arrival[a] = m /\ Ridden(route, a))
      => \E a \in S : Source(route.edge[a]) \notin S

Chained ==
  /\ ReadyLater
  /\ Stopping => BoardedInTime /\ NoRound(Found)

LEMMA FreshChained == Fresh => Chained
<1> SUFFICES ASSUME Fresh PROVE Chained
  OBVIOUS
<1>1. ReadyLater
  BY HorizonAssumption DEF Fresh, ReadyLater, Never
<1>2. BoardedInTime
  BY DEF Fresh, BoardedInTime
<1>3. NoRound(Found)
  BY DEF Fresh, NoRound, Found, Ridden
<1> QED BY <1>1, <1>2, <1>3 DEF Chained

\* Where the arrivals and edges of a set of areas are as before, the areas
\* still do not lead round.
LEMMA StoppingIsConstant ==
  ASSUME UNCHANGED network
  PROVE  Stopping' <=> Stopping
BY DEF Stopping, Continuation, table

LEMMA UnchangedChain ==
  ASSUME UNCHANGED <<network, arrival, edge>>, NoRound(Found)
  PROVE  NoRound(Found)'
BY DEF NoRound, Found, Ridden, Source, table

LEMMA TakeSeedChained ==
  ASSUME IInv, Chained, NEW s \in unseeded, TakeSeed(s)
  PROVE  Chained'
<1>1. s \in network.seeds /\ s.area \in Areas /\ s.time \in Times /\ s.time \in Nat
  BY NetworkFacts DEF IInv, TypeOK, Seeds, Times
<1>2. /\ UNCHANGED <<network, taken, authorized>> /\ table' = table
  BY DEF TakeSeed, table
<1>3. \A a \in Areas :
        /\ arrival'[a] = IF a = s.area THEN Earlier(arrival[a], s.time) ELSE arrival[a]
        /\ ready'[a] = IF a = s.area THEN Earlier(ready[a], s.time) ELSE ready[a]
        /\ edge'[a] = IF a = s.area /\ s.time < arrival[a]
                      THEN [kind |-> "seed", time |-> s.time] ELSE edge[a]
  BY DEF TakeSeed, IInv, TypeOK
<1>4. \A a \in Areas : /\ arrival[a] \in 0 .. Never /\ ready[a] \in 0 .. Never
                       /\ arrival[a] \in Nat /\ ready[a] \in Nat
  BY NeverFact DEF IInv, TypeOK
<1>5. ReadyLater'
  <2>1. ASSUME NEW a \in Areas PROVE arrival'[a] <= ready'[a]
    <3>1. arrival[a] <= ready[a]
      BY DEF Chained, ReadyLater
    <3> QED BY <1>1, <1>3, <1>4, <3>1 DEF Earlier
  <2> QED BY <2>1 DEF ReadyLater
<1>6. ASSUME Stopping PROVE BoardedInTime'
  <2>1. ASSUME NEW r \in taken \cup authorized
        PROVE  arrival'[table.from[r]] <= table.departure[r]
    <3>1. r \in Rows
      BY DEF IInv, TypeOK
    <3>2. table.from[r] \in Areas /\ table.departure[r] \in Nat
      BY <3>1, RowFacts DEF Times
    <3>3. arrival[table.from[r]] <= table.departure[r]
      BY <1>6 DEF Chained, BoardedInTime
    <3>4. arrival'[table.from[r]] <= arrival[table.from[r]]
          /\ arrival'[table.from[r]] \in Nat
      BY <1>1, <1>3, <1>4, <3>2 DEF Earlier
    <3> QED BY <1>4, <3>2, <3>3, <3>4
  <2> QED BY <1>2, <2>1 DEF BoardedInTime
<1>7. ASSUME Stopping PROVE NoRound(Found)'
  <2>1. SUFFICES ASSUME NEW S \in SUBSET Areas, NEW m \in Times, S # {},
                        \A a \in S : arrival'[a] = m /\ edge'[a] # NoEdge
                                     /\ edge'[a].kind # "seed"
                 PROVE  \E a \in S : Source(edge'[a]) \notin S
    BY <1>2 DEF NoRound, Found, Ridden, Source
  <2>2. ASSUME NEW a \in S PROVE edge'[a] = edge[a] /\ arrival'[a] = arrival[a]
    <3>1. a \in Areas /\ edge'[a].kind # "seed"
      BY <2>1
    <3>2. ~(a = s.area /\ s.time < arrival[a])
      BY <1>3, <3>1
    <3> QED BY <1>1, <1>3, <1>4, <3>1, <3>2 DEF Earlier
  <2>3. NoRound(Found)
    BY <1>7 DEF Chained
  <2>4. \E a \in S : Source(edge[a]) \notin S
    <3>1. \A a \in S : arrival[a] = m /\ Ridden(Found, a)
      BY <2>1, <2>2 DEF Ridden, Found
    <3>2. \A T \in SUBSET Areas :
            T # {} /\ (\A x \in T : Found.arrival[x] = m /\ Ridden(Found, x))
              => \E x \in T : Source(Found.edge[x]) \notin T
      BY <2>3 DEF NoRound
    <3>3. Found.arrival = arrival /\ Found.edge = edge
      BY DEF Found
    <3> QED BY <2>1, <3>1, <3>2, <3>3
  <2> QED BY <2>2, <2>4
<1>8. Stopping' <=> Stopping
  BY <1>2, StoppingIsConstant
<1> QED BY <1>5, <1>6, <1>7, <1>8 DEF Chained

LEMMA OpenBucketChained ==
  ASSUME IInv, Chained, NEW minute \in Times, OpenBucket(minute)
  PROVE  Chained'
<1>1. /\ UNCHANGED <<network, arrival, ready, edge, authorized>> /\ table' = table
  BY DEF OpenBucket, table
<1>2. ASSUME Stopping PROVE BoardedInTime'
  <2>1. ASSUME NEW r \in taken' \cup authorized
        PROVE  arrival[table.from[r]] <= table.departure[r]
    <3>1. CASE r \in taken \cup authorized
      BY <1>2, <3>1 DEF Chained, BoardedInTime
    <3>2. CASE r \in Rows /\ Boardable(r)
      <4>1. table.from[r] \in Areas /\ table.departure[r] \in Nat
        BY <3>2, RowFacts DEF Times
      <4>2. /\ arrival[table.from[r]] <= ready[table.from[r]]
            /\ ready[table.from[r]] <= table.departure[r]
        BY <3>2, <4>1 DEF Chained, ReadyLater, Boardable
      <4>3. arrival[table.from[r]] \in Nat /\ ready[table.from[r]] \in Nat
        BY <4>1, NeverFact DEF IInv, TypeOK
      <4> QED BY <4>1, <4>2, <4>3
    <3> QED BY <3>1, <3>2 DEF OpenBucket
  <2> QED BY <1>1, <2>1 DEF BoardedInTime
<1>3. ReadyLater'
  BY <1>1 DEF Chained, ReadyLater
<1>4. ASSUME Stopping PROVE NoRound(Found)'
  BY <1>1, <1>4, UnchangedChain DEF Chained
<1>5. Stopping' <=> Stopping
  BY <1>1, StoppingIsConstant
<1> QED BY <1>2, <1>3, <1>4, <1>5 DEF Chained

LEMMA ProcessRowChained ==
  ASSUME IInv, Chained, NEW r \in Rows, ProcessRow(r)
  PROVE  Chained'
<1>1. /\ UNCHANGED network /\ table' = table
      /\ r \in taken
      /\ authorized' = authorized \cup {r} \cup Continuation(r)
      /\ taken' = taken \cup Joining(r)
  BY DEF ProcessRow, IInv, TypeOK, table
<1>2. /\ table.from[r] \in Areas /\ table.to[r] \in Areas
      /\ table.departure[r] \in Nat /\ table.arrival[r] \in Nat
      /\ table.departure[r] <= table.arrival[r]
  BY RowFacts DEF Times
<1>3. \A a \in Areas :
        /\ arrival[a] \in 0 .. Never /\ ready[a] \in 0 .. Never
        /\ arrival[a] \in Nat /\ ready[a] \in Nat
        /\ Alight(r)[a] \in Nat /\ ReadyAfter(r)[a] \in Nat
        /\ table.arrival[r] <= Alight(r)[a]
  BY LeavingFacts, NeverFact DEF IInv, TypeOK
<1>4. \A a \in Areas :
        /\ arrival'[a] = IF table.dropOff[r] THEN Earlier(arrival[a], Alight(r)[a])
                         ELSE arrival[a]
        /\ ready'[a] = IF table.dropOff[r] THEN Earlier(ready[a], ReadyAfter(r)[a])
                       ELSE ready[a]
        /\ edge'[a] = IF table.dropOff[r] /\ Alight(r)[a] < arrival[a]
                      THEN EdgeBy(r, a) ELSE edge[a]
  BY DEF ProcessRow, Improves
<1>5. \A a \in Areas : Alight(r)[a] <= ReadyAfter(r)[a]
  <2>1. ASSUME NEW a \in Areas PROVE Alight(r)[a] <= ReadyAfter(r)[a]
    <3>1. CASE a = table.to[r]
      BY <1>2, <3>1, HorizonAssumption DEF Alight, ReadyAfter
    <3>2. CASE a # table.to[r]
      <4>1. Alight(r)[a] = ReadyAfter(r)[a]
        BY <3>2 DEF Alight, ReadyAfter
      <4> QED BY <1>3, <4>1
    <3> QED BY <3>1, <3>2
  <2> QED BY <2>1
<1>6. \A a \in Areas :
        /\ arrival'[a] \in Nat /\ arrival'[a] <= arrival[a]
        /\ table.dropOff[r] => arrival'[a] <= Alight(r)[a]
  BY <1>3, <1>4 DEF Earlier
<1>7. ReadyLater'
  <2>1. ASSUME NEW a \in Areas PROVE arrival'[a] <= ready'[a]
    <3>1. arrival[a] <= ready[a]
      BY DEF Chained, ReadyLater
    <3> QED BY <1>3, <1>4, <1>5, <3>1 DEF Earlier
  <2> QED BY <2>1 DEF ReadyLater
<1>8. ASSUME Stopping PROVE BoardedInTime'
  <2>0. table.dropOff[r]
    BY <1>8 DEF Stopping
  <2>1. ASSUME NEW q \in taken' \cup authorized'
        PROVE  arrival'[table.from[q]] <= table.departure[q]
    <3>0. q \in Rows /\ table.from[q] \in Areas /\ table.departure[q] \in Nat
      <4>1. q \in Rows
        BY <1>1, <2>1, RowFacts DEF IInv, TypeOK, Joining
      <4> QED BY <4>1, RowFacts DEF Times
    <3>1. CASE q \in taken \cup authorized
      <4>1. arrival[table.from[q]] <= table.departure[q]
        BY <1>8, <3>1 DEF Chained, BoardedInTime
      <4> QED BY <1>3, <1>6, <3>0, <4>1
    <3>2. CASE q \in Continuation(r)
      <4>1. table.from[q] = table.to[r]
        BY <3>2, NetworkFacts DEF Chronological, Continuation
      <4>2. table.arrival[r] <= table.departure[q]
        BY <1>8, <3>2 DEF Stopping
      <4>3. Alight(r)[table.to[r]] = table.arrival[r]
        BY <1>2 DEF Alight
      <4>4. arrival'[table.from[q]] <= table.arrival[r]
        BY <1>2, <1>6, <2>0, <4>1, <4>3
      <4> QED BY <1>2, <1>6, <3>0, <4>2, <4>4
    <3>3. CASE q \in Joining(r) /\ q \notin Continuation(r)
      <4>1. ReadyAfter(r)[table.from[q]] <= table.departure[q]
        BY <3>3 DEF Joining
      <4> QED BY <1>3, <1>5, <1>6, <2>0, <3>0, <4>1
    <3> QED BY <1>1, <3>1, <3>2, <3>3
  <2> QED BY <1>1, <2>1 DEF BoardedInTime
<1>9. ASSUME Stopping PROVE NoRound(Found)'
  <2>0. table.dropOff[r] /\ NoRound(Found)
        /\ arrival[table.from[r]] <= table.departure[r]
    BY <1>1, <1>9 DEF Stopping, Chained, BoardedInTime
  <2>1. SUFFICES ASSUME NEW S \in SUBSET Areas, NEW m \in Times, S # {},
                        \A a \in S : arrival'[a] = m /\ edge'[a] # NoEdge
                                     /\ edge'[a].kind # "seed",
                        \A a \in S : Source(edge'[a]) \in S
                 PROVE  FALSE
    BY <1>1 DEF NoRound, Found, Ridden, Source
  <2> DEFINE improved == {a \in S : Alight(r)[a] < arrival[a]}
             others == S \ improved
  <2>2. m \in Nat
    BY DEF Times
  <2>3. \A a \in improved : edge'[a] = EdgeBy(r, a) /\ m = Alight(r)[a] /\ m < arrival[a]
    BY <1>3, <1>4, <2>0, <2>1 DEF Earlier
  <2>4. \A a \in others : edge'[a] = edge[a] /\ arrival[a] = m
    BY <1>3, <1>4, <2>0, <2>1 DEF Earlier
  \* An area outside of the improved ones whose edge leads to an improved one
  \* was reached before somebody could be there.
  <2>5. ASSUME NEW a \in others PROVE arrival[Source(edge[a])] <= m
    <3>0. a \in Areas /\ edge[a] # NoEdge /\ edge[a].kind # "seed" /\ edge[a] \in Edges
          /\ arrival[a] = m
      BY <2>1, <2>4 DEF IInv, TypeOK
    <3>1. CASE edge[a].kind = "connection"
      <4> DEFINE p == edge[a].row
      <4>1. p \in taken /\ arrival[a] = table.arrival[p] /\ p \in Rows
        BY <3>0, <3>1 DEF IInv, TypeOK, EdgeExplainsArrival
      <4>2. arrival[table.from[p]] <= table.departure[p]
        BY <1>9, <4>1 DEF Chained, BoardedInTime
      <4>3. /\ table.departure[p] <= table.arrival[p] /\ table.from[p] \in Areas
            /\ table.departure[p] \in Nat /\ table.arrival[p] \in Nat
        BY <4>1, RowFacts DEF Times
      <4>4. Source(edge[a]) = table.from[p]
        BY <3>1 DEF Source
      <4> HIDE DEF p
      <4> QED BY <1>3, <3>0, <4>1, <4>2, <4>3, <4>4
    <3>2. CASE edge[a].kind = "walk"
      <4>1. PICK p \in taken \ queue :
              /\ table.dropOff[p] /\ table.to[p] = edge[a].from
              /\ arrival[a] = table.arrival[p] + network.walk[edge[a].from][a]
        BY <3>0, <3>2 DEF IInv, EdgeExplainsArrival
      <4>2. p \in Rows
        BY DEF IInv, TypeOK
      <4>3. table.to[p] \in Areas /\ table.arrival[p] \in Nat
        BY <4>2, RowFacts DEF Times
      <4>4. network.walk[table.to[p]][a] \in Nat
        BY <3>0, <4>3, NetworkFacts, NeverFact DEF Walks
      <4>5. arrival[table.to[p]] <= table.arrival[p]
        BY <4>1, <4>3 DEF IInv, Complete, Alight
      <4>6. Source(edge[a]) = table.to[p]
        BY <3>2, <4>1 DEF Source
      <4> QED BY <1>3, <3>0, <4>1, <4>3, <4>4, <4>5, <4>6
    <3> QED BY <3>0, <3>1, <3>2 DEF Edges
  <2>6. CASE others # {}
    <3>1. others \in SUBSET Areas
      BY <2>1
    <3>2. \A a \in others : arrival[a] = m /\ Ridden(Found, a)
      BY <2>1, <2>4 DEF Ridden, Found
    <3>3. PICK a \in others : Source(edge[a]) \notin others
      <4> HIDE DEF others
      <4>1. \A T \in SUBSET Areas :
              T # {} /\ (\A x \in T : Found.arrival[x] = m /\ Ridden(Found, x))
                => \E x \in T : Source(Found.edge[x]) \notin T
        BY <2>0 DEF NoRound
      <4>2. Found.arrival = arrival /\ Found.edge = edge
        BY DEF Found
      <4> QED BY <2>6, <3>1, <3>2, <4>1, <4>2
    <3>4. Source(edge[a]) \in improved
      BY <2>1, <2>4, <3>3
    <3>5. m < arrival[Source(edge[a])] /\ Source(edge[a]) \in Areas
      BY <2>1, <2>3, <3>4
    <3>6. arrival[Source(edge[a])] <= m
      BY <2>5
    <3> QED BY <1>3, <2>2, <3>5, <3>6
  <2>7. CASE others = {}
    <3>1. PICK a \in S : a \in improved
      BY <2>1, <2>7
    <3>2. table.to[r] \in improved
      <4>1. CASE a = table.to[r]
        BY <3>1, <4>1
      <4>2. CASE a # table.to[r]
        <5>1. edge'[a] = [kind |-> "walk", from |-> table.to[r], time |-> Alight(r)[a]]
          BY <2>3, <3>1, <4>2 DEF EdgeBy
        <5>2. Source(edge'[a]) = table.to[r]
          BY <5>1 DEF Source
        <5> QED BY <2>1, <2>7, <3>1, <5>2
      <4> QED BY <4>1, <4>2
    <3>3. edge'[table.to[r]] = [kind |-> "connection", row |-> r]
      BY <2>3, <3>2 DEF EdgeBy
    <3>4. Source(edge'[table.to[r]]) = table.from[r]
      BY <3>3 DEF Source
    <3>5. table.from[r] \in improved
      BY <2>1, <2>7, <3>2, <3>4
    <3>6. m < arrival[table.from[r]]
      BY <2>3, <3>5
    <3>7. m = table.arrival[r]
      BY <2>3, <3>2 DEF Alight
    <3> QED BY <1>2, <1>3, <2>0, <2>2, <3>6, <3>7
  <2> QED BY <2>6, <2>7
<1>10. Stopping' <=> Stopping
  BY <1>1, StoppingIsConstant
<1> QED BY <1>7, <1>8, <1>9, <1>10 DEF Chained

LEMMA ScanKeepsChained ==
  ASSUME IInv, Chained, Next
  PROVE  Chained'
<1>1. ASSUME CloseBucket PROVE Chained'
  <2>1. UNCHANGED <<network, arrival, ready, edge, authorized, taken>> /\ table' = table
    BY <1>1 DEF CloseBucket, table
  <2>2. ReadyLater'
    BY <2>1 DEF Chained, ReadyLater
  <2>3. Stopping => BoardedInTime'
    BY <2>1 DEF Chained, BoardedInTime
  <2>4. Stopping => NoRound(Found)'
    BY <2>1, UnchangedChain DEF Chained
  <2> QED BY <2>1, <2>2, <2>3, <2>4, StoppingIsConstant DEF Chained
<1> QED
  BY <1>1, TakeSeedChained, OpenBucketChained, ProcessRowChained DEF Next

-------------------------------------------------------------------------------
(* The two scans of a meeting.                                                *)

Routes == [arrival : [Areas -> 0 .. Never], edge : [Areas -> Edges \cup {NoEdge}]]

\* What a finished scan leaves behind.
RouteHolds(route, seeds) ==
  /\ route \in Routes
  /\ \A s \in seeds : route.arrival[s.area] <= s.time
  /\ \A a \in Areas :
       /\ (route.edge[a] = NoEdge) <=> (route.arrival[a] = Never)
       /\ route.edge[a] # NoEdge =>
            /\ route.arrival[a] = ArrivalBy(route.edge[a])
            /\ route.edge[a].kind = "walk" =>
                 route.arrival[route.edge[a].from] <= route.edge[a].time
            /\ route.edge[a].kind = "connection" /\ Stopping =>
                 route.arrival[table.from[route.edge[a].row]]
                   <= table.departure[route.edge[a].row]
  /\ Stopping => NoRound(route)

MeetingInv ==
  /\ IInv /\ Chained
  /\ party \in Parties
  /\ routes \in Seq(Routes) /\ Len(routes) \in 0 .. 2
  /\ ~Routed => network.seeds = party[turn] /\ (party[turn] = {} => ~open)
  /\ \A p \in 1 .. Len(routes) : RouteHolds(routes[p], party[p])

LEMMA PartyFacts ==
  ASSUME party \in Parties
  PROVE  party[1] \in SUBSET Seeds /\ party[2] \in SUBSET Seeds
BY PartiesAssumption

\* The edge of an area after the scan arrives when the area is reached.
LEMMA FoundHolds ==
  ASSUME IInv, Chained, Done
  PROVE  RouteHolds(Found, network.seeds)
<1> DEFINE route == Found
<1>0. route.arrival = arrival /\ route.edge = edge
  BY DEF Found
<1>1. route \in Routes
  BY DEF Found, Routes, IInv, TypeOK
<1>2. \A s \in network.seeds : arrival[s.area] <= s.time
  BY DEF IInv, Complete, Done
<1>3. ASSUME NEW a \in Areas
      PROVE  /\ (edge[a] = NoEdge) <=> (arrival[a] = Never)
             /\ edge[a] # NoEdge =>
                  /\ arrival[a] = ArrivalBy(edge[a])
                  /\ edge[a].kind = "walk" => arrival[edge[a].from] <= edge[a].time
                  /\ edge[a].kind = "connection" /\ Stopping =>
                       arrival[table.from[edge[a].row]] <= table.departure[edge[a].row]
  <2>1. (edge[a] = NoEdge) <=> (arrival[a] = Never)
    BY DEF IInv, EdgeExplainsArrival
  <2>2. ASSUME edge[a] # NoEdge PROVE edge[a] \in Edges
    BY <2>2 DEF IInv, TypeOK
  <2>3. ASSUME edge[a] # NoEdge, edge[a].kind = "seed"
        PROVE  arrival[a] = ArrivalBy(edge[a])
    BY <2>3 DEF IInv, EdgeExplainsArrival, ArrivalBy
  <2>4. ASSUME edge[a] # NoEdge, edge[a].kind = "connection"
        PROVE  /\ arrival[a] = ArrivalBy(edge[a])
               /\ Stopping => arrival[table.from[edge[a].row]]
                                <= table.departure[edge[a].row]
    <3>1. edge[a].row \in taken /\ arrival[a] = table.arrival[edge[a].row]
      BY <2>4 DEF IInv, EdgeExplainsArrival
    <3>2. Stopping => BoardedInTime
      BY DEF Chained
    <3> QED BY <2>4, <3>1, <3>2 DEF ArrivalBy, BoardedInTime
  <2>5. ASSUME edge[a] # NoEdge, edge[a].kind = "walk"
        PROVE  /\ arrival[a] = ArrivalBy(edge[a])
               /\ arrival[edge[a].from] <= edge[a].time
    <3>1. arrival[a] = edge[a].time
      BY <2>5 DEF IInv, EdgeExplainsArrival
    <3>2. PICK p \in taken \ queue :
            /\ table.dropOff[p] /\ table.to[p] = edge[a].from
            /\ arrival[a] = table.arrival[p] + network.walk[edge[a].from][a]
      BY <2>5 DEF IInv, EdgeExplainsArrival
    <3>3. p \in Rows
      BY DEF IInv, TypeOK
    <3>4. table.to[p] \in Areas /\ table.arrival[p] \in Nat
      BY <3>3, RowFacts DEF Times
    <3>5. network.walk[table.to[p]][a] \in Nat
      BY <3>4, NetworkFacts, NeverFact DEF Walks
    <3>6. arrival[table.to[p]] <= table.arrival[p] /\ arrival[table.to[p]] \in Nat
      BY <3>2, <3>4, NeverFact DEF IInv, TypeOK, Complete, Alight
    <3>7. arrival[edge[a].from] <= edge[a].time
      <4>1. edge[a].time = table.arrival[p] + network.walk[table.to[p]][a]
            /\ edge[a].from = table.to[p]
        BY <3>1, <3>2
      <4> QED BY <3>4, <3>5, <3>6, <4>1
    <3> QED BY <2>5, <3>1, <3>7 DEF ArrivalBy
  <2> QED BY <2>1, <2>2, <2>3, <2>4, <2>5 DEF Edges
<1>4. Stopping => NoRound(route)
  BY DEF Chained
<1> HIDE DEF route
<1>5. RouteHolds(route, network.seeds)
  BY <1>0, <1>1, <1>2, <1>3, <1>4 DEF RouteHolds
<1> QED BY <1>5 DEF route

\* A participant without access seeds is nowhere.
LEMMA NoRouteHolds == RouteHolds(NoRoute, {})
<1>1. NoRoute \in Routes
  BY HorizonAssumption DEF NoRoute, Routes, Never
<1>2. \A a \in Areas : NoRoute.arrival[a] = Never /\ NoRoute.edge[a] = NoEdge
  BY DEF NoRoute
<1>3. NoRound(NoRoute)
  BY <1>2 DEF NoRound, Ridden
<1> QED BY <1>1, <1>2, <1>3 DEF RouteHolds

\* What has been found holds of the same table.
LEMMA RoutesAreKept ==
  ASSUME table' = table, NEW p, routes'[p] = routes[p], party' = party,
         RouteHolds(routes[p], party[p])
  PROVE  RouteHolds(routes[p], party[p])'
<1>1. Stopping' <=> Stopping
  BY DEF Stopping, Continuation
<1>2. NoRound(routes[p])' <=> NoRound(routes[p])
  BY DEF NoRound, Source, Ridden
<1>3. \A a \in Areas :
        ArrivalBy(routes[p].edge[a])' = ArrivalBy(routes[p].edge[a])
  BY DEF ArrivalBy
<1>4. (routes[p] \in Routes)' <=> routes[p] \in Routes
  BY DEF Routes
<1> QED BY <1>1, <1>2, <1>3, <1>4 DEF RouteHolds

LEMMA InitMeeting == MeetingInit => MeetingInv
<1> SUFFICES ASSUME MeetingInit PROVE MeetingInv
  OBVIOUS
<1>1. Fresh
  BY InitIsFresh DEF MeetingInit
<1>2. IInv /\ Chained
  BY <1>1, FreshIInv, FreshChained
<1>3. routes = <<>> /\ Len(routes) = 0 /\ routes \in Seq(Routes)
  BY DEF MeetingInit
<1>4. turn = 1 /\ network.seeds = party[1] /\ ~open
  BY <1>1, <1>3 DEF MeetingInit, Fresh, turn
<1> QED BY <1>2, <1>3, <1>4 DEF MeetingInv, MeetingInit

LEMMA ScanKeepsMeetingInv ==
  ASSUME MeetingInv, Scan
  PROVE  MeetingInv'
<1>1. IInv' /\ Chained'
  BY TakeSeedKeepsIInv, OpenBucketKeepsIInv, ProcessRowKeepsIInv,
     CloseBucketKeepsIInv, ScanKeepsChained DEF MeetingInv, Scan, Next
<1>2. UNCHANGED <<party, routes, network>>
  BY DEF Scan, Next, TakeSeed, OpenBucket, ProcessRow, CloseBucket
<1>3. party[turn] # {} /\ turn' = turn /\ (Routed' <=> Routed)
  BY <1>2 DEF Scan, turn, Routed
<1>4. \A p \in 1 .. Len(routes) : RouteHolds(routes[p], party[p])'
  BY <1>2, RoutesAreKept DEF MeetingInv, table
<1> QED BY <1>1, <1>2, <1>3, <1>4 DEF MeetingInv

LEMMA FinishScanKeepsMeetingInv ==
  ASSUME MeetingInv, FinishScan
  PROVE  MeetingInv'
<1> DEFINE route == IF party[turn] = {} THEN NoRoute ELSE Found
<1>1. /\ turn \in {1, 2} /\ turn = Len(routes) + 1 /\ network.seeds = party[turn]
      /\ party' = party /\ routes' = Append(routes, route)
  BY DEF MeetingInv, FinishScan, turn, Routed
<1>2. RouteHolds(route, party[turn])
  <2>1. CASE party[turn] = {}
    BY <2>1, NoRouteHolds
  <2>2. CASE party[turn] # {}
    BY <1>1, <2>2, FoundHolds DEF MeetingInv, FinishScan
  <2> QED BY <2>1, <2>2
<1>3. route \in Routes
  BY <1>2 DEF RouteHolds
<1> HIDE DEF route
<1>4. /\ routes' \in Seq(Routes) /\ Len(routes') = turn /\ routes'[turn] = route
      /\ \A p \in 1 .. Len(routes) : routes'[p] = routes[p]
  BY <1>1, <1>3 DEF MeetingInv
<1>5. ~open /\ queue = {}
  BY <1>1 DEF MeetingInv, FinishScan, Done, IInv, InSequence
<1>6. IInv' /\ Chained' /\ table' = table /\ (turn = 1 => network'.seeds = party[2] /\ ~open')
  <2>1. CASE turn = 1
    <3>1. /\ network' = [network EXCEPT !.seeds = party[2]]
          /\ unseeded' = party[2] /\ bucket' = -1
          /\ arrival' = [a \in Areas |-> Never] /\ ready' = [a \in Areas |-> Never]
          /\ edge' = [a \in Areas |-> NoEdge]
          /\ authorized' = {} /\ taken' = {} /\ UNCHANGED <<open, queue>>
      BY <2>1 DEF FinishScan, NoRoute
    <3>2. party[2] \in SUBSET Seeds
      BY PartyFacts DEF MeetingInv
    <3>3. /\ network \in [table : Timetable, seeds : SUBSET Seeds, walk : Walks]
          /\ Chronological(table) /\ open \in BOOLEAN
      BY DEF MeetingInv, IInv, TypeOK, InSequence
    <3>4. /\ network' \in [table : Timetable, seeds : SUBSET Seeds, walk : Walks]
          /\ network'.seeds = party[2] /\ table' = table
      BY <3>1, <3>2, <3>3 DEF table
    <3>5. Fresh'
      BY <1>5, <3>1, <3>3, <3>4 DEF Fresh
    <3>6. Fresh' => IInv' /\ Chained'
      BY FreshIInv, FreshChained, PTL
    <3> QED BY <1>5, <3>1, <3>4, <3>5, <3>6
  <2>2. CASE turn = 2
    <3>1. UNCHANGED vars
      BY <2>2 DEF FinishScan
    <3>2. IInv'
      BY <3>1, StutterKeepsIInv DEF MeetingInv
    <3>3. Chained'
      BY <3>1 DEF MeetingInv, Chained, ReadyLater, BoardedInTime, vars, Stopping,
                  Continuation, table, NoRound, Found, Ridden, Source
    <3>4. table' = table
      BY <3>1 DEF vars, table
    <3> QED BY <2>2, <3>2, <3>3, <3>4
  <2> QED BY <1>1, <2>1, <2>2
<1>7. ASSUME NEW p \in 1 .. Len(routes')
      PROVE  RouteHolds(routes[p], party[p])'
  <2>1. CASE p # turn
    <3>1. p \in 1 .. Len(routes)
      BY <1>1, <1>4, <2>1
    <3>2. RouteHolds(routes[p], party[p])
      BY <3>1 DEF MeetingInv
    <3> QED BY <1>1, <1>4, <1>6, <3>1, <3>2, RoutesAreKept
  <2>2. CASE p = turn
    <3>1. routes'[p] = route /\ party'[p] = party[turn]
      BY <1>1, <1>4, <2>2
    <3>2. RouteHolds(routes'[p], party'[p])
      BY <1>2, <3>1
    <3>3. Stopping' <=> Stopping
      BY <1>6 DEF Stopping, Continuation
    <3>4. NoRound(routes[p])' <=> NoRound(routes'[p])
      BY <1>6 DEF NoRound, Source, Ridden
    <3>5. \A a \in Areas :
            ArrivalBy(routes[p].edge[a])' = ArrivalBy(routes'[p].edge[a])
      BY <1>6 DEF ArrivalBy
    <3>6. (routes[p] \in Routes)' <=> routes'[p] \in Routes
      BY DEF Routes
    <3> QED BY <1>6, <3>2, <3>3, <3>4, <3>5, <3>6 DEF RouteHolds
  <2> QED BY <2>1, <2>2
<1>8. \A p \in 1 .. Len(routes') : RouteHolds(routes[p], party[p])'
  BY <1>7
<1>9. ~Routed' => turn' = 2 /\ turn = 1
  <2>1. Len(routes') = turn /\ turn \in {1, 2}
    BY <1>1, <1>4
  <2>2. turn' = Len(routes') + 1
    BY DEF turn
  <2>3. Routed' <=> Len(routes') = 2
    BY DEF Routed
  <2> QED BY <2>1, <2>2, <2>3
<1> QED BY <1>1, <1>4, <1>6, <1>8, <1>9 DEF MeetingInv

LEMMA MeetingStutter ==
  ASSUME MeetingInv, UNCHANGED meetingVars
  PROVE  MeetingInv'
<1>1. UNCHANGED vars /\ UNCHANGED <<party, routes>>
  BY DEF meetingVars
<1>2. IInv'
  BY <1>1, StutterKeepsIInv DEF MeetingInv
<1>3. Chained'
  BY <1>1 DEF MeetingInv, Chained, ReadyLater, BoardedInTime, vars, Stopping,
              Continuation, table, NoRound, Found, Ridden, Source
<1>4. \A p \in 1 .. Len(routes) : RouteHolds(routes[p], party[p])'
  BY <1>1, RoutesAreKept DEF MeetingInv, table, vars
<1> QED BY <1>1, <1>2, <1>3, <1>4 DEF MeetingInv, Routed, turn, vars

\* Both scans keep the router's invariant, and what the first has found is kept
\* while the second runs.
THEOREM MeetingInvariance == MeetingSpec => []MeetingInv
<1>1. MeetingInv /\ [MeetingNext]_meetingVars => MeetingInv'
  BY ScanKeepsMeetingInv, FinishScanKeepsMeetingInv, MeetingStutter DEF MeetingNext
<1> QED
  BY InitMeeting, <1>1, PTL DEF MeetingSpec

\* The arrivals and edges of both participants are exact when their scan ends,
\* whatever the first scan has left behind.
THEOREM BothScansAreExact ==
  MeetingSpec => []EarliestArrivalIsExact /\ []EdgeExplainsArrival
<1>1. MeetingInv => EarliestArrivalIsExact
  BY Exact DEF MeetingInv
<1>2. MeetingInv => EdgeExplainsArrival
  BY DEF MeetingInv, IInv
<1> QED BY MeetingInvariance, <1>1, <1>2, PTL

-------------------------------------------------------------------------------
(* The surface passes its validator.                                          *)

\* The catalog names every area inside the boundary once.
LEMMA CatalogFacts ==
  ASSUME NEW inside \in SUBSET Areas
  PROVE  \E n \in Nat :
           /\ Catalog(inside) \in [1 .. n -> inside]
           /\ \A i, k \in 1 .. n : Catalog(inside)[i] = Catalog(inside)[k] => i = k
<1> DEFINE N == Cardinality(Areas)
           rows == {i \in DOMAIN AreaOrder : AreaOrder[i] \in inside}
           row(k) == CHOOSE i \in rows : Cardinality({j \in rows : j < i}) = k - 1
           n == Cardinality(rows)
<1>1. N \in Nat /\ AreaOrder \in [1 .. N -> Areas]
  BY AreasAssumption, OrderAssumption, FS_CardinalityType
<1>2. \A i, k \in 1 .. N : AreaOrder[i] = AreaOrder[k] => i = k
  <2>1. AreaOrder \in Surjection(1 .. N, Areas)
    BY <1>1, OrderAssumption DEF Surjection
  <2>2. IsFiniteSet(1 .. N) /\ Cardinality(1 .. N) = N
    BY <1>1, FS_Interval
  <2>3. AreaOrder \in Injection(1 .. N, Areas)
    BY <2>1, <2>2, FS_SurjSameCardinalityImpliesInj
  <2> QED BY <2>3 DEF Injection, IsInjective
<1>3. rows \in SUBSET (1 .. N)
  BY <1>1
<1>4. /\ n \in Nat
      /\ \A m \in 0 .. n - 1 : \E i \in rows : Cardinality({j \in rows : j < i}) = m
  <2> HIDE DEF rows, N
  <2>1. /\ n \in Nat
        /\ \A m \in 0 .. n - 1 : \E i \in rows : Cardinality(Below(rows, i)) = m
    BY <1>1, <1>3, Counted
  <2> QED BY <2>1 DEF Below
<1>5. ASSUME NEW k \in 1 .. n
      PROVE  row(k) \in rows /\ Cardinality({j \in rows : j < row(k)}) = k - 1
  <2> HIDE DEF rows, n
  <2>1. k - 1 \in 0 .. n - 1
    BY <1>4
  <2>2. \E i \in rows : Cardinality({j \in rows : j < i}) = k - 1
    BY <1>4, <2>1
  <2> QED BY <2>2
<1>6. ASSUME NEW i \in 1 .. n, NEW k \in 1 .. n, row(i) = row(k)
      PROVE  i = k
  <2> DEFINE before(h) == Cardinality({j \in rows : j < h})
  <2>1. before(row(i)) = i - 1 /\ before(row(k)) = k - 1
    BY <1>5
  <2>2. i \in Int /\ k \in Int
    BY <1>4
  <2> HIDE DEF row, rows, n, before
  <2> QED BY <1>6, <2>1, <2>2
<1>7. Catalog(inside) = [k \in 1 .. n |-> AreaOrder[row(k)]]
  BY DEF Catalog
<1>8. ASSUME NEW k \in 1 .. n PROVE AreaOrder[row(k)] \in inside /\ row(k) \in 1 .. N
  <2>1. row(k) \in rows
    BY <1>5
  <2> HIDE DEF row
  <2> QED BY <1>3, <2>1
<1> HIDE DEF row, rows, n, N
<1>9. Catalog(inside) \in [1 .. n -> inside]
  BY <1>7, <1>8
<1>10. \A i, k \in 1 .. n : Catalog(inside)[i] = Catalog(inside)[k] => i = k
  BY <1>2, <1>6, <1>7, <1>8
<1> QED BY <1>4, <1>9, <1>10

\* Two arrivals that are equal are within every tolerance.
LEMMA EqualIsFair ==
  ASSUME NEW red \in Nat, NEW tolerance \in Nat
  PROVE  IsScheduledToleranceSatisfied(red, red, tolerance)
<1>1. (red + red) * tolerance \in Nat
  OBVIOUS
<1>2. 0 <= (red + red) * tolerance
  <2> DEFINE x == (red + red) * tolerance
  <2> HIDE DEF x
  <2>1. x \in Nat
    BY <1>1 DEF x
  <2>2. 0 <= x
    BY <2>1
  <2> QED BY <2>2 DEF x
<1>3. (IF red < red THEN red - red ELSE red - red) * 100 = 0
  OBVIOUS
<1> QED BY <1>2, <1>3 DEF IsScheduledToleranceSatisfied

LEMMA ClassifyHolds ==
  ASSUME NEW inside, NEW a \in inside, NEW red \in 0 .. Never, NEW blue \in 0 .. Never,
         NEW tolerance \in Nat
  PROVE  /\ DerivedAreaHolds(Classify(a, red, blue, tolerance), "ok", tolerance)
         /\ StationAreaTyped(Classify(a, red, blue, tolerance), inside)
<1> DEFINE c == Classify(a, red, blue, tolerance)
           fair == /\ red # Null /\ blue # Null
                   /\ IsScheduledToleranceSatisfied(red, blue, tolerance)
<1>1. /\ c.area = a /\ c.red = red /\ c.blue = blue /\ c.within = fair
      /\ c.faster = Faster(red, blue)
      /\ c.class = CASE red = Null /\ blue = Null -> "unclassified"
                     [] fair -> "fair"
                     [] OTHER -> Faster(red, blue)
  BY DEF Classify
<1>2. red \in Nat /\ blue \in Nat
  BY NeverFact
<1>3. /\ red \in Times \cup {Null} /\ blue \in Times \cup {Null}
  BY HorizonAssumption DEF Null, Never, Times
<1>4. /\ red = blue => Faster(red, blue) = "none"
      /\ red < blue => Faster(red, blue) = "red"
      /\ red > blue => Faster(red, blue) = "blue"
  BY <1>2 DEF Faster
<1>5. fair <=> /\ red # Null /\ blue # Null /\ IsToleranceSatisfied(red, blue, tolerance)
  BY DEF IsToleranceSatisfied, IsScheduledToleranceSatisfied
<1>6. red = blue /\ red # Null => fair
  BY <1>2, EqualIsFair
<1> HIDE DEF c, fair
<1>7. Faster(red, blue) \in {"red", "blue", "none"} /\ fair \in BOOLEAN
  BY <1>2, <1>4 DEF fair
<1>8. /\ red = Null /\ blue = Null => c.class = "unclassified" /\ ~fair
      /\ fair => c.class = "fair"
      /\ ~fair /\ ~(red = Null /\ blue = Null) =>
           c.class = Faster(red, blue) /\ Faster(red, blue) # "none"
  BY <1>1, <1>2, <1>4, <1>6 DEF fair
<1>9. StationAreaTyped(c, inside)
  BY <1>1, <1>3, <1>7, <1>8 DEF StationAreaTyped
<1>10. DerivedAreaHolds(c, "ok", tolerance)
  BY <1>1, <1>2, <1>4, <1>5, <1>7, <1>8 DEF DerivedAreaHolds
<1> QED BY <1>9, <1>10 DEF c

LEMMA UnclassifiedHolds ==
  ASSUME NEW inside, NEW a \in inside, NEW tolerance \in Nat
  PROVE  /\ DerivedAreaHolds(Classify(a, Null, Null, tolerance), "no-result", tolerance)
         /\ StationAreaTyped(Classify(a, Null, Null, tolerance), inside)
<1>1. Null \in Nat /\ Null \in 0 .. Never /\ Faster(Null, Null) = "none"
  BY NeverFact DEF Null, Faster
<1>2. StationAreaTyped(Classify(a, Null, Null, tolerance), inside)
  BY <1>1, ClassifyHolds
<1>3. DerivedAreaHolds(Classify(a, Null, Null, tolerance), "no-result", tolerance)
  BY <1>1 DEF Classify, DerivedAreaHolds
<1> QED BY <1>2, <1>3

\* Whoever has access seeds reaches an area.
LEMMA ResultUnlessNoSeeds ==
  ASSUME MeetingInv, Routed
  PROVE  NoResult <=> NoAccessSeeds
<1>1. ASSUME NEW p \in {1, 2}, party[p] # {}
      PROVE  Reachable(p) # {}
  <2>1. PICK s \in party[p] : TRUE
    BY <1>1
  <2>2. s.area \in Areas /\ s.time \in Times
    BY PartyFacts DEF MeetingInv, Seeds
  <2>3. RouteHolds(routes[p], party[p])
    BY DEF MeetingInv, Routed
  <2>4. routes[p].arrival[s.area] <= s.time /\ routes[p].arrival[s.area] \in 0 .. Never
    BY <2>2, <2>3 DEF RouteHolds, Routes
  <2>5. routes[p].arrival[s.area] # Never
    BY <2>2, <2>4, HorizonAssumption DEF Never, Times
  <2> QED BY <2>2, <2>5 DEF Reachable
<1> QED BY <1>1 DEF NoResult, NoAccessSeeds

LEMMA CandidateHolds ==
  ASSUME MeetingInv, Routed, NEW inside \in SUBSET Areas, NEW a \in inside,
         NEW tolerance \in Nat
  PROVE  LET status == IF NoResult THEN "no-result" ELSE "ok" IN
         /\ Candidate(a, tolerance).area = a
         /\ DerivedAreaHolds(Candidate(a, tolerance), status, tolerance)
         /\ StationAreaTyped(Candidate(a, tolerance), inside)
<1>1. \A p \in {1, 2} : routes[p].arrival[a] \in 0 .. Never
  BY DEF MeetingInv, Routed, RouteHolds, Routes
<1>2. Candidate(a, tolerance).area = a
  BY DEF Candidate, Classify
<1>3. CASE NoResult
  BY <1>2, <1>3, UnclassifiedHolds DEF Candidate
<1>4. CASE ~NoResult
  BY <1>1, <1>2, <1>4, ClassifyHolds DEF Candidate
<1> QED BY <1>3, <1>4

LEMMA ResponseIsValid ==
  ASSUME MeetingInv, Routed, NEW inside \in SUBSET Areas, NEW tolerance \in Nat
  PROVE  ValidResponse(Response(tolerance, inside), tolerance, inside)
<1> DEFINE r == Response(tolerance, inside)
           catalog == Catalog(inside)
           status == IF NoResult THEN "no-result" ELSE "ok"
<1>1. /\ r.status = status
      /\ r.reason = CASE NoAccessSeeds -> "no-access-seeds"
                      [] ~NoAccessSeeds /\ NoResult -> "no-reachable-stations"
                      [] OTHER -> "none"
      /\ r.seeds = party
      /\ r.seedCounts = <<Cardinality(party[1]), Cardinality(party[2])>>
      /\ r.stationAreas = [i \in DOMAIN catalog |-> Candidate(catalog[i], tolerance)]
  BY DEF Response
<1> HIDE DEF r
<1>2. NoResult <=> NoAccessSeeds
  BY ResultUnlessNoSeeds
<1>3. /\ r.status \in {"ok", "no-result"}
      /\ r.status = "ok" <=> r.reason = "none"
  BY <1>1, <1>2
<1>4. \A p \in {1, 2} : SeedsHold(r.seeds[p])
  <2>1. \A p \in {1, 2} : party[p] \in SUBSET Seeds
    BY PartyFacts DEF MeetingInv
  <2> QED BY <1>1, <2>1 DEF SeedsHold, Seeds
<1>5. ReasonAgrees(r)
  <2>1. \A p \in {1, 2} : r.seedCounts[p] = Cardinality(r.seeds[p])
    BY <1>1
  <2>2. r.reason # "no-reachable-stations"
    BY <1>1, <1>2
  <2>3. r.status = "no-result" => \E p \in {1, 2} : r.seeds[p] = {}
    BY <1>1, <1>2 DEF NoAccessSeeds
  <2> QED BY <2>1, <2>2, <2>3 DEF ReasonAgrees
<1>6. StationAreasHold(r, tolerance, inside)
  <2>1. PICK n \in Nat : /\ catalog \in [1 .. n -> inside]
                         /\ \A i, k \in 1 .. n : catalog[i] = catalog[k] => i = k
    BY CatalogFacts
  <2> HIDE DEF catalog
  <2>2. /\ DOMAIN catalog = 1 .. n /\ DOMAIN r.stationAreas = 1 .. n
        /\ \A i \in 1 .. n : r.stationAreas[i] = Candidate(catalog[i], tolerance)
    BY <1>1, <2>1
  <2>3. \A i \in 1 .. n :
          /\ r.stationAreas[i].area = catalog[i]
          /\ DerivedAreaHolds(r.stationAreas[i], r.status, tolerance)
          /\ StationAreaTyped(r.stationAreas[i], inside)
    BY <1>1, <2>1, <2>2, CandidateHolds
  <2>4. Len(catalog) = n /\ Len(r.stationAreas) = n
    <3>1. catalog \in Seq(inside)
      BY <2>1
    <3>2. r.stationAreas \in Seq({r.stationAreas[i] : i \in 1 .. n})
      <4>1. r.stationAreas \in [1 .. n -> {r.stationAreas[i] : i \in 1 .. n}]
        BY <1>1, <2>2
      <4> QED BY <4>1
    <3> QED BY <2>2, <3>1, <3>2
  <2>5. Catalog(inside) = catalog
    BY DEF catalog
  <2> QED BY <2>1, <2>2, <2>3, <2>4, <2>5 DEF StationAreasHold
<1>7. ValidResponse(r, tolerance, inside)
  BY <1>3, <1>4, <1>5, <1>6 DEF ValidResponse
<1> QED BY <1>7 DEF r

\* Whatever the timetable, the access seeds, the tolerance and the boundary,
\* the surface of a calculation passes the validator that derives it again,
\* and there is a result unless a participant has no access seeds.
THEOREM SurfaceIsValid == MeetingSpec => []SurfacePassesValidation
<1>1. MeetingInv => SurfacePassesValidation
  BY ResponseIsValid, ResultUnlessNoSeeds, TolerancesAssumption
     DEF SurfacePassesValidation
<1> QED BY MeetingInvariance, <1>1, PTL

-------------------------------------------------------------------------------
(* The way back from an area.                                                 *)

LEMMA TableFacts ==
  ASSUME MeetingInv
  PROVE  /\ table \in Timetable /\ Chronological(table)
         /\ \A e \in Edges : ArrivalBy(e) \in Times
         /\ \A e \in Edges : e.kind # "seed" => Source(e) \in Areas
BY NetworkFacts DEF MeetingInv, Timetable, Edges, ArrivalBy, Source

LEMMA BeforeInAreas ==
  ASSUME MeetingInv, NEW route \in Routes, NEW a \in Areas
  PROVE  Before(route, a) \in Areas
<1>1. route.edge[a] \in Edges \cup {NoEdge}
  BY DEF Routes
<1> QED BY <1>1, TableFacts DEF Before

LEMMA BackFacts ==
  ASSUME MeetingInv, NEW route \in Routes, NEW target \in Areas
  PROVE  LET N == Cardinality(Areas) IN
         /\ N \in Nat /\ N >= 1
         /\ Back(route, target) \in [0 .. N -> Areas]
         /\ Back(route, target)[0] = target
         /\ \A n \in 1 .. N :
              Back(route, target)[n] = Before(route, Back(route, target)[n - 1])
<1> DEFINE N == Cardinality(Areas)
           Walk(m, f) == f[0] = target /\ \A i \in 1 .. m : f[i] = Before(route, f[i - 1])
           S == {m \in 0 .. N : \E f \in [0 .. m -> Areas] : Walk(m, f)}
           Is(f) == f = [n \in 0 .. N |-> IF n = 0 THEN target ELSE Before(route, f[n - 1])]
           b == Back(route, target)
<1>1. N \in Nat /\ N >= 1
  <2>1. N \in Nat /\ (N = 0 <=> Areas = {})
    BY AreasAssumption, FS_CardinalityType, FS_EmptySet
  <2> HIDE DEF N
  <2> QED BY <2>1
<1> HIDE DEF N
<1>2. 0 \in S
  <2>1. [i \in 0 .. 0 |-> target] \in [0 .. 0 -> Areas]
    OBVIOUS
  <2>2. Walk(0, [i \in 0 .. 0 |-> target])
    OBVIOUS
  <2>3. 0 \in 0 .. N
    BY <1>1
  <2> HIDE DEF Walk
  <2> QED BY <2>1, <2>2, <2>3
<1>3. ASSUME NEW m \in 1 .. N, m - 1 \in S PROVE m \in S
  <2>1. PICK f \in [0 .. m - 1 -> Areas] : Walk(m - 1, f)
    BY <1>3
  <2> DEFINE g == [i \in 0 .. m |-> IF i = m THEN Before(route, f[m - 1]) ELSE f[i]]
  <2>2. m - 1 \in 0 .. m - 1 /\ m \in Nat /\ m # 0
    BY <1>1
  <2>3. Before(route, f[m - 1]) \in Areas
    BY <2>2, BeforeInAreas
  <2>4. g \in [0 .. m -> Areas]
    BY <2>2, <2>3
  <2>5. g[0] = target
    BY <2>1, <2>2
  <2>6. ASSUME NEW i \in 1 .. m PROVE g[i] = Before(route, g[i - 1])
    <3>1. CASE i = m
      BY <3>1, <2>2
    <3>2. CASE i # m
      <4>1. i \in 1 .. m - 1 /\ i - 1 # m /\ i - 1 \in 0 .. m /\ i \in 0 .. m
        BY <2>2, <3>2
      <4>2. g[i] = f[i] /\ g[i - 1] = f[i - 1]
        BY <4>1, <3>2
      <4> QED BY <2>1, <4>1, <4>2
    <3> QED BY <3>1, <3>2
  <2>7. Walk(m, g)
    BY <2>5, <2>6
  <2> HIDE DEF g, Walk
  <2> QED BY <2>4, <2>7
<1>4. N \in S
  <2> HIDE DEF S
  <2>1. N \in 0 .. N
    BY <1>1
  <2> QED BY <1>1, <1>2, <1>3, <2>1, UpTo
<1>5. PICK f \in [0 .. N -> Areas] : Walk(N, f)
  BY <1>4
<1>6. Is(f)
  <2>1. \A i \in 0 .. N : i # 0 => i \in 1 .. N
    BY <1>1
  <2>2. \A i \in 0 .. N : f[i] = IF i = 0 THEN target ELSE Before(route, f[i - 1])
    BY <1>5, <2>1
  <2> QED BY <2>2
<1>7. b = CHOOSE h : Is(h)
  BY DEF Back, N
<1>8. Is(b)
  <2> HIDE DEF b, Is
  <2> QED BY <1>6, <1>7
<1>9. b[0] = target /\ \A n \in 1 .. N : b[n] = Before(route, b[n - 1])
  <2> HIDE DEF b
  <2>1. \A n \in 1 .. N : n \in 0 .. N /\ n # 0
    BY <1>1
  <2>2. 0 \in 0 .. N
    BY <1>1
  <2> QED BY <1>8, <2>1, <2>2
<1>10. \A n \in 0 .. N : n \in {k \in 0 .. N : b[k] \in Areas}
  <2> HIDE DEF b
  <2>1. 0 \in {k \in 0 .. N : b[k] \in Areas}
    BY <1>1, <1>9
  <2>2. ASSUME NEW n \in 1 .. N, n - 1 \in {k \in 0 .. N : b[k] \in Areas}
        PROVE  n \in {k \in 0 .. N : b[k] \in Areas}
    <3>1. b[n] \in Areas
      BY <1>9, <2>2, BeforeInAreas
    <3> QED BY <1>1, <3>1
  <2> QED BY <1>1, <2>1, <2>2, UpTo
<1>11. b \in [0 .. N -> Areas]
  <2> HIDE DEF b
  <2>1. b = [n \in 0 .. N |-> IF n = 0 THEN target ELSE Before(route, b[n - 1])]
    BY <1>8
  <2>2. \A n \in 0 .. N : b[n] \in Areas
    BY <1>10
  <2>3. DOMAIN b = 0 .. N /\ b = [n \in 0 .. N |-> b[n]]
    BY <2>1, Zenon
  <2> QED BY <2>2, <2>3
<1> QED BY <1>1, <1>9, <1>11 DEF N, b

\* What an edge says of the area it belongs to.
LEMMA EdgeFacts ==
  ASSUME MeetingInv, NEW route, NEW seeds, RouteHolds(route, seeds), NEW a \in Areas,
         route.edge[a] # NoEdge
  PROVE  /\ route.edge[a] \in Edges /\ route.arrival[a] \in Times
         /\ route.arrival[a] = ArrivalBy(route.edge[a])
         /\ route.edge[a].kind # "seed" =>
              /\ Before(route, a) = Source(route.edge[a])
              /\ Source(route.edge[a]) \in Areas
         /\ route.edge[a].kind = "walk" =>
              route.arrival[route.edge[a].from] <= route.edge[a].time
         /\ route.edge[a].kind # "seed" /\ Stopping =>
              route.arrival[Source(route.edge[a])] <= route.arrival[a]
<1>1. /\ route.edge[a] \in Edges /\ route.arrival[a] = ArrivalBy(route.edge[a])
      /\ route.edge[a].kind = "walk" =>
           route.arrival[route.edge[a].from] <= route.edge[a].time
      /\ route.edge[a].kind = "connection" /\ Stopping =>
           route.arrival[table.from[route.edge[a].row]]
             <= table.departure[route.edge[a].row]
      /\ route.arrival \in [Areas -> 0 .. Never]
  BY DEF RouteHolds, Routes
<1>2. route.arrival[a] \in Times
  BY <1>1, TableFacts
<1>3. route.edge[a].kind # "seed" =>
        /\ Before(route, a) = Source(route.edge[a])
        /\ Source(route.edge[a]) \in Areas
  BY <1>1, TableFacts DEF Before
<1>4. ASSUME route.edge[a].kind = "connection", Stopping
      PROVE  route.arrival[Source(route.edge[a])] <= route.arrival[a]
  <2> DEFINE row == route.edge[a].row
  <2>1. row \in Rows
    BY <1>1, <1>4 DEF Edges
  <2>2. /\ table.departure[row] <= table.arrival[row] /\ table.from[row] \in Areas
        /\ table.departure[row] \in Nat /\ table.arrival[row] \in Nat
    BY <2>1, RowFacts DEF MeetingInv, Times
  <2>3. Source(route.edge[a]) = table.from[row] /\ route.arrival[a] = table.arrival[row]
    BY <1>1, <1>4 DEF Source, ArrivalBy
  <2>4. route.arrival[table.from[row]] <= table.departure[row]
        /\ route.arrival[table.from[row]] \in Nat
    BY <1>1, <1>4, <2>2, NeverFact
  <2> HIDE DEF row
  <2> QED BY <2>2, <2>3, <2>4
<1>5. ASSUME route.edge[a].kind = "walk"
      PROVE  route.arrival[Source(route.edge[a])] <= route.arrival[a]
  BY <1>1, <1>5 DEF Source, ArrivalBy
<1> QED BY <1>1, <1>2, <1>3, <1>4, <1>5 DEF Edges

\* Where trips let passengers off at every stop, the way back ends at an
\* access seed: among the areas of a circle, those reached first would lead
\* round.
LEMMA WayBackEnds ==
  ASSUME MeetingInv, NEW route, NEW seeds, RouteHolds(route, seeds), Stopping,
         NEW target \in Areas, route.arrival[target] # Never
  PROVE  SeedDepths(route, target) # {}
<1> DEFINE N == Cardinality(Areas)
           b == Back(route, target)
           onWay == {n \in 0 .. N : route.edge[b[n]] # NoEdge}
<1>1. route \in Routes /\ NoRound(route)
  BY DEF RouteHolds
<1>2. /\ N \in Nat /\ b \in [0 .. N -> Areas] /\ b[0] = target
      /\ \A n \in 1 .. N : b[n] = Before(route, b[n - 1])
  BY <1>1, BackFacts
<1>3. SUFFICES ASSUME SeedDepths(route, target) = {} PROVE FALSE
  OBVIOUS
<1>4. \A n \in 0 .. N - 1 : route.edge[b[n]] # NoEdge => route.edge[b[n]].kind # "seed"
  BY <1>3 DEF SeedDepths
<1> HIDE DEF b, N
<1>5. \A a \in Areas : (route.edge[a] = NoEdge) <=> (route.arrival[a] = Never)
  BY DEF RouteHolds
<1>6. 0 \in onWay
  BY <1>2, <1>5
<1>7. ASSUME NEW n \in 1 .. N, n - 1 \in onWay
      PROVE  /\ n \in onWay
             /\ b[n] = Source(route.edge[b[n - 1]])
             /\ route.arrival[b[n]] <= route.arrival[b[n - 1]]
             /\ route.arrival[b[n - 1]] \in Times
  <2>1. /\ n - 1 \in 0 .. N - 1 /\ b[n - 1] \in Areas /\ n \in 0 .. N
        /\ route.edge[b[n - 1]] # NoEdge /\ route.edge[b[n - 1]].kind # "seed"
    BY <1>2, <1>4, <1>7
  <2>2. /\ b[n] = Source(route.edge[b[n - 1]]) /\ b[n] \in Areas
        /\ route.arrival[b[n]] <= route.arrival[b[n - 1]]
        /\ route.arrival[b[n - 1]] \in Times
    BY <1>2, <2>1, EdgeFacts
  <2>3. route.arrival[b[n]] # Never
    BY <2>2, HorizonAssumption DEF Never, Times
  <2> QED BY <1>5, <2>1, <2>2, <2>3
<1>8. \A n \in 0 .. N : n \in onWay
  <2> HIDE DEF onWay
  <2> QED BY <1>2, <1>6, <1>7, UpTo
<1>9. PICK i \in 0 .. N, k \in 0 .. N : i < k /\ b[i] = b[k]
  <2>1. IsFiniteSet(0 .. N) /\ Cardinality(0 .. N) = N + 1
    BY <1>2, FS_Interval
  <2>2. Cardinality(Areas) < Cardinality(0 .. N)
    BY <1>2, <2>1 DEF N
  <2>3. PICK x \in 0 .. N, y \in 0 .. N : x # y /\ b[x] = b[y]
    BY <1>2, <2>1, <2>2, AreasAssumption, FS_PigeonHole
  <2>4. x \in Nat /\ y \in Nat
    BY <1>2
  <2> QED BY <2>3, <2>4
<1> DEFINE circle == {b[n] : n \in i .. k - 1}
           times == {route.arrival[a] : a \in circle}
<1>10. ASSUME NEW a \in circle
       PROVE  /\ a \in Areas /\ Ridden(route, a) /\ route.arrival[a] \in Times
              /\ Source(route.edge[a]) \in circle
              /\ route.arrival[Source(route.edge[a])] <= route.arrival[a]
  <2>1. PICK n \in i .. k - 1 : a = b[n]
    OBVIOUS
  <2>2. n \in 0 .. N - 1 /\ n + 1 \in 1 .. N /\ (n + 1) - 1 = n
    BY <1>2
  <2>3. n \in onWay /\ (n + 1) - 1 \in onWay
    BY <1>2, <1>8, <2>2
  <2>4. /\ b[n + 1] = Source(route.edge[a])
        /\ route.arrival[b[n + 1]] <= route.arrival[a] /\ route.arrival[a] \in Times
    BY <1>7, <2>1, <2>2, <2>3
  <2>5. b[n + 1] \in circle
    <3>1. CASE n + 1 = k
      BY <1>2, <1>9, <3>1
    <3>2. CASE n + 1 # k
      <4>1. n + 1 \in i .. k - 1
        BY <1>2, <3>2
      <4> QED BY <4>1
    <3> QED BY <3>1, <3>2
  <2>6. a \in Areas /\ Ridden(route, a)
    BY <1>2, <1>4, <2>1, <2>2, <2>3 DEF Ridden
  <2> QED BY <2>4, <2>5, <2>6
<1>11. times \in SUBSET Nat /\ times # {}
  <2>1. b[i] \in circle
    BY <1>2, <1>9
  <2>2. \A a \in circle : route.arrival[a] \in Nat
    BY <1>10 DEF Times
  <2> HIDE DEF circle
  <2> QED BY <2>1, <2>2
<1>12. PICK m \in times : \A time \in times : m <= time
  <2> HIDE DEF times
  <2> QED BY <1>11, LeastOf
<1> DEFINE first == {a \in circle : route.arrival[a] = m}
<1> HIDE DEF circle
<1>13. m \in Times /\ first # {} /\ first \in SUBSET Areas
  BY <1>10
<1>14. ASSUME NEW a \in first PROVE Source(route.edge[a]) \in first
  <2> DEFINE s == Source(route.edge[a])
  <2>1. s \in circle /\ route.arrival[s] <= m
    BY <1>10
  <2>2. m <= route.arrival[s]
    BY <1>12, <2>1
  <2>3. m \in Nat /\ route.arrival[s] \in Nat
    BY <1>10, <1>13, <2>1 DEF Times
  <2> HIDE DEF s
  <2>4. route.arrival[s] = m
    BY <2>1, <2>2, <2>3
  <2> QED BY <2>1, <2>4 DEF s
<1>15. \A a \in first : route.arrival[a] = m /\ Ridden(route, a)
  BY <1>10
<1> HIDE DEF first
<1> QED BY <1>1, <1>13, <1>14, <1>15 DEF NoRound

\* The way back is as long as it takes to meet a seed.
LEMMA DepthFacts ==
  ASSUME MeetingInv, NEW route, NEW seeds, RouteHolds(route, seeds),
         NEW target \in Areas, SeedDepths(route, target) # {}
  PROVE  LET depth == CHOOSE n \in SeedDepths(route, target) :
                        \A m \in SeedDepths(route, target) : n <= m
             b == Back(route, target) IN
         /\ depth \in 0 .. Cardinality(Areas) - 1
         /\ \A k \in 0 .. depth : b[k] \in Areas /\ route.edge[b[k]] # NoEdge
         /\ route.edge[b[depth]].kind = "seed"
         /\ \A k \in 0 .. depth - 1 :
              /\ route.edge[b[k]].kind # "seed"
              /\ b[k + 1] = Source(route.edge[b[k]])
<1> DEFINE N == Cardinality(Areas)
           b == Back(route, target)
           D == SeedDepths(route, target)
           depth == CHOOSE n \in D : \A m \in D : n <= m
<1>1. /\ N \in Nat /\ N >= 1 /\ b \in [0 .. N -> Areas]
      /\ \A n \in 1 .. N : b[n] = Before(route, b[n - 1])
  BY BackFacts DEF RouteHolds
<1>2. \A n : n \in D <=> /\ n \in 0 .. N - 1
                         /\ route.edge[b[n]] # NoEdge /\ route.edge[b[n]].kind = "seed"
  BY DEF SeedDepths
<1> HIDE DEF N, b, D
<1>3. D \in SUBSET Nat
  BY <1>1, <1>2
<1>4. \E n \in D : \A m \in D : n <= m
  BY <1>3, LeastOf DEF D
<1>5. depth \in D /\ \A m \in D : depth <= m
  BY <1>4
<1> HIDE DEF depth
<1>6. /\ depth \in 0 .. N - 1 /\ depth \in Nat
      /\ route.edge[b[depth]] # NoEdge /\ route.edge[b[depth]].kind = "seed"
  BY <1>1, <1>2, <1>5
<1>7. ASSUME NEW k \in 0 .. depth PROVE b[k] \in Areas /\ k \in 0 .. N - 1
  BY <1>1, <1>6
<1>8. ASSUME NEW k \in 0 .. depth, route.edge[b[k]] = NoEdge PROVE FALSE
  <2> DEFINE S == {n \in 0 .. depth - k : b[k + n] = b[k]}
  <2>0. k \in Nat /\ depth - k \in Nat
    BY <1>6
  <2>1. 0 \in S
    BY <2>0
  <2>2. ASSUME NEW n \in 1 .. depth - k, n - 1 \in S PROVE n \in S
    <3>1. b[k + (n - 1)] = b[k]
      BY <2>2
    <3>2. k + n \in 1 .. N /\ (k + n) - 1 = k + (n - 1) /\ n \in 0 .. depth - k
      BY <1>1, <1>6, <2>0
    <3>3. b[k + n] = Before(route, b[k])
      BY <1>1, <3>1, <3>2
    <3>4. Before(route, b[k]) = b[k]
      BY <1>8 DEF Before
    <3> QED BY <3>2, <3>3, <3>4
  <2>3. depth - k \in S
    <3> HIDE DEF S
    <3>1. depth - k \in 0 .. depth - k
      BY <2>0
    <3> QED BY <2>0, <2>1, <2>2, <3>1, UpTo
  <2>4. k + (depth - k) = depth
    BY <1>6, <2>0
  <2>5. b[depth] = b[k]
    BY <2>3, <2>4
  <2> QED BY <1>6, <1>8, <2>5
<1>9. ASSUME NEW k \in 0 .. depth - 1
      PROVE  route.edge[b[k]].kind # "seed" /\ b[k + 1] = Source(route.edge[b[k]])
  <2>1. k \in 0 .. depth /\ k \in 0 .. N - 1 /\ k + 1 \in 1 .. N /\ (k + 1) - 1 = k
        /\ ~(depth <= k)
    BY <1>1, <1>6
  <2>2. route.edge[b[k]] # NoEdge
    BY <1>8, <2>1
  <2>3. route.edge[b[k]].kind # "seed"
    BY <1>2, <1>5, <2>1, <2>2
  <2>4. b[k + 1] = Before(route, b[k])
    BY <1>1, <2>1
  <2> QED BY <2>2, <2>3, <2>4 DEF Before
<1>10. /\ depth \in 0 .. N - 1
       /\ \A k \in 0 .. depth : b[k] \in Areas /\ route.edge[b[k]] # NoEdge
       /\ route.edge[b[depth]].kind = "seed"
       /\ \A k \in 0 .. depth - 1 :
            /\ route.edge[b[k]].kind # "seed"
            /\ b[k + 1] = Source(route.edge[b[k]])
  BY <1>6, <1>7, <1>8, <1>9
<1> QED BY <1>10 DEF N, b, D, depth

\* What buildItinerary returns: nothing if the way back meets no seed, and
\* otherwise legs that start with the search, end with the arrival of the area
\* and do not run backwards, and that follow one another where trips let
\* passengers off at every stop.
LEMMA ItineraryFacts ==
  ASSUME MeetingInv, NEW route, NEW seeds, RouteHolds(route, seeds),
         NEW target \in Areas, SeedDepths(route, target) # {}
  PROVE  LET legs == BuildItinerary(route, target) IN
         /\ legs # NoItinerary /\ LegsHold(legs)
         /\ legs[1].start = 0 /\ legs[Len(legs)].end = route.arrival[target]
         /\ Stopping => InOrder(legs)
<1> DEFINE b == Back(route, target)
           depth == CHOOSE n \in SeedDepths(route, target) :
                      \A m \in SeedDepths(route, target) : n <= m
           edgeOf(i) == route.edge[b[depth + 1 - i]]
           legs == [i \in 1 .. depth + 1 |->
                      [edge |-> edgeOf(i),
                       start |-> CASE edgeOf(i).kind = "seed" -> 0
                                   [] edgeOf(i).kind = "connection" ->
                                        table.departure[edgeOf(i).row]
                                   [] edgeOf(i).kind = "walk" ->
                                        ArrivalBy(edgeOf(i - 1)),
                       end |-> ArrivalBy(edgeOf(i))]]
<1>1. BuildItinerary(route, target) =
        IF legs[depth + 1].end - route.arrival[target] \in -1 .. 1
        THEN legs ELSE NoItinerary
  BY DEF BuildItinerary
<1>2. /\ depth \in Nat
      /\ \A k \in 0 .. depth : b[k] \in Areas /\ route.edge[b[k]] # NoEdge
      /\ route.edge[b[depth]].kind = "seed"
      /\ \A k \in 0 .. depth - 1 :
           /\ route.edge[b[k]].kind # "seed"
           /\ b[k + 1] = Source(route.edge[b[k]])
  BY DepthFacts
<1>3. b[0] = target
  BY BackFacts DEF RouteHolds
<1> HIDE DEF depth, b
<1>4. ASSUME NEW i \in 1 .. depth + 1
      PROVE  /\ legs[i].edge = edgeOf(i) /\ legs[i].end = ArrivalBy(edgeOf(i))
             /\ legs[i].start = CASE edgeOf(i).kind = "seed" -> 0
                                  [] edgeOf(i).kind = "connection" ->
                                       table.departure[edgeOf(i).row]
                                  [] edgeOf(i).kind = "walk" -> ArrivalBy(edgeOf(i - 1))
             /\ depth + 1 - i \in 0 .. depth
  <2>1. depth + 1 - i \in 0 .. depth
    BY <1>2
  <2> HIDE DEF edgeOf
  <2> QED BY <2>1
<1>5. DOMAIN legs = 1 .. depth + 1
  OBVIOUS
<1>6. Len(legs) = depth + 1
  <2>1. legs \in Seq({legs[i] : i \in 1 .. depth + 1})
    <3>1. legs \in [1 .. depth + 1 -> {legs[i] : i \in 1 .. depth + 1}]
      BY <1>5, Zenon
    <3> HIDE DEF legs
    <3> QED BY <1>2, <3>1
  <2> HIDE DEF legs
  <2> QED BY <1>2, <1>5, <2>1
<1> HIDE DEF legs
\* Every leg ends when its area is reached.
<1>7. ASSUME NEW i \in 1 .. depth + 1
      PROVE  /\ edgeOf(i) \in Edges /\ legs[i].end \in Times
             /\ legs[i].end = route.arrival[b[depth + 1 - i]]
  BY <1>2, <1>4, EdgeFacts
<1>8. ASSUME NEW i \in 2 .. depth + 1
      PROVE  /\ i - 1 \in 1 .. depth + 1
             /\ edgeOf(i).kind # "seed"
             /\ b[depth + 1 - (i - 1)] = Source(edgeOf(i))
             /\ legs[i - 1].end = route.arrival[Source(edgeOf(i))]
  <2>1. /\ i - 1 \in 1 .. depth + 1 /\ i \in 1 .. depth + 1
        /\ depth + 1 - i \in 0 .. depth - 1
        /\ (depth + 1 - i) + 1 = depth + 1 - (i - 1)
    BY <1>2
  <2>2. edgeOf(i).kind # "seed" /\ b[depth + 1 - (i - 1)] = Source(edgeOf(i))
    BY <1>2, <2>1
  <2>3. legs[i - 1].end = route.arrival[b[depth + 1 - (i - 1)]]
    BY <1>7, <2>1
  <2> QED BY <2>1, <2>2, <2>3
<1>9. legs[1].start = 0
  <2>1. 1 \in 1 .. depth + 1 /\ depth + 1 - 1 = depth
    BY <1>2
  <2>2. edgeOf(1).kind = "seed"
    BY <1>2, <2>1
  <2> HIDE DEF edgeOf
  <2> QED BY <1>4, <2>1, <2>2
<1>10. legs[depth + 1].end = route.arrival[target]
  <2>1. depth + 1 \in 1 .. depth + 1 /\ depth + 1 - (depth + 1) = 0
    BY <1>2
  <2> QED BY <1>3, <1>7, <2>1
<1>11. BuildItinerary(route, target) = legs /\ legs # NoItinerary
  <2>1. depth + 1 \in 1 .. depth + 1
    BY <1>2
  <2>2. legs[depth + 1].end \in Nat
    BY <1>7, <2>1 DEF Times
  <2>3. legs[depth + 1].end - route.arrival[target] \in -1 .. 1
    BY <1>10, <2>2
  <2>4. legs # NoItinerary
    <3>1. DOMAIN NoItinerary = {}
      BY DEF NoItinerary
    <3> QED BY <1>5, <2>1, <3>1
  <2> QED BY <1>1, <2>3, <2>4
<1>12. ASSUME NEW i \in 1 .. depth + 1
       PROVE  /\ legs[i].start <= legs[i].end
              /\ i # 1 /\ Stopping => legs[i - 1].end <= legs[i].start
  <2>1. CASE i = 1
    BY <1>7, <1>9, <2>1 DEF Times
  <2>2. CASE i # 1
    <3>1. /\ i \in 2 .. depth + 1 /\ i - 1 \in 1 .. depth + 1
          /\ depth + 1 - i \in 0 .. depth
      BY <1>2, <2>2
    <3>2. /\ edgeOf(i).kind # "seed" /\ edgeOf(i) \in Edges
          /\ edgeOf(i - 1) = route.edge[Source(edgeOf(i))]
          /\ legs[i - 1].end = route.arrival[Source(edgeOf(i))]
      BY <1>7, <1>8, <3>1
    <3>3. CASE edgeOf(i).kind = "connection"
      <4> DEFINE row == edgeOf(i).row
      <4>1. row \in Rows
        BY <3>2, <3>3 DEF Edges
      <4>2. legs[i].start = table.departure[row] /\ legs[i].end = table.arrival[row]
        <5> HIDE DEF edgeOf
        <5> QED BY <1>4, <3>3 DEF ArrivalBy
      <4>3. table.departure[row] <= table.arrival[row]
        BY <4>1, RowFacts DEF MeetingInv
      <4>4. Stopping => route.arrival[table.from[row]] <= table.departure[row]
        <5>1. b[depth + 1 - i] \in Areas /\ route.edge[b[depth + 1 - i]] # NoEdge
          BY <1>2, <3>1
        <5> QED BY <3>3, <5>1 DEF RouteHolds
      <4>5. Source(edgeOf(i)) = table.from[row]
        BY <3>3 DEF Source
      <4> HIDE DEF row, edgeOf
      <4> QED BY <3>2, <4>2, <4>3, <4>4, <4>5
    <3>4. CASE edgeOf(i).kind = "walk"
      <4>1. legs[i].start = legs[i - 1].end
        <5>1. legs[i - 1].end = ArrivalBy(edgeOf(i - 1))
          BY <1>4, <3>1
        <5>2. legs[i].start = ArrivalBy(edgeOf(i - 1))
          <6> HIDE DEF edgeOf
          <6> QED BY <1>4, <3>4
        <5> QED BY <5>1, <5>2
      <4>2. legs[i].end = edgeOf(i).time
        <5> HIDE DEF edgeOf
        <5> QED BY <1>4, <3>4 DEF ArrivalBy
      <4>3. route.arrival[edgeOf(i).from] <= edgeOf(i).time
        BY <1>2, <3>1, <3>4, EdgeFacts
      <4>4. Source(edgeOf(i)) = edgeOf(i).from
        BY <3>4 DEF Source
      <4>5. legs[i - 1].end \in Nat
        BY <1>7, <3>1 DEF Times
      <4> HIDE DEF edgeOf
      <4> QED BY <3>2, <4>1, <4>2, <4>3, <4>4, <4>5
    <3> HIDE DEF edgeOf
    <3> QED BY <3>2, <3>3, <3>4 DEF Edges
  <2> QED BY <2>1, <2>2
<1>13. LegsHold(legs)
  BY <1>5, <1>12 DEF LegsHold
<1>14. ASSUME Stopping PROVE InOrder(legs)
  <2>1. ASSUME NEW i \in 1 .. depth PROVE legs[i].end <= legs[i + 1].start
    <3>1. i + 1 \in 1 .. depth + 1 /\ i + 1 # 1 /\ (i + 1) - 1 = i
      BY <1>2
    <3>2. legs[(i + 1) - 1].end <= legs[i + 1].start
      BY <1>12, <1>14, <3>1
    <3> QED BY <3>1, <3>2
  <2>2. (depth + 1) - 1 = depth
    BY <1>2
  <2> QED BY <1>6, <1>12, <2>1, <2>2 DEF InOrder
<1> QED BY <1>6, <1>9, <1>10, <1>11, <1>13, <1>14

-------------------------------------------------------------------------------
(* Details are served.                                                        *)

\* The details validator derives the class of a marker as the surface does.
LEMMA ClassifyBinds ==
  ASSUME NEW a, NEW red \in 0 .. Never, NEW blue \in 0 .. Never, NEW tolerance \in Nat
  PROVE  LET c == Classify(a, red, blue, tolerance) IN
         /\ c.area = a /\ c.red = red /\ c.blue = blue
         /\ c.class = "unclassified" <=> red = Null /\ blue = Null
         /\ red = Null /\ blue = Null => c.faster = "none" /\ ~c.within
         /\ <<c.class, c.faster, c.within>> = DerivedMarker(red, blue, tolerance)
<1> DEFINE c == Classify(a, red, blue, tolerance)
           fair == /\ red # Null /\ blue # Null
                   /\ IsScheduledToleranceSatisfied(red, blue, tolerance)
<1>1. /\ c.area = a /\ c.red = red /\ c.blue = blue /\ c.within = fair
      /\ c.faster = Faster(red, blue)
      /\ c.class = CASE red = Null /\ blue = Null -> "unclassified"
                     [] fair -> "fair"
                     [] OTHER -> Faster(red, blue)
  BY DEF Classify
<1>2. red \in Nat /\ blue \in Nat /\ red <= Null /\ blue <= Null /\ Null \in Nat
  BY NeverFact DEF Null
<1>3. /\ red = blue => Faster(red, blue) = "none"
      /\ red < blue => Faster(red, blue) = "red"
      /\ red > blue => Faster(red, blue) = "blue"
  BY <1>2 DEF Faster
<1>4. red = blue => IsScheduledToleranceSatisfied(red, blue, tolerance)
  BY <1>2, EqualIsFair
<1> HIDE DEF c
<1>5. c.class = "unclassified" <=> red = Null /\ blue = Null
  BY <1>1, <1>2, <1>3, <1>4
<1>6. red = Null /\ blue = Null => c.faster = "none" /\ ~c.within
  BY <1>1, <1>3
<1>7. <<c.class, c.faster, c.within>> = DerivedMarker(red, blue, tolerance)
  <2>1. CASE red = Null /\ blue = Null
    <3>1. DerivedMarker(red, blue, tolerance) = <<"unclassified", "none", FALSE>>
      BY <2>1 DEF DerivedMarker
    <3>2. c.class = "unclassified" /\ c.faster = "none" /\ c.within = FALSE
      BY <1>1, <1>3, <2>1
    <3> QED BY <3>1, <3>2
  <2>2. CASE red = Null /\ blue # Null
    <3>1. DerivedMarker(red, blue, tolerance) = <<"blue", "blue", FALSE>>
      BY <2>2 DEF DerivedMarker
    <3>2. c.class = "blue" /\ c.faster = "blue" /\ c.within = FALSE
      BY <1>1, <1>2, <1>3, <2>2
    <3> QED BY <3>1, <3>2
  <2>3. CASE red # Null /\ blue = Null
    <3>1. DerivedMarker(red, blue, tolerance) = <<"red", "red", FALSE>>
      BY <2>3 DEF DerivedMarker
    <3>2. c.class = "red" /\ c.faster = "red" /\ c.within = FALSE
      BY <1>1, <1>2, <1>3, <2>3
    <3> QED BY <3>1, <3>2
  <2>4. CASE red # Null /\ blue # Null
    <3> DEFINE sooner == IF red < blue THEN "red" ELSE "blue"
               within == IsScheduledToleranceSatisfied(red, blue, tolerance)
    <3>1. DerivedMarker(red, blue, tolerance) =
            <<IF within THEN "fair" ELSE sooner, IF red = blue THEN "none" ELSE sooner,
              within>>
      BY <2>4 DEF DerivedMarker
    <3>2. c.within = within
      <4>1. within \in BOOLEAN
        BY <1>2 DEF IsScheduledToleranceSatisfied
      <4>2. (fair <=> within) /\ fair \in BOOLEAN
        BY <2>4
      <4>3. c.within = fair
        BY <1>1
      <4> HIDE DEF fair, within
      <4> QED BY <4>1, <4>2, <4>3
    <3>3. c.faster = IF red = blue THEN "none" ELSE sooner
      BY <1>1, <1>2, <1>3
    <3>4. c.class = IF within THEN "fair" ELSE sooner
      <4> HIDE DEF within
      <4>1. fair <=> within
        BY <2>4 DEF within
      <4>2. red = blue => within
        BY <1>4 DEF within
      <4> HIDE DEF fair
      <4> QED BY <1>1, <1>2, <1>3, <2>4, <4>1, <4>2
    <3> HIDE DEF sooner, within
    <3> QED BY <3>1, <3>2, <3>3, <3>4
  <2> QED BY <2>1, <2>2, <2>3, <2>4
<1> QED BY <1>1, <1>5, <1>6, <1>7 DEF c

\* The details of a marker are answered 200 unless a participant who reaches
\* the area has no itinerary there.
LEMMA AnswerIsServed ==
  ASSUME MeetingInv, Routed, NEW a \in Areas, NEW tolerance \in Nat
  PROVE  LET marker == Candidate(a, tolerance) IN
         Answer(marker, Response(tolerance, Areas), tolerance) = 200 <=>
           \A p \in {1, 2} :
             marker[Colors[p]] # Null => ItineraryOf(p, marker.area) # NoItinerary
<1> DEFINE marker == Candidate(a, tolerance)
           response == Response(tolerance, Areas)
           status == response.status
           reason == response.reason
           plain == UnavailableDetail(marker, response)
           full == Detail(marker, response)
           total(p) == marker[Colors[p]]
           legs(p) == ItineraryOf(p, a)
<1>1. /\ status = IF NoResult THEN "no-result" ELSE "ok"
      /\ status = "ok" <=> reason = "none"
  BY ResultUnlessNoSeeds DEF Response
<1>2. \A p \in {1, 2} : RouteHolds(routes[p], party[p])
  BY DEF MeetingInv, Routed
<1>3. Null \in 0 .. Never /\ \A p \in {1, 2} : routes[p].arrival[a] \in 0 .. Never
  BY <1>2, NeverFact DEF RouteHolds, Routes, Null
<1>4. /\ marker.area = a
      /\ marker.class = "unclassified" <=> marker.red = Null /\ marker.blue = Null
      /\ marker.red = Null /\ marker.blue = Null =>
           marker.faster = "none" /\ ~marker.within
      /\ <<marker.class, marker.faster, marker.within>> =
           DerivedMarker(marker.red, marker.blue, tolerance)
      /\ NoResult => marker.red = Null /\ marker.blue = Null
      /\ ~NoResult => /\ marker.red = routes[1].arrival[a]
                      /\ marker.blue = routes[2].arrival[a]
  BY <1>3, ClassifyBinds DEF Candidate
<1>5. total(1) = marker.red /\ total(2) = marker.blue
  BY DEF Colors
<1>6. \A p \in {1, 2} : ~NoResult => total(p) = routes[p].arrival[a]
  BY <1>4, <1>5
<1>7. MarkerHolds(marker) /\ MarkerBinds(marker, status, tolerance)
  BY <1>1, <1>4 DEF MarkerHolds, MarkerBinds
<1>8. LegsHold(NoItinerary)
  BY DEF LegsHold, NoItinerary
<1>9. /\ plain.status = status /\ plain.reason = reason /\ plain.marker = marker
      /\ full.status = status /\ full.reason = reason /\ full.marker = marker
      /\ \A p \in {1, 2} :
           /\ plain.participants[p] =
                Unavailable(IF status = "no-result" THEN reason
                            ELSE "station-area-unclassified")
           /\ full.participants[p] = DetailParticipant(p, marker, response)
  BY DEF UnavailableDetail, Detail, DetailOf
<1>10. \A r : Unavailable(r).itinerary = NoItinerary
  BY DEF Unavailable
<1> HIDE DEF marker, response, plain, full
<1>11. CASE status = "no-result" \/ marker.class = "unclassified"
  <2>1. marker.red = Null /\ marker.blue = Null /\ marker.class = "unclassified"
    BY <1>1, <1>4, <1>11
  <2>2. \A p \in {1, 2} : total(p) = Null
    BY <1>5, <2>1
  <2>3. ASSUME NEW p \in {1, 2}
        PROVE  /\ LegsHold(plain.participants[p].itinerary)
               /\ ParticipantBinds(plain.participants[p], total(p), plain)
    <3>1. LegsHold(plain.participants[p].itinerary)
      BY <1>8, <1>9, <1>10
    <3>2. plain.participants[p] = Unavailable(
            CASE plain.status = "no-result" -> plain.reason
              [] plain.status # "no-result" /\ plain.marker.class = "unclassified" ->
                   "station-area-unclassified"
              [] OTHER -> "station-area-unavailable-for-participant")
      BY <1>9, <2>1
    <3> HIDE DEF total
    <3> QED BY <2>2, <3>1, <3>2 DEF ParticipantBinds
  <2>4. ValidDetail(plain, tolerance)
    BY <1>1, <1>7, <1>9, <2>3 DEF ValidDetail
  <2>5. Answer(marker, response, tolerance) = 200
    BY <1>11, <2>4 DEF Answer, plain
  <2> QED BY <2>2, <2>5 DEF marker, response
<1>12. CASE ~(status = "no-result" \/ marker.class = "unclassified")
  <2>1. ~NoResult /\ status = "ok"
    BY <1>1, <1>12
  <2>2. ASSUME NEW p \in {1, 2}, total(p) = Null
        PROVE  /\ LegsHold(full.participants[p].itinerary)
               /\ ParticipantBinds(full.participants[p], total(p), full)
    <3>1. full.participants[p] = Unavailable("station-area-unavailable-for-participant")
      BY <1>9, <1>12, <2>1, <2>2 DEF DetailParticipant
    <3> HIDE DEF total
    <3> QED BY <1>8, <1>9, <1>10, <1>12, <2>2, <3>1 DEF ParticipantBinds
  <2>3. ASSUME NEW p \in {1, 2}, total(p) # Null
        PROVE  /\ LegsHold(full.participants[p].itinerary)
               /\ ParticipantBinds(full.participants[p], total(p), full)
                    <=> legs(p) # NoItinerary
    <3>1. full.participants[p] = [status |-> "available", reason |-> "none",
                                  total |-> total(p), itinerary |-> legs(p)]
      BY <1>4, <1>9, <2>3 DEF DetailParticipant
    <3>2. CASE SeedDepths(routes[p], a) = {}
      <4>1. legs(p) = NoItinerary
        BY <3>2 DEF ItineraryOf, BuildItinerary
      <4> HIDE DEF total, legs
      <4> QED BY <1>8, <2>3, <3>1, <4>1 DEF ParticipantBinds
    <3>3. CASE SeedDepths(routes[p], a) # {}
      <4>1. /\ legs(p) # NoItinerary /\ LegsHold(legs(p))
            /\ legs(p)[1].start = 0
            /\ legs(p)[Len(legs(p))].end = routes[p].arrival[a]
        BY <1>2, <3>3, ItineraryFacts DEF ItineraryOf
      <4>2. total(p) = routes[p].arrival[a] /\ total(p) \in Nat
        BY <1>3, <1>6, <2>1, NeverFact
      <4>3. legs(p)[Len(legs(p))].end - total(p) \in -1 .. 1
        <5> HIDE DEF total, legs
        <5> QED BY <4>1, <4>2
      <4> HIDE DEF total, legs
      <4> QED BY <2>3, <3>1, <4>1, <4>3 DEF ParticipantBinds
    <3> QED BY <3>2, <3>3
  <2>4. ValidDetail(full, tolerance) <=>
          \A p \in {1, 2} : /\ LegsHold(full.participants[p].itinerary)
                            /\ ParticipantBinds(full.participants[p], total(p), full)
    BY <1>1, <1>7, <1>9 DEF ValidDetail
  <2>5. ValidDetail(full, tolerance) <=>
          \A p \in {1, 2} : total(p) # Null => legs(p) # NoItinerary
    <3> HIDE DEF total, legs
    <3> QED BY <2>2, <2>3, <2>4
  <2>6. Answer(marker, response, tolerance) = 200 <=> ValidDetail(full, tolerance)
    BY <1>12 DEF Answer, full
  <2> QED BY <1>4, <2>5, <2>6 DEF marker, response
<1> QED BY <1>11, <1>12

\* Whatever marker is opened, its details are answered unless a participant
\* reaches the area by edges that lead round in a circle; and no timetable whose
\* trips let passengers off at every stop has such edges, or legs that are out
\* of order.
THEOREM DetailsServed == MeetingSpec => []DetailsAreServed
<1>1. ASSUME MeetingInv, Routed, NEW tolerance \in Tolerances
      PROVE  LET response == Response(tolerance, Areas) IN
             \A i \in DOMAIN response.stationAreas :
               LET marker == response.stationAreas[i]
                   reached == {p \in {1, 2} : marker[Colors[p]] # Null} IN
               /\ (Answer(marker, response, tolerance) = 200) <=>
                    \A p \in reached : ItineraryOf(p, marker.area) # NoItinerary
               /\ Stopping => \A p \in reached :
                    /\ ItineraryOf(p, marker.area) # NoItinerary
                    /\ InOrder(ItineraryOf(p, marker.area))
  <2> DEFINE response == Response(tolerance, Areas)
  <2>1. tolerance \in Nat
    BY TolerancesAssumption
  <2>2. SUFFICES ASSUME NEW i \in DOMAIN response.stationAreas
                 PROVE  LET marker == response.stationAreas[i]
                            reached == {p \in {1, 2} : marker[Colors[p]] # Null} IN
                        /\ (Answer(marker, response, tolerance) = 200) <=>
                             \A p \in reached : ItineraryOf(p, marker.area) # NoItinerary
                        /\ Stopping => \A p \in reached :
                             /\ ItineraryOf(p, marker.area) # NoItinerary
                             /\ InOrder(ItineraryOf(p, marker.area))
    OBVIOUS
  <2> DEFINE a == Catalog(Areas)[i]
             marker == response.stationAreas[i]
  <2>3. marker = Candidate(a, tolerance) /\ i \in DOMAIN Catalog(Areas)
    BY DEF Response
  <2>4. a \in Areas
    BY <2>3, CatalogFacts
  <2> HIDE DEF a
  <2>5. Answer(marker, response, tolerance) = 200 <=>
          \A p \in {1, 2} :
            marker[Colors[p]] # Null => ItineraryOf(p, marker.area) # NoItinerary
    BY <1>1, <2>1, <2>3, <2>4, AnswerIsServed
  <2>6. ASSUME Stopping, NEW p \in {1, 2}, marker[Colors[p]] # Null
        PROVE  /\ ItineraryOf(p, marker.area) # NoItinerary
               /\ InOrder(ItineraryOf(p, marker.area))
    <3>1. RouteHolds(routes[p], party[p])
      BY <1>1 DEF MeetingInv, Routed
    <3>2. marker.area = a /\ routes[p].arrival[a] # Never
      BY <2>3, <2>6 DEF Candidate, Classify, Colors, Null
    <3>3. SeedDepths(routes[p], a) # {}
      BY <1>1, <2>4, <2>6, <3>1, <3>2, WayBackEnds
    <3> QED BY <1>1, <2>4, <2>6, <3>1, <3>2, <3>3, ItineraryFacts DEF ItineraryOf
  <2> HIDE DEF response
  <2> QED BY <2>5, <2>6
<1>2. MeetingInv => DetailsAreServed
  BY <1>1 DEF DetailsAreServed
<1> QED BY MeetingInvariance, <1>2, PTL

===============================================================================
