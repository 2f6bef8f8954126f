---------------------------- MODULE ProvidersProofs ----------------------------
(***************************************************************************)
(* Proofs about Providers: the MVG limiter for any lookups, signals and    *)
(* places; the reading of the configuration for any settings and while the *)
(* tools write its files; the pages of an OTP answer for any listing.      *)
(***************************************************************************)
EXTENDS Providers, FiniteSetTheorems, SequenceTheorems, WellFoundedInduction,
        TLAPS

-------------------------------------------------------------------------------
(* The places of a sequence, without some of them.                         *)

\* A nonempty set of numbers has a least one.
LEMMA LeastOf ==
  ASSUME NEW S \in SUBSET Nat, S # {}
  PROVE  \E m \in S : \A i \in S : m <= i
<1>1. PICK m \in S : \A i \in S : ~(<<i, m>> \in OpToRel(<, Nat))
  BY NatLessThanWellFounded, WFMin
<1>2. \A i \in S : <<i, m>> \in OpToRel(<, Nat) <=> i < m
  BY DEF OpToRel
<1>3. \A i \in S : ~(i < m)
  BY <1>1, <1>2, Zenon
<1> QED BY <1>3

\* A nonempty set of numbers up to n has a greatest one.
LEMMA GreatestOf ==
  ASSUME NEW n \in Nat, NEW S \in SUBSET (1 .. n), S # {}
  PROVE  \E m \in S : \A i \in S : i <= m
<1> DEFINE bounds == {b \in Nat : \A i \in S : i <= b}
<1>1. PICK m \in bounds : \A b \in bounds : m <= b
  <2>1. n \in bounds /\ bounds \in SUBSET Nat
    OBVIOUS
  <2> HIDE DEF bounds
  <2> QED BY <2>1, LeastOf
<1>2. m \in S
  <2>1. SUFFICES ASSUME m \notin S PROVE FALSE
    OBVIOUS
  <2>2. \A i \in S : i <= m - 1
    BY <2>1
  <2>3. m - 1 \in Nat
    <3>1. PICK i \in S : TRUE
      OBVIOUS
    <3>2. i \in Nat /\ 1 <= i /\ i <= m - 1 /\ m \in Nat
      BY <2>2, <3>1
    <3> QED BY <3>2
  <2>4. m - 1 \in bounds
    BY <2>2, <2>3
  <2> QED BY <1>1, <2>4
<1> QED BY <1>2

\* The members of a set of numbers that are smaller than i.
Below(S, i) == {h \in S : h < i}

\* The members of a finite set of numbers can be counted in their order.
LEMMA Counted ==
  ASSUME NEW n \in Nat, NEW S \in SUBSET (1 .. n)
  PROVE  /\ IsFiniteSet(S) /\ Cardinality(S) \in Nat
         /\ \A i \in S : Cardinality(Below(S, i)) \in 0 .. Cardinality(S) - 1
         /\ \A i, h \in S :
              i < h => Cardinality(Below(S, i)) < Cardinality(Below(S, h))
         /\ \A m \in 0 .. Cardinality(S) - 1 :
              \E i \in S : Cardinality(Below(S, i)) = m
<1>1. IsFiniteSet(S) /\ Cardinality(S) \in Nat
  <2>1. IsFiniteSet(1 .. n)
    BY FS_Interval
  <2> QED BY <2>1, FS_Subset, FS_CardinalityType
<1>2. \A i \in S : i \in Nat
  OBVIOUS
<1>3. ASSUME NEW i \in S
      PROVE  /\ IsFiniteSet(Below(S, i)) /\ Cardinality(Below(S, i)) \in Nat
             /\ Cardinality(Below(S, i)) <= Cardinality(S) - 1
  <2>1. Below(S, i) \subseteq S \ {i}
    BY <1>2 DEF Below
  <2>2. IsFiniteSet(S \ {i}) /\ Cardinality(S \ {i}) = Cardinality(S) - 1
    BY <1>1, FS_RemoveElement
  <2>3. /\ IsFiniteSet(Below(S, i))
        /\ Cardinality(Below(S, i)) <= Cardinality(S \ {i})
    BY <2>1, <2>2, FS_Subset
  <2> QED BY <2>2, <2>3, FS_CardinalityType
<1>4. ASSUME NEW i \in S, NEW h \in S, i < h
      PROVE  Cardinality(Below(S, i)) < Cardinality(Below(S, h))
  <2>1. i \notin Below(S, i) /\ Below(S, i) \cup {i} \subseteq Below(S, h)
    <3>1. i \in Nat /\ h \in Nat
      BY <1>2
    <3>2. ASSUME NEW g \in Below(S, i) PROVE g \in Below(S, h)
      <4>1. g \in S /\ g < i /\ g \in Nat
        BY <1>2 DEF Below
      <4>2. g < h
        BY <1>4, <3>1, <4>1
      <4> QED BY <4>1, <4>2 DEF Below
    <3>3. i \in Below(S, h)
      BY <1>4 DEF Below
    <3>4. i \notin Below(S, i)
      BY <3>1 DEF Below
    <3> QED BY <3>2, <3>3, <3>4
  <2>2. Cardinality(Below(S, i) \cup {i}) = Cardinality(Below(S, i)) + 1
    BY <1>3, <2>1, FS_AddElement
  <2>3. Cardinality(Below(S, i) \cup {i}) <= Cardinality(Below(S, h))
    BY <1>3, <2>1, FS_Subset
  <2> QED BY <1>3, <2>2, <2>3
<1>5. ASSUME NEW m \in 0 .. Cardinality(S) - 1
      PROVE  \E i \in S : Cardinality(Below(S, i)) = m
  <2> DEFINE high == {i \in S : Cardinality(Below(S, i)) >= m}
  <2>1. high # {}
    <3>1. S # {}
      <4>1. Cardinality(S) # 0
        BY <1>1
      <4> QED BY <4>1, FS_EmptySet
    <3>2. PICK g \in S : \A i \in S : i <= g
      BY <3>1, GreatestOf
    <3>3. Below(S, g) = S \ {g}
      <4>1. ASSUME NEW i \in S, i # g PROVE i < g
        <5>1. i \in Nat /\ g \in Nat /\ i <= g
          BY <1>2, <3>2
        <5> QED BY <4>1, <5>1
      <4>2. g \in Nat /\ g \notin Below(S, g)
        BY <1>2 DEF Below
      <4>3. ASSUME NEW i \in S, i # g PROVE i \in Below(S, g)
        BY <4>1, <4>3 DEF Below
      <4>4. Below(S, g) \subseteq S
        BY DEF Below
      <4> QED BY <4>2, <4>3, <4>4
    <3>4. Cardinality(Below(S, g)) = Cardinality(S) - 1
      BY <1>1, <3>3, FS_RemoveElement
    <3>5. g \in high
      BY <1>1, <3>4
    <3> QED BY <3>5
  <2>2. high \in SUBSET Nat
    BY <1>2
  <2>3. PICK i \in high : \A h \in high : i <= h
    <3> HIDE DEF high
    <3> QED BY <2>1, <2>2, LeastOf
  <2>4. CASE Below(S, i) = {}
    <3>1. Cardinality(Below(S, i)) = 0
      BY <2>4, FS_EmptySet
    <3> QED BY <2>3, <3>1
  <2>5. CASE Below(S, i) # {}
    <3>1. Below(S, i) \in SUBSET (1 .. n)
      BY DEF Below
    <3>2. PICK p \in Below(S, i) : \A h \in Below(S, i) : h <= p
      BY <2>5, <3>1, GreatestOf
    <3>3. p \in S /\ p < i
      BY DEF Below
    <3>4. Below(S, i) = Below(S, p) \cup {p} /\ p \notin Below(S, p)
      <4>1. ASSUME NEW h \in Below(S, i), h # p PROVE h \in Below(S, p)
        <5>1. h \in S /\ h <= p /\ h \in Nat /\ p \in Nat
          BY <1>2, <3>2, <3>3 DEF Below
        <5> QED BY <4>1, <5>1 DEF Below
      <4>2. ASSUME NEW h \in Below(S, p) PROVE h \in Below(S, i)
        <5>1. h \in S /\ h < p /\ p < i /\ h \in Nat /\ p \in Nat /\ i \in Nat
          BY <1>2, <3>3 DEF Below
        <5>2. h < i
          BY <5>1
        <5> QED BY <5>1, <5>2 DEF Below
      <4>3. p \in Nat /\ p \notin Below(S, p) /\ p \in Below(S, i)
        BY <1>2, <3>3 DEF Below
      <4> QED BY <4>1, <4>2, <4>3
    <3>5. Cardinality(Below(S, i)) = Cardinality(Below(S, p)) + 1
      BY <1>3, <3>3, <3>4, FS_AddElement
    <3>6. ~(Cardinality(Below(S, p)) >= m)
      <4>1. ~(i <= p)
        BY <1>2, <3>3
      <4>2. p \notin high
        BY <2>3, <4>1
      <4> QED BY <3>3, <4>2
    <3>7. /\ Cardinality(Below(S, i)) >= m /\ i \in S
          /\ Cardinality(Below(S, p)) \in Nat /\ m \in Nat
      BY <1>1, <1>3, <2>3, <3>3
    <3>8. Cardinality(Below(S, i)) = m
      BY <3>5, <3>6, <3>7
    <3> QED BY <3>7, <3>8
  <2> QED BY <2>4, <2>5
<1> QED BY <1>1, <1>3, <1>4, <1>5

\* A sequence `rest` holds what stands at some places of another, in its order:
\* `at` leads from the places of the rest to those they had.
Thins(all, stay, rest, at) ==
  /\ at \in [DOMAIN rest -> stay]
  /\ \A n, m \in DOMAIN rest : n < m => at[n] < at[m]
  /\ \A i \in stay : \E n \in DOMAIN rest : at[n] = i
  /\ \A n \in DOMAIN rest : rest[n] = all[at[n]]

\* The queue without the lookups of a signal is what is left of it.
LEMMA QueueThins ==
  ASSUME TypeOK, NEW s
  PROVE  LET stay == {i \in DOMAIN queue : SignalOf[queue[i]] # s}
         IN  /\ QueueWithout(s) \in Seq(Lookups)
             /\ \E at : Thins(queue, stay, QueueWithout(s), at)
<1> DEFINE stay == {i \in DOMAIN queue : SignalOf[queue[i]] # s}
           count == Cardinality(stay)
           At(n) == CHOOSE i \in stay : Cardinality({h \in stay : h < i}) = n - 1
           rest == [n \in 1 .. count |-> queue[At(n)]]
           at == [n \in 1 .. count |-> At(n)]
<1>1. queue \in Seq(Lookups) /\ DOMAIN queue = 1 .. Len(queue)
      /\ Len(queue) \in Nat
  BY DEF TypeOK
<1>2. stay \in SUBSET (1 .. Len(queue)) /\ stay \subseteq DOMAIN queue
  BY <1>1
<1>3. QueueWithout(s) = rest
  BY DEF QueueWithout
<1> HIDE DEF stay
<1>4. /\ IsFiniteSet(stay) /\ count \in Nat
      /\ \A i \in stay : Cardinality(Below(stay, i)) \in 0 .. count - 1
      /\ \A i, h \in stay :
           i < h => Cardinality(Below(stay, i)) < Cardinality(Below(stay, h))
      /\ \A m \in 0 .. count - 1 : \E i \in stay : Cardinality(Below(stay, i)) = m
  BY <1>1, <1>2, Counted
<1>5. ASSUME NEW n \in 1 .. count
      PROVE  At(n) \in stay /\ Cardinality(Below(stay, At(n))) = n - 1
  <2>1. n - 1 \in 0 .. count - 1
    BY <1>4
  <2>2. \E i \in stay : Cardinality(Below(stay, i)) = n - 1
    BY <1>4, <2>1
  <2> QED BY <2>2 DEF Below
<1> HIDE DEF At
<1>6. at \in [1 .. count -> stay]
  BY <1>5
<1>7. ASSUME NEW n \in 1 .. count, NEW m \in 1 .. count, n < m
      PROVE  at[n] < at[m]
  <2>1. /\ at[n] \in stay /\ Cardinality(Below(stay, at[n])) = n - 1
        /\ at[m] \in stay /\ Cardinality(Below(stay, at[m])) = m - 1
    BY <1>5
  <2>2. at[n] \in Nat /\ at[m] \in Nat
    BY <1>2, <2>1
  <2>3. n - 1 < m - 1 /\ n \in Nat /\ m \in Nat
    BY <1>4, <1>7
  <2> HIDE DEF at
  <2>4. at[n] # at[m]
    BY <2>1, <2>3
  <2>5. ~(at[m] < at[n])
    <3>1. at[m] < at[n] => m - 1 < n - 1
      BY <1>4, <2>1
    <3> QED BY <2>3, <3>1
  <2> QED BY <2>2, <2>4, <2>5
<1>8. ASSUME NEW i \in stay
      PROVE  \E n \in 1 .. count : at[n] = i
  <2>1. Cardinality(Below(stay, i)) \in 0 .. count - 1
    BY <1>4
  <2>2. PICK n \in 1 .. count : n - 1 = Cardinality(Below(stay, i))
    <3>1. /\ Cardinality(Below(stay, i)) + 1 \in 1 .. count
          /\ (Cardinality(Below(stay, i)) + 1) - 1 = Cardinality(Below(stay, i))
      BY <1>4, <2>1
    <3> QED BY <3>1
  <2>3. at[n] \in stay /\ Cardinality(Below(stay, at[n])) = n - 1
    BY <1>5
  <2>4. at[n] \in Nat /\ i \in Nat
    BY <1>2, <2>3
  <2> HIDE DEF at
  <2>5. ~(at[n] < i) /\ ~(i < at[n])
    <3>1. Cardinality(Below(stay, i)) \in Nat
      BY <2>1
    <3>2. /\ at[n] < i => Cardinality(Below(stay, at[n]))
                            < Cardinality(Below(stay, i))
          /\ i < at[n] => Cardinality(Below(stay, i))
                            < Cardinality(Below(stay, at[n]))
      BY <1>4, <2>3
    <3> QED BY <2>2, <2>3, <3>1, <3>2
  <2> QED BY <2>4, <2>5
<1>9. rest \in Seq(Lookups) /\ DOMAIN rest = 1 .. count
  <2>1. \A n \in 1 .. count : queue[At(n)] \in Lookups
    BY <1>1, <1>2, <1>5
  <2>2. rest \in [1 .. count -> Lookups]
    BY <2>1
  <2> QED BY <1>4, <2>2
<1>10. \A n \in 1 .. count : rest[n] = queue[at[n]]
  OBVIOUS
<1>11. Thins(queue, stay, rest, at)
  <2> HIDE DEF rest, at, count
  <2> QED BY <1>6, <1>7, <1>8, <1>9, <1>10 DEF Thins
<1> HIDE DEF rest, at
<1> QED BY <1>3, <1>9, <1>11 DEF stay

-------------------------------------------------------------------------------
(* The limiter.                                                            *)

\* What every step of the limiter keeps: SlotsAreUsed, for a flight of finitely
\* many lookups, of which none is under way before it is asked for.
LimiterInv ==
  /\ SlotsAreUsed
  /\ IsFiniteSet(InFlight)
  /\ \A l \in Lookups : caller[l] = "idle" => job[l] = "none"

\* FirstComeFirstServed, of one step.
FirstComeStep ==
  \A l \in Lookups :
    job[l] = "queued" /\ job'[l] = "queued" =>
      /\ Ahead(l)' \subseteq Ahead(l)
      /\ \A k \in Lookups : k \notin InFlight /\ k \in InFlight' => k \in Ahead(l)

\* What the invariant says, part by part.
LEMMA LimiterFacts ==
  ASSUME LimiterInv
  PROVE  /\ caller \in [Lookups -> {"idle", "waiting", "served", "failed"}]
         /\ job \in [Lookups -> {"none", "queued", "ended"} \cup Running]
         /\ queue \in Seq(Lookups) /\ Len(queue) \in Nat
         /\ DOMAIN queue = 1 .. Len(queue)
         /\ active = Cardinality(InFlight) /\ active \in 0 .. Maximum
         /\ Maximum \in Nat /\ Maximum >= 1
         /\ IsFiniteSet(InFlight)
         /\ queue # <<>> => active = Maximum
         /\ \A i, k \in 1 .. Len(queue) : queue[i] = queue[k] => i = k
         /\ \A i \in 1 .. Len(queue) :
              queue[i] \in Lookups /\ job[queue[i]] = "queued"
         /\ \A l \in Lookups :
              job[l] = "queued" => \E i \in 1 .. Len(queue) : queue[i] = l
         /\ \A l \in Lookups :
              /\ job[l] = "queued" => caller[l] = "waiting"
              /\ caller[l] = "waiting" => SignalOf[l] \notin aborted
              /\ caller[l] = "idle" => job[l] = "none"
<1>1. /\ caller \in [Lookups -> {"idle", "waiting", "served", "failed"}]
      /\ job \in [Lookups -> {"none", "queued", "ended"} \cup Running]
      /\ queue \in Seq(Lookups) /\ Len(queue) \in Nat
      /\ DOMAIN queue = 1 .. Len(queue)
  BY DEF LimiterInv, SlotsAreUsed, TypeOK
<1>2. /\ Maximum \in Nat /\ Maximum >= 1
      /\ IsFiniteSet(InFlight) /\ Cardinality(InFlight) \in Nat
  BY MvgLimiterAssumption, FS_CardinalityType DEF LimiterInv
<1>3. active = Cardinality(InFlight) /\ active \in 0 .. Maximum
  BY <1>2 DEF LimiterInv, SlotsAreUsed, SlotsCounted
<1>4. queue # <<>> => active = Maximum
  BY DEF LimiterInv, SlotsAreUsed, WorkConserving
<1>5. /\ \A i, k \in 1 .. Len(queue) : queue[i] = queue[k] => i = k
      /\ {queue[i] : i \in 1 .. Len(queue)} = {l \in Lookups : job[l] = "queued"}
      /\ \A l \in Lookups :
           /\ job[l] = "queued" => caller[l] = "waiting"
           /\ caller[l] = "waiting" => SignalOf[l] \notin aborted
  BY DEF LimiterInv, SlotsAreUsed, QueueIsExact
<1>6. ASSUME NEW i \in 1 .. Len(queue)
      PROVE  queue[i] \in Lookups /\ job[queue[i]] = "queued"
  BY <1>5
<1>7. ASSUME NEW l \in Lookups, job[l] = "queued"
      PROVE  \E i \in 1 .. Len(queue) : queue[i] = l
  BY <1>5, <1>7
<1> QED BY <1>1, <1>2, <1>3, <1>4, <1>5, <1>6, <1>7 DEF LimiterInv

\* The invariant holds again if its parts do.
LEMMA LimiterParts ==
  ASSUME caller' \in [Lookups -> {"idle", "waiting", "served", "failed"}],
         job' \in [Lookups -> {"none", "queued", "ended"} \cup Running],
         queue' \in Seq(Lookups), active' \in 0 .. Maximum,
         aborted' \subseteq Signals, fresh' \subseteq Places,
         IsFiniteSet(InFlight'), active' = Cardinality(InFlight'),
         queue' # <<>> => active' = Maximum,
         \A i, k \in 1 .. Len(queue') : queue'[i] = queue'[k] => i = k,
         \A i \in 1 .. Len(queue') : job'[queue'[i]] = "queued",
         \A l \in Lookups :
           job'[l] = "queued" => \E i \in 1 .. Len(queue') : queue'[i] = l,
         \A l \in Lookups :
           /\ job'[l] = "queued" => caller'[l] = "waiting"
           /\ caller'[l] = "waiting" => SignalOf[l] \notin aborted'
           /\ caller'[l] = "idle" => job'[l] = "none"
  PROVE  LimiterInv'
<1>1. Maximum \in Nat
  BY MvgLimiterAssumption
<1>2. TypeOK'
  BY <1>1 DEF TypeOK
<1>3. SlotsCounted' /\ WorkConserving'
  BY <1>1 DEF SlotsCounted, WorkConserving
<1>4. {queue'[i] : i \in 1 .. Len(queue')} = {l \in Lookups : job'[l] = "queued"}
  <2>1. \A i \in 1 .. Len(queue') : queue'[i] \in Lookups
    OBVIOUS
  <2> QED BY <2>1
<1>5. QueueIsExact'
  BY <1>4 DEF QueueIsExact
<1> QED BY <1>2, <1>3, <1>5 DEF LimiterInv, SlotsAreUsed

\* A step that leaves the queue and the flight alone.
LEMMA QuietKeeps ==
  ASSUME LimiterInv, UNCHANGED <<queue, active>>, aborted' = aborted,
         caller' \in [Lookups -> {"idle", "waiting", "served", "failed"}],
         job' \in [Lookups -> {"none", "queued", "ended"} \cup Running],
         fresh' \subseteq Places, InFlight' = InFlight,
         \A l \in Lookups :
           /\ job'[l] = "queued" <=> job[l] = "queued"
           /\ job[l] = "queued" => caller'[l] = caller[l]
           /\ caller'[l] = "waiting" => caller[l] = "waiting"
           /\ caller'[l] = "idle" => caller[l] = "idle" /\ job'[l] = job[l]
  PROVE  LimiterInv' /\ FirstComeStep
<1>1. aborted \subseteq Signals
  BY DEF LimiterInv, SlotsAreUsed, TypeOK
<1>2. LimiterInv'
  BY <1>1, LimiterFacts, LimiterParts
<1>3. FirstComeStep
  BY DEF FirstComeStep, Ahead
<1> QED BY <1>2, <1>3

\* A lookup ends before it reaches the limiter.
LEMMA FetchEndsKeeps ==
  ASSUME LimiterInv, NEW l \in Lookups, FetchCached(l) \/ FetchAborted(l)
  PROVE  LimiterInv' /\ FirstComeStep
<1>1. PICK ended \in {"served", "failed"} :
        /\ caller[l] = "idle" /\ caller' = [caller EXCEPT ![l] = ended]
        /\ job' = job /\ queue' = queue /\ active' = active
        /\ aborted' = aborted /\ fresh' = fresh
  BY DEF FetchCached, FetchAborted
<1>2. InFlight' = InFlight
  BY <1>1 DEF InFlight
<1>3. fresh \subseteq Places
  BY DEF LimiterInv, SlotsAreUsed, TypeOK
<1> QED BY <1>1, <1>2, <1>3, LimiterFacts, QuietKeeps

\* The request of a lookup goes on, or is stopped.
LEMMA RequestGoesOnKeeps ==
  ASSUME LimiterInv, NEW l \in Lookups, Respond(l) \/ TimerFires(l)
  PROVE  LimiterInv' /\ FirstComeStep
<1>1. PICK to \in Running :
        /\ job[l] \in Running /\ job' = [job EXCEPT ![l] = to]
        /\ caller' = caller /\ queue' = queue /\ active' = active
        /\ aborted' = aborted /\ fresh' = fresh
  BY DEF Respond, TimerFires, Running
<1>2. InFlight' = InFlight
  BY <1>1, LimiterFacts DEF InFlight
<1>3. fresh \subseteq Places
  BY DEF LimiterInv, SlotsAreUsed, TypeOK
<1>4. "queued" \notin Running /\ "none" \notin Running
  BY DEF Running
<1> QED BY <1>1, <1>2, <1>3, <1>4, LimiterFacts, QuietKeeps

\* A cache entry expires.
LEMMA ExpireKeeps ==
  ASSUME LimiterInv, NEW p \in Places, Expire(p)
  PROVE  LimiterInv' /\ FirstComeStep
<1>1. /\ fresh' = fresh \ {p} /\ caller' = caller /\ job' = job
      /\ queue' = queue /\ active' = active /\ aborted' = aborted
  BY DEF Expire
<1>2. InFlight' = InFlight
  BY <1>1 DEF InFlight
<1>3. fresh \subseteq Places
  BY DEF LimiterInv, SlotsAreUsed, TypeOK
<1> QED BY <1>1, <1>2, <1>3, LimiterFacts, QuietKeeps

\* run(): the lookup takes a slot, or stands behind the others.
LEMMA FetchKeeps ==
  ASSUME LimiterInv, NEW l \in Lookups, Fetch(l)
  PROVE  LimiterInv' /\ FirstComeStep
<1>1. /\ caller[l] = "idle" /\ SignalOf[l] \notin aborted
      /\ caller' = [caller EXCEPT ![l] = "waiting"]
      /\ aborted' = aborted /\ fresh' = fresh
  BY DEF Fetch
<1>2. fresh \subseteq Places /\ aborted \subseteq Signals
  BY DEF LimiterInv, SlotsAreUsed, TypeOK
<1>3. /\ job[l] = "none" /\ l \notin InFlight
      /\ \A i \in 1 .. Len(queue) : queue[i] # l
  BY <1>1, LimiterFacts DEF InFlight, Running
<1>4. /\ caller' \in [Lookups -> {"idle", "waiting", "served", "failed"}]
      /\ caller'[l] = "waiting"
      /\ \A k \in Lookups \ {l} : caller'[k] = caller[k]
  BY <1>1, LimiterFacts
<1>5. CASE active < Maximum
  <2>1. /\ active' = active + 1 /\ job' = [job EXCEPT ![l] = "connecting"]
        /\ queue' = queue
    BY <1>5 DEF Fetch
  <2>2. queue = <<>>
    BY <1>5, LimiterFacts
  <2>3. /\ job' \in [Lookups -> {"none", "queued", "ended"} \cup Running]
        /\ job'[l] = "connecting"
        /\ \A k \in Lookups \ {l} : job'[k] = job[k]
    BY <2>1, LimiterFacts DEF Running
  <2>4. InFlight' = InFlight \cup {l}
    BY <2>3 DEF InFlight, Running
  <2>5. IsFiniteSet(InFlight') /\ active' = Cardinality(InFlight')
    BY <1>3, <2>1, <2>4, LimiterFacts, FS_AddElement
  <2>6. active' \in 0 .. Maximum
    BY <1>5, <2>1, LimiterFacts
  <2>7. \A k \in Lookups : job'[k] # "queued" /\ job[k] # "queued"
    BY <1>3, <2>2, <2>3, LimiterFacts
  <2>8. LimiterInv'
    BY <1>1, <1>2, <1>4, <2>1, <2>2, <2>3, <2>5, <2>6, <2>7, LimiterFacts,
       LimiterParts
  <2>9. FirstComeStep
    BY <2>7 DEF FirstComeStep
  <2> QED BY <2>8, <2>9
<1>6. CASE ~(active < Maximum)
  <2>1. /\ active' = active /\ job' = [job EXCEPT ![l] = "queued"]
        /\ queue' = Append(queue, l)
    BY <1>6 DEF Fetch
  <2>2. active = Maximum
    BY <1>6, LimiterFacts
  <2>3. /\ job' \in [Lookups -> {"none", "queued", "ended"} \cup Running]
        /\ job'[l] = "queued"
        /\ \A k \in Lookups \ {l} : job'[k] = job[k]
    BY <2>1, LimiterFacts
  <2>4. InFlight' = InFlight
    BY <1>3, <2>3 DEF InFlight, Running
  <2>5. /\ queue' \in Seq(Lookups) /\ Len(queue') = Len(queue) + 1
        /\ \A i \in 1 .. Len(queue) : queue'[i] = queue[i]
        /\ queue'[Len(queue) + 1] = l
        /\ \A i \in 1 .. Len(queue') : i \in 1 .. Len(queue) \/ i = Len(queue) + 1
        /\ \A i \in 1 .. Len(queue) : i \in 1 .. Len(queue')
        /\ Len(queue) + 1 \in 1 .. Len(queue')
    BY <2>1, LimiterFacts
  <2>6. ASSUME NEW i \in 1 .. Len(queue'), NEW k \in 1 .. Len(queue'),
               queue'[i] = queue'[k]
        PROVE  i = k
    <3>1. CASE i \in 1 .. Len(queue) /\ k \in 1 .. Len(queue)
      BY <2>5, <2>6, <3>1, LimiterFacts
    <3> QED BY <1>3, <2>5, <2>6, <3>1
  <2>7. \A i \in 1 .. Len(queue') : job'[queue'[i]] = "queued"
    BY <1>3, <2>3, <2>5, LimiterFacts
  <2>8. ASSUME NEW k \in Lookups, job'[k] = "queued"
        PROVE  \E i \in 1 .. Len(queue') : queue'[i] = k
    <3>1. CASE k = l
      BY <2>5, <3>1
    <3>2. CASE k # l
      <4>1. PICK i \in 1 .. Len(queue) : queue[i] = k
        BY <2>3, <2>8, <3>2, LimiterFacts
      <4> QED BY <2>5, <4>1
    <3> QED BY <3>1, <3>2
  <2>9. LimiterInv'
    BY <1>1, <1>2, <1>3, <1>4, <2>1, <2>2, <2>3, <2>4, <2>5, <2>6, <2>7, <2>8,
       LimiterFacts, LimiterParts
  <2>10. ASSUME NEW k \in Lookups, job[k] = "queued"
         PROVE  Ahead(k)' \subseteq Ahead(k)
    <3>1. SUFFICES ASSUME NEW i \in 1 .. Len(queue'),
                          NEW h \in i + 1 .. Len(queue'), queue'[h] = k
                   PROVE  queue'[i] \in Ahead(k)
      BY DEF Ahead
    <3>2. k # l
      BY <1>3, <2>10
    <3>3. h \in 1 .. Len(queue')
      OBVIOUS
    <3>4. h # Len(queue) + 1
      BY <2>5, <3>1, <3>2
    <3>5. h \in i + 1 .. Len(queue) /\ i \in 1 .. Len(queue)
      BY <2>5, <3>3, <3>4, LimiterFacts
    <3>6. queue[h] = k /\ queue'[i] = queue[i]
      BY <2>5, <3>1, <3>5, LimiterFacts
    <3> QED BY <3>5, <3>6 DEF Ahead
  <2>11. FirstComeStep
    BY <2>4, <2>10 DEF FirstComeStep
  <2> QED BY <2>9, <2>11
<1> QED BY <1>5, <1>6

\* startNext() starts the head of the queue, if there is one: the slot that was
\* given back was the only free one.
LEMMA OneStarts ==
  ASSUME LimiterInv
  PROVE  StartCount = IF queue = <<>> THEN 0 ELSE 1
<1>1. CASE queue = <<>>
  <2>1. Len(queue) = 0 /\ 0 < Maximum - (active - 1)
    BY <1>1, LimiterFacts
  <2> QED BY <1>1, <2>1 DEF StartCount
<1>2. CASE queue # <<>>
  <2>1. Maximum - (active - 1) = 1 /\ ~(Len(queue) < 1)
    BY <1>2, LimiterFacts
  <2> QED BY <1>2, <2>1 DEF StartCount
<1> QED BY <1>1, <1>2

\* An upstream operation settles, and its slot goes to the head of the queue.
LEMMA SettleKeeps ==
  ASSUME LimiterInv, NEW l \in Lookups, job[l] \in Running,
         NEW ended \in {"served", "failed"}, Settle(l, ended),
         fresh' \subseteq Places
  PROVE  LimiterInv' /\ FirstComeStep
<1> DEFINE started == {queue[i] : i \in 1 .. StartCount}
<1>1. /\ active' = active - 1 + StartCount
      /\ queue' = SubSeq(queue, StartCount + 1, Len(queue))
      /\ job' = [k \in Lookups |-> IF k = l THEN "ended"
                                   ELSE IF k \in started THEN "connecting"
                                   ELSE job[k]]
      /\ caller' = [caller EXCEPT ![l] = IF @ = "waiting" THEN ended ELSE @]
      /\ aborted' = aborted
  BY DEF Settle
<1>2. aborted' \subseteq Signals
  BY <1>1 DEF LimiterInv, SlotsAreUsed, TypeOK
<1>3. /\ l \in InFlight /\ job[l] # "queued" /\ caller[l] # "idle"
      /\ "queued" \notin Running /\ "ended" \notin Running
      /\ "none" \notin Running /\ "connecting" \in Running
  BY LimiterFacts DEF InFlight, Running
<1>4. /\ caller' \in [Lookups -> {"idle", "waiting", "served", "failed"}]
      /\ \A k \in Lookups : k # l => caller'[k] = caller[k]
      /\ caller'[l] \in {"served", "failed"}
  BY <1>1, <1>3, LimiterFacts
<1>5. job' \in [Lookups -> {"none", "queued", "ended"} \cup Running]
  BY <1>1, <1>3, LimiterFacts
<1>6. /\ IsFiniteSet(InFlight \ {l})
      /\ Cardinality(InFlight \ {l}) = active - 1
  BY <1>3, LimiterFacts, FS_RemoveElement
<1>7. CASE queue = <<>>
  <2>1. StartCount = 0
    BY <1>7, OneStarts
  <2>2. started = {}
    BY <2>1
  <2>3. active' = active - 1
    BY <1>1, <2>1, LimiterFacts
  <2>4. queue' = <<>> /\ Len(queue') = 0
    BY <1>1, <1>7, <2>1
  <2>5. \A k \in Lookups : job'[k] = IF k = l THEN "ended" ELSE job[k]
    BY <1>1, <2>2
  <2>6. InFlight' = InFlight \ {l}
    BY <1>3, <2>5 DEF InFlight
  <2>7. active' \in 0 .. Maximum
    <3>1. Cardinality(InFlight \ {l}) \in Nat
      BY <1>6, FS_CardinalityType
    <3> QED BY <1>6, <2>3, <3>1, LimiterFacts
  <2>8. \A k \in Lookups : job'[k] # "queued" /\ job[k] # "queued"
    BY <1>3, <1>7, <2>5, LimiterFacts
  <2>9. \A k \in Lookups :
          /\ caller'[k] = "waiting" => SignalOf[k] \notin aborted'
          /\ caller'[k] = "idle" => job'[k] = "none"
    BY <1>1, <1>4, <2>5, LimiterFacts
  <2>10. LimiterInv'
    <3>1. queue' \in Seq(Lookups)
      BY <2>4
    <3> QED BY <1>2, <1>4, <1>5, <1>6, <2>3, <2>4, <2>6, <2>7, <2>8, <2>9, <3>1,
               LimiterParts
  <2>11. FirstComeStep
    BY <2>8 DEF FirstComeStep
  <2> QED BY <2>10, <2>11
<1>8. CASE queue # <<>>
  <2> DEFINE head == queue[1]
  <2>1. StartCount = 1 /\ active = Maximum
    BY <1>8, OneStarts, LimiterFacts
  <2>2. 1 \in 1 .. Len(queue) /\ Len(queue) >= 1
    BY <1>8, LimiterFacts
  <2>3. started = {head}
    BY <2>1
  <2>4. /\ head \in Lookups /\ job[head] = "queued" /\ caller[head] = "waiting"
        /\ head # l /\ head \notin InFlight
    BY <1>3, <2>2, LimiterFacts DEF InFlight
  <2>5. active' = active
    BY <1>1, <2>1, LimiterFacts
  <2>6. \A k \in Lookups : job'[k] = IF k = l THEN "ended"
                                     ELSE IF k = head THEN "connecting"
                                     ELSE job[k]
    BY <1>1, <2>3
  <2>7. /\ queue' \in Seq(Lookups) /\ Len(queue') = Len(queue) - 1
        /\ \A i \in 1 .. Len(queue') : /\ queue'[i] = queue[i + 1]
                                       /\ i + 1 \in 1 .. Len(queue)
                                       /\ i + 1 # 1
    <3>1. queue' = SubSeq(queue, 2, Len(queue))
      BY <1>1, <2>1
    <3>2. \A i \in 2 .. Len(queue) : queue[i] \in Lookups
      BY LimiterFacts
    <3>3. /\ queue' \in Seq(Lookups)
          /\ Len(queue') = IF 2 <= Len(queue) THEN Len(queue) - 2 + 1 ELSE 0
          /\ \A i \in 1 .. Len(queue) - 2 + 1 : queue'[i] = queue[2 + i - 1]
      BY <3>1, <3>2, LimiterFacts, SubSeqProperties
    <3>4. Len(queue') = Len(queue) - 1
      <4>1. Len(queue) \in Nat
        BY LimiterFacts
      <4>2. CASE Len(queue) = 1
        BY <3>3, <4>2
      <4>3. CASE Len(queue) >= 2
        BY <3>3, <4>1, <4>3
      <4>4. \A len \in Nat : len >= 1 => len = 1 \/ len >= 2
        OBVIOUS
      <4> QED BY <2>2, <4>1, <4>2, <4>3, <4>4
    <3>5. ASSUME NEW i \in 1 .. Len(queue')
          PROVE  /\ i \in 1 .. Len(queue) - 2 + 1 /\ 2 + i - 1 = i + 1
                 /\ i + 1 \in 1 .. Len(queue) /\ i + 1 # 1
      BY <3>4, LimiterFacts
    <3> QED BY <3>3, <3>4, <3>5
  <2> HIDE DEF head, started
  <2>8. InFlight' = (InFlight \ {l}) \cup {head}
    BY <1>3, <2>4, <2>6 DEF InFlight
  <2>9. IsFiniteSet(InFlight') /\ active' = Cardinality(InFlight')
    <3>1. Cardinality((InFlight \ {l}) \cup {head})
            = Cardinality(InFlight \ {l}) + 1
      BY <1>6, <2>4, FS_AddElement
    <3> QED BY <1>6, <2>5, <2>8, <3>1, LimiterFacts, FS_AddElement
  <2>10. ASSUME NEW i \in 1 .. Len(queue'), NEW k \in 1 .. Len(queue'),
                queue'[i] = queue'[k]
         PROVE  i = k
    <3>1. /\ i + 1 \in 1 .. Len(queue) /\ k + 1 \in 1 .. Len(queue)
          /\ queue[i + 1] = queue[k + 1]
      BY <2>7, <2>10
    <3>2. i + 1 = k + 1
      BY <3>1, LimiterFacts
    <3> QED BY <3>2
  <2>11. ASSUME NEW i \in 1 .. Len(queue')
         PROVE  job'[queue'[i]] = "queued"
    <3>1. queue'[i] # head
      BY <2>2, <2>7, LimiterFacts DEF head
    <3>2. queue'[i] \in Lookups /\ job[queue'[i]] = "queued"
      BY <2>7, LimiterFacts
    <3> QED BY <1>3, <2>6, <3>1, <3>2
  <2>12. ASSUME NEW k \in Lookups, job'[k] = "queued"
         PROVE  \E i \in 1 .. Len(queue') : queue'[i] = k
    <3>1. k # head /\ job[k] = "queued"
      BY <1>3, <2>6, <2>12
    <3>2. PICK i \in 1 .. Len(queue) : queue[i] = k
      BY <3>1, LimiterFacts
    <3>3. i # 1
      BY <3>1, <3>2 DEF head
    <3>4. i - 1 \in 1 .. Len(queue') /\ (i - 1) + 1 = i
      BY <2>7, <3>3, LimiterFacts
    <3> QED BY <2>7, <3>2, <3>4
  <2>13. \A k \in Lookups :
           /\ job'[k] = "queued" => caller'[k] = "waiting"
           /\ caller'[k] = "waiting" => SignalOf[k] \notin aborted'
           /\ caller'[k] = "idle" => job'[k] = "none"
    <3>1. TAKE k \in Lookups
    <3>2. CASE k = l
      BY <1>4, <2>6, <3>2
    <3>3. CASE k # l
      <4>1. caller'[k] = caller[k]
        BY <1>4, <3>3
      <4>2. job'[k] = "queued" => job[k] = "queued"
        BY <1>3, <2>6, <3>3
      <4>3. caller[k] = "idle" => k # head
        BY <2>4
      <4>4. caller[k] = "idle" => job'[k] = job[k]
        BY <2>6, <3>3, <4>3
      <4> QED BY <1>1, <4>1, <4>2, <4>4, LimiterFacts
    <3> QED BY <3>2, <3>3
  <2>14. LimiterInv'
    BY <1>2, <1>4, <1>5, <2>1, <2>5, <2>7, <2>9, <2>10, <2>11, <2>12, <2>13,
       LimiterFacts, LimiterParts
  <2>15. ASSUME NEW k \in Lookups, job[k] = "queued", job'[k] = "queued"
         PROVE  Ahead(k)' \subseteq Ahead(k) /\ head \in Ahead(k)
    <3>1. ASSUME NEW i \in 1 .. Len(queue'), NEW h \in i + 1 .. Len(queue'),
                 queue'[h] = k
          PROVE  queue'[i] \in Ahead(k)
      <4>1. h \in 1 .. Len(queue')
        OBVIOUS
      <4>2. /\ queue'[h] = queue[h + 1] /\ queue'[i] = queue[i + 1]
            /\ h + 1 \in 1 .. Len(queue) /\ i + 1 \in 1 .. Len(queue)
        BY <2>7, <4>1
      <4>3. h + 1 \in (i + 1) + 1 .. Len(queue)
        BY <4>2
      <4> QED BY <3>1, <4>2, <4>3 DEF Ahead
    <3>2. head \in Ahead(k)
      <4>1. k # head
        BY <1>3, <2>4, <2>6, <2>15
      <4>2. PICK i \in 1 .. Len(queue) : queue[i] = k
        BY <2>15, LimiterFacts
      <4>3. i # 1
        BY <4>1, <4>2 DEF head
      <4>4. i \in 1 + 1 .. Len(queue)
        BY <4>3
      <4> QED BY <2>2, <4>2, <4>4 DEF Ahead, head
    <3> QED BY <3>1, <3>2 DEF Ahead
  <2>16. \A k \in Lookups : k \notin InFlight /\ k \in InFlight' => k = head
    BY <2>8
  <2>17. FirstComeStep
    BY <2>15, <2>16 DEF FirstComeStep
  <2> QED BY <2>14, <2>17
<1> QED BY <1>7, <1>8

\* The upstream answers, the framework answers from its cache, or the request
\* fails.
LEMMA RequestEndsKeeps ==
  ASSUME LimiterInv, NEW l \in Lookups,
         UpstreamAnswers(l) \/ SearchIsCached(l) \/ UpstreamFails(l)
  PROVE  LimiterInv' /\ FirstComeStep
<1>1. fresh \subseteq Places /\ PlaceOf[l] \in Places
  BY MvgLimiterAssumption DEF LimiterInv, SlotsAreUsed, TypeOK
<1>2. /\ job[l] \in Running /\ fresh' \subseteq Places
      /\ \E ended \in {"served", "failed"} : Settle(l, ended)
  BY <1>1 DEF UpstreamAnswers, SearchIsCached, UpstreamFails, Running
<1> QED BY <1>2, SettleKeeps

\* The signal of some lookups is aborted: they stop waiting, and those that are
\* in the queue leave it.
LEMMA AbortKeeps ==
  ASSUME LimiterInv, NEW s \in Signals, Abort(s)
  PROVE  LimiterInv' /\ FirstComeStep
<1> DEFINE stay == {i \in DOMAIN queue : SignalOf[queue[i]] # s}
<1>1. /\ aborted' = aborted \cup {s} /\ queue' = QueueWithout(s)
      /\ \A l \in Lookups : job'[l] = IF SignalOf[l] = s THEN Aborted(l)
                                      ELSE job[l]
      /\ \A l \in Lookups : caller'[l] = IF SignalOf[l] = s /\ caller[l] = "waiting"
                                         THEN "failed" ELSE caller[l]
      /\ active' = active /\ fresh' = fresh
  BY DEF Abort
<1>2. /\ "queued" \notin Running /\ "ended" \notin Running
      /\ "none" \notin Running /\ "stopped" \in Running
  BY DEF Running
<1>3. /\ job' \in [Lookups -> {"none", "queued", "ended"} \cup Running]
      /\ caller' \in [Lookups -> {"idle", "waiting", "served", "failed"}]
      /\ aborted' \subseteq Signals /\ fresh' \subseteq Places
  <2>1. \A l \in Lookups : Aborted(l) \in {"none", "queued", "ended"} \cup Running
    BY <1>2, LimiterFacts DEF Aborted
  <2>2. aborted \subseteq Signals /\ fresh \subseteq Places
    BY DEF LimiterInv, SlotsAreUsed, TypeOK
  <2> QED BY <2>1, <2>2, <1>1, LimiterFacts DEF Abort
<1>4. \A l \in Lookups : job'[l] \in Running <=> job[l] \in Running
  BY <1>1, <1>2 DEF Aborted
<1>5. InFlight' = InFlight
  BY <1>4 DEF InFlight
<1>6. \A l \in Lookups : job'[l] = "queued" <=> job[l] = "queued" /\ SignalOf[l] # s
  BY <1>1, <1>2 DEF Aborted
<1>7. \A l \in Lookups :
        /\ job'[l] = "queued" => caller'[l] = "waiting"
        /\ caller'[l] = "waiting" => SignalOf[l] \notin aborted'
        /\ caller'[l] = "idle" => job'[l] = "none"
  <2>1. TAKE l \in Lookups
  <2>2. job'[l] = "queued" => caller'[l] = "waiting"
    BY <1>1, <1>6, LimiterFacts
  <2>3. caller'[l] = "waiting" => SignalOf[l] \notin aborted'
    BY <1>1, LimiterFacts
  <2>4. caller'[l] = "idle" => job'[l] = "none"
    <3>1. caller'[l] = "idle" => caller[l] = "idle"
      BY <1>1
    <3>2. job[l] = "none" => job'[l] = "none"
      BY <1>1, <1>2 DEF Aborted
    <3> QED BY <3>1, <3>2, LimiterFacts
  <2> QED BY <2>2, <2>3, <2>4
<1>8. queue' \in Seq(Lookups) /\ \E at : Thins(queue, stay, queue', at)
  BY <1>1, QueueThins DEF LimiterInv, SlotsAreUsed
<1>9. PICK at : Thins(queue, stay, queue', at)
  BY <1>8
<1>10. /\ DOMAIN queue' = 1 .. Len(queue') /\ Len(queue') \in Nat
       /\ \A n \in 1 .. Len(queue') : /\ at[n] \in 1 .. Len(queue)
                                      /\ queue'[n] = queue[at[n]]
                                      /\ SignalOf[queue'[n]] # s
       /\ \A n, m \in 1 .. Len(queue') : n < m => at[n] < at[m]
       /\ \A i \in 1 .. Len(queue) : SignalOf[queue[i]] # s =>
            \E n \in 1 .. Len(queue') : at[n] = i
  <2>1. DOMAIN queue' = 1 .. Len(queue') /\ Len(queue') \in Nat
    BY <1>8
  <2>2. \A i \in stay : i \in 1 .. Len(queue) /\ SignalOf[queue[i]] # s
    BY LimiterFacts
  <2>3. \A i \in 1 .. Len(queue) : SignalOf[queue[i]] # s => i \in stay
    BY LimiterFacts
  <2> HIDE DEF stay
  <2>4. /\ \A n \in 1 .. Len(queue') : at[n] \in stay /\ queue'[n] = queue[at[n]]
        /\ \A n, m \in 1 .. Len(queue') : n < m => at[n] < at[m]
        /\ \A i \in stay : \E n \in 1 .. Len(queue') : at[n] = i
    BY <1>9, <2>1 DEF Thins
  <2> QED BY <2>1, <2>2, <2>3, <2>4
<1> HIDE DEF stay
<1>11. ASSUME NEW n \in 1 .. Len(queue'), NEW m \in 1 .. Len(queue'),
              queue'[n] = queue'[m]
       PROVE  n = m
  <2>1. at[n] = at[m] /\ at[n] \in Nat
    BY <1>10, <1>11, LimiterFacts
  <2>2. ~(at[n] < at[m]) /\ ~(at[m] < at[n])
    BY <2>1
  <2>3. ~(n < m) /\ ~(m < n)
    BY <1>10, <2>2
  <2>4. n \in Nat /\ m \in Nat
    OBVIOUS
  <2> QED BY <2>3, <2>4
<1>12. \A n \in 1 .. Len(queue') : job'[queue'[n]] = "queued"
  <2>1. TAKE n \in 1 .. Len(queue')
  <2>2. queue'[n] \in Lookups /\ job[queue'[n]] = "queued"
    BY <1>10, LimiterFacts
  <2> QED BY <1>6, <1>10, <2>2
<1>13. ASSUME NEW l \in Lookups, job'[l] = "queued"
       PROVE  \E n \in 1 .. Len(queue') : queue'[n] = l
  <2>1. job[l] = "queued" /\ SignalOf[l] # s
    BY <1>6, <1>13
  <2>2. PICK i \in 1 .. Len(queue) : queue[i] = l
    BY <2>1, LimiterFacts
  <2>3. PICK n \in 1 .. Len(queue') : at[n] = i
    BY <1>10, <2>1, <2>2
  <2> QED BY <1>10, <2>2, <2>3
<1>14. queue' # <<>> => active' = Maximum
  <2>1. SUFFICES ASSUME queue' # <<>> PROVE active = Maximum
    BY <1>1
  <2>2. 1 \in 1 .. Len(queue')
    BY <1>8, <2>1
  <2>3. queue # <<>>
    BY <1>10, <2>2, LimiterFacts
  <2> QED BY <2>3, LimiterFacts
<1>15. LimiterInv'
  BY <1>1, <1>3, <1>5, <1>7, <1>8, <1>11, <1>12, <1>13, <1>14, LimiterFacts,
     LimiterParts
<1>16. ASSUME NEW l \in Lookups
       PROVE  Ahead(l)' \subseteq Ahead(l)
  <2>1. SUFFICES ASSUME NEW n \in 1 .. Len(queue'),
                        NEW m \in n + 1 .. Len(queue'), queue'[m] = l
                 PROVE  queue'[n] \in Ahead(l)
    BY DEF Ahead
  <2>2. m \in 1 .. Len(queue') /\ n < m
    OBVIOUS
  <2>3. /\ at[n] < at[m] /\ at[n] \in 1 .. Len(queue)
        /\ at[m] \in 1 .. Len(queue) /\ queue[at[m]] = l
        /\ queue'[n] = queue[at[n]]
    BY <1>10, <2>1, <2>2
  <2>4. at[m] \in at[n] + 1 .. Len(queue)
    BY <2>3
  <2> QED BY <2>3, <2>4 DEF Ahead
<1>17. FirstComeStep
  BY <1>5, <1>16 DEF FirstComeStep
<1> QED BY <1>15, <1>17

\* The limiter starts with nothing to do.
LEMMA LimiterInit == Init => LimiterInv
<1> SUFFICES ASSUME Init PROVE LimiterInv
  OBVIOUS
<1>1. TypeOK
  BY DEF Init, TypeOK
<1>2. InFlight = {} /\ active = 0 /\ queue = <<>> /\ Len(queue) = 0
  BY DEF Init, InFlight, Running
<1>3. IsFiniteSet({}) /\ Cardinality({}) = 0
  BY FS_EmptySet
<1>4. SlotsCounted /\ WorkConserving
  BY <1>2, <1>3, MvgLimiterAssumption DEF SlotsCounted, WorkConserving
<1>5. QueueIsExact
  BY <1>2 DEF QueueIsExact, Init
<1>6. \A l \in Lookups : caller[l] = "idle" => job[l] = "none"
  BY DEF Init
<1> QED BY <1>1, <1>2, <1>3, <1>4, <1>5, <1>6 DEF LimiterInv, SlotsAreUsed

\* Every step of the limiter keeps the invariant and the order of the queue.
LEMMA LimiterNext ==
  ASSUME LimiterInv, [Next]_vars
  PROVE  LimiterInv' /\ FirstComeStep
<1>1. CASE UNCHANGED vars
  <2>1. /\ caller' = caller /\ job' = job /\ queue' = queue
        /\ active' = active /\ aborted' = aborted /\ fresh' = fresh
    BY <1>1 DEF vars
  <2>2. InFlight' = InFlight
    BY <2>1 DEF InFlight
  <2>3. fresh \subseteq Places
    BY DEF LimiterInv, SlotsAreUsed, TypeOK
  <2> QED BY <2>1, <2>2, <2>3, LimiterFacts, QuietKeeps
<1>2. ASSUME NEW l \in Lookups, FetchCached(l) \/ FetchAborted(l)
      PROVE  LimiterInv' /\ FirstComeStep
  BY <1>2, FetchEndsKeeps
<1>3. ASSUME NEW l \in Lookups, Fetch(l)
      PROVE  LimiterInv' /\ FirstComeStep
  BY <1>3, FetchKeeps
<1>4. ASSUME NEW l \in Lookups, Respond(l) \/ TimerFires(l)
      PROVE  LimiterInv' /\ FirstComeStep
  BY <1>4, RequestGoesOnKeeps
<1>5. ASSUME NEW l \in Lookups,
             UpstreamAnswers(l) \/ SearchIsCached(l) \/ UpstreamFails(l)
      PROVE  LimiterInv' /\ FirstComeStep
  BY <1>5, RequestEndsKeeps
<1>6. ASSUME NEW s \in Signals, Abort(s)
      PROVE  LimiterInv' /\ FirstComeStep
  BY <1>6, AbortKeeps
<1>7. ASSUME NEW p \in Places, Expire(p)
      PROVE  LimiterInv' /\ FirstComeStep
  BY <1>7, ExpireKeeps
<1> QED BY <1>1, <1>2, <1>3, <1>4, <1>5, <1>6, <1>7 DEF Next, Upstream

-------------------------------------------------------------------------------
(* The reading of the configuration.                                       *)

Manifests == [generation : Nat, graph : Nat, envelope : Nat]

\* The numbers of the envelopes grow: the file holds the last one if any, a
\* manifest names one there has been, and so the envelope a reader has parsed is
\* no older than the one its manifest names.  When the file is hashed and is the
\* named one, nothing newer was there to parse.
ConfigInv ==
  /\ env \in Environments
  /\ contents \in Nat /\ generations \in Nat
  /\ envelopeFile \in {Absent, Partial, contents}
  /\ manifestFile \in Manifests
  /\ manifestFile # NoManifest => manifestFile.envelope \in 1 .. contents
  /\ generator \in [at : {"idle", "hashed", "directory", "manifest"},
                    manifest : Manifests]
  /\ generator.at # "idle" => generator.manifest.envelope \in 1 .. contents
  /\ reader \in [at : {"settings", "manifest", "attestation", "probe", "parse",
                       "hash", "accepted", "rejected"},
                 manifest : Manifests, attested : Manifests, geometry : Int]
  /\ reader.at \notin {"settings", "rejected"} => SettingsAreAccepted
  /\ reader.at \in {"attestation", "probe", "parse", "hash"} =>
       reader.manifest.envelope \in 1 .. contents
  /\ reader.at \in {"probe", "parse", "hash"} =>
       reader.attested = reader.manifest
  /\ reader.at = "hash" =>
       reader.geometry \in reader.manifest.envelope .. contents
  /\ reader.at = "accepted" /\ Mode = "self-hosted-routing" =>
       /\ reader.geometry = reader.manifest.envelope
       /\ reader.attested = reader.manifest

\* The reading of the files starts when nothing has been written.
LEMMA ConfigStartInv ==
  ASSUME ConfigStart, env \in Environments
  PROVE  ConfigInv
<1>1. /\ reader.at = "settings" /\ generator.at = "idle"
      /\ manifestFile = NoManifest /\ contents = 0 /\ generations = 0
      /\ envelopeFile = Absent
  BY DEF ConfigStart, Idle
<1>2. NoManifest \in Manifests
  BY DEF NoManifest, Manifests
<1>3. generator \in [at : {"idle", "hashed", "directory", "manifest"},
                     manifest : Manifests]
  BY <1>2 DEF ConfigStart, Idle
<1>4. reader \in [at : {"settings", "manifest", "attestation", "probe", "parse",
                        "hash", "accepted", "rejected"},
                  manifest : Manifests, attested : Manifests, geometry : Int]
  BY <1>2 DEF ConfigStart, Absent
<1> QED BY <1>1, <1>2, <1>3, <1>4 DEF ConfigInv

\* The settings do not change.
LEMMA SameSettings ==
  ASSUME env' = env
  PROVE  (SettingsAreAccepted' <=> SettingsAreAccepted) /\ Mode' = Mode
  BY DEF SettingsAreAccepted, Mode, HasEndpoint, UrlIsAccepted, IsGiven, AllowHttp

\* The tools and the operator write and remove files.
LEMMA ToolsKeep ==
  ASSUME ConfigInv, Tools
  PROVE  ConfigInv'
<1>1. env' = env /\ reader' = reader
  BY DEF Tools, CreateEnvelope, FillEnvelope, RemoveEnvelope, HashInputs,
         CreateDirectory, WriteManifest, WriteAttestation, StopGenerator,
         RemoveDirectory
<1>2. (SettingsAreAccepted' <=> SettingsAreAccepted) /\ Mode' = Mode
  BY <1>1, SameSettings
<1>3. NoManifest \in Manifests
  BY DEF NoManifest, Manifests
<1>4. SUFFICES
        /\ contents' \in Nat /\ contents' >= contents /\ generations' \in Nat
        /\ envelopeFile' \in {Absent, Partial, contents'}
        /\ manifestFile' \in Manifests
        /\ manifestFile' # NoManifest => manifestFile'.envelope \in 1 .. contents'
        /\ generator' \in [at : {"idle", "hashed", "directory", "manifest"},
                           manifest : Manifests]
        /\ generator'.at # "idle" =>
             generator'.manifest.envelope \in 1 .. contents'
  BY <1>1, <1>2 DEF ConfigInv
<1>5. CASE CreateEnvelope
  BY <1>5 DEF CreateEnvelope, ConfigInv
<1>6. CASE FillEnvelope
  BY <1>6 DEF FillEnvelope, ConfigInv
<1>7. CASE RemoveEnvelope
  BY <1>7 DEF RemoveEnvelope, ConfigInv
<1>8. CASE HashInputs
  BY <1>8 DEF HashInputs, ConfigInv, Manifests, Absent
<1>9. CASE CreateDirectory
  BY <1>3, <1>9 DEF CreateDirectory, ConfigInv, Idle
<1>10. CASE WriteManifest
  BY <1>10 DEF WriteManifest, ConfigInv
<1>11. CASE WriteAttestation
  BY <1>3, <1>11 DEF WriteAttestation, ConfigInv, Idle
<1>12. CASE StopGenerator
  BY <1>3, <1>12 DEF StopGenerator, ConfigInv, Idle
<1>13. CASE RemoveDirectory
  BY <1>3, <1>13 DEF RemoveDirectory, ConfigInv
<1> QED BY <1>5, <1>6, <1>7, <1>8, <1>9, <1>10, <1>11, <1>12, <1>13 DEF Tools

\* readProviderConfig reads the settings and then one file after the other.
LEMMA ReadingKeeps ==
  ASSUME ConfigInv,
         \/ ReadSettings \/ ReadManifest \/ ReadAttestation
         \/ ProbeEnvelope \/ ParseEnvelope \/ HashEnvelope
  PROVE  ConfigInv'
<1>1. env' = env /\ UNCHANGED files
  BY DEF ReadSettings, ReadManifest, ReadAttestation, ProbeEnvelope,
         ParseEnvelope, HashEnvelope
<1>2. (SettingsAreAccepted' <=> SettingsAreAccepted) /\ Mode' = Mode
  BY <1>1, SameSettings
<1>3. /\ contents' = contents /\ generations' = generations
      /\ envelopeFile' = envelopeFile /\ manifestFile' = manifestFile
      /\ generator' = generator
  BY <1>1 DEF files
<1>4. CASE ReadSettings
  BY <1>1, <1>2, <1>3, <1>4 DEF ReadSettings, ConfigInv
<1>5. CASE ReadManifest
  BY <1>1, <1>2, <1>3, <1>5 DEF ReadManifest, Reject, ConfigInv
<1>6. CASE ReadAttestation
  BY <1>1, <1>2, <1>3, <1>6
     DEF ReadAttestation, AttestationMatches, Reject, ConfigInv
<1>7. CASE ProbeEnvelope
  BY <1>1, <1>2, <1>3, <1>7 DEF ProbeEnvelope, Reject, ConfigInv
<1>8. CASE ParseEnvelope
  <2>1. CASE reader'.at = "rejected" /\ reader' = [reader EXCEPT !.at = "rejected"]
    BY <1>1, <1>2, <1>3, <2>1 DEF ConfigInv
  <2>2. CASE /\ envelopeFile \notin {Absent, Partial}
             /\ reader' = [reader EXCEPT !.at = "hash", !.geometry = envelopeFile]
    <3>1. reader.at = "parse"
      BY <1>8 DEF ParseEnvelope
    <3>2. /\ envelopeFile = contents /\ contents \in Nat
          /\ reader.manifest.envelope \in 1 .. contents
      BY <2>2, <3>1 DEF ConfigInv
    <3>3. /\ reader' \in [at : {"settings", "manifest", "attestation", "probe",
                                "parse", "hash", "accepted", "rejected"},
                          manifest : Manifests, attested : Manifests,
                          geometry : Int]
          /\ reader'.at = "hash" /\ reader'.geometry = contents
          /\ reader'.manifest = reader.manifest
          /\ reader'.attested = reader.attested
      <4>1. contents \in Int
        BY <3>2
      <4>2. reader \in [at : {"settings", "manifest", "attestation", "probe",
                              "parse", "hash", "accepted", "rejected"},
                        manifest : Manifests, attested : Manifests,
                        geometry : Int]
        BY DEF ConfigInv
      <4> QED BY <2>2, <3>2, <4>1, <4>2
    <3>4. reader'.geometry \in reader'.manifest.envelope .. contents
      BY <3>2, <3>3
    <3> QED BY <1>1, <1>2, <1>3, <3>1, <3>2, <3>3, <3>4 DEF ConfigInv
  <2>3. reader \in [at : {"settings", "manifest", "attestation", "probe",
                          "parse", "hash", "accepted", "rejected"},
                    manifest : Manifests, attested : Manifests, geometry : Int]
    BY DEF ConfigInv
  <2> QED BY <1>8, <2>1, <2>2, <2>3 DEF ParseEnvelope, Reject
<1>9. CASE HashEnvelope
  BY <1>1, <1>2, <1>3, <1>9
     DEF HashEnvelope, Reject, ConfigInv, Manifests, Absent, Partial
<1> QED BY <1>4, <1>5, <1>6, <1>7, <1>8, <1>9

\* Every step of the reading, and of the tools meanwhile, keeps the invariant.
LEMMA ConfigNextKeeps ==
  ASSUME ConfigInv, [ConfigNext]_configVars
  PROVE  ConfigInv'
<1>1. CASE UNCHANGED configVars
  <2>1. /\ env' = env /\ reader' = reader
        /\ contents' = contents /\ generations' = generations
        /\ envelopeFile' = envelopeFile /\ manifestFile' = manifestFile
        /\ generator' = generator
    BY <1>1 DEF configVars, files
  <2>2. (SettingsAreAccepted' <=> SettingsAreAccepted) /\ Mode' = Mode
    BY <2>1, SameSettings
  <2> QED BY <2>1, <2>2 DEF ConfigInv
<1> QED BY <1>1, ToolsKeep, ReadingKeeps DEF ConfigNext

\* What the invariant says of an accepted configuration.
LEMMA ConfigIsHonest ==
  ASSUME ConfigInv
  PROVE  ConfigurationIsHonest
<1>1. AcceptedConfigIsOfOneVersion
  BY DEF ConfigInv, AcceptedConfigIsOfOneVersion
<1>2. CapabilityIsHonest
  <2>1. SUFFICES ASSUME reader.at = "accepted"
                 PROVE  CapabilityIsDisclosed <=> ScheduleProvided # "none"
    BY DEF CapabilityIsHonest
  <2>2. env.mode # "invalid"
    BY <2>1 DEF ConfigInv, SettingsAreAccepted
  <2>3. env.mode \in {"unset", "fixture", "configured", "self-hosted-routing"}
    BY <2>2, ProviderConfigurationAssumption DEF ConfigInv, Settings
  <2> QED BY <2>3 DEF CapabilityIsDisclosed, ScheduleProvided, Mode
<1> QED BY <1>1, <1>2 DEF ConfigurationIsHonest

-------------------------------------------------------------------------------
(* The pages of an OTP answer.                                             *)

\* What has been received is the beginning of the listing, and what was answered
\* is all of it.
PagesInv ==
  /\ scenario \in Scenarios
  /\ after \in 0 .. Len(scenario.listing)
  /\ outcome = "asking" =>
       /\ raw \in Seq(ToSet(scenario.listing))
       /\ Len(raw) = after
       /\ \A i \in 1 .. after : raw[i] = scenario.listing[i]
  /\ Answered => NothingIsCut

\* A listing is a sequence of its entries.
LEMMA ListingIsSequence ==
  ASSUME scenario \in Scenarios
  PROVE  /\ scenario.listing \in Seq(ToSet(scenario.listing))
         /\ Len(scenario.listing) \in Nat
         /\ DOMAIN scenario.listing = 1 .. Len(scenario.listing)
         /\ \A i \in 1 .. Len(scenario.listing) :
              scenario.listing[i] \in ToSet(scenario.listing)
<1>1. scenario.listing \in Seq(ToSet(scenario.listing))
  BY SelfHostedRoutingAssumption
<1> QED BY <1>1

\* A page of n entries after the first m.
LEMMA PageOf ==
  ASSUME NEW S, NEW s \in Seq(S), NEW m \in Nat, NEW n \in Nat,
         m + n <= Len(s)
  PROVE  /\ SubSeq(s, m + 1, m + n) \in Seq(S)
         /\ Len(SubSeq(s, m + 1, m + n)) = n
         /\ \A i \in 1 .. n : SubSeq(s, m + 1, m + n)[i] = s[m + i]
<1> DEFINE low == m + 1
           high == m + n
<1>1. low \in Int /\ high \in Int /\ \A i \in low .. high : s[i] \in S
  OBVIOUS
<1>2. /\ high - low + 1 = n
      /\ low <= high => high - low + 1 = n
      /\ ~(low <= high) => n = 0
      /\ \A i \in 1 .. n : low + i - 1 = m + i
  OBVIOUS
<1> HIDE DEF low, high
<1>3. /\ SubSeq(s, low, high) \in Seq(S)
      /\ Len(SubSeq(s, low, high)) =
           IF low <= high THEN high - low + 1 ELSE 0
      /\ \A i \in 1 .. high - low + 1 :
           SubSeq(s, low, high)[i] = s[low + i - 1]
  BY <1>1, SubSeqProperties
<1> QED BY <1>2, <1>3 DEF low, high

\* A page continues the listing where the last one ended; the last page of it
\* makes the answer whole, and too many itineraries or pages make it fail.
LEMMA PageKeeps ==
  ASSUME PagesInv, OtpAnswers
  PROVE  PagesInv'
<1> DEFINE list == scenario.listing
<1>1. PICK count \in 0 .. Len(list) - after, more \in BOOLEAN,
           cursor \in BOOLEAN :
        /\ more \/ after + count = Len(list)
        /\ ReceivePage(count, more, cursor)
  BY DEF OtpAnswers
<1> DEFINE next == SubSeq(list, after + 1, after + count)
           received == raw \o next
<1>2. /\ outcome = "asking" /\ scenario' = scenario /\ raw' = received
      /\ request.mode = "transit"
      /\ IF Len(received) > MaxItineraries THEN Fail
         ELSE IF ~more THEN AnswerWith(received)
         ELSE IF ~cursor \/ page = MaxPages - 1 THEN Fail
         ELSE after' = after + count /\ UNCHANGED <<outcome, routes>>
  BY <1>1 DEF ReceivePage
<1>3. /\ list \in Seq(ToSet(list)) /\ Len(list) \in Nat
      /\ DOMAIN list = 1 .. Len(list)
      /\ \A i \in 1 .. Len(list) : list[i] \in ToSet(list)
      /\ scenario \in Scenarios /\ after \in 0 .. Len(list)
      /\ raw \in Seq(ToSet(list)) /\ Len(raw) = after
      /\ \A i \in 1 .. after : raw[i] = list[i]
  BY <1>2, ListingIsSequence DEF PagesInv
<1>4. after \in Nat /\ count \in Nat /\ after + count \in 0 .. Len(list)
  BY <1>3
<1> HIDE DEF list
<1>5. /\ next \in Seq(ToSet(list)) /\ Len(next) = count
      /\ \A i \in 1 .. count : next[i] = list[after + i]
  <2>1. after + count <= Len(list)
    BY <1>3, <1>4
  <2> QED BY <1>3, <1>4, <2>1, PageOf
<1> HIDE DEF next
<1>6. /\ received \in Seq(ToSet(list)) /\ Len(received) = after + count
      /\ \A i \in 1 .. after + count : received[i] = list[i]
  <2>1. received \in Seq(ToSet(list)) /\ Len(received) = after + count
    BY <1>3, <1>4, <1>5
  <2>2. ASSUME NEW i \in 1 .. after + count
        PROVE  received[i] = list[i]
    <3>1. CASE i <= after
      BY <1>3, <1>4, <1>5, <3>1
    <3>2. CASE ~(i <= after)
      <4>1. i - after \in 1 .. count /\ after + (i - after) = i
        BY <1>4, <3>2
      <4>2. received[i] = next[i - after]
        BY <1>3, <1>4, <1>5, <3>2, <4>1, ConcatProperties
      <4> QED BY <1>5, <4>1, <4>2
    <3> QED BY <3>1, <3>2
  <2> QED BY <2>1, <2>2
<1> HIDE DEF received
<1>7. CASE Fail
  BY <1>2, <1>3, <1>7 DEF Fail, PagesInv, Answered, list
<1>8. CASE ~more /\ AnswerWith(received) /\ ~Fail
  <2>1. /\ outcome' = "answered" /\ after' = after
        /\ routes' = [i \in DOMAIN received |-> ItineraryRoute(received[i])]
    BY <1>8 DEF AnswerWith
  <2>2. after + count = Len(list)
    BY <1>1, <1>8 DEF list
  <2>3. DOMAIN received = 1 .. Len(list) /\ Len(received) = Len(list)
    BY <1>6, <2>2
  <2>4. \A i \in 1 .. Len(list) : received[i] = list[i]
    BY <1>6, <2>2
  <2>5. Len(routes') = Len(list) /\ DOMAIN routes' = 1 .. Len(list)
    BY <1>3, <2>1, <2>3
  <2>6. \A i \in DOMAIN routes' : routes'[i] = ItineraryRoute(list[i])
    BY <2>1, <2>3, <2>4, <2>5
  <2>8. NothingIsCut'
    BY <1>2, <2>5, <2>6 DEF NothingIsCut, list
  <2> QED BY <1>2, <1>3, <2>1, <2>8 DEF PagesInv, Answered, list
<1>9. CASE after' = after + count /\ UNCHANGED <<outcome, routes>>
  BY <1>2, <1>3, <1>4, <1>6, <1>9 DEF PagesInv, Answered, list
<1> QED BY <1>2, <1>7, <1>8, <1>9

\* A call starts with nothing received.
LEMMA RoutingStartInv ==
  ASSUME RoutingStart, scenario \in Scenarios
  PROVE  PagesInv
<1>1. after = 0 /\ raw = <<>> /\ outcome = "asking"
  BY DEF RoutingStart
<1>2. Len(scenario.listing) \in Nat
  BY ListingIsSequence
<1>3. after \in 0 .. Len(scenario.listing)
  BY <1>1, <1>2
<1>4. raw \in Seq(ToSet(scenario.listing)) /\ Len(raw) = after
  BY <1>1
<1>5. \A i \in 1 .. after : raw[i] = scenario.listing[i]
  BY <1>1
<1> QED BY <1>1, <1>3, <1>4, <1>5 DEF PagesInv, Answered

\* Every step of a call keeps what is said of its pages.
LEMMA RoutingNextKeeps ==
  ASSUME PagesInv, [RoutingNext]_routingVars
  PROVE  PagesInv'
<1>1. CASE UNCHANGED routingVars
  <2>1. /\ scenario' = scenario /\ after' = after /\ raw' = raw
        /\ outcome' = outcome /\ routes' = routes
    BY <1>1 DEF routingVars
  <2> QED BY <2>1 DEF PagesInv, Answered, NothingIsCut, request
<1>2. CASE RefuseRequest \/ EngineFails
  <2>1. scenario' = scenario /\ after' = after /\ outcome' = "failed"
    BY <1>2 DEF RefuseRequest, EngineFails
  <2> QED BY <2>1 DEF PagesInv, Answered
<1>3. CASE OtpAnswers
  BY <1>3, PageKeeps
<1>4. CASE GraphHopperAnswers
  <2>1. /\ scenario' = scenario /\ after' = after
        /\ outcome' \in {"answered", "failed"}
        /\ request.mode # "transit"
    BY <1>4 DEF GraphHopperAnswers
  <2>2. NothingIsCut'
    BY <2>1 DEF NothingIsCut, request
  <2> QED BY <2>1, <2>2 DEF PagesInv, Answered
<1> QED BY <1>1, <1>2, <1>3, <1>4 DEF RoutingNext

-------------------------------------------------------------------------------
(* The layer.                                                              *)

IInv == LimiterInv /\ ConfigInv /\ PagesInv

\* Every part starts as it would alone.
LEMMA InitHolds == ProvidersInit => IInv
<1> SUFFICES ASSUME ProvidersInit PROVE IInv
  OBVIOUS
<1>1. OneEnvironment \in Environments /\ OneScenario \in Scenarios
  BY ProviderConfigurationAssumption, SelfHostedRoutingAssumption
     DEF OneEnvironment, OneScenario
<1>2. env \in Environments /\ scenario \in Scenarios
  BY <1>1 DEF ProvidersInit, Inputs
<1>3. Init /\ ConfigStart /\ RoutingStart
  BY DEF ProvidersInit
<1> QED BY <1>2, <1>3, LimiterInit, ConfigStartInv, RoutingStartInv DEF IInv

\* A step of the layer is a step of one part, and none of the others.
LEMMA StepOfParts ==
  ASSUME [ProvidersNext]_<<part, vars, answerVars, configVars, routingVars>>
  PROVE  /\ [Next]_vars
         /\ [ConfigNext]_configVars
         /\ [RoutingNext]_routingVars
BY DEF ProvidersNext

\* Every step of the layer keeps the invariant and the order of the queue.
LEMMA NextHolds ==
  ASSUME IInv, [ProvidersNext]_<<part, vars, answerVars, configVars, routingVars>>
  PROVE  IInv' /\ FirstComeStep
BY StepOfParts, LimiterNext, ConfigNextKeeps, RoutingNextKeeps DEF IInv

\* In every behaviour of the provider layer each part is as its invariant says.
THEOREM Invariance == ProvidersSpec => []IInv
<1>1. ProvidersInit => IInv
  BY InitHolds
<1>2. IInv /\ [ProvidersNext]_<<part, vars, answerVars, configVars, routingVars>>
        => IInv'
  BY NextHolds
<1> QED BY <1>1, <1>2, PTL DEF ProvidersSpec

\* The limiter of lib/providers/mvg.ts counts exactly the requests under way,
\* never more than it may, leaves no slot free while a lookup waits, and its
\* queue holds exactly the lookups that wait, each once.
THEOREM SlotsHold == ProvidersSpec => []SlotsAreUsed
<1>1. IInv => SlotsAreUsed
  BY DEF IInv, LimiterInv
<1> QED BY <1>1, Invariance, PTL

\* No lookup that waits is overtaken: what stands in front of it never grows, and
\* only what stood in front of it starts while it waits (run and the abort
\* listener of lib/providers/mvg.ts).
THEOREM FirstComeHolds == ProvidersSpec => FirstComeFirstServed
<1>1. IInv /\ [ProvidersNext]_<<part, vars, answerVars, configVars, routingVars>>
        => [FirstComeStep]_vars
  BY NextHolds
<1>2. [][FirstComeStep]_vars => FirstComeFirstServed
  <2>1. FirstComeStep =>
          \A l \in Lookups :
            job[l] = "queued" /\ job'[l] = "queued" =>
              /\ Ahead(l)' \subseteq Ahead(l)
              /\ \A k \in Lookups :
                   k \notin InFlight /\ k \in InFlight' => k \in Ahead(l)
    BY DEF FirstComeStep
  <2> QED BY <2>1, PTL DEF FirstComeFirstServed
<1> QED BY <1>1, <1>2, Invariance, PTL DEF ProvidersSpec

\* A configuration that is accepted is of one version - the envelope parsed is
\* the one whose digest the manifest states, and the attestation is the
\* manifest's - though the tools write the files meanwhile, and it discloses a
\* schedule exactly when it provides one (lib/providers/config.ts).
THEOREM ConfigurationHolds == ProvidersSpec => []ConfigurationIsHonest
<1>1. IInv => ConfigurationIsHonest
  BY ConfigIsHonest DEF IInv
<1> QED BY <1>1, Invariance, PTL

\* A transit answer of OTP is the whole listing, in its order, though it came in
\* pages: part of RoutesAreWhole (lib/providers/self-hosted-routing.ts).
THEOREM NothingCutHolds == ProvidersSpec => [](Answered => NothingIsCut)
<1>1. IInv => (Answered => NothingIsCut)
  BY DEF IInv, PagesInv
<1> QED BY <1>1, Invariance, PTL
===============================================================================
